-------------------------- MODULE DatabaseProofs --------------------------
(***************************************************************************)
(* What the callers of the database rely on: the API's lists, read in      *)
(* pages (Paging), for any number of rows, limits and faults; and          *)
(* WithRetry (Retry), for any number of attempts and any delays.           *)
(***************************************************************************)
EXTENDS Paging, Retry, FiniteSetTheorems, TLAPS

-----------------------------------------------------------------------------
(* Positions in a table.                                                   *)

\* A position, as the number of those before and after it.
LEMMA Position ==
    ASSUME NEW n \in Nat, NEW i \in 1..n
    PROVE  \E p \in Nat, q \in Nat : i = p + 1 /\ n = p + 1 + q
<1>1. i - 1 \in Nat /\ n - i \in Nat /\ i = (i - 1) + 1 /\ n = (i - 1) + 1 + (n - i)
  OBVIOUS
<1>. QED  BY <1>1, Zenon

\* What RemoveAt returns, position by position.
LEMMA Removed ==
    ASSUME NEW S, NEW s \in Seq(S), NEW p \in Nat, NEW q \in Nat, Len(s) = p + 1 + q
    PROVE  LET r == RemoveAt(s, p + 1)
           IN  /\ r \in Seq(S) /\ Len(r) = p + q
               /\ \A j \in 1..p : r[j] = s[j]
               /\ \A j \in 1..q : r[p + j] = s[p + 1 + j]
<1>. DEFINE h == SubSeq(s, 1, p)
            t == SubSeq(s, p + 2, Len(s))
<1>1. RemoveAt(s, p + 1) = h \o t
  <2>1. p + 1 - 1 = p /\ p + 1 + 1 = p + 2
    OBVIOUS
  <2>. QED  BY <2>1 DEF RemoveAt
<1>2. h \in Seq(S) /\ Len(h) = p /\ \A j \in 1..p : h[j] = s[j]
  OBVIOUS
<1>3. t \in Seq(S) /\ Len(t) = q /\ \A j \in 1..q : t[j] = s[p + 1 + j]
  OBVIOUS
<1>. HIDE DEF h, t
<1>4. h \o t \in Seq(S) /\ Len(h \o t) = p + q
  BY <1>2, <1>3
<1>5. /\ \A j \in 1..p : (h \o t)[j] = h[j]
      /\ \A j \in 1..q : (h \o t)[p + j] = t[j]
  <2>1. ASSUME NEW j \in 1..p PROVE (h \o t)[j] = h[j]
    BY <1>2, <1>3
  <2>2. ASSUME NEW j \in 1..q PROVE (h \o t)[p + j] = t[j]
    BY <1>2, <1>3
  <2>. QED  BY <2>1, <2>2
<1>6. /\ \A j \in 1..p : (h \o t)[j] = s[j]
      /\ \A j \in 1..q : (h \o t)[p + j] = s[p + 1 + j]
  BY <1>2, <1>3, <1>4, <1>5
<1>. QED  BY <1>1, <1>4, <1>6, Zenon

\* No row is in the table twice.
Distinct(s) == \A i, j \in DOMAIN s : s[i] = s[j] => i = j

\* A table whose rows are distinct has as many rows as there are identifiers in
\* it, and no more than there can be.
LEMMA DistinctCount ==
    ASSUME NEW m \in Nat, NEW s \in Seq(1..m), Distinct(s)
    PROVE  /\ IsFiniteSet(ToSet(s)) /\ Cardinality(ToSet(s)) = Len(s)
           /\ Len(s) <= m
<1>1. DOMAIN s = 1..Len(s) /\ Len(s) \in Nat /\ s \in [1..Len(s) -> ToSet(s)]
  BY DEF ToSet
<1>2. s \in Bijection(1..Len(s), ToSet(s))
  BY <1>1 DEF Distinct, ToSet, Bijection, Injection, Surjection, IsInjective
<1>3. \A n \in Nat : IsFiniteSet(1..n) /\ Cardinality(1..n) = n
  <2>. SUFFICES ASSUME NEW n \in Nat PROVE IsFiniteSet(1..n) /\ Cardinality(1..n) = n
    OBVIOUS
  <2>. QED  BY FS_Interval
<1>4. IsFiniteSet(ToSet(s)) /\ Cardinality(ToSet(s)) = Len(s)
  BY <1>1, <1>2, <1>3, FS_Bijection DEF ExistsBijection
<1>5. ToSet(s) \subseteq 1..m
  BY DEF ToSet
<1>6. IsFiniteSet(1..m) /\ Cardinality(1..m) = m
  BY <1>3
<1>7. Cardinality(ToSet(s)) <= Cardinality(1..m)
  BY <1>5, <1>6, FS_Subset
<1>. QED  BY <1>4, <1>6, <1>7

-----------------------------------------------------------------------------
(* Types.                                                                  *)

\* TypeOK without what follows from it.
Types ==
    /\ list \in Lists /\ pc \in {"ask", "page", "done"}
    /\ made \in 0..MaxRows /\ rows \in Seq(1..made) /\ Distinct(rows)
    /\ created \in [1..made -> Times]
    /\ query \in [limit: Numbers, offset: Numbers]
    /\ total \in 0..MaxRows /\ pages \in 0..2 /\ faults \in 0..MaxFaults
    /\ listed \subseteq 1..made /\ repeated \subseteq listed /\ stayed \subseteq 1..made
    /\ grown \in BOOLEAN /\ raced \in BOOLEAN
    /\ refused \in 0..faults

\* Whatever the query holds, the parameters ParseQuery makes of it are in range.
LEMMA LimitType ==
    ASSUME query \in [limit: Numbers, offset: Numbers]
    PROVE  /\ Limit \in 1..MaxLimit /\ Offset \in 0..MaxInt
           /\ InInt32(Limit) /\ InInt32(Offset)
<1>1. Limit \in 1..MaxLimit
  BY LimitsAssumption DEF Limit, ParseLimit, Numbers
<1>2. Offset \in 0..MaxInt
  BY LimitsAssumption DEF Offset, ParseOffset, Numbers
<1>. QED  BY <1>1, <1>2, LimitsAssumption DEF InInt32

\* The query is in range once it is parsed, and the table has as many rows as
\* identifiers.
LEMMA TypesParts == Types => TypeOK
<1>. SUFFICES ASSUME Types PROVE TypeOK
  OBVIOUS
<1>1. Limit \in 1..MaxLimit /\ Offset \in 0..MaxInt
  BY LimitType DEF Types
<1>2. made \in Nat /\ rows \in Seq(1..made) /\ Distinct(rows)
  BY LimitsAssumption DEF Types
<1>3. Cardinality(ToSet(rows)) = Len(rows)
  BY <1>2, DistinctCount
<1>4. ToSet(rows) \subseteq 1..made
  BY <1>2 DEF ToSet
<1>5. {grown, raced} \subseteq BOOLEAN
  BY DEF Types
<1>. QED  BY <1>1, <1>3, <1>4, <1>5 DEF Types, TypeOK

\* A count is in range.
LEMMA LenBound == ASSUME Types PROVE Len(rows) \in 0..made /\ Len(rows) \in 0..MaxRows
<1>1. made \in Nat /\ rows \in Seq(1..made) /\ Distinct(rows)
  BY LimitsAssumption DEF Types
<1>2. Len(rows) \in Nat /\ Len(rows) <= made
  BY <1>1, DistinctCount
<1>. QED  BY <1>2, LimitsAssumption DEF Types

\* Where the rows are after an insertion and a deletion.
LEMMA InsertRows ==
    ASSUME Types, Insert
    PROVE  \E p \in 0..Len(rows) :
             /\ rows' \in Seq(1..made') /\ Len(rows') = Len(rows) + 1
             /\ \A j \in 1..p : rows'[j] = rows[j]
             /\ rows'[p + 1] = made + 1
             /\ \A j \in (p + 1)..Len(rows) : rows'[j + 1] = rows[j]
<1>1. made \in Nat /\ made' = made + 1 /\ Len(rows) \in Nat
  BY LimitsAssumption DEF Types, Insert
<1>2. PICK i \in 1..(Len(rows) + 1) : rows' = InsertAt(rows, i, made')
  BY Zenon DEF Insert
<1>3. PICK p \in Nat, q \in Nat : i = p + 1 /\ Len(rows) = p + q
  <2>1. /\ i - 1 \in Nat /\ Len(rows) - (i - 1) \in Nat
        /\ i = (i - 1) + 1 /\ Len(rows) = (i - 1) + (Len(rows) - (i - 1))
    BY <1>1
  <2>. QED  BY <2>1, Zenon
<1>4. rows \in Seq(1..made') /\ made' \in 1..made'
  BY <1>1 DEF Types
<1>. DEFINE r == InsertAt(rows, p + 1, made')
            S == 1..made'
            e == made'
<1>5. /\ r \in Seq(1..made') /\ Len(r) = p + q + 1
      /\ \A j \in 1..p : r[j] = rows[j]
      /\ r[p + 1] = made'
      /\ \A j \in 1..q : r[p + 1 + j] = rows[p + j]
  <2>1. Len(rows) = p + q
    BY <1>3
  <2>2. rows \in Seq(S) /\ e \in S
    BY <1>4
  <2>. HIDE DEF S, e
  <2>3. LET t == InsertAt(rows, p + 1, e)
        IN  /\ t \in Seq(S) /\ Len(t) = p + q + 1
            /\ \A j \in 1..p : t[j] = rows[j]
            /\ t[p + 1] = e
            /\ \A j \in 1..q : t[p + 1 + j] = rows[p + j]
    BY <2>1, <2>2 DEF InsertAt
  <2>. QED  BY <2>3, Zenon DEF S, e
<1>6. rows' = r
  BY <1>2, <1>3
<1>. HIDE DEF r
<1>7. ASSUME NEW j \in (p + 1)..Len(rows) PROVE r[j + 1] = rows[j]
  <2>1. PICK k \in 1..q : k = j - p /\ p + 1 + k = j + 1 /\ p + k = j
    BY <1>3
  <2>. QED  BY <1>5, <2>1
<1>. QED  BY <1>1, <1>3, <1>5, <1>6, <1>7

LEMMA DeleteRows ==
    ASSUME Types, NEW i \in DOMAIN rows, Delete(i)
    PROVE  /\ rows' \in Seq(1..made) /\ Len(rows') = Len(rows) - 1
           /\ \A j \in 1..(i - 1) : rows'[j] = rows[j]
           /\ \A j \in i..(Len(rows) - 1) : rows'[j] = rows[j + 1]
<1>1. PICK p \in Nat, q \in Nat : i = p + 1 /\ Len(rows) = p + 1 + q
  <2>1. Len(rows) \in Nat /\ i \in 1..Len(rows)
    <3>1. rows \in Seq(1..made)
      BY DEF Types
    <3>. QED  BY <3>1
  <2>. QED  BY <2>1, Position
<1>. DEFINE r == RemoveAt(rows, p + 1)
<1>2. /\ r \in Seq(1..made) /\ Len(r) = p + q
      /\ \A j \in 1..p : r[j] = rows[j]
      /\ \A j \in 1..q : r[p + j] = rows[p + 1 + j]
  <2>1. Len(rows) = p + 1 + q /\ rows \in Seq(1..made)
    BY <1>1 DEF Types
  <2>. QED  BY <2>1, Removed, Zenon
<1>3. rows' = r
  BY <1>1 DEF Delete
<1>. HIDE DEF r
<1>4. ASSUME NEW j \in i..(Len(rows) - 1) PROVE r[j] = rows[j + 1]
  <2>1. PICK k \in 1..q : k = j - p /\ p + k = j /\ p + 1 + k = j + 1
    BY <1>1
  <2>. QED  BY <1>2, <2>1
<1>. QED  BY <1>1, <1>2, <1>3, <1>4

\* Insertions and deletions keep the rows distinct: a row is found one position
\* away from where it was.
LEMMA InsertDistinct ==
    ASSUME Types, Insert
    PROVE  rows' \in Seq(1..made') /\ Distinct(rows') /\ Len(rows') = Len(rows) + 1
<1>1. PICK p \in 0..Len(rows) :
             /\ rows' \in Seq(1..made') /\ Len(rows') = Len(rows) + 1
             /\ \A j \in 1..p : rows'[j] = rows[j]
             /\ rows'[p + 1] = made + 1
             /\ \A j \in (p + 1)..Len(rows) : rows'[j + 1] = rows[j]
  BY InsertRows
<1>2. /\ rows \in Seq(1..made) /\ made \in Nat /\ Len(rows) \in Nat
      /\ \A i \in 1..Len(rows) : rows[i] \in 1..made
  BY LimitsAssumption DEF Types
<1>. DEFINE old(j) == IF j <= p THEN j ELSE j - 1
<1>3. ASSUME NEW j \in 1..Len(rows'), j # p + 1
      PROVE  old(j) \in 1..Len(rows) /\ rows'[j] = rows[old(j)]
  <2>1. CASE j <= p
    BY <1>1, <2>1
  <2>2. CASE j > p + 1
    <3>1. j - 1 \in (p + 1)..Len(rows) /\ (j - 1) + 1 = j
      BY <1>1, <1>2, <2>2
    <3>. QED  BY <1>1, <3>1, <2>2
  <2>. QED  BY <1>1, <1>3, <2>1, <2>2
<1>4. ASSUME NEW j \in 1..Len(rows'), j # p + 1 PROVE rows'[j] # made + 1
  BY <1>2, <1>3, <1>4
<1>5. ASSUME NEW i \in 1..Len(rows'), NEW j \in 1..Len(rows'), rows'[i] = rows'[j]
      PROVE  i = j
  <2>1. CASE i = p + 1 \/ j = p + 1
    BY <1>1, <1>4, <1>5, <2>1
  <2>2. CASE i # p + 1 /\ j # p + 1
    <3>1. rows[old(i)] = rows[old(j)] /\ old(i) \in DOMAIN rows /\ old(j) \in DOMAIN rows
      <4>1. DOMAIN rows = 1..Len(rows)
        BY <1>2
      <4>. HIDE DEF old
      <4>. QED  BY <1>3, <1>5, <2>2, <4>1, Zenon
    <3>2. old(i) = old(j)
      <4>1. Distinct(rows)
        BY DEF Types
      <4>. HIDE DEF old
      <4>. QED  BY <3>1, <4>1 DEF Distinct
    <3>. QED  BY <1>1, <3>2, <2>2
  <2>. QED  BY <2>1, <2>2
<1>6. DOMAIN rows' = 1..Len(rows')
  BY <1>1
<1>. QED  BY <1>1, <1>5, <1>6 DEF Distinct

LEMMA DeleteDistinct ==
    ASSUME Types, NEW i \in DOMAIN rows, Delete(i)
    PROVE  Distinct(rows')
<1>1. /\ rows' \in Seq(1..made) /\ Len(rows') = Len(rows) - 1
      /\ \A j \in 1..(i - 1) : rows'[j] = rows[j]
      /\ \A j \in i..(Len(rows) - 1) : rows'[j] = rows[j + 1]
  BY DeleteRows
<1>2. rows \in Seq(1..made) /\ Len(rows) \in Nat /\ i \in 1..Len(rows)
  BY DEF Types
<1>. DEFINE old(j) == IF j <= i - 1 THEN j ELSE j + 1
<1>3. ASSUME NEW j \in 1..Len(rows')
      PROVE  old(j) \in DOMAIN rows /\ rows'[j] = rows[old(j)]
  <2>1. DOMAIN rows = 1..Len(rows) /\ j \in 1..(Len(rows) - 1)
    BY <1>1, <1>2
  <2>2. CASE j <= i - 1
    <3>1. j \in 1..(i - 1) /\ j \in 1..Len(rows) /\ old(j) = j
      BY <1>2, <2>1, <2>2
    <3>. QED  BY <1>1, <2>1, <3>1
  <2>3. CASE ~(j <= i - 1)
    <3>1. j \in i..(Len(rows) - 1) /\ j + 1 \in 1..Len(rows) /\ old(j) = j + 1
      BY <1>2, <2>1, <2>3
    <3>. QED  BY <1>1, <2>1, <3>1
  <2>. QED  BY <2>2, <2>3
<1>4. ASSUME NEW k \in 1..Len(rows'), NEW j \in 1..Len(rows'), rows'[k] = rows'[j]
      PROVE  k = j
  <2>1. rows[old(k)] = rows[old(j)] /\ old(k) \in DOMAIN rows /\ old(j) \in DOMAIN rows
    BY <1>3, <1>4
  <2>2. old(k) = old(j)
    <3>1. Distinct(rows)
      BY DEF Types
    <3>. HIDE DEF old
    <3>. QED  BY <2>1, <3>1 DEF Distinct
  <2>. QED  BY <1>2, <2>2
<1>5. DOMAIN rows' = 1..Len(rows')
  BY <1>1
<1>. QED  BY <1>4, <1>5 DEF Distinct

\* What a page can hold.
LEMMA PageRows ==
    ASSUME NEW S, NEW order \in Seq(S)
    PROVE  Page(order) \subseteq S
BY DEF Page

\* Any order has each of the rows at one position.
LEMMA OrdersSeq ==
    ASSUME NEW S, IsFiniteSet(S), NEW order \in SetToSeqs(S)
    PROVE  /\ order \in Seq(S) /\ Len(order) = Cardinality(S)
           /\ \A x \in S : \E i \in 1..Len(order) : x = order[i]
<1>. DEFINE D == 1..Cardinality(S)
<1>1. Cardinality(S) \in Nat
  BY FS_CardinalityType
<1>2. order \in [D -> S] /\ \A i, j \in D : i # j => order[i] # order[j]
  BY DEF SetToSeqs
<1>3. order \in Seq(S) /\ Len(order) = Cardinality(S)
  BY <1>1, <1>2
<1>4. order \in Injection(D, S)
  BY <1>2 DEF Injection, IsInjective
<1>5. Cardinality(D) = Cardinality(S)
  <2>1. \A n \in Nat : Cardinality(1..n) = n
    <3>. SUFFICES ASSUME NEW n \in Nat PROVE Cardinality(1..n) = n
      OBVIOUS
    <3>. QED  BY FS_Interval
  <2>. QED  BY <1>1, <2>1
<1>6. order \in Surjection(D, S)
  BY <1>4, <1>5, FS_Injection
<1>7. \A x \in S : \E i \in D : x = order[i]
  BY <1>6 DEF Surjection
<1>. QED  BY <1>1, <1>3, <1>7

LEMMA InitTypes == Init => Types
<1>. SUFFICES ASSUME Init PROVE Types
  OBVIOUS
<1>1. made \in Nat /\ made \in 0..MaxRows
  BY LimitsAssumption DEF Init
<1>2. rows \in Seq(1..made) /\ Distinct(rows)
  BY <1>1 DEF Init, Distinct
<1>3. query \in [limit: Numbers, offset: Numbers] /\ created \in [1..made -> Times]
  BY DEF Init
<1>4. faults \in 0..MaxFaults /\ refused \in 0..faults /\ total \in 0..MaxRows
  BY LimitsAssumption DEF Init
<1>5. grown \in BOOLEAN /\ raced \in BOOLEAN
  BY DEF Init
<1>. QED  BY <1>1, <1>2, <1>3, <1>4, <1>5 DEF Init, Types

LEMMA WiderSeq ==
    ASSUME NEW A, NEW B, A \subseteq B, NEW s \in Seq(A)
    PROVE  s \in Seq(B)
OBVIOUS

LEMMA RowsMade == ASSUME Types PROVE ToSet(rows) \subseteq 1..made
<1>1. rows \in Seq(1..made) /\ made \in Nat
  BY LimitsAssumption DEF Types
<1>. QED  BY <1>1 DEF ToSet

\* The rows a page is taken from are those of the table, in some order.
LEMMA OfferedRows ==
    ASSUME Types, NEW order \in Orders
    PROVE  /\ order \in Seq(ToSet(rows)) /\ order \in Seq(1..made)
           /\ Len(order) = Len(rows)
           /\ \A x \in ToSet(rows) : \E i \in 1..Len(order) : x = order[i]
<1>1. made \in Nat /\ rows \in Seq(1..made) /\ Distinct(rows)
  BY LimitsAssumption DEF Types
<1>2. IsFiniteSet(ToSet(rows)) /\ Cardinality(ToSet(rows)) = Len(rows)
  BY <1>1, DistinctCount
<1>3. order \in SetToSeqs(ToSet(rows))
  BY DEF Orders
<1>4. /\ order \in Seq(ToSet(rows)) /\ Len(order) = Len(rows)
      /\ \A x \in ToSet(rows) : \E i \in 1..Len(order) : x = order[i]
  BY <1>2, <1>3, OrdersSeq
<1>5. order \in Seq(1..made)
  BY <1>4, RowsMade, WiderSeq
<1>. QED  BY <1>4, <1>5

\* A guild that shares its time with no other is where the table has it.
LEMMA AlonePage ==
    ASSUME Types, NEW order \in Orders, NEW x, Alone(x)
    PROVE  x \in Page(order) <=>
             \E i \in DOMAIN rows : i \in (Offset + 1)..(Offset + Limit) /\ x = rows[i]
<1>1. rows \in Seq(1..made) /\ DOMAIN rows = 1..Len(rows)
  BY DEF Types
<1>2. DOMAIN order = DOMAIN rows
  BY <1>1, OfferedRows
<1>3. \A i \in DOMAIN rows : created[order[i]] = created[rows[i]]
  BY DEF Orders
<1>4. ASSUME NEW i \in DOMAIN rows PROVE order[i] \in ToSet(rows) /\ rows[i] \in ToSet(rows)
  <2>1. order \in Seq(ToSet(rows))
    BY OfferedRows
  <2>2. order[i] \in ToSet(rows)
    BY <1>2, <2>1
  <2>. QED  BY <2>2 DEF ToSet
<1>5. ASSUME NEW i \in DOMAIN rows PROVE x = order[i] <=> x = rows[i]
  BY <1>3, <1>4 DEF Alone
<1>. QED  BY <1>2, <1>5 DEF Page

\* A next offset is below the total and so below MaxInt.
LEMMA ListTypes ==
    ASSUME Types, List
    PROVE  Types'
<1>1. /\ Limit \in 1..MaxLimit /\ Offset \in 0..MaxInt
      /\ query \in [limit: Numbers, offset: Numbers] /\ total \in 0..MaxRows
  BY LimitType DEF Types
<1>2. query' \in [limit: Numbers, offset: Numbers]
  <2>1. CASE HasMore
    <3>1. Offset + Limit \in Numbers
      BY <1>1, <2>1, LimitsAssumption DEF HasMore, Numbers
    <3>2. query' = [query EXCEPT !.offset = Offset + Limit]
      BY <2>1 DEF List, NextOffset
    <3>. QED  BY <1>1, <3>1, <3>2
  <2>2. CASE ~HasMore
    BY <1>1, <2>2 DEF List
  <2>. QED  BY <2>1, <2>2
<1>3. pc' \in {"ask", "done"}
  BY DEF List
<1>4. PICK order \in Orders :
        /\ listed' = listed \cup Page(order)
        /\ repeated' = repeated \cup (Page(order) \cap listed)
  BY Zenon DEF List
<1>5. Page(order) \subseteq 1..made
  <2>1. order \in Seq(1..made)
    BY OfferedRows
  <2>. QED  BY <2>1, PageRows
<1>6. listed' \subseteq 1..made /\ repeated' \subseteq listed'
  BY <1>4, <1>5 DEF Types
<1>7. pages' \in 0..2
  BY DEF List, Types
<1>. QED  BY <1>2, <1>3, <1>6, <1>7 DEF List, Types, Times, history, table

\* A count is never refused for its parameters.
LEMMA CountIs ==
    ASSUME Types, Count
    PROVE  /\ pc' = "page" /\ total' = Len(rows)
           /\ stayed' = (IF Began THEN Behind ELSE stayed)
           /\ grown'  = (IF Began THEN FALSE ELSE grown)
           /\ raced'  = FALSE
           /\ UNCHANGED <<list, table, query, client, faults, refused>>
<1>1. InInt32(Limit) /\ InInt32(Offset)
  BY LimitType DEF Types
<1>. QED  BY <1>1 DEF Count

LEMMA StepTypes == Types /\ [Next]_vars => Types'
<1>. SUFFICES ASSUME Types, [Next]_vars PROVE Types'
  OBVIOUS
<1>1. CASE Count
  <2>1. total' \in 0..MaxRows
    BY <1>1, CountIs, LenBound
  <2>2. stayed' \subseteq 1..made
    <3>1. stayed \subseteq 1..made
      BY DEF Types
    <3>2. Behind \subseteq ToSet(rows) /\ ToSet(rows) \subseteq 1..made
      BY RowsMade DEF Behind, ToSet
    <3>. QED  BY <1>1, <3>1, <3>2, CountIs
  <2>. QED  BY <1>1, <2>1, <2>2, CountIs DEF Types, Times, client, table
<1>2. CASE List
  BY <1>2, ListTypes
<1>3. CASE Fault
  BY <1>3, LimitsAssumption DEF Fault, Refuse, Types, Times, client, history, table
<1>4. CASE Insert
  <2>1. rows' \in Seq(1..made') /\ Distinct(rows')
    BY <1>4, InsertDistinct
  <2>2. made' \in 0..MaxRows /\ made' = made + 1 /\ made \in Nat
    BY <1>4, LimitsAssumption DEF Insert, Types
  <2>3. 1..made \subseteq 1..made'
    BY <2>2
  <2>4. created' \in [1..made' -> Times']
    <3>1. PICK t \in Times : created' = [n \in 1..made' |-> IF n = made' THEN t ELSE created[n]]
      BY <1>4, Zenon DEF Insert
    <3>2. \A n \in 1..made' : n # made' => n \in 1..made
      BY <2>2
    <3>3. Times' = Times /\ created \in [1..made -> Times]
      BY <1>4 DEF Insert, Times, Types
    <3>. QED  BY <3>1, <3>2, <3>3
  <2>. QED  BY <1>4, <2>1, <2>2, <2>3, <2>4 DEF Insert, Types, client
<1>5. ASSUME NEW i \in DOMAIN rows, Delete(i) PROVE Types'
  <2>1. rows' \in Seq(1..made) /\ Distinct(rows')
    BY <1>5, DeleteRows, DeleteDistinct
  <2>. QED  BY <1>5, <2>1 DEF Delete, Types, Times, client
<1>6. CASE UNCHANGED vars
  BY <1>6 DEF vars, client, history, table, Types, Times, Distinct
<1>. QED  BY <1>1, <1>2, <1>3, <1>4, <1>5, <1>6 DEF Next, Walk

-----------------------------------------------------------------------------
(* The walk.                                                               *)

\* Before its first page the client has nothing.
First == pages = 0 => listed = {} /\ repeated = {} /\ pc # "done"

\* A total that no insertion has overtaken is not too small.
Counted == pc = "page" /\ ~raced => Len(rows) <= total

\* The rows the walk is about are still there.
Present == stayed \subseteq ToSet(rows)

\* Those of them before the offset are listed, if their place is certain:
\* insertions only move them back.
Kept == pc # "done" =>
    \A i \in DOMAIN rows :
        i <= Offset /\ rows[i] \in stayed /\ Alone(rows[i]) => rows[i] \in listed

\* While no guild is inserted, only those are.
InOrder == ~grown =>
    /\ \A x \in repeated : ~Alone(x)
    /\ pc # "done" =>
          \A x \in listed : Alone(x) => \E i \in DOMAIN rows : i <= Offset /\ x = rows[i]

IInv == /\ Types /\ First /\ Counted /\ Present /\ Kept /\ InOrder
        /\ Complete

LEMMA InitInv == Init => IInv
<1>. SUFFICES ASSUME Init PROVE IInv
  OBVIOUS
<1>1. Types
  BY InitTypes
<1>2. First /\ Counted /\ Present /\ Kept /\ InOrder /\ Complete
  BY DEF Init, First, Counted, Present, Kept, InOrder, Complete
<1>. QED  BY <1>1, <1>2 DEF IInv

\* The first count begins the walk: nothing is listed, and no row before the
\* offset is one the walk is about.
LEMMA CountKeeps ==
    ASSUME IInv, Count
    PROVE  (First /\ Counted /\ Present /\ Kept /\ InOrder /\ Complete)'
<1>1. /\ pc' = "page" /\ total' = Len(rows) /\ pc # "done"
      /\ stayed' = (IF Began THEN Behind ELSE stayed)
      /\ grown'  = (IF Began THEN FALSE ELSE grown)
      /\ UNCHANGED <<list, rows, created, query, listed, repeated, pages>>
  BY CountIs DEF IInv, Count, client, table
<1>2. Offset' = Offset /\ \A x : Alone(x)' = Alone(x)
  BY <1>1 DEF Offset, Alone
<1>3. Len(rows) \in Nat
  BY LenBound DEF IInv
<1>4. (First /\ Counted /\ Complete)'
  BY <1>1, <1>3 DEF IInv, First, Counted, Complete
<1>5. CASE Began
  <2>1. listed = {} /\ repeated = {}
    BY <1>5 DEF IInv, First, Began
  <2>2. Distinct(rows) /\ DOMAIN rows = 1..Len(rows) /\ Offset \in Nat
    BY LimitType, LimitsAssumption DEF IInv, Types
  <2>3. ASSUME NEW i \in DOMAIN rows, i <= Offset PROVE rows[i] \notin Behind
    <3>. SUFFICES ASSUME NEW j \in DOMAIN rows, j > Offset, rows[i] = rows[j] PROVE FALSE
      BY DEF Behind
    <3>1. i = j
      BY <2>2 DEF Distinct
    <3>. QED  BY <2>2, <2>3, <3>1
  <2>4. Behind \subseteq ToSet(rows)
    BY DEF Behind, ToSet
  <2>5. Kept'
    BY <1>1, <1>2, <1>5, <2>3 DEF Kept
  <2>. QED  BY <1>1, <1>4, <1>5, <2>1, <2>4, <2>5 DEF Present, InOrder
<1>6. CASE ~Began
  BY <1>1, <1>2, <1>4, <1>6 DEF IInv, Present, Kept, InOrder, Began
<1>. QED  BY <1>5, <1>6

\* A failed statement takes the client back to where it asked.
LEMMA FaultKeeps ==
    ASSUME IInv, Fault
    PROVE  (First /\ Counted /\ Present /\ Kept /\ InOrder /\ Complete)'
<1>1. /\ pc' = "ask" /\ pc # "done"
      /\ UNCHANGED <<list, rows, created, query, listed, repeated, pages, stayed, grown>>
  BY DEF Fault, Refuse, client, history, table
<1>2. Offset' = Offset /\ \A x : Alone(x)' = Alone(x)
  BY <1>1 DEF Offset, Alone
<1>. QED  BY <1>1, <1>2 DEF IInv, First, Counted, Present, Kept, InOrder, Complete

\* A page, as the parts of the invariant see it.
LEMMA ListIs ==
    ASSUME IInv, List
    PROVE  /\ pages' # 0 /\ (pages' = 1 => pages = 0)
           /\ HasMore => pc' = "ask" /\ Offset' = Offset + Limit
           /\ ~HasMore => pc' = "done" /\ Offset' = Offset /\ total <= Offset + Limit
           /\ Offset \in Nat /\ Limit \in Nat \ {0} /\ pc = "page"
           /\ UNCHANGED <<list, rows, created, stayed, grown, raced>>
           /\ \A x : Alone(x)' = Alone(x)
<1>1. /\ Limit \in 1..MaxLimit /\ Offset \in 0..MaxInt /\ MaxInt \in Nat
      /\ query \in [limit: Numbers, offset: Numbers] /\ total \in 0..MaxRows
  BY LimitType, LimitsAssumption DEF IInv, Types
<1>2. ASSUME HasMore PROVE pc' = "ask" /\ Offset' = Offset + Limit
  <2>1. query' = [query EXCEPT !.offset = Offset + Limit] /\ pc' = "ask"
    BY <1>2 DEF List, NextOffset
  <2>2. query'.offset = Offset + Limit
    BY <1>1, <2>1
  <2>3. Offset + Limit \in 0..MaxInt
    BY <1>1, <1>2, LimitsAssumption DEF HasMore
  <2>4. Offset' = query'.offset
    BY <2>2, <2>3, LimitsAssumption DEF Offset, ParseOffset
  <2>. QED  BY <2>1, <2>2, <2>4
<1>3. ASSUME ~HasMore PROVE pc' = "done" /\ Offset' = Offset /\ total <= Offset + Limit
  <2>1. total <= Offset + Limit
    BY <1>1, <1>3, LimitsAssumption DEF HasMore
  <2>. QED  BY <1>3, <2>1 DEF List, Offset
<1>4. pages' # 0 /\ (pages' = 1 => pages = 0)
  BY DEF List, IInv, Types
<1>5. pc = "page" /\ UNCHANGED <<list, rows, created, stayed, grown, raced>>
  BY DEF List, history, table
<1>6. \A x : Alone(x)' = Alone(x)
  BY <1>5 DEF Alone
<1>. QED  BY <1>1, <1>2, <1>3, <1>4, <1>5, <1>6

\* A page adds those between the old offset and the next.
LEMMA ListKeepsOrder ==
    ASSUME IInv, List
    PROVE  (Kept /\ InOrder)'
<1>. DEFINE o == Offset
            l == Limit
<1>1. /\ o \in Nat /\ l \in Nat \ {0} /\ pc = "page"
      /\ HasMore => pc' = "ask" /\ Offset' = o + l
      /\ ~HasMore => pc' = "done"
      /\ UNCHANGED <<list, rows, stayed, grown>>
      /\ \A x : Alone(x)' = Alone(x)
  BY ListIs
<1>2. PICK order \in Orders :
        /\ listed' = listed \cup Page(order)
        /\ repeated' = repeated \cup (Page(order) \cap listed)
  BY Zenon DEF List
<1>. DEFINE P == Page(order)
<1>3. ASSUME NEW x, Alone(x)
      PROVE  x \in P <=> \E i \in DOMAIN rows : i \in (o + 1)..(o + l) /\ x = rows[i]
  BY <1>3, AlonePage DEF IInv
<1>4. rows \in Seq(1..made) /\ Distinct(rows) /\ DOMAIN rows = 1..Len(rows) /\ Len(rows) \in Nat
  BY DEF IInv, Types
<1>5. listed' = listed \cup P /\ repeated' = repeated \cup (P \cap listed)
  BY <1>2
<1>6. \A i \in DOMAIN rows :
        i <= o /\ rows[i] \in stayed /\ Alone(rows[i]) => rows[i] \in listed
  BY <1>1 DEF IInv, Kept
<1>7. ~grown => /\ \A x \in repeated : ~Alone(x)
                /\ \A x \in listed : Alone(x) => \E i \in DOMAIN rows : i <= o /\ x = rows[i]
  BY <1>1 DEF IInv, InOrder
<1>. HIDE DEF o, l, P
<1>8. Kept'
  <2>1. CASE HasMore
    <3>1. ASSUME NEW i \in DOMAIN rows, i <= o + l, rows[i] \in stayed, Alone(rows[i])
          PROVE  rows[i] \in listed'
      <4>1. CASE i <= o
        BY <1>5, <1>6, <3>1, <4>1
      <4>2. CASE i > o
        <5>1. i \in (o + 1)..(o + l)
          BY <1>1, <1>4, <3>1, <4>2
        <5>. QED  BY <1>3, <1>5, <3>1, <5>1
      <4>. QED  BY <1>1, <1>4, <4>1, <4>2
    <3>. QED  BY <1>1, <2>1, <3>1 DEF Kept
  <2>2. CASE ~HasMore
    BY <1>1, <2>2 DEF Kept
  <2>. QED  BY <2>1, <2>2
<1>9. InOrder'
  <2>. SUFFICES ASSUME ~grown PROVE InOrder'
    BY <1>1 DEF InOrder
  <2>2. ASSUME NEW x \in P, x \in listed, Alone(x) PROVE FALSE
    <3>1. PICK i \in DOMAIN rows : i \in (o + 1)..(o + l) /\ x = rows[i]
      BY <1>3, <2>2
    <3>2. PICK j \in DOMAIN rows : j <= o /\ x = rows[j]
      BY <1>7, <2>2
    <3>3. i = j
      BY <1>4, <3>1, <3>2 DEF Distinct
    <3>. QED  BY <1>1, <3>1, <3>2, <3>3
  <2>3. \A x \in repeated' : ~Alone(x)
    BY <1>5, <1>7, <2>2
  <2>4. CASE ~HasMore
    BY <1>1, <2>3, <2>4 DEF InOrder
  <2>5. CASE HasMore
    <3>1. ASSUME NEW x \in listed', Alone(x)
          PROVE  \E i \in DOMAIN rows : i <= o + l /\ x = rows[i]
      <4>1. CASE x \in listed
        <5>1. PICK i \in DOMAIN rows : i <= o /\ x = rows[i]
          BY <1>7, <3>1, <4>1
        <5>2. i <= o + l
          BY <1>1, <1>4, <5>1
        <5>. QED  BY <5>1, <5>2
      <4>2. CASE x \in P
        <5>1. PICK i \in DOMAIN rows : i \in (o + 1)..(o + l) /\ x = rows[i]
          BY <1>3, <3>1, <4>2
        <5>. QED  BY <1>1, <5>1
      <4>. QED  BY <1>5, <3>1, <4>1, <4>2
    <3>. QED  BY <1>1, <2>3, <2>5, <3>1 DEF InOrder
  <2>. QED  BY <2>4, <2>5
<1>. QED  BY <1>8, <1>9

\* The last page reaches the end of the table when nothing was inserted since
\* the count: the rows before its offset are listed if their place is certain,
\* and a page that begins with the first row holds all of them in any order.
LEMMA ListCompletes == ASSUME IInv, List PROVE Complete'
<1>. DEFINE o == Offset
            l == Limit
<1>0. /\ o \in Nat /\ l \in Nat \ {0} /\ pc = "page" /\ (pages' = 1 => pages = 0)
      /\ pc' = "done" => total <= o + l /\ Offset' = o
      /\ UNCHANGED <<list, rows, stayed, raced>>
      /\ \A x : Alone(x)' = Alone(x)
  BY ListIs
<1>. SUFFICES ASSUME pc' = "done", ~raced, NEW x \in stayed, Alone(x) \/ OnePage'
              PROVE  x \in listed'
  BY <1>0 DEF Complete
<1>1. Len(rows) <= total /\ total \in Nat
  BY <1>0, LimitsAssumption DEF IInv, Counted, Types
<1>2. /\ rows \in Seq(1..made) /\ DOMAIN rows = 1..Len(rows) /\ Len(rows) \in Nat
  BY DEF IInv, Types
<1>3. PICK order \in Orders : listed' = listed \cup Page(order)
  BY Zenon DEF List
<1>. DEFINE P == Page(order)
<1>4. CASE Alone(x)
  <2>1. x \in P <=> \E i \in DOMAIN rows : i \in (o + 1)..(o + l) /\ x = rows[i]
    BY <1>4, AlonePage DEF IInv
  <2>2. \A i \in DOMAIN rows : i <= o /\ x = rows[i] => x \in listed
    BY <1>0, <1>4 DEF IInv, Kept
  <2>3. listed' = listed \cup P
    BY <1>3
  <2>4. PICK i \in DOMAIN rows : x = rows[i]
    BY DEF IInv, Present, ToSet
  <2>. HIDE DEF o, l, P
  <2>5. CASE i <= o
    BY <2>2, <2>3, <2>4, <2>5
  <2>6. CASE i > o
    <3>1. i \in (o + 1)..(o + l)
      BY <1>0, <1>1, <1>2, <2>6
    <3>. QED  BY <2>1, <2>3, <2>4, <3>1
  <2>. QED  BY <1>0, <1>2, <2>5, <2>6
<1>5. CASE OnePage'
  <2>1. o = 0
    BY <1>0, <1>5 DEF OnePage
  <2>2. x \in ToSet(rows)
    BY DEF IInv, Present
  <2>3. /\ order \in Seq(ToSet(rows)) /\ Len(order) = Len(rows)
        /\ \A y \in ToSet(rows) : \E i \in 1..Len(order) : y = order[i]
    BY OfferedRows DEF IInv
  <2>4. PICK i \in 1..Len(order) : x = order[i]
    BY <2>2, <2>3
  <2>5. i \in DOMAIN order /\ i \in (o + 1)..(o + l)
    <3>. HIDE DEF o, l
    <3>. QED  BY <1>0, <1>1, <1>2, <2>1, <2>3
  <2>. QED  BY <1>3, <2>4, <2>5 DEF Page
<1>. QED  BY <1>4, <1>5

LEMMA ListKeeps ==
    ASSUME IInv, List
    PROVE  (First /\ Counted /\ Present /\ Kept /\ InOrder /\ Complete)'
<1>1. pages' # 0 /\ pc' # "page" /\ UNCHANGED <<list, rows, stayed>>
  BY ListIs DEF List, history, table
<1>2. (First /\ Counted /\ Present)'
  BY <1>1 DEF IInv, First, Counted, Present
<1>. QED  BY <1>2, ListKeepsOrder, ListCompletes

\* An inserted row is not one the walk is about; the others move back, never
\* forward.
LEMMA InsertKeeps ==
    ASSUME IInv, Insert
    PROVE  (First /\ Counted /\ Present /\ Kept /\ InOrder /\ Complete)'
<1>1. PICK p \in 0..Len(rows) :
             /\ rows' \in Seq(1..made') /\ Len(rows') = Len(rows) + 1
             /\ \A j \in 1..p : rows'[j] = rows[j]
             /\ rows'[p + 1] = made + 1
             /\ \A j \in (p + 1)..Len(rows) : rows'[j + 1] = rows[j]
  BY InsertRows DEF IInv
<1>2. /\ pc # "done" /\ grown' = TRUE /\ raced' = (raced \/ pc = "page")
      /\ UNCHANGED <<list, pc, query, total, listed, repeated, pages, stayed>>
  BY DEF Insert, client
<1>3. Offset' = Offset /\ Offset \in Nat
  BY <1>2, LimitType, LimitsAssumption DEF Offset, IInv, Types
<1>4. /\ rows \in Seq(1..made) /\ DOMAIN rows = 1..Len(rows) /\ Len(rows) \in Nat
      /\ \A j \in 1..Len(rows) : rows[j] \in 1..made
      /\ made \in Nat /\ stayed \subseteq 1..made /\ DOMAIN rows' = 1..Len(rows')
  BY <1>1, LimitsAssumption DEF IInv, Types
<1>5. ASSUME NEW j \in 1..Len(rows)
      PROVE  \E k \in DOMAIN rows' : rows'[k] = rows[j]
  <2>1. CASE j <= p
    <3>1. j \in DOMAIN rows' /\ rows'[j] = rows[j]
      BY <1>1, <1>4, <2>1
    <3>. QED  BY <3>1
  <2>2. CASE j > p
    <3>1. j \in (p + 1)..Len(rows) /\ j + 1 \in DOMAIN rows'
      BY <1>1, <1>4, <2>2
    <3>. QED  BY <1>1, <3>1
  <2>. QED  BY <1>1, <1>4, <2>1, <2>2
<1>6. Present'
  <2>1. ASSUME NEW x \in stayed PROVE x \in ToSet(rows')
    <3>1. PICK j \in 1..Len(rows) : x = rows[j]
      BY <1>4, <2>1 DEF IInv, Present, ToSet
    <3>2. PICK k \in DOMAIN rows' : rows'[k] = rows[j]
      BY <1>5, <2>1, <3>1
    <3>. QED  BY <3>1, <3>2 DEF ToSet
  <2>. QED  BY <1>2, <2>1 DEF Present
<1>7. ASSUME NEW x \in ToSet(rows), Alone(x)' PROVE Alone(x)
  <2>1. \A n \in 1..made : created'[n] = created[n]
    <3>1. PICK t \in Times : created' = [n \in 1..made' |-> IF n = made' THEN t ELSE created[n]]
      BY Zenon DEF Insert
    <3>2. made' = made + 1 /\ \A n \in 1..made : n \in 1..made' /\ n # made'
      BY <1>4 DEF Insert
    <3>. QED  BY <3>1, <3>2
  <2>2. ToSet(rows) \subseteq ToSet(rows') /\ ToSet(rows) \subseteq 1..made
    BY <1>4, <1>5 DEF ToSet
  <2>. QED  BY <1>2, <1>7, <2>1, <2>2 DEF Alone
<1>8. Kept'
  <2>. SUFFICES ASSUME NEW i \in DOMAIN rows', i <= Offset, rows'[i] \in stayed,
                       Alone(rows'[i])
                PROVE  rows'[i] \in listed
    BY <1>2, <1>3, <1>7 DEF Kept, IInv, Present
  <2>1. \A j \in DOMAIN rows :
          j <= Offset /\ rows[j] \in stayed /\ Alone(rows[j]) => rows[j] \in listed
    BY <1>2 DEF IInv, Kept
  <2>2. CASE i <= p
    BY <1>1, <1>4, <2>1, <2>2
  <2>3. CASE i = p + 1
    BY <1>1, <1>4, <2>3
  <2>4. CASE i > p + 1
    <3>1. PICK j \in (p + 1)..Len(rows) : i = j + 1
      <4>1. i - 1 \in (p + 1)..Len(rows) /\ i = (i - 1) + 1
        BY <1>1, <1>4, <2>4
      <4>. QED  BY <4>1, Zenon
    <3>2. rows'[i] = rows[j] /\ j <= Offset /\ j \in DOMAIN rows
      BY <1>1, <1>3, <1>4, <3>1
    <3>. QED  BY <2>1, <3>2
  <2>. QED  BY <1>1, <1>4, <2>2, <2>3, <2>4
<1>. QED  BY <1>2, <1>3, <1>6, <1>8 DEF IInv, First, Counted, InOrder, Complete

\* Only parents are deleted, and a deleted row is no longer asked for.
LEMMA DeleteKeeps ==
    ASSUME IInv, NEW i \in DOMAIN rows, Delete(i)
    PROVE  (First /\ Counted /\ Present /\ Kept /\ InOrder /\ Complete)'
<1>1. /\ rows' \in Seq(1..made) /\ Len(rows') = Len(rows) - 1
      /\ \A j \in 1..(i - 1) : rows'[j] = rows[j]
      /\ \A j \in i..(Len(rows) - 1) : rows'[j] = rows[j + 1]
  BY DeleteRows DEF IInv
<1>2. /\ pc # "done" /\ list = "parents" /\ stayed' = stayed \ {rows[i]}
      /\ UNCHANGED <<list, pc, query, total, listed, repeated, pages, raced>>
  BY DEF Delete, client
<1>3. Offset' = Offset
  BY <1>2 DEF Offset
<1>4. /\ rows \in Seq(1..made) /\ DOMAIN rows = 1..Len(rows) /\ Len(rows) \in Nat
      /\ DOMAIN rows' = 1..Len(rows') /\ total \in Nat
  BY <1>1, LimitsAssumption DEF IInv, Types
<1>5. Present'
  <2>1. ASSUME NEW x \in stayed, x # rows[i] PROVE x \in ToSet(rows')
    <3>1. PICK j \in 1..Len(rows) : x = rows[j] /\ j # i
      BY <1>4, <2>1 DEF IInv, Present, ToSet
    <3>2. CASE j < i
      <4>1. j \in DOMAIN rows' /\ rows'[j] = x
        BY <1>1, <1>4, <3>1, <3>2
      <4>. QED  BY <4>1 DEF ToSet
    <3>3. CASE j > i
      <4>1. PICK k \in i..(Len(rows) - 1) : k = j - 1 /\ j = k + 1
        BY <1>4, <3>1, <3>3
      <4>2. k \in DOMAIN rows' /\ rows'[k] = x
        BY <1>1, <1>4, <3>1, <4>1
      <4>. QED  BY <4>2 DEF ToSet
    <3>. QED  BY <1>4, <3>1, <3>2, <3>3
  <2>. QED  BY <1>2, <2>1 DEF Present
<1>6. Counted'
  BY <1>1, <1>2, <1>4 DEF IInv, Counted
<1>7. \A x : ~Alone(x)'
  BY <1>2 DEF Alone
<1>8. (Kept /\ InOrder)'
  BY <1>7 DEF Kept, InOrder
<1>. QED  BY <1>2, <1>5, <1>6, <1>8 DEF IInv, First, Complete

LEMMA StepInv == IInv /\ [Next]_vars => IInv'
<1>. SUFFICES ASSUME IInv, [Next]_vars PROVE IInv'
  OBVIOUS
<1>1. Types'
  BY StepTypes DEF IInv
<1>2. (First /\ Counted /\ Present /\ Kept /\ InOrder /\ Complete)'
  <2>1. CASE Count
    BY <2>1, CountKeeps, Zenon
  <2>2. CASE List
    BY <2>2, ListKeeps, Zenon
  <2>3. CASE Fault
    BY <2>3, FaultKeeps, Zenon
  <2>4. CASE Insert
    BY <2>4, InsertKeeps, Zenon
  <2>5. CASE \E i \in DOMAIN rows : Delete(i)
    BY <2>5, DeleteKeeps, Zenon
  <2>6. CASE UNCHANGED vars
    BY <2>6 DEF vars, client, history, IInv, First, Counted, Present, Kept, InOrder,
                Complete, Offset, Alone, OnePage, table
  <2>. QED  BY <2>1, <2>2, <2>3, <2>4, <2>5, <2>6 DEF Next, Walk
<1>. QED  BY <1>1, <1>2 DEF IInv

LEMMA Invariant == Spec => []IInv
BY InitInv, StepInv, PTL DEF Spec

\* Whatever limit and offset a client writes into the query and however the table
\* changes, the parameters fit into an int32 and only the database fails requests.
THEOREM TypeCorrect == Spec => []TypeOK
<1>1. IInv => TypeOK
  BY TypesParts DEF IInv
<1>. QED  BY <1>1, Invariant, PTL

\* A walk over any number of guilds, from any offset and with any limits, misses
\* none of those behind the offset that was there throughout and shares its
\* created_at with no other, unless one joined between the last count and its
\* page.  One page that holds the whole list misses nothing, whatever the order.
THEOREM WalkComplete == Spec => []Complete
<1>1. IInv => Complete
  BY DEF IInv
<1>. QED  BY <1>1, Invariant, PTL

\* While no guild joins, none is listed twice but those that share their
\* created_at.
THEOREM WalkOnce == Spec => []NoRepeats
<1>1. IInv => NoRepeats
  BY DEF IInv, InOrder, NoRepeats
<1>. QED  BY <1>1, Invariant, PTL

-----------------------------------------------------------------------------
(* WithRetry.                                                              *)

\* An answer comes with the last attempt: "ok" for the one that succeeded.
Answered ==
    /\ answer = "ok" => effects > 0
    /\ answer = "error" /\ last = "retryable" /\ ~cancelled => attempt = MaxAttempts
    /\ stage = "backoff" => last = "retryable" /\ attempt < MaxAttempts

CallInv == RetryTypeOK /\ Answered

LEMMA InitCall == RetryInit => CallInv
<1>1. 1 \in 1..MaxAttempts
  BY AttemptsAssumption
<1>. SUFFICES ASSUME RetryInit PROVE CallInv
  OBVIOUS
<1>2. RetryTypeOK
  <2>1. cancelled \in BOOLEAN
    BY DEF RetryInit
  <2>. QED  BY <1>1, <2>1 DEF RetryInit, RetryTypeOK
<1>3. Answered
  BY DEF RetryInit, Answered
<1>. QED  BY <1>2, <1>3 DEF CallInv

\* What follows an error keeps the types, whatever became of the attempt.
LEMMA FailedMoves ==
    ASSUME RetryTypeOK, stage = "call", NEW e \in {"retryable", "other"}, Failed(e)
    PROVE  /\ last' = e /\ attempt' = attempt
           /\ \/ stage' = "done" /\ answer' = "error"
              \/ stage' = "backoff" /\ answer' = answer
           /\ e = "other" => stage' = "done"
           /\ stage' = "done" => e = "other" \/ attempt = MaxAttempts
           /\ stage' = "backoff" => attempt < MaxAttempts
BY AttemptsAssumption DEF Failed, Return, Sleep, RetryTypeOK

LEMMA DelayType ==
    ASSUME stage = "call", NEW e, Failed(e), delay \in Int
    PROVE  delay' \in Int
BY DEF Failed, Return, Sleep, Jitter

LEMMA StepCall == CallInv /\ [RetryNext]_RetryVars => CallInv'
<1>. SUFFICES ASSUME CallInv, [RetryNext]_RetryVars PROVE CallInv'
  OBVIOUS
<1>. USE DEF CallInv
<1>1. CASE Attempt
  <2>1. CASE ~Refused /\ Effect /\ last' = "none" /\ Return("ok") /\ UNCHANGED inflight
    BY <1>1, <2>1 DEF Attempt, Effect, Return, RetryTypeOK, Answered
  <2>2. CASE Refused /\ Failed("other") /\ UNCHANGED <<effects, inflight>>
    BY <1>1, <2>2, FailedMoves, DelayType DEF Attempt, RetryTypeOK, Answered
  <2>. QED  BY <1>1, <2>1, <2>2 DEF Attempt
<1>2. CASE AttemptLost
  <2>1. PICK e \in {"retryable", "other"} : Failed(e) /\ (cancelled => e = "other")
    BY <1>2 DEF AttemptLost
  <2>2. stage = "call" /\ UNCHANGED <<kind, cancelled>>
    BY <1>2 DEF AttemptLost
  <2>3. effects' \in 0..1 /\ inflight' \in Nat
    BY <1>2 DEF AttemptLost, Effect, RetryTypeOK
  <2>. QED  BY <2>1, <2>2, <2>3, FailedMoves, DelayType DEF RetryTypeOK, Answered
<1>3. CASE Wake
  BY <1>3, AttemptsAssumption DEF Wake, RetryTypeOK, Answered
<1>4. CASE GiveUp
  BY <1>4 DEF GiveUp, Return, RetryTypeOK, Answered
<1>5. CASE AppliedLate \/ DroppedLate
  BY <1>5 DEF AppliedLate, DroppedLate, Effect, RetryTypeOK, Answered
<1>6. CASE Cancel
  BY <1>6 DEF Cancel, RetryTypeOK, Answered
<1>7. CASE UNCHANGED RetryVars
  BY <1>7 DEF RetryVars, RetryTypeOK, Answered
<1>. QED  BY <1>1, <1>2, <1>3, <1>4, <1>5, <1>6, <1>7 DEF RetryNext, WithRetry

LEMMA CallInvariant == RetrySpec => []CallInv
BY InitCall, StepCall, PTL DEF RetrySpec

\* The attempt never passes MaxAttempts, and an answer is given exactly when
\* WithRetry has returned.
THEOREM RetryTypeCorrect == RetrySpec => []RetryTypeOK
<1>1. CallInv => RetryTypeOK
  BY DEF CallInv
<1>. QED  BY <1>1, CallInvariant, PTL

\* A transient failure is reported only when the attempts are used up or the
\* caller has cancelled, however many attempts are configured.
THEOREM TransientCorrect == RetrySpec => []TransientRetried
<1>1. CallInv => TransientRetried
  BY DEF CallInv, Answered, TransientRetried
<1>. QED  BY <1>1, CallInvariant, PTL

-----------------------------------------------------------------------------
(* The delays.                                                             *)

\* 2 ^ n counts the subsets of a set of n elements, and there is one.
LEMMA PowerPositive == ASSUME NEW n \in Nat PROVE 2 ^ n \in Nat \ {0}
<1>1. IsFiniteSet(1..n) /\ Cardinality(1..n) = n
  BY FS_Interval
<1>2. IsFiniteSet(SUBSET (1..n)) /\ Cardinality(SUBSET (1..n)) = 2 ^ Cardinality(1..n)
  BY <1>1, FS_SUBSET
<1>3. SUBSET (1..n) # {}
  OBVIOUS
<1>4. Cardinality(SUBSET (1..n)) \in Nat \ {0}
  BY <1>2, <1>3, FS_CardinalityType, FS_EmptySet
<1>5. Cardinality(SUBSET (1..n)) = 2 ^ n
  BY <1>1, <1>2
<1>. QED  BY <1>4, <1>5

\* A product with a factor of at least one.
LEMMA ProductGrows == ASSUME NEW b \in Nat, NEW k \in Nat \ {0} PROVE b * k \in Nat /\ b <= b * k
OBVIOUS

LEMMA ModSmall == ASSUME NEW a \in Nat, NEW b \in Nat \ {0}, a < b PROVE a % b = a
OBVIOUS

\* What fits is kept.
LEMMA SignedSmall == ASSUME NEW x \in Nat, x < Half PROVE Signed(x) = x
<1>1. x + Half \in Nat /\ 2 * Half \in Nat \ {0} /\ x + Half < 2 * Half
  BY WidthAssumption
<1>2. (x + Half) % (2 * Half) = x + Half
  BY <1>1, ModSmall
<1>. QED  BY <1>2, WidthAssumption DEF Signed

\* A delay before the jitter lies between BaseDelay and MaxDelay.
LEMMA BackoffBounds ==
    ASSUME NEW n \in 1..(MaxAttempts - 1)
    PROVE  Backoff(n) \in BaseDelay..MaxDelay
<1>1. PICK k \in Nat \ {0} : k = 2 ^ (n - 1)
  <2>1. n - 1 \in Nat
    BY AttemptsAssumption
  <2>. QED  BY <2>1, PowerPositive
<1>2. PICK d \in Nat : d = BaseDelay * k /\ BaseDelay <= d
  BY ProductGrows, DelaysAssumption
<1>3. d < Half
  BY <1>1, <1>2, WidthAssumption
<1>4. Signed(d) = d
  BY <1>3, SignedSmall
<1>5. Backoff(n) = IF d > MaxDelay THEN MaxDelay ELSE d
  BY <1>1, <1>2, <1>4 DEF Backoff
<1>. QED  BY <1>2, <1>5, DelaysAssumption

\* What Sleep hands to the timer.
LEMMA SleepBounds ==
    ASSUME attempt \in 1..(MaxAttempts - 1), Sleep
    PROVE  delay' \in (3 * BaseDelay)..(5 * MaxDelay)
<1>1. PICK d \in BaseDelay..MaxDelay : delay' \in (3 * d)..(5 * d)
  BY BackoffBounds DEF Sleep, Jitter
<1>. QED  BY <1>1, DelaysAssumption

\* A step that does not sleep keeps the delay and comes to no backoff.
LEMMA StepDelay == CallInv /\ DelayBounded /\ [RetryNext]_RetryVars => DelayBounded'
<1>. SUFFICES ASSUME CallInv, DelayBounded, [RetryNext]_RetryVars PROVE DelayBounded'
  OBVIOUS
<1>1. attempt \in 1..MaxAttempts
  BY DEF CallInv, RetryTypeOK
<1>2. ASSUME Sleep, attempt # MaxAttempts PROVE DelayBounded'
  <2>1. attempt \in 1..(MaxAttempts - 1)
    BY <1>1, <1>2, AttemptsAssumption
  <2>2. delay' \in (3 * BaseDelay)..(5 * MaxDelay)
    BY <1>2, <2>1, SleepBounds
  <2>. QED  BY <2>2, DelaysAssumption DEF DelayBounded
<1>3. CASE delay' = delay /\ (stage' = "backoff" => stage = "backoff")
  BY <1>3 DEF DelayBounded
<1>4. ASSUME NEW a, Return(a) PROVE delay' = delay /\ stage' # "backoff"
  BY <1>4 DEF Return
<1>5. ASSUME NEW e, Failed(e) PROVE DelayBounded'
  BY <1>2, <1>3, <1>4, <1>5 DEF Failed
<1>6. CASE Attempt \/ AttemptLost
  BY <1>3, <1>4, <1>5, <1>6 DEF Attempt, AttemptLost
<1>7. CASE Wake \/ GiveUp \/ AppliedLate \/ DroppedLate \/ Cancel \/ UNCHANGED RetryVars
  BY <1>3, <1>4, <1>7 DEF Wake, GiveUp, AppliedLate, DroppedLate, Cancel, RetryVars
<1>. QED  BY <1>6, <1>7 DEF RetryNext, WithRetry

\* With the jitter a delay lies between three quarters of BaseDelay and five
\* quarters of MaxDelay, for any number of attempts whose delays fit into an
\* int64.
THEOREM DelayCorrect == RetrySpec => []DelayBounded
<1>1. RetryInit => DelayBounded
  BY DelaysAssumption DEF RetryInit, DelayBounded
<1>. QED  BY <1>1, StepDelay, CallInvariant, PTL DEF RetrySpec

-----------------------------------------------------------------------------
(* The refinement.                                                         *)

\* The effect, once there, stays; an answer, once given, too.
LEMMA StepPromise == CallInv /\ [RetryNext]_RetryVars => [Promise!Next]_<<effects > 0, answer>>
<1>. SUFFICES ASSUME CallInv, [RetryNext]_RetryVars PROVE [Promise!Next]_<<effects > 0, answer>>
  OBVIOUS
<1>. USE DEF CallInv, RetryTypeOK, Promise!Next
<1>1. CASE Attempt
  <2>1. CASE ~Refused /\ Effect /\ Return("ok")
    <3>1. effects' > 0 /\ answer' = "ok" /\ answer = "pending"
      BY <1>1, <2>1 DEF Attempt, Effect, Return
    <3>. QED  BY <3>1 DEF Promise!Succeed
  <2>2. CASE Refused /\ Failed("other") /\ UNCHANGED effects
    BY <1>1, <2>2, FailedMoves DEF Attempt, Promise!Fail
  <2>. QED  BY <1>1, <2>1, <2>2 DEF Attempt
<1>2. CASE AttemptLost
  <2>1. PICK e \in {"retryable", "other"} : Failed(e)
    BY <1>2 DEF AttemptLost
  <2>2. effects' = effects \/ effects' > 0
    BY <1>2 DEF AttemptLost, Effect
  <2>3. answer' = "error" \/ answer' = answer
    BY <1>2, <2>1, FailedMoves DEF AttemptLost
  <2>4. answer = "pending"
    BY <1>2 DEF AttemptLost
  <2>5. CASE answer' = "error"
    BY <2>2, <2>4, <2>5 DEF Promise!Fail
  <2>6. CASE answer' = answer
    BY <2>2, <2>6 DEF Promise!Apply
  <2>. QED  BY <2>3, <2>5, <2>6
<1>3. CASE GiveUp
  BY <1>3 DEF GiveUp, Return, Promise!Fail
<1>4. CASE AppliedLate
  BY <1>4 DEF AppliedLate, Effect, Promise!Apply
<1>5. CASE Wake \/ DroppedLate \/ Cancel
  BY <1>5 DEF Wake, DroppedLate, Cancel
<1>6. CASE UNCHANGED RetryVars
  BY <1>6 DEF RetryVars
<1>. QED  BY <1>1, <1>2, <1>3, <1>4, <1>5, <1>6 DEF RetryNext, WithRetry

\* WithRetry implements Statement for any number of attempts: the bot's modules
\* may take a call for one step that succeeds, fails, or happens and fails.
THEOREM PromiseKept == RetrySpec => KeepsPromise
<1>1. RetryInit => Promise!Init
  BY DEF RetryInit, Promise!Init
<1>. QED  BY <1>1, StepPromise, CallInvariant, PTL DEF RetrySpec, KeepsPromise, Promise!Spec
=============================================================================
