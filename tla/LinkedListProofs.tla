-------------------------- MODULE LinkedListProofs --------------------------
(***************************************************************************)
(* The linked list implements a sequence: each operation of LinkedList     *)
(* takes a list that represents a sequence to one that represents the      *)
(* sequence its name says, for every set of nodes and every length.        *)
(***************************************************************************)
EXTENDS LinkedList, SequenceTheorems, WellFoundedInduction, TLAPS

\* What RemoveAt returns, element by element.
LEMMA RemovedElements ==
    ASSUME NEW S, NEW s \in Seq(S), NEW i \in 1 .. Len(s)
    PROVE  /\ RemoveAt(s, i) \in Seq(S)
           /\ Len(RemoveAt(s, i)) = Len(s) - 1
           /\ \A j \in 1 .. Len(s) - 1 : RemoveAt(s, i)[j] = IF j < i THEN s[j] ELSE s[j + 1]
<1> DEFINE a == SubSeq(s, 1, i - 1)
           b == SubSeq(s, i + 1, Len(s))
<1>1. Len(s) \in Nat /\ i \in Nat
  OBVIOUS
<1>2. a \in Seq(S) /\ Len(a) = i - 1 /\ \A j \in 1 .. i - 1 : a[j] = s[j]
  BY <1>1, SubSeqProperties
<1>3. b \in Seq(S) /\ Len(b) = Len(s) - i /\ \A j \in 1 .. Len(s) - i : b[j] = s[i + j]
  BY <1>1, SubSeqProperties
<1>4. RemoveAt(s, i) = a \o b
  BY DEF RemoveAt
<1> HIDE DEF a, b
<1>5. /\ a \o b \in Seq(S)
      /\ Len(a \o b) = Len(a) + Len(b)
      /\ \A j \in 1 .. Len(a) + Len(b) :
            (a \o b)[j] = IF j <= Len(a) THEN a[j] ELSE b[j - Len(a)]
  BY <1>2, <1>3, ConcatProperties
<1>6. \A j \in 1 .. Len(s) - 1 : (a \o b)[j] = IF j < i THEN s[j] ELSE s[j + 1]
  <2> SUFFICES ASSUME NEW j \in 1 .. Len(s) - 1
               PROVE  (a \o b)[j] = IF j < i THEN s[j] ELSE s[j + 1]
    OBVIOUS
  <2>1. (a \o b)[j] = IF j <= Len(a) THEN a[j] ELSE b[j - Len(a)]
    BY <1>1, <1>2, <1>3, <1>5
  <2>2. CASE j < i
    BY <1>1, <1>2, <2>1, <2>2
  <2>3. CASE ~(j < i)
    <3>1. j - (i - 1) \in 1 .. Len(s) - i /\ i + (j - (i - 1)) = j + 1
      BY <1>1, <2>3
    <3>2. b[j - (i - 1)] = s[j + 1]
      BY <1>3, <3>1
    <3> QED
      BY <1>1, <1>2, <2>1, <2>3, <3>2
  <2> QED
    BY <2>2, <2>3
<1> QED
  BY <1>1, <1>2, <1>3, <1>4, <1>5, <1>6

\* What InsertAt returns, element by element.
LEMMA InsertedElements ==
    ASSUME NEW S, NEW s \in Seq(S), NEW i \in 1 .. Len(s) + 1, NEW e \in S
    PROVE  /\ InsertAt(s, i, e) \in Seq(S)
           /\ Len(InsertAt(s, i, e)) = Len(s) + 1
           /\ \A j \in 1 .. Len(s) + 1 :
                InsertAt(s, i, e)[j] = IF j < i THEN s[j] ELSE IF j = i THEN e ELSE s[j - 1]
<1> DEFINE a == SubSeq(s, 1, i - 1)
           b == SubSeq(s, i, Len(s))
           c == Append(a, e)
<1>1. Len(s) \in Nat /\ i \in Nat
  OBVIOUS
<1>2. a \in Seq(S) /\ Len(a) = i - 1 /\ \A j \in 1 .. i - 1 : a[j] = s[j]
  BY <1>1, SubSeqProperties
<1>3. b \in Seq(S) /\ Len(b) = Len(s) - i + 1 /\ \A j \in 1 .. Len(s) - i + 1 : b[j] = s[i + j - 1]
  BY <1>1, SubSeqProperties
<1>4. a \o <<e>> = c
  BY <1>2, AppendIsConcat
<1>5. InsertAt(s, i, e) = c \o b
  BY <1>4 DEF InsertAt
<1>6. c \in Seq(S) /\ Len(c) = i /\ c[i] = e /\ \A j \in 1 .. i - 1 : c[j] = s[j]
  BY <1>1, <1>2, AppendProperties
<1> HIDE DEF a, b, c
<1>7. /\ c \o b \in Seq(S)
      /\ Len(c \o b) = Len(c) + Len(b)
      /\ \A j \in 1 .. Len(c) + Len(b) :
            (c \o b)[j] = IF j <= Len(c) THEN c[j] ELSE b[j - Len(c)]
  BY <1>3, <1>6, ConcatProperties
<1>8. ASSUME NEW j \in 1 .. Len(s) + 1
      PROVE  (c \o b)[j] = IF j < i THEN s[j] ELSE IF j = i THEN e ELSE s[j - 1]
  <2>1. (c \o b)[j] = IF j <= Len(c) THEN c[j] ELSE b[j - Len(c)]
    BY <1>1, <1>3, <1>6, <1>7
  <2>2. CASE j < i
    BY <1>1, <1>6, <2>1, <2>2
  <2>3. CASE j = i
    BY <1>1, <1>6, <2>1, <2>3
  <2>4. CASE j > i
    <3>1. j - i \in 1 .. Len(s) - i + 1 /\ i + (j - i) - 1 = j - 1
      BY <1>1, <2>4
    <3>2. b[j - i] = s[j - 1]
      BY <1>3, <3>1
    <3> QED
      BY <1>1, <1>6, <2>1, <2>4, <3>2
  <2>5. j < i \/ j = i \/ j > i
    BY <1>1
  <2> QED
    BY <2>2, <2>3, <2>4, <2>5
<1> QED
  BY <1>1, <1>3, <1>5, <1>6, <1>7, <1>8

-----------------------------------------------------------------------------
\* What Represents says, with the first and the last node told apart.
LEMMA Represented ==
    ASSUME NEW l, NEW s, Represents(l, s)
    PROVE  /\ s \in Seq(Nodes) /\ Len(s) \in Nat
           /\ \A i \in 1 .. Len(s) : s[i] \in Nodes /\ s[i] # NULL /\ s[i] \in l.used
           /\ \A n \in l.used : \E i \in 1 .. Len(s) : n = s[i]
           /\ \A i, j \in 1 .. Len(s) : s[i] = s[j] => i = j
           /\ l.first = NULL <=> Len(s) = 0
           /\ Len(s) > 0 => l.first = s[1] /\ l.last = s[Len(s)]
           /\ l.last = NULL <=> Len(s) = 0
<1>1. s \in Seq(Nodes) /\ Len(s) \in Nat
  BY DEF Represents
<1>2. ASSUME NEW i \in 1 .. Len(s)
      PROVE  s[i] \in Nodes /\ s[i] # NULL /\ s[i] \in l.used
  BY <1>1, ElementOfSeq, ListAssumption DEF Represents
<1>3. Len(s) = 0 <=> s = <<>>
  BY <1>1, EmptySeq
<1>4. Len(s) > 0 => 1 \in 1 .. Len(s) /\ Len(s) \in 1 .. Len(s)
  BY <1>1
<1>5. l.first = (IF Len(s) = 0 THEN NULL ELSE s[1]) /\ l.last = (IF Len(s) = 0 THEN NULL ELSE s[Len(s)])
  BY <1>3 DEF Represents
<1>6. Len(s) = 0 \/ Len(s) > 0
  BY <1>1
<1>7. /\ \A n \in l.used : \E i \in 1 .. Len(s) : n = s[i]
      /\ \A i, j \in 1 .. Len(s) : s[i] = s[j] => i = j
  BY DEF Represents
<1> QED
  BY <1>1, <1>2, <1>4, <1>5, <1>6, <1>7

\* list_add appends (list.c:49).
THEOREM AddAppends ==
    ASSUME NEW Items, NEW l \in Lists(Items), NEW s, Represents(l, s),
           NEW n \in Nodes \ l.used, NEW item \in Items
    PROVE  Represents(list_add(l, n, item), Append(s, n))
<1> DEFINE m == list_add(l, n, item)
           r == Append(s, n)
           k == Len(s)
<1>1. /\ s \in Seq(Nodes) /\ k \in Nat
      /\ \A i \in 1 .. k : s[i] \in Nodes /\ s[i] # NULL /\ s[i] \in l.used /\ s[i] # n
      /\ \A i, j \in 1 .. k : s[i] = s[j] => i = j
      /\ k = 0 <=> l.first = NULL
      /\ k > 0 => l.first = s[1] /\ l.last = s[k]
  BY Represented
<1>2. /\ r \in Seq(Nodes) /\ Len(r) = k + 1 /\ r # <<>>
      /\ \A i \in 1 .. k : r[i] = s[i]
      /\ r[k + 1] = n
  BY <1>1, AppendProperties
<1>3. /\ l.next \in [Nodes -> Nodes \cup {NULL}] /\ l.prev \in [Nodes -> Nodes \cup {NULL}]
      /\ l.length = k /\ l.used = {s[i] : i \in 1 .. k}
      /\ \A i \in 1 .. k :
            /\ l.next[s[i]] = (IF i = k THEN NULL ELSE s[i + 1])
            /\ l.prev[s[i]] = (IF i = 1 THEN NULL ELSE s[i - 1])
  BY DEF Lists, Links, Represents
<1>4. m.used = l.used \cup {n} /\ m.length = k + 1 /\ m.last = n
  BY <1>3 DEF list_add, Allocated, Lists
<1>5. m.first = (IF k = 0 THEN n ELSE l.first)
  BY <1>1 DEF list_add, Allocated, Lists
<1>6. m.prev = [l.prev EXCEPT ![n] = IF k = 0 THEN NULL ELSE s[k]]
  BY <1>1 DEF list_add, Allocated, Lists
<1>7. m.next = (IF k = 0 THEN [l.next EXCEPT ![n] = NULL] ELSE [l.next EXCEPT ![s[k]] = n, ![n] = NULL])
  BY <1>1 DEF list_add, Allocated, Lists
<1> HIDE DEF m, r, k
<1>8. \A i, j \in 1 .. Len(r) : r[i] = r[j] => i = j
  BY <1>1, <1>2
<1>9. m.used = {r[i] : i \in 1 .. Len(r)}
  <2>1. 1 .. Len(r) = (1 .. k) \cup {k + 1}
    BY <1>1, <1>2
  <2> QED
    BY <1>2, <1>3, <1>4, <2>1
<1>10. m.first = r[1] /\ m.last = r[Len(r)] /\ m.length = Len(r)
  BY <1>1, <1>2, <1>4, <1>5
<1>11. ASSUME NEW i \in 1 .. Len(r)
       PROVE  m.next[r[i]] = IF i = Len(r) THEN NULL ELSE r[i + 1]
  <2>1. CASE i = k + 1
    BY <1>1, <1>2, <1>3, <1>7, <2>1
  <2>2. CASE i = k /\ k > 0
    BY <1>1, <1>2, <1>3, <1>7, <2>2
  <2>3. CASE i < k
    <3>1. i \in 1 .. k /\ k \in 1 .. k /\ i # k /\ i + 1 \in 1 .. k
      BY <1>1, <1>2, <2>3
    <3>2. r[i] = s[i] /\ r[i + 1] = s[i + 1] /\ s[i] # s[k] /\ s[i] # n /\ s[i] \in Nodes
      BY <1>1, <1>2, <3>1
    <3>3. m.next[s[i]] = l.next[s[i]]
      BY <1>3, <1>7, <3>1, <3>2
    <3> QED
      BY <1>2, <1>3, <2>3, <3>1, <3>2, <3>3
  <2> QED
    BY <1>1, <1>2, <2>1, <2>2, <2>3
<1>12. ASSUME NEW i \in 1 .. Len(r)
       PROVE  m.prev[r[i]] = IF i = 1 THEN NULL ELSE r[i - 1]
  <2>1. CASE i = k + 1
    BY <1>1, <1>2, <1>3, <1>6, <2>1
  <2>2. CASE i \in 1 .. k
    <3>1. r[i] = s[i] /\ s[i] # n /\ s[i] \in Nodes
      BY <1>1, <1>2, <2>2
    <3>2. m.prev[r[i]] = l.prev[s[i]]
      BY <1>3, <1>6, <3>1
    <3>3. i = 1 \/ i - 1 \in 1 .. k
      BY <1>1, <2>2
    <3> QED
      BY <1>2, <1>3, <2>2, <3>2, <3>3
  <2> QED
    BY <1>1, <1>2, <2>1, <2>2
<1> QED
  BY <1>2, <1>8, <1>9, <1>10, <1>11, <1>12 DEF Represents, m, r


\* list_insert puts the new node behind the i-th, or in front (list.c:167).
THEOREM InsertInserts ==
    ASSUME NEW Items, NEW l \in Lists(Items), NEW s, Represents(l, s),
           NEW n \in Nodes \ l.used, NEW item \in Items,
           NEW i \in 0 .. Len(s)
    PROVE  Represents(list_insert(l, IF i = 0 THEN NULL ELSE s[i], n, item), InsertAt(s, i + 1, n))
<1> DEFINE before == IF i = 0 THEN NULL ELSE s[i]
           m == list_insert(l, before, n, item)
           r == InsertAt(s, i + 1, n)
           k == Len(s)
<1>1. /\ s \in Seq(Nodes) /\ k \in Nat
      /\ \A j \in 1 .. k : s[j] \in Nodes /\ s[j] # NULL /\ s[j] \in l.used /\ s[j] # n
      /\ \A j, h \in 1 .. k : s[j] = s[h] => j = h
      /\ k = 0 <=> l.first = NULL
      /\ k > 0 => l.first = s[1] /\ l.last = s[k]
  BY Represented
<1>2. i \in Int /\ i + 1 \in 1 .. k + 1
  BY <1>1
<1>3. /\ r \in Seq(Nodes) /\ Len(r) = k + 1
      /\ \A j \in 1 .. k + 1 :
            r[j] = IF j < i + 1 THEN s[j] ELSE IF j = i + 1 THEN n ELSE s[j - 1]
  <2> DEFINE p == i + 1
  <2>1. n \in Nodes /\ p \in 1 .. k + 1 /\ i + 1 = p
    BY <1>2
  <2> HIDE DEF p
  <2>2. /\ InsertAt(s, p, n) \in Seq(Nodes) /\ Len(InsertAt(s, p, n)) = k + 1
        /\ \A j \in 1 .. k + 1 :
              InsertAt(s, p, n)[j] = IF j < p THEN s[j] ELSE IF j = p THEN n ELSE s[j - 1]
    BY <1>1, <2>1, InsertedElements
  <2> QED
    BY <2>1, <2>2
<1>4. /\ l.next \in [Nodes -> Nodes \cup {NULL}] /\ l.prev \in [Nodes -> Nodes \cup {NULL}]
      /\ l.length = k /\ l.used = {s[j] : j \in 1 .. k}
      /\ \A j \in 1 .. k :
            /\ l.next[s[j]] = (IF j = k THEN NULL ELSE s[j + 1])
            /\ l.prev[s[j]] = (IF j = 1 THEN NULL ELSE s[j - 1])
  BY DEF Lists, Links, Represents
<1>5. CASE i = k
  <2>1. l.first = NULL \/ before = l.last
    BY <1>1, <1>5
  <2>2. m = list_add(l, n, item)
    BY <2>1 DEF list_insert
  <2>3. /\ Append(s, n) \in Seq(Nodes) /\ Len(Append(s, n)) = k + 1
        /\ \A j \in 1 .. k : Append(s, n)[j] = s[j]
        /\ Append(s, n)[k + 1] = n
    BY <1>1, AppendProperties
  <2>4. ASSUME NEW j \in 1 .. k + 1 PROVE r[j] = Append(s, n)[j]
    <3>1. CASE j = k + 1
      BY <1>1, <1>3, <1>5, <2>3, <3>1
    <3>2. CASE j \in 1 .. k
      BY <1>1, <1>3, <1>5, <2>3, <3>2
    <3> QED
      BY <1>1, <3>1, <3>2
  <2>5. r = Append(s, n)
    BY <1>3, <2>3, <2>4, SeqEqual
  <2> QED
    BY <2>2, <2>5, AddAppends
<1>6. CASE i # k
  <2>1. i < k /\ 1 \in 1 .. k /\ k \in 1 .. k /\ i + 1 \in 1 .. k /\ k > 0
    BY <1>1, <1>2, <1>6
  <2>2. l.first # NULL /\ before # l.last
    BY <1>1, <1>2, <1>6, <2>1
  <2>3. m.used = l.used \cup {n} /\ m.length = k + 1 /\ m.last = l.last
    BY <1>4, <2>2 DEF list_insert, Allocated, Lists
  <2>4. m.first = IF i = 0 THEN n ELSE l.first
    BY <1>1, <2>1, <2>2 DEF list_insert, Allocated, Lists
  <2>5. m.next = IF i = 0 THEN [l.next EXCEPT ![n] = s[1]]
                 ELSE [l.next EXCEPT ![n] = s[i + 1], ![s[i]] = n]
    BY <1>1, <1>2, <1>4, <2>1, <2>2 DEF list_insert, Allocated, Lists
  <2>6. m.prev = IF i = 0 THEN [l.prev EXCEPT ![n] = NULL, ![s[1]] = n]
                 ELSE [l.prev EXCEPT ![n] = s[i], ![s[i + 1]] = n]
    <3>1. CASE i = 0
      BY <1>1, <2>1, <2>2, <3>1 DEF list_insert, Allocated, Lists
    <3>2. CASE i # 0
      <4>1. i \in 1 .. k /\ before = s[i] /\ before # NULL
        BY <1>1, <1>2, <2>1, <3>2
      <4>2. l.next[before] = s[i + 1]
        BY <1>4, <1>6, <4>1
      <4> HIDE DEF before
      <4>3. m.prev = [l.prev EXCEPT ![n] = before, ![l.next[before]] = n]
        BY <2>2, <4>1 DEF list_insert, Allocated, Lists
      <4> QED
        BY <3>2, <4>1, <4>2, <4>3
    <3> QED
      BY <3>1, <3>2
  <2> HIDE DEF m, r, k, before
  <2>7. ASSUME NEW j \in 1 .. k + 1, NEW h \in 1 .. k + 1, r[j] = r[h]
        PROVE  j = h
    <3>1. \A g \in 1 .. k + 1 : g < i + 1 => g \in 1 .. k
      BY <1>1, <2>1
    <3>2. \A g \in 1 .. k + 1 : g > i + 1 => g - 1 \in 1 .. k
      BY <1>1, <2>1
    <3> QED
      BY <1>1, <1>2, <1>3, <2>7, <3>1, <3>2
  <2>8. m.used = {r[j] : j \in 1 .. Len(r)}
    <3>1. ASSUME NEW x \in m.used PROVE \E j \in 1 .. k + 1 : x = r[j]
      <4>1. CASE x = n
        BY <1>2, <1>3, <4>1
      <4>2. CASE x \in l.used
        <5>1. PICK j \in 1 .. k : x = s[j]
          BY <1>4, <4>2
        <5>2. CASE j <= i
          <6>1. j \in 1 .. k + 1 /\ j < i + 1
            BY <1>1, <1>2, <5>2
          <6> QED
            BY <1>3, <5>1, <6>1
        <5>3. CASE j > i
          <6>1. j + 1 \in 1 .. k + 1 /\ ~(j + 1 < i + 1) /\ j + 1 # i + 1 /\ j + 1 - 1 = j
            BY <1>1, <1>2, <5>3
          <6> QED
            BY <1>3, <5>1, <6>1
        <5> QED
          BY <1>1, <1>2, <5>2, <5>3
      <4> QED
        BY <2>3, <4>1, <4>2
    <3>2. ASSUME NEW j \in 1 .. k + 1 PROVE r[j] \in m.used
      <4>1. j < i + 1 => j \in 1 .. k
        BY <1>1, <2>1
      <4>2. j > i + 1 => j - 1 \in 1 .. k
        BY <1>1, <2>1
      <4>3. j < i + 1 \/ j = i + 1 \/ j > i + 1
        BY <1>2
      <4> QED
        BY <1>1, <1>2, <1>3, <2>3, <4>1, <4>2, <4>3
    <3> QED
      BY <1>3, <3>1, <3>2
  <2>9. m.first = r[1] /\ m.last = r[Len(r)]
    <3>1. r[1] = IF i = 0 THEN n ELSE s[1]
      BY <1>1, <1>2, <1>3, <2>1
    <3>2. r[k + 1] = s[k]
      BY <1>1, <1>2, <1>3, <2>1
    <3> QED
      BY <1>1, <1>3, <2>1, <2>3, <2>4, <3>1, <3>2
  <2>10. ASSUME NEW j \in 1 .. k + 1
         PROVE  m.next[r[j]] = IF j = k + 1 THEN NULL ELSE r[j + 1]
    <3>1. CASE j = i + 1
      <4>1. r[j] = n /\ r[j + 1] = s[i + 1] /\ j # k + 1
        BY <1>1, <1>2, <1>3, <2>1, <3>1
      <4>2. m.next[n] = s[i + 1]
        <5>1. CASE i = 0
          BY <1>4, <2>5, <5>1
        <5>2. CASE i # 0
          <6>1. i \in 1 .. k
            BY <1>1, <1>2, <5>2, <2>1
          <6> QED
            BY <1>1, <1>4, <2>5, <5>2, <6>1
        <5> QED
          BY <5>1, <5>2
      <4> QED
        BY <4>1, <4>2
    <3>2. CASE j = i
      <4>1. r[j] = s[i] /\ r[j + 1] = n /\ i \in 1 .. k /\ i # 0 /\ j # k + 1
        BY <1>1, <1>2, <1>3, <2>1, <3>2
      <4>2. m.next[s[i]] = n
        BY <1>1, <1>4, <2>5, <4>1
      <4> QED
        BY <4>1, <4>2
    <3>3. CASE j < i
      <4>1. r[j] = s[j] /\ r[j + 1] = s[j + 1] /\ i \in 1 .. k /\ j \in 1 .. k /\ i # 0 /\ j # k /\ j # k + 1
        BY <1>1, <1>2, <1>3, <2>1, <3>3
      <4>2. s[j] # s[i] /\ s[j] # n /\ s[j] \in Nodes
        BY <1>1, <3>3, <4>1
      <4>3. m.next[s[j]] = l.next[s[j]]
        BY <1>4, <2>5, <4>1, <4>2
      <4> QED
        BY <1>4, <4>1, <4>3
    <3>4. CASE j > i + 1
      <4> DEFINE h == j - 1
      <4>1. h \in 1 .. k /\ h > i /\ h # i /\ (j = k + 1 <=> h = k)
        BY <1>1, <1>2, <3>4
      <4>2. r[j] = s[h]
        BY <1>2, <1>3, <3>4
      <4>3. j # k + 1 => r[j + 1] = s[h + 1]
        BY <1>1, <1>2, <1>3, <3>4
      <4> HIDE DEF h
      <4>4. m.next[s[h]] = l.next[s[h]]
        <5>1. CASE i = 0
          BY <1>1, <1>4, <2>5, <4>1, <5>1
        <5>2. CASE i # 0
          <6>1. i \in 1 .. k
            BY <1>1, <1>2, <5>2, <2>1
          <6>2. s[h] # s[i] /\ s[h] # n /\ s[h] \in Nodes
            BY <1>1, <4>1, <6>1
          <6> QED
            BY <1>4, <2>5, <5>2, <6>2
        <5> QED
          BY <5>1, <5>2
      <4> QED
        BY <1>4, <4>1, <4>2, <4>3, <4>4
    <3> QED
      BY <1>2, <3>1, <3>2, <3>3, <3>4
  <2>11. ASSUME NEW j \in 1 .. k + 1
         PROVE  m.prev[r[j]] = IF j = 1 THEN NULL ELSE r[j - 1]
    <3>1. CASE j = i + 1
      <4>1. r[j] = n
        BY <1>2, <1>3, <3>1
      <4>2. CASE i = 0
        BY <1>1, <1>4, <2>1, <2>6, <3>1, <4>1, <4>2
      <4>3. CASE i # 0
        <5>1. i \in 1 .. k /\ j # 1 /\ j - 1 = i /\ r[i] = s[i]
          BY <1>1, <1>2, <1>3, <2>1, <3>1, <4>3
        <5>2. s[i + 1] # n /\ s[i + 1] \in Nodes
          BY <1>1, <2>1
        <5>3. m.prev[n] = s[i]
          BY <1>4, <2>6, <4>3, <5>2
        <5> QED
          BY <4>1, <5>1, <5>3
      <4> QED
        BY <4>2, <4>3
    <3>2. CASE j = i + 2
      <4>1. r[j] = s[i + 1] /\ r[j - 1] = n /\ j # 1
        BY <1>1, <1>2, <1>3, <3>2
      <4>2. s[i + 1] \in Nodes /\ (i = 0 => s[1] = s[i + 1])
        BY <1>1, <2>1
      <4>3. m.prev[s[i + 1]] = n
        BY <1>4, <2>6, <4>2
      <4> QED
        BY <4>1, <4>3
    <3>3. CASE j < i + 1
      <4>1. r[j] = s[j] /\ j \in 1 .. k /\ i # 0 /\ j # i + 1
        BY <1>1, <1>2, <1>3, <2>1, <3>3
      <4>2. j # 1 => r[j - 1] = s[j - 1]
        BY <1>2, <1>3, <3>3
      <4>3. s[j] # s[i + 1] /\ s[j] # n /\ s[j] \in Nodes
        BY <1>1, <2>1, <4>1
      <4>4. m.prev[s[j]] = l.prev[s[j]]
        BY <1>4, <2>6, <4>1, <4>3
      <4> QED
        BY <1>4, <4>1, <4>2, <4>4
    <3>4. CASE j > i + 2
      <4> DEFINE h == j - 1
      <4>1. h \in 1 .. k /\ h # i + 1 /\ h # 1 /\ j # 1
        BY <1>1, <1>2, <3>4
      <4>2. r[j] = s[h] /\ r[j - 1] = s[h - 1]
        BY <1>1, <1>2, <1>3, <3>4
      <4> HIDE DEF h
      <4>3. s[h] # s[i + 1] /\ s[h] # n /\ s[h] \in Nodes /\ (i = 0 => s[h] # s[1])
        BY <1>1, <2>1, <4>1
      <4>4. m.prev[s[h]] = l.prev[s[h]]
        BY <1>4, <2>6, <4>3
      <4> QED
        BY <1>4, <4>1, <4>2, <4>4
    <3> QED
      BY <1>2, <3>1, <3>2, <3>3, <3>4
  <2>12. r # <<>>
    BY <1>1, <1>3, EmptySeq
  <2>13. Represents(m, r)
    BY <1>3, <2>3, <2>7, <2>8, <2>9, <2>10, <2>11, <2>12 DEF Represents
  <2> QED
    BY <2>13 DEF m, r, before
<1> QED
  BY <1>5, <1>6


\* list_pluck takes the i-th node out (list.c:198).
THEOREM PluckRemoves ==
    ASSUME NEW Items, NEW l \in Lists(Items), NEW s, Represents(l, s), NEW i \in 1 .. Len(s)
    PROVE  Represents(list_pluck(l, s[i]), RemoveAt(s, i))
<1> DEFINE n == s[i]
           m == list_pluck(l, n)
           r == RemoveAt(s, i)
           k == Len(s)
<1>1. /\ s \in Seq(Nodes) /\ k \in Nat
      /\ \A j \in 1 .. k : s[j] \in Nodes /\ s[j] # NULL /\ s[j] \in l.used
      /\ \A j, h \in 1 .. k : s[j] = s[h] => j = h
      /\ k > 0 => l.first = s[1] /\ l.last = s[k]
  BY Represented
<1>2. /\ i \in 1 .. k /\ k > 0 /\ 1 \in 1 .. k /\ k \in 1 .. k
      /\ i # 1 => i - 1 \in 1 .. k
      /\ i # k => i + 1 \in 1 .. k
  BY <1>1
<1>3. /\ r \in Seq(Nodes) /\ Len(r) = k - 1
      /\ \A j \in 1 .. k - 1 : r[j] = IF j < i THEN s[j] ELSE s[j + 1]
  BY <1>1, RemovedElements
<1>4. /\ l.next \in [Nodes -> Nodes \cup {NULL}] /\ l.prev \in [Nodes -> Nodes \cup {NULL}]
      /\ l.length = k /\ l.used = {s[j] : j \in 1 .. k}
      /\ \A j \in 1 .. k :
            /\ l.next[s[j]] = (IF j = k THEN NULL ELSE s[j + 1])
            /\ l.prev[s[j]] = (IF j = 1 THEN NULL ELSE s[j - 1])
  BY DEF Lists, Links, Represents
<1>5. n \in Nodes /\ (l.first = n <=> i = 1) /\ (l.last = n <=> i = k)
  BY <1>1, <1>2
<1>6. l.next[n] = (IF i = k THEN NULL ELSE s[i + 1]) /\ l.prev[n] = (IF i = 1 THEN NULL ELSE s[i - 1])
  BY <1>2, <1>4
<1>7. m.used = l.used \ {n} /\ m.length = k - 1
  BY <1>4 DEF list_pluck, Freed, Lists
<1>8. m.first = IF i = 1 THEN IF k = 1 THEN NULL ELSE s[2] ELSE s[1]
  <2>1. CASE i = 1
    <3>1. m.first = IF i = k THEN NULL ELSE l.next[n]
      BY <1>5, <2>1 DEF list_pluck, Freed, Lists
    <3> QED
      BY <1>6, <2>1, <3>1
  <2>2. CASE i # 1
    <3>1. m.first = l.first
      BY <1>5, <2>2 DEF list_pluck, Freed, Lists
    <3> QED
      BY <1>1, <1>2, <2>2, <3>1
  <2> QED
    BY <2>1, <2>2
<1>9. m.last = IF i = k THEN IF k = 1 THEN NULL ELSE s[k - 1] ELSE s[k]
  <2>1. CASE i = k
    <3>1. m.last = IF i = 1 THEN NULL ELSE l.prev[n]
      BY <1>5, <2>1 DEF list_pluck, Freed, Lists
    <3> QED
      BY <1>6, <2>1, <3>1
  <2>2. CASE i # k
    <3>1. m.last = l.last
      BY <1>5, <2>2 DEF list_pluck, Freed, Lists
    <3> QED
      BY <1>1, <1>2, <2>2, <3>1
  <2> QED
    BY <2>1, <2>2
<1>10. m.next = IF i = 1 THEN [l.next EXCEPT ![n] = NULL]
                ELSE [l.next EXCEPT ![n] = NULL, ![s[i - 1]] = IF i = k THEN NULL ELSE s[i + 1]]
  <2>1. CASE i = 1
    BY <1>4, <1>5, <2>1 DEF list_pluck, Freed, Lists
  <2>2. CASE i # 1
    <3>1. m.next = [l.next EXCEPT ![n] = NULL, ![l.prev[n]] = IF i = k THEN NULL ELSE l.next[n]]
      BY <1>4, <1>5, <2>2 DEF list_pluck, Freed, Lists
    <3> QED
      BY <1>6, <2>2, <3>1
  <2> QED
    BY <2>1, <2>2
<1>11. m.prev = IF i = k THEN [l.prev EXCEPT ![n] = NULL]
                ELSE [l.prev EXCEPT ![n] = NULL, ![s[i + 1]] = IF i = 1 THEN NULL ELSE s[i - 1]]
  <2>1. CASE i = k
    BY <1>4, <1>5, <2>1 DEF list_pluck, Freed, Lists
  <2>2. CASE i # k
    <3>1. m.prev = [l.prev EXCEPT ![n] = NULL, ![l.next[n]] = IF i = 1 THEN NULL ELSE l.prev[n]]
      BY <1>4, <1>5, <2>2 DEF list_pluck, Freed, Lists
    <3> QED
      BY <1>6, <2>2, <3>1
  <2> QED
    BY <2>1, <2>2
<1>12. \A j \in 1 .. k : j # i => s[j] # n
  BY <1>1, <1>2
<1> HIDE DEF m, r, k, n
<1>13. ASSUME NEW j \in 1 .. k - 1, NEW h \in 1 .. k - 1, r[j] = r[h]
       PROVE  j = h
  <2>1. j \in 1 .. k /\ h \in 1 .. k /\ j + 1 \in 1 .. k /\ h + 1 \in 1 .. k
    BY <1>1
  <2> QED
    BY <1>1, <1>3, <1>13, <2>1
<1>14. m.used = {r[j] : j \in 1 .. k - 1}
  <2>1. ASSUME NEW x \in m.used PROVE \E j \in 1 .. k - 1 : x = r[j]
    <3>1. PICK j \in 1 .. k : x = s[j]
      BY <1>4, <1>7
    <3>2. j # i
      BY <1>7, <3>1 DEF n
    <3>3. CASE j < i
      <4>1. j \in 1 .. k - 1
        BY <1>1, <1>2, <3>3
      <4> QED
        BY <1>3, <3>1, <3>3, <4>1
    <3>4. CASE j > i
      <4> DEFINE h == j - 1
      <4>1. h \in 1 .. k - 1 /\ ~(h < i) /\ h + 1 = j
        BY <1>1, <1>2, <3>4
      <4> HIDE DEF h
      <4> QED
        BY <1>3, <3>1, <4>1
    <3> QED
      BY <1>1, <1>2, <3>2, <3>3, <3>4
  <2>2. ASSUME NEW j \in 1 .. k - 1 PROVE r[j] \in m.used
    <3>1. j \in 1 .. k /\ j + 1 \in 1 .. k /\ (~(j < i) => j + 1 # i) /\ (j < i => j # i)
      BY <1>1, <1>2
    <3> QED
      BY <1>1, <1>3, <1>7, <1>12, <3>1
  <2> QED
    BY <2>1, <2>2
<1>15. r = <<>> <=> k = 1
  BY <1>1, <1>2, <1>3, EmptySeq
<1>16. m.first = IF r = <<>> THEN NULL ELSE r[1]
  <2>1. CASE k = 1
    BY <1>2, <1>8, <1>15, <2>1
  <2>2. CASE k # 1
    <3>1. 1 \in 1 .. k - 1 /\ r[1] = IF i = 1 THEN s[2] ELSE s[1]
      BY <1>1, <1>2, <1>3, <2>2
    <3> QED
      BY <1>8, <1>15, <2>2, <3>1
  <2> QED
    BY <2>1, <2>2
<1>17. m.last = IF r = <<>> THEN NULL ELSE r[k - 1]
  <2>1. CASE k = 1
    BY <1>2, <1>9, <1>15, <2>1
  <2>2. CASE k # 1
    <3>1. k - 1 \in 1 .. k - 1 /\ r[k - 1] = IF i = k THEN s[k - 1] ELSE s[k]
      BY <1>1, <1>2, <1>3, <2>2
    <3> QED
      BY <1>9, <1>15, <2>2, <3>1
  <2> QED
    BY <2>1, <2>2
<1>18. ASSUME NEW j \in 1 .. k - 1
       PROVE  m.next[r[j]] = IF j = k - 1 THEN NULL ELSE r[j + 1]
  <2>1. CASE j = i - 1
    <3>1. /\ i # 1 /\ i - 1 \in 1 .. k /\ r[j] = s[i - 1] /\ s[i - 1] \in Nodes
          /\ (j = k - 1 <=> i = k)
      BY <1>1, <1>2, <1>3, <2>1
    <3>2. m.next[s[i - 1]] = IF i = k THEN NULL ELSE s[i + 1]
      BY <1>4, <1>10, <3>1
    <3>3. i # k => r[j + 1] = s[i + 1]
      BY <1>1, <1>2, <1>3, <2>1
    <3> QED
      BY <3>1, <3>2, <3>3
  <2>2. CASE j < i - 1
    <3>1. j \in 1 .. k /\ j # i /\ j # i - 1 /\ i # 1 /\ j # k /\ j # k - 1 /\ r[j] = s[j] /\ r[j + 1] = s[j + 1]
      BY <1>1, <1>2, <1>3, <2>2
    <3>2. s[j] # n /\ s[j] # s[i - 1] /\ s[j] \in Nodes
      BY <1>1, <1>2, <1>12, <3>1
    <3>3. m.next[s[j]] = l.next[s[j]]
      BY <1>4, <1>10, <3>2
    <3> QED
      BY <1>4, <3>1, <3>3
  <2>3. CASE j >= i
    <3> DEFINE h == j + 1
    <3>1. h \in 1 .. k /\ h # i /\ h # i - 1 /\ (h = k <=> j = k - 1) /\ r[j] = s[h]
      BY <1>1, <1>2, <1>3, <2>3
    <3>2. j # k - 1 => r[j + 1] = s[h + 1]
      BY <1>1, <1>2, <1>3, <2>3
    <3> HIDE DEF h
    <3>3. s[h] # n /\ (i # 1 => s[h] # s[i - 1]) /\ s[h] \in Nodes
      BY <1>1, <1>2, <1>12, <3>1
    <3>4. m.next[s[h]] = l.next[s[h]]
      BY <1>4, <1>10, <3>3
    <3> QED
      BY <1>4, <3>1, <3>2, <3>4
  <2> QED
    BY <1>2, <2>1, <2>2, <2>3
<1>19. ASSUME NEW j \in 1 .. k - 1
       PROVE  m.prev[r[j]] = IF j = 1 THEN NULL ELSE r[j - 1]
  <2>1. CASE j = i
    <3>1. i # k /\ i + 1 \in 1 .. k /\ r[j] = s[i + 1] /\ s[i + 1] \in Nodes
      BY <1>1, <1>2, <1>3, <2>1
    <3>2. m.prev[s[i + 1]] = IF i = 1 THEN NULL ELSE s[i - 1]
      BY <1>4, <1>11, <3>1
    <3>3. i # 1 => r[j - 1] = s[i - 1]
      BY <1>1, <1>2, <1>3, <2>1
    <3> QED
      BY <2>1, <3>1, <3>2, <3>3
  <2>2. CASE j < i
    <3>1. /\ j \in 1 .. k /\ j # i /\ j # i + 1 /\ r[j] = s[j]
          /\ j # 1 => r[j - 1] = s[j - 1]
      BY <1>1, <1>2, <1>3, <2>2
    <3>2. s[j] # n /\ (i # k => s[j] # s[i + 1]) /\ s[j] \in Nodes
      BY <1>1, <1>2, <1>12, <3>1
    <3>3. m.prev[s[j]] = l.prev[s[j]]
      BY <1>4, <1>11, <3>2
    <3> QED
      BY <1>4, <3>1, <3>3
  <2>3. CASE j > i
    <3> DEFINE h == j + 1
    <3>1. h \in 1 .. k /\ h # i /\ h # i + 1 /\ h # 1 /\ j # 1 /\ r[j] = s[h]
      BY <1>1, <1>2, <1>3, <2>3
    <3>2. r[j - 1] = s[h - 1]
      BY <1>1, <1>2, <1>3, <2>3
    <3> HIDE DEF h
    <3>3. s[h] # n /\ (i # k => s[h] # s[i + 1]) /\ s[h] \in Nodes
      BY <1>1, <1>2, <1>12, <3>1
    <3>4. m.prev[s[h]] = l.prev[s[h]]
      BY <1>4, <1>11, <3>3
    <3> QED
      BY <1>4, <3>1, <3>2, <3>4
  <2> QED
    BY <1>2, <2>1, <2>2, <2>3
<1>20. Represents(m, r)
  BY <1>3, <1>7, <1>13, <1>14, <1>16, <1>17, <1>18, <1>19 DEF Represents
<1> QED
  BY <1>20 DEF m, r, n

\* list_pop takes the last node out (list.c:107).
THEOREM PopRemovesLast ==
    ASSUME NEW Items, NEW l \in Lists(Items), NEW s, Represents(l, s), s # <<>>
    PROVE  Represents(list_pop(l), RemoveAt(s, Len(s)))
<1>1. s \in Seq(Nodes) /\ Len(s) \in Nat /\ Len(s) > 0
  BY EmptySeq DEF Represents
<1>2. l.last = s[Len(s)] /\ l.last # NULL
  BY <1>1, Represented
<1>3. list_pop(l) = list_pluck(l, l.last)
  BY <1>2 DEF list_pop, list_pluck
<1>4. Represents(list_pluck(l, s[Len(s)]), RemoveAt(s, Len(s)))
  BY <1>1, PluckRemoves
<1> QED
  BY <1>2, <1>3, <1>4

\* list_poll takes the first node out (list.c:125).
THEOREM PollRemovesFirst ==
    ASSUME NEW Items, NEW l \in Lists(Items), NEW s, Represents(l, s), s # <<>>
    PROVE  Represents(list_poll(l), RemoveAt(s, 1))
<1>1. s \in Seq(Nodes) /\ Len(s) \in Nat /\ Len(s) > 0
  BY EmptySeq DEF Represents
<1>2. l.first = s[1] /\ l.first # NULL
  BY <1>1, Represented
<1>3. list_poll(l) = list_pluck(l, l.first)
  BY <1>2 DEF list_poll, list_pluck
<1>4. Represents(list_pluck(l, s[1]), RemoveAt(s, 1))
  BY <1>1, PluckRemoves
<1> QED
  BY <1>2, <1>3, <1>4

-----------------------------------------------------------------------------
(***************************************************************************)
(* The iterators.  What they show is defined by recursion on the number of *)
(* calls; the induction is over a set of numbers, by way of its least      *)
(* element that is missing.                                                *)
(***************************************************************************)

LEMMA SetInduction ==
    ASSUME NEW T, T \subseteq Nat, 0 \in T, \A k \in T : k + 1 \in T
    PROVE  T = Nat
<1> DEFINE R == {ss \in Nat \X Nat : ss[1] < ss[2]}
           U == Nat \ T
<1>1. IsWellFoundedOn(R, Nat)
  <2>1. OpToRel(<, Nat) = R
    BY DEF OpToRel
  <2> QED
    BY <2>1, NatLessThanWellFounded
<1>2. ASSUME U # {} PROVE FALSE
  <2>1. PICK m \in U : \A k \in U : ~(<<k, m>> \in R)
    <3> HIDE DEF R
    <3> QED
      BY <1>1, <1>2, WFMin
  <2>2. m - 1 \in Nat /\ m - 1 < m
    OBVIOUS
  <2>3. m - 1 \in T
    BY <2>1, <2>2
  <2> QED
    BY <2>2, <2>3
<1> QED
  BY <1>2

\* One more call of an iterator that started at node, after those that f tells.
Steps(f, node, links) ==
    [k \in Nat |-> IF k = 0 THEN list_iterator(node) ELSE Advance(f[k - 1], links)]

Iterated(node, links) == CHOOSE f : f = Steps(f, node, links)

\* A function that satisfies the recursion is the function that the recursion defines.
LEMMA IteratorUnique ==
    ASSUME NEW node, NEW links, NEW g, g = Steps(g, node, links)
    PROVE  Iterated(node, links) = g
<1> DEFINE it == Iterated(node, links)
<1>1. it = Steps(it, node, links)
  BY DEF Iterated
<1> HIDE DEF it
<1>2. it[0] = g[0] /\ it = [k \in Nat |-> it[k]] /\ g = [k \in Nat |-> g[k]]
  BY <1>1 DEF Steps
<1>3. \A k \in Nat \ {0} : it[k] = Advance(it[k - 1], links) /\ g[k] = Advance(g[k - 1], links)
  BY <1>1 DEF Steps
<1> DEFINE T == {k \in Nat : it[k] = g[k]}
<1>4. ASSUME NEW k \in T PROVE k + 1 \in T
  <2>1. k \in Nat /\ k + 1 \in Nat \ {0} /\ k + 1 - 1 = k /\ it[k] = g[k]
    OBVIOUS
  <2>2. it[k + 1] = Advance(it[k], links) /\ g[k + 1] = Advance(g[k], links)
    BY <1>3, <2>1
  <2> QED
    BY <2>1, <2>2
<1>5. T = Nat
  <2>1. 0 \in T /\ T \subseteq Nat
    BY <1>2
  <2> HIDE DEF T
  <2> QED
    BY <1>4, <2>1, SetInduction
<1>6. \A k \in Nat : it[k] = g[k]
  BY <1>5
<1> QED
  BY <1>2, <1>6 DEF it

\* The three cases of list_next and list_prev.
LEMMA AdvanceOutside ==
    ASSUME NEW links, NEW b \in BOOLEAN
    PROVE  Advance([current |-> NULL, started |-> b], links) = [current |-> NULL, started |-> b]
  BY DEF Advance

LEMMA AdvanceFirst ==
    ASSUME NEW links, NEW m, m # NULL
    PROVE  Advance(list_iterator(m), links) = [current |-> m, started |-> TRUE]
  BY DEF Advance, list_iterator

LEMMA AdvanceInside ==
    ASSUME NEW links, NEW m, m # NULL
    PROVE  Advance([current |-> m, started |-> TRUE], links)
             = [current |-> links[m], started |-> TRUE]
  BY DEF Advance

\* The links lead from node through the sequence r.
LeadThrough(node, links, r) ==
    /\ r \in Seq(Nodes)
    /\ node = IF Len(r) = 0 THEN NULL ELSE r[1]
    /\ \A i \in 1 .. Len(r) :
          r[i] # NULL /\ links[r[i]] = IF i = Len(r) THEN NULL ELSE r[i + 1]

\* An iterator along them shows r and then NULL.
LEMMA IteratorShows ==
    ASSUME NEW links, NEW r, NEW node, LeadThrough(node, links, r)
    PROVE  \A k \in 1 .. Len(r) + 1 :
              Iterated(node, links)[k].current = IF k = Len(r) + 1 THEN NULL ELSE r[k]
<1> DEFINE it == Iterated(node, links)
           n == Len(r)
           Inside(node1) == [current |-> node1, started |-> TRUE]
           Shown(k) == IF k = 0 \/ n = 0 THEN list_iterator(node)
                       ELSE Inside(IF k <= n THEN r[k] ELSE NULL)
           g == [k \in Nat |-> Shown(k)]
<1>1. n \in Nat
  BY DEF LeadThrough
<1> HIDE DEF n, it
<1>2. ASSUME NEW k \in Nat
      PROVE  Shown(k) = IF k = 0 THEN list_iterator(node) ELSE Advance(Shown(k - 1), links)
  <2>1. CASE k = 0
    BY <2>1
  <2>2. CASE k # 0 /\ n = 0
    <3>1. Shown(k) = list_iterator(NULL) /\ Shown(k - 1) = list_iterator(NULL)
      BY <2>2 DEF n, LeadThrough
    <3> QED
      BY <2>2, <3>1, AdvanceOutside DEF list_iterator
  <2>3. CASE n # 0 /\ k = 1
    <3>1. node = r[1] /\ node # NULL /\ 1 <= n
      BY <1>1, <2>3 DEF n, LeadThrough
    <3>2. Shown(k) = Inside(IF 1 <= n THEN r[1] ELSE NULL)
      BY <2>3
    <3>3. Shown(k - 1) = list_iterator(node)
      BY <2>3
    <3>4. Shown(k) = Inside(node)
      BY <3>1, <3>2
    <3> HIDE DEF Shown
    <3> QED
      <4>1. Advance(list_iterator(node), links) = Inside(node)
        BY <3>1, AdvanceFirst
      <4> HIDE DEF Inside
      <4> QED
        BY <2>3, <3>3, <3>4, <4>1
  <2>4. CASE n # 0 /\ k > 1 /\ k <= n + 1
    <3>1. k - 1 \in 1 .. n /\ k - 1 # 0 /\ k - 1 <= n /\ k - 1 + 1 = k /\ (k <= n <=> k - 1 # n)
      BY <1>1, <2>4
    <3>2. r[k - 1] # NULL /\ links[r[k - 1]] = IF k <= n THEN r[k] ELSE NULL
      BY <3>1 DEF n, LeadThrough
    <3>3. Shown(k - 1) = Inside(r[k - 1])
      BY <2>4, <3>1
    <3>4. Shown(k) = Inside(links[r[k - 1]])
      BY <2>4, <3>2
    <3> HIDE DEF Shown
    <3> QED
      BY <2>4, <3>2, <3>3, <3>4, AdvanceInside
  <2>5. CASE n # 0 /\ k > n + 1
    <3>1. ~(k <= n) /\ ~(k - 1 <= n) /\ k - 1 # 0 /\ k # 0
      BY <1>1, <2>5
    <3>2. Shown(k - 1) = Inside(NULL) /\ Shown(k) = Inside(NULL)
      BY <2>5, <3>1
    <3> HIDE DEF Shown
    <3> QED
      BY <3>1, <3>2, AdvanceOutside
  <2> QED
    BY <1>1, <2>1, <2>2, <2>3, <2>4, <2>5
<1>3. it = g
  <2> HIDE DEF Shown
  <2>1. \A k \in Nat : k # 0 => k - 1 \in Nat
    OBVIOUS
  <2>2. \A k \in Nat : Shown(k) = IF k = 0 THEN list_iterator(node) ELSE Advance(g[k - 1], links)
    BY <1>2, <2>1
  <2>3. g = Steps(g, node, links)
    BY <2>2 DEF Steps
  <2> QED
    BY <2>3, IteratorUnique DEF it
<1>4. ASSUME NEW k \in 1 .. n + 1
      PROVE  it[k].current = IF k = n + 1 THEN NULL ELSE r[k]
  <2>1. k \in Nat /\ k # 0 /\ n # 0 => it[k] = Inside(IF k <= n THEN r[k] ELSE NULL)
    BY <1>3
  <2>2. ASSUME n = 0 PROVE k = 1 /\ it[k] = list_iterator(node) /\ node = NULL
    <3>1. k \in Nat /\ k = 1
      BY <2>2
    <3>2. node = NULL
      BY <2>2 DEF n, LeadThrough
    <3>3. it[k] = Shown(k)
      BY <1>3, <3>1
    <3> QED
      BY <2>2, <3>1, <3>2, <3>3
  <2>3. k \in Nat /\ k # 0 /\ (k <= n <=> k # n + 1)
    BY <1>1
  <2> QED
    BY <2>1, <2>2, <2>3 DEF list_iterator
<1> QED
  BY <1>4 DEF n, it

\* What Append and Reverse return, element by element.
LEMMA AppendedElements ==
    ASSUME NEW S, NEW r \in Seq(S), NEW e
    PROVE  Append(r, e) = [k \in 1 .. Len(r) + 1 |-> IF k = Len(r) + 1 THEN e ELSE r[k]]
<1> DEFINE a == Append(r, e)
           n == Len(r)
<1>1. r \in Seq(S \cup {e}) /\ e \in S \cup {e}
  OBVIOUS
<1>2. a \in Seq(S \cup {e}) /\ Len(a) = n + 1 /\ a[n + 1] = e /\ \A i \in 1 .. n : a[i] = r[i]
  BY <1>1, AppendProperties
<1>3. n \in Nat /\ a = [i \in 1 .. n + 1 |-> a[i]]
  <2>1. n \in Nat
    BY <1>1, LenProperties
  <2>2. a \in [1 .. Len(a) -> S \cup {e}]
    BY <1>2, LenProperties
  <2>3. Len(a) = n + 1
    BY <1>2
  <2> HIDE DEF a, n
  <2> QED
    BY <2>1, <2>2, <2>3
<1> HIDE DEF a, n
<1>4. \A i \in 1 .. n + 1 : a[i] = IF i = n + 1 THEN e ELSE r[i]
  BY <1>2, <1>3
<1> QED
  BY <1>3, <1>4 DEF a, n

LEMMA ReversedElements ==
    ASSUME NEW S, NEW r \in Seq(S)
    PROVE  /\ Reverse(r) \in Seq(S) /\ Len(Reverse(r)) = Len(r)
           /\ \A i \in 1 .. Len(r) : Reverse(r)[i] = r[Len(r) - i + 1]
  BY DEF Reverse

\* list_next shows the nodes of the list from the front, and then NULL (list.c:130).
THEOREM ForwardVisits ==
    ASSUME NEW l, NEW s, Represents(l, s)
    PROVE  Forward(l) = Append(s, NULL)
<1> DEFINE it == Iterated(l.first, l.next)
<1>1. Forward(l) = [k \in 1 .. l.length + 1 |-> it[k].current]
  BY DEF Forward, Iterated, Steps, list_next
<1> HIDE DEF it
<1>2. s \in Seq(Nodes) /\ l.length = Len(s) /\ \A i \in 1 .. Len(s) : s[i] # NULL
  <2>1. l.length = Len(s)
    BY DEF Represents
  <2> QED
    BY <2>1, Represented
<1>3. l.first = IF Len(s) = 0 THEN NULL ELSE s[1]
  BY <1>2, EmptySeq DEF Represents
<1>4. \A i \in 1 .. Len(s) : l.next[s[i]] = (IF i = Len(s) THEN NULL ELSE s[i + 1])
  BY DEF Represents
<1>5. LeadThrough(l.first, l.next, s)
  BY <1>2, <1>3, <1>4 DEF LeadThrough
<1>6. \A k \in 1 .. Len(s) + 1 : it[k].current = IF k = Len(s) + 1 THEN NULL ELSE s[k]
  BY <1>5, IteratorShows DEF it
<1> QED
  BY <1>1, <1>2, <1>6, AppendedElements

\* list_prev shows them from the back (list.c:146).
THEOREM BackwardVisits ==
    ASSUME NEW l, NEW s, Represents(l, s)
    PROVE  Backward(l) = Append(Reverse(s), NULL)
<1> DEFINE it == Iterated(l.last, l.prev)
           r == Reverse(s)
           n == Len(s)
<1>1. Backward(l) = [k \in 1 .. l.length + 1 |-> it[k].current]
  BY DEF Backward, Iterated, Steps, list_prev
<1>2. s \in Seq(Nodes) /\ n \in Nat /\ l.length = n /\ \A i \in 1 .. n : s[i] # NULL
  <2>1. l.length = n
    BY DEF Represents
  <2> QED
    BY <2>1, Represented
<1>3. r \in Seq(Nodes) /\ Len(r) = n /\ \A i \in 1 .. n : r[i] = s[n - i + 1]
  BY <1>2, ReversedElements
<1>4. l.last = IF n = 0 THEN NULL ELSE s[n]
  BY <1>2, EmptySeq DEF Represents
<1>5. \A i \in 1 .. n : l.prev[s[i]] = (IF i = 1 THEN NULL ELSE s[i - 1])
  BY DEF Represents
<1> HIDE DEF it, r, n
<1>6. l.last = IF Len(r) = 0 THEN NULL ELSE r[1]
  <2>1. n # 0 => r[1] = s[n]
    BY <1>2, <1>3
  <2> QED
    BY <1>3, <1>4, <2>1
<1>7. ASSUME NEW i \in 1 .. n
      PROVE  r[i] # NULL /\ l.prev[r[i]] = IF i = n THEN NULL ELSE r[i + 1]
  <2>1. n - i + 1 \in 1 .. n /\ r[i] = s[n - i + 1]
    BY <1>2, <1>3
  <2>2. l.prev[r[i]] = IF n - i + 1 = 1 THEN NULL ELSE s[n - i]
    BY <1>2, <1>5, <2>1
  <2>3. i # n => r[i + 1] = s[n - i]
    <3>1. i # n => i + 1 \in 1 .. n /\ n - (i + 1) + 1 = n - i
      BY <1>2
    <3> QED
      BY <1>3, <3>1
  <2> QED
    BY <1>2, <2>1, <2>2, <2>3
<1>8. LeadThrough(l.last, l.prev, r)
  BY <1>3, <1>6, <1>7 DEF LeadThrough
<1>9. \A k \in 1 .. Len(r) + 1 : it[k].current = IF k = Len(r) + 1 THEN NULL ELSE r[k]
  BY <1>8, IteratorShows DEF it
<1>10. Backward(l) = [k \in 1 .. Len(r) + 1 |-> it[k].current]
  BY <1>1, <1>2, <1>3
<1>11. Backward(l) = Append(r, NULL)
  BY <1>3, <1>9, <1>10, AppendedElements
<1> QED
  BY <1>11 DEF r
=============================================================================
