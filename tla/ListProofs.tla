----------------------------- MODULE ListProofs -----------------------------
(***************************************************************************)
(* The pointers of list.c represent the kernel's lists, for any number of  *)
(* lists and nodes.                                                        *)
(***************************************************************************)
EXTENDS ListPointers, SequenceTheorems, TLAPS

----------------------------------------------------------------------------
(* The cells of a ring.                                                    *)

\* Cell 0 and the last cell of a ring are its head; the cells between are its
\* nodes; no cell is in two rings or twice in one.
LEMMA CellFacts ==
    ASSUME Represents
    PROVE  /\ \A h \in ListHead : Len(lists[h]) \in Nat
           /\ \A h \in ListHead : \A i \in 1 .. Len(lists[h]) :
                 Cell(h, i) = lists[h][i] /\ Cell(h, i) \in ListNode
           /\ \A h \in ListHead : Cell(h, 0) = h /\ Cell(h, Len(lists[h]) + 1) = h
           /\ \A h \in ListHead, i \in Int : Cell(h, i) \in Addr
           /\ \A h, g \in ListHead :
                 \A i \in 0 .. Len(lists[h]), j \in 0 .. Len(lists[g]) :
                    Cell(h, i) = Cell(g, j) => h = g /\ i = j
           /\ \A n \in ListNode : Unlinked(n) =>
                 \A h \in ListHead, i \in Int : Cell(h, i) # n
<1>1. \A h \in ListHead : lists[h] \in Seq(ListNode) /\ Len(lists[h]) \in Nat
  BY LenProperties DEF Represents
<1>2. \A h \in ListHead : \A i \in 1 .. Len(lists[h]) :
         Cell(h, i) = lists[h][i] /\ Cell(h, i) \in ListNode
  BY <1>1, ElementOfSeq DEF Cell
<1>3. \A h \in ListHead : Cell(h, 0) = h /\ Cell(h, Len(lists[h]) + 1) = h
  BY <1>1 DEF Cell
<1>4. \A h \in ListHead, i \in Int : Cell(h, i) \in Addr
  BY <1>2 DEF Cell, Addr
<1>5. ASSUME NEW h \in ListHead, NEW g \in ListHead,
             NEW i \in 0 .. Len(lists[h]), NEW j \in 0 .. Len(lists[g]),
             Cell(h, i) = Cell(g, j)
      PROVE  h = g /\ i = j
  <2>1. i = 0 \/ i \in 1 .. Len(lists[h])
    BY <1>1
  <2>2. j = 0 \/ j \in 1 .. Len(lists[g])
    BY <1>1
  <2>3. CASE i = 0 /\ j = 0
    BY <1>5, <2>3, <1>3
  <2>4. CASE i = 0 /\ j \in 1 .. Len(lists[g])
    BY <1>5, <2>4, <1>2, <1>3, ListAssumption
  <2>5. CASE i \in 1 .. Len(lists[h]) /\ j = 0
    BY <1>5, <2>5, <1>2, <1>3, ListAssumption
  <2>6. CASE i \in 1 .. Len(lists[h]) /\ j \in 1 .. Len(lists[g])
    <3>1. lists[h][i] = lists[g][j]
      BY <1>5, <2>6, <1>2
    <3> QED
      BY <3>1, <2>6 DEF Represents, OnePlace
  <2> QED
    BY <2>1, <2>2, <2>3, <2>4, <2>5, <2>6
<1>6. ASSUME NEW n \in ListNode, Unlinked(n), NEW h \in ListHead, NEW i \in Int
      PROVE  Cell(h, i) # n
  <2>1. \A k \in 1 .. Len(lists[h]) : lists[h][k] # n
    BY <1>6 DEF Represents
  <2> QED
    BY <2>1, ListAssumption DEF Cell
<1> QED
  BY <1>1, <1>2, <1>3, <1>4, <1>5, <1>6

\* The cell after the i-th one is in no other ring, nor twice in its own.
LEMMA CellsApart ==
    ASSUME Represents,
           NEW h \in ListHead, NEW i \in 1 .. Len(lists[h]) + 1,
           NEW g \in ListHead, NEW j \in 1 .. Len(lists[g]) + 1,
           Cell(h, i) = Cell(g, j)
    PROVE  h = g /\ i = j
<1> DEFINE Low(f, k) == IF k = Len(lists[f]) + 1 THEN 0 ELSE k
<1>1. /\ Len(lists[h]) \in Nat /\ Len(lists[g]) \in Nat
      /\ Low(h, i) \in 0 .. Len(lists[h]) /\ Low(g, j) \in 0 .. Len(lists[g])
  BY CellFacts
<1>2. Cell(h, i) = Cell(h, Low(h, i)) /\ Cell(g, j) = Cell(g, Low(g, j))
  BY CellFacts
<1>3. \A x \in 0 .. Len(lists[h]), y \in 0 .. Len(lists[g]) :
         Cell(h, x) = Cell(g, y) => h = g /\ x = y
  BY CellFacts
<1>4. Cell(h, Low(h, i)) = Cell(g, Low(g, j))
  BY <1>2
<1> HIDE DEF Low
<1>5. h = g /\ Low(h, i) = Low(g, j)
  BY <1>1, <1>3, <1>4
<1> QED
  BY <1>1, <1>5 DEF Low

\* What Represents says of the pointers, cell by cell.
LEMMA PointerFacts ==
    ASSUME Represents, NEW h \in ListHead
    PROVE  /\ \A i \in 0 .. Len(lists[h]) : next[Cell(h, i)] = Cell(h, i + 1)
           /\ \A i \in 1 .. Len(lists[h]) + 1 : prev[Cell(h, i)] = Cell(h, i - 1)
           /\ next[h] = Cell(h, 1)
           /\ prev[h] = Cell(h, Len(lists[h]))
<1>1. \A i \in 0 .. Len(lists[h]) :
         next[Cell(h, i)] = Cell(h, i + 1) /\ prev[Cell(h, i + 1)] = Cell(h, i)
  BY DEF Represents
<1>2. Len(lists[h]) \in Nat
  BY CellFacts
<1>3. ASSUME NEW i \in 1 .. Len(lists[h]) + 1
      PROVE  prev[Cell(h, i)] = Cell(h, i - 1)
  <2>1. i - 1 \in 0 .. Len(lists[h]) /\ (i - 1) + 1 = i
    BY <1>2
  <2> QED
    BY <2>1, <1>1
<1>4. Cell(h, 0) = h /\ Cell(h, Len(lists[h]) + 1) = h
  BY CellFacts
<1>5. next[h] = Cell(h, 1)
  BY <1>1, <1>2, <1>4
<1>6. prev[h] = Cell(h, Len(lists[h]))
  BY <1>1, <1>2, <1>4
<1> QED
  BY <1>1, <1>3, <1>5, <1>6

\* list_add puts the node before the first one.
LEMMA AddFirstOK ==
    ASSUME Represents, NEW h \in ListHead, NEW n \in ListNode, AddFirst(n, h)
    PROVE  Represents'
<1> DEFINE L == lists[h]
           m == Len(L)
<1>1. /\ Unlinked(n)
      /\ prev' = [prev EXCEPT ![Cell(h, 1)] = n, ![n] = h]
      /\ next' = [next EXCEPT ![n] = Cell(h, 1), ![h] = n]
      /\ lists' = [lists EXCEPT ![h] = <<n>> \o L]
  BY PointerFacts DEF AddFirst, link_between, list_add
<1>2. /\ m \in Nat
      /\ L \in Seq(ListNode)
      /\ <<n>> \o L \in Seq(ListNode)
      /\ Len(<<n>> \o L) = m + 1
      /\ (<<n>> \o L)[1] = n
      /\ \A i \in 2 .. m + 1 : (<<n>> \o L)[i] = L[i - 1]
  <2>1. L \in Seq(ListNode) /\ <<n>> \in Seq(ListNode) /\ Len(<<n>>) = 1 /\ <<n>>[1] = n
    BY DEF Represents
  <2> QED
    BY <2>1, ConcatProperties, LenProperties
<1>3. /\ lists' \in [ListHead -> Seq(ListNode)]
      /\ lists'[h] = <<n>> \o L
      /\ \A g \in ListHead \ {h} : lists'[g] = lists[g]
  BY <1>1, <1>2 DEF Represents
<1>4. /\ h \in Addr /\ n \in Addr /\ n # h
      /\ \A i \in Int : Cell(h, i) \in Addr
      /\ \A g \in ListHead, i \in Int : Cell(g, i) # n
  BY <1>1, CellFacts, ListAssumption DEF Addr
\* The cells after the step.
<1>5. /\ Cell(h, 0)' = h
      /\ Cell(h, 1)' = n
      /\ \A i \in 1 .. m + 1 : Cell(h, i + 1)' = Cell(h, i)
  BY <1>2, <1>3 DEF Cell
<1>6. \A g \in ListHead \ {h} : \A i \in Int : Cell(g, i)' = Cell(g, i)
  BY <1>3 DEF Cell
<1>7. /\ next' \in [Addr -> Addr \cup {NULL}]
      /\ prev' \in [Addr -> Addr \cup {NULL}]
  <2>1. Cell(h, 1) \in Addr
    BY <1>4
  <2>2. next \in [Addr -> Addr \cup {NULL}] /\ prev \in [Addr -> Addr \cup {NULL}]
    BY DEF Represents
  <2> QED
    BY <1>1, <1>4, <2>1, <2>2
<1>8. OnePlace'
  <2> SUFFICES ASSUME NEW f \in ListHead, NEW g \in ListHead,
                      NEW i \in 1 .. Len(lists'[f]), NEW j \in 1 .. Len(lists'[g]),
                      lists'[f][i] = lists'[g][j]
               PROVE  f = g /\ i = j
    BY DEF OnePlace
  <2>1. \A k \in ListHead : \A l \in 1 .. Len(lists[k]) : lists[k][l] # n
    BY <1>1 DEF Represents
  <2>2. OnePlace
    BY DEF Represents
  <2>3. CASE f # h /\ g # h
    BY <2>2, <2>3, <1>3 DEF OnePlace
  <2>4. CASE f = h /\ g # h
    <3>1. i = 1 \/ (i - 1 \in 1 .. m /\ lists'[f][i] = L[i - 1])
      BY <2>4, <1>2, <1>3
    <3>2. lists'[g][j] = lists[g][j] /\ j \in 1 .. Len(lists[g])
      BY <2>4, <1>3
    <3> QED
      BY <3>1, <3>2, <2>1, <2>2, <2>4, <1>2, <1>3 DEF OnePlace
  <2>5. CASE f # h /\ g = h
    <3>1. j = 1 \/ (j - 1 \in 1 .. m /\ lists'[g][j] = L[j - 1])
      BY <2>5, <1>2, <1>3
    <3>2. lists'[f][i] = lists[f][i] /\ i \in 1 .. Len(lists[f])
      BY <2>5, <1>3
    <3> QED
      BY <2>5, <1>3, <3>1, <3>2, <2>1, <2>2, <1>2 DEF OnePlace
  <2>6. CASE f = h /\ g = h
    <3>1. i = 1 \/ (i - 1 \in 1 .. m /\ lists'[h][i] = L[i - 1])
      BY <2>6, <1>2, <1>3
    <3>2. j = 1 \/ (j - 1 \in 1 .. m /\ lists'[h][j] = L[j - 1])
      BY <2>6, <1>2, <1>3
    <3>3. lists'[h][1] = n /\ i \in Int /\ j \in Int /\ lists'[h][i] = lists'[h][j]
      BY <2>6, <1>2, <1>3
    <3>4. \A l \in 1 .. m : L[l] # n
      BY <2>1
    <3>5. \A l1, l2 \in 1 .. m : L[l1] = L[l2] => l1 = l2
      BY <2>2 DEF OnePlace
    <3>6. i = 1 <=> j = 1
      BY <3>1, <3>2, <3>3, <3>4
    <3>7. ASSUME i # 1, j # 1 PROVE i = j
      <4>1. L[i - 1] = L[j - 1] /\ i - 1 \in 1 .. m /\ j - 1 \in 1 .. m
        BY <3>1, <3>2, <3>3, <3>7
      <4>2. i - 1 = j - 1
        BY <4>1, <3>5
      <4> QED
        BY <4>2, <3>3
    <3> QED
      BY <2>6, <3>6, <3>7
  <2> QED
    BY <2>3, <2>4, <2>5, <2>6
\* The other rings keep their pointers: none of their cells is touched.
<1>9. ASSUME NEW g \in ListHead \ {h}, NEW i \in 0 .. Len(lists[g])
      PROVE  /\ next'[Cell(g, i)] = Cell(g, i + 1)
             /\ prev'[Cell(g, i + 1)] = Cell(g, i)
  <2>1. /\ Cell(g, i) # h /\ Cell(g, i) # n /\ Cell(g, i) \in Addr
        /\ Cell(g, i + 1) # n /\ Cell(g, i + 1) \in Addr
    BY <1>2, <1>4, CellFacts
  <2>2. Cell(g, i + 1) # Cell(h, 1)
    BY <1>2, CellsApart
  <2> QED
    BY <2>1, <2>2, <1>1, <1>4 DEF Represents
<1>10. ASSUME NEW i \in 0 .. m + 1
       PROVE  /\ next'[Cell(h, i)'] = Cell(h, i + 1)'
              /\ prev'[Cell(h, i + 1)'] = Cell(h, i)'
  <2>1. CASE i = 0
    BY <2>1, <1>1, <1>4, <1>5, <1>7 DEF Represents
  <2>2. CASE i = 1
    <3>1. Cell(h, 2)' = Cell(h, 1) /\ Cell(h, 1) # n /\ Cell(h, 1) \in Addr
      BY <1>2, <1>4, <1>5
    <3> QED
      BY <2>2, <3>1, <1>1, <1>4, <1>5 DEF Represents
  <2>3. CASE i \in 2 .. m + 1
    <3>1. /\ i - 1 \in 1 .. m /\ (i - 1) + 1 = i
          /\ Cell(h, i)' = Cell(h, i - 1)
          /\ Cell(h, i + 1)' = Cell(h, i)
      BY <2>3, <1>2, <1>5
    <3>2. /\ next[Cell(h, i - 1)] = Cell(h, i)
          /\ prev[Cell(h, i)] = Cell(h, i - 1)
      BY <3>1 DEF Represents
    <3>3. Cell(h, i - 1) # h /\ Cell(h, i) # Cell(h, 1)
      BY <3>1, <2>3, <1>2, CellFacts, CellsApart
    <3> QED
      BY <3>1, <3>2, <3>3, <2>3, <1>1, <1>4 DEF Represents
  <2> QED
    BY <2>1, <2>2, <2>3, <1>2
<1>11. ASSUME NEW k \in ListNode
       PROVE  Unlinked(k)' <=> \A g \in ListHead : \A i \in 1 .. Len(lists'[g]) :
                                   lists'[g][i] # k
  <2>1. CASE k = n
    <3>1. next'[n] # NULL
      BY <1>1, <1>4, ListAssumption DEF Represents, Addr
    <3>2. 1 \in 1 .. Len(lists'[h]) /\ lists'[h][1] = n
      BY <1>2, <1>3
    <3> QED
      BY <2>1, <3>1, <3>2 DEF Unlinked
  <2>2. CASE k # n
    <3>1. next'[k] = next[k]
      BY <2>2, <1>1, ListAssumption DEF Represents, Addr
    <3>2. (\A i \in 1 .. m : L[i] # k) <=> (\A i \in 1 .. m + 1 : lists'[h][i] # k)
      <4>1. \A i \in 1 .. m : i + 1 \in 2 .. m + 1 /\ lists'[h][i + 1] = L[i]
        BY <1>2, <1>3
      <4>2. \A i \in 2 .. m + 1 : i - 1 \in 1 .. m /\ lists'[h][i] = L[i - 1]
        BY <1>2, <1>3
      <4>3. \A i \in 1 .. m + 1 : i = 1 \/ i \in 2 .. m + 1
        BY <1>2
      <4>4. lists'[h][1] # k
        BY <2>2, <1>2, <1>3
      <4>5. ASSUME \A i \in 1 .. m : L[i] # k, NEW i \in 1 .. m + 1
            PROVE  lists'[h][i] # k
        <5>1. CASE i = 1
          BY <5>1, <4>4
        <5>2. CASE i \in 2 .. m + 1
          <6>1. i - 1 \in 1 .. m /\ lists'[h][i] = L[i - 1]
            BY <5>2, <4>2
          <6>2. L[i - 1] # k
            BY <6>1, <4>5
          <6> QED
            BY <6>1, <6>2
        <5> QED
          BY <4>3, <5>1, <5>2
      <4>6. ASSUME \A i \in 1 .. m + 1 : lists'[h][i] # k, NEW i \in 1 .. m
            PROVE  L[i] # k
        <5>1. i + 1 \in 1 .. m + 1 /\ lists'[h][i + 1] = L[i]
          BY <4>1, <1>2
        <5>2. lists'[h][i + 1] # k
          BY <5>1, <4>6
        <5> QED
          BY <5>1, <5>2
      <4> QED
        BY <4>5, <4>6
    <3>3. Unlinked(k) <=> \A g \in ListHead : \A i \in 1 .. Len(lists[g]) : lists[g][i] # k
      BY DEF Represents
    <3>4. \A g \in ListHead :
             (\A i \in 1 .. Len(lists[g]) : lists[g][i] # k) <=>
                 (\A i \in 1 .. Len(lists'[g]) : lists'[g][i] # k)
      BY <3>2, <1>2, <1>3
    <3> QED
      BY <3>1, <3>3, <3>4 DEF Unlinked
  <2> QED
    BY <2>1, <2>2
<1>12. ASSUME NEW g \in ListHead, NEW i \in 0 .. Len(lists'[g])
       PROVE  /\ next'[Cell(g, i)'] = Cell(g, i + 1)'
              /\ prev'[Cell(g, i + 1)'] = Cell(g, i)'
  <2>1. CASE g = h
    BY <2>1, <1>2, <1>3, <1>10
  <2>2. CASE g # h
    <3>1. i \in 0 .. Len(lists[g]) /\ i \in Int /\ i + 1 \in Int
      BY <2>2, <1>3
    <3> QED
      BY <2>2, <3>1, <1>6, <1>9
  <2> QED
    BY <2>1, <2>2
<1> QED
  BY <1>3, <1>7, <1>8, <1>11, <1>12 DEF Represents

\* list_add_tail puts the node after the last one.
LEMMA AddLastOK ==
    ASSUME Represents, NEW h \in ListHead, NEW n \in ListNode, AddLast(n, h)
    PROVE  Represents'
<1> DEFINE L == lists[h]
           m == Len(L)
<1>1. /\ Unlinked(n)
      /\ prev' = [prev EXCEPT ![h] = n, ![n] = Cell(h, m)]
      /\ next' = [next EXCEPT ![n] = h, ![Cell(h, m)] = n]
      /\ lists' = [lists EXCEPT ![h] = Append(L, n)]
  BY PointerFacts DEF AddLast, link_between, list_add_tail
<1>2. /\ m \in Nat
      /\ L \in Seq(ListNode)
      /\ Append(L, n) \in Seq(ListNode)
      /\ Len(Append(L, n)) = m + 1
      /\ Append(L, n)[m + 1] = n
      /\ \A i \in 1 .. m : Append(L, n)[i] = L[i]
  BY LenProperties DEF Represents
<1>3. /\ lists' \in [ListHead -> Seq(ListNode)]
      /\ lists'[h] = Append(L, n)
      /\ \A g \in ListHead \ {h} : lists'[g] = lists[g]
  BY <1>1, <1>2 DEF Represents
<1>4. /\ h \in Addr /\ n \in Addr /\ n # h
      /\ \A i \in Int : Cell(h, i) \in Addr
      /\ \A g \in ListHead, i \in Int : Cell(g, i) # n
  BY <1>1, CellFacts, ListAssumption DEF Addr
<1>5. ASSUME NEW i \in Int
      PROVE  /\ i \in 0 .. m => Cell(h, i)' = Cell(h, i)
             /\ i = m + 1 => Cell(h, i)' = n
             /\ i = m + 2 => Cell(h, i)' = h
  <2>1. Len(lists'[h]) = m + 1 /\ lists'[h][m + 1] = n
    BY <1>2, <1>3
  <2>2. i = m + 1 => Cell(h, i)' = n
    BY <2>1, <1>2 DEF Cell
  <2>3. i = m + 2 => Cell(h, i)' = h
    BY <2>1, <1>2 DEF Cell
  <2>4. CASE i = 0
    BY <2>4, <2>1, <2>2, <2>3, <1>2 DEF Cell
  <2>5. CASE i \in 1 .. m
    <3>1. i \in 1 .. m + 1 /\ lists'[h][i] = L[i]
      BY <2>5, <1>2, <1>3
    <3>2. Cell(h, i)' = Cell(h, i)
      BY <3>1, <2>5, <2>1 DEF Cell
    <3> QED
      BY <3>2, <2>2, <2>3
  <2> QED
    BY <2>2, <2>3, <2>4, <2>5, <1>2
<1>6. \A g \in ListHead \ {h} : \A i \in Int : Cell(g, i)' = Cell(g, i)
  BY <1>3 DEF Cell
<1>7. /\ next' \in [Addr -> Addr \cup {NULL}]
      /\ prev' \in [Addr -> Addr \cup {NULL}]
  <2>1. Cell(h, m) \in Addr
    BY <1>2, <1>4
  <2>2. next \in [Addr -> Addr \cup {NULL}] /\ prev \in [Addr -> Addr \cup {NULL}]
    BY DEF Represents
  <2> QED
    BY <1>1, <1>4, <2>1, <2>2
<1>8. OnePlace'
  <2> SUFFICES ASSUME NEW f \in ListHead, NEW g \in ListHead,
                      NEW i \in 1 .. Len(lists'[f]), NEW j \in 1 .. Len(lists'[g]),
                      lists'[f][i] = lists'[g][j]
               PROVE  f = g /\ i = j
    BY DEF OnePlace
  <2>1. \A k \in ListHead : \A l \in 1 .. Len(lists[k]) : lists[k][l] # n
    BY <1>1 DEF Represents
  <2>2. OnePlace
    BY DEF Represents
  <2>3. CASE f # h /\ g # h
    BY <2>2, <2>3, <1>3 DEF OnePlace
  <2>4. CASE f = h /\ g # h
    <3>1. (i = m + 1 /\ lists'[f][i] = n) \/ (i \in 1 .. m /\ lists'[f][i] = L[i])
      BY <2>4, <1>2, <1>3
    <3>2. lists'[g][j] = lists[g][j] /\ j \in 1 .. Len(lists[g])
      BY <2>4, <1>3
    <3> QED
      BY <3>1, <3>2, <2>1, <2>2, <2>4 DEF OnePlace
  <2>5. CASE f # h /\ g = h
    <3>1. (j = m + 1 /\ lists'[g][j] = n) \/ (j \in 1 .. m /\ lists'[g][j] = L[j])
      BY <2>5, <1>2, <1>3
    <3>2. lists'[f][i] = lists[f][i] /\ i \in 1 .. Len(lists[f])
      BY <2>5, <1>3
    <3> QED
      BY <3>1, <3>2, <2>1, <2>2, <2>5 DEF OnePlace
  <2>6. CASE f = h /\ g = h
    <3>1. (i = m + 1 /\ lists'[h][i] = n) \/ (i \in 1 .. m /\ lists'[h][i] = L[i])
      BY <2>6, <1>2, <1>3
    <3>2. (j = m + 1 /\ lists'[h][j] = n) \/ (j \in 1 .. m /\ lists'[h][j] = L[j])
      BY <2>6, <1>2, <1>3
    <3> QED
      BY <3>1, <3>2, <2>1, <2>2, <2>6 DEF OnePlace
  <2> QED
    BY <2>3, <2>4, <2>5, <2>6
<1>9. ASSUME NEW g \in ListHead \ {h}, NEW i \in 0 .. Len(lists[g])
      PROVE  /\ next'[Cell(g, i)] = Cell(g, i + 1)
             /\ prev'[Cell(g, i + 1)] = Cell(g, i)
  <2>1. /\ Cell(g, i) # Cell(h, m) /\ Cell(g, i) # n /\ Cell(g, i) \in Addr
        /\ Cell(g, i + 1) # n /\ Cell(g, i + 1) \in Addr
    BY <1>2, <1>4, CellFacts
  <2>2. Cell(g, i + 1) # h
    <3>1. Cell(h, m + 1) = h /\ m + 1 \in 1 .. m + 1
      BY <1>2, CellFacts
    <3> QED
      BY <3>1, <1>2, CellsApart
  <2> QED
    BY <2>1, <2>2, <1>1, <1>4 DEF Represents
<1>10. ASSUME NEW i \in 0 .. m + 1
       PROVE  /\ next'[Cell(h, i)'] = Cell(h, i + 1)'
              /\ prev'[Cell(h, i + 1)'] = Cell(h, i)'
  <2>1. Cell(h, m) \in Addr /\ Cell(h, m) # n
    BY <1>2, <1>4
  <2>2. next \in [Addr -> Addr \cup {NULL}] /\ prev \in [Addr -> Addr \cup {NULL}]
    BY DEF Represents
  <2>3. CASE i = m + 1
    <3>1. Cell(h, i)' = n /\ Cell(h, i + 1)' = h
      BY <2>3, <1>2, <1>5
    <3> QED
      BY <3>1, <2>1, <2>2, <1>1, <1>4
  <2>4. CASE i = m
    <3>1. Cell(h, i)' = Cell(h, m) /\ Cell(h, i + 1)' = n
      BY <2>4, <1>2, <1>5
    <3> QED
      BY <3>1, <2>1, <2>2, <1>1, <1>4
  <2>5. CASE i \in 0 .. m - 1
    <3>1. /\ i \in 0 .. m /\ i + 1 \in 1 .. m
          /\ Cell(h, i)' = Cell(h, i)
          /\ Cell(h, i + 1)' = Cell(h, i + 1)
      BY <2>5, <1>2, <1>5
    <3>2. /\ next[Cell(h, i)] = Cell(h, i + 1)
          /\ prev[Cell(h, i + 1)] = Cell(h, i)
      BY <3>1 DEF Represents
    <3>3. /\ Cell(h, i) # Cell(h, m) /\ Cell(h, i + 1) # h
          /\ Cell(h, i) # n /\ Cell(h, i + 1) # n
          /\ Cell(h, i) \in Addr /\ Cell(h, i + 1) \in Addr
      <4>1. Cell(h, i + 1) # h
        BY <3>1, CellFacts, ListAssumption
      <4>2. Cell(h, i) # Cell(h, m)
        BY <3>1, <2>5, <1>2, CellFacts
      <4> QED
        BY <4>1, <4>2, <3>1, <1>4
    <3> QED
      BY <3>1, <3>2, <3>3, <2>1, <2>2, <1>1, <1>4
  <2> QED
    BY <2>3, <2>4, <2>5, <1>2
<1>11. ASSUME NEW k \in ListNode
       PROVE  Unlinked(k)' <=> \A g \in ListHead : \A i \in 1 .. Len(lists'[g]) :
                                   lists'[g][i] # k
  <2>1. next \in [Addr -> Addr \cup {NULL}] /\ Cell(h, m) \in Addr
    BY <1>2, <1>4 DEF Represents
  <2>2. Unlinked(k) <=> \A g \in ListHead : \A i \in 1 .. Len(lists[g]) : lists[g][i] # k
    BY DEF Represents
  <2>3. CASE k = n
    <3>1. next'[n] # NULL
      BY <2>1, <1>1, <1>2, <1>4, ListAssumption DEF Addr
    <3>2. m + 1 \in 1 .. Len(lists'[h]) /\ lists'[h][m + 1] = n
      BY <1>2, <1>3
    <3> QED
      BY <2>3, <3>1, <3>2 DEF Unlinked
  <2>4. CASE k # n
    <3>1. Unlinked(k)' <=> Unlinked(k)
      <4>1. CASE k # Cell(h, m)
        BY <4>1, <2>1, <2>4, <1>1 DEF Unlinked, Addr
      <4>2. CASE k = Cell(h, m)
        <5>1. next'[k] = n
          BY <4>2, <2>1, <2>4, <1>1, <1>4
        <5>2. m \in 1 .. m /\ L[m] = k
          BY <4>2, <1>2, CellFacts, ListAssumption
        <5>3. ~Unlinked(k)
          BY <5>2, <2>2
        <5> QED
          BY <5>1, <5>3, ListAssumption DEF Unlinked
      <4> QED
        BY <4>1, <4>2
    <3>2. (\A i \in 1 .. m : L[i] # k) <=> (\A i \in 1 .. m + 1 : lists'[h][i] # k)
      <4>1. \A i \in 1 .. m : i \in 1 .. m + 1 /\ lists'[h][i] = L[i]
        BY <1>2, <1>3
      <4>2. \A i \in 1 .. m + 1 : i = m + 1 \/ i \in 1 .. m
        BY <1>2
      <4>3. lists'[h][m + 1] # k
        BY <2>4, <1>2, <1>3
      <4> QED
        BY <4>1, <4>2, <4>3
    <3>3. \A g \in ListHead :
             (\A i \in 1 .. Len(lists[g]) : lists[g][i] # k) <=>
                 (\A i \in 1 .. Len(lists'[g]) : lists'[g][i] # k)
      BY <3>2, <1>2, <1>3
    <3> QED
      BY <3>1, <3>3, <2>2
  <2> QED
    BY <2>3, <2>4
<1>12. ASSUME NEW g \in ListHead, NEW i \in 0 .. Len(lists'[g])
       PROVE  /\ next'[Cell(g, i)'] = Cell(g, i + 1)'
              /\ prev'[Cell(g, i + 1)'] = Cell(g, i)'
  <2>1. CASE g = h
    BY <2>1, <1>2, <1>3, <1>10
  <2>2. CASE g # h
    <3>1. i \in 0 .. Len(lists[g]) /\ i \in Int /\ i + 1 \in Int
      BY <2>2, <1>3
    <3> QED
      BY <2>2, <3>1, <1>6, <1>9
  <2> QED
    BY <2>1, <2>2
<1> QED
  BY <1>3, <1>7, <1>8, <1>11, <1>12 DEF Represents

\* list_del of the first node makes the second one the first.
LEMMA DeleteFirstOK ==
    ASSUME Represents, NEW h \in ListHead, DeleteFirst(h)
    PROVE  Represents'
<1> DEFINE L == lists[h]
           m == Len(L)
           e == Cell(h, 1)
<1>1. /\ m \in Nat \ {0}
      /\ L \in Seq(ListNode) /\ L # <<>>
      /\ e = L[1] /\ e \in ListNode /\ e # h /\ e \in Addr
      /\ h \in Addr
      /\ next[e] = Cell(h, 2) /\ prev[e] = h
      /\ Cell(h, 2) \in Addr /\ Cell(h, 2) # e
  <2>1. L \in Seq(ListNode) /\ m \in Nat /\ next[h] = e /\ e # h
    BY CellFacts, PointerFacts DEF DeleteFirst, Represents
  <2>2. m # 0
    BY <2>1 DEF Cell
  <2>3. 1 \in 1 .. m /\ 1 \in 0 .. m /\ 2 \in 1 .. m + 1 /\ 1 \in 1 .. m + 1
    BY <2>1, <2>2
  <2>4. e = L[1] /\ e \in ListNode
    BY <2>3, CellFacts
  <2>5. next[e] = Cell(h, 2) /\ prev[e] = h
    BY <2>3, PointerFacts, CellFacts
  <2>6. Cell(h, 2) \in Addr /\ Cell(h, 2) # e
    BY <2>3, CellFacts, CellsApart
  <2> QED
    BY <2>1, <2>2, <2>4, <2>5, <2>6, EmptySeq DEF Addr
<1>2. /\ prev' = [prev EXCEPT ![Cell(h, 2)] = h, ![e] = NULL]
      /\ next' = [next EXCEPT ![h] = Cell(h, 2), ![e] = NULL]
      /\ lists' = [lists EXCEPT ![h] = Tail(L)]
  BY <1>1, PointerFacts DEF DeleteFirst, unlink, list_del
<1>3. /\ lists' \in [ListHead -> Seq(ListNode)]
      /\ Len(lists'[h]) = m - 1
      /\ \A i \in 1 .. m - 1 : lists'[h][i] = L[i + 1]
      /\ \A g \in ListHead \ {h} : lists'[g] = lists[g]
  <2>1. /\ Tail(L) \in Seq(ListNode)
        /\ Len(Tail(L)) = m - 1
        /\ \A i \in 1 .. m - 1 : Tail(L)[i] = L[i + 1]
    BY <1>1, HeadTailProperties
  <2>2. lists' \in [ListHead -> Seq(ListNode)] /\ lists'[h] = Tail(L)
        /\ \A g \in ListHead \ {h} : lists'[g] = lists[g]
    BY <1>2, <2>1 DEF Represents
  <2> QED
    BY <2>1, <2>2
<1>4. /\ next \in [Addr -> Addr \cup {NULL}]
      /\ prev \in [Addr -> Addr \cup {NULL}]
  BY DEF Represents
<1>5. ASSUME NEW i \in Int
      PROVE  /\ i = 0 => Cell(h, i)' = h
             /\ i \in 1 .. m => Cell(h, i)' = Cell(h, i + 1)
  <2>1. CASE i \in 1 .. m - 1
    BY <2>1, <1>1, <1>3 DEF Cell
  <2>2. CASE i \notin 1 .. m - 1
    <3>1. Cell(h, i)' = h
      BY <2>2, <1>3 DEF Cell
    <3>2. i = m => Cell(h, i + 1) = h
      BY CellFacts
    <3> QED
      BY <2>2, <3>1, <3>2, <1>1
  <2> QED
    BY <2>1, <2>2
<1>6. \A g \in ListHead \ {h} : \A i \in Int : Cell(g, i)' = Cell(g, i)
  BY <1>3 DEF Cell
<1>7. /\ next' \in [Addr -> Addr \cup {NULL}]
      /\ prev' \in [Addr -> Addr \cup {NULL}]
  BY <1>1, <1>2, <1>4
<1>8. OnePlace'
  <2> SUFFICES ASSUME NEW f \in ListHead, NEW g \in ListHead,
                      NEW i \in 1 .. Len(lists'[f]), NEW j \in 1 .. Len(lists'[g]),
                      lists'[f][i] = lists'[g][j]
               PROVE  f = g /\ i = j
    BY DEF OnePlace
  <2> DEFINE Old(k, l) == IF k = h THEN l + 1 ELSE l
  <2>1. /\ Old(f, i) \in 1 .. Len(lists[f]) /\ lists'[f][i] = lists[f][Old(f, i)]
        /\ Old(g, j) \in 1 .. Len(lists[g]) /\ lists'[g][j] = lists[g][Old(g, j)]
        /\ i \in Int /\ j \in Int
    BY <1>1, <1>3
  <2>2. f = g /\ Old(f, i) = Old(g, j)
    <3>1. lists[f][Old(f, i)] = lists[g][Old(g, j)]
      BY <2>1
    <3>2. OnePlace
      BY DEF Represents
    <3> HIDE DEF Old
    <3> QED
      BY <3>1, <3>2, <2>1 DEF OnePlace
  <2>3. i \in Int /\ j \in Int
    BY <2>1
  <2>4. CASE f = h
    BY <2>2, <2>3, <2>4
  <2>5. CASE f # h
    BY <2>2, <2>5
  <2> QED
    BY <2>4, <2>5
<1>9. ASSUME NEW g \in ListHead \ {h}, NEW i \in 0 .. Len(lists[g])
      PROVE  /\ next'[Cell(g, i)] = Cell(g, i + 1)
             /\ prev'[Cell(g, i + 1)] = Cell(g, i)
  <2>1. /\ Len(lists[g]) \in Nat
        /\ 1 \in 0 .. m /\ 0 \in 0 .. m /\ 1 \in 1 .. m + 1 /\ 2 \in 1 .. m + 1
        /\ i + 1 \in 1 .. Len(lists[g]) + 1
    BY <1>1, CellFacts
  <2>2. Cell(g, i) # h /\ Cell(g, i) # e /\ Cell(g, i) \in Addr
    BY <2>1, CellFacts
  <2>3. Cell(g, i + 1) # e /\ Cell(g, i + 1) # Cell(h, 2) /\ Cell(g, i + 1) \in Addr
    BY <2>1, CellFacts, CellsApart
  <2>4. next[Cell(g, i)] = Cell(g, i + 1) /\ prev[Cell(g, i + 1)] = Cell(g, i)
    BY DEF Represents
  <2> QED
    BY <2>2, <2>3, <2>4, <1>2, <1>4
<1>10. ASSUME NEW i \in 0 .. m - 1
       PROVE  /\ next'[Cell(h, i)'] = Cell(h, i + 1)'
              /\ prev'[Cell(h, i + 1)'] = Cell(h, i)'
  <2>1. CASE i = 0
    <3>1. Cell(h, i)' = h /\ Cell(h, i + 1)' = Cell(h, 2)
      BY <2>1, <1>1, <1>5
    <3> QED
      BY <3>1, <1>1, <1>2, <1>4
  <2>2. CASE i \in 1 .. m - 1
    <3>1. /\ i + 1 \in 1 .. m /\ i + 1 \in 0 .. m /\ (i + 1) + 1 = i + 2
          /\ i + 1 \in 1 .. m + 1 /\ i + 2 \in 1 .. m + 1
          /\ 1 \in 1 .. m + 1 /\ 2 \in 1 .. m + 1 /\ i + 1 # 1 /\ i + 2 # 1 /\ i + 2 # 2
      BY <2>2, <1>1
    <3>2. Cell(h, i)' = Cell(h, i + 1) /\ Cell(h, i + 1)' = Cell(h, i + 2)
      BY <3>1, <2>2, <1>1, <1>5
    <3>3. next[Cell(h, i + 1)] = Cell(h, i + 2) /\ prev[Cell(h, i + 2)] = Cell(h, i + 1)
      <4>1. next[Cell(h, i + 1)] = Cell(h, (i + 1) + 1)
            /\ prev[Cell(h, (i + 1) + 1)] = Cell(h, i + 1)
        BY <3>1 DEF Represents
      <4> QED
        BY <4>1, <3>1
    <3>4. /\ Cell(h, i + 1) # e /\ Cell(h, i + 2) # e /\ Cell(h, i + 2) # Cell(h, 2)
          /\ Cell(h, i + 1) \in Addr /\ Cell(h, i + 2) \in Addr
      BY <3>1, CellFacts, CellsApart
    <3>5. Cell(h, i + 1) # h
      BY <3>1, CellFacts, ListAssumption
    <3> QED
      BY <3>2, <3>3, <3>4, <3>5, <1>1, <1>2, <1>4
  <2> QED
    BY <2>1, <2>2, <1>1
<1>11. ASSUME NEW k \in ListNode
       PROVE  Unlinked(k)' <=> \A g \in ListHead : \A i \in 1 .. Len(lists'[g]) :
                                   lists'[g][i] # k
  <2>1. Unlinked(k) <=> \A g \in ListHead : \A i \in 1 .. Len(lists[g]) : lists[g][i] # k
    BY DEF Represents
  <2>2. CASE k = e
    <3>1. next'[e] = NULL
      BY <1>1, <1>2, <1>4
    <3>2. ASSUME NEW g \in ListHead, NEW i \in 1 .. Len(lists'[g])
          PROVE  lists'[g][i] # e
      <4>1. CASE g = h
        <5>1. i + 1 \in 1 .. m /\ lists'[h][i] = L[i + 1] /\ i + 1 # 1 /\ 1 \in 1 .. m
          BY <4>1, <1>1, <1>3
        <5> QED
          BY <5>1, <4>1, <1>1 DEF Represents, OnePlace
      <4>2. CASE g # h
        <5>1. i \in 1 .. Len(lists[g]) /\ lists'[g][i] = lists[g][i] /\ 1 \in 1 .. m
          BY <4>2, <1>1, <1>3
        <5> QED
          BY <5>1, <4>2, <1>1 DEF Represents, OnePlace
      <4> QED
        BY <4>1, <4>2
    <3> QED
      BY <2>2, <3>1, <3>2 DEF Unlinked
  <2>3. CASE k # e
    <3>1. Unlinked(k)' <=> Unlinked(k)
      BY <2>3, <1>1, <1>2, <1>4, ListAssumption DEF Unlinked, Addr
    <3>2. (\A i \in 1 .. m : L[i] # k) <=> (\A i \in 1 .. m - 1 : lists'[h][i] # k)
      <4>1. \A i \in 1 .. m - 1 : i + 1 \in 1 .. m /\ lists'[h][i] = L[i + 1]
        BY <1>1, <1>3
      <4>2. ASSUME NEW i \in 1 .. m
            PROVE  i = 1 \/ (i - 1 \in 1 .. m - 1 /\ lists'[h][i - 1] = L[i])
        BY <4>1, <1>1
      <4> QED
        BY <4>1, <4>2, <2>3, <1>1
    <3>3. \A g \in ListHead :
             (\A i \in 1 .. Len(lists[g]) : lists[g][i] # k) <=>
                 (\A i \in 1 .. Len(lists'[g]) : lists'[g][i] # k)
      BY <3>2, <1>3
    <3> QED
      BY <3>1, <3>3, <2>1
  <2> QED
    BY <2>2, <2>3
<1>12. ASSUME NEW g \in ListHead, NEW i \in 0 .. Len(lists'[g])
       PROVE  /\ next'[Cell(g, i)'] = Cell(g, i + 1)'
              /\ prev'[Cell(g, i + 1)'] = Cell(g, i)'
  <2>1. CASE g = h
    BY <2>1, <1>3, <1>10
  <2>2. CASE g # h
    <3>1. i \in 0 .. Len(lists[g]) /\ i \in Int /\ i + 1 \in Int
      BY <2>2, <1>3
    <3> QED
      BY <2>2, <3>1, <1>6, <1>9
  <2> QED
    BY <2>1, <2>2
<1> QED
  BY <1>3, <1>7, <1>8, <1>11, <1>12 DEF Represents

----------------------------------------------------------------------------
\* INIT_LIST_HEAD of an empty list changes nothing.
LEMMA InitHeadOK ==
    ASSUME Represents, NEW h \in ListHead, INIT_LIST_HEAD(h)
    PROVE  Represents'
<1>1. Len(lists[h]) \in Nat /\ lists[h] \in Seq(ListNode)
  BY CellFacts DEF Represents
<1>2. lists[h] = <<>>
  <2>1. Cell(h, 1) = h
    BY PointerFacts DEF INIT_LIST_HEAD
  <2>2. ASSUME Len(lists[h]) # 0
        PROVE  FALSE
    BY <2>1, <2>2, <1>1, CellFacts, ListAssumption
  <2> QED
    BY <2>2, <1>1, EmptySeq
<1>3. prev[h] = h
  BY <1>2, PointerFacts, CellFacts
<1>4. next' = next /\ prev' = prev /\ lists' = lists
  BY <1>2, <1>3 DEF INIT_LIST_HEAD, Represents
<1> QED
  BY <1>4 DEF Represents, OnePlace, Cell, Unlinked

\* The pointers of list.c represent the sequences that the kernel's modules
\* work with, however many lists and nodes there are.
THEOREM PointersRepresentLists == ListSpec => []Represents
<1>1. ListInit => Represents
  <2> SUFFICES ASSUME ListInit
               PROVE  Represents
    OBVIOUS
  <2>1. \A h \in ListHead : lists[h] = <<>> /\ Len(lists[h]) = 0
    BY DEF ListInit
  <2>2. \A h \in ListHead : \A i \in Int : Cell(h, i) = h
    BY <2>1 DEF Cell
  <2>3. /\ next \in [Addr -> Addr \cup {NULL}]
        /\ prev \in [Addr -> Addr \cup {NULL}]
        /\ lists \in [ListHead -> Seq(ListNode)]
    BY DEF ListInit, Addr
  <2>4. OnePlace
    BY <2>1 DEF OnePlace
  <2>5. \A h \in ListHead : next[h] = h /\ prev[h] = h
    BY DEF ListInit, Addr
  <2>6. \A n \in ListNode : next[n] = NULL
    BY ListAssumption DEF ListInit, Addr
  <2>7. \A h \in ListHead : \A i \in 0 .. Len(lists[h]) :
           next[Cell(h, i)] = Cell(h, i + 1) /\ prev[Cell(h, i + 1)] = Cell(h, i)
    BY <2>1, <2>2, <2>5
  <2> QED
    BY <2>1, <2>3, <2>4, <2>6, <2>7 DEF Represents, Unlinked
<1>2. Represents /\ [ListNext]_listVars => Represents'
  <2> SUFFICES ASSUME Represents, [ListNext]_listVars
               PROVE  Represents'
    OBVIOUS
  <2>1. ASSUME NEW h \in ListHead, NEW n \in ListNode, AddFirst(n, h)
        PROVE  Represents'
    BY <2>1, AddFirstOK
  <2>2. ASSUME NEW h \in ListHead, NEW n \in ListNode, AddLast(n, h)
        PROVE  Represents'
    BY <2>2, AddLastOK
  <2>3. ASSUME NEW h \in ListHead, DeleteFirst(h)
        PROVE  Represents'
    BY <2>3, DeleteFirstOK
  <2>4. ASSUME NEW h \in ListHead, INIT_LIST_HEAD(h)
        PROVE  Represents'
    BY <2>4, InitHeadOK
  <2>5. CASE UNCHANGED listVars
    BY <2>5 DEF listVars, Represents, OnePlace, Cell, Unlinked
  <2> QED
    BY <2>1, <2>2, <2>3, <2>4, <2>5 DEF ListNext
<1> QED
  BY <1>1, <1>2, PTL DEF ListSpec
=============================================================================
