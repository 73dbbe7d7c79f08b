--------------------------- MODULE ZeosKernelProofs ---------------------------
(***************************************************************************)
(* Proofs about ZeosKernel, for every number of tasks and semaphores, every*)
(* buffer size and quantum.  First the list operations: which tasks are    *)
(* linked on which list after list_add_tail, list_add, list_del and the    *)
(* splice of sys_sem_destroy, and that each keeps a task on at most one    *)
(* list.  Then the inductive invariant of the kernel's steps.              *)
(***************************************************************************)
EXTENDS ZeosKernel, SequenceTheorems, TLAPS

----------------------------------------------------------------------------
(* Sequences: the elements of a list after one operation on it.            *)

\* The elements of a sequence are those at its indices.
LEMMA RangeByIndex ==
    ASSUME NEW S, NEW s \in Seq(S)
    PROVE  /\ \A x : x \in Range(s) <=> \E i \in 1 .. Len(s) : x = s[i]
           /\ Range(s) \subseteq S
<1>1. DOMAIN s = 1 .. Len(s) /\ \A i \in 1 .. Len(s) : s[i] \in S
  BY LenProperties, ElementOfSeq
<1>2. \A x : x \in Range(s) <=> \E i \in 1 .. Len(s) : x = s[i]
  BY <1>1 DEF Range
<1>3. Range(s) \subseteq S
  BY <1>1, <1>2
<1> QED
  BY <1>2, <1>3

\* A list is without repetition if no two of its nodes hold the same task.
LEMMA InjectiveSeq ==
    ASSUME NEW S, NEW s \in Seq(S)
    PROVE  IsInjective(s) <=>
               (\A i, j \in 1 .. Len(s) : s[i] = s[j] => i = j)
<1>1. DOMAIN s = 1 .. Len(s)
  BY LenProperties
<1> QED
  BY <1>1 DEF IsInjective

\* An empty list links nobody.
LEMMA RangeOfEmpty == Range(<<>>) = {} /\ IsInjective(<<>>)
BY DEF Range, IsInjective

\* A list that is not empty links its first element.
LEMMA HeadInRange ==
    ASSUME NEW S, NEW s \in Seq(S), s # <<>>
    PROVE  Head(s) \in Range(s) /\ Head(s) \in S
<1>1. Len(s) \in Nat \ {0} /\ Head(s) = s[1] /\ 1 \in 1 .. Len(s)
  BY EmptySeq, LenProperties
<1> QED
  BY <1>1, RangeByIndex, HeadTailProperties

\* list_add_tail links one more element, at the end.
LEMMA RangeOfAppend ==
    ASSUME NEW S, NEW s \in Seq(S), NEW t \in S
    PROVE  /\ Append(s, t) \in Seq(S)
           /\ Append(s, t) # <<>>
           /\ Range(Append(s, t)) = Range(s) \cup {t}
           /\ t \notin Range(s) /\ IsInjective(s) => IsInjective(Append(s, t))
           /\ Head(Append(s, t)) = IF s = <<>> THEN t ELSE Head(s)
<1> DEFINE a == Append(s, t)
           n == Len(s)
<1>1. /\ n \in Nat
      /\ a \in Seq(S)
      /\ Len(a) = n + 1
      /\ \A i \in 1 .. n : a[i] = s[i]
      /\ a[n + 1] = t
  BY LenProperties
<1>2. a # <<>>
  BY <1>1
<1>3. /\ (\A x : x \in Range(a) <=> \E i \in 1 .. n + 1 : x = a[i])
      /\ (\A x : x \in Range(s) <=> \E i \in 1 .. n : x = s[i])
  <2>1. \A x : x \in Range(a) <=> \E i \in 1 .. Len(a) : x = a[i]
    BY <1>1, RangeByIndex
  <2>2. \A x : x \in Range(s) <=> \E i \in 1 .. Len(s) : x = s[i]
    BY <1>1, RangeByIndex
  <2> QED
    BY <1>1, <2>1, <2>2
<1>4. 1 .. n + 1 = 1 .. n \cup {n + 1}
  BY <1>1
<1>5. Range(a) = Range(s) \cup {t}
  BY <1>1, <1>3, <1>4
<1>6. ASSUME t \notin Range(s), IsInjective(s)
      PROVE  IsInjective(a)
  <2>1. \A i, j \in 1 .. n : s[i] = s[j] => i = j
    BY <1>6, InjectiveSeq
  <2>2. \A i \in 1 .. n : s[i] # t
    BY <1>6, <1>3
  <2>3. ASSUME NEW i \in 1 .. n + 1, NEW j \in 1 .. n + 1, a[i] = a[j]
        PROVE  i = j
    BY <2>1, <2>2, <2>3, <1>1, <1>4
  <2> QED
    BY <2>3, <1>1, InjectiveSeq
<1>7. Head(a) = IF s = <<>> THEN t ELSE Head(s)
  BY <1>1, EmptySeq
<1> QED
  BY <1>1, <1>2, <1>5, <1>6, <1>7

\* list_add links one more element, at the front.
LEMMA RangeOfCons ==
    ASSUME NEW S, NEW s \in Seq(S), NEW t \in S
    PROVE  /\ <<t>> \o s \in Seq(S)
           /\ <<t>> \o s # <<>>
           /\ Range(<<t>> \o s) = Range(s) \cup {t}
           /\ t \notin Range(s) /\ IsInjective(s) => IsInjective(<<t>> \o s)
           /\ Head(<<t>> \o s) = t
<1> DEFINE a == <<t>> \o s
           n == Len(s)
<1>1. n \in Nat /\ <<t>> \in Seq(S) /\ Len(<<t>>) = 1 /\ <<t>>[1] = t
  BY LenProperties
<1>2. /\ a \in Seq(S)
      /\ Len(a) = n + 1
      /\ a[1] = t
      /\ \A i \in 1 .. n : a[i + 1] = s[i]
  BY <1>1, ConcatProperties
<1>3. \A i \in 1 .. n + 1 : i = 1 \/ (i - 1 \in 1 .. n /\ a[i] = s[i - 1])
  BY <1>1, <1>2
<1>4. /\ (\A x : x \in Range(a) <=> \E i \in 1 .. n + 1 : x = a[i])
      /\ (\A x : x \in Range(s) <=> \E i \in 1 .. n : x = s[i])
  <2>1. \A x : x \in Range(a) <=> \E i \in 1 .. Len(a) : x = a[i]
    BY <1>2, RangeByIndex
  <2>2. \A x : x \in Range(s) <=> \E i \in 1 .. Len(s) : x = s[i]
    BY <1>2, RangeByIndex
  <2> QED
    BY <1>2, <2>1, <2>2
<1>5. Range(a) = Range(s) \cup {t}
  <2>1. ASSUME NEW x \in Range(a) PROVE x \in Range(s) \cup {t}
    BY <2>1, <1>2, <1>3, <1>4
  <2>2. ASSUME NEW x \in Range(s) PROVE x \in Range(a)
    <3>1. PICK i \in 1 .. n : x = s[i]
      BY <1>4
    <3>2. i + 1 \in 1 .. n + 1 /\ a[i + 1] = x
      BY <1>1, <1>2, <3>1
    <3> QED
      BY <3>2, <1>4
  <2>3. t \in Range(a)
    BY <1>1, <1>2, <1>4
  <2> QED
    BY <2>1, <2>2, <2>3
<1>6. ASSUME t \notin Range(s), IsInjective(s)
      PROVE  IsInjective(a)
  <2>1. \A i, j \in 1 .. n : s[i] = s[j] => i = j
    BY <1>6, InjectiveSeq
  <2>2. \A i \in 1 .. n : s[i] # t
    BY <1>6, <1>4
  <2>3. ASSUME NEW i \in 1 .. n + 1, NEW j \in 1 .. n + 1, a[i] = a[j]
        PROVE  i = j
    BY <2>1, <2>2, <2>3, <1>1, <1>2, <1>3
  <2> QED
    BY <2>3, <1>2, InjectiveSeq
<1>7. Head(a) = t /\ a # <<>>
  BY <1>1, <1>2
<1> QED
  BY <1>2, <1>5, <1>6, <1>7

\* list_del of the first element unlinks exactly that one.
LEMMA RangeOfTail ==
    ASSUME NEW S, NEW s \in Seq(S), s # <<>>, IsInjective(s)
    PROVE  /\ Tail(s) \in Seq(S)
           /\ Range(Tail(s)) = Range(s) \ {Head(s)}
           /\ IsInjective(Tail(s))
<1> DEFINE a == Tail(s)
           n == Len(s)
<1>1. /\ n \in Nat \ {0}
      /\ a \in Seq(S)
      /\ Len(a) = n - 1
      /\ \A i \in 1 .. n - 1 : a[i] = s[i + 1]
      /\ Head(s) = s[1]
  BY EmptySeq, LenProperties, HeadTailProperties
<1>2. /\ (\A x : x \in Range(a) <=> \E i \in 1 .. n - 1 : x = a[i])
      /\ (\A x : x \in Range(s) <=> \E i \in 1 .. n : x = s[i])
  <2>1. \A x : x \in Range(a) <=> \E i \in 1 .. Len(a) : x = a[i]
    BY <1>1, RangeByIndex
  <2>2. \A x : x \in Range(s) <=> \E i \in 1 .. Len(s) : x = s[i]
    BY <1>1, RangeByIndex
  <2> QED
    BY <1>1, <2>1, <2>2
<1>3. \A i, j \in 1 .. n : s[i] = s[j] => i = j
  BY InjectiveSeq
<1>4. \A i \in 1 .. n : i = 1 \/ i - 1 \in 1 .. n - 1
  BY <1>1
<1>5. Range(a) = Range(s) \ {Head(s)}
  <2>1. ASSUME NEW x \in Range(a) PROVE x \in Range(s) \ {Head(s)}
    <3>1. PICK i \in 1 .. n - 1 : x = a[i]
      BY <1>2
    <3>2. i + 1 \in 1 .. n /\ 1 \in 1 .. n /\ i + 1 # 1 /\ x = s[i + 1]
      BY <1>1, <3>1
    <3> QED
      BY <3>2, <1>1, <1>2, <1>3
  <2>2. ASSUME NEW x \in Range(s) \ {Head(s)} PROVE x \in Range(a)
    <3>1. PICK i \in 1 .. n : x = s[i]
      BY <1>2
    <3>2. i # 1 /\ i - 1 \in 1 .. n - 1
      BY <3>1, <1>1, <1>4
    <3>3. a[i - 1] = s[i]
      BY <3>2, <1>1
    <3> QED
      BY <3>1, <3>2, <3>3, <1>2
  <2> QED
    BY <2>1, <2>2
<1>6. IsInjective(a)
  <2>1. ASSUME NEW i \in 1 .. n - 1, NEW j \in 1 .. n - 1, a[i] = a[j]
        PROVE  i = j
    <3>1. i + 1 \in 1 .. n /\ j + 1 \in 1 .. n /\ s[i + 1] = s[j + 1]
      BY <2>1, <1>1
    <3> QED
      BY <3>1, <1>3
  <2> QED
    BY <2>1, <1>1, InjectiveSeq
<1> QED
  BY <1>1, <1>5, <1>6

\* Two disjoint lists spliced.
LEMMA RangeOfConcat ==
    ASSUME NEW S, NEW s1 \in Seq(S), NEW s2 \in Seq(S),
           IsInjective(s1), IsInjective(s2), Range(s1) \cap Range(s2) = {}
    PROVE  /\ s1 \o s2 \in Seq(S)
           /\ Range(s1 \o s2) = Range(s1) \cup Range(s2)
           /\ IsInjective(s1 \o s2)
<1> DEFINE a == s1 \o s2
           m == Len(s1)
           n == Len(s2)
<1>1. /\ m \in Nat /\ n \in Nat
      /\ a \in Seq(S)
      /\ Len(a) = m + n
      /\ \A i \in 1 .. m + n : a[i] = IF i <= m THEN s1[i] ELSE s2[i - m]
  BY LenProperties, ConcatProperties
<1>2. /\ (\A x : x \in Range(a) <=> \E i \in 1 .. m + n : x = a[i])
      /\ (\A x : x \in Range(s1) <=> \E i \in 1 .. m : x = s1[i])
      /\ (\A x : x \in Range(s2) <=> \E i \in 1 .. n : x = s2[i])
  <2>1. \A x : x \in Range(a) <=> \E i \in 1 .. Len(a) : x = a[i]
    BY <1>1, RangeByIndex
  <2>2. \A x : x \in Range(s1) <=> \E i \in 1 .. Len(s1) : x = s1[i]
    BY <1>1, RangeByIndex
  <2>3. \A x : x \in Range(s2) <=> \E i \in 1 .. Len(s2) : x = s2[i]
    BY <1>1, RangeByIndex
  <2> QED
    BY <1>1, <2>1, <2>2, <2>3
<1>3. ASSUME NEW i \in 1 .. m + n
      PROVE  \/ i \in 1 .. m /\ a[i] = s1[i] /\ a[i] \in Range(s1)
             \/ i - m \in 1 .. n /\ a[i] = s2[i - m] /\ a[i] \in Range(s2)
  BY <1>1, <1>2
<1>4. Range(a) = Range(s1) \cup Range(s2)
  BY RangeConcatenation
<1>5. ASSUME NEW i \in 1 .. m + n, NEW j \in 1 .. m + n, a[i] = a[j]
      PROVE  i = j
  <2>1. /\ \A k, l \in 1 .. m : s1[k] = s1[l] => k = l
        /\ \A k, l \in 1 .. n : s2[k] = s2[l] => k = l
    BY InjectiveSeq
  <2>2. CASE i \in 1 .. m /\ a[i] = s1[i] /\ a[i] \in Range(s1)
    <3>1. j \in 1 .. m /\ a[j] = s1[j]
      BY <2>2, <1>3, <1>5
    <3> QED
      BY <2>1, <2>2, <3>1, <1>5
  <2>3. CASE i - m \in 1 .. n /\ a[i] = s2[i - m] /\ a[i] \in Range(s2)
    <3>1. j - m \in 1 .. n /\ a[j] = s2[j - m]
      BY <2>3, <1>3, <1>5
    <3>2. i - m = j - m
      BY <2>1, <2>3, <3>1, <1>5
    <3> QED
      BY <3>2, <1>1
  <2> QED
    BY <2>2, <2>3, <1>3
<1> QED
  BY <1>1, <1>4, <1>5, InjectiveSeq

----------------------------------------------------------------------------
(* The kernel's lists: q stands for the value of queue at some point of a  *)
(* handler.                                                                *)

\* Every task is linked at most once.
ListsOK(q) ==
    /\ q \in [Queue -> Seq(Task)]
    /\ \A x \in Queue : IsInjective(q[x])
    /\ \A x, y \in Queue : x # y => Range(q[x]) \cap Range(q[y]) = {}

OnNoList(q, t) == \A x \in Queue : t \notin Range(q[x])

\* list_add_tail of an unlinked task.
LEMMA AddTail ==
    ASSUME NEW q, ListsOK(q), NEW dst \in Queue, NEW t \in Task, OnNoList(q, t)
    PROVE  /\ ListsOK(list_add_tail(q, dst, t))
           /\ Range(list_add_tail(q, dst, t)[dst]) = Range(q[dst]) \cup {t}
           /\ \A x \in Queue : x # dst => list_add_tail(q, dst, t)[x] = q[x]
           /\ list_add_tail(q, dst, t)[dst] # <<>>
           /\ Head(list_add_tail(q, dst, t)[dst]) =
                 IF q[dst] = <<>> THEN t ELSE Head(q[dst])
<1> DEFINE r == list_add_tail(q, dst, t)
<1>1. q[dst] \in Seq(Task) /\ IsInjective(q[dst]) /\ t \notin Range(q[dst])
  BY DEF ListsOK, OnNoList
<1>2. r[dst] = Append(q[dst], t) /\ \A x \in Queue : x # dst => r[x] = q[x]
  BY DEF list_add_tail, ListsOK
<1>3. /\ r[dst] \in Seq(Task)
      /\ r[dst] # <<>>
      /\ Range(r[dst]) = Range(q[dst]) \cup {t}
      /\ IsInjective(r[dst])
      /\ Head(r[dst]) = IF q[dst] = <<>> THEN t ELSE Head(q[dst])
  BY <1>1, <1>2, RangeOfAppend
<1>4. r \in [Queue -> Seq(Task)]
  BY <1>2, <1>3 DEF list_add_tail, ListsOK
<1>5. ASSUME NEW x \in Queue, NEW y \in Queue, x # y
      PROVE  Range(r[x]) \cap Range(r[y]) = {}
  <2>1. /\ Range(q[x]) \cap Range(q[y]) = {}
        /\ t \notin Range(q[x]) /\ t \notin Range(q[y])
    BY <1>5 DEF ListsOK, OnNoList
  <2>2. /\ Range(r[x]) = IF x = dst THEN Range(q[x]) \cup {t} ELSE Range(q[x])
        /\ Range(r[y]) = IF y = dst THEN Range(q[y]) \cup {t} ELSE Range(q[y])
    BY <1>2, <1>3
  <2> QED
    BY <1>5, <2>1, <2>2
<1>6. \A x \in Queue : IsInjective(r[x])
  BY <1>2, <1>3 DEF ListsOK
<1> QED
  BY <1>2, <1>3, <1>4, <1>5, <1>6 DEF ListsOK

\* list_add of an unlinked task.
LEMMA AddFront ==
    ASSUME NEW q, ListsOK(q), NEW dst \in Queue, NEW t \in Task, OnNoList(q, t)
    PROVE  /\ ListsOK(list_add(q, dst, t))
           /\ Range(list_add(q, dst, t)[dst]) = Range(q[dst]) \cup {t}
           /\ \A x \in Queue : x # dst => list_add(q, dst, t)[x] = q[x]
           /\ list_add(q, dst, t)[dst] # <<>>
           /\ Head(list_add(q, dst, t)[dst]) = t
<1> DEFINE r == list_add(q, dst, t)
<1>1. q[dst] \in Seq(Task) /\ IsInjective(q[dst]) /\ t \notin Range(q[dst])
  BY DEF ListsOK, OnNoList
<1>2. r[dst] = <<t>> \o q[dst] /\ \A x \in Queue : x # dst => r[x] = q[x]
  BY DEF list_add, ListsOK
<1>3. /\ r[dst] \in Seq(Task)
      /\ r[dst] # <<>>
      /\ Range(r[dst]) = Range(q[dst]) \cup {t}
      /\ IsInjective(r[dst])
      /\ Head(r[dst]) = t
  BY <1>1, <1>2, RangeOfCons
<1>4. r \in [Queue -> Seq(Task)]
  BY <1>2, <1>3 DEF list_add, ListsOK
<1>5. ASSUME NEW x \in Queue, NEW y \in Queue, x # y
      PROVE  Range(r[x]) \cap Range(r[y]) = {}
  <2>1. /\ Range(q[x]) \cap Range(q[y]) = {}
        /\ t \notin Range(q[x]) /\ t \notin Range(q[y])
    BY <1>5 DEF ListsOK, OnNoList
  <2>2. /\ Range(r[x]) = IF x = dst THEN Range(q[x]) \cup {t} ELSE Range(q[x])
        /\ Range(r[y]) = IF y = dst THEN Range(q[y]) \cup {t} ELSE Range(q[y])
    BY <1>2, <1>3
  <2> QED
    BY <1>5, <2>1, <2>2
<1>6. \A x \in Queue : IsInjective(r[x])
  BY <1>2, <1>3 DEF ListsOK
<1> QED
  BY <1>2, <1>3, <1>4, <1>5, <1>6 DEF ListsOK

\* list_del of the first task of a list that is not empty.
LEMMA DelFirst ==
    ASSUME NEW q, ListsOK(q), NEW src \in Queue, q[src] # <<>>
    PROVE  /\ ListsOK(list_del(q, src))
           /\ Head(q[src]) \in Task
           /\ Head(q[src]) \in Range(q[src])
           /\ Range(list_del(q, src)[src]) = Range(q[src]) \ {Head(q[src])}
           /\ \A x \in Queue : x # src => list_del(q, src)[x] = q[x]
           /\ OnNoList(list_del(q, src), Head(q[src]))
<1> DEFINE r == list_del(q, src)
           h == Head(q[src])
<1>1. q[src] \in Seq(Task) /\ IsInjective(q[src])
  BY DEF ListsOK
<1>2. r[src] = Tail(q[src]) /\ \A x \in Queue : x # src => r[x] = q[x]
  BY DEF list_del, ListsOK
<1>3. h \in Task /\ h \in Range(q[src])
  BY <1>1, HeadInRange
<1>4. /\ r[src] \in Seq(Task)
      /\ Range(r[src]) = Range(q[src]) \ {h}
      /\ IsInjective(r[src])
  BY <1>1, <1>2, RangeOfTail
<1>5. r \in [Queue -> Seq(Task)]
  BY <1>2, <1>4 DEF list_del, ListsOK
<1>6. \A x, y \in Queue : x # y => Range(r[x]) \cap Range(r[y]) = {}
  BY <1>2, <1>4 DEF ListsOK
<1>7. \A x \in Queue : IsInjective(r[x])
  BY <1>2, <1>4 DEF ListsOK
<1>8. OnNoList(r, h)
  BY <1>2, <1>3, <1>4 DEF ListsOK, OnNoList
<1> QED
  BY <1>2, <1>3, <1>4, <1>5, <1>6, <1>7, <1>8 DEF ListsOK

\* The loop of sys_sem_destroy moves the whole list n behind the ready queue.
LEMMA Splice ==
    ASSUME NEW q, ListsOK(q), NEW n \in Sem
    PROVE  LET r == list_move_all(q, n, readyqueue) IN
           /\ ListsOK(r)
           /\ Range(r[readyqueue]) = Range(q[readyqueue]) \cup Range(q[n])
           /\ r[n] = <<>>
           /\ \A x \in Queue \ {readyqueue, n} : r[x] = q[x]
<1> DEFINE r == list_move_all(q, n, readyqueue)
<1>1. n \in Queue /\ readyqueue \in Queue /\ n # readyqueue
  BY SchedAssumption DEF Queue, Sem, readyqueue
<1>2. /\ q[n] \in Seq(Task) /\ IsInjective(q[n])
      /\ q[readyqueue] \in Seq(Task) /\ IsInjective(q[readyqueue])
      /\ Range(q[readyqueue]) \cap Range(q[n]) = {}
  BY <1>1 DEF ListsOK
<1>3. /\ r[readyqueue] = q[readyqueue] \o q[n]
      /\ r[n] = <<>>
      /\ \A x \in Queue \ {readyqueue, n} : r[x] = q[x]
  BY <1>1 DEF ListsOK, list_move_all
<1>4. /\ r[readyqueue] \in Seq(Task)
      /\ Range(r[readyqueue]) = Range(q[readyqueue]) \cup Range(q[n])
      /\ IsInjective(r[readyqueue])
  <2>1. /\ q[readyqueue] \o q[n] \in Seq(Task)
        /\ Range(q[readyqueue] \o q[n]) = Range(q[readyqueue]) \cup Range(q[n])
        /\ IsInjective(q[readyqueue] \o q[n])
    <3> HIDE DEF r
    <3> QED
      BY <1>2, RangeOfConcat
  <2> QED
    BY <1>3, <2>1
<1>5. r[n] \in Seq(Task) /\ Range(r[n]) = {} /\ IsInjective(r[n])
  <2>1. <<>> \in Seq(Task)
    BY EmptySeq
  <2> HIDE DEF r
  <2> QED
    BY <1>3, <2>1, RangeOfEmpty
<1>6. r \in [Queue -> Seq(Task)]
  BY <1>1, <1>3, <1>4, <1>5 DEF ListsOK, list_move_all
<1>7. \A x, y \in Queue : x # y => Range(r[x]) \cap Range(r[y]) = {}
  BY <1>1, <1>2, <1>3, <1>4, <1>5 DEF ListsOK
<1>8. \A x \in Queue : IsInjective(r[x])
  BY <1>3, <1>4, <1>5 DEF ListsOK
<1> QED
  BY <1>3, <1>4, <1>6, <1>7, <1>8 DEF ListsOK

\* The lists' heads are distinct.
LEMMA QueueHeads ==
    /\ freequeue \in Queue /\ readyqueue \in Queue /\ keyboardqueue \in Queue
    /\ Sem \subseteq Queue
    /\ freequeue # readyqueue /\ freequeue # keyboardqueue /\ readyqueue # keyboardqueue
    /\ freequeue \notin Sem /\ readyqueue \notin Sem /\ keyboardqueue \notin Sem
    /\ \A x \in Queue : x \in Sem \/ x \in {freequeue, readyqueue, keyboardqueue}
    /\ idle_task \in Task /\ task1 \in Task /\ idle_task # task1
BY SchedAssumption DEF Queue, Sem, freequeue, readyqueue, keyboardqueue, Task, idle_task, task1

----------------------------------------------------------------------------
(* The invariants about lists, states and continuations talk of the        *)
(* queues, the states and the continuations in the middle of a handler as  *)
(* well as between two steps, so they are stated here as predicates of     *)
(* those values: q for queue, st for state, k for kont, c for current.     *)

States == {ST_RUN, ST_READY, ST_BLOCKED}

\* The lists other than the ready queue hold what ListedAsStated says.
OffReady(q, st, k) ==
    /\ \A n \in Sem : \A t \in Range(q[n]) :
          st[t] = ST_BLOCKED /\ k[t] = "semwait"
    /\ \A t \in Range(q[keyboardqueue]) :
          st[t] = ST_BLOCKED /\ k[t] \in {"readloop", "readret"}
    /\ \A t \in Range(q[freequeue]) : k[t] = "dead"

OnReady(q, st, k) ==
    \A t \in Range(q[readyqueue]) : st[t] = ST_READY /\ k[t] \in {"user", "semwait"}

\* Before a switch the first ready task may also be a reader.
ReadyToSwitch(q, st, k) ==
    \A t \in Range(q[readyqueue]) :
        /\ st[t] = ST_READY
        /\ k[t] # "dead"
        /\ t = Head(q[readyqueue]) \/ k[t] \in {"user", "semwait"}

IdleOK(q, st, k) ==
    /\ k[idle_task] = "user"
    /\ \A x \in Queue \ {readyqueue} : idle_task \notin Range(q[x])
    /\ idle_task \in Range(q[readyqueue]) \/ st[idle_task] = ST_RUN

CpuOK(q, st, k, c) ==
    /\ c \in Task
    /\ k[c] # "dead"
    /\ st[c] = ST_RUN
    /\ OnNoList(q, c)

Placed(q, c) ==
    AllocMayFail \/ \A t \in Task \ {idle_task} :
                        t = c \/ \E x \in Queue : t \in Range(q[x])

\* What holds between two steps, and what a caller of sched_next_rr owes it.
Between(q, st, k, c) ==
    /\ ListsOK(q)
    /\ st \in [Task -> States]
    /\ k \in [Task -> Kont]
    /\ OffReady(q, st, k)
    /\ OnReady(q, st, k)
    /\ IdleOK(q, st, k)
    /\ CpuOK(q, st, k, c)
    /\ Placed(q, c)

SwitchPre(q, st, k) ==
    /\ ListsOK(q)
    /\ st \in [Task -> States]
    /\ k \in [Task -> Kont]
    /\ OffReady(q, st, k)
    /\ ReadyToSwitch(q, st, k)
    /\ IdleOK(q, st, k)
    /\ Placed(q, idle_task)

----------------------------------------------------------------------------
\* The task switch restores what its caller has disturbed.
LEMMA SwitchOK ==
    ASSUME NEW q, NEW st, NEW k, NEW left \in 0 .. TickMax,
           SwitchPre(q, st, k),
           sched_next_rr(q, st, left)
    PROVE  /\ Between(queue', state', k, current')
           /\ left_ticks' \in 0 .. TickMax
           /\ \A x \in Queue \ {readyqueue} : queue'[x] = q[x]
<1>1. CASE list_empty(q, readyqueue) /\ current' = idle_task /\ queue' = q
           /\ state' = st /\ left_ticks' = left
  <2>1. Range(q[readyqueue]) = {}
    BY <1>1, RangeOfEmpty DEF list_empty
  <2>2. OnNoList(q, idle_task) /\ st[idle_task] = ST_RUN
    BY <2>1 DEF SwitchPre, IdleOK, OnNoList
  <2>3. CpuOK(q, st, k, idle_task)
    BY <2>2, QueueHeads DEF SwitchPre, IdleOK, CpuOK
  <2>4. OnReady(q, st, k)
    BY <2>1 DEF OnReady
  <2> QED
    BY <1>1, <2>3, <2>4 DEF SwitchPre, Between
<1>2. CASE /\ ~list_empty(q, readyqueue)
           /\ current' = list_first(q, readyqueue)
           /\ queue' = Dequeue(q, st)
           /\ state' = [st EXCEPT ![list_first(q, readyqueue)] = ST_RUN]
           /\ left_ticks' = Quantum
  <2> DEFINE h == Head(q[readyqueue])
             r == list_del(q, readyqueue)
             s == [st EXCEPT ![h] = ST_RUN]
  <2>1. q[readyqueue] # <<>> /\ ListsOK(q)
    BY <1>2 DEF list_empty, SwitchPre
  <2>2. /\ ListsOK(r)
        /\ h \in Task
        /\ h \in Range(q[readyqueue])
        /\ Range(r[readyqueue]) = Range(q[readyqueue]) \ {h}
        /\ \A x \in Queue \ {readyqueue} : r[x] = q[x]
        /\ OnNoList(r, h)
    BY <2>1, DelFirst, QueueHeads
  <2>3. st[h] # ST_RUN
    BY <2>2 DEF SwitchPre, ReadyToSwitch, ST_READY, ST_RUN
  <2>4. queue' = r /\ current' = h /\ state' = s
    BY <1>2, <2>3 DEF Dequeue, list_first
  <2>5. /\ s \in [Task -> States]
        /\ s[h] = ST_RUN
        /\ \A t \in Task : t # h => s[t] = st[t]
    BY <2>2 DEF SwitchPre, States
  <2>6. \A x \in Queue : \A t \in Range(r[x]) : t \in Task /\ t # h
    BY <2>2, RangeByIndex DEF OnNoList, ListsOK
  <2>7. OffReady(r, s, k)
    <3>1. ASSUME NEW n \in Sem, NEW t \in Range(r[n])
          PROVE  s[t] = ST_BLOCKED /\ k[t] = "semwait"
      <4>1. n \in Queue /\ n # readyqueue
        BY QueueHeads
      <4>2. t \in Range(q[n]) /\ s[t] = st[t]
        BY <4>1, <2>2, <2>5, <2>6, <3>1
      <4> QED
        BY <4>2 DEF SwitchPre, OffReady
    <3>2. ASSUME NEW t \in Range(r[keyboardqueue])
          PROVE  s[t] = ST_BLOCKED /\ k[t] \in {"readloop", "readret"}
      <4>1. t \in Range(q[keyboardqueue]) /\ s[t] = st[t]
        BY <2>2, <2>5, <2>6, <3>2, QueueHeads
      <4> QED
        BY <4>1 DEF SwitchPre, OffReady
    <3>3. ASSUME NEW t \in Range(r[freequeue])
          PROVE  k[t] = "dead"
      <4>1. t \in Range(q[freequeue])
        BY <2>2, <3>3, QueueHeads
      <4> QED
        BY <4>1 DEF SwitchPre, OffReady
    <3> QED
      BY <3>1, <3>2, <3>3 DEF OffReady
  <2>8. OnReady(r, s, k)
    <3>1. ASSUME NEW t \in Range(r[readyqueue])
          PROVE  s[t] = ST_READY /\ k[t] \in {"user", "semwait"}
      <4>1. t \in Range(q[readyqueue]) /\ t # h /\ s[t] = st[t]
        BY <2>2, <2>5, <2>6, <3>1, QueueHeads
      <4> QED
        BY <4>1 DEF SwitchPre, ReadyToSwitch
    <3> QED
      BY <3>1 DEF OnReady
  <2>9. IdleOK(r, s, k)
    <3>1. \A x \in Queue \ {readyqueue} : idle_task \notin Range(r[x])
      BY <2>2 DEF SwitchPre, IdleOK
    <3>2. idle_task \in Range(r[readyqueue]) \/ s[idle_task] = ST_RUN
      BY <2>2, <2>5, QueueHeads DEF SwitchPre, IdleOK
    <3> QED
      BY <3>1, <3>2 DEF SwitchPre, IdleOK
  <2>10. CpuOK(r, s, k, h)
    BY <2>2, <2>5 DEF SwitchPre, ReadyToSwitch, CpuOK
  <2>11. Placed(r, h)
    <3>1. CASE AllocMayFail
      BY <3>1 DEF Placed
    <3>2. CASE ~AllocMayFail
      <4>1. ASSUME NEW t \in Task \ {idle_task}
            PROVE  t = h \/ \E x \in Queue : t \in Range(r[x])
        <5>1. PICK x \in Queue : t \in Range(q[x])
          BY <3>2, <4>1 DEF SwitchPre, Placed
        <5>2. t = h \/ t \in Range(r[x])
          BY <5>1, <2>2
        <5> QED
          BY <5>2
      <4> QED
        BY <4>1 DEF Placed
    <3> QED
      BY <3>1, <3>2
  <2>12. Between(r, s, k, h)
    BY <2>2, <2>5, <2>7, <2>8, <2>9, <2>10, <2>11 DEF SwitchPre, Between
  <2>13. Quantum \in 0 .. TickMax
    BY SchedAssumption
  <2> HIDE DEF h, r, s
  <2> QED
    BY <1>2, <2>2, <2>4, <2>12, <2>13
<1> QED
  BY <1>1, <1>2 DEF sched_next_rr

\* The list a task is queued on goes with its new state and continuation.
Fits(dst, s, v) ==
    /\ s \in States /\ v \in Kont
    /\ dst = readyqueue => s = ST_READY /\ v \in {"user", "semwait"}
    /\ dst \in Sem => s = ST_BLOCKED /\ v = "semwait"
    /\ dst = keyboardqueue => s = ST_BLOCKED /\ v \in {"readloop", "readret"}
    /\ dst = freequeue => v = "dead"

\* A handler that queues the running task, at either end of a list, is
\* ready to switch; only on the ready queue may it queue idle.
LEMMA QueueCurrent ==
    ASSUME NEW q, NEW st, NEW k, NEW c,
           Between(q, st, k, c),
           NEW dst \in Queue, NEW s, NEW v,
           Fits(dst, s, v),
           c = idle_task => dst = readyqueue /\ v = "user",
           NEW r,
           \/ r = list_add_tail(q, dst, c)
           \/ r = list_add(q, dst, c) /\ dst # readyqueue
    PROVE  SwitchPre(r, [st EXCEPT ![c] = s], [k EXCEPT ![c] = v])
<1> DEFINE st2 == [st EXCEPT ![c] = s]
           k2  == [k EXCEPT ![c] = v]
<1>1. ListsOK(q) /\ c \in Task /\ OnNoList(q, c)
  BY DEF Between, CpuOK
<1>2. /\ ListsOK(r)
      /\ Range(r[dst]) = Range(q[dst]) \cup {c}
      /\ \A x \in Queue : x # dst => r[x] = q[x]
  BY <1>1, AddTail, AddFront
<1>3. /\ st2 \in [Task -> States] /\ k2 \in [Task -> Kont]
      /\ st2[c] = s /\ k2[c] = v
      /\ \A t \in Task : t # c => st2[t] = st[t] /\ k2[t] = k[t]
  BY <1>1 DEF Between, Fits
<1>4. \A x \in Queue : \A t \in Range(q[x]) : t \in Task /\ t # c
  BY <1>1, RangeByIndex DEF OnNoList, ListsOK
<1>5. \A x \in Queue : \A t \in Range(r[x]) :
         \/ t = c /\ x = dst
         \/ t \in Range(q[x]) /\ t \in Task /\ st2[t] = st[t] /\ k2[t] = k[t]
  BY <1>2, <1>3, <1>4
<1> HIDE DEF st2, k2
<1>6. OffReady(r, st2, k2)
  <2>1. ASSUME NEW n \in Sem, NEW t \in Range(r[n])
        PROVE  st2[t] = ST_BLOCKED /\ k2[t] = "semwait"
    <3>1. n \in Queue
      BY QueueHeads
    <3>2. CASE t = c /\ n = dst
      BY <3>2, <1>3 DEF Fits
    <3>3. CASE t \in Range(q[n]) /\ st2[t] = st[t] /\ k2[t] = k[t]
      BY <3>3 DEF Between, OffReady
    <3> QED
      BY <2>1, <3>1, <3>2, <3>3, <1>5
  <2>2. ASSUME NEW t \in Range(r[keyboardqueue])
        PROVE  st2[t] = ST_BLOCKED /\ k2[t] \in {"readloop", "readret"}
    <3>2. CASE t = c /\ keyboardqueue = dst
      BY <3>2, <1>3 DEF Fits
    <3>3. CASE t \in Range(q[keyboardqueue]) /\ st2[t] = st[t] /\ k2[t] = k[t]
      BY <3>3 DEF Between, OffReady
    <3> QED
      BY <2>2, <3>2, <3>3, <1>5, QueueHeads
  <2>3. ASSUME NEW t \in Range(r[freequeue])
        PROVE  k2[t] = "dead"
    <3>2. CASE t = c /\ freequeue = dst
      BY <3>2, <1>3 DEF Fits
    <3>3. CASE t \in Range(q[freequeue]) /\ k2[t] = k[t]
      BY <3>3 DEF Between, OffReady
    <3> QED
      BY <2>3, <3>2, <3>3, <1>5, QueueHeads
  <2> QED
    BY <2>1, <2>2, <2>3 DEF OffReady
<1>7. ReadyToSwitch(r, st2, k2)
  <2>1. ASSUME NEW t \in Range(r[readyqueue])
        PROVE  st2[t] = ST_READY /\ k2[t] \in {"user", "semwait"}
    <3>2. CASE t = c /\ readyqueue = dst
      BY <3>2, <1>3 DEF Fits
    <3>3. CASE t \in Range(q[readyqueue]) /\ st2[t] = st[t] /\ k2[t] = k[t]
      BY <3>3 DEF Between, OnReady
    <3> QED
      BY <2>1, <3>2, <3>3, <1>5, QueueHeads
  <2> QED
    BY <2>1 DEF ReadyToSwitch
<1>8. IdleOK(r, st2, k2)
  <2>1. CASE c = idle_task
    <3>1. dst = readyqueue /\ idle_task \in Range(r[readyqueue]) /\ k2[idle_task] = "user"
      BY <2>1, <1>2, <1>3
    <3>2. \A x \in Queue \ {readyqueue} : idle_task \notin Range(r[x])
      BY <3>1, <1>2 DEF Between, IdleOK
    <3> QED
      BY <3>1, <3>2 DEF IdleOK
  <2>2. CASE c # idle_task
    <3>1. k2[idle_task] = k[idle_task] /\ st2[idle_task] = st[idle_task]
      BY <2>2, <1>3, QueueHeads
    <3>2. \A x \in Queue : idle_task \in Range(r[x]) <=> idle_task \in Range(q[x])
      BY <2>2, <1>2
    <3> QED
      BY <3>1, <3>2, QueueHeads DEF Between, IdleOK
  <2> QED
    BY <2>1, <2>2
<1>9. Placed(r, idle_task)
  <2>1. CASE AllocMayFail
    BY <2>1 DEF Placed
  <2>2. CASE ~AllocMayFail
    <3>1. ASSUME NEW t \in Task \ {idle_task}
          PROVE  \E x \in Queue : t \in Range(r[x])
      <4>1. t = c \/ \E x \in Queue : t \in Range(q[x])
        BY <2>2 DEF Between, Placed
      <4> QED
        BY <4>1, <1>2
    <3> QED
      BY <3>1 DEF Placed
  <2> QED
    BY <2>1, <2>2
<1> QED
  BY <1>2, <1>3, <1>6, <1>7, <1>8, <1>9 DEF SwitchPre, st2, k2

\* A handler in which the running task neither blocks nor moves anybody
\* between lists, but goes on with another continuation.
LEMMA GoOn ==
    ASSUME NEW q, NEW st, NEW k, NEW c, NEW v \in Kont \ {"dead"},
           Between(q, st, k, c), c # idle_task
    PROVE  Between(q, st, [k EXCEPT ![c] = v], c)
<1> DEFINE k2 == [k EXCEPT ![c] = v]
<1>1. c \in Task /\ OnNoList(q, c) /\ ListsOK(q)
  BY DEF Between, CpuOK
<1>2. k2 \in [Task -> Kont] /\ k2[c] = v /\ \A t \in Task : t # c => k2[t] = k[t]
  BY <1>1 DEF Between
<1>3. \A x \in Queue : \A t \in Range(q[x]) : t \in Task /\ t # c /\ k2[t] = k[t]
  BY <1>1, <1>2, RangeByIndex DEF OnNoList, ListsOK
<1> HIDE DEF k2
<1>4. OffReady(q, st, k2)
  BY <1>3, QueueHeads DEF Between, OffReady
<1>5. OnReady(q, st, k2)
  BY <1>3, QueueHeads DEF Between, OnReady
<1>6. IdleOK(q, st, k2) /\ CpuOK(q, st, k2, c)
  BY <1>2, QueueHeads DEF Between, IdleOK, CpuOK
<1> QED
  BY <1>2, <1>4, <1>5, <1>6 DEF Between, k2

\* The first task of another list moves to the end of the ready queue.
LEMMA MakeReady ==
    ASSUME NEW q, NEW st, NEW k, NEW c,
           Between(q, st, k, c),
           NEW src \in Queue \ {readyqueue}, q[src] # <<>>,
           NEW v \in {"user", "semwait"}
    PROVE  LET h == Head(q[src])
               r == list_add_tail(list_del(q, src), readyqueue, h)
           IN  /\ h \in Range(q[src]) /\ h \in Task /\ h # c /\ h # idle_task
               /\ \A x \in Queue \ {readyqueue, src} : r[x] = q[x]
               /\ r[src] = Tail(q[src])
               /\ Between(r, [st EXCEPT ![h] = ST_READY], [k EXCEPT ![h] = v], c)
<1> DEFINE h   == Head(q[src])
           p   == list_del(q, src)
           r   == list_add_tail(p, readyqueue, h)
           st2 == [st EXCEPT ![h] = ST_READY]
           k2  == [k EXCEPT ![h] = v]
<1>1. ListsOK(q) /\ src \in Queue /\ readyqueue \in Queue /\ src # readyqueue
  BY QueueHeads DEF Between
<1>2. /\ ListsOK(p)
      /\ h \in Task
      /\ h \in Range(q[src])
      /\ Range(p[src]) = Range(q[src]) \ {h}
      /\ \A x \in Queue : x # src => p[x] = q[x]
      /\ OnNoList(p, h)
  BY <1>1, DelFirst
<1>3. p[src] = Tail(q[src])
  BY <1>1 DEF list_del, ListsOK
<1> HIDE DEF h, p
<1>4. /\ ListsOK(r)
      /\ Range(r[readyqueue]) = Range(p[readyqueue]) \cup {h}
      /\ \A x \in Queue : x # readyqueue => r[x] = p[x]
  BY <1>1, <1>2, AddTail
<1> HIDE DEF r
<1>5. h # c /\ h # idle_task
  BY <1>1, <1>2 DEF Between, CpuOK, OnNoList, IdleOK
<1>6. /\ st2 \in [Task -> States] /\ k2 \in [Task -> Kont]
      /\ st2[h] = ST_READY /\ k2[h] = v
      /\ \A t \in Task : t # h => st2[t] = st[t] /\ k2[t] = k[t]
  BY <1>2 DEF Between, States, Kont
<1> HIDE DEF st2, k2
<1>7. \A x \in Queue : \A t \in Range(p[x]) :
         t \in Range(q[x]) /\ t \in Task /\ t # h /\ st2[t] = st[t] /\ k2[t] = k[t]
  BY <1>2, <1>6, RangeByIndex DEF OnNoList, ListsOK
<1>8. \A x \in Queue \ {readyqueue} : \A t \in Range(r[x]) :
         t \in Range(q[x]) /\ t \in Task /\ t # h /\ st2[t] = st[t] /\ k2[t] = k[t]
  BY <1>4, <1>7
<1>9. OffReady(r, st2, k2)
  <2>1. \A x \in Sem \cup {keyboardqueue, freequeue} : x \in Queue \ {readyqueue}
    BY QueueHeads
  <2> QED
    BY <1>8, <2>1 DEF Between, OffReady
<1>10. OnReady(r, st2, k2)
  <2>1. ASSUME NEW t \in Range(r[readyqueue])
        PROVE  st2[t] = ST_READY /\ k2[t] \in {"user", "semwait"}
    <3>1. CASE t = h
      BY <3>1, <1>6
    <3>2. CASE t \in Range(p[readyqueue])
      BY <3>2, <1>1, <1>7 DEF Between, OnReady
    <3> QED
      BY <2>1, <3>1, <3>2, <1>4
  <2> QED
    BY <2>1 DEF OnReady
<1>11. IdleOK(r, st2, k2)
  <2>1. k2[idle_task] = k[idle_task] /\ st2[idle_task] = st[idle_task]
    BY <1>5, <1>6, QueueHeads
  <2>2. \A x \in Queue \ {readyqueue} : idle_task \notin Range(r[x])
    BY <1>8 DEF Between, IdleOK
  <2>3. idle_task \in Range(q[readyqueue]) => idle_task \in Range(r[readyqueue])
    BY <1>1, <1>2, <1>4
  <2> QED
    BY <2>1, <2>2, <2>3 DEF Between, IdleOK
<1>12. CpuOK(r, st2, k2, c)
  <2>1. c \in Task /\ st2[c] = ST_RUN /\ k2[c] # "dead"
    BY <1>5, <1>6 DEF Between, CpuOK
  <2>2. ASSUME NEW x \in Queue
        PROVE  c \notin Range(r[x])
    <3>1. c \notin Range(p[x])
      BY <1>7 DEF Between, CpuOK, OnNoList
    <3> QED
      BY <3>1, <1>4, <1>5
  <2> QED
    BY <2>1, <2>2 DEF CpuOK, OnNoList
<1>13. Placed(r, c)
  <2>1. CASE AllocMayFail
    BY <2>1 DEF Placed
  <2>2. CASE ~AllocMayFail
    <3>1. ASSUME NEW t \in Task \ {idle_task}, t # c
          PROVE  \E x \in Queue : t \in Range(r[x])
      <4>1. PICK x \in Queue : t \in Range(q[x])
        BY <2>2, <3>1 DEF Between, Placed
      <4>2. t = h \/ t \in Range(p[x])
        BY <4>1, <1>2
      <4> QED
        BY <4>2, <1>1, <1>4
    <3> QED
      BY <3>1 DEF Placed
  <2> QED
    BY <2>1, <2>2
<1>14. Between(r, st2, k2, c)
  BY <1>4, <1>6, <1>9, <1>10, <1>11, <1>12, <1>13 DEF Between
<1>15. /\ \A x \in Queue \ {readyqueue, src} : r[x] = q[x]
       /\ r[src] = Tail(q[src])
  BY <1>1, <1>2, <1>3, <1>4
<1> QED
  BY <1>2, <1>5, <1>14, <1>15 DEF h, p, r, st2, k2

\* A fork that runs out of pages takes a PCB off the free list for good.
LEMMA LeakPCB ==
    ASSUME NEW q, NEW st, NEW k, NEW c,
           Between(q, st, k, c), q[freequeue] # <<>>, AllocMayFail
    PROVE  LET h == Head(q[freequeue])
               r == list_del(q, freequeue)
           IN  /\ h \in Task
               /\ \A x \in Queue \ {freequeue} : r[x] = q[x]
               /\ Between(r, [st EXCEPT ![h] = st[c]], k, c)
<1> DEFINE h   == Head(q[freequeue])
           r   == list_del(q, freequeue)
           st2 == [st EXCEPT ![h] = st[c]]
<1>1. ListsOK(q)
  BY DEF Between
<1>2. /\ ListsOK(r)
      /\ h \in Task
      /\ h \in Range(q[freequeue])
      /\ Range(r[freequeue]) = Range(q[freequeue]) \ {h}
      /\ \A x \in Queue : x # freequeue => r[x] = q[x]
      /\ OnNoList(r, h)
  BY <1>1, DelFirst, QueueHeads
<1> HIDE DEF h, r
<1>3. c \in Task /\ st[c] \in States /\ h # c /\ h # idle_task
  BY <1>2, QueueHeads DEF Between, CpuOK, OnNoList, IdleOK
<1>4. /\ st2 \in [Task -> States]
      /\ \A t \in Task : t # h => st2[t] = st[t]
  BY <1>2, <1>3 DEF Between
<1> HIDE DEF st2
<1>5. \A x \in Queue : \A t \in Range(r[x]) :
         t \in Range(q[x]) /\ t \in Task /\ st2[t] = st[t]
  BY <1>2, <1>4, RangeByIndex DEF OnNoList, ListsOK
<1>6. OffReady(r, st2, k) /\ OnReady(r, st2, k)
  BY <1>5, QueueHeads DEF Between, OffReady, OnReady
<1>7. IdleOK(r, st2, k)
  BY <1>2, <1>3, <1>4, <1>5, QueueHeads DEF Between, IdleOK
<1>8. CpuOK(r, st2, k, c)
  BY <1>3, <1>4, <1>5 DEF Between, CpuOK, OnNoList
<1>9. Placed(r, c)
  BY DEF Placed
<1>10. Between(r, st2, k, c)
  BY <1>2, <1>4, <1>6, <1>7, <1>8, <1>9 DEF Between
<1> QED
  BY <1>2, <1>10 DEF h, r, st2

\* Destroying a semaphore makes all its waiters ready.
LEMMA ReleaseAll ==
    ASSUME NEW q, NEW st, NEW k, NEW c,
           Between(q, st, k, c), NEW n \in Sem,
           NEW r, r = list_move_all(q, n, readyqueue),
           NEW st2 \in [Task -> States],
           \A t \in Task : st2[t] = IF t \in Range(q[n]) THEN ST_READY ELSE st[t]
    PROVE  /\ r[n] = <<>>
           /\ \A x \in Queue \ {readyqueue, n} : r[x] = q[x]
           /\ Between(r, st2, k, c)
<1>1. ListsOK(q) /\ n \in Queue \ {readyqueue} /\ readyqueue \in Queue
  BY QueueHeads DEF Between
<1>2. /\ ListsOK(r)
      /\ Range(r[readyqueue]) = Range(q[readyqueue]) \cup Range(q[n])
      /\ r[n] = <<>>
      /\ \A x \in Queue \ {readyqueue, n} : r[x] = q[x]
  BY <1>1, Splice
<1>3. \A t \in Task : st2[t] = IF t \in Range(q[n]) THEN ST_READY ELSE st[t]
  OBVIOUS
<1>4. \A x \in Queue : \A t \in Range(q[x]) : t \in Task
  BY <1>1, RangeByIndex DEF ListsOK
<1>5. \A x \in Queue \ {readyqueue} : \A t \in Range(r[x]) :
         t \in Range(q[x]) /\ t \in Task /\ st2[t] = st[t]
  <2>1. ASSUME NEW x \in Queue \ {readyqueue}, NEW t \in Range(r[x])
        PROVE  t \in Range(q[x]) /\ t \in Task /\ st2[t] = st[t]
    <3>1. CASE x = n
      BY <3>1, <2>1, <1>2, RangeOfEmpty
    <3>2. CASE x # n
      <4>1. t \in Range(q[x]) /\ t \in Task
        BY <3>2, <2>1, <1>2, <1>4
      <4>2. t \notin Range(q[n])
        BY <3>2, <4>1, <1>1 DEF ListsOK
      <4> QED
        BY <4>1, <4>2, <1>3
    <3> QED
      BY <3>1, <3>2
  <2> QED
    BY <2>1
<1>6. OffReady(r, st2, k)
  <2>1. \A x \in Sem \cup {keyboardqueue, freequeue} : x \in Queue \ {readyqueue}
    BY QueueHeads
  <2> QED
    BY <1>5, <2>1 DEF Between, OffReady
<1>7. OnReady(r, st2, k)
  <2>1. ASSUME NEW t \in Range(r[readyqueue])
        PROVE  st2[t] = ST_READY /\ k[t] \in {"user", "semwait"}
    <3>1. t \in Task
      BY <2>1, <1>1, <1>2, <1>4
    <3>2. CASE t \in Range(q[n])
      BY <3>1, <3>2, <1>3 DEF Between, OffReady
    <3>3. CASE t \in Range(q[readyqueue])
      BY <3>1, <3>3, <1>3 DEF Between, OnReady
    <3> QED
      BY <2>1, <3>2, <3>3, <1>2
  <2> QED
    BY <2>1 DEF OnReady
<1>8. IdleOK(r, st2, k)
  <2>1. idle_task \notin Range(q[n]) /\ st2[idle_task] = st[idle_task]
    BY <1>1, <1>3, QueueHeads DEF Between, IdleOK
  <2>2. \A x \in Queue \ {readyqueue} : idle_task \notin Range(r[x])
    BY <1>5 DEF Between, IdleOK
  <2> QED
    BY <2>1, <2>2, <1>2 DEF Between, IdleOK
<1>9. CpuOK(r, st2, k, c)
  <2>1. \A x \in Queue : c \notin Range(q[x])
    BY DEF Between, CpuOK, OnNoList
  <2>2. c \notin Range(r[readyqueue])
    BY <2>1, <1>1, <1>2
  <2>3. \A x \in Queue : c \notin Range(r[x])
    BY <2>1, <2>2, <1>5
  <2>4. c \in Task /\ st2[c] = st[c]
    BY <2>1, <1>1, <1>3 DEF Between, CpuOK
  <2> QED
    BY <2>3, <2>4 DEF Between, CpuOK, OnNoList
<1>10. Placed(r, c)
  <2>1. CASE AllocMayFail
    BY <2>1 DEF Placed
  <2>2. CASE ~AllocMayFail
    <3>1. ASSUME NEW t \in Task \ {idle_task}, t # c
          PROVE  \E x \in Queue : t \in Range(r[x])
      <4>1. PICK x \in Queue : t \in Range(q[x])
        BY <2>2, <3>1 DEF Between, Placed
      <4>2. CASE x \in {readyqueue, n}
        BY <4>1, <4>2, <1>1, <1>2
      <4>3. CASE x \notin {readyqueue, n}
        BY <4>1, <4>3, <1>2
      <4> QED
        BY <4>2, <4>3
    <3> QED
      BY <3>1 DEF Placed
  <2> QED
    BY <2>1, <2>2
<1>11. Between(r, st2, k, c)
  BY <1>2, <1>3, <1>6, <1>7, <1>8, <1>9, <1>10 DEF Between
<1> QED
  BY <1>2, <1>11

\* The keyboard interrupt that wakes the first reader: the reader comes first
\* on the ready queue, the interrupted task, idle or not, last.
LEMMA WakeReader ==
    ASSUME NEW q, NEW st, NEW k, NEW c,
           Between(q, st, k, c), k[c] = "user", q[keyboardqueue] # <<>>
    PROVE  LET h == Head(q[keyboardqueue])
               r == list_add_tail(list_add(list_del(q, keyboardqueue), readyqueue, h),
                                  readyqueue, c)
           IN  /\ h \in Task
               /\ \A x \in Queue \ {readyqueue, keyboardqueue} : r[x] = q[x]
               /\ SwitchPre(r, [st EXCEPT ![h] = ST_READY, ![c] = ST_READY], k)
<1> DEFINE h   == Head(q[keyboardqueue])
           p1  == list_del(q, keyboardqueue)
           p2  == list_add(p1, readyqueue, h)
           r   == list_add_tail(p2, readyqueue, c)
           st2 == [st EXCEPT ![h] = ST_READY, ![c] = ST_READY]
<1>1. ListsOK(q) /\ c \in Task /\ OnNoList(q, c) /\ keyboardqueue \in Queue
      /\ readyqueue \in Queue /\ keyboardqueue # readyqueue
  BY QueueHeads DEF Between, CpuOK
<1>2. /\ ListsOK(p1)
      /\ h \in Task
      /\ h \in Range(q[keyboardqueue])
      /\ Range(p1[keyboardqueue]) = Range(q[keyboardqueue]) \ {h}
      /\ \A x \in Queue : x # keyboardqueue => p1[x] = q[x]
      /\ OnNoList(p1, h)
  BY <1>1, DelFirst
<1> HIDE DEF h, p1
<1>3. /\ ListsOK(p2)
      /\ Range(p2[readyqueue]) = Range(p1[readyqueue]) \cup {h}
      /\ \A x \in Queue : x # readyqueue => p2[x] = p1[x]
      /\ p2[readyqueue] # <<>>
      /\ Head(p2[readyqueue]) = h
  <2>1. ListsOK(p1) /\ readyqueue \in Queue /\ h \in Task /\ OnNoList(p1, h)
    BY <1>1, <1>2
  <2> QED
    BY <2>1, AddFront
<1> HIDE DEF p2
<1>4. h # c
  BY <1>1, <1>2 DEF OnNoList
<1>5. OnNoList(p2, c)
  <2>1. ASSUME NEW x \in Queue
        PROVE  c \notin Range(p2[x])
    <3>1. c \notin Range(p1[x])
      BY <1>1, <1>2 DEF OnNoList
    <3> QED
      BY <3>1, <1>3, <1>4
  <2> QED
    BY <2>1 DEF OnNoList
<1>6. /\ ListsOK(r)
      /\ Range(r[readyqueue]) = Range(p2[readyqueue]) \cup {c}
      /\ \A x \in Queue : x # readyqueue => r[x] = p2[x]
      /\ Head(r[readyqueue]) = h
  <2>1. /\ ListsOK(r)
        /\ Range(r[readyqueue]) = Range(p2[readyqueue]) \cup {c}
        /\ \A x \in Queue : x # readyqueue => r[x] = p2[x]
        /\ Head(r[readyqueue]) = IF p2[readyqueue] = <<>> THEN c ELSE Head(p2[readyqueue])
    <3>1. ListsOK(p2) /\ readyqueue \in Queue /\ c \in Task /\ OnNoList(p2, c)
      BY <1>1, <1>3, <1>5
    <3> QED
      BY <3>1, AddTail
  <2> HIDE DEF r
  <2> QED
    BY <1>3, <2>1
<1> HIDE DEF r
<1>7. /\ st2 \in [Task -> States]
      /\ st2[h] = ST_READY /\ st2[c] = ST_READY
      /\ \A t \in Task : t # h /\ t # c => st2[t] = st[t]
  BY <1>1, <1>2, <1>4 DEF Between, States
<1> HIDE DEF st2
<1>8. Range(r[readyqueue]) = Range(q[readyqueue]) \cup {h, c}
  BY <1>1, <1>2, <1>3, <1>6
<1>9. \A x \in Queue \ {readyqueue} : \A t \in Range(r[x]) :
         t \in Range(q[x]) /\ t \in Task /\ st2[t] = st[t]
  <2>1. ASSUME NEW x \in Queue \ {readyqueue}, NEW t \in Range(r[x])
        PROVE  t \in Range(q[x]) /\ t \in Task /\ st2[t] = st[t]
    <3>1. t \in Range(p1[x]) /\ t # c /\ t # h
      BY <2>1, <1>2, <1>3, <1>5, <1>6 DEF OnNoList
    <3>2. t \in Range(q[x])
      BY <3>1, <1>2
    <3>3. t \in Task
      BY <3>2, <1>1, RangeByIndex DEF ListsOK
    <3> QED
      BY <3>1, <3>2, <3>3, <1>7
  <2> QED
    BY <2>1
<1>10. OffReady(r, st2, k)
  <2>1. \A x \in Sem \cup {keyboardqueue, freequeue} : x \in Queue \ {readyqueue}
    BY QueueHeads
  <2> QED
    BY <1>9, <2>1 DEF Between, OffReady
<1>11. ReadyToSwitch(r, st2, k)
  <2>1. ASSUME NEW t \in Range(r[readyqueue])
        PROVE  st2[t] = ST_READY /\ k[t] # "dead"
               /\ (t = h \/ k[t] \in {"user", "semwait"})
    <3>1. CASE t = h
      BY <3>1, <1>2, <1>7 DEF Between, OffReady
    <3>2. CASE t = c
      BY <3>2, <1>7
    <3>3. CASE t \in Range(q[readyqueue]) /\ t # h /\ t # c
      <4>1. t \in Task
        BY <3>3, <1>1, RangeByIndex DEF ListsOK
      <4> QED
        BY <3>3, <4>1, <1>7 DEF Between, OnReady
    <3> QED
      BY <2>1, <3>1, <3>2, <3>3, <1>8
  <2> QED
    BY <2>1, <1>6 DEF ReadyToSwitch
<1>12. IdleOK(r, st2, k)
  <2>1. \A x \in Queue \ {readyqueue} : idle_task \notin Range(r[x])
    BY <1>9 DEF Between, IdleOK
  <2>2. idle_task # h
    BY <1>1, <1>2 DEF Between, IdleOK
  <2>3. idle_task \in Range(r[readyqueue]) \/ st2[idle_task] = ST_RUN
    BY <2>2, <1>7, <1>8, QueueHeads DEF Between, IdleOK
  <2> QED
    BY <2>1, <2>3 DEF Between, IdleOK
<1>13. Placed(r, idle_task)
  <2>1. CASE AllocMayFail
    BY <2>1 DEF Placed
  <2>2. CASE ~AllocMayFail
    <3>1. ASSUME NEW t \in Task \ {idle_task}
          PROVE  \E x \in Queue : t \in Range(r[x])
      <4>1. CASE t = c
        BY <4>1, <1>1, <1>8
      <4>2. CASE t # c
        <5>1. PICK x \in Queue : t \in Range(q[x])
          BY <2>2, <3>1, <4>2 DEF Between, Placed
        <5>2. t \in Range(p1[x]) \/ t = h
          BY <5>1, <1>2
        <5> QED
          BY <5>2, <1>1, <1>3, <1>6
      <4> QED
        BY <4>1, <4>2
    <3> QED
      BY <3>1 DEF Placed
  <2> QED
    BY <2>1, <2>2
<1>14. SwitchPre(r, st2, k)
  BY <1>6, <1>7, <1>10, <1>11, <1>12, <1>13 DEF SwitchPre, Between
<1>15. \A x \in Queue \ {readyqueue, keyboardqueue} : r[x] = q[x]
  BY <1>2, <1>3, <1>6
<1> QED
  BY <1>2, <1>14, <1>15 DEF h, p1, p2, r, st2

----------------------------------------------------------------------------
(* The inductive invariant: the scheduling invariants, the types of the    *)
(* other variables, the progress of readers (which keeps the count of the  *)
(* circular buffer in range) and WaitersConsistent (which makes the list   *)
(* that sys_sem_init resets an empty one).                                 *)
DataOK ==
    /\ PID \in [Task -> Int]
    /\ semdestroyed \in [Task -> BOOLEAN]
    /\ eax \in Int
    /\ sem_counter \in [Sem -> -IntMax - 1 .. IntMax]
    /\ owner_pid \in [Sem -> Int]
    /\ circbuffcounter \in 0 .. CIRCBUFF_SIZE
    /\ keyboard_readers_count \in [Task -> Int]
    /\ read_count \in [Task -> Nat]
    /\ read_i \in [Task -> Nat]
    /\ global_PID \in Nat
    /\ exit_i \in 0 .. NumSem

ReadersLack ==
    \A t \in Task : kont[t] = "readloop" => read_i[t] < read_count[t]

IInv ==
    /\ Between(queue, state, kont, current)
    /\ left_ticks \in 0 .. TickMax
    /\ DataOK
    /\ ReadersLack
    /\ WaitersConsistent

\* The invariants that the runs check follow from the inductive one.
LEMMA IInvImplies ==
    IInv => /\ TypeOK /\ LinkedOnce /\ CurrentUnlinked /\ ListedAsStated
            /\ IdleNeverBlocks /\ NoPCBLost /\ WaitersConsistent
<1> SUFFICES ASSUME IInv
             PROVE  /\ TypeOK /\ LinkedOnce /\ CurrentUnlinked /\ ListedAsStated
                    /\ IdleNeverBlocks /\ NoPCBLost /\ WaitersConsistent
  OBVIOUS
<1>1. TypeOK
  BY DEF IInv, Between, DataOK, ListsOK, CpuOK, States, TypeOK
<1>2. LinkedOnce
  BY DEF IInv, Between, ListsOK, LinkedOnce
<1>3. CurrentUnlinked
  BY DEF IInv, Between, CpuOK, OnNoList, CurrentUnlinked, Live, Linked
<1>4. ListedAsStated
  BY DEF IInv, Between, OffReady, OnReady, ListedAsStated
<1>5. IdleNeverBlocks
  BY DEF IInv, Between, IdleOK, IdleNeverBlocks, Linked
<1>6. NoPCBLost
  BY DEF IInv, Between, Placed, NoPCBLost, Linked
<1> QED
  BY <1>1, <1>2, <1>3, <1>4, <1>5, <1>6 DEF IInv

\* A step that leaves the semaphores and their lists alone keeps
\* WaitersConsistent.
LEMMA SameWaiters ==
    ASSUME WaitersConsistent, UNCHANGED semVars,
           \A n \in Sem : queue'[n] = queue[n]
    PROVE  WaitersConsistent'
BY DEF WaitersConsistent, semVars

LEMMA InitIInv == Init => IInv
<1> SUFFICES ASSUME Init PROVE IInv
  OBVIOUS
<1> USE DEF Init, SchedInit, SemInit, KeyboardInit, ProcessInit
<1> DEFINE free == [i \in 1 .. NR_TASKS - 2 |-> i + 1]
<1>1. /\ queue = [x \in Queue |-> IF x = freequeue THEN free ELSE <<>>]
      /\ free \in Seq(Task)
      /\ \A i \in 1 .. Len(free) : free[i] = i + 1
      /\ Len(free) = NR_TASKS - 2
  <2>1. NR_TASKS - 2 \in Nat
    BY SchedAssumption
  <2>2. \A i \in 1 .. NR_TASKS - 2 : i + 1 \in Task
    BY SchedAssumption DEF Task
  <2> QED
    BY <2>1, <2>2, IsASeq, LenProperties
<1> HIDE DEF free
<1>2. IsInjective(free)
  BY <1>1, InjectiveSeq, SchedAssumption
<1>3. \A t : t \in Range(free) <=> t \in Task \ {idle_task, task1}
  <2>1. \A t : t \in Range(free) <=> \E i \in 1 .. NR_TASKS - 2 : t = i + 1
    BY <1>1, RangeByIndex
  <2>2. ASSUME NEW t \in Task \ {idle_task, task1}
        PROVE  t - 1 \in 1 .. NR_TASKS - 2 /\ t = (t - 1) + 1
    BY <2>2, SchedAssumption DEF Task, idle_task, task1
  <2>3. \A i \in 1 .. NR_TASKS - 2 : i + 1 \in Task \ {idle_task, task1}
    BY SchedAssumption DEF Task, idle_task, task1
  <2> QED
    BY <2>1, <2>2, <2>3
<1>4. /\ queue[freequeue] = free
      /\ \A x \in Queue \ {freequeue} : queue[x] = <<>>
      /\ queue \in [Queue -> Seq(Task)]
  BY <1>1, QueueHeads, EmptySeq
<1>5. ListsOK(queue)
  BY <1>2, <1>4, RangeOfEmpty DEF ListsOK
<1>6. /\ OffReady(queue, state, kont)
      /\ OnReady(queue, state, kont)
  BY <1>3, <1>4, RangeOfEmpty, QueueHeads DEF OffReady, OnReady
<1>7. IdleOK(queue, state, kont)
  BY <1>3, <1>4, RangeOfEmpty, QueueHeads DEF IdleOK
<1>8. CpuOK(queue, state, kont, current)
  BY <1>3, <1>4, RangeOfEmpty, QueueHeads DEF CpuOK, OnNoList
<1>9. Placed(queue, current)
  BY <1>3, <1>4, QueueHeads DEF Placed
<1>10. state \in [Task -> States] /\ kont \in [Task -> Kont]
  BY DEF States, Kont
<1>11. Between(queue, state, kont, current)
  BY <1>5, <1>6, <1>7, <1>8, <1>9, <1>10 DEF Between
<1>12. DataOK /\ left_ticks \in 0 .. TickMax
  BY SchedAssumption, SemAssumption, KeyboardAssumption DEF DataOK, NO_RETURN
<1>13. ReadersLack
  BY DEF ReadersLack
<1>14. WaitersConsistent
  BY <1>4, QueueHeads DEF WaitersConsistent
<1> QED
  BY <1>11, <1>12, <1>13, <1>14 DEF IInv

----------------------------------------------------------------------------
(* One lemma per action: every step keeps the inductive invariant.         *)

\* The end of a handler that switches: what SwitchPre leaves to show.
LEMMA AfterSwitch ==
    ASSUME NEW q, NEW st, NEW left \in 0 .. TickMax,
           SwitchPre(q, st, kont'),
           sched_next_rr(q, st, left),
           DataOK', ReadersLack',
           WaitersConsistent, UNCHANGED semVars,
           \A n \in Sem : q[n] = queue[n]
    PROVE  IInv'
<1>1. /\ Between(queue', state', kont', current')
      /\ left_ticks' \in 0 .. TickMax
      /\ \A x \in Queue \ {readyqueue} : queue'[x] = q[x]
  BY SwitchOK
<1>2. \A n \in Sem : queue'[n] = queue[n]
  BY <1>1, QueueHeads
<1>3. WaitersConsistent'
  BY <1>2, SameWaiters
<1> QED
  BY <1>1, <1>3 DEF IInv

\* update_process_state_rr does not unlink the running task.
LEMMA EnqueueRunning ==
    ASSUME IInv
    PROVE  \A q, dst : Enqueue(q, current, dst) = list_add_tail(q, dst, current)
BY DEF IInv, Between, CpuOK, Enqueue

LEMMA TickRange ==
    ASSUME left_ticks \in 0 .. TickMax
    PROVE  update_sched_data_rr \in 0 .. TickMax
BY SchedAssumption DEF update_sched_data_rr

LEMMA ClockStep == ASSUME IInv, Clock PROVE IInv'
<1> USE DEF Clock
<1> DEFINE left == update_sched_data_rr
<1>1. left \in 0 .. TickMax
  BY TickRange DEF IInv
<1>2. DataOK' /\ ReadersLack' /\ kont' = kont /\ UNCHANGED semVars
  BY DEF IInv, DataOK, ReadersLack, clk_routine, Return, NO_RETURN,
         taskVars, semVars, kbdVars, procVars
<1>3. kont[current] = "user" /\ Between(queue, state, kont, current)
  BY DEF clk_routine, InterruptsOn, IInv
<1> HIDE DEF left
<1>4. CASE left_ticks' = left /\ UNCHANGED <<queue, current, state>>
  <2>1. WaitersConsistent'
    BY <1>2, <1>4, SameWaiters DEF IInv
  <2> QED
    BY <1>1, <1>2, <1>4, <2>1 DEF IInv
<1>5. CASE sched_next_rr(Enqueue(queue, current, readyqueue),
                         [state EXCEPT ![current] = QueuedState(readyqueue)],
                         left)
  <2> DEFINE q  == list_add_tail(queue, readyqueue, current)
             st == [state EXCEPT ![current] = ST_READY]
  <2>1. kont' = [kont EXCEPT ![current] = "user"]
    BY <1>2, <1>3 DEF Between
  <2>2. SwitchPre(q, st, kont')
    <3>1. Fits(readyqueue, ST_READY, "user")
      BY QueueHeads DEF Fits, States, Kont
    <3> QED
      BY <1>3, <2>1, <3>1, QueueCurrent, QueueHeads
  <2>3. \A n \in Sem : q[n] = queue[n]
    BY <1>3, QueueHeads DEF list_add_tail, Between, ListsOK
  <2>4. sched_next_rr(q, st, left)
    BY <1>5, EnqueueRunning DEF QueuedState
  <2> HIDE DEF q, st
  <2> QED
    BY <1>1, <1>2, <2>2, <2>3, <2>4, AfterSwitch DEF IInv
<1>6. CASE current = idle_task /\ sched_next_rr(queue, state, left)
  <2>1. SwitchPre(queue, state, kont')
    BY <1>2, <1>3, <1>6 DEF Between, SwitchPre, OnReady, ReadyToSwitch
  <2> QED
    BY <1>1, <1>2, <1>6, <2>1, AfterSwitch DEF IInv
<1> QED
  BY <1>4, <1>5, <1>6 DEF clk_routine, left

LEMMA KeyboardStep == ASSUME IInv, Keyboard PROVE IInv'
<1> USE DEF Keyboard
<1> DEFINE h    == Head(queue[keyboardqueue])
           left == keyboard_readers_count[h] - circbuffcounter'
<1>1. /\ kont[current] = "user"
      /\ circbuffcounter # CIRCBUFF_SIZE
      /\ queue[keyboardqueue] # <<>>
      /\ circbuffcounter' = circbuffcounter + 1
      /\ eax' = NO_RETURN
      /\ UNCHANGED <<PID, semdestroyed, kont, read_count, read_i, sem_counter,
                     owner_pid, global_PID, exit_i>>
  BY DEF keyboard_routine, InterruptsOn, circbuff_full, list_empty, Return,
         taskVars, semVars, procVars
<1>2. circbuffcounter' \in 0 .. CIRCBUFF_SIZE
  BY <1>1, KeyboardAssumption DEF IInv, DataOK
<1>3. ReadersLack' /\ UNCHANGED semVars
  BY <1>1 DEF IInv, ReadersLack, semVars
<1>4. ASSUME keyboard_readers_count' \in [Task -> Int]
      PROVE  DataOK'
  BY <1>1, <1>2, <1>4 DEF IInv, DataOK, NO_RETURN
<1>5. CASE UNCHANGED <<schedVars, keyboard_readers_count>>
  <2>1. DataOK'
    BY <1>4, <1>5 DEF IInv, DataOK
  <2>2. WaitersConsistent'
    BY <1>3, <1>5, SameWaiters DEF IInv, schedVars
  <2> QED
    BY <1>1, <1>3, <1>5, <2>1, <2>2 DEF IInv, schedVars
<1>6. CASE /\ keyboard_readers_count' = [keyboard_readers_count EXCEPT ![h] = left]
           /\ sched_next_rr(
                Enqueue(list_add(list_del(queue, keyboardqueue), readyqueue, h),
                        current, readyqueue),
                [state EXCEPT ![h] = ST_READY,
                              ![current] = QueuedState(readyqueue)],
                left_ticks)
  <2> DEFINE q  == list_add_tail(list_add(list_del(queue, keyboardqueue),
                                          readyqueue, h),
                                 readyqueue, current)
             st == [state EXCEPT ![h] = ST_READY, ![current] = ST_READY]
  <2>1. /\ h \in Task
        /\ \A x \in Queue \ {readyqueue, keyboardqueue} : q[x] = queue[x]
        /\ SwitchPre(q, st, kont)
    BY <1>1, WakeReader DEF IInv
  <2>2. sched_next_rr(q, st, left_ticks)
    BY <1>6, EnqueueRunning DEF QueuedState
  <2> HIDE DEF q, st
  <2>3. \A n \in Sem : q[n] = queue[n]
    BY <2>1, QueueHeads
  <2>4. DataOK'
    <3>1. left \in Int
      BY <1>2, <2>1 DEF IInv, DataOK
    <3> HIDE DEF left
    <3> QED
      BY <1>4, <1>6, <2>1, <3>1 DEF IInv, DataOK
  <2>5. SwitchPre(q, st, kont')
    BY <1>1, <2>1
  <2> QED
    BY <1>3, <2>2, <2>3, <2>4, <2>5, AfterSwitch DEF IInv
<1> QED
  BY <1>5, <1>6 DEF keyboard_routine, list_first

\* A system call that changes nothing but eax.
LEMMA FailStep ==
    ASSUME IInv, eax' \in Int,
           UNCHANGED <<schedVars, taskVars, semVars, kbdVars, procVars>>
    PROVE  IInv'
<1>1. DataOK' /\ ReadersLack'
  BY DEF IInv, DataOK, ReadersLack, taskVars, semVars, kbdVars, procVars
<1>2. WaitersConsistent'
  BY SameWaiters DEF IInv, schedVars
<1> QED
  BY <1>1, <1>2 DEF IInv, schedVars, taskVars

\* The running process goes on, no list changes.
LEMMA GoOnStep ==
    ASSUME IInv, DataOK', ReadersLack', WaitersConsistent', UNCHANGED schedVars,
           kont[current] # "user" \/ current # idle_task,
           NEW v \in Kont \ {"dead"}, kont' = [kont EXCEPT ![current] = v]
    PROVE  IInv'
<1>1. current # idle_task
  BY DEF IInv, Between, IdleOK
<1>2. Between(queue, state, [kont EXCEPT ![current] = v], current)
  BY <1>1, GoOn DEF IInv
<1> QED
  BY <1>2 DEF IInv, schedVars

LEMMA ErrnoRange ==
    /\ -EINVAL \in Int /\ -EBUSY \in Int /\ -EPERM \in Int /\ -EAGAIN \in Int
    /\ -ENOMEM \in Int /\ NO_RETURN \in Int /\ EBADF \in Int /\ EFAULT \in Int
    /\ EINVAL \in Int /\ 0 \in Int
BY DEF EINVAL, EBUSY, EPERM, EAGAIN, ENOMEM, NO_RETURN, EBADF, EFAULT

LEMMA SemInitStep == ASSUME IInv, SemInitCall PROVE IInv'
<1>1. PICK n \in SemArg, value \in SemValues : sys_sem_init(n, value)
  BY DEF SemInitCall
<1>2. UNCHANGED <<kbdVars, procVars>>
  BY DEF SemInitCall
<1>3. CASE Fail(EINVAL) \/ Fail(EBUSY)
  BY <1>2, <1>3, FailStep, ErrnoRange DEF Fail, Return
<1>4. CASE /\ n \in Sem
           /\ owner_pid[n] = -1
           /\ sem_counter' = [sem_counter EXCEPT ![n] = ToInt(value)]
           /\ queue' = [queue EXCEPT ![n] = <<>>]
           /\ owner_pid' = [owner_pid EXCEPT ![n] = PID[current]]
           /\ Return(0)
           /\ UNCHANGED <<current, state, left_ticks, taskVars>>
  <2>1. queue[n] = <<>> /\ queue \in [Queue -> Seq(Task)]
    BY <1>4 DEF IInv, WaitersConsistent, Between, ListsOK
  <2>2. queue' = queue
    BY <1>4, <2>1
  <2>3. ToInt(value) \in -IntMax - 1 .. IntMax
    BY SemAssumption DEF ToInt
  <2>4. PID[current] \in Int
    BY DEF IInv, DataOK, Between, CpuOK
  <2>5. DataOK'
    BY <1>2, <1>4, <2>3, <2>4
       DEF IInv, DataOK, Return, taskVars, kbdVars, procVars
  <2>6. ReadersLack'
    BY <1>2, <1>4 DEF IInv, ReadersLack, taskVars, kbdVars
  <2>7. WaitersConsistent'
    BY <1>4, <2>1, <2>2 DEF IInv, DataOK, WaitersConsistent
  <2> QED
    BY <1>4, <2>2, <2>5, <2>6, <2>7 DEF IInv, taskVars
<1> QED
  BY <1>1, <1>3, <1>4 DEF sys_sem_init

LEMMA SemWaitStep == ASSUME IInv, SemWaitCall PROVE IInv'
<1>1. PICK n \in SemArg : sys_sem_wait(n)
  BY DEF SemWaitCall
<1>2. /\ UNCHANGED <<kbdVars, procVars>>
      /\ kont[current] = "user" /\ current # idle_task /\ current \in Task
  BY <1>1 DEF SemWaitCall, sys_sem_wait, InUserCode, IInv, Between, CpuOK
<1>3. CASE Fail(EINVAL)
  BY <1>2, <1>3, FailStep, ErrnoRange DEF Fail, Return
<1>4. CASE /\ SemInUse(n)
           /\ sem_counter[n] <= 0
           /\ kont' = [kont EXCEPT ![current] = "semwait"]
           /\ sched_next_rr(list_add_tail(queue, n, current),
                            [state EXCEPT ![current] = ST_BLOCKED],
                            left_ticks)
           /\ Return(NO_RETURN)
           /\ UNCHANGED <<PID, semdestroyed, semVars>>
  <2> DEFINE q  == list_add_tail(queue, n, current)
             st == [state EXCEPT ![current] = ST_BLOCKED]
  <2>1. n \in Sem /\ n \in Queue /\ owner_pid[n] # -1
    BY <1>4, QueueHeads DEF SemInUse
  <2>2. Fits(n, ST_BLOCKED, "semwait")
    BY <2>1, QueueHeads DEF Fits, States, Kont
  <2>3. SwitchPre(q, st, kont')
    BY <1>2, <1>4, <2>1, <2>2, QueueCurrent DEF IInv
  <2>4. \A m \in Sem : m # n => q[m] = queue[m]
    BY <2>1, QueueHeads DEF list_add_tail, IInv, Between, ListsOK
  <2> HIDE DEF q, st
  <2>5. /\ Between(queue', state', kont', current')
        /\ left_ticks' \in 0 .. TickMax
        /\ \A x \in Queue \ {readyqueue} : queue'[x] = q[x]
    BY <1>4, <2>3, SwitchOK DEF IInv, q, st
  <2>6. \A m \in Sem : m # n => queue'[m] = queue[m]
    BY <2>4, <2>5, QueueHeads
  <2>7. WaitersConsistent'
    BY <1>4, <2>1, <2>6 DEF IInv, WaitersConsistent, semVars
  <2>8. DataOK'
    BY <1>2, <1>4, ErrnoRange DEF IInv, DataOK, Return, semVars, kbdVars, procVars
  <2>9. ReadersLack'
    BY <1>2, <1>4 DEF IInv, ReadersLack, kbdVars, Between
  <2> QED
    BY <2>5, <2>7, <2>8, <2>9 DEF IInv
<1>5. CASE /\ SemInUse(n)
           /\ sem_counter[n] > 0
           /\ sem_counter' = [sem_counter EXCEPT ![n] = @ - 1]
           /\ SemWaitTail(current)
           /\ UNCHANGED <<schedVars, PID, kont, owner_pid>>
  <2>1. n \in Sem /\ queue[n] = <<>>
    BY <1>5 DEF SemInUse, IInv, WaitersConsistent, DataOK
  <2>2. sem_counter[n] - 1 \in -IntMax - 1 .. IntMax
    BY <1>5, <2>1, SemAssumption DEF IInv, DataOK
  <2>3. DataOK'
    BY <1>2, <1>5, <2>1, <2>2, ErrnoRange
       DEF IInv, DataOK, SemWaitTail, Return, kbdVars, procVars
  <2>4. ReadersLack'
    BY <1>2, <1>5 DEF IInv, ReadersLack, kbdVars
  <2>5. WaitersConsistent'
    BY <1>5, <2>1 DEF IInv, DataOK, WaitersConsistent, schedVars
  <2> QED
    BY <1>5, <2>3, <2>4, <2>5 DEF IInv, schedVars
<1> QED
  BY <1>1, <1>3, <1>4, <1>5 DEF sys_sem_wait

LEMMA SemWaitRestStep == ASSUME IInv, SemWaitRest PROVE IInv'
<1> USE DEF SemWaitRest, SemWaitResume
<1>1. current \in Task
  BY DEF IInv, Between, CpuOK
<1>2. DataOK'
  BY <1>1, ErrnoRange
     DEF IInv, DataOK, SemWaitTail, Return, semVars, kbdVars, procVars
<1>3. ReadersLack'
  BY <1>1 DEF IInv, ReadersLack, kbdVars, Between
<1>4. WaitersConsistent'
  BY SameWaiters DEF IInv, schedVars
<1>5. "user" \in Kont \ {"dead"}
  BY DEF Kont
<1> QED
  BY <1>2, <1>3, <1>4, <1>5, GoOnStep

LEMMA SemSignalStep == ASSUME IInv, SemSignalCall PROVE IInv'
<1>1. PICK n \in SemArg : sys_sem_signal(n)
  BY DEF SemSignalCall
<1>2. UNCHANGED <<kbdVars, procVars>>
  BY DEF SemSignalCall
<1>3. CASE Fail(EINVAL)
  BY <1>2, <1>3, FailStep, ErrnoRange DEF Fail, Return
<1>4. CASE /\ SemInUse(n)
           /\ list_empty(queue, n)
           /\ sem_counter' = [sem_counter EXCEPT ![n] = Increment(@)]
           /\ Return(0)
           /\ UNCHANGED <<schedVars, taskVars, owner_pid>>
  <2>1. n \in Sem /\ queue[n] = <<>>
    BY <1>4 DEF SemInUse, list_empty
  <2>2. Increment(sem_counter[n]) \in -IntMax - 1 .. IntMax
    BY <2>1, SemAssumption DEF IInv, DataOK, Increment
  <2>3. DataOK'
    BY <1>2, <1>4, <2>1, <2>2, ErrnoRange
       DEF IInv, DataOK, Return, taskVars, kbdVars, procVars
  <2>4. ReadersLack'
    BY <1>2, <1>4 DEF IInv, ReadersLack, kbdVars, taskVars
  <2>5. WaitersConsistent'
    BY <1>4, <2>1 DEF IInv, DataOK, WaitersConsistent, schedVars
  <2> QED
    BY <1>4, <2>3, <2>4, <2>5 DEF IInv, schedVars, taskVars
<1>5. CASE /\ SemInUse(n)
           /\ ~list_empty(queue, n)
           /\ state' = [state EXCEPT ![Head(queue[n])] = ST_READY]
           /\ queue' = list_add_tail(list_del(queue, n), readyqueue, Head(queue[n]))
           /\ Return(0)
           /\ UNCHANGED <<current, left_ticks, taskVars, semVars>>
  <2> DEFINE h == Head(queue[n])
  <2>1. /\ n \in Sem /\ n \in Queue \ {readyqueue} /\ queue[n] # <<>>
        /\ owner_pid[n] # -1 /\ sem_counter[n] <= 0
    BY <1>5, QueueHeads DEF SemInUse, list_empty, IInv, WaitersConsistent
  <2>2. /\ h \in Range(queue[n]) /\ h \in Task
        /\ \A x \in Queue \ {readyqueue, n} : queue'[x] = queue[x]
        /\ Between(queue', state', [kont EXCEPT ![h] = "semwait"], current)
    <3> DEFINE r == list_add_tail(list_del(queue, n), readyqueue, h)
               s == [state EXCEPT ![h] = ST_READY]
               k == [kont EXCEPT ![h] = "semwait"]
    <3>1. Between(queue, state, kont, current) /\ "semwait" \in {"user", "semwait"}
      BY DEF IInv
    <3>2. /\ h \in Range(queue[n]) /\ h \in Task
          /\ \A x \in Queue \ {readyqueue, n} : r[x] = queue[x]
          /\ Between(r, s, k, current)
      BY <2>1, <3>1, MakeReady, Zenon
    <3>3. queue' = r /\ state' = s
      BY <1>5
    <3> QED
      BY <3>2, <3>3
  <2>3. [kont EXCEPT ![h] = "semwait"] = kont
    BY <2>1, <2>2 DEF IInv, Between, OffReady
  <2>4. kont' = kont /\ current' = current
    BY <1>5 DEF taskVars
  <2>5. Between(queue', state', kont', current')
    BY <2>2, <2>3, <2>4
  <2>6. DataOK' /\ ReadersLack'
    BY <1>2, <1>5, ErrnoRange
       DEF IInv, DataOK, ReadersLack, Return, taskVars, semVars, kbdVars, procVars
  <2>7. WaitersConsistent'
    BY <1>5, <2>1, <2>2, QueueHeads DEF IInv, WaitersConsistent, semVars
  <2> QED
    BY <1>5, <2>5, <2>6, <2>7 DEF IInv
<1> QED
  BY <1>1, <1>3, <1>4, <1>5 DEF sys_sem_signal, list_first

\* sys_sem_destroy and each round of the loop in sys_exit.
LEMMA DestroySemStep ==
    ASSUME IInv, NEW n \in Sem, DestroySem(n), eax' \in Int,
           UNCHANGED <<kont, kbdVars, global_PID>>, exit_i' \in 0 .. NumSem
    PROVE  IInv'
<1>1. /\ queue'[n] = <<>>
      /\ \A x \in Queue \ {readyqueue, n} : queue'[x] = queue[x]
      /\ Between(queue', state', kont, current)
  <2>1. Between(queue, state, kont, current)
    BY DEF IInv
  <2>2. /\ queue' = list_move_all(queue, n, readyqueue)
        /\ state' = [t \in Task |-> IF t \in Range(queue[n]) THEN ST_READY
                                                            ELSE state[t]]
        /\ current' = current
    BY DEF DestroySem, Waiters
  <2>3. /\ queue'[n] = <<>>
        /\ \A x \in Queue \ {readyqueue, n} : queue'[x] = queue[x]
        /\ Between(queue', state', kont, current)
    <3>1. state' \in [Task -> States]
      BY <2>1, <2>2 DEF Between, States
    <3>2. \A t \in Task : state'[t] = IF t \in Range(queue[n]) THEN ST_READY
                                                             ELSE state[t]
      BY <2>2
    <3> QED
      BY <2>1, <2>2, <3>1, <3>2, ReleaseAll
  <2> QED
    BY <2>3
<1>2. semdestroyed' \in [Task -> BOOLEAN]
  <2> DEFINE flag(t) == IF t \in Waiters(n) THEN TRUE ELSE semdestroyed[t]
  <2>1. ASSUME NEW t \in Task PROVE flag(t) \in BOOLEAN
    <3>1. semdestroyed[t] \in BOOLEAN
      BY DEF IInv, DataOK
    <3> QED
      BY <3>1, Zenon
  <2>2. semdestroyed' = [t \in Task |-> flag(t)]
    BY DEF DestroySem
  <2> HIDE DEF flag
  <2> QED
    BY <2>1, <2>2
<1>3. DataOK'
  <2>1. PID' = PID /\ sem_counter' = sem_counter /\ owner_pid' = [owner_pid EXCEPT ![n] = -1]
    BY DEF DestroySem
  <2> QED
    BY <1>2, <2>1 DEF IInv, DataOK, kbdVars
<1>4. ReadersLack'
  BY DEF IInv, ReadersLack, kbdVars
<1>5. WaitersConsistent'
  BY <1>1, QueueHeads DEF IInv, DataOK, WaitersConsistent, DestroySem
<1> QED
  BY <1>1, <1>3, <1>4, <1>5 DEF IInv, DestroySem

LEMMA SemDestroyStep == ASSUME IInv, SemDestroyCall PROVE IInv'
<1>1. PICK n \in SemArg : sys_sem_destroy(n)
  BY DEF SemDestroyCall
<1>2. UNCHANGED <<kbdVars, procVars>>
  BY DEF SemDestroyCall
<1>3. CASE Fail(EINVAL) \/ Fail(EPERM)
  BY <1>2, <1>3, FailStep, ErrnoRange DEF Fail, Return
<1>4. CASE /\ SemInUse(n)
           /\ DestroySem(n)
           /\ Return(0)
           /\ UNCHANGED kont
  BY <1>2, <1>4, DestroySemStep DEF SemInUse, Return, procVars, IInv, DataOK
<1> QED
  BY <1>1, <1>3, <1>4 DEF sys_sem_destroy

\* The loop of sys_read_keyboard keeps the count of the buffer in range
\* because the reader lacks at least nothing.
LEMMA ReadLoopStep ==
    ASSUME IInv, NEW i \in Nat, NEW count \in Nat, i <= count,
           ReadLoop(current, i, count),
           current # idle_task,
           keyboard_readers_count' \in [Task -> Int],
           UNCHANGED <<PID, semdestroyed, semVars, procVars>>
    PROVE  IInv'
<1>1. current \in Task
  BY DEF IInv, Between, CpuOK
<1>2. CASE /\ count - i <= circbuffcounter
           /\ circbuffcounter' = circbuffcounter - (count - i)
           /\ read_i' = [read_i EXCEPT ![current] = 0]
           /\ read_count' = [read_count EXCEPT ![current] = 0]
           /\ kont' = [kont EXCEPT ![current] = "user"]
           /\ Return(0)
           /\ UNCHANGED schedVars
  <2>1. circbuffcounter' \in 0 .. CIRCBUFF_SIZE
    BY <1>2, KeyboardAssumption DEF IInv, DataOK
  <2>2. DataOK'
    BY <1>1, <1>2, <2>1, ErrnoRange DEF IInv, DataOK, Return, semVars, procVars
  <2>3. ReadersLack'
    BY <1>1, <1>2 DEF IInv, ReadersLack, DataOK, Between
  <2>4. WaitersConsistent'
    BY <1>2, SameWaiters DEF IInv, schedVars
  <2>5. "user" \in Kont \ {"dead"}
    BY DEF Kont
  <2> QED
    BY <1>2, <2>2, <2>3, <2>4, <2>5, GoOnStep
<1>3. CASE /\ count - i > circbuffcounter
           /\ circbuffcounter' = 0
           /\ read_i' = [read_i EXCEPT ![current] = i + circbuffcounter]
           /\ read_count' = [read_count EXCEPT ![current] = count]
           /\ kont' = [kont EXCEPT ![current] = "readloop"]
           /\ sched_next_rr(list_add(queue, keyboardqueue, current),
                            [state EXCEPT ![current] = ST_BLOCKED],
                            left_ticks)
           /\ Return(NO_RETURN)
  <2> DEFINE q  == list_add(queue, keyboardqueue, current)
             st == [state EXCEPT ![current] = ST_BLOCKED]
  <2>1. Fits(keyboardqueue, ST_BLOCKED, "readloop")
    BY QueueHeads DEF Fits, States, Kont
  <2>2. SwitchPre(q, st, kont')
    BY <1>3, <2>1, QueueCurrent, QueueHeads DEF IInv
  <2>3. \A n \in Sem : q[n] = queue[n]
    BY QueueHeads DEF list_add, IInv, Between, ListsOK
  <2> HIDE DEF q, st
  <2>4. /\ circbuffcounter \in Nat
        /\ i + circbuffcounter \in Nat
        /\ i + circbuffcounter < count
    BY <1>3, KeyboardAssumption DEF IInv, DataOK
  <2>5. DataOK'
    BY <1>1, <1>3, <2>4, ErrnoRange, KeyboardAssumption
       DEF IInv, DataOK, Return, semVars, procVars
  <2>6. ReadersLack'
    BY <1>1, <1>3, <2>4 DEF IInv, ReadersLack, DataOK, Between
  <2> QED
    BY <1>3, <2>2, <2>3, <2>5, <2>6, AfterSwitch DEF IInv, q, st
<1> QED
  BY <1>2, <1>3 DEF ReadLoop, CopyAll, CopySome, BlockReader

LEMMA ReadStep == ASSUME IInv, ReadCall PROVE IInv'
<1>1. PICK fd \in {0, 1}, buffer \in ReadBuffer, count \in {-1} \cup ReadCounts :
         sys_read(fd, buffer, count)
  BY DEF ReadCall
<1>2. /\ UNCHANGED <<PID, semdestroyed, semVars, procVars>>
      /\ kont[current] = "user" /\ current # idle_task /\ current \in Task
  BY <1>1 DEF ReadCall, sys_read, InUserCode, IInv, Between, CpuOK
<1>3. CASE /\ Return(ReadError(fd, buffer, count))
           /\ UNCHANGED <<schedVars, kont, kbdVars>>
  <2>1. ReadError(fd, buffer, count) \in Int
    BY ErrnoRange DEF ReadError
  <2> QED
    BY <1>2, <1>3, <2>1, FailStep DEF Return, taskVars
<1>4. CASE /\ ReadError(fd, buffer, count) = 0
           /\ keyboard_readers_count' =
                [keyboard_readers_count EXCEPT ![current] = count]
           /\ \/ /\ read_i' = [read_i EXCEPT ![current] = 0]
                 /\ read_count' = [read_count EXCEPT ![current] = count]
                 /\ kont' = [kont EXCEPT ![current] = "readret"]
                 /\ sched_next_rr(
                      Enqueue(queue, current, keyboardqueue),
                      [state EXCEPT ![current] = QueuedState(keyboardqueue)],
                      left_ticks)
                 /\ Return(NO_RETURN)
                 /\ UNCHANGED circbuffcounter
              \/ ReadLoop(current, 0, count)
  <2>1. count \in Nat
    BY <1>1, <1>4, KeyboardAssumption
       DEF ReadError, EBADF, EFAULT, EINVAL
  <2>2. keyboard_readers_count' \in [Task -> Int]
    BY <1>2, <1>4, <2>1 DEF IInv, DataOK
  <2>3. CASE /\ read_i' = [read_i EXCEPT ![current] = 0]
             /\ read_count' = [read_count EXCEPT ![current] = count]
             /\ kont' = [kont EXCEPT ![current] = "readret"]
             /\ sched_next_rr(
                  Enqueue(queue, current, keyboardqueue),
                  [state EXCEPT ![current] = QueuedState(keyboardqueue)],
                  left_ticks)
             /\ Return(NO_RETURN)
             /\ UNCHANGED circbuffcounter
    <3> DEFINE q  == list_add_tail(queue, keyboardqueue, current)
               st == [state EXCEPT ![current] = ST_BLOCKED]
    <3>1. Fits(keyboardqueue, ST_BLOCKED, "readret")
      BY QueueHeads DEF Fits, States, Kont
    <3>2. SwitchPre(q, st, kont')
      BY <1>2, <2>3, <3>1, QueueCurrent, QueueHeads DEF IInv
    <3>3. \A n \in Sem : q[n] = queue[n]
      BY QueueHeads DEF list_add_tail, IInv, Between, ListsOK
    <3>4. sched_next_rr(q, st, left_ticks)
      BY <2>3, QueueHeads, EnqueueRunning DEF QueuedState
    <3> HIDE DEF q, st
    <3>5. DataOK'
      BY <1>2, <2>1, <2>2, <2>3, ErrnoRange
         DEF IInv, DataOK, Return, semVars, procVars
    <3>6. ReadersLack'
      BY <1>2, <2>3 DEF IInv, ReadersLack, DataOK, Between
    <3> QED
      BY <1>2, <3>2, <3>3, <3>4, <3>5, <3>6, AfterSwitch DEF IInv
  <2>4. CASE ReadLoop(current, 0, count)
    BY <1>2, <2>1, <2>2, <2>4, ReadLoopStep
  <2> QED
    BY <1>4, <2>3, <2>4
<1> QED
  BY <1>1, <1>3, <1>4 DEF sys_read

LEMMA ReadRestStep == ASSUME IInv, ReadRest PROVE IInv'
<1>1. UNCHANGED <<semVars, procVars>> /\ current \in Task
  BY DEF ReadRest, IInv, Between, CpuOK
<1>2. CASE ReadLoopResume
  <2>1. /\ kont[current] = "readloop"
        /\ ReadLoop(current, read_i[current], read_count[current])
        /\ UNCHANGED <<PID, semdestroyed, keyboard_readers_count>>
    BY <1>2 DEF ReadLoopResume
  <2>2. current # idle_task
    BY <2>1 DEF IInv, Between, IdleOK
  <2>3. /\ read_i[current] \in Nat /\ read_count[current] \in Nat
        /\ read_i[current] <= read_count[current]
    BY <1>1, <2>1 DEF IInv, DataOK, ReadersLack
  <2>4. keyboard_readers_count' \in [Task -> Int]
    BY <2>1 DEF IInv, DataOK
  <2> QED
    BY <1>1, <2>1, <2>2, <2>3, <2>4, ReadLoopStep
<1>3. CASE ReadReturn
  <2> USE DEF ReadReturn
  <2>1. DataOK'
    BY <1>1, <1>3, ErrnoRange DEF IInv, DataOK, Return, semVars, procVars
  <2>2. ReadersLack'
    BY <1>1, <1>3 DEF IInv, ReadersLack, DataOK, Between
  <2>3. WaitersConsistent'
    BY <1>1, <1>3, SameWaiters DEF IInv, schedVars
  <2>4. "user" \in Kont \ {"dead"}
    BY DEF Kont
  <2> QED
    BY <1>3, <2>1, <2>2, <2>3, <2>4, GoOnStep
<1> QED
  BY <1>2, <1>3 DEF ReadRest

\* A new PCB comes off the free list.
LEMMA NewTaskStep ==
    ASSUME IInv, queue[freequeue] # <<>>, NewTask(Head(queue[freequeue])),
           UNCHANGED <<semVars, exit_i, kbdVars>>
    PROVE  IInv'
<1> DEFINE h == Head(queue[freequeue])
<1>1. freequeue \in Queue \ {readyqueue}
  BY QueueHeads
<1>2. /\ h \in Task
      /\ \A x \in Queue \ {readyqueue, freequeue} : queue'[x] = queue[x]
      /\ Between(queue', state', kont', current)
  <2>1. Between(queue, state, kont, current)
    BY DEF IInv
  <2>2. /\ queue' = list_add_tail(list_del(queue, freequeue), readyqueue, h)
        /\ state' = [state EXCEPT ![h] = ST_READY]
        /\ kont' = [kont EXCEPT ![h] = "user"]
        /\ current' = current
    BY DEF NewTask
  <2>3. /\ h \in Task
        /\ \A x \in Queue \ {readyqueue, freequeue} : queue'[x] = queue[x]
        /\ Between(queue', state', kont', current)
    <3> DEFINE r   == list_add_tail(list_del(queue, freequeue), readyqueue, h)
               st2 == [state EXCEPT ![h] = ST_READY]
               k2  == [kont EXCEPT ![h] = "user"]
    <3>1. "user" \in {"user", "semwait"}
      OBVIOUS
    <3>2. /\ h \in Task
          /\ \A x \in Queue \ {readyqueue, freequeue} : r[x] = queue[x]
          /\ Between(r, st2, k2, current)
      BY <1>1, <2>1, <3>1, MakeReady
    <3>3. queue' = r /\ state' = st2 /\ kont' = k2 /\ current' = current
      BY <2>2
    <3> HIDE DEF r, st2, k2
    <3> QED
      BY <3>2, <3>3
  <2> QED
    BY <2>2, <2>3
<1> HIDE DEF h
<1>3. DataOK'
  <2>1. DataOK /\ current \in Task
    BY DEF IInv, Between, CpuOK
  <2>2. PID' \in [Task -> Int] /\ eax' \in Int /\ global_PID' \in Nat
    <3>1. PID' = [PID EXCEPT ![h] = global_PID]
          /\ eax' = global_PID /\ global_PID' = global_PID + 1
      BY DEF NewTask, Return, h
    <3>2. PID \in [Task -> Int] /\ global_PID \in Nat
      BY <2>1 DEF DataOK
    <3>3. eax' \in Int /\ global_PID' \in Nat
      BY <3>1, <3>2
    <3>4. PID' \in [Task -> Int]
      <4>1. global_PID \in Int
        BY <3>2
      <4> QED
        BY <3>1, <3>2, <4>1, Zenon
    <3> QED
      BY <3>3, <3>4
  <2>3. semdestroyed' \in [Task -> BOOLEAN]
    BY <2>1 DEF NewTask, DataOK
  <2> QED
    BY <2>1, <2>2, <2>3 DEF DataOK, semVars, kbdVars
<1>4. ReadersLack'
  BY <1>2 DEF NewTask, IInv, ReadersLack, Between, kbdVars, h
<1>5. WaitersConsistent'
  BY <1>2, SameWaiters, QueueHeads DEF IInv
<1> QED
  BY <1>2, <1>3, <1>4, <1>5 DEF NewTask, IInv

LEMMA ForkStep == ASSUME IInv, ForkCall PROVE IInv'
<1>1. PICK enoughPages \in BOOLEAN :
         (enoughPages \/ AllocMayFail) /\ sys_fork(enoughPages)
  BY DEF ForkCall
<1>2. UNCHANGED <<semVars, exit_i, kbdVars>>
  BY <1>1 DEF ForkCall, sys_fork
<1>3. CASE Fail(EAGAIN) /\ UNCHANGED global_PID
  BY <1>2, <1>3, FailStep, ErrnoRange DEF Fail, Return, procVars
<1>4. CASE ~list_empty(queue, freequeue) /\ NewTask(list_first(queue, freequeue))
  BY <1>2, <1>4, NewTaskStep DEF list_empty, list_first
<1>5. CASE /\ ~list_empty(queue, freequeue)
           /\ AllocMayFail
           /\ ForkOutOfMemory(list_first(queue, freequeue))
  <2> DEFINE h == Head(queue[freequeue])
  <2>1. queue[freequeue] # <<>> /\ ForkOutOfMemory(h) /\ current \in Task
    BY <1>5 DEF list_empty, list_first, IInv, Between, CpuOK
  <2>2. /\ h \in Task
        /\ \A x \in Queue \ {freequeue} : queue'[x] = queue[x]
        /\ Between(queue', state', kont, current)
    <3>1. Between(queue, state, kont, current)
      BY DEF IInv
    <3>2. /\ queue' = list_del(queue, freequeue)
          /\ state' = [state EXCEPT ![h] = state[current]]
          /\ current' = current
      BY <2>1 DEF ForkOutOfMemory
    <3>3. /\ h \in Task
          /\ \A x \in Queue \ {freequeue} : queue'[x] = queue[x]
          /\ Between(queue', state', kont, current)
      BY <1>5, <2>1, <3>1, <3>2, LeakPCB
    <3> QED
      BY <3>2, <3>3
  <2> HIDE DEF h
  <2>3. DataOK'
    BY <1>2, <2>1, <2>2, ErrnoRange
       DEF ForkOutOfMemory, Return, IInv, DataOK, semVars, kbdVars
  <2>4. ReadersLack'
    BY <1>2, <2>1 DEF ForkOutOfMemory, IInv, ReadersLack, kbdVars
  <2>5. WaitersConsistent'
    BY <1>2, <2>2, SameWaiters, QueueHeads DEF IInv
  <2> QED
    BY <2>1, <2>2, <2>3, <2>4, <2>5 DEF ForkOutOfMemory, IInv
<1> QED
  BY <1>1, <1>3, <1>4, <1>5 DEF sys_fork

LEMMA CloneStep == ASSUME IInv, CloneCall PROVE IInv'
<1>1. PICK argsOk \in BOOLEAN : sys_clone(argsOk)
  BY DEF CloneCall
<1>2. UNCHANGED <<semVars, exit_i, kbdVars>>
  BY <1>1 DEF CloneCall, sys_clone
<1>3. CASE (Fail(EAGAIN) \/ Fail(EINVAL)) /\ UNCHANGED global_PID
  BY <1>2, <1>3, FailStep, ErrnoRange DEF Fail, Return, procVars
<1>4. CASE ~list_empty(queue, freequeue) /\ NewTask(list_first(queue, freequeue))
  BY <1>2, <1>4, NewTaskStep DEF list_empty, list_first
<1> QED
  BY <1>1, <1>3, <1>4 DEF sys_clone

LEMMA ExitStep == ASSUME IInv, ExitCall PROVE IInv'
<1> USE DEF ExitCall, sys_exit, InUserCode
<1>1. current \in Task /\ "exit" \in Kont \ {"dead"}
  BY DEF IInv, Between, CpuOK, Kont
<1>2. DataOK'
  BY ErrnoRange, SchedAssumption DEF IInv, DataOK, Return, semVars, kbdVars
<1>3. ReadersLack'
  BY <1>1 DEF IInv, ReadersLack, Between, kbdVars
<1>4. WaitersConsistent'
  BY SameWaiters DEF IInv, schedVars
<1> QED
  BY <1>1, <1>2, <1>3, <1>4, GoOnStep

LEMMA ExitRestStep == ASSUME IInv, ExitRest PROVE IInv'
<1>1. UNCHANGED kbdVars /\ current \in Task
  BY DEF ExitRest, IInv, Between, CpuOK
<1>2. CASE ExitSem
  <2>1. /\ exit_i \in Sem
        /\ exit_i' \in 0 .. NumSem
        /\ eax' \in Int
        /\ UNCHANGED <<kont, global_PID>>
    BY <1>2, ErrnoRange, SchedAssumption DEF ExitSem, Return, IInv, DataOK, Sem
  <2>2. CASE DestroySem(exit_i)
    BY <1>1, <2>1, <2>2, DestroySemStep
  <2>3. CASE UNCHANGED <<schedVars, PID, semdestroyed, semVars>>
    <3>1. DataOK' /\ ReadersLack'
      BY <1>1, <2>1, <2>3 DEF IInv, DataOK, ReadersLack, semVars, kbdVars
    <3>2. WaitersConsistent'
      BY <2>3, SameWaiters DEF IInv, schedVars
    <3> QED
      BY <2>1, <2>3, <3>1, <3>2 DEF IInv, schedVars
  <2> QED
    BY <1>2, <2>2, <2>3 DEF ExitSem
<1>3. CASE ExitRelease
  <2> USE DEF ExitRelease
  <2> DEFINE q == list_add_tail(queue, freequeue, current)
  <2>1. current # idle_task
    BY <1>3 DEF IInv, Between, IdleOK
  <2>2. Fits(freequeue, ST_RUN, "dead")
    BY QueueHeads DEF Fits, States, Kont
  <2>3. SwitchPre(q, [state EXCEPT ![current] = ST_RUN], kont')
    BY <1>3, <2>1, <2>2, QueueCurrent, QueueHeads DEF IInv
  <2>4. [state EXCEPT ![current] = ST_RUN] = state
    BY DEF IInv, Between, CpuOK
  <2>5. \A n \in Sem : q[n] = queue[n]
    BY QueueHeads DEF list_add_tail, IInv, Between, ListsOK
  <2> HIDE DEF q
  <2>6. DataOK'
    BY <1>1, <1>3, ErrnoRange, SchedAssumption
       DEF IInv, DataOK, Return, semVars, kbdVars
  <2>7. ReadersLack'
    BY <1>1, <1>3 DEF IInv, ReadersLack, Between, kbdVars
  <2>8. SwitchPre(q, state, kont')
    BY <2>3, <2>4
  <2> QED
    BY <1>3, <2>5, <2>6, <2>7, <2>8, AfterSwitch DEF IInv, q
<1> QED
  BY <1>2, <1>3 DEF ExitRest

----------------------------------------------------------------------------
LEMMA NextIInv == IInv /\ [Next]_vars => IInv'
<1> SUFFICES ASSUME IInv, [Next]_vars PROVE IInv'
  OBVIOUS
<1>1. CASE Clock
  BY <1>1, ClockStep
<1>2. CASE Keyboard
  BY <1>2, KeyboardStep
<1>3. CASE SystemCall
  BY <1>3, SemInitStep, SemWaitStep, SemSignalStep, SemDestroyStep, ReadStep,
     ForkStep, CloneStep, ExitStep DEF SystemCall
<1>4. CASE Continuation
  BY <1>4, SemWaitRestStep, ReadRestStep, ExitRestStep DEF Continuation
<1>5. CASE UNCHANGED vars
  <2>1. eax' \in Int
    BY <1>5 DEF vars, IInv, DataOK
  <2> QED
    BY <1>5, <2>1, FailStep DEF vars
<1> QED
  BY <1>1, <1>2, <1>3, <1>4, <1>5 DEF Next

\* The kernel keeps the inductive invariant (sched.c, sys.c, interrupt.c).
THEOREM Invariance == Spec => []IInv
BY InitIInv, NextIInv, PTL DEF Spec

\* Every variable keeps its type; in particular the count of the circular
\* buffer, which sys_read_keyboard lowers and keyboard_routine raises, stays
\* within the buffer.
THEOREM TypeCorrect == Spec => []TypeOK
BY Invariance, IInvImplies, PTL

\* No handler ever links a PCB twice (list_add, list_add_tail).
THEOREM ListsStayLists == Spec => []LinkedOnce
BY Invariance, IInvImplies, PTL

\* The running task is alive, marked as running and on no list, also after
\* update_process_state_rr has skipped the list_del.
THEOREM RunningIsUnlinked == Spec => []CurrentUnlinked
BY Invariance, IInvImplies, PTL

\* A PCB's state field agrees with the list it is linked on, so
\* sched_next_rr unlinks every task that it dispatches.
THEOREM StatesAgree == Spec => []ListedAsStated
BY Invariance, IInvImplies, PTL

\* idle never blocks, although keyboard_routine may queue it as ready.
THEOREM IdleIsSafe == Spec => []IdleNeverBlocks
BY Invariance, IInvImplies, PTL

\* No PCB is lost unless sys_fork runs out of pages.
THEOREM PCBsAreKept == Spec => []NoPCBLost
BY Invariance, IInvImplies, PTL

\* sys_sem_init never drops waiting processes, and tokens and waiters do not
\* coexist.
THEOREM WaitersAreKept == Spec => []WaitersConsistent
BY Invariance, IInvImplies, PTL
=============================================================================
