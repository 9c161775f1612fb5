--------------------------- MODULE WaitQueueProofs ---------------------------
(***************************************************************************)
(* What is proved of WaitQueue for every number of clients and of tasks:    *)
(* lists of any length.                                                     *)
(***************************************************************************)
EXTENDS WaitQueue, SchedulerProofs, WellFoundedInduction

(* The task at position k, and NoTask beside the list.                     *)
At(q, k) == IF k \in 1..Len(q) THEN q[k] ELSE NoTask

(* Head h, tail l and pointers n are the list q.                           *)
Links(h, l, n, q) ==
  /\ h = At(q, 1) /\ l = At(q, Len(q))
  /\ \A i \in 1..Len(q) : n[q[i]] = At(q, i + 1)

Without(q, p) == [i \in 1..Len(q) - 1 |-> IF i < p THEN q[i] ELSE q[i + 1]]

LEMMA Positions ==
  ASSUME NEW q \in Seq(Tasks)
  PROVE  /\ Len(q) \in Nat /\ DOMAIN q = 1..Len(q)
         /\ NoTask \notin Tasks
         /\ \A k \in 1..Len(q) : q[k] \in Tasks /\ At(q, k) = q[k]
         /\ \A k : At(q, k) \in Tasks \cup {NoTask}
         /\ \A k : At(q, k) = NoTask <=> k \notin 1..Len(q)
         /\ At(q, 0) = NoTask /\ At(q, Len(q) + 1) = NoTask
<1>1. Len(q) \in Nat /\ DOMAIN q = 1..Len(q) /\ \A k \in 1..Len(q) : q[k] \in Tasks
  OBVIOUS
<1>2. NoTask \notin Tasks
  BY DEF NoTask, Tasks
<1>3. 0 \notin 1..Len(q) /\ Len(q) + 1 \notin 1..Len(q)
  BY <1>1
<1> QED BY <1>1, <1>2, <1>3 DEF At

LEMMA WithoutAt ==
  ASSUME NEW q \in Seq(Tasks), IsInjective(q), NEW p \in 1..Len(q)
  PROVE  /\ Without(q, p) \in Seq(Tasks) /\ Len(Without(q, p)) = Len(q) - 1
         /\ IsInjective(Without(q, p))
         /\ Range(Without(q, p)) = Range(q) \ {q[p]}
         /\ \A i \in Nat : At(Without(q, p), i) = IF i < p THEN At(q, i) ELSE At(q, i + 1)
<1> DEFINE m == Len(q)
           r == Without(q, p)
<1>1. m \in Nat /\ m - 1 \in Nat /\ p \in Nat /\ p >= 1 /\ p <= m /\ DOMAIN q = 1..m
      /\ \A k \in 1..m : q[k] \in Tasks
  OBVIOUS
<1>2. r \in [1..m - 1 -> Tasks]
  <2>1. ASSUME NEW i \in 1..m - 1
        PROVE  (IF i < p THEN q[i] ELSE q[i + 1]) \in Tasks
    <3>1. i \in 1..m /\ i + 1 \in 1..m
      BY <1>1
    <3> QED BY <1>1, <3>1
  <2> QED BY <2>1 DEF Without
<1>3. r \in Seq(Tasks) /\ Len(r) = m - 1 /\ DOMAIN r = 1..m - 1
  <2> HIDE DEF m, r
  <2>1. \A n \in Nat : \A f \in [1..n -> Tasks] :
          f \in Seq(Tasks) /\ Len(f) = n /\ DOMAIN f = 1..n
    OBVIOUS
  <2> QED BY <1>1, <1>2, <2>1
<1>4. \A i \in 1..m - 1 : r[i] = IF i < p THEN q[i] ELSE q[i + 1]
  BY DEF Without
<1>5. \A i \in Nat : At(r, i) = IF i < p THEN At(q, i) ELSE At(q, i + 1)
  <2> SUFFICES ASSUME NEW i \in Nat
               PROVE  At(r, i) = IF i < p THEN At(q, i) ELSE At(q, i + 1)
    OBVIOUS
  <2> HIDE DEF m, r
  <2>1. CASE i \in 1..m - 1
    <3>1. i \in 1..m /\ i + 1 \in 1..m
      BY <1>1, <2>1
    <3> QED BY <1>3, <1>4, <2>1, <3>1 DEF At, m
  <2>2. CASE i = 0
    BY <1>1, <1>3, <2>2 DEF At, m
  <2>3. CASE i >= m /\ i # 0
    <3>1. ~(i < p) /\ i \notin 1..m - 1 /\ i + 1 \notin 1..m
      BY <1>1, <2>3
    <3> QED BY <1>3, <3>1 DEF At, m
  <2> QED BY <1>1, <2>1, <2>2, <2>3
<1>6. IsInjective(r)
  <2> SUFFICES ASSUME NEW i \in 1..m - 1, NEW j \in 1..m - 1, r[i] = r[j]
               PROVE  i = j
    BY <1>3 DEF IsInjective
  <2> DEFINE a == IF i < p THEN i ELSE i + 1
             b == IF j < p THEN j ELSE j + 1
  <2>1. a \in 1..m /\ b \in 1..m /\ r[i] = q[a] /\ r[j] = q[b]
    BY <1>1, <1>4
  <2>2. a = b
    BY <1>1, <2>1 DEF IsInjective
  <2> QED BY <1>1, <2>2
<1>7. Range(r) = Range(q) \ {q[p]}
  <2>1. ASSUME NEW i \in 1..m - 1 PROVE r[i] \in Range(q) \ {q[p]}
    <3> DEFINE a == IF i < p THEN i ELSE i + 1
    <3>1. a \in 1..m /\ r[i] = q[a] /\ a # p
      BY <1>1, <1>4
    <3>2. q[a] # q[p]
      BY <1>1, <3>1 DEF IsInjective
    <3> QED BY <1>1, <3>1, <3>2 DEF Range
  <2>2. ASSUME NEW x \in Range(q) \ {q[p]} PROVE x \in Range(r)
    <3>1. PICK a \in 1..m : q[a] = x /\ a # p
      BY <1>1 DEF Range
    <3> DEFINE i == IF a < p THEN a ELSE a - 1
    <3>2. i \in 1..m - 1 /\ r[i] = q[a]
      <4>1. CASE a < p
        <5>1. i = a /\ i \in 1..m - 1
          BY <1>1, <4>1
        <5> QED BY <1>4, <4>1, <5>1
      <4>2. CASE a > p
        <5>1. i = a - 1 /\ i \in 1..m - 1 /\ ~(i < p) /\ i + 1 = a
          BY <1>1, <4>2
        <5> QED BY <1>4, <5>1
      <4> QED BY <1>1, <3>1, <4>1, <4>2
    <3> QED BY <1>3, <3>1, <3>2 DEF Range
  <2> QED BY <1>3, <2>1, <2>2 DEF Range
<1> QED BY <1>3, <1>5, <1>6, <1>7

(* Cut, on the task at position p.                                         *)
LEMMA CutLinks ==
  ASSUME NEW q \in Seq(Tasks), IsInjective(q), NEW p \in 1..Len(q),
         NEW h, NEW l, NEW n, Links(h, l, n, q),
         NEW h2, h2 = IF At(q, p - 1) = NoTask THEN n[q[p]] ELSE h,
         NEW l2, l2 = IF l = q[p] THEN At(q, p - 1) ELSE l,
         NEW n2, \A u \in Tasks \ {q[p]} :
                   n2[u] = IF u = At(q, p - 1) THEN n[q[p]] ELSE n[u]
  PROVE  /\ Links(h2, l2, n2, Without(q, p))
         /\ \A u \in Tasks \ Range(q) : n2[u] = n[u]
<1> DEFINE m == Len(q)
           r == Without(q, p)
           prev == At(q, p - 1)
<1>1. /\ m \in Nat /\ m - 1 \in Nat /\ p \in Nat /\ p >= 1 /\ p <= m /\ p - 1 \in Nat
      /\ p + 1 \in Nat /\ \A k \in 1..m : q[k] \in Tasks /\ At(q, k) = q[k]
      /\ NoTask \notin Tasks /\ q[p] \in Tasks
  BY Positions
<1>2. /\ Len(r) = m - 1
      /\ \A i \in Nat : At(r, i) = IF i < p THEN At(q, i) ELSE At(q, i + 1)
  BY WithoutAt
<1>3. n[q[p]] = At(q, p + 1) /\ h = At(q, 1) /\ l = At(q, m)
      /\ \A i \in 1..m : n[q[i]] = At(q, i + 1)
  BY DEF Links
<1>4. \A i, j \in 1..m : q[i] = q[j] => i = j
  BY Positions DEF IsInjective
<1>5. prev # q[p] /\ (prev = NoTask <=> p = 1)
  <2>1. CASE p = 1
    BY <1>1, <2>1, Positions
  <2>2. CASE p # 1
    <3>1. p - 1 \in 1..m /\ p - 1 # p
      BY <1>1, <2>2
    <3>2. prev = q[p - 1] /\ prev \in Tasks
      BY <1>1, <3>1
    <3> QED BY <1>1, <1>4, <2>2, <3>1, <3>2
  <2> QED BY <2>1, <2>2
<1>6. \A u \in Tasks \ {q[p]} : n2[u] = IF u = prev THEN n[q[p]] ELSE n[u]
  OBVIOUS
<1> HIDE DEF m, r, prev
<1>7. (IF prev = NoTask THEN n[q[p]] ELSE h) = At(r, 1)
  <2>1. 1 \in Nat /\ (1 < p <=> p # 1)
    BY <1>1
  <2>2. At(r, 1) = IF p = 1 THEN At(q, 1 + 1) ELSE At(q, 1)
    BY <1>2, <2>1
  <2> QED BY <1>3, <1>5, <2>2
<1>8. (IF l = q[p] THEN prev ELSE l) = At(r, m - 1)
  <2>1. m \in 1..m /\ p \in 1..m /\ l = q[m]
    BY <1>1, <1>3
  <2>2. l = q[p] <=> p = m
    BY <1>4, <2>1
  <2>3. CASE p = m
    BY <1>1, <1>2, <2>2, <2>3 DEF prev
  <2>4. CASE p # m
    <3>1. ~(m - 1 < p) /\ m - 1 + 1 = m
      BY <1>1, <2>4
    <3>2. At(r, m - 1) = At(q, m)
      BY <1>1, <1>2, <3>1
    <3> QED BY <1>3, <2>2, <2>4, <3>2
  <2> QED BY <2>3, <2>4
<1>9. ASSUME NEW i \in 1..m - 1 PROVE n2[r[i]] = At(r, i + 1)
  <2>1. /\ i \in Nat /\ i + 1 \in Nat /\ i \in 1..m /\ i + 1 \in 1..m
        /\ r[i] = At(r, i)
    BY <1>1, <1>2 DEF At
  <2>2. CASE i < p
    <3>1. r[i] = q[i] /\ i # p /\ r[i] \in Tasks /\ r[i] # q[p]
      <4>1. r[i] = At(q, i) /\ i # p
        <5>1. i # p
          BY <1>1, <2>1, <2>2
        <5> QED BY <1>2, <2>1, <2>2, <5>1
      <4>2. r[i] = q[i] /\ q[i] \in Tasks
        BY <1>1, <2>1, <4>1
      <4>3. q[i] # q[p]
        BY <1>1, <1>4, <2>1, <4>1
      <4> QED BY <4>1, <4>2, <4>3
    <3>2. CASE i = p - 1
      <4>1. r[i] = prev
        BY <1>1, <2>1, <3>1, <3>2 DEF prev
      <4>2. ~(i + 1 < p) /\ i + 1 + 1 = p + 1
        BY <1>1, <3>2
      <4>3. At(r, i + 1) = At(q, p + 1)
        BY <1>2, <2>1, <4>2
      <4> QED BY <1>3, <1>6, <3>1, <4>1, <4>3
    <3>3. CASE i # p - 1
      <4>1. r[i] # prev /\ i + 1 < p
        <5>1. p - 1 \in 1..m /\ i + 1 < p
          BY <1>1, <2>1, <2>2, <3>3
        <5>2. prev = q[p - 1]
          BY <1>1, <5>1 DEF prev
        <5> QED BY <1>4, <2>1, <3>1, <3>3, <5>1, <5>2
      <4>2. At(r, i + 1) = At(q, i + 1)
        BY <1>2, <2>1, <4>1
      <4> QED BY <1>3, <1>6, <2>1, <3>1, <4>1, <4>2
    <3> QED BY <3>2, <3>3
  <2>3. CASE ~(i < p)
    <3>1. r[i] = q[i + 1] /\ i + 1 # p /\ i + 1 # p - 1 /\ ~(i + 1 < p)
      <4>1. r[i] = At(q, i + 1)
        BY <1>2, <2>1, <2>3
      <4> QED BY <1>1, <2>1, <2>3, <4>1
    <3>2. r[i] \in Tasks /\ r[i] # q[p]
      BY <1>1, <1>4, <2>1, <3>1
    <3>3. r[i] # prev
      <4>1. CASE p - 1 \in 1..m
        BY <1>1, <1>4, <2>1, <3>1, <4>1 DEF prev
      <4>2. CASE p - 1 \notin 1..m
        BY <1>1, <3>2, <4>2 DEF prev, At, m
      <4> QED BY <4>1, <4>2
    <3>4. At(r, i + 1) = At(q, i + 1 + 1)
      BY <1>2, <2>1, <3>1
    <3> QED BY <1>3, <1>6, <2>1, <3>1, <3>2, <3>3, <3>4
  <2> QED BY <2>2, <2>3
<1>10. ASSUME NEW u \in Tasks \ Range(q) PROVE n2[u] = n[u]
  <2>1. u # q[p]
    BY <1>1 DEF Range, m
  <2>2. u # prev
    <3>1. prev = NoTask \/ prev \in Range(q)
      BY <1>1, Positions DEF prev, Range, At, m
    <3> QED BY <1>1, <3>1
  <2> QED BY <1>6, <2>1, <2>2
<1> QED BY <1>2, <1>7, <1>8, <1>9, <1>10 DEF Links, prev, r

(* enqueue_task_locked, with a task that is not on the list.               *)
LEMMA LinkLinks ==
  ASSUME NEW q \in Seq(Tasks), IsInjective(q), NEW t \in Tasks, t \notin Range(q),
         NEW h, NEW l, NEW n, Links(h, l, n, q),
         NEW h2, h2 = IF l = NoTask THEN t ELSE h,
         NEW n2, \A u \in Tasks : n2[u] = IF u = l THEN t
                                           ELSE IF u = t THEN NoTask ELSE n[u]
  PROVE  /\ Links(h2, t, n2, Append(q, t))
         /\ \A u \in Tasks \ (Range(q) \cup {t}) : n2[u] = n[u]
<1> DEFINE m == Len(q)
           r == Append(q, t)
<1>1. /\ m \in Nat /\ \A k \in 1..m : q[k] \in Tasks /\ At(q, k) = q[k] /\ q[k] \in Range(q)
      /\ NoTask \notin Tasks /\ DOMAIN q = 1..m
  BY Positions DEF Range
<1>2. /\ Len(r) = m + 1 /\ r \in Seq(Tasks)
      /\ \A k \in 1..m : r[k] = q[k]
      /\ r[m + 1] = t
  BY AppendProperties
<1>3. \A i, j \in 1..m : q[i] = q[j] => i = j
  BY <1>1 DEF IsInjective
<1>4. h = At(q, 1) /\ l = At(q, m) /\ \A i \in 1..m : n[q[i]] = At(q, i + 1)
  BY DEF Links
<1>5. l # t
  BY <1>1, <1>4 DEF At
<1>6. \A u \in Tasks : n2[u] = IF u = l THEN t ELSE IF u = t THEN NoTask ELSE n[u]
  OBVIOUS
<1> HIDE DEF m, r
<1>7. \A k \in 1..m + 1 : At(r, k) = r[k]
  BY <1>2 DEF At
<1>8. At(r, m + 2) = NoTask
  BY <1>1, <1>2 DEF At
<1>9. (IF l = NoTask THEN t ELSE h) = At(r, 1)
  <2>1. CASE m = 0
    <3>1. l = NoTask
      BY <1>4, <2>1 DEF At, m
    <3> QED BY <1>2, <1>7, <2>1, <3>1
  <2>2. CASE m # 0
    <3>1. m \in 1..m /\ 1 \in 1..m /\ 1 \in 1..m + 1
      BY <1>1, <2>2
    <3>2. l # NoTask
      BY <1>1, <1>4, <3>1
    <3> QED BY <1>1, <1>2, <1>4, <1>7, <3>1, <3>2
  <2> QED BY <2>1, <2>2
<1>10. t = At(r, m + 1)
  BY <1>1, <1>2, <1>7
<1>11. ASSUME NEW i \in 1..m + 1 PROVE n2[r[i]] = At(r, i + 1)
  <2>1. CASE i = m + 1
    BY <1>1, <1>2, <1>5, <1>6, <1>8, <2>1
  <2>2. CASE i = m
    <3>1. i \in 1..m /\ r[i] = l /\ r[i] \in Tasks
      BY <1>1, <1>2, <1>4, <2>2
    <3> QED BY <1>6, <1>10, <2>2, <3>1
  <2>3. CASE i < m
    <3>1. i \in 1..m /\ i + 1 \in 1..m /\ i + 1 \in 1..m + 1 /\ m \in 1..m /\ i # m
      BY <1>1, <2>3
    <3>2. r[i] = q[i] /\ r[i] \in Tasks /\ r[i] # t /\ r[i] # l
      BY <1>1, <1>2, <1>3, <1>4, <3>1
    <3> QED BY <1>1, <1>2, <1>4, <1>6, <1>7, <3>1, <3>2
  <2> QED BY <1>1, <2>1, <2>2, <2>3
<1>12. ASSUME NEW u \in Tasks \ (Range(q) \cup {t}) PROVE n2[u] = n[u]
  <2>1. u # l
    BY <1>1, <1>4 DEF At, m
  <2> QED BY <1>6, <2>1
<1> QED BY <1>2, <1>9, <1>10, <1>11, <1>12 DEF Links, r

-----------------------------------------------------------------------------
(* What is known of Unlink beyond UnlinkLeaves: the order, and that there  *)
(* is one list only.                                                       *)
LEMMA UnlinkOrder ==
  ASSUME NEW q \in Seq(Tasks), IsInjective(q), NEW S, NEW r \in Unlink(q, S),
         NEW i \in 1..Len(r), NEW j \in 1..Len(r),
         NEW a \in 1..Len(q), NEW b \in 1..Len(q), q[a] = r[i], q[b] = r[j]
  PROVE  i < j <=> a < b
<1>1. /\ r \in Seq(Tasks) /\ Len(r) \in Nat /\ Len(q) \in Nat
      /\ DOMAIN r = 1..Len(r) /\ DOMAIN q = 1..Len(q)
  BY UnlinkLeaves, Positions
<1>2. \A c, d \in 1..Len(q) : q[c] = q[d] => c = d
  BY <1>1 DEF IsInjective
<1>3. ASSUME NEW x \in 1..Len(r), NEW y \in 1..Len(r), x < y
      PROVE  \E k, l \in 1..Len(q) : k < l /\ q[k] = r[x] /\ q[l] = r[y]
  <2>1. \A c, d \in DOMAIN r : c < d =>
          \E k, l \in DOMAIN q : k < l /\ q[k] = r[c] /\ q[l] = r[d]
    BY DEF Unlink
  <2>2. x \in DOMAIN r /\ y \in DOMAIN r
    BY <1>1
  <2>3. PICK k \in DOMAIN q, l \in DOMAIN q : k < l /\ q[k] = r[x] /\ q[l] = r[y]
    BY <1>3, <2>1, <2>2, Zenon
  <2> QED BY <1>1, <2>3
<1>4. ASSUME i < j PROVE a < b
  <2>1. PICK k, l \in 1..Len(q) : k < l /\ q[k] = r[i] /\ q[l] = r[j]
    BY <1>3, <1>4
  <2>2. k = a /\ l = b
    BY <1>2, <2>1
  <2> QED BY <2>1, <2>2
<1>5. ASSUME j < i PROVE b < a
  <2>1. PICK k, l \in 1..Len(q) : k < l /\ q[k] = r[j] /\ q[l] = r[i]
    BY <1>3, <1>5
  <2>2. k = b /\ l = a
    BY <1>2, <2>1
  <2> QED BY <2>1, <2>2
<1>6. ASSUME i = j PROVE a = b
  BY <1>2, <1>6
<1> QED BY <1>1, <1>4, <1>5, <1>6

LEMMA UnlinkNothing ==
  ASSUME NEW q \in Seq(Tasks)
  PROVE  q \in Unlink(q, {})
<1>1. Len(q) \in Nat /\ DOMAIN q = 1..Len(q) /\ q \in [1..Len(q) -> Range(q)]
  BY DEF Range
<1>2. Len(q) \in 0..Len(q)
  BY <1>1
<1> QED BY <1>1, <1>2 DEF Unlink

(* Cutting one more.                                                       *)
LEMMA WithoutUnlink ==
  ASSUME NEW q \in Seq(Tasks), IsInjective(q), NEW S, NEW r \in Unlink(q, S),
         NEW p \in 1..Len(r)
  PROVE  Without(r, p) \in Unlink(q, S \cup {r[p]})
<1> DEFINE m == Len(r)
           s == Without(r, p)
<1>1. r \in Seq(Tasks) /\ IsInjective(r) /\ Range(r) = Range(q) \ S /\ m <= Len(q)
  BY UnlinkLeaves
<1>2. m \in Nat /\ Len(q) \in Nat /\ DOMAIN r = 1..m /\ DOMAIN q = 1..Len(q)
  BY <1>1, Positions
<1>3. /\ s \in Seq(Tasks) /\ Len(s) = m - 1 /\ IsInjective(s)
      /\ Range(s) = Range(r) \ {r[p]} /\ DOMAIN s = 1..m - 1
  <2>1. /\ s \in Seq(Tasks) /\ Len(s) = m - 1 /\ IsInjective(s)
        /\ Range(s) = Range(r) \ {r[p]}
    BY <1>1, WithoutAt
  <2>2. DOMAIN s = 1..Len(s)
    BY <2>1, Positions
  <2> QED BY <2>1, <2>2
<1>4. \A i \in 1..m - 1 : s[i] = IF i < p THEN r[i] ELSE r[i + 1]
  BY DEF Without
<1> HIDE DEF m, s
<1>5. s \in [1..m - 1 -> Range(q)] /\ m - 1 \in 0..Len(q)
  <2>1. s \in [1..m - 1 -> Range(s)]
    <3>1. \A f \in Seq(Tasks) : f \in [DOMAIN f -> Range(f)]
      BY DEF Range
    <3> QED BY <1>3, <3>1
  <2>2. Range(s) \subseteq Range(q)
    BY <1>1, <1>3
  <2>3. p \in 1..m
    BY DEF m
  <2> QED BY <1>1, <1>2, <2>1, <2>2, <2>3
<1>6. Range(s) = Range(q) \ (S \cup {r[p]})
  BY <1>1, <1>3
<1>7. ASSUME NEW i \in 1..m - 1, NEW j \in 1..m - 1, i < j
      PROVE  \E k, l \in 1..Len(q) : k < l /\ q[k] = s[i] /\ q[l] = s[j]
  <2> DEFINE a == IF i < p THEN i ELSE i + 1
             b == IF j < p THEN j ELSE j + 1
  <2>0. p \in 1..m
    BY DEF m
  <2>1. a \in 1..m /\ b \in 1..m /\ a < b /\ s[i] = r[a] /\ s[j] = r[b]
    BY <1>2, <1>4, <1>7, <2>0
  <2>2. \A x, y \in DOMAIN r : x < y =>
          \E k, l \in DOMAIN q : k < l /\ q[k] = r[x] /\ q[l] = r[y]
    BY DEF Unlink
  <2>3. a \in DOMAIN r /\ b \in DOMAIN r
    BY <1>2, <2>1
  <2>4. \E k, l \in DOMAIN q : k < l /\ q[k] = r[a] /\ q[l] = r[b]
    <3> HIDE DEF a, b
    <3> QED BY <2>1, <2>2, <2>3, Zenon
  <2>5. \E k, l \in DOMAIN q : k < l /\ q[k] = s[i] /\ q[l] = s[j]
    <3> HIDE DEF a, b, s
    <3> QED BY <2>1, <2>4, Zenon
  <2>6. DOMAIN q = 1..Len(q)
    BY <1>2
  <2> QED BY <2>5, <2>6, Zenon
<1>8. s \in UNION {[1..n -> Range(q)] : n \in 0..Len(q)}
  BY <1>5
<1>9. ASSUME NEW i \in DOMAIN s, NEW j \in DOMAIN s, i < j
      PROVE  \E k, l \in DOMAIN q : k < l /\ q[k] = s[i] /\ q[l] = s[j]
  <2>1. PICK k \in 1..Len(q), l \in 1..Len(q) : k < l /\ q[k] = s[i] /\ q[l] = s[j]
    <3>1. i \in 1..m - 1 /\ j \in 1..m - 1
      BY <1>3
    <3> QED BY <1>7, <1>9, <3>1, Zenon
  <2> QED BY <1>2, <2>1
<1>10. s \in Unlink(q, S \cup {r[p]})
  BY <1>6, <1>8, <1>9 DEF Unlink
<1> QED BY <1>10 DEF s

(* By the first position at which two such lists would differ.             *)
LEMMA UnlinkUnique ==
  ASSUME NEW q \in Seq(Tasks), IsInjective(q), NEW S,
         NEW r \in Unlink(q, S), NEW s \in Unlink(q, S)
  PROVE  r = s
<1>1. /\ r \in Seq(Tasks) /\ s \in Seq(Tasks) /\ IsInjective(r) /\ IsInjective(s)
      /\ Range(r) = Range(q) \ S /\ Range(s) = Range(r)
  <2>1. r \in Seq(Tasks) /\ IsInjective(r) /\ Range(r) = Range(q) \ S
    BY UnlinkLeaves
  <2>2. s \in Seq(Tasks) /\ IsInjective(s) /\ Range(s) = Range(q) \ S
    BY UnlinkLeaves
  <2> QED BY <2>1, <2>2
<1>2. Len(r) = Len(s)
  BY <1>1, InjectiveLength
<1> DEFINE m == Len(r)
<1>3. /\ m \in Nat /\ DOMAIN r = 1..m /\ DOMAIN s = 1..m
      /\ Len(q) \in Nat /\ DOMAIN q = 1..Len(q)
  BY <1>1, <1>2, Positions
<1> SUFFICES ASSUME NEW d \in 1..m, r[d] # s[d] PROVE FALSE
  BY <1>1, <1>2, <1>3
<1> DEFINE D == { i \in Nat : i \in 1..m /\ r[i] # s[i] }
<1>4. PICK i \in D : \A j \in D : ~(j < i)
  <2>1. D \subseteq Nat /\ D # {} /\ d \in D
    OBVIOUS
  <2>2. \E x \in D : \A y \in D : <<y, x>> \notin OpToRel(<, Nat)
    <3> HIDE DEF D
    <3> QED BY <2>1, NatLessThanWellFounded, WFMin
  <2> QED BY <2>1, <2>2 DEF OpToRel
<1>5. i \in 1..m /\ r[i] # s[i] /\ \A j \in 1..m : j < i => r[j] = s[j]
  BY <1>4
<1>6. /\ \A x \in 1..m : \E y \in 1..m : s[y] = r[x]
      /\ \A x \in 1..m : \E y \in 1..m : r[y] = s[x]
      /\ \A x \in 1..m : \E a \in 1..Len(q) : q[a] = r[x]
      /\ \A x \in 1..m : \E a \in 1..Len(q) : q[a] = s[x]
  BY <1>1, <1>3 DEF Range
<1>7. /\ \A x, y \in 1..m : r[x] = r[y] => x = y
      /\ \A x, y \in 1..m : s[x] = s[y] => x = y
  BY <1>1, <1>3 DEF IsInjective
<1>8. PICK u \in 1..m, v \in 1..m : s[u] = r[i] /\ r[v] = s[i]
  BY <1>5, <1>6
<1>9. i < u /\ i < v
  BY <1>3, <1>5, <1>7, <1>8
<1>10. PICK a \in 1..Len(q), b \in 1..Len(q) : q[a] = r[i] /\ q[b] = s[i]
  BY <1>5, <1>6
<1>11. a < b
  BY <1>2, <1>5, <1>8, <1>9, <1>10, UnlinkOrder
<1>12. b < a
  BY <1>2, <1>5, <1>8, <1>9, <1>10, UnlinkOrder
<1> QED BY <1>11, <1>12

-----------------------------------------------------------------------------
(* The inductive invariant.                                                *)

WalkRecord ==
  [by: {"nobody", "shells", "programs", "cancel", "destroy"},
   client: Clients \cup {NoClient},
   cursor: Tasks \cup {NoTask}, previous: Tasks \cup {NoTask},
   best: Tasks \cup {NoTask}, best_prev: Tasks \cup {NoTask},
   best_alt: Tasks \cup {NoTask}, best_alt_prev: Tasks \cup {NoTask},
   to_free: Tasks \cup {NoTask}, freed: SUBSET Tasks]

WalkTypeOK ==
  next \in [Tasks -> Tasks \cup {NoTask}] /\ walk \in WalkRecord

(* ListIsQueue, in terms of At.                                            *)
Whole ==
  walk.by # "cancel" =>
    /\ Links(waiting_head, waiting_tail, next, waiting)
    /\ \A t \in Tasks \ Queued : next[t] = NoTask

(* The first loop of dequeue_next_task_locked is at position k, and has    *)
(* passed programs only.                                                   *)
Searching ==
  walk.by = "shells" =>
    /\ MayDispatch
    /\ \E k \in 1..Len(waiting) + 1 :
         /\ walk.cursor = At(waiting, k)
         /\ walk.previous = At(waiting, k - 1)
         /\ \A i \in 1..k - 1 : task[waiting[i]].type = "program"

Seen(k) == { waiting[i] : i \in 1..k }

(* Task t, if it is one, is linked behind prev.                            *)
Behind(t, prev) ==
  t # NoTask => \E i \in 1..Len(waiting) : t = waiting[i] /\ prev = At(waiting, i - 1)

Leads(t, S) == IF S = {} THEN t = NoTask ELSE Shortest(t, S)

(* choose_shortest_program_locked is at position k, and its candidates are  *)
(* the best two of the programs it has seen.                               *)
Ranking ==
  walk.by = "programs" =>
    /\ MayDispatch
    /\ \A t \in Queued : task[t].type = "program"
    /\ \E k \in 1..Len(waiting) + 1 :
         /\ walk.cursor = At(waiting, k)
         /\ walk.previous = At(waiting, k - 1)
         /\ Leads(walk.best, Seen(k - 1))
         /\ Leads(walk.best_alt, Seen(k - 1) \ {walk.best})
    /\ Behind(walk.best, walk.best_prev)
    /\ Behind(walk.best_alt, walk.best_alt_prev)

Earlier(t, u) ==
  \E i, j \in DOMAIN waiting : i < j /\ waiting[i] = t /\ waiting[j] = u

(* The pass of a cancellation over what is kept of the list is at position  *)
(* p: what comes before is of other clients, what has been removed was of  *)
(* this one and linked earlier than what comes after.                      *)
Passed(kept, removed, p) ==
  /\ walk.cursor = At(kept, p)
  /\ walk.previous = At(kept, p - 1)
  /\ \A i \in 1..p - 1 : task[kept[i]].client # walk.client
  /\ \A t \in removed :
       /\ task[t].client = walk.client
       /\ \A i \in p..Len(kept) : Earlier(t, kept[i])

(* The pointers n from a on visit the tasks of S, in the order of f.       *)
Hangs(a, n, f, S) ==
  /\ IsInjective(f) /\ Range(f) = S
  /\ a = At(f, 1)
  /\ \A i \in 1..Len(f) : n[f[i]] = At(f, i + 1)

(* What is kept is the list, what is removed hangs on to_free or is freed. *)
Partition(kept, removed) ==
  /\ Links(waiting_head, waiting_tail, next, kept)
  /\ \E p \in 1..Len(kept) + 1 : Passed(kept, removed, p)
  /\ walk.freed \subseteq removed
  /\ \E n \in Nat : \E f \in [1..n -> Tasks] :
       Hangs(walk.to_free, next, f, removed \ walk.freed)
  /\ \A t \in Tasks \ (Queued \ walk.freed) : next[t] = NoTask

Cancelling ==
  walk.by = "cancel" =>
    /\ pc # "destroyed" /\ walk.client \in Clients
    /\ \E removed \in SUBSET Queued : \E kept \in Unlink(waiting, removed) :
         Partition(kept, removed)

Destroying ==
  walk.by = "destroy" =>
    /\ pc = "exited"
    /\ \E k \in 1..Len(waiting) + 1 :
         walk.cursor = At(waiting, k) /\ walk.freed = Seen(k - 1)

WInv ==
  IInv /\ WalkTypeOK /\ Whole /\ Searching /\ Ranking /\ Cancelling /\ Destroying
-----------------------------------------------------------------------------
(* What WInv says at once.                                                 *)
LEMMA ListFacts ==
  ASSUME WInv
  PROVE  /\ waiting \in Seq(Tasks) /\ IsInjective(waiting)
         /\ Len(waiting) \in Nat /\ DOMAIN waiting = 1..Len(waiting)
         /\ Queued = Range(waiting) /\ Queued \subseteq Tasks
         /\ \A k \in 1..Len(waiting) : waiting[k] \in Queued /\ waiting[k] \in Tasks
         /\ \A t \in Queued : \E k \in 1..Len(waiting) : waiting[k] = t
         /\ \A i, j \in 1..Len(waiting) : waiting[i] = waiting[j] => i = j
         /\ NoTask \notin Tasks /\ task \in [Tasks -> TaskRecord]
         /\ next \in [Tasks -> Tasks \cup {NoTask}]
         /\ walk.cursor \in Tasks \cup {NoTask} /\ walk.to_free \in Tasks \cup {NoTask}
<1>1. waiting \in Seq(Tasks) /\ task \in [Tasks -> TaskRecord] /\ IsInjective(waiting)
  BY DEF WInv, IInv, TypeOK, QueueHoldsWaitingTasks
<1>2. Len(waiting) \in Nat /\ DOMAIN waiting = 1..Len(waiting) /\ NoTask \notin Tasks
      /\ \A k \in 1..Len(waiting) : waiting[k] \in Tasks
  BY <1>1, Positions
<1>3. Queued = Range(waiting)
  BY DEF Queued
<1>4. Queued = { waiting[k] : k \in 1..Len(waiting) }
  BY <1>2, <1>3 DEF Range
<1>5. \A i, j \in 1..Len(waiting) : waiting[i] = waiting[j] => i = j
  BY <1>1, <1>2 DEF IsInjective
<1>6. next \in [Tasks -> Tasks \cup {NoTask}] /\ walk.cursor \in Tasks \cup {NoTask}
      /\ walk.to_free \in Tasks \cup {NoTask}
  BY DEF WInv, WalkTypeOK, WalkRecord
<1> QED BY <1>1, <1>2, <1>3, <1>4, <1>5, <1>6

LEMMA WalkEnds ==
  ASSUME NEW q \in Seq(Tasks), NEW k \in 1..Len(q) + 1
  PROVE  /\ At(q, k) = NoTask <=> k = Len(q) + 1
         /\ At(q, k) # NoTask => k \in 1..Len(q) /\ At(q, k) = q[k]
BY Positions

LEMMA NotBehindItself ==
  ASSUME NEW q \in Seq(Tasks), IsInjective(q), NEW p \in 1..Len(q)
  PROVE  q[p] \in Tasks /\ At(q, p - 1) # q[p]
<1>1. /\ q[p] \in Tasks /\ NoTask \notin Tasks /\ Len(q) \in Nat
      /\ DOMAIN q = 1..Len(q)
  BY Positions
<1>2. p \in 1..Len(q) /\ p - 1 \in Int /\ p - 1 # p
  BY <1>1
<1>3. CASE p - 1 \in 1..Len(q)
  <2>1. q[p - 1] # q[p]
    BY <1>1, <1>2, <1>3 DEF IsInjective
  <2> QED BY <1>1, <1>3, <2>1 DEF At
<1>4. CASE p - 1 \notin 1..Len(q)
  BY <1>1, <1>4 DEF At
<1> QED BY <1>3, <1>4

(* A search takes the task at position p off the list.                     *)
LEMMA TakeStep ==
  ASSUME WInv, walk.by # "cancel", NEW p \in 1..Len(waiting),
         NEW t, t = waiting[p], NEW prev, prev = At(waiting, p - 1),
         waiting' \in Unlink(waiting, {t}), Cut(t, prev, NoTask)
  PROVE  /\ Links(waiting_head', waiting_tail', next', waiting')
         /\ \A u \in Tasks \ Range(waiting') : next'[u] = NoTask
         /\ next' \in [Tasks -> Tasks \cup {NoTask}]
<1>1. waiting \in Seq(Tasks) /\ IsInjective(waiting) /\ Range(waiting) = Queued
      /\ t \in Tasks /\ next \in [Tasks -> Tasks \cup {NoTask}]
  BY ListFacts
<1>2. Without(waiting, p) \in Unlink(waiting, {} \cup {t})
  BY <1>1, UnlinkNothing, WithoutUnlink
<1>3. waiting' = Without(waiting, p)
  BY <1>1, <1>2, UnlinkUnique
<1>4. Links(waiting_head, waiting_tail, next, waiting)
      /\ \A u \in Tasks \ Queued : next[u] = NoTask
  BY DEF WInv, Whole
<1>5. /\ waiting_head' = IF prev = NoTask THEN next[t] ELSE waiting_head
      /\ waiting_tail' = IF waiting_tail = t THEN prev ELSE waiting_tail
      /\ next' \in [Tasks -> Tasks \cup {NoTask}]
      /\ next'[t] = NoTask
      /\ \A u \in Tasks \ {t} : next'[u] = IF u = prev THEN next[t] ELSE next[u]
  <2>1. t # prev
    BY <1>1, NotBehindItself
  <2>2. /\ waiting_head' = IF prev = NoTask THEN next[t] ELSE waiting_head
        /\ waiting_tail' = IF waiting_tail = t THEN prev ELSE waiting_tail
        /\ next' = [u \in Tasks |-> CASE u = t    -> NoTask
                                      [] u = prev -> next[t]
                                      [] OTHER    -> next[u]]
    BY DEF Cut
  <2>3. \A u \in Tasks : next'[u] = IF u = t THEN NoTask
                                    ELSE IF u = prev THEN next[t] ELSE next[u]
    BY <2>1, <2>2
  <2>4. DOMAIN next' = Tasks /\ next' = [u \in DOMAIN next' |-> next'[u]]
    BY <2>2
  <2>5. \A u \in Tasks : next'[u] \in Tasks \cup {NoTask}
    BY <1>1, <2>1, <2>3
  <2> QED BY <1>1, <2>2, <2>3, <2>4, <2>5
<1>6. /\ Links(waiting_head', waiting_tail', next', Without(waiting, p))
      /\ \A u \in Tasks \ Range(waiting) : next'[u] = next[u]
  <2>1. \A u \in Tasks \ {waiting[p]} :
          next'[u] = IF u = At(waiting, p - 1) THEN next[waiting[p]] ELSE next[u]
    BY <1>5
  <2> QED BY <1>1, <1>4, <1>5, <2>1, CutLinks
<1>7. Range(waiting') = Range(waiting) \ {t}
  BY <1>1, <1>3, WithoutAt
<1>8. ASSUME NEW u \in Tasks \ Range(waiting') PROVE next'[u] = NoTask
  BY <1>1, <1>4, <1>5, <1>6, <1>7
<1> QED BY <1>3, <1>5, <1>6, <1>8

(* What choose_shortest_program_locked ranks first stays first, or the new *)
(* program is.                                                             *)
LEMMA LeadsOn ==
  ASSUME task \in [Tasks -> TaskRecord], NEW S \in SUBSET Tasks,
         NEW t \in Tasks, t \notin S, NEW b, Leads(b, S)
  PROVE  Leads(IF Better(t, b) THEN t ELSE b, S \cup {t})
<1>1. NoTask \notin Tasks /\ Tasks \subseteq Int /\ \A u \in Tasks : task[u].remaining \in Int
  BY DEF NoTask, Tasks, TaskRecord
<1>2. CASE S = {}
  BY <1>2 DEF Leads, Shortest, Better
<1>3. CASE S # {}
  <2>1. b \in S /\ \A u \in S \ {b} : Before(b, u)
    BY <1>3 DEF Leads, Shortest
  <2>2. b \in Tasks /\ b # t /\ b # NoTask
    BY <1>1, <2>1
  <2>3. Better(t, b) <=> Before(t, b)
    BY <2>2 DEF Better, Before
  <2>4. CASE Better(t, b)
    <3>1. \A u \in S : Before(t, u)
      <4>1. Before(t, b)
        BY <2>3, <2>4
      <4>2. ASSUME NEW u \in S \ {b} PROVE Before(t, u)
        <5>1. Before(b, u) /\ u \in Tasks
          BY <2>1
        <5> QED BY <1>1, <2>2, <4>1, <5>1 DEF Before
      <4> QED BY <4>1, <4>2
    <3> QED BY <2>4, <3>1 DEF Leads, Shortest
  <2>5. CASE ~Better(t, b)
    <3>1. Before(b, t)
      BY <1>1, <2>2, <2>3, <2>5 DEF Before
    <3> QED BY <2>1, <2>5, <3>1 DEF Leads, Shortest
  <2> QED BY <2>4, <2>5
<1> QED BY <1>2, <1>3

(* The step that ends a search is the dispatch of the task it has found.   *)
LEMMA TakeShellUses ==
  ASSUME WInv, TakeShell
  PROVE  \E p \in 1..Len(waiting) : \E t \in Tasks : \E prev :
           /\ t = waiting[p] /\ prev = At(waiting, p - 1)
           /\ Cut(t, prev, NoTask)
           /\ Dispatch(t)
<1>1. walk.by = "shells" /\ walk.cursor # NoTask
      /\ task[walk.cursor].type = "shell"
  BY DEF TakeShell, PriorityType
<1>2. PICK p \in 1..Len(waiting) + 1 :
         /\ walk.cursor = At(waiting, p)
         /\ walk.previous = At(waiting, p - 1)
         /\ \A i \in 1..p - 1 : task[waiting[i]].type = "program"
  BY <1>1 DEF WInv, Searching
<1>3. MayDispatch
  BY <1>1 DEF WInv, Searching
<1>4. p \in 1..Len(waiting) /\ walk.cursor = waiting[p]
  BY <1>1, <1>2, ListFacts, WalkEnds
<1> PICK t, prev : t = walk.cursor /\ prev = walk.previous
  OBVIOUS
<1>5. Cut(t, prev, NoTask) /\ StartRound(t) /\ t \in Tasks
  BY <1>4, ListFacts DEF TakeShell
<1>6. FirstShell(t)
  <2>1. \A j \in DOMAIN waiting : j < p => task[waiting[j]].type = "program"
    BY <1>2, <1>4, ListFacts
  <2> QED BY <1>1, <1>4, <2>1, ListFacts DEF FirstShell
<1>7. NextToDispatch(t)
  <2>1. t \in Queued /\ task[t].type = "shell"
    BY <1>1, <1>4, ListFacts
  <2> QED BY <1>6, <2>1 DEF NextToDispatch
<1> QED BY <1>2, <1>3, <1>4, <1>5, <1>7 DEF Dispatch

LEMMA SeenAll ==
  ASSUME WInv
  PROVE  Seen(Len(waiting)) = Queued /\ Seen(0) = {}
<1>1. Seen(Len(waiting)) = Queued
  BY ListFacts DEF Seen
<1>2. Seen(0) = {}
  BY DEF Seen
<1> QED BY <1>1, <1>2

LEMMA SeenMore ==
  ASSUME WInv, NEW k \in 1..Len(waiting)
  PROVE  /\ Seen(k) = Seen(k - 1) \cup {waiting[k]}
         /\ waiting[k] \notin Seen(k - 1) /\ Seen(k - 1) \subseteq Tasks
<1>1. \A i : i \in 1..k <=> i \in 1..k - 1 \/ i = k
  BY ListFacts
<1>2. \A i \in 1..k - 1 : i \in 1..Len(waiting) /\ i # k
  BY ListFacts
<1>3. Seen(k) = Seen(k - 1) \cup {waiting[k]}
  BY <1>1 DEF Seen
<1>4. \A i \in 1..k - 1 : waiting[i] # waiting[k] /\ waiting[i] \in Tasks
  BY <1>2, ListFacts
<1> QED BY <1>3, <1>4 DEF Seen

(* The candidates once the whole list has been looked at.                  *)
LEMMA Ranked2 ==
  ASSUME WInv, walk.by = "programs", walk.cursor = NoTask
  PROVE  /\ MayDispatch /\ Programs = Queued
         /\ \A t \in Queued : task[t].type = "program"
         /\ Leads(walk.best, Queued) /\ Leads(walk.best_alt, Queued \ {walk.best})
         /\ Behind(walk.best, walk.best_prev)
         /\ Behind(walk.best_alt, walk.best_alt_prev)
<1>1. PICK p \in 1..Len(waiting) + 1 :
         /\ walk.cursor = At(waiting, p)
         /\ Leads(walk.best, Seen(p - 1))
         /\ Leads(walk.best_alt, Seen(p - 1) \ {walk.best})
  BY DEF WInv, Ranking
<1>2. p = Len(waiting) + 1 /\ p - 1 = Len(waiting)
  BY <1>1, ListFacts, WalkEnds
<1>3. /\ MayDispatch /\ \A t \in Queued : task[t].type = "program"
      /\ Behind(walk.best, walk.best_prev) /\ Behind(walk.best_alt, walk.best_alt_prev)
  BY DEF WInv, Ranking
<1> QED BY <1>1, <1>2, <1>3, SeenAll DEF Programs

LEMMA TakeProgramUses ==
  ASSUME WInv, TakeProgram
  PROVE  \E p \in 1..Len(waiting) : \E t \in Tasks : \E prev :
           /\ t = waiting[p] /\ prev = At(waiting, p - 1)
           /\ Cut(t, prev, NoTask)
           /\ Dispatch(t)
<1> PICK t, prev : /\ t = IF UseAlternative THEN walk.best_alt ELSE walk.best
                   /\ prev = IF UseAlternative THEN walk.best_alt_prev ELSE walk.best_prev
  OBVIOUS
<1>1. /\ walk.by = "programs" /\ walk.cursor = NoTask /\ walk.best # NoTask
      /\ Cut(t, prev, NoTask) /\ StartRound(t)
  BY DEF TakeProgram
<1>2. /\ MayDispatch /\ Programs = Queued
      /\ \A u \in Queued : task[u].type = "program"
      /\ Leads(walk.best, Queued) /\ Leads(walk.best_alt, Queued \ {walk.best})
      /\ Behind(walk.best, walk.best_prev)
      /\ Behind(walk.best_alt, walk.best_alt_prev)
  BY <1>1, Ranked2
<1>3. t # NoTask
  BY <1>1 DEF UseAlternative
<1>4. PICK p \in 1..Len(waiting) : t = waiting[p] /\ prev = At(waiting, p - 1)
  BY <1>2, <1>3 DEF Behind
<1>5. t \in Tasks /\ t \in Queued /\ NoTask \notin Queued
  BY <1>4, ListFacts
<1>6. Shortest(walk.best, Queued)
  BY <1>2, <1>5 DEF Leads
<1>7. ShortestProgram(t)
  <2>1. CASE UseAlternative
    <3>1. walk.best = last_selected_task_id /\ walk.best_alt # NoTask
          /\ t = walk.best_alt
      BY <2>1 DEF UseAlternative
    <3>2. Shortest(walk.best_alt, Queued \ {walk.best})
      BY <1>2, <3>1 DEF Leads
    <3> QED BY <1>2, <1>6, <3>1, <3>2 DEF ShortestProgram
  <2>2. CASE ~UseAlternative
    <3>1. t = walk.best
      BY <2>2
    <3>2. ASSUME t = last_selected_task_id PROVE Queued = {t}
      <4>1. walk.best_alt = NoTask
        BY <2>2, <3>1, <3>2 DEF UseAlternative
      <4>2. Queued \ {t} = {}
        BY <1>2, <1>5, <3>1, <4>1 DEF Leads, Shortest
      <4> QED BY <1>5, <4>2
    <3> QED BY <1>2, <1>6, <3>1, <3>2 DEF ShortestProgram
  <2> QED BY <2>1, <2>2
<1>8. NextToDispatch(t)
  BY <1>2, <1>7 DEF NextToDispatch
<1> QED BY <1>1, <1>2, <1>4, <1>5, <1>8 DEF Dispatch

LEMMA FindNothingUses ==
  ASSUME WInv, FindNothing
  PROVE  NothingToDispatch
<1>1. walk.by = "programs" /\ walk.cursor = NoTask /\ walk.best = NoTask
  BY DEF FindNothing
<1>2. MayDispatch /\ Leads(NoTask, Queued)
  BY <1>1, Ranked2
<1>3. waiting = <<>>
  <2>1. Queued = {}
    BY <1>2, ListFacts DEF Leads, Shortest
  <2> QED BY <2>1, ListFacts
<1> QED BY <1>2, <1>3 DEF FindNothing, MayDispatch, NothingToDispatch

(* A cancellation that has come to the end of the list has removed all     *)
(* the tasks of its client, and once it has freed them nothing else has    *)
(* changed.                                                                *)
LEMMA EndCancelUses ==
  ASSUME WInv, EndCancel
  PROVE  /\ walk.client \in Clients /\ CancelClient(walk.client)
         /\ Links(waiting_head, waiting_tail, next, waiting')
         /\ \A t \in Tasks \ Range(waiting') : next[t] = NoTask
<1> DEFINE c == walk.client
<1>1. walk.by = "cancel" /\ walk.cursor = NoTask /\ walk.to_free = NoTask
  BY DEF EndCancel
<1>2. PICK removed \in SUBSET Queued : \E kept \in Unlink(waiting, removed) :
               Partition(kept, removed)
  BY <1>1 DEF WInv, Cancelling
<1> PICK kept \in Unlink(waiting, removed) : Partition(kept, removed)
  BY <1>2
<1> USE DEF Partition
<1>3. /\ waiting \in Seq(Tasks) /\ IsInjective(waiting) /\ Range(waiting) = Queued
      /\ NoTask \notin Tasks /\ Queued \subseteq Tasks
  BY ListFacts
<1>4. /\ kept \in Seq(Tasks) /\ IsInjective(kept) /\ Range(kept) = Queued \ removed
      /\ Len(kept) \in Nat /\ DOMAIN kept = 1..Len(kept)
  BY <1>3, UnlinkLeaves, Positions
<1>5. removed = walk.freed
  <2>1. PICK n \in Nat : \E f \in [1..n -> Tasks] :
               Hangs(walk.to_free, next, f, removed \ walk.freed)
    BY <1>2
  <2>2. PICK f \in [1..n -> Tasks] : Hangs(walk.to_free, next, f, removed \ walk.freed)
    BY <2>1
  <2>3. f \in Seq(Tasks) /\ Len(f) = n /\ DOMAIN f = 1..n
    OBVIOUS
  <2>4. At(f, 1) = NoTask /\ Range(f) = removed \ walk.freed
    BY <1>1, <2>2 DEF Hangs
  <2>5. n = 0
    BY <2>3, <2>4, Positions
  <2>6. Range(f) = {}
    BY <2>3, <2>5 DEF Range
  <2> QED BY <1>2, <2>4, <2>6
<1>6. removed = { t \in Queued : task[t].client = c }
  <2>1. PICK p \in 1..Len(kept) + 1 : Passed(kept, removed, p)
    BY <1>2
  <2>2. p = Len(kept) + 1 /\ p - 1 = Len(kept)
    BY <1>1, <1>4, <2>1, WalkEnds DEF Passed
  <2>3. \A i \in 1..Len(kept) : task[kept[i]].client # c
    BY <2>1, <2>2 DEF Passed
  <2>4. \A t \in removed : task[t].client = c
    BY <2>1 DEF Passed
  <2>5. ASSUME NEW t \in Queued, t \notin removed PROVE task[t].client # c
    <3>1. PICK i \in 1..Len(kept) : kept[i] = t
      BY <1>4, <2>5 DEF Range
    <3> QED BY <2>3, <3>1
  <2> QED BY <2>4, <2>5
<1>7. waiting' \in Unlink(waiting, removed) /\ waiting' = kept
  <2>1. waiting' \in Unlink(waiting, walk.freed)
    BY DEF EndCancel
  <2> QED BY <1>3, <1>5, <2>1, UnlinkUnique
<1>8. Cardinality(removed) = Len(waiting) - Len(kept)
  <2>1. IsFiniteSet(Queued) /\ Cardinality(Queued) = Len(waiting)
        /\ Cardinality(Queued \ removed) = Len(kept)
    BY <1>3, <1>4, InjectiveLength
  <2>2. IsFiniteSet(removed) /\ Cardinality(removed) \in Nat
    BY <2>1, FS_Subset, FS_CardinalityType
  <2>3. Queued \cap removed = removed
    OBVIOUS
  <2>4. Cardinality(Queued \ removed) = Cardinality(Queued) - Cardinality(removed)
    <3>1. Cardinality(Queued \ removed) = Cardinality(Queued) - Cardinality(Queued \cap removed)
      <4> DEFINE Q == Queued
      <4>1. IsFiniteSet(Q)
        BY <2>1
      <4> HIDE DEF Q
      <4>2. Cardinality(Q \ removed) = Cardinality(Q) - Cardinality(Q \cap removed)
        BY <4>1, FS_Difference
      <4> QED BY <4>2 DEF Q
    <3> QED BY <2>3, <3>1
  <2>5. Len(waiting) \in Nat /\ Len(kept) \in Nat
    BY <1>4, ListFacts
  <2> QED BY <2>1, <2>2, <2>4, <2>5
<1>9. Retire(Len(waiting) - Len(waiting'))
  <2>1. Retire(Cardinality(walk.freed))
    BY DEF EndCancel
  <2> QED BY <1>5, <1>7, <1>8, <2>1 DEF Retire
<1>10. CancelClient(c)
  <2>1. pc # "destroyed"
    BY <1>1 DEF WInv, Cancelling
  <2>2. \E rest \in Unlink(waiting, {t \in Queued : task[t].client = c}) :
           waiting' = rest /\ Retire(Len(waiting) - Len(rest))
    BY <1>6, <1>7, <1>9
  <2>3. task' = [t \in Tasks |->
                   CASE t \in Queued /\ task[t].client = c -> Blank("cancelled")
                     [] t = current_task /\ task[t].client = c
                          -> [task[t] EXCEPT !.cancel = TRUE, !.preempt = TRUE]
                     [] OTHER -> task[t]]
    <3> DEFINE g == [t \in Tasks |->
                   CASE t \in Queued /\ task[t].client = c -> Blank("cancelled")
                     [] t = current_task /\ task[t].client = c
                          -> [task[t] EXCEPT !.cancel = TRUE, !.preempt = TRUE]
                     [] OTHER -> task[t]]
    <3>1. \A t \in Tasks : t \in walk.freed <=> t \in Queued /\ task[t].client = c
      BY <1>5, <1>6
    <3>2. current_task \notin Queued
      <4>1. \A t \in Queued : t \in Tasks /\ task[t].state # "running"
        BY <1>3 DEF WInv, IInv, QueueHoldsWaitingTasks
      <4> QED BY <4>1 DEF WInv, IInv, OneTaskRuns
    <3>3. ASSUME NEW t \in Tasks PROVE task'[t] = g[t]
      <4>1. task'[t] = CASE t \in walk.freed -> Blank("cancelled")
                         [] t = current_task /\ task[t].client = walk.client
                              -> [task[t] EXCEPT !.cancel = TRUE, !.preempt = TRUE]
                         [] OTHER -> task[t]
        BY DEF EndCancel
      <4> QED BY <3>1, <3>2, <4>1
    <3>4. DOMAIN task' = Tasks /\ task' = [t \in DOMAIN task' |-> task'[t]]
      <4> DEFINE h == [t \in Tasks |->
                CASE t \in walk.freed -> Blank("cancelled")
                  [] t = current_task /\ task[t].client = walk.client
                       -> [task[t] EXCEPT !.cancel = TRUE, !.preempt = TRUE]
                  [] OTHER -> task[t]]
      <4>1. task' = h
        BY DEF EndCancel
      <4>2. DOMAIN h = Tasks /\ h = [t \in DOMAIN h |-> h[t]]
        OBVIOUS
      <4> HIDE DEF h
      <4> QED BY <4>1, <4>2
    <3>5. DOMAIN g = Tasks /\ g = [t \in DOMAIN g |-> g[t]]
      OBVIOUS
    <3> HIDE DEF g
    <3>6. task' = g
      BY <3>3, <3>4, <3>5
    <3> QED BY <3>6 DEF g
  <2> QED BY <2>1, <2>2, <2>3 DEF EndCancel, CancelClient
<1>11. walk.client \in Clients
  BY <1>1 DEF WInv, Cancelling
<1>12. \A t \in Tasks \ Range(waiting') : next[t] = NoTask
  BY <1>2, <1>4, <1>5, <1>7
<1> QED BY <1>2, <1>7, <1>10, <1>11, <1>12

LEMMA EndDestroyUses ==
  ASSUME WInv, EndDestroy
  PROVE  JoinAndDestroy
<1>1. walk.by = "destroy" /\ walk.cursor = NoTask
  BY DEF EndDestroy
<1>2. PICK k \in 1..Len(waiting) + 1 :
         walk.cursor = At(waiting, k) /\ walk.freed = Seen(k - 1)
  BY <1>1 DEF WInv, Destroying
<1>3. k - 1 = Len(waiting)
  BY <1>1, <1>2, ListFacts, WalkEnds
<1>4. walk.freed = Queued /\ pc = "exited"
  BY <1>1, <1>2, <1>3, SeenAll DEF WInv, Destroying
<1> QED BY <1>4 DEF EndDestroy, JoinAndDestroy

-----------------------------------------------------------------------------
(* Every step is one of Scheduler, or is invisible there.                  *)
LEMMA QueueUses ==
  ASSUME WInv, [QueueNext]_queue_vars
  PROVE  [Next]_vars
<1>1. CASE UNCHANGED vars
  BY <1>1
<1>2. CASE \/ BeginDequeue \/ SkipProgram \/ BeginChoose \/ RankProgram
           \/ (\E c \in Clients : BeginCancel(c)) \/ KeepTask \/ RemoveTask
           \/ CleanUpTask \/ BeginDestroy \/ DestroyTask \/ UNCHANGED queue_vars
  BY <1>1, <1>2 DEF BeginDequeue, SkipProgram, BeginChoose, RankProgram, BeginCancel,
     KeepTask, RemoveTask, CleanUpTask, BeginDestroy, DestroyTask, queue_vars
<1>3. CASE \E c \in Clients, type \in Types, predicted \in 0..MaxBurst :
             QueueSubmit(c, type, predicted)
  BY <1>3 DEF QueueSubmit, Next, Callers
<1>4. CASE QueueRequeue \/ OtherLocked
  BY <1>4 DEF QueueRequeue, OtherLocked, Next, SchedulerThread
<1>5. CASE QueueExecutor
  BY <1>5 DEF QueueExecutor, Next
<1>6. CASE Unlocked /\ RequestStop /\ UNCHANGED <<links, walk>>
  BY <1>6 DEF Next, Callers
<1>7. CASE TakeShell
  BY <1>7, TakeShellUses DEF Next, SchedulerThread
<1>8. CASE TakeProgram
  BY <1>8, TakeProgramUses DEF Next, SchedulerThread
<1>9. CASE FindNothing
  BY <1>9, FindNothingUses DEF Next, SchedulerThread
<1>10. CASE EndCancel
  BY <1>10, EndCancelUses DEF Next, Callers
<1>11. CASE EndDestroy
  BY <1>11, EndDestroyUses DEF Next, Callers
<1> QED BY <1>2, <1>3, <1>4, <1>5, <1>6, <1>7, <1>8, <1>9, <1>10, <1>11
        DEF QueueNext, QueueThread, Dequeue, QueueCallers, FinishCancel

-----------------------------------------------------------------------------
(* The steps.                                                              *)
LEMMA NoWalkIs ==
  /\ NoWalk \in WalkRecord /\ NoWalk.by = "nobody"
  /\ NoWalk.previous = NoTask /\ NoWalk.to_free = NoTask /\ NoWalk.freed = {}
  /\ NoWalk.best = NoTask /\ NoWalk.best_alt = NoTask
BY DEF NoWalk, WalkRecord, NoClient

(* After which the mutex is free.                                          *)
LEMMA FreeStep ==
  ASSUME WInv, [QueueNext]_queue_vars, walk' \in WalkRecord, walk'.by = "nobody",
         next' \in [Tasks -> Tasks \cup {NoTask}],
         Links(waiting_head', waiting_tail', next', waiting'),
         \A u \in Tasks \ Range(waiting') : next'[u] = NoTask
  PROVE  WInv'
<1>1. IInv'
  BY QueueUses, NextIInv DEF WInv
<1>2. WalkTypeOK' /\ Searching' /\ Ranking' /\ Cancelling' /\ Destroying'
  BY DEF WalkTypeOK, Searching, Ranking, Cancelling, Destroying
<1>3. Whole'
  BY DEF Whole, Queued
<1> QED BY <1>1, <1>2, <1>3 DEF WInv

LEMMA ListStays ==
  ASSUME WInv, walk.by # "cancel", UNCHANGED <<waiting, links>>
  PROVE  /\ next' \in [Tasks -> Tasks \cup {NoTask}]
         /\ Links(waiting_head', waiting_tail', next', waiting')
         /\ \A u \in Tasks \ Range(waiting') : next'[u] = NoTask
BY DEF WInv, WalkTypeOK, Whole, Queued, links

LEMMA FreeSteps ==
  ASSUME WInv, [QueueNext]_queue_vars,
         \/ OtherLocked \/ FindNothing \/ EndDestroy
         \/ Unlocked /\ RequestStop /\ UNCHANGED <<links, walk>>
         \/ Unlocked /\ QueueExecutor
         \/ Unlocked /\ UNCHANGED queue_vars
  PROVE  WInv'
<1>1. UNCHANGED <<waiting, links>>
  BY DEF OtherLocked, FindNothing, EndDestroy, RequestStop, QueueExecutor, Executor,
         ExecutorWorks, ExecutorReturns, SpuriousWakeup, WaitForSignal, Exit, Finalize,
         queue_vars, vars
<1>2. walk.by # "cancel"
  BY DEF OtherLocked, FindNothing, EndDestroy, Unlocked
<1>3. walk' \in WalkRecord /\ walk'.by = "nobody"
  <2>1. walk' = NoWalk \/ (walk' = walk /\ Unlocked)
    BY DEF OtherLocked, FindNothing, EndDestroy, QueueExecutor, queue_vars
  <2> QED BY <2>1, NoWalkIs DEF WInv, WalkTypeOK, Unlocked
<1> QED BY <1>1, <1>2, <1>3, ListStays, FreeStep

LEMMA TakeSteps ==
  ASSUME WInv, [QueueNext]_queue_vars, TakeShell \/ TakeProgram
  PROVE  WInv'
<1>1. walk.by # "cancel" /\ walk' = NoWalk
  BY DEF TakeShell, TakeProgram
<1>0. PICK p \in 1..Len(waiting) : \E t \in Tasks : \E prev :
         t = waiting[p] /\ prev = At(waiting, p - 1) /\ Cut(t, prev, NoTask) /\ Dispatch(t)
  BY TakeShellUses, TakeProgramUses
<1>2. PICK t \in Tasks : \E prev :
         t = waiting[p] /\ prev = At(waiting, p - 1) /\ Cut(t, prev, NoTask) /\ Dispatch(t)
  BY <1>0
<1> PICK prev :
      t = waiting[p] /\ prev = At(waiting, p - 1) /\ Cut(t, prev, NoTask) /\ Dispatch(t)
  BY <1>2
<1>3. waiting' \in Unlink(waiting, {t})
  BY <1>2 DEF Dispatch, StartRound
<1>4. /\ Links(waiting_head', waiting_tail', next', waiting')
      /\ \A u \in Tasks \ Range(waiting') : next'[u] = NoTask
      /\ next' \in [Tasks -> Tasks \cup {NoTask}]
  BY <1>1, <1>2, <1>3, TakeStep
<1> QED BY <1>1, <1>4, NoWalkIs, FreeStep

(* A new or re-queued task goes to the end.                                *)
LEMMA LinkStep ==
  ASSUME WInv, [QueueNext]_queue_vars, Unlocked, UNCHANGED walk,
         NEW t \in Tasks, t \notin Queued, waiting' = Append(waiting, t), Link(t)
  PROVE  WInv'
<1>1. /\ waiting \in Seq(Tasks) /\ IsInjective(waiting) /\ Range(waiting) = Queued
      /\ next \in [Tasks -> Tasks \cup {NoTask}]
  BY ListFacts
<1>2. Links(waiting_head, waiting_tail, next, waiting)
      /\ \A u \in Tasks \ Queued : next[u] = NoTask
  BY DEF WInv, Whole, Unlocked
<1>3. waiting_tail # t
  BY <1>1, <1>2, Positions DEF Links, At, Range
<1>4. /\ waiting_head' = IF waiting_tail = NoTask THEN t ELSE waiting_head
      /\ waiting_tail' = t
      /\ next' = [u \in Tasks |-> CASE u = waiting_tail -> t
                                    [] u = t            -> NoTask
                                    [] OTHER            -> next[u]]
  BY DEF Link
<1>5. \A u \in Tasks : next'[u] = IF u = waiting_tail THEN t
                                  ELSE IF u = t THEN NoTask ELSE next[u]
  BY <1>3, <1>4
<1>6. next' \in [Tasks -> Tasks \cup {NoTask}]
  <2>1. DOMAIN next' = Tasks /\ next' = [u \in DOMAIN next' |-> next'[u]]
    BY <1>4
  <2>2. \A u \in Tasks : next'[u] \in Tasks \cup {NoTask}
    BY <1>1, <1>5
  <2> QED BY <2>1, <2>2
<1>7. /\ Links(waiting_head', waiting_tail', next', waiting')
      /\ \A u \in Tasks \ (Range(waiting) \cup {t}) : next'[u] = next[u]
  BY <1>1, <1>2, <1>4, <1>5, LinkLinks
<1>8. Range(waiting') = Range(waiting) \cup {t}
  BY <1>1, AppendLeaves
<1>9. \A u \in Tasks \ Range(waiting') : next'[u] = NoTask
  BY <1>1, <1>2, <1>7, <1>8
<1>10. walk' \in WalkRecord /\ walk'.by = "nobody"
  BY DEF WInv, WalkTypeOK, Unlocked
<1> QED BY <1>6, <1>7, <1>9, <1>10, FreeStep

LEMMA LinkSteps ==
  ASSUME WInv, [QueueNext]_queue_vars,
         \/ QueueRequeue
         \/ \E c \in Clients, type \in Types, predicted \in 0..MaxBurst :
              QueueSubmit(c, type, predicted)
  PROVE  WInv'
<1>1. CASE QueueRequeue
  <2>1. PICK t : t = current_task
    OBVIOUS
  <2>2. Link(t) /\ waiting' = Append(waiting, t) /\ Unlocked /\ UNCHANGED walk
        /\ pc = "returned"
    BY <1>1, <2>1 DEF QueueRequeue, Requeue, Enqueue
  <2>3. t \in Tasks /\ task[t].state = "running"
    BY <2>1, <2>2 DEF WInv, IInv, TypeOK, OneTaskRuns
  <2>4. t \notin Queued
    BY <2>2, <2>3 DEF WInv, IInv, QueueHoldsWaitingTasks
  <2> QED BY <2>2, <2>3, <2>4, LinkStep
<1>2. CASE \E c \in Clients, type \in Types, predicted \in 0..MaxBurst :
              QueueSubmit(c, type, predicted)
  <2>1. PICK c \in Clients, type \in Types, predicted \in 0..MaxBurst :
               QueueSubmit(c, type, predicted)
    BY <1>2
  <2>2. PICK t : t = next_task_id
    OBVIOUS
  <2>3. Link(t) /\ waiting' = Append(waiting, t) /\ Unlocked /\ UNCHANGED walk
        /\ pc # "destroyed" /\ t \in Tasks
    BY <2>1, <2>2 DEF QueueSubmit, Submit, Enqueue
  <2>4. task[t].state = "unsubmitted"
    BY <2>2, <2>3 DEF WInv, IInv, Bookkeeping, Tasks
  <2>5. t \notin Queued
    BY <2>3, <2>4 DEF WInv, IInv, QueueHoldsWaitingTasks
  <2> QED BY <2>3, <2>5, LinkStep
<1> QED BY <1>1, <1>2

(* The searches move along a list that stays as it is.                     *)
LEMMA MoveStep ==
  ASSUME WInv, [QueueNext]_queue_vars, UNCHANGED <<vars, links>>,
         walk.by # "cancel", walk' \in WalkRecord, walk'.by # "cancel",
         Searching', Ranking', Destroying'
  PROVE  WInv'
<1>1. IInv'
  BY QueueUses, NextIInv DEF WInv
<1>2. UNCHANGED <<waiting, links>>
  BY DEF vars
<1>3. WalkTypeOK' /\ Whole' /\ Cancelling'
  BY <1>2, ListStays DEF WalkTypeOK, Whole, Cancelling, Queued
<1> QED BY <1>1, <1>3 DEF WInv

LEMMA AtCursor ==
  ASSUME WInv, walk.by # "cancel", NEW k \in 1..Len(waiting) + 1,
         walk.cursor = At(waiting, k), walk.cursor # NoTask
  PROVE  /\ k \in 1..Len(waiting) /\ walk.cursor = waiting[k]
         /\ walk.cursor \in Queued /\ walk.cursor \in Tasks
         /\ next[walk.cursor] = At(waiting, k + 1)
         /\ k + 1 \in 1..Len(waiting) + 1 /\ k + 1 - 1 = k
<1>1. k \in 1..Len(waiting) /\ walk.cursor = waiting[k]
  BY ListFacts, WalkEnds
<1>2. Links(waiting_head, waiting_tail, next, waiting)
  BY DEF WInv, Whole
<1> QED BY <1>1, <1>2, ListFacts DEF Links

LEMMA AtHead ==
  ASSUME WInv, walk.by # "cancel"
  PROVE  /\ waiting_head = At(waiting, 1) /\ At(waiting, 0) = NoTask
         /\ 1 \in 1..Len(waiting) + 1 /\ 1 - 1 = 0
         /\ waiting_head \in Tasks \cup {NoTask}
<1>1. Links(waiting_head, waiting_tail, next, waiting)
  BY DEF WInv, Whole
<1> QED BY <1>1, ListFacts, Positions DEF Links

LEMMA SearchSteps ==
  ASSUME WInv, [QueueNext]_queue_vars, BeginDequeue \/ SkipProgram
  PROVE  WInv'
<1>1. UNCHANGED <<vars, links>> /\ UNCHANGED <<task, waiting>>
  BY DEF BeginDequeue, SkipProgram, vars
<1>2. CASE BeginDequeue
  <2>1. MayDispatch /\ walk.by = "nobody"
        /\ walk' = [NoWalk EXCEPT !.by = "shells", !.cursor = waiting_head]
    BY <1>2 DEF BeginDequeue, Unlocked
  <2>2. walk' \in WalkRecord /\ walk'.by = "shells"
        /\ walk'.cursor = waiting_head /\ walk'.previous = NoTask
    BY <2>1, NoWalkIs, AtHead DEF WalkRecord
  <2>3. Searching'
    <3>1. MayDispatch'
      BY <1>1, <2>1 DEF MayDispatch, StopNow, vars
    <3>2. \E k \in 1..Len(waiting) + 1 :
             /\ walk'.cursor = At(waiting, k)
             /\ walk'.previous = At(waiting, k - 1)
             /\ \A i \in 1..k - 1 : task[waiting[i]].type = "program"
      BY <2>1, <2>2, AtHead
    <3> QED BY <1>1, <3>1, <3>2 DEF Searching
  <2>4. Ranking' /\ Destroying'
    BY <2>2 DEF Ranking, Destroying
  <2> QED BY <1>1, <2>1, <2>2, <2>3, <2>4, MoveStep
<1>3. CASE SkipProgram
  <2>1. /\ walk.by = "shells" /\ walk.cursor # NoTask
        /\ task[walk.cursor].type # "shell"
        /\ walk' = [walk EXCEPT !.previous = walk.cursor, !.cursor = next[walk.cursor]]
    BY <1>3 DEF SkipProgram, PriorityType
  <2>2. PICK k \in 1..Len(waiting) + 1 :
         /\ walk.cursor = At(waiting, k)
         /\ walk.previous = At(waiting, k - 1)
         /\ \A i \in 1..k - 1 : task[waiting[i]].type = "program"
    BY <2>1 DEF WInv, Searching
  <2>3. /\ k \in 1..Len(waiting) /\ walk.cursor = waiting[k] /\ walk.cursor \in Tasks
        /\ next[walk.cursor] = At(waiting, k + 1)
        /\ k + 1 \in 1..Len(waiting) + 1 /\ k + 1 - 1 = k
    BY <2>1, <2>2, AtCursor
  <2>4. task[walk.cursor].type = "program"
    BY <2>1, <2>3, ListFacts DEF TaskRecord, Types
  <2>5. /\ walk'.by = "shells" /\ walk'.cursor = At(waiting, k + 1)
        /\ walk'.previous = At(waiting, k + 1 - 1)
        /\ walk' \in WalkRecord
    <3>1. walk \in WalkRecord /\ next[walk.cursor] \in Tasks \cup {NoTask}
      BY <2>3, ListFacts DEF WInv, WalkTypeOK
    <3> QED BY <2>1, <2>2, <2>3, <3>1 DEF WalkRecord
  <2>6. ASSUME NEW i \in 1..k + 1 - 1 PROVE task[waiting[i]].type = "program"
    <3>1. i \in 1..k - 1 \/ i = k
      BY <2>3
    <3> QED BY <2>2, <2>3, <2>4, <3>1
  <2>7. Searching'
    <3>1. MayDispatch'
      BY <1>1, <2>1 DEF MayDispatch, StopNow, vars, WInv, Searching
    <3> QED BY <1>1, <2>3, <2>5, <2>6, <3>1 DEF Searching
  <2>8. Ranking' /\ Destroying'
    BY <2>5 DEF Ranking, Destroying
  <2> QED BY <1>1, <2>1, <2>5, <2>7, <2>8, MoveStep
<1> QED BY <1>2, <1>3

LEMMA DestroySteps ==
  ASSUME WInv, [QueueNext]_queue_vars, BeginDestroy \/ DestroyTask
  PROVE  WInv'
<1>1. UNCHANGED <<vars, links>> /\ UNCHANGED <<waiting, pc>>
  BY DEF BeginDestroy, DestroyTask, vars
<1>2. CASE BeginDestroy
  <2>1. pc = "exited" /\ walk.by = "nobody"
        /\ walk' = [NoWalk EXCEPT !.by = "destroy", !.cursor = waiting_head]
    BY <1>2 DEF BeginDestroy, Unlocked
  <2>2. walk' \in WalkRecord /\ walk'.by = "destroy"
        /\ walk'.cursor = waiting_head /\ walk'.freed = {}
    BY <2>1, NoWalkIs, AtHead DEF WalkRecord
  <2>3. Destroying'
    <3>1. walk'.cursor = At(waiting, 1) /\ walk'.freed = Seen(1 - 1)
      BY <2>1, <2>2, AtHead, SeenAll
    <3> QED BY <1>1, <2>1, <3>1, AtHead DEF Destroying, Seen
  <2>4. Ranking' /\ Searching'
    BY <2>2 DEF Ranking, Searching
  <2> QED BY <1>1, <2>1, <2>2, <2>3, <2>4, MoveStep
<1>3. CASE DestroyTask
  <2>1. /\ walk.by = "destroy" /\ walk.cursor # NoTask
        /\ walk' = [walk EXCEPT !.cursor = next[walk.cursor],
                                !.freed = @ \cup {walk.cursor}]
    BY <1>3 DEF DestroyTask
  <2>2. PICK k \in 1..Len(waiting) + 1 :
         walk.cursor = At(waiting, k) /\ walk.freed = Seen(k - 1)
    BY <2>1 DEF WInv, Destroying
  <2>3. /\ k \in 1..Len(waiting) /\ walk.cursor = waiting[k] /\ walk.cursor \in Tasks
        /\ next[walk.cursor] = At(waiting, k + 1)
        /\ k + 1 \in 1..Len(waiting) + 1 /\ k + 1 - 1 = k
    BY <2>1, <2>2, AtCursor
  <2>4. walk \in WalkRecord /\ next[walk.cursor] \in Tasks \cup {NoTask}
    BY <2>3, ListFacts DEF WInv, WalkTypeOK
  <2>5. /\ walk' \in WalkRecord /\ walk'.by = "destroy"
        /\ walk'.cursor = At(waiting, k + 1)
        /\ walk'.freed = walk.freed \cup {walk.cursor}
    BY <2>1, <2>3, <2>4 DEF WalkRecord
  <2>6. Seen(k) = Seen(k - 1) \cup {waiting[k]}
    BY <2>3, SeenMore
  <2>7. Destroying'
    <3>1. walk'.freed = Seen(k + 1 - 1)
      BY <2>2, <2>3, <2>5, <2>6
    <3>2. pc = "exited"
      BY <2>1 DEF WInv, Destroying
    <3> QED BY <1>1, <2>3, <2>5, <3>1, <3>2 DEF Destroying, Seen
  <2>8. Ranking' /\ Searching'
    BY <2>5 DEF Ranking, Searching
  <2> QED BY <1>1, <2>1, <2>5, <2>7, <2>8, MoveStep
<1> QED BY <1>2, <1>3

(* Ranked, on the program at position k.                                   *)
LEMMA RankedLeads ==
  ASSUME WInv, NEW k \in 1..Len(waiting), NEW t, t = waiting[k],
         walk.previous = At(waiting, k - 1), walk \in WalkRecord,
         Leads(walk.best, Seen(k - 1)),
         Leads(walk.best_alt, Seen(k - 1) \ {walk.best}),
         Behind(walk.best, walk.best_prev), Behind(walk.best_alt, walk.best_alt_prev),
         NEW w, w = Ranked(walk, t)
  PROVE  /\ w \in WalkRecord /\ w.by = walk.by
         /\ Leads(w.best, Seen(k)) /\ Leads(w.best_alt, Seen(k) \ {w.best})
         /\ Behind(w.best, w.best_prev) /\ Behind(w.best_alt, w.best_alt_prev)
<1> DEFINE S == Seen(k - 1)
           b == walk.best
           a == walk.best_alt
<1>1. /\ Seen(k) = S \cup {t} /\ t \notin S /\ S \subseteq Tasks /\ t \in Tasks
      /\ task \in [Tasks -> TaskRecord] /\ NoTask \notin Tasks
  BY SeenMore, ListFacts
<1>2. /\ Leads(IF Better(t, b) THEN t ELSE b, S \cup {t})
  BY <1>1, LeadsOn
<1>3. /\ Leads(IF Better(t, a) THEN t ELSE a, (S \ {b}) \cup {t})
  <2>1. S \ {b} \in SUBSET Tasks /\ t \notin S \ {b}
    BY <1>1
  <2> QED BY <1>1, <2>1, LeadsOn
<1>4. Behind(t, walk.previous)
  BY DEF Behind
<1>5. b # t /\ (b = NoTask \/ b \in S)
  BY <1>1 DEF Leads, Shortest
<1>6. CASE Better(t, b)
  <2>1. w = [walk EXCEPT !.best_alt = b, !.best_alt_prev = walk.best_prev,
                         !.best = t, !.best_prev = walk.previous]
    BY <1>6 DEF Ranked
  <2>2. /\ w \in WalkRecord /\ w.by = walk.by /\ w.best = t /\ w.best_alt = b
        /\ w.best_prev = walk.previous /\ w.best_alt_prev = walk.best_prev
    BY <1>1, <2>1 DEF WalkRecord
  <2>3. (S \cup {t}) \ {t} = S
    BY <1>1
  <2>4. Leads(t, S \cup {t})
    BY <1>2, <1>6
  <2> QED BY <1>1, <1>4, <2>2, <2>3, <2>4
<1>7. CASE ~Better(t, b)
  <2>1. b # NoTask
    BY <1>7 DEF Better
  <2>2. (S \cup {t}) \ {b} = (S \ {b}) \cup {t}
    BY <1>5
  <2>3. Leads(b, S \cup {t})
    BY <1>2, <1>7
  <2>4. CASE Better(t, a)
    <3>1. w = [walk EXCEPT !.best_alt = t, !.best_alt_prev = walk.previous]
      BY <1>7, <2>4 DEF Ranked
    <3>2. /\ w \in WalkRecord /\ w.by = walk.by /\ w.best = b /\ w.best_alt = t
          /\ w.best_prev = walk.best_prev /\ w.best_alt_prev = walk.previous
      BY <1>1, <3>1 DEF WalkRecord
    <3>3. Leads(t, (S \ {b}) \cup {t})
      BY <1>3, <2>4
    <3> QED BY <1>1, <1>4, <2>2, <2>3, <3>2, <3>3
  <2>5. CASE ~Better(t, a)
    <3>1. w = walk
      BY <1>7, <2>5 DEF Ranked
    <3>2. Leads(a, (S \ {b}) \cup {t})
      BY <1>3, <2>5
    <3> QED BY <1>1, <2>2, <2>3, <3>1, <3>2
  <2> QED BY <2>4, <2>5
<1> QED BY <1>6, <1>7

(* What Ranking says of a walk, when the records and the list stay.        *)
LEMMA RankingStays ==
  ASSUME UNCHANGED <<task, waiting>>, MayDispatch', walk'.by = "programs",
         \A t \in Queued : task[t].type = "program",
         NEW k \in 1..Len(waiting) + 1,
         walk'.cursor = At(waiting, k), walk'.previous = At(waiting, k - 1),
         NEW b, b = walk'.best, NEW bp, bp = walk'.best_prev,
         NEW a, a = walk'.best_alt, NEW ap, ap = walk'.best_alt_prev,
         NEW S, S = Seen(k - 1), Leads(b, S), Leads(a, S \ {b}),
         Behind(b, bp), Behind(a, ap)
  PROVE  Ranking'
<1>1. \A t \in Queued' : task'[t].type = "program"
  BY DEF Queued
<1>2. Leads(b, S)' /\ Leads(a, S \ {b})'
  BY DEF Leads, Shortest, Before
<1>3. Behind(b, bp)' /\ Behind(a, ap)'
  BY DEF Behind
<1>4. S = Seen(k - 1)'
  BY DEF Seen
<1>5. k \in 1..Len(waiting') + 1 /\ walk'.cursor = At(waiting', k)
      /\ walk'.previous = At(waiting', k - 1)
  OBVIOUS
<1> QED BY <1>1, <1>2, <1>3, <1>4, <1>5 DEF Ranking

LEMMA RankSteps ==
  ASSUME WInv, [QueueNext]_queue_vars, BeginChoose \/ RankProgram
  PROVE  WInv'
<1>1. UNCHANGED <<vars, links>> /\ UNCHANGED <<task, waiting>>
  BY DEF BeginChoose, RankProgram, vars
<1>2. MayDispatch' <=> MayDispatch
  BY <1>1 DEF MayDispatch, StopNow, vars
<1>3. CASE BeginChoose
  <2>1. walk.by = "shells" /\ walk.cursor = NoTask
        /\ walk' = [NoWalk EXCEPT !.by = "programs", !.cursor = waiting_head]
    BY <1>3 DEF BeginChoose
  <2>2. /\ walk' \in WalkRecord /\ walk'.by = "programs"
        /\ walk'.cursor = waiting_head /\ walk'.previous = NoTask
        /\ walk'.best = NoTask /\ walk'.best_alt = NoTask
    BY <2>1, NoWalkIs, AtHead DEF WalkRecord
  <2>3. PICK k \in 1..Len(waiting) + 1 :
         /\ walk.cursor = At(waiting, k)
         /\ \A i \in 1..k - 1 : task[waiting[i]].type = "program"
    BY <2>1 DEF WInv, Searching
  <2>4. k - 1 = Len(waiting)
    BY <2>1, <2>3, ListFacts, WalkEnds
  <2>5. \A t \in Queued : task[t].type = "program"
    BY <2>3, <2>4, ListFacts
  <2>6. Ranking'
    <3>1. MayDispatch
      BY <2>1 DEF WInv, Searching
    <3>2. Leads(NoTask, Seen(1 - 1)) /\ Leads(NoTask, Seen(1 - 1) \ {NoTask})
      BY <2>1, AtHead, SeenAll DEF Leads
    <3>3. Behind(NoTask, walk'.best_prev) /\ Behind(NoTask, walk'.best_alt_prev)
      BY DEF Behind
    <3> PICK S, bp, ap : S = Seen(1 - 1) /\ bp = walk'.best_prev /\ ap = walk'.best_alt_prev
      OBVIOUS
    <3> QED BY <1>1, <1>2, <2>1, <2>2, <2>5, <3>1, <3>2, <3>3, AtHead, RankingStays
  <2>7. Searching' /\ Destroying'
    BY <2>2 DEF Searching, Destroying
  <2> QED BY <1>1, <2>1, <2>2, <2>6, <2>7, MoveStep
<1>4. CASE RankProgram
  <2>1. walk.by = "programs" /\ walk.cursor # NoTask
    BY <1>4 DEF RankProgram
  <2>2. PICK k \in 1..Len(waiting) + 1 :
         /\ walk.cursor = At(waiting, k)
         /\ walk.previous = At(waiting, k - 1)
         /\ Leads(walk.best, Seen(k - 1))
         /\ Leads(walk.best_alt, Seen(k - 1) \ {walk.best})
    BY <2>1 DEF WInv, Ranking
  <2>3. /\ k \in 1..Len(waiting) /\ walk.cursor = waiting[k] /\ walk.cursor \in Tasks
        /\ walk.cursor \in Queued
        /\ next[walk.cursor] = At(waiting, k + 1)
        /\ k + 1 \in 1..Len(waiting) + 1 /\ k + 1 - 1 = k
    BY <2>1, <2>2, AtCursor
  <2>4. /\ MayDispatch /\ \A t \in Queued : task[t].type = "program"
        /\ Behind(walk.best, walk.best_prev)
        /\ Behind(walk.best_alt, walk.best_alt_prev)
    BY <2>1 DEF WInv, Ranking
  <2> PICK t, w : t = walk.cursor /\ w = Ranked(walk, t)
    OBVIOUS
  <2>5. walk' = [w EXCEPT !.previous = t, !.cursor = next[t]]
    BY <1>4, <2>3, <2>4 DEF RankProgram
  <2>6. /\ w \in WalkRecord /\ w.by = walk.by
        /\ Leads(w.best, Seen(k)) /\ Leads(w.best_alt, Seen(k) \ {w.best})
        /\ Behind(w.best, w.best_prev) /\ Behind(w.best_alt, w.best_alt_prev)
    BY <2>2, <2>3, <2>4, RankedLeads DEF WInv, WalkTypeOK
  <2>7. /\ walk' \in WalkRecord /\ walk'.by = "programs"
        /\ walk'.cursor = next[t] /\ walk'.previous = t
        /\ walk'.best = w.best /\ walk'.best_prev = w.best_prev
        /\ walk'.best_alt = w.best_alt /\ walk'.best_alt_prev = w.best_alt_prev
    <3>1. next[t] \in Tasks \cup {NoTask}
      BY <2>3, ListFacts
    <3> QED BY <2>1, <2>3, <2>5, <2>6, <3>1 DEF WalkRecord
  <2>8. Ranking'
    <3> PICK S, b, bp, a, ap : /\ S = Seen(k) /\ b = w.best /\ bp = w.best_prev
                               /\ a = w.best_alt /\ ap = w.best_alt_prev
      OBVIOUS
    <3>1. Leads(b, S) /\ Leads(a, S \ {b}) /\ Behind(b, bp) /\ Behind(a, ap)
      BY <2>6
    <3>2. /\ walk'.cursor = At(waiting, k + 1) /\ walk'.previous = At(waiting, k + 1 - 1)
          /\ b = walk'.best /\ bp = walk'.best_prev
          /\ a = walk'.best_alt /\ ap = walk'.best_alt_prev /\ S = Seen(k + 1 - 1)
      BY <2>2, <2>3, <2>7
    <3> QED BY <1>1, <1>2, <2>3, <2>4, <2>7, <3>1, <3>2, RankingStays
  <2>9. Searching' /\ Destroying'
    BY <2>7 DEF Searching, Destroying
  <2> QED BY <1>1, <2>1, <2>7, <2>8, <2>9, MoveStep
<1> QED BY <1>3, <1>4

-----------------------------------------------------------------------------
(* The chain of the removed tasks.                                         *)
Pushed(t, f, m) == [i \in 1..m + 1 |-> IF i = 1 THEN t ELSE f[i - 1]]

LEMMA PushHangs ==
  ASSUME NEW m \in Nat, NEW f \in [1..m -> Tasks], NEW S, NEW a, NEW n, Hangs(a, n, f, S),
         NEW t \in Tasks, t \notin S,
         NEW n2, n2[t] = a, \A u \in S : n2[u] = n[u]
  PROVE  Pushed(t, f, m) \in [1..m + 1 -> Tasks] /\ Hangs(t, n2, Pushed(t, f, m), S \cup {t})
<1> DEFINE g == Pushed(t, f, m)
<1>1. /\ f \in Seq(Tasks) /\ Len(f) = m /\ DOMAIN f = 1..m
  OBVIOUS
<1>2. /\ IsInjective(f) /\ Range(f) = S /\ a = At(f, 1)
      /\ \A i \in 1..m : n[f[i]] = At(f, i + 1)
  BY <1>1 DEF Hangs
<1>3. \A i \in 1..m : f[i] \in Tasks /\ f[i] \in S
  BY <1>1, <1>2 DEF Range
<1>4. g \in [1..m + 1 -> Tasks] /\ m + 1 \in Nat
  <2>1. ASSUME NEW i \in 1..m + 1, i # 1 PROVE f[i - 1] \in Tasks
    BY <1>3, <2>1
  <2> QED BY <2>1 DEF Pushed
<1>5. /\ g \in Seq(Tasks) /\ Len(g) = m + 1 /\ DOMAIN g = 1..m + 1
  <2> HIDE DEF g
  <2>1. \A k \in Nat : \A h \in [1..k -> Tasks] :
          h \in Seq(Tasks) /\ Len(h) = k /\ DOMAIN h = 1..k
    OBVIOUS
  <2> QED BY <1>4, <2>1
<1>6. g[1] = t /\ \A i \in 1..m : g[i + 1] = f[i]
  BY DEF Pushed
<1> HIDE DEF g
<1>7. At(g, 1) = t /\ \A i \in Nat \ {0} : At(g, i + 1) = At(f, i)
  <2>1. At(g, 1) = t
    BY <1>5, <1>6 DEF At
  <2>2. ASSUME NEW i \in Nat \ {0} PROVE At(g, i + 1) = At(f, i)
    BY <1>1, <1>5, <1>6 DEF At
  <2> QED BY <2>1, <2>2
<1>8. \A i \in 1..m + 1 : i = 1 \/ (i - 1 \in 1..m /\ g[i] = f[i - 1])
  <2> SUFFICES ASSUME NEW i \in 1..m + 1, i # 1 PROVE i - 1 \in 1..m /\ g[i] = f[i - 1]
    OBVIOUS
  <2>1. i - 1 \in 1..m /\ i - 1 + 1 = i
    OBVIOUS
  <2> QED BY <1>6, <2>1
<1>9. IsInjective(g)
  <2> SUFFICES ASSUME NEW i \in 1..m + 1, NEW j \in 1..m + 1, g[i] = g[j] PROVE i = j
    BY <1>5 DEF IsInjective
  <2>1. CASE i = 1 \/ j = 1
    BY <1>3, <1>6, <1>8, <2>1
  <2>2. CASE i # 1 /\ j # 1
    <3>1. i - 1 \in 1..m /\ j - 1 \in 1..m /\ f[i - 1] = f[j - 1]
      BY <1>8, <2>2
    <3>2. i - 1 = j - 1
      BY <1>1, <1>2, <3>1 DEF IsInjective
    <3> QED BY <3>2
  <2> QED BY <2>1, <2>2
<1>10. Range(g) = S \cup {t}
  <2>1. ASSUME NEW i \in 1..m + 1 PROVE g[i] \in S \cup {t}
    BY <1>3, <1>6, <1>8
  <2>2. ASSUME NEW x \in S PROVE \E i \in 1..m + 1 : g[i] = x
    <3>1. PICK i \in 1..m : f[i] = x
      BY <1>1, <1>2 DEF Range
    <3>2. i + 1 \in 1..m + 1 /\ g[i + 1] = x
      BY <1>6, <3>1
    <3> QED BY <3>2
  <2>3. 1 \in 1..m + 1
    OBVIOUS
  <2>4. Range(g) = { g[i] : i \in 1..m + 1 }
    BY <1>5 DEF Range
  <2> QED BY <1>6, <2>1, <2>2, <2>3, <2>4
<1>11. ASSUME NEW i \in 1..m + 1 PROVE n2[g[i]] = At(g, i + 1)
  <2>1. CASE i = 1
    BY <1>2, <1>6, <1>7, <2>1
  <2>2. CASE i # 1
    <3>1. i - 1 \in 1..m /\ g[i] = f[i - 1] /\ i - 1 + 1 = i /\ i \in Nat \ {0}
      BY <1>8, <2>2
    <3>2. n2[f[i - 1]] = n[f[i - 1]] /\ n[f[i - 1]] = At(f, i)
      BY <1>2, <1>3, <3>1
    <3> QED BY <1>7, <3>1, <3>2
  <2> QED BY <2>1, <2>2
<1>12. Hangs(t, n2, g, S \cup {t})
  BY <1>5, <1>7, <1>9, <1>10, <1>11 DEF Hangs
<1> QED BY <1>4, <1>12 DEF g

LEMMA PopHangs ==
  ASSUME NEW m \in Nat, NEW f \in [1..m -> Tasks], NEW S, NEW t, NEW n, Hangs(t, n, f, S),
         t # NoTask, NEW n2, \A u \in S \ {t} : n2[u] = n[u]
  PROVE  /\ t \in S
         /\ \E m2 \in Nat : \E f2 \in [1..m2 -> Tasks] : Hangs(n[t], n2, f2, S \ {t})
<1> DEFINE g == Without(f, 1)
<1>1. /\ f \in Seq(Tasks) /\ Len(f) = m /\ DOMAIN f = 1..m
  OBVIOUS
<1>2. /\ IsInjective(f) /\ Range(f) = S /\ t = At(f, 1)
      /\ \A i \in 1..m : n[f[i]] = At(f, i + 1)
  BY <1>1 DEF Hangs
<1>3. 1 \in 1..Len(f) /\ 1 \in 1..m /\ t = f[1] /\ t \in S
  <2>1. 1 \in 1..m /\ t = f[1]
    BY <1>1, <1>2 DEF At
  <2> QED BY <1>1, <1>2, <2>1 DEF Range
<1>4. /\ g \in Seq(Tasks) /\ Len(g) = m - 1 /\ IsInjective(g) /\ Range(g) = S \ {t}
      /\ \A i \in Nat : At(g, i) = IF i < 1 THEN At(f, i) ELSE At(f, i + 1)
  BY <1>1, <1>2, <1>3, WithoutAt
<1> HIDE DEF g
<1>5. DOMAIN g = 1..m - 1 /\ m - 1 \in Nat /\ g \in [1..m - 1 -> Tasks]
  <2>1. \A h \in Seq(Tasks) : DOMAIN h = 1..Len(h) /\ h \in [1..Len(h) -> Tasks]
    OBVIOUS
  <2>2. m - 1 \in Nat
    BY <1>3
  <2> QED BY <1>4, <2>1, <2>2
<1>6. n[t] = At(g, 1)
  <2>1. ~(1 < 1) /\ 1 \in Nat /\ n[t] = At(f, 1 + 1)
    BY <1>2, <1>3
  <2> QED BY <1>4, <2>1
<1>7. ASSUME NEW i \in 1..m - 1 PROVE n2[g[i]] = At(g, i + 1)
  <2>1. /\ i \in Nat /\ i + 1 \in Nat /\ ~(i < 1) /\ ~(i + 1 < 1) /\ i + 1 \in 1..m
        /\ g[i] = At(g, i)
    BY <1>4 DEF At
  <2>2. At(g, i) = At(f, i + 1) /\ At(g, i + 1) = At(f, i + 1 + 1)
    BY <1>4, <2>1
  <2>3. g[i] = f[i + 1]
    BY <1>1, <2>1, <2>2 DEF At
  <2>4. g[i] \in S \ {t}
    BY <1>4, <1>5 DEF Range
  <2> QED BY <1>2, <2>1, <2>2, <2>3, <2>4
<1>8. Hangs(n[t], n2, g, S \ {t})
  BY <1>4, <1>6, <1>7 DEF Hangs
<1> QED BY <1>3, <1>5, <1>8

LEMMA LinksSame ==
  ASSUME NEW q \in Seq(Tasks), NEW h, NEW l, NEW n, Links(h, l, n, q),
         NEW n2, \A u \in Range(q) : n2[u] = n[u]
  PROVE  Links(h, l, n2, q)
<1>1. \A i \in 1..Len(q) : q[i] \in Range(q)
  BY Positions DEF Range
<1> QED BY <1>1 DEF Links

(* What Cancelling asks of a step within a cancellation.                   *)
LEMMA CancelStays ==
  ASSUME WInv, [QueueNext]_queue_vars, UNCHANGED waiting,
         \A t \in Tasks : task'[t].client = task[t].client,
         pc' # "destroyed", walk' \in WalkRecord, walk'.by = "cancel",
         walk'.client \in Clients, next' \in [Tasks -> Tasks \cup {NoTask}],
         NEW removed \in SUBSET Queued, NEW kept \in Unlink(waiting, removed),
         Links(waiting_head', waiting_tail', next', kept),
         NEW p \in 1..Len(kept) + 1,
         walk'.cursor = At(kept, p), walk'.previous = At(kept, p - 1),
         \A i \in 1..p - 1 : task[kept[i]].client # walk'.client,
         \A t \in removed : task[t].client = walk'.client,
         \A t \in removed : \A i \in p..Len(kept) : Earlier(t, kept[i]),
         walk'.freed \subseteq removed,
         \E m \in Nat : \E f \in [1..m -> Tasks] :
           Hangs(walk'.to_free, next', f, removed \ walk'.freed),
         \A t \in Tasks \ (Queued \ walk'.freed) : next'[t] = NoTask
  PROVE  WInv'
<1>1. IInv'
  BY QueueUses, NextIInv DEF WInv
<1>2. Queued' = Queued /\ Queued \subseteq Tasks
  BY ListFacts DEF Queued
<1>3. kept \in Seq(Tasks) /\ Len(kept) \in Nat /\ \A i \in 1..Len(kept) : kept[i] \in Tasks
  BY ListFacts, UnlinkLeaves, Positions
<1>4. Passed(kept, removed, p)'
  <2>1. \A i \in 1..p - 1 : task'[kept[i]].client # walk'.client
    BY <1>3
  <2>2. \A t \in removed : task'[t].client = walk'.client
    BY <1>2
  <2>3. \A t \in removed : \A i \in p..Len(kept) : Earlier(t, kept[i])'
    BY DEF Earlier
  <2> QED BY <2>1, <2>2, <2>3 DEF Passed
<1>5. Partition(kept, removed)'
  BY <1>2, <1>4 DEF Partition
<1>6. Cancelling'
  BY <1>2, <1>5 DEF Cancelling
<1>7. WalkTypeOK' /\ Whole' /\ Searching' /\ Ranking' /\ Destroying'
  BY DEF WalkTypeOK, Whole, Searching, Ranking, Destroying
<1> QED BY <1>1, <1>6, <1>7 DEF WInv

LEMMA KeptFacts ==
  ASSUME WInv, NEW removed \in SUBSET Queued, NEW kept \in Unlink(waiting, removed)
  PROVE  /\ kept \in Seq(Tasks) /\ IsInjective(kept) /\ Range(kept) = Queued \ removed
         /\ Len(kept) \in Nat /\ DOMAIN kept = 1..Len(kept)
         /\ \A i \in 1..Len(kept) : kept[i] \in Queued \ removed /\ kept[i] \in Tasks
         /\ \A i, j \in 1..Len(kept) : i < j => Earlier(kept[i], kept[j])
<1>1. /\ waiting \in Seq(Tasks) /\ IsInjective(waiting) /\ Range(waiting) = Queued
      /\ Queued \subseteq Tasks /\ DOMAIN waiting = 1..Len(waiting)
  BY ListFacts
<1>2. /\ kept \in Seq(Tasks) /\ IsInjective(kept) /\ Range(kept) = Queued \ removed
  BY <1>1, UnlinkLeaves
<1>3. Len(kept) \in Nat /\ DOMAIN kept = 1..Len(kept)
  BY <1>2, Positions
<1>4. \A i \in 1..Len(kept) : kept[i] \in Queued \ removed
  BY <1>2, <1>3 DEF Range
<1>5. ASSUME NEW i \in 1..Len(kept), NEW j \in 1..Len(kept), i < j
      PROVE  Earlier(kept[i], kept[j])
  <2>1. \A x, y \in DOMAIN kept : x < y =>
          \E k, l \in DOMAIN waiting : k < l /\ waiting[k] = kept[x] /\ waiting[l] = kept[y]
    BY DEF Unlink
  <2>2. i \in DOMAIN kept /\ j \in DOMAIN kept
    BY <1>3
  <2>3. PICK k \in DOMAIN waiting, l \in DOMAIN waiting :
           k < l /\ waiting[k] = kept[i] /\ waiting[l] = kept[j]
    BY <1>5, <2>1, <2>2, Zenon
  <2> QED BY <2>3 DEF Earlier
<1> QED BY <1>1, <1>2, <1>3, <1>4, <1>5

LEMMA BeginCancelStep ==
  ASSUME WInv, [QueueNext]_queue_vars, NEW c \in Clients, BeginCancel(c)
  PROVE  WInv'
<1>1. /\ walk.by = "nobody" /\ pc # "destroyed" /\ UNCHANGED <<vars, links>>
      /\ walk' = [NoWalk EXCEPT !.by = "cancel", !.client = c, !.cursor = waiting_head]
  BY DEF BeginCancel, Unlocked
<1>2. UNCHANGED <<waiting, links, task, pc>>
  BY <1>1 DEF vars
<1>3. /\ walk' \in WalkRecord /\ walk'.by = "cancel" /\ walk'.client = c
      /\ walk'.cursor = waiting_head /\ walk'.previous = NoTask
      /\ walk'.to_free = NoTask /\ walk'.freed = {}
  BY <1>1, NoWalkIs, AtHead DEF WalkRecord
<1>4. waiting \in Unlink(waiting, {}) /\ {} \in SUBSET Queued
  BY ListFacts, UnlinkNothing
<1>5. /\ next' \in [Tasks -> Tasks \cup {NoTask}]
      /\ Links(waiting_head', waiting_tail', next', waiting)
      /\ \A u \in Tasks \ (Queued \ {}) : next'[u] = NoTask
  BY <1>1, <1>2, ListStays, ListFacts
<1>6. /\ walk'.cursor = At(waiting, 1) /\ walk'.previous = At(waiting, 1 - 1)
      /\ 1 \in 1..Len(waiting) + 1
      /\ \A i \in 1..1 - 1 : task[waiting[i]].client # walk'.client
  BY <1>1, <1>3, AtHead
<1>7. \E m \in Nat : \E f \in [1..m -> Tasks] :
        Hangs(walk'.to_free, next', f, {} \ walk'.freed)
  <2>1. PICK f : f = [i \in 1..0 |-> NoTask]
    OBVIOUS
  <2>2. f \in [1..0 -> Tasks] /\ DOMAIN f = {} /\ Len(f) = 0 /\ 0 \in Nat
    BY <2>1
  <2>3. IsInjective(f) /\ Range(f) = {} /\ At(f, 1) = NoTask
    BY <2>2 DEF IsInjective, Range, At
  <2>4. Hangs(walk'.to_free, next', f, {} \ walk'.freed)
    BY <1>3, <2>2, <2>3 DEF Hangs
  <2> QED BY <2>2, <2>4
<1> PICK kept, removed : kept = waiting /\ removed = {}
  OBVIOUS
<1>8. removed \in SUBSET Queued /\ kept \in Unlink(waiting, removed)
  BY <1>4
<1> QED BY <1>1, <1>2, <1>3, <1>5, <1>6, <1>7, <1>8, CancelStays

LEMMA KeepStep ==
  ASSUME WInv, [QueueNext]_queue_vars, KeepTask
  PROVE  WInv'
<1>1. /\ walk.by = "cancel" /\ walk.cursor # NoTask
      /\ task[walk.cursor].client # walk.client
      /\ walk' = [walk EXCEPT !.previous = walk.cursor, !.cursor = next[walk.cursor]]
      /\ UNCHANGED <<waiting, links, task, pc>>
  BY DEF KeepTask, vars
<1>2. pc # "destroyed" /\ walk.client \in Clients
  BY <1>1 DEF WInv, Cancelling
<1>3. PICK removed \in SUBSET Queued : \E q \in Unlink(waiting, removed) : Partition(q, removed)
  BY <1>1 DEF WInv, Cancelling
<1> PICK kept \in Unlink(waiting, removed) : Partition(kept, removed)
  BY <1>3
<1>4. PICK p \in 1..Len(kept) + 1 : Passed(kept, removed, p)
  BY DEF Partition
<1>5. /\ kept \in Seq(Tasks) /\ Len(kept) \in Nat /\ p \in Int
  BY KeptFacts
<1>6. p \in 1..Len(kept) /\ walk.cursor = kept[p] /\ kept[p] \in Tasks
  BY <1>1, <1>4, <1>5, WalkEnds, Positions DEF Passed
<1> PICK k : k = p + 1
  OBVIOUS
<1>7. /\ next[walk.cursor] = At(kept, k) /\ next[walk.cursor] \in Tasks \cup {NoTask}
      /\ k \in 1..Len(kept) + 1 /\ k - 1 = p /\ walk.cursor = At(kept, p)
  BY <1>4, <1>5, <1>6, ListFacts DEF Partition, Links, Passed
<1>8. /\ walk' \in WalkRecord /\ walk'.by = "cancel" /\ walk'.client = walk.client
      /\ walk'.cursor = At(kept, k) /\ walk'.previous = At(kept, k - 1)
      /\ walk'.to_free = walk.to_free /\ walk'.freed = walk.freed
  BY <1>1, <1>6, <1>7 DEF WInv, WalkTypeOK, WalkRecord
<1>9. ASSUME NEW i \in 1..k - 1 PROVE task[kept[i]].client # walk'.client
  <2>1. i \in 1..p - 1 \/ i = p
    BY <1>6, <1>7
  <2> QED BY <1>1, <1>4, <1>6, <1>8, <2>1 DEF Passed
<1>10. ASSUME NEW t \in removed, NEW i \in k..Len(kept) PROVE Earlier(t, kept[i])
  <2>1. i \in p..Len(kept)
    BY <1>6, <1>7
  <2> QED BY <1>4, <2>1 DEF Passed
<1>11. \A t \in removed : task[t].client = walk'.client
  BY <1>4, <1>8 DEF Passed
<1>12. /\ next' \in [Tasks -> Tasks \cup {NoTask}]
       /\ Links(waiting_head', waiting_tail', next', kept)
       /\ walk'.freed \subseteq removed
       /\ \E m \in Nat : \E f \in [1..m -> Tasks] :
            Hangs(walk'.to_free, next', f, removed \ walk'.freed)
       /\ \A t \in Tasks \ (Queued \ walk'.freed) : next'[t] = NoTask
  BY <1>1, <1>8, ListFacts DEF Partition, links
<1> QED BY <1>1, <1>2, <1>7, <1>8, <1>9, <1>10, <1>11, <1>12, CancelStays

LEMMA RemoveStep ==
  ASSUME WInv, [QueueNext]_queue_vars, RemoveTask
  PROVE  WInv'
<1>0. PICK t, prev, link : t = walk.cursor /\ prev = walk.previous /\ link = walk.to_free
  OBVIOUS
<1>1. /\ walk.by = "cancel" /\ t # NoTask /\ task[t].client = walk.client
      /\ Cut(t, prev, link)
      /\ walk' = [walk EXCEPT !.cursor = next[t], !.to_free = t]
      /\ UNCHANGED <<waiting, task, pc>>
  BY <1>0 DEF RemoveTask, AfterRemoved, vars
<1>2. pc # "destroyed" /\ walk.client \in Clients /\ link \in Tasks \cup {NoTask}
  BY <1>0, <1>1, ListFacts DEF WInv, Cancelling
<1>3. PICK removed \in SUBSET Queued : \E q \in Unlink(waiting, removed) : Partition(q, removed)
  BY <1>1 DEF WInv, Cancelling
<1> PICK kept \in Unlink(waiting, removed) : Partition(kept, removed)
  BY <1>3
<1>4. PICK p \in 1..Len(kept) + 1 : Passed(kept, removed, p)
  BY DEF Partition
<1>5. /\ kept \in Seq(Tasks) /\ IsInjective(kept) /\ Len(kept) \in Nat /\ p \in Int
      /\ Range(kept) = Queued \ removed
      /\ \A i \in 1..Len(kept) : kept[i] \in Queued \ removed /\ kept[i] \in Tasks
      /\ \A i, j \in 1..Len(kept) : i < j => Earlier(kept[i], kept[j])
  BY KeptFacts
<1>6. p \in 1..Len(kept) /\ t = kept[p] /\ t \in Tasks /\ t \in Queued \ removed
      /\ prev = At(kept, p - 1)
  BY <1>0, <1>1, <1>4, <1>5, WalkEnds DEF Passed
<1>7. /\ waiting_head' = IF prev = NoTask THEN next[t] ELSE waiting_head
      /\ waiting_tail' = IF waiting_tail = t THEN prev ELSE waiting_tail
      /\ next' \in [Tasks -> Tasks \cup {NoTask}]
      /\ next'[t] = link
      /\ \A u \in Tasks \ {t} : next'[u] = IF u = prev THEN next[t] ELSE next[u]
  <2>1. t # prev /\ next \in [Tasks -> Tasks \cup {NoTask}]
    BY <1>5, <1>6, NotBehindItself, ListFacts
  <2>2. /\ waiting_head' = IF prev = NoTask THEN next[t] ELSE waiting_head
        /\ waiting_tail' = IF waiting_tail = t THEN prev ELSE waiting_tail
        /\ next' = [u \in Tasks |-> CASE u = t    -> link
                                      [] u = prev -> next[t]
                                      [] OTHER    -> next[u]]
    BY <1>1 DEF Cut
  <2>3. \A u \in Tasks : next'[u] = IF u = t THEN link
                                    ELSE IF u = prev THEN next[t] ELSE next[u]
    BY <2>1, <2>2
  <2>4. DOMAIN next' = Tasks /\ next' = [u \in DOMAIN next' |-> next'[u]]
    BY <2>2
  <2>5. \A u \in Tasks : next'[u] \in Tasks \cup {NoTask}
    BY <1>2, <1>6, <2>1, <2>3
  <2> QED BY <1>6, <2>2, <2>3, <2>4, <2>5
<1>8. PICK less, more : less = Without(kept, p) /\ more = removed \cup {t}
  OBVIOUS
<1>9. more \in SUBSET Queued /\ less \in Unlink(waiting, more)
  BY <1>6, <1>8, WithoutUnlink, ListFacts
<1>10. /\ less \in Seq(Tasks) /\ Len(less) = Len(kept) - 1
      /\ \A i \in Nat : At(less, i) = IF i < p THEN At(kept, i) ELSE At(kept, i + 1)
  BY <1>5, <1>6, <1>8, WithoutAt
<1>11. \A i \in 1..Len(kept) - 1 : less[i] = IF i < p THEN kept[i] ELSE kept[i + 1]
  BY <1>8 DEF Without
<1>12. /\ Links(waiting_head', waiting_tail', next', less)
       /\ \A u \in Tasks \ Range(kept) : next'[u] = next[u]
  <2>1. Links(waiting_head, waiting_tail, next, kept)
    BY DEF Partition
  <2>2. \A u \in Tasks \ {kept[p]} :
          next'[u] = IF u = At(kept, p - 1) THEN next[kept[p]] ELSE next[u]
    BY <1>6, <1>7
  <2> QED BY <1>5, <1>6, <1>7, <1>8, <2>1, <2>2, CutLinks
<1>13. /\ walk' \in WalkRecord /\ walk'.by = "cancel" /\ walk'.client = walk.client
       /\ walk'.cursor = next[t] /\ walk'.previous = prev
       /\ walk'.to_free = t /\ walk'.freed = walk.freed
  <2>1. walk \in WalkRecord /\ next[t] \in Tasks \cup {NoTask}
    BY <1>6, ListFacts DEF WInv, WalkTypeOK
  <2> QED BY <1>0, <1>1, <1>6, <2>1 DEF WalkRecord
<1>14. /\ p \in 1..Len(less) + 1 /\ p \in Nat /\ p - 1 \in Nat /\ p - 1 < p /\ ~(p < p)
       /\ walk'.cursor = At(less, p) /\ walk'.previous = At(less, p - 1)
  <2>1. p \in 1..Len(less) + 1 /\ p \in Nat /\ p - 1 \in Nat /\ p - 1 < p /\ ~(p < p)
    BY <1>5, <1>6, <1>10
  <2>2. next[t] = At(kept, p + 1)
    BY <1>6 DEF Partition, Links
  <2> QED BY <1>6, <1>10, <1>13, <2>1, <2>2
<1>15. ASSUME NEW i \in 1..p - 1 PROVE task[less[i]].client # walk'.client
  <2>1. i \in 1..Len(kept) - 1 /\ i < p
    BY <1>5, <1>6
  <2> QED BY <1>4, <1>11, <1>13, <2>1 DEF Passed
<1>16. \A u \in more : task[u].client = walk'.client
  BY <1>1, <1>4, <1>8, <1>13 DEF Passed
<1>17. ASSUME NEW u \in more, NEW i \in p..Len(less) PROVE Earlier(u, less[i])
  <2>1. /\ i \in 1..Len(kept) - 1 /\ ~(i < p) /\ i + 1 \in p..Len(kept)
        /\ i + 1 \in 1..Len(kept) /\ p < i + 1
    BY <1>5, <1>6, <1>10
  <2>2. less[i] = kept[i + 1]
    BY <1>11, <2>1
  <2>3. CASE u \in removed
    BY <1>4, <2>1, <2>2, <2>3 DEF Passed
  <2>4. CASE u = t
    BY <1>5, <1>6, <2>1, <2>2, <2>4
  <2> QED BY <1>8, <2>3, <2>4
<1>18. walk'.freed \subseteq more /\ t \notin walk.freed
  BY <1>6, <1>8, <1>13 DEF Partition
<1>19. \E m \in Nat : \E f \in [1..m -> Tasks] :
         Hangs(walk'.to_free, next', f, more \ walk'.freed)
  <2>0. PICK S : S = removed \ walk.freed
    OBVIOUS
  <2>1. PICK m \in Nat : \E f \in [1..m -> Tasks] : Hangs(link, next, f, S)
    BY <1>0, <2>0 DEF Partition
  <2>2. PICK f \in [1..m -> Tasks] : Hangs(link, next, f, S)
    BY <2>1
  <2>3. \A u \in S : next'[u] = next[u]
    <3>1. \A u \in S : u \in Tasks \ Range(kept)
      BY <1>5, <2>0, ListFacts
    <3> QED BY <1>12, <3>1
  <2>4. t \notin S /\ more \ walk'.freed = S \cup {t}
    BY <1>6, <1>13, <1>18, <1>8, <2>0
  <2>5. \E m2 \in Nat : \E f2 \in [1..m2 -> Tasks] : Hangs(t, next', f2, S \cup {t})
    <3>0. PICK n, n2 : n = next /\ n2 = next'
      OBVIOUS
    <3>1. /\ Hangs(link, n, f, S) /\ t \in Tasks /\ t \notin S
          /\ n2[t] = link /\ \A u \in S : n2[u] = n[u]
      BY <1>6, <1>7, <2>2, <2>3, <2>4, <3>0
    <3>2. Hangs(t, n2, Pushed(t, f, m), S \cup {t})
      BY <3>1, PushHangs
    <3>3. Pushed(t, f, m) \in [1..m + 1 -> Tasks] /\ m + 1 \in Nat
      BY <1>6 DEF Pushed
    <3> QED BY <3>0, <3>2, <3>3
  <2> QED BY <1>13, <2>4, <2>5
<1>20. ASSUME NEW u \in Tasks \ (Queued \ walk'.freed) PROVE next'[u] = NoTask
  <2>1. u \in Tasks \ (Queued \ walk.freed) /\ walk.freed \subseteq removed
    BY <1>13 DEF Partition
  <2>2. u \notin Range(kept)
    BY <1>5, <2>1
  <2> QED BY <1>12, <2>1, <2>2 DEF Partition
<1>21. \A u \in Tasks : task'[u].client = task[u].client
  BY <1>1
<1> QED BY <1>1, <1>2, <1>7, <1>9, <1>12, <1>13, <1>14, <1>15, <1>16, <1>17, <1>18,
           <1>19, <1>20, <1>21, CancelStays

LEMMA CleanUpStep ==
  ASSUME WInv, [QueueNext]_queue_vars, CleanUpTask
  PROVE  WInv'
<1>0. PICK t : t = walk.to_free
  OBVIOUS
<1>1. /\ walk.by = "cancel" /\ t # NoTask /\ walk.cursor = NoTask
      /\ walk' = [walk EXCEPT !.to_free = next[t], !.freed = @ \cup {t}]
      /\ next' = [next EXCEPT ![t] = NoTask]
      /\ UNCHANGED <<waiting, task, pc, waiting_head, waiting_tail>>
  BY <1>0 DEF CleanUpTask, vars
<1>2. pc # "destroyed" /\ walk.client \in Clients /\ t \in Tasks
  BY <1>0, <1>1, ListFacts DEF WInv, Cancelling
<1>3. PICK removed \in SUBSET Queued : \E q \in Unlink(waiting, removed) : Partition(q, removed)
  BY <1>1 DEF WInv, Cancelling
<1> PICK kept \in Unlink(waiting, removed) : Partition(kept, removed)
  BY <1>3
<1>4. PICK p \in 1..Len(kept) + 1 : Passed(kept, removed, p)
  BY DEF Partition
<1>5. /\ kept \in Seq(Tasks) /\ Range(kept) = Queued \ removed
      /\ Queued \subseteq Tasks /\ next \in [Tasks -> Tasks \cup {NoTask}]
  BY KeptFacts, ListFacts
<1>6. /\ next' \in [Tasks -> Tasks \cup {NoTask}] /\ next'[t] = NoTask
      /\ \A u \in Tasks \ {t} : next'[u] = next[u]
  BY <1>1, <1>2, <1>5
<1>7. /\ walk' \in WalkRecord /\ walk'.by = "cancel" /\ walk'.client = walk.client
      /\ walk'.cursor = walk.cursor /\ walk'.previous = walk.previous
      /\ walk'.to_free = next[t] /\ walk'.freed = walk.freed \cup {t}
  <2>1. walk \in WalkRecord /\ next[t] \in Tasks \cup {NoTask}
    BY <1>2, <1>5 DEF WInv, WalkTypeOK
  <2> QED BY <1>1, <1>2, <2>1 DEF WalkRecord
<1>8. t \in removed /\ t \notin walk.freed
      /\ \E m \in Nat : \E f \in [1..m -> Tasks] :
           Hangs(walk'.to_free, next', f, removed \ walk'.freed)
  <2>0. PICK S, n, n2 : S = removed \ walk.freed /\ n = next /\ n2 = next'
    OBVIOUS
  <2>1. PICK m \in Nat : \E f \in [1..m -> Tasks] : Hangs(t, n, f, S)
    BY <1>0, <2>0 DEF Partition
  <2>2. PICK f \in [1..m -> Tasks] : Hangs(t, n, f, S)
    BY <2>1
  <2>3. \A u \in S \ {t} : n2[u] = n[u]
    BY <1>5, <1>6, <2>0
  <2>4. /\ t \in S
        /\ \E m2 \in Nat : \E f2 \in [1..m2 -> Tasks] : Hangs(n[t], n2, f2, S \ {t})
    BY <1>1, <2>2, <2>3, PopHangs
  <2>5. S \ {t} = removed \ walk'.freed
    BY <1>7, <2>0
  <2> QED BY <1>7, <2>0, <2>4, <2>5
<1>9. Links(waiting_head', waiting_tail', next', kept)
  <2>0. PICK h, l, n, n2 : h = waiting_head /\ l = waiting_tail /\ n = next /\ n2 = next'
    OBVIOUS
  <2>1. Links(h, l, n, kept) /\ \A u \in Range(kept) : n2[u] = n[u]
    BY <1>5, <1>6, <1>8, <2>0 DEF Partition
  <2>2. Links(h, l, n2, kept)
    BY <1>5, <2>1, LinksSame
  <2> QED BY <1>1, <2>0, <2>2
<1>10. /\ walk'.cursor = At(kept, p) /\ walk'.previous = At(kept, p - 1)
       /\ \A i \in 1..p - 1 : task[kept[i]].client # walk'.client
       /\ \A u \in removed : task[u].client = walk'.client
       /\ \A u \in removed : \A i \in p..Len(kept) : Earlier(u, kept[i])
  BY <1>4, <1>7 DEF Passed
<1>11. walk'.freed \subseteq removed
  BY <1>7, <1>8 DEF Partition
<1>12. ASSUME NEW u \in Tasks \ (Queued \ walk'.freed) PROVE next'[u] = NoTask
  <2>1. u = t \/ u \in Tasks \ (Queued \ walk.freed)
    BY <1>7, <1>12
  <2>2. \A v \in Tasks \ (Queued \ walk.freed) : next[v] = NoTask
    BY DEF Partition
  <2> QED BY <1>6, <2>1, <2>2
<1> QED BY <1>1, <1>2, <1>6, <1>7, <1>8, <1>9, <1>10, <1>11, <1>12, CancelStays

LEMMA EndCancelStep ==
  ASSUME WInv, [QueueNext]_queue_vars, EndCancel
  PROVE  WInv'
<1>1. walk' = NoWalk /\ UNCHANGED links
  BY DEF EndCancel
<1>2. /\ Links(waiting_head, waiting_tail, next, waiting')
      /\ \A t \in Tasks \ Range(waiting') : next[t] = NoTask
  BY EndCancelUses
<1>3. waiting_head' = waiting_head /\ waiting_tail' = waiting_tail /\ next' = next
  BY <1>1 DEF links
<1> QED BY <1>1, <1>2, <1>3, NoWalkIs, ListFacts, FreeStep

(* The executor and the condition variable, beside a walk.                 *)
LEMMA BesideStep ==
  ASSUME WInv, [QueueNext]_queue_vars, ~Unlocked,
         QueueExecutor \/ UNCHANGED queue_vars
  PROVE  WInv'
<1>1. UNCHANGED <<waiting, links, walk>>
  BY DEF QueueExecutor, Executor, ExecutorWorks, ExecutorReturns, SpuriousWakeup,
         queue_vars, vars
<1>2. /\ waiting_head' = waiting_head /\ waiting_tail' = waiting_tail /\ next' = next
      /\ walk' = walk /\ waiting' = waiting
  BY <1>1 DEF links
<1>3. CASE walk.by = "cancel"
  <2>1. pc # "destroyed" /\ walk.client \in Clients
    BY <1>3 DEF WInv, Cancelling
  <2>2. pc' # "destroyed"
    BY <2>1 DEF QueueExecutor, Executor, ExecutorWorks, ExecutorReturns, SpuriousWakeup,
       queue_vars, vars
  <2>3. \A t \in Tasks : task'[t].client = task[t].client
    <3>1. \/ UNCHANGED task
          \/ \E left : task' = [task EXCEPT ![current_task].remaining = left]
      BY DEF QueueExecutor, Executor, ExecutorWorks, ExecutorReturns, SpuriousWakeup,
         queue_vars, vars
    <3>2. CASE \E left : task' = [task EXCEPT ![current_task].remaining = left]
      <4>1. PICK left : task' = [task EXCEPT ![current_task].remaining = left]
        BY <3>2
      <4> SUFFICES ASSUME NEW t \in Tasks PROVE task'[t].client = task[t].client
        OBVIOUS
      <4>2. task'[t] = task[t] \/ task'[t] = [task[t] EXCEPT !.remaining = left]
        BY <4>1, ListFacts
      <4>3. task[t] \in TaskRecord
        BY ListFacts
      <4> QED BY <4>2, <4>3 DEF TaskRecord
    <3> QED BY <3>1, <3>2
  <2>4. PICK removed \in SUBSET Queued : \E q \in Unlink(waiting, removed) : Partition(q, removed)
    BY <1>3 DEF WInv, Cancelling
  <2> PICK kept \in Unlink(waiting, removed) : Partition(kept, removed)
    BY <2>4
  <2>5. PICK p \in 1..Len(kept) + 1 : Passed(kept, removed, p)
    BY DEF Partition
  <2>6. /\ walk'.cursor = At(kept, p) /\ walk'.previous = At(kept, p - 1)
        /\ \A i \in 1..p - 1 : task[kept[i]].client # walk'.client
        /\ \A u \in removed : task[u].client = walk'.client
        /\ \A u \in removed : \A i \in p..Len(kept) : Earlier(u, kept[i])
    BY <1>2, <2>5 DEF Passed
  <2>7. /\ next' \in [Tasks -> Tasks \cup {NoTask}]
        /\ Links(waiting_head', waiting_tail', next', kept)
        /\ walk'.freed \subseteq removed
        /\ \E m \in Nat : \E f \in [1..m -> Tasks] :
             Hangs(walk'.to_free, next', f, removed \ walk'.freed)
        /\ \A t \in Tasks \ (Queued \ walk'.freed) : next'[t] = NoTask
    BY <1>2, ListFacts DEF Partition
  <2>8. walk' \in WalkRecord /\ walk'.by = "cancel" /\ walk'.client \in Clients
    BY <1>2, <1>3, <2>1 DEF WInv, WalkTypeOK
  <2> QED BY <1>2, <2>2, <2>3, <2>6, <2>7, <2>8, CancelStays
<1>4. CASE walk.by # "cancel"
  <2>1. pc \in {"locking", "exited"}
    BY <1>4 DEF WInv, WalkTypeOK, WalkRecord, Unlocked, Searching, Ranking, Destroying,
       MayDispatch
  <2>2. UNCHANGED queue_vars
    BY <2>1 DEF QueueExecutor, Executor, ExecutorWorks, ExecutorReturns, SpuriousWakeup
  <2>3. UNCHANGED <<vars, links>> /\ UNCHANGED vars
    BY <2>2 DEF queue_vars
  <2>4. walk' \in WalkRecord /\ walk'.by # "cancel"
    BY <1>2, <1>4 DEF WInv, WalkTypeOK
  <2>5. Searching'
    <3>1. Searching
      BY DEF WInv
    <3> QED BY <1>2, <2>3, <3>1 DEF Searching, MayDispatch, StopNow, vars
  <2>6. Ranking'
    <3>1. CASE walk.by # "programs"
      BY <1>2, <3>1 DEF Ranking
    <3>2. CASE walk.by = "programs"
      <4>1. PICK k \in 1..Len(waiting) + 1 :
             /\ walk.cursor = At(waiting, k)
             /\ walk.previous = At(waiting, k - 1)
             /\ Leads(walk.best, Seen(k - 1))
             /\ Leads(walk.best_alt, Seen(k - 1) \ {walk.best})
        BY <3>2 DEF WInv, Ranking
      <4>2. /\ MayDispatch /\ \A t \in Queued : task[t].type = "program"
            /\ Behind(walk.best, walk.best_prev)
            /\ Behind(walk.best_alt, walk.best_alt_prev)
        BY <3>2 DEF WInv, Ranking
      <4>3. MayDispatch' /\ UNCHANGED <<task, waiting>>
        BY <2>3, <4>2 DEF MayDispatch, StopNow, vars
      <4>4. PICK S, b, bp, a, ap :
              /\ S = Seen(k - 1) /\ b = walk.best /\ bp = walk.best_prev
              /\ a = walk.best_alt /\ ap = walk.best_alt_prev
        OBVIOUS
      <4>5. Leads(b, S) /\ Leads(a, S \ {b}) /\ Behind(b, bp) /\ Behind(a, ap)
        BY <4>1, <4>2, <4>4
      <4> QED BY <1>2, <3>2, <4>1, <4>2, <4>3, <4>4, <4>5, RankingStays
    <3> QED BY <3>1, <3>2
  <2>7. Destroying'
    <3>1. Destroying
      BY DEF WInv
    <3> QED BY <1>2, <2>3, <3>1 DEF Destroying, Seen, vars
  <2> QED BY <1>4, <2>3, <2>4, <2>5, <2>6, <2>7, MoveStep
<1> QED BY <1>3, <1>4

-----------------------------------------------------------------------------
(* The invariant, and what follows.                                        *)
LEMMA InitWInv == QueueInit => WInv
<1> SUFFICES ASSUME QueueInit PROVE WInv
  OBVIOUS
<1>1. /\ IInv /\ waiting = <<>> /\ waiting_head = NoTask /\ waiting_tail = NoTask
      /\ next = [t \in Tasks |-> NoTask] /\ walk = NoWalk
  BY InitIInv DEF QueueInit, Init
<1>2. WalkTypeOK
  BY <1>1, NoWalkIs DEF WalkTypeOK
<1>3. Whole
  <2>1. Len(waiting) = 0
    BY <1>1
  <2> QED BY <1>1, <2>1 DEF Whole, Links, At
<1>4. Searching /\ Ranking /\ Cancelling /\ Destroying
  BY <1>1, NoWalkIs DEF Searching, Ranking, Cancelling, Destroying
<1> QED BY <1>1, <1>2, <1>3, <1>4 DEF WInv

LEMMA NextWInv == WInv /\ [QueueNext]_queue_vars => WInv'
<1> SUFFICES ASSUME WInv, [QueueNext]_queue_vars PROVE WInv'
  OBVIOUS
<1>1. CASE QueueExecutor \/ UNCHANGED queue_vars
  BY <1>1, BesideStep, FreeSteps
<1>2. CASE OtherLocked \/ FindNothing \/ EndDestroy
           \/ (Unlocked /\ RequestStop /\ UNCHANGED <<links, walk>>)
  BY <1>2, FreeSteps
<1>3. CASE TakeShell \/ TakeProgram
  BY <1>3, TakeSteps
<1>4. CASE \/ QueueRequeue
           \/ \E c \in Clients, type \in Types, predicted \in 0..MaxBurst :
                QueueSubmit(c, type, predicted)
  BY <1>4, LinkSteps
<1>5. CASE BeginDequeue \/ SkipProgram
  BY <1>5, SearchSteps
<1>6. CASE BeginChoose \/ RankProgram
  BY <1>6, RankSteps
<1>7. CASE \E c \in Clients : BeginCancel(c)
  BY <1>7, BeginCancelStep
<1>8. CASE KeepTask
  BY <1>8, KeepStep
<1>9. CASE RemoveTask
  BY <1>9, RemoveStep
<1>10. CASE CleanUpTask
  BY <1>10, CleanUpStep
<1>11. CASE EndCancel
  BY <1>11, EndCancelStep
<1>12. CASE BeginDestroy \/ DestroyTask
  BY <1>12, DestroySteps
<1> QED BY <1>1, <1>2, <1>3, <1>4, <1>5, <1>6, <1>7, <1>8, <1>9, <1>10, <1>11, <1>12
        DEF QueueNext, QueueThread, Dequeue, QueueCallers, FinishCancel

LEMMA QueueInvariance == QueueSpec => []WInv
<1>1. QueueInit => WInv
  BY InitWInv
<1>2. WInv /\ [QueueNext]_queue_vars => WInv'
  BY NextWInv
<1> QED BY <1>1, <1>2, PTL DEF QueueSpec

LEMMA ChainIs ==
  ASSUME NEW q \in Seq(Tasks), NEW a, a = At(q, 1),
         \A i \in 1..Len(q) : next[q[i]] = At(q, i + 1)
  PROVE  Chain(a, q)
<1>1. Len(q) \in Nat /\ DOMAIN q = 1..Len(q) /\ (q = <<>> <=> Len(q) = 0)
  OBVIOUS
<1>2. a = IF q = <<>> THEN NoTask ELSE q[1]
  BY <1>1 DEF At
<1>3. ASSUME NEW i \in DOMAIN q
      PROVE  next[q[i]] = IF i = Len(q) THEN NoTask ELSE q[i + 1]
  <2>1. i \in 1..Len(q) /\ (i + 1 \in 1..Len(q) <=> i # Len(q))
    BY <1>1
  <2> QED BY <2>1 DEF At
<1> QED BY <1>2, <1>3 DEF Chain

LEMMA LinksRepresent ==
  ASSUME NEW q \in Seq(Tasks), Links(waiting_head, waiting_tail, next, q)
  PROVE  Represents(q)
<1>1. PICK a : a = waiting_head
  OBVIOUS
<1>2. Chain(a, q)
  BY <1>1, ChainIs DEF Links
<1>3. waiting_tail = IF q = <<>> THEN NoTask ELSE q[Len(q)]
  <2>1. Len(q) \in Nat /\ (q = <<>> <=> Len(q) = 0) /\ waiting_tail = At(q, Len(q))
    BY DEF Links
  <2> QED BY <2>1 DEF At
<1> QED BY <1>1, <1>2, <1>3 DEF Represents, Chain

(* Head, tail and next pointers are the list of the waiting tasks whenever *)
(* the mutex is free and during every search, for lists of any length.     *)
THEOREM PointersAreTheList == QueueSpec => []ListIsQueue
<1>1. WInv => ListIsQueue
  <2> SUFFICES ASSUME WInv, walk.by # "cancel"
               PROVE  Represents(waiting) /\ \A t \in Tasks \ Queued : next[t] = NoTask
    BY DEF ListIsQueue
  <2>1. /\ Links(waiting_head, waiting_tail, next, waiting) /\ waiting \in Seq(Tasks)
        /\ \A t \in Tasks \ Queued : next[t] = NoTask
    BY ListFacts DEF WInv, Whole
  <2>2. PICK q : q = waiting
    OBVIOUS
  <2>3. Represents(q)
    BY <2>1, <2>2, LinksRepresent
  <2> QED BY <2>1, <2>2, <2>3 DEF Represents, Chain
<1> QED BY <1>1, QueueInvariance, PTL

(* At every step of a cancellation each task of the list is in exactly one *)
(* place: linked, in order; or removed and hanging on to_free; or freed.   *)
THEOREM CancellationPartitions == QueueSpec => []CancelPartitions
<1>1. WInv => CancelPartitions
  <2> SUFFICES ASSUME WInv, walk.by = "cancel"
               PROVE  /\ \E kept \in Unlink(waiting, Removed) : Represents(kept)
                      /\ \E n \in 0..MaxTasks : \E f \in [1..n -> Tasks] :
                           /\ IsInjective(f)
                           /\ Range(f) = Removed \ walk.freed
                           /\ Chain(walk.to_free, f)
    BY DEF CancelPartitions
  <2>1. PICK removed \in SUBSET Queued : \E q \in Unlink(waiting, removed) : Partition(q, removed)
    BY DEF WInv, Cancelling
  <2> PICK kept \in Unlink(waiting, removed) : Partition(kept, removed)
    BY <2>1
  <2>2. PICK p \in 1..Len(kept) + 1 : Passed(kept, removed, p)
    BY DEF Partition
  <2>3. /\ kept \in Seq(Tasks) /\ Range(kept) = Queued \ removed /\ Len(kept) \in Nat
        /\ DOMAIN kept = 1..Len(kept)
        /\ \A i \in 1..Len(kept) : kept[i] \in Queued \ removed /\ kept[i] \in Tasks
        /\ \A i, j \in 1..Len(kept) : i < j => Earlier(kept[i], kept[j])
    BY KeptFacts
  <2>4. /\ Len(waiting) \in Nat /\ DOMAIN waiting = 1..Len(waiting)
        /\ \A k \in 1..Len(waiting) : waiting[k] \in Queued
        /\ \A t \in Queued : \E k \in 1..Len(waiting) : waiting[k] = t
        /\ \A i, j \in 1..Len(waiting) : waiting[i] = waiting[j] => i = j
        /\ NoTask \notin Queued /\ Queued \subseteq Tasks
    BY ListFacts
  <2>5. Removed = removed
    <3>1. ASSUME NEW t \in removed PROVE t \in Removed
      <4>1. PICK k \in DOMAIN waiting : waiting[k] = t
        BY <2>4
      <4>2. task[t].client = walk.client
        BY <2>2 DEF Passed
      <4>3. ASSUME NEW j \in 1..k, waiting[j] = walk.cursor PROVE FALSE
        <5>1. walk.cursor \in Queued /\ j \in 1..Len(waiting) /\ k \in 1..Len(waiting)
          BY <2>4, <4>3
        <5>2. p \in 1..Len(kept) /\ walk.cursor = kept[p] /\ p \in p..Len(kept)
          BY <2>2, <2>3, <2>4, <5>1, WalkEnds DEF Passed
        <5>3. Earlier(t, kept[p])
          BY <2>2, <5>2 DEF Passed
        <5>4. PICK x \in DOMAIN waiting, y \in DOMAIN waiting :
                 x < y /\ waiting[x] = t /\ waiting[y] = kept[p]
          BY <5>3 DEF Earlier
        <5>5. x = k /\ y = j
          BY <2>4, <4>1, <4>3, <5>1, <5>2, <5>4
        <5> QED BY <2>4, <4>3, <5>1, <5>4, <5>5
      <4> QED BY <4>1, <4>2, <4>3 DEF Removed
    <3>2. ASSUME NEW t \in Removed, t \notin removed PROVE FALSE
      <4>1. PICK k \in DOMAIN waiting :
               /\ waiting[k] = t /\ task[t].client = walk.client
               /\ \A j \in 1..k : waiting[j] # walk.cursor
        BY <3>2 DEF Removed
      <4>2. t \in Range(kept)
        BY <2>3, <2>4, <3>2, <4>1
      <4>3. PICK i \in 1..Len(kept) : kept[i] = t
        BY <2>3, <4>2 DEF Range
      <4>4. ~(i \in 1..p - 1)
        BY <2>2, <4>1, <4>3 DEF Passed
      <4>5. p \in 1..Len(kept) /\ (p = i \/ p < i)
        BY <2>3, <4>4
      <4>6. walk.cursor = kept[p]
        BY <2>2, <2>3, <4>5, Positions DEF Passed
      <4>7. k \in 1..k
        BY <2>4
      <4>8. CASE p = i
        BY <4>1, <4>3, <4>6, <4>7, <4>8
      <4>9. CASE p < i
        <5>1. PICK x \in DOMAIN waiting, y \in DOMAIN waiting :
                 x < y /\ waiting[x] = kept[p] /\ waiting[y] = kept[i]
          BY <2>3, <4>5, <4>9 DEF Earlier
        <5>2. y = k
          BY <2>4, <4>1, <4>3, <5>1
        <5>3. x \in 1..k
          BY <2>4, <5>1, <5>2
        <5> QED BY <4>1, <4>6, <5>1, <5>3
      <4> QED BY <4>5, <4>8, <4>9
    <3> QED BY <3>1, <3>2
  <2>6. Represents(kept)
    BY <2>3, LinksRepresent DEF Partition
  <2>7. PICK n \in Nat : \E f \in [1..n -> Tasks] :
               Hangs(walk.to_free, next, f, removed \ walk.freed)
    BY DEF Partition
  <2>8. PICK f \in [1..n -> Tasks] : Hangs(walk.to_free, next, f, removed \ walk.freed)
    BY <2>7
  <2>9. /\ f \in Seq(Tasks) /\ Len(f) = n /\ IsInjective(f)
        /\ Range(f) = removed \ walk.freed
    BY <2>8 DEF Hangs
  <2>10. Chain(walk.to_free, f)
    <3>1. PICK a : a = walk.to_free
      OBVIOUS
    <3>2. a = At(f, 1) /\ \A i \in 1..Len(f) : next[f[i]] = At(f, i + 1)
      BY <2>8, <3>1 DEF Hangs
    <3>3. Chain(a, f)
      BY <2>9, <3>2, ChainIs
    <3> QED BY <3>1, <3>3 DEF Chain
  <2>11. n \in 0..MaxTasks
    <3>1. Cardinality(Range(f)) = n /\ Range(f) \subseteq Tasks
      BY <2>4, <2>9, InjectiveLength
    <3>2. MaxTasks \in Nat
      BY SchedulerAssumption DEF SchedulerAssumption
    <3>3. IsFiniteSet(Tasks) /\ Cardinality(Tasks) = MaxTasks
      BY <3>2, FS_Interval DEF Tasks
    <3>4. Cardinality(Range(f)) <= Cardinality(Tasks)
      BY <3>1, <3>3, FS_Subset
    <3> QED BY <3>1, <3>2, <3>3, <3>4
  <2> QED BY <2>5, <2>6, <2>9, <2>10, <2>11
<1> QED BY <1>1, QueueInvariance, PTL

(* The loops dispatch, cancel and free exactly what Scheduler says, so     *)
(* that what is proved of Scheduler holds of the list the code keeps.      *)
THEOREM ListIsScheduler == QueueSpec => ImplementsScheduler
<1>1. QueueInit => Init
  BY DEF QueueInit
<1>2. WInv /\ [QueueNext]_queue_vars => [Next]_vars
  BY QueueUses
<1> QED BY <1>1, <1>2, QueueInvariance, PTL DEF QueueSpec, ImplementsScheduler, Spec
=============================================================================
