------------------------- MODULE WriteScheduleProofs ------------------------
(***************************************************************************)
(* WriteSchedule: the frontier of add_write_dependencies orders every two  *)
(* conflicting writes, adds no needless edge, and remembers the latest     *)
(* writer of each byte, for any number of writes and any ranges.           *)
(*                                                                         *)
(* That conflicting writes are ordered is not inductive: the frontier      *)
(* forgets overwritten writers.  Covered says why this does no harm: each  *)
(* byte of a write since the last append lies in a fragment of the write   *)
(* itself or of one that is ordered after it.                              *)
(***************************************************************************)
EXTENDS WriteSchedule, TLAPS

Fragments == [left: Int, right: Int, writer: Int]
Within(b, left, right) == left <= b /\ b < right

Disjoint(F) == \A x, y \in F : x = y \/ x.right <= y.left \/ y.right <= x.left

\* F, a: the frontier built from the first m writes of W.
Frontier(W, F, a, m) ==
  /\ F \subseteq Fragments /\ a \in 0..m
  /\ Disjoint(F)
  /\ \A x \in F : /\ x.left < x.right
                  /\ x.writer \in (a + 1)..m
                  /\ W[x.writer].start <= x.left /\ x.right <= W[x.writer].end
                  /\ \A j \in (x.writer + 1)..m : W[j].end <= x.left \/ x.right <= W[j].start
  /\ a # 0 => W[a].append
  /\ \A i \in (a + 1)..m : ~W[i].append

\* Every byte of a write after the last append has a fragment whose writer is
\* that write or comes after it in B.
Covered(W, F, a, m, B) ==
  \A i \in (a + 1)..m : \A b \in Int : Within(b, W[i].start, W[i].end) =>
    \E x \in F : Within(b, x.left, x.right) /\ (x.writer = i \/ <<i, x.writer>> \in B)

\* The first m writes are ordered by B where they conflict.
Ordered(W, m, B) ==
  \A j \in 1..m : \A i \in 1..(j - 1) : Conflict(W[i], W[j]) => <<i, j>> \in B

\* A write of D is write i or comes after it in B.
Reached(D, i, B) == \E d \in D : d = i \/ <<i, d>> \in B

\* The writes whose edges exist.
Added == IF adding THEN n - 1 ELSE n

EdgeInv == \A e \in edges : \E j \in 1..n : \E i \in 1..(j - 1) :
             e = <<i, j>> /\ Conflict(writes[i], writes[j])

Inv ==
  /\ writes \in Seq(Ranges) /\ adding \in BOOLEAN
  /\ adding => n > 0
  /\ moved \in 0..Added
  /\ Frontier(writes, ranges, append, moved)
  /\ Covered(writes, ranges, append, moved, before)
  /\ ConflictsOrdered
  /\ EdgeInv

-----------------------------------------------------------------------------
(* The operators.                                                          *)

\* Hit finds every fragment that shares a byte with the new range.
LEMMA HitFinds ==
  ASSUME NEW F \in SUBSET Fragments, Disjoint(F), \A x \in F : x.left < x.right,
         NEW r \in Ranges, NEW x \in F, NEW b \in Int,
         Within(b, x.left, x.right), Within(b, r.start, r.end)
  PROVE  x \in Hit(F, r)
<1>1. CASE r.start <= x.left
  BY <1>1 DEF Hit, Within, Fragments, Ranges
<1>2. CASE x.left < r.start
  <2>1. ASSUME NEW y \in F, y.left <= r.start PROVE y.left <= x.left
    <3>1. x = y \/ x.right <= y.left \/ y.right <= x.left
      BY DEF Disjoint
    <3>2. y.left < y.right
      OBVIOUS
    <3> QED
      BY <2>1, <3>1, <3>2 DEF Within, Fragments, Ranges
  <2> QED
    BY <1>2, <2>1 DEF Hit, Within, Fragments, Ranges
<1> QED
  BY <1>1, <1>2 DEF Fragments, Ranges

\* ... and only those.
LEMMA HitShares ==
  ASSUME NEW F \in SUBSET Fragments, \A x \in F : x.left < x.right, NEW r \in Ranges,
         NEW x \in Hit(F, r)
  PROVE  x \in F /\ x.left < r.end /\ r.start < x.right
<1>1. x \in F /\ x.left < x.right
  BY DEF Hit
<1> QED
  BY <1>1 DEF Hit, Fragments, Ranges

\* z is what insert leaves of the fragment x.
Remnant(z, x, r) ==
  /\ z \in Fragments /\ z.writer = x.writer
  /\ x.left <= z.left /\ z.left < z.right /\ z.right <= x.right
  /\ z.right <= r.start \/ r.end <= z.left

Kept(F, r) == (F \ Hit(F, r)) \cup Heads(F, r) \cup Tails(F, r)

LEMMA KeptRemnants ==
  ASSUME NEW F \in SUBSET Fragments, Disjoint(F), \A x \in F : x.left < x.right,
         NEW r \in Ranges, NEW z \in Kept(F, r)
  PROVE  \E x \in F : Remnant(z, x, r)
<1>1. CASE z \in F \ Hit(F, r)
  <2>1. z.right <= r.start \/ r.end <= z.left
    <3> SUFFICES ASSUME r.start < z.right, z.left < r.end PROVE z \in Hit(F, r)
      BY <1>1 DEF Fragments, Ranges
    <3> DEFINE b == IF z.left <= r.start THEN r.start ELSE z.left
    <3>1. b \in Int /\ Within(b, z.left, z.right) /\ Within(b, r.start, r.end)
      BY <1>1 DEF Fragments, Ranges, Within
    <3> HIDE DEF b
    <3> QED
      BY <1>1, <3>1, HitFinds
  <2> QED
    BY <1>1, <2>1 DEF Remnant, Fragments
<1>2. CASE z \in Heads(F, r)
  <2>1. PICK x \in Hit(F, r) : x.left < r.start /\ z = [x EXCEPT !.right = r.start]
    BY <1>2 DEF Heads
  <2>2. x \in F /\ x.left < r.end /\ r.start < x.right
    BY HitShares
  <2> QED
    BY <2>1, <2>2 DEF Remnant, Fragments, Ranges
<1>3. CASE z \in Tails(F, r)
  <2>1. PICK x \in Hit(F, r) : r.end < x.right /\ z = [x EXCEPT !.left = r.end]
    BY <1>3 DEF Tails
  <2>2. x \in F /\ x.left < r.end /\ r.start < x.right
    BY HitShares
  <2> QED
    BY <2>1, <2>2 DEF Remnant, Fragments, Ranges
<1> QED
  BY <1>1, <1>2, <1>3 DEF Kept

\* Two remnants of one fragment are equal or apart.
LEMMA KeptDisjoint ==
  ASSUME NEW F \in SUBSET Fragments, Disjoint(F), \A x \in F : x.left < x.right, NEW r \in Ranges
  PROVE  Disjoint(Kept(F, r))
<1> SUFFICES ASSUME NEW y \in Kept(F, r), NEW z \in Kept(F, r)
             PROVE  y = z \/ y.right <= z.left \/ z.right <= y.left
  BY DEF Disjoint
<1> DEFINE From(u, x) == \/ u = x /\ x \notin Hit(F, r)
                         \/ x \in Hit(F, r) /\ u = [x EXCEPT !.right = r.start] /\ x.left < r.start
                         \/ x \in Hit(F, r) /\ u = [x EXCEPT !.left = r.end] /\ r.end < x.right
<1>1. ASSUME NEW u \in Kept(F, r) PROVE \E x \in F : From(u, x)
  <2>1. Hit(F, r) \subseteq F
    BY DEF Hit
  <2> QED
    BY <2>1 DEF Kept, Heads, Tails
<1>2. PICK x \in F : From(y, x)
  BY <1>1
<1>3. PICK w \in F : From(z, w)
  BY <1>1
<1>4. ASSUME NEW u, NEW v \in F, From(u, v) PROVE v.left <= u.left /\ u.right <= v.right /\ u \in Fragments
  <2>1. v \in Hit(F, r) => v.left < r.end /\ r.start < v.right
    BY HitShares
  <2> QED
    BY <1>4, <2>1 DEF Fragments, Ranges
<1>5. CASE x = w
  <2>1. r.start < r.end
    BY DEF Ranges
  <2> QED
    BY <1>2, <1>3, <1>5, <2>1, SMTT(30) DEF Fragments, Ranges
<1>6. CASE x # w
  <2>1. x.right <= w.left \/ w.right <= x.left
    BY <1>6 DEF Disjoint
  <2>2. /\ x.left <= y.left /\ y.right <= x.right /\ y \in Fragments
        /\ w.left <= z.left /\ z.right <= w.right /\ z \in Fragments
    BY <1>2, <1>3, <1>4
  <2> QED
    BY <2>1, <2>2 DEF Fragments
<1> QED
  BY <1>5, <1>6

\* What W offers for the write to insert.
LEMMA RangeTypes ==
  ASSUME NEW W \in Seq(Ranges), NEW i \in 1..Len(W)
  PROVE  /\ W[i] \in Ranges /\ W[i].start \in Int /\ W[i].end \in Int
         /\ W[i].append \in BOOLEAN /\ W[i].start < W[i].end
<1>1. W[i] \in Ranges
  OBVIOUS
<1> QED
  BY <1>1 DEF Ranges

\* WriteFrontier::insert keeps the frontier a map to the latest writers.
LEMMA InsertFrontier ==
  ASSUME NEW W \in Seq(Ranges), NEW m \in Nat, m + 1 <= Len(W), NEW F, NEW a, Frontier(W, F, a, m)
  PROVE  Frontier(W, Replaced(F, W[m + 1], m + 1), LastAppend(a, W[m + 1], m + 1), m + 1)
<1> DEFINE r == W[m + 1]
           G == Replaced(F, r, m + 1)
           c == LastAppend(a, r, m + 1)
<1>1. r \in Ranges /\ r.start \in Int /\ r.end \in Int /\ r.append \in BOOLEAN /\ r.start < r.end
  BY RangeTypes
<1>2. /\ F \in SUBSET Fragments /\ a \in 0..m /\ Disjoint(F) /\ \A x \in F : x.left < x.right
  BY DEF Frontier
<1>3. CASE r.append
  <2>1. G = {} /\ c = m + 1
    BY <1>3 DEF Replaced, LastAppend
  <2> QED
    BY <1>1, <1>2, <1>3, <2>1 DEF Frontier, Disjoint
<1>4. CASE ~r.append
  <2> DEFINE new == [left |-> r.start, right |-> r.end, writer |-> m + 1]
  <2>1. G = Kept(F, r) \cup {new} /\ c = a
    BY <1>4 DEF Replaced, LastAppend, Kept
  <2>2. ASSUME NEW z \in Kept(F, r)
        PROVE  /\ z \in Fragments /\ z.left < z.right /\ z.writer \in (a + 1)..m
               /\ W[z.writer].start <= z.left /\ z.right <= W[z.writer].end
               /\ \A j \in (z.writer + 1)..(m + 1) : W[j].end <= z.left \/ z.right <= W[j].start
               /\ z.right <= r.start \/ r.end <= z.left
    <3>1. PICK x \in F : Remnant(z, x, r)
      BY <1>1, <1>2, KeptRemnants
    <3>2. /\ x \in Fragments /\ x.writer \in (a + 1)..m
          /\ W[x.writer].start <= x.left /\ x.right <= W[x.writer].end
          /\ \A j \in (x.writer + 1)..m : W[j].end <= x.left \/ x.right <= W[j].start
      BY DEF Frontier
    <3>3. x.writer \in 1..Len(W) /\ W[x.writer].start \in Int /\ W[x.writer].end \in Int
      BY <1>2, <3>2, RangeTypes
    <3>4. /\ z \in Fragments /\ z.left < z.right /\ z.writer \in (a + 1)..m
          /\ z.right <= r.start \/ r.end <= z.left
      BY <3>1, <3>2 DEF Remnant
    <3>5. W[z.writer].start <= z.left /\ z.right <= W[z.writer].end
      BY <3>1, <3>2, <3>3 DEF Remnant, Fragments
    <3>6. ASSUME NEW j \in (z.writer + 1)..(m + 1) PROVE W[j].end <= z.left \/ z.right <= W[j].start
      <4>1. CASE j = m + 1
        BY <3>4, <4>1
      <4>2. CASE j # m + 1
        <5>1. j \in (x.writer + 1)..m
          BY <1>2, <3>1, <3>2, <4>2 DEF Remnant
        <5>2. j \in 1..Len(W)
          BY <1>2, <3>2, <5>1
        <5>3. W[j].start \in Int /\ W[j].end \in Int
          BY <5>2, RangeTypes
        <5>4. W[j].end <= x.left \/ x.right <= W[j].start
          BY <3>2, <5>1
        <5> QED
          BY <3>1, <3>2, <5>3, <5>4, SMTT(30) DEF Remnant, Fragments
      <4> QED
        BY <4>1, <4>2
    <3> QED
      BY <3>4, <3>5, <3>6
  <2>3. new \in Fragments /\ new.left < new.right /\ new.writer \in (a + 1)..(m + 1)
    BY <1>1, <1>2 DEF Fragments
  <2>4. Disjoint(G)
    <3>1. Disjoint(Kept(F, r))
      BY <1>1, <1>2, KeptDisjoint
    <3>2. \A z \in Kept(F, r) : z.right <= new.left \/ new.right <= z.left
      BY <2>2
    <3> QED
      BY <2>1, <3>1, <3>2 DEF Disjoint
  <2>5. \A i \in (a + 1)..(m + 1) : ~W[i].append
    BY <1>2, <1>4 DEF Frontier
  <2>6. a # 0 => W[a].append
    BY DEF Frontier
  <2>7. ASSUME NEW z \in G
        PROVE  /\ z.left < z.right /\ z.writer \in (a + 1)..(m + 1)
               /\ W[z.writer].start <= z.left /\ z.right <= W[z.writer].end
               /\ \A j \in (z.writer + 1)..(m + 1) : W[j].end <= z.left \/ z.right <= W[j].start
    <3>1. CASE z \in Kept(F, r)
      BY <1>2, <2>2, <3>1
    <3>2. CASE z = new
      BY <1>1, <2>3, <3>2
    <3> QED
      BY <2>1, <3>1, <3>2
  <2>8. G \subseteq Fragments /\ a \in 0..(m + 1)
    BY <1>2, <2>1, <2>2, <2>3
  <2> HIDE DEF G, c, new
  <2>9. Frontier(W, G, a, m + 1)
    BY <2>4, <2>5, <2>6, <2>7, <2>8 DEF Frontier
  <2> QED
    BY <2>1, <2>9 DEF G, c
<1> QED
  BY <1>1, <1>3, <1>4

\* A fragment that holds a byte outside the new range leaves a remnant there.
LEMMA KeptHolds ==
  ASSUME NEW F \in SUBSET Fragments, NEW r \in Ranges, NEW x \in F, NEW b \in Int,
         Within(b, x.left, x.right), ~Within(b, r.start, r.end)
  PROVE  \E z \in Kept(F, r) : Within(b, z.left, z.right) /\ z.writer = x.writer
<1>1. CASE x \notin Hit(F, r)
  BY <1>1 DEF Kept
<1>2. CASE x \in Hit(F, r) /\ b < r.start
  <2> DEFINE z == [x EXCEPT !.right = r.start]
  <2>1. z \in Kept(F, r)
    BY <1>2 DEF Kept, Heads, Within, Fragments, Ranges
  <2>2. z.left = x.left /\ z.right = r.start /\ z.writer = x.writer
    BY DEF Fragments
  <2> QED
    BY <1>2, <2>1, <2>2 DEF Within, Fragments, Ranges
<1>3. CASE x \in Hit(F, r) /\ r.end <= b
  <2> DEFINE z == [x EXCEPT !.left = r.end]
  <2>1. z \in Kept(F, r)
    BY <1>3, SMTT(30) DEF Kept, Tails, Within, Fragments, Ranges
  <2>2. z.left = r.end /\ z.right = x.right /\ z.writer = x.writer
    BY DEF Fragments
  <2> QED
    BY <1>3, <2>1, <2>2 DEF Within, Fragments, Ranges
<1> QED
  BY <1>1, <1>2, <1>3 DEF Within, Ranges

\* ... and loses no write that is not ordered before the new one.
LEMMA InsertCovered ==
  ASSUME NEW W \in Seq(Ranges), NEW m \in Nat, m + 1 <= Len(W), NEW F, NEW a, NEW B,
         Frontier(W, F, a, m), Covered(W, F, a, m, B),
         \A i \in 1..m : Conflict(W[i], W[m + 1]) => <<i, m + 1>> \in B
  PROVE  Covered(W, Replaced(F, W[m + 1], m + 1), LastAppend(a, W[m + 1], m + 1), m + 1, B)
<1> DEFINE r == W[m + 1]
           G == Replaced(F, r, m + 1)
           c == LastAppend(a, r, m + 1)
<1>1. r \in Ranges /\ r.start \in Int /\ r.end \in Int /\ r.append \in BOOLEAN /\ r.start < r.end
  BY RangeTypes
<1>2. F \in SUBSET Fragments /\ a \in 0..m
  BY DEF Frontier
<1>3. CASE r.append
  <2>1. c = m + 1
    BY <1>3 DEF LastAppend
  <2> QED
    BY <2>1 DEF Covered
<1>4. CASE ~r.append
  <2> DEFINE new == [left |-> r.start, right |-> r.end, writer |-> m + 1]
  <2>1. G = Kept(F, r) \cup {new} /\ c = a
    BY <1>4 DEF Replaced, LastAppend, Kept
  <2>2. ASSUME NEW i \in (a + 1)..(m + 1), NEW b \in Int, Within(b, W[i].start, W[i].end)
        PROVE  \E x \in G : Within(b, x.left, x.right) /\ (x.writer = i \/ <<i, x.writer>> \in B)
    <3>0. i \in 1..Len(W) /\ W[i].start \in Int /\ W[i].end \in Int
      BY <1>2, RangeTypes
    <3>1. CASE Within(b, r.start, r.end)
      <4>1. new \in G /\ Within(b, new.left, new.right) /\ new.writer = m + 1
        BY <2>1, <3>1
      <4>2. i # m + 1 => <<i, m + 1>> \in B
        <5> SUFFICES ASSUME i # m + 1 PROVE Conflict(W[i], r)
          BY <1>2
        <5> QED
          BY <1>1, <2>2, <3>0, <3>1, SMTT(30) DEF Conflict, Within
      <4> HIDE DEF G, new
      <4> QED
        BY <4>1, <4>2, Zenon
    <3>2. CASE ~Within(b, r.start, r.end)
      <4>1. i \in (a + 1)..m
        BY <1>2, <2>2, <3>2
      <4>2. PICK x \in F : Within(b, x.left, x.right) /\ (x.writer = i \/ <<i, x.writer>> \in B)
        BY <2>2, <4>1 DEF Covered
      <4>3. PICK z \in Kept(F, r) : Within(b, z.left, z.right) /\ z.writer = x.writer
        <5>1. r \in Ranges /\ Within(b, x.left, x.right) /\ ~Within(b, r.start, r.end)
          BY <1>1, <3>2, <4>2
        <5> HIDE DEF r
        <5> QED
          BY <1>2, <5>1, KeptHolds
      <4> QED
        BY <2>1, <4>2, <4>3, Zenon
    <3> QED
      BY <3>1, <3>2
  <2> HIDE DEF G, c
  <2>3. Covered(W, G, a, m + 1, B)
    BY <2>2 DEF Covered
  <2> QED
    BY <2>1, <2>3 DEF G, c
<1> QED
  BY <1>1, <1>3, <1>4

\* insert returns a writer for every earlier write the new one conflicts with:
\* that write itself or one ordered after it.
LEMMA DependsOrders ==
  ASSUME NEW W \in Seq(Ranges), NEW m \in Nat, m + 1 <= Len(W), NEW F, NEW a, NEW B,
         Frontier(W, F, a, m), Covered(W, F, a, m, B),
         Ordered(W, m, B),
         NEW i \in 1..m, Conflict(W[i], W[m + 1])
  PROVE  Reached(Depends(F, a, W[m + 1]), i, B)
<1> DEFINE r == W[m + 1]
<1>1. r \in Ranges /\ r.start \in Int /\ r.end \in Int /\ r.append \in BOOLEAN /\ r.start < r.end
  BY RangeTypes, SMTT(30)
<1>2. /\ F \in SUBSET Fragments /\ a \in 0..m /\ Disjoint(F) /\ \A x \in F : x.left < x.right
      /\ a # 0 => W[a].append
      /\ \A k \in (a + 1)..m : ~W[k].append
  BY DEF Frontier
<1>3. W[i] \in Ranges /\ W[i].start \in Int /\ W[i].end \in Int /\ W[i].start < W[i].end
  BY RangeTypes
<1>4. CASE i <= a
  <2>1. a # 0 /\ a \in Depends(F, a, r)
    BY <1>2, <1>4 DEF Depends
  <2>2. i # a => <<i, a>> \in B
    BY <1>2, <1>4, <2>1 DEF Conflict, Ordered
  <2> QED
    BY <2>1, <2>2 DEF Reached
<1>5. CASE a < i /\ r.append
  <2>0. i \in (a + 1)..m /\ Within(W[i].start, W[i].start, W[i].end)
    BY <1>2, <1>3, <1>5 DEF Within
  <2>1. PICK x \in F : x.writer = i \/ <<i, x.writer>> \in B
    BY <1>3, <2>0 DEF Covered
  <2>2. x.writer \in Depends(F, a, r)
    BY <1>5 DEF Depends
  <2> QED
    BY <2>1, <2>2 DEF Reached
<1>6. CASE a < i /\ ~r.append
  <2>1. r.start < W[i].end /\ W[i].start < r.end
    BY <1>2, <1>6 DEF Conflict
  <2>2. PICK b \in Int : Within(b, W[i].start, W[i].end) /\ Within(b, r.start, r.end)
    <3> DEFINE b == IF W[i].start <= r.start THEN r.start ELSE W[i].start
    <3>1. b \in Int /\ Within(b, W[i].start, W[i].end) /\ Within(b, r.start, r.end)
      BY <1>1, <1>3, <2>1, SMTT(30) DEF Within
    <3> QED
      BY <3>1
  <2>3. PICK x \in F : Within(b, x.left, x.right) /\ (x.writer = i \/ <<i, x.writer>> \in B)
    <3>1. i \in (a + 1)..m
      BY <1>2, <1>6
    <3> QED
      BY <2>2, <3>1, Zenon DEF Covered
  <2>4. x \in Hit(F, r)
    BY <1>1, <1>2, <2>2, <2>3, HitFinds
  <2>5. x.writer \in Depends(F, a, r)
    BY <1>6, <2>4 DEF Depends
  <2> QED
    BY <2>3, <2>5 DEF Reached
<1>7. i <= a \/ a < i
  BY <1>2
<1> QED
  BY <1>4, <1>5, <1>6, <1>7

\* ... and no writer the new one does not conflict with.
LEMMA DependsConflict ==
  ASSUME NEW W \in Seq(Ranges), NEW m \in Nat, m + 1 <= Len(W), NEW F, NEW a,
         Frontier(W, F, a, m), NEW d \in Depends(F, a, W[m + 1])
  PROVE  d \in 1..m /\ Conflict(W[d], W[m + 1])
<1> DEFINE r == W[m + 1]
<1>1. r \in Ranges /\ r.start \in Int /\ r.end \in Int /\ r.append \in BOOLEAN /\ r.start < r.end
  BY RangeTypes
<1>2. F \in SUBSET Fragments /\ a \in 0..m /\ \A x \in F : x.left < x.right
  BY DEF Frontier
<1>3. CASE d = a /\ a # 0
  BY <1>2, <1>3 DEF Frontier, Conflict
<1>4. ASSUME NEW x \in F, d = x.writer, r.append \/ x \in Hit(F, r)
      PROVE  d \in 1..m /\ Conflict(W[d], r)
  <2>1. d \in (a + 1)..m /\ W[d].start <= x.left /\ x.right <= W[d].end
    BY <1>4 DEF Frontier
  <2>2. d \in 1..m
    BY <1>2, <2>1
  <2>3. W[d].start \in Int /\ W[d].end \in Int
    BY <2>2, RangeTypes
  <2>4. CASE r.append
    BY <2>2, <2>4 DEF Conflict
  <2>5. CASE x \in Hit(F, r)
    <3>1. x.left < r.end /\ r.start < x.right
      BY <1>1, <1>2, <2>5, HitShares
    <3> QED
      BY <1>1, <1>2, <2>1, <2>2, <2>3, <3>1 DEF Conflict, Fragments
  <2> QED
    BY <1>4, <2>4, <2>5
<1>5. (d = a /\ a # 0) \/ \E x \in F : d = x.writer /\ (r.append \/ x \in Hit(F, r))
  BY DEF Depends, Hit
<1> QED
  BY <1>3, <1>4, <1>5

-----------------------------------------------------------------------------
(* The actions.                                                            *)

LEMMA InitInv == Init => Inv
<1> SUFFICES ASSUME Init PROVE Inv
  OBVIOUS
<1>1. /\ writes = <<>> /\ writes \in Seq(Ranges) /\ n = 0 /\ adding = FALSE /\ Added = 0
      /\ ranges = {} /\ append = 0 /\ moved = 0 /\ edges = {}
  BY DEF Init, n, Added
<1>2. Frontier(writes, ranges, append, moved) /\ Covered(writes, ranges, append, moved, before)
  BY <1>1 DEF Frontier, Covered, Disjoint
<1>3. ConflictsOrdered /\ EdgeInv
  BY <1>1 DEF ConflictsOrdered, EdgeInv
<1>4. moved \in 0..Added
  BY <1>1
<1>5. adding \in BOOLEAN /\ ~adding
  BY <1>1, Zenon
<1> QED
  BY <1>1, <1>2, <1>3, <1>4, <1>5 DEF Inv

\* A new write changes nothing that is known of the earlier ones.
LEMMA ArriveInv == Inv /\ Arrive => Inv'
<1> SUFFICES ASSUME Inv, Arrive PROVE Inv'
  OBVIOUS
<1>1. PICK r \in Ranges : writes' = Append(writes, r)
  BY DEF Arrive
<1>2. /\ writes \in Seq(Ranges) /\ n \in Nat /\ Added = n /\ ~adding /\ adding' = TRUE
      /\ ranges' = ranges /\ append' = append /\ moved' = moved /\ edges' = edges /\ before' = before
  BY DEF Inv, Arrive, Added, n
<1>3. writes' \in Seq(Ranges) /\ n' = n + 1 /\ Added' = n
  BY <1>1, <1>2 DEF n, Added
<1>4. \A i \in 1..n : writes'[i] = writes[i]
  BY <1>1, <1>2, SMTT(30) DEF n
<1>5. moved \in 0..n /\ append \in 0..moved
  BY <1>2 DEF Inv, Frontier
<1>6. Frontier(writes, ranges, append, moved)' /\ Covered(writes, ranges, append, moved, before)'
  <2>1. Frontier(writes, ranges, append, moved) /\ Covered(writes, ranges, append, moved, before)
    BY DEF Inv
  <2>2. \A i \in (append + 1)..moved : i \in 1..n /\ writes'[i] = writes[i]
    BY <1>2, <1>4, <1>5
  <2>3. Covered(writes', ranges, append, moved, before)
    BY <2>1, <2>2 DEF Covered
  <2>4. append # 0 => writes'[append].append
    BY <1>2, <1>4, <1>5, <2>1 DEF Frontier
  <2>5. ASSUME NEW x \in ranges
        PROVE  /\ x.left < x.right /\ x.writer \in (append + 1)..moved
               /\ writes'[x.writer].start <= x.left /\ x.right <= writes'[x.writer].end
               /\ \A j \in (x.writer + 1)..moved : writes'[j].end <= x.left \/ x.right <= writes'[j].start
    <3>1. /\ x.left < x.right /\ x.writer \in (append + 1)..moved
          /\ writes[x.writer].start <= x.left /\ x.right <= writes[x.writer].end
          /\ \A j \in (x.writer + 1)..moved : writes[j].end <= x.left \/ x.right <= writes[j].start
      BY <2>1 DEF Frontier
    <3>2. \A j \in (x.writer + 1)..moved : j \in (append + 1)..moved
      BY <1>5, <3>1
    <3> QED
      BY <2>2, <3>1, <3>2
  <2>6. \A i \in (append + 1)..moved : ~writes'[i].append
    BY <2>1, <2>2 DEF Frontier
  <2>7. ranges \subseteq Fragments /\ append \in 0..moved /\ Disjoint(ranges)
    BY <2>1 DEF Frontier
  <2>8. Frontier(writes', ranges, append, moved)
    BY <2>4, <2>5, <2>6, <2>7 DEF Frontier
  <2> QED
    BY <1>2, <2>3, <2>8
<1>7. ConflictsOrdered'
  <2>1. \A j \in 1..n : \A i \in 1..(j - 1) : Conflict(writes[i], writes[j]) => <<i, j>> \in before
    BY <1>2 DEF Inv, ConflictsOrdered
  <2>2. \A j \in 1..n : \A i \in 1..(j - 1) : writes'[i] = writes[i] /\ writes'[j] = writes[j]
    BY <1>2, <1>4
  <2> QED
    BY <1>2, <1>3, <2>1, <2>2 DEF ConflictsOrdered
<1>8. EdgeInv'
  <2> SUFFICES ASSUME NEW e \in edges
               PROVE  \E j \in 1..(n + 1) : \E i \in 1..(j - 1) : e = <<i, j>> /\ Conflict(writes'[i], writes'[j])
    BY <1>2, <1>3 DEF EdgeInv
  <2>1. PICK j \in 1..n : \E i \in 1..(j - 1) : e = <<i, j>> /\ Conflict(writes[i], writes[j])
    BY DEF Inv, EdgeInv
  <2>2. PICK i \in 1..(j - 1) : e = <<i, j>> /\ Conflict(writes[i], writes[j])
    BY <2>1
  <2>3. j \in 1..(n + 1) /\ writes'[i] = writes[i] /\ writes'[j] = writes[j]
    BY <1>2, <1>4
  <2> QED
    BY <2>2, <2>3
<1> QED
  BY <1>2, <1>3, <1>5, <1>6, <1>7, <1>8 DEF Inv

LEMMA DrainInv == Inv /\ Drain => Inv'
<1> SUFFICES ASSUME Inv, Drain PROVE Inv'
  OBVIOUS
<1>1. /\ writes \in Seq(Ranges) /\ n \in Nat /\ n = Len(writes) /\ adding /\ Added = n - 1 /\ moved \in Nat /\ moved < n - 1
      /\ adding \in BOOLEAN /\ n > 0
      /\ Frontier(writes, ranges, append, moved) /\ Covered(writes, ranges, append, moved, before)
  BY DEF Inv, Drain, Added, n
<1>2. /\ writes' = writes /\ adding' = adding /\ edges' = edges /\ before' = before /\ moved' = moved + 1
      /\ ranges' = Replaced(ranges, writes[moved + 1], moved + 1)
      /\ append' = LastAppend(append, writes[moved + 1], moved + 1)
  BY DEF Drain
<1>3. n' = n /\ Added' = Added
  BY <1>2 DEF n, Added
<1>4. Frontier(writes, ranges', append', moved')
  BY <1>1, <1>2, InsertFrontier
<1>5. Covered(writes, ranges', append', moved', before)
  <2>1. \A i \in 1..moved : Conflict(writes[i], writes[moved + 1]) => <<i, moved + 1>> \in before
    BY <1>1 DEF Inv, ConflictsOrdered
  <2> QED
    BY <1>1, <1>2, <2>1, InsertCovered
<1>6. ConflictsOrdered' /\ EdgeInv'
  BY <1>2, <1>3 DEF Inv, ConflictsOrdered, EdgeInv
<1>7. moved' \in 0..Added'
  BY <1>1, <1>2, <1>3
<1> QED
  BY <1>1, <1>2, <1>3, <1>4, <1>5, <1>6, <1>7 DEF Inv

\* Both ways to add a write: D are its predecessors, which lie among the
\* earlier writes it conflicts with and order all of them.
LEMMA DependInv ==
  ASSUME Inv, adding, NEW D, Depend(D), writes' = writes, adding' = FALSE,
         \A d \in D : d \in 1..(n - 1) /\ Conflict(writes[d], writes[n]),
         \A i \in 1..(n - 1) : Conflict(writes[i], writes[n]) => Reached(D, i, before)
  PROVE  ConflictsOrdered' /\ EdgeInv' /\ before \subseteq before'
<1>1. writes \in Seq(Ranges) /\ n \in Nat /\ n > 0 /\ n' = n
  BY DEF Inv, n
<1>2. before \subseteq before'
  BY DEF Depend
<1>3. ConflictsOrdered'
  <2> SUFFICES ASSUME NEW j \in 1..n, NEW i \in 1..(j - 1), Conflict(writes[i], writes[j])
               PROVE  <<i, j>> \in before'
    BY <1>1 DEF ConflictsOrdered
  <2>1. CASE j = n
    <3>1. PICK d \in D : d = i \/ <<i, d>> \in before
      BY <2>1 DEF Reached
    <3>2. i \in 1..n
      BY <1>1
    <3> QED
      BY <2>1, <3>1, <3>2 DEF Depend
  <2>2. CASE j # n
    <3>1. j \in 1..(n - 1)
      BY <1>1, <2>2
    <3>2. <<i, j>> \in before
      BY <3>1 DEF Inv, ConflictsOrdered
    <3> QED
      BY <1>2, <3>2
  <2> QED
    BY <2>1, <2>2
<1>4. EdgeInv'
  <2> SUFFICES ASSUME NEW e \in edges'
               PROVE  \E j \in 1..n : \E i \in 1..(j - 1) : e = <<i, j>> /\ Conflict(writes[i], writes[j])
    BY <1>1 DEF EdgeInv
  <2>1. CASE e \in edges
    BY <2>1 DEF Inv, EdgeInv
  <2>2. CASE e \notin edges
    <3>1. PICK d \in D : e = <<d, n>>
      BY <2>2 DEF Depend
    <3>2. n \in 1..n /\ d \in 1..(n - 1) /\ Conflict(writes[d], writes[n])
      BY <1>1
    <3> QED
      BY <3>1, <3>2
  <2> QED
    BY <2>1, <2>2
<1> QED
  BY <1>2, <1>3, <1>4

LEMMA AddLinearInv == Inv /\ AddLinear => Inv'
<1> SUFFICES ASSUME Inv, AddLinear PROVE Inv'
  OBVIOUS
<1> DEFINE D == {i \in 1..(n - 1) : Conflict(writes[i], writes[n])}
<1>1. /\ adding /\ Depend(D) /\ writes' = writes /\ adding' = FALSE
      /\ ranges' = ranges /\ append' = append /\ moved' = moved
  BY DEF AddLinear
<1>2. writes \in Seq(Ranges) /\ n \in Nat /\ n' = n /\ Added' = n /\ Added = n - 1 /\ moved \in 0..(n - 1)
  BY <1>1 DEF Inv, n, Added
<1>3. ConflictsOrdered' /\ EdgeInv' /\ before \subseteq before'
  <2>1. /\ \A d \in D : d \in 1..(n - 1) /\ Conflict(writes[d], writes[n])
        /\ \A i \in 1..(n - 1) : Conflict(writes[i], writes[n]) => Reached(D, i, before)
    BY DEF Reached
  <2> HIDE DEF D
  <2> QED
    BY <1>1, <2>1, DependInv, Zenon
<1>4. Frontier(writes, ranges, append, moved)'
  BY <1>1 DEF Inv
<1>5. Covered(writes, ranges, append, moved, before')
  BY <1>3 DEF Inv, Covered
<1>6. moved' \in 0..Added'
  BY <1>1, <1>2
<1>7. adding' \in BOOLEAN /\ ~adding'
  BY <1>1, Zenon
<1> QED
  BY <1>1, <1>2, <1>3, <1>4, <1>5, <1>6, <1>7 DEF Inv

LEMMA AddFrontierInv == Inv /\ AddFrontier => Inv'
<1> SUFFICES ASSUME Inv, AddFrontier PROVE Inv'
  OBVIOUS
<1> DEFINE D == Depends(ranges, append, writes[n])
<1>1. /\ adding /\ Depend(D) /\ writes' = writes /\ adding' = FALSE /\ moved = n - 1 /\ moved' = n
      /\ ranges' = Replaced(ranges, writes[n], n) /\ append' = LastAppend(append, writes[n], n)
  BY DEF AddFrontier
<1>2. /\ writes \in Seq(Ranges) /\ n \in Nat /\ n > 0 /\ n = Len(writes) /\ n' = n
      /\ Added' = n /\ Added = n - 1 /\ moved \in Nat /\ moved + 1 = n
      /\ Frontier(writes, ranges, append, moved) /\ Covered(writes, ranges, append, moved, before)
  BY <1>1, SMTT(30) DEF Inv, n, Added
<1>3. ConflictsOrdered' /\ EdgeInv' /\ before \subseteq before'
  <2>1. \A d \in D : d \in 1..(n - 1) /\ Conflict(writes[d], writes[n])
    BY <1>1, <1>2, DependsConflict, SMTT(30)
  <2>2. Ordered(writes, moved, before)
    BY <1>1, <1>2 DEF Inv, ConflictsOrdered, Ordered
  <2>3. \A i \in 1..(n - 1) : Conflict(writes[i], writes[n]) => Reached(D, i, before)
    <3> SUFFICES ASSUME NEW i \in 1..(n - 1), Conflict(writes[i], writes[n])
                 PROVE  Reached(D, i, before)
      OBVIOUS
    <3>1. /\ i \in 1..moved /\ moved + 1 <= Len(writes) /\ Conflict(writes[i], writes[moved + 1])
          /\ D = Depends(ranges, append, writes[moved + 1])
      BY <1>1, <1>2
    <3> HIDE DEF D
    <3>2. Reached(Depends(ranges, append, writes[moved + 1]), i, before)
      BY <1>2, <2>2, <3>1, DependsOrders
    <3> QED
      BY <3>1, <3>2
  <2> HIDE DEF D
  <2> QED
    BY <1>1, <2>1, <2>3, DependInv, Zenon
<1>4. Frontier(writes, ranges', append', n)
  BY <1>1, <1>2, InsertFrontier, SMTT(30)
<1>5. Covered(writes, ranges', append', n, before')
  <2>1. Covered(writes, ranges, append, moved, before')
    BY <1>2, <1>3 DEF Covered
  <2>2. \A i \in 1..moved : Conflict(writes[i], writes[n]) => <<i, n>> \in before'
    BY <1>1, <1>2, <1>3 DEF ConflictsOrdered
  <2> QED
    BY <1>1, <1>2, <2>1, <2>2, InsertCovered, SMTT(30)
<1>6. moved' \in 0..Added'
  BY <1>1, <1>2
<1>7. adding' \in BOOLEAN /\ ~adding'
  BY <1>1, Zenon
<1> QED
  BY <1>1, <1>2, <1>3, <1>4, <1>5, <1>6, <1>7 DEF Inv

LEMMA Invariance == Spec => []Inv
<1>1. Inv /\ UNCHANGED vars => Inv'
  BY DEF Inv, vars, n, Added, ConflictsOrdered, EdgeInv
<1>2. Inv /\ [Next]_vars => Inv'
  BY <1>1, ArriveInv, DrainInv, AddLinearInv, AddFrontierInv DEF Next
<1> QED
  BY <1>2, InitInv, PTL DEF Spec

-----------------------------------------------------------------------------
\* "Overlapping requests through the same object complete in input order": for
\* any number of writes, with the linear path, the frontier, and the change
\* from one to the other at any time, every two conflicting writes are ordered
\* by a chain of edges.
THEOREM FrontierOrders == Spec => []ConflictsOrdered
<1>1. Inv => ConflictsOrdered
  BY DEF Inv
<1> QED
  BY <1>1, Invariance, PTL

\* add_write_dependencies makes a write wait only for earlier writes that it
\* conflicts with.
THEOREM NoNeedlessWait == Spec => []EdgesConflict
<1>1. Inv => EdgesConflict
  BY DEF Inv, EdgeInv, EdgesConflict
<1> QED
  BY <1>1, Invariance, PTL

\* The interval map of WriteFrontier stays disjoint, and each fragment names the
\* latest write of its bytes.
THEOREM FrontierLatest == Spec => []LatestWriter
<1>1. Inv => LatestWriter
  BY DEF Inv, Frontier, Disjoint, LatestWriter
<1> QED
  BY <1>1, Invariance, PTL
=============================================================================
