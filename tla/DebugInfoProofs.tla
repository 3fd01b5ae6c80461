---------------------------- MODULE DebugInfoProofs ----------------------------
(***************************************************************************)
(* Proofs about DebugInfo: for blobs with any number of exports, in any    *)
(* order and at any addresses, and any line programs.                      *)
(***************************************************************************)
EXTENDS DebugInfo, FiniteSetTheorems, TLAPS

Export == [name : Symbols, pc : Pcs]

(* The exports that come before the k-th, and where sorting takes the r-th *)
(* from.                                                                   *)
Preceding(s, k) == {j \in DOMAIN s : Precedes(s, j, k)}
From(s, r) == CHOOSE k \in DOMAIN s : Cardinality(Preceding(s, k)) = r - 1

-----------------------------------------------------------------------------
(* Sorting: an export has fewer before it than there are.                  *)
LEMMA PrecedingIsFinite ==
  ASSUME NEW n \in Nat, NEW s, DOMAIN s = 1..n, \A i \in 1..n : s[i].pc \in Int, NEW k \in 1..n
  PROVE  /\ IsFiniteSet(Preceding(s, k))
         /\ Cardinality(Preceding(s, k)) \in 0..(n - 1)
<1>1. IsFiniteSet(1..n) /\ Cardinality(1..n) = n
  BY FS_Interval
<1>2. IsFiniteSet((1..n) \ {k}) /\ Cardinality((1..n) \ {k}) = n - 1
  BY <1>1, FS_RemoveElement
<1>3. Preceding(s, k) \subseteq (1..n) \ {k}
  BY DEF Preceding, Precedes
<1>4. IsFiniteSet(Preceding(s, k)) /\ Cardinality(Preceding(s, k)) <= n - 1
  BY <1>2, <1>3, FS_Subset
<1>5. Cardinality(Preceding(s, k)) \in Nat
  BY <1>4, FS_CardinalityType
<1> QED
  BY <1>4, <1>5

(* What comes later has more before it.                                    *)
LEMMA PrecedingGrows ==
  ASSUME NEW n \in Nat, NEW s, DOMAIN s = 1..n, \A i \in 1..n : s[i].pc \in Int,
         NEW j \in 1..n, NEW k \in 1..n, Precedes(s, j, k)
  PROVE  Cardinality(Preceding(s, j)) < Cardinality(Preceding(s, k))
<1>2. Preceding(s, j) \subseteq Preceding(s, k)
  BY DEF Preceding, Precedes
<1>3. j \in Preceding(s, k) /\ j \notin Preceding(s, j)
  BY DEF Preceding, Precedes
<1>4. /\ IsFiniteSet(Preceding(s, k))
      /\ Cardinality(Preceding(s, j)) \in Nat /\ Cardinality(Preceding(s, k)) \in Nat
  BY PrecedingIsFinite
<1>5. /\ Cardinality(Preceding(s, j)) <= Cardinality(Preceding(s, k))
      /\ Cardinality(Preceding(s, k)) = Cardinality(Preceding(s, j))
            => Preceding(s, k) = Preceding(s, j)
  BY <1>2, <1>4, FS_Subset
<1> QED
  BY <1>3, <1>4, <1>5

(* Sorting takes every export from somewhere, once, in order.              *)
LEMMA SortingPermutes ==
  ASSUME NEW n \in Nat, NEW s, DOMAIN s = 1..n, \A i \in 1..n : s[i].pc \in Int
  PROVE  /\ \A r \in 1..n : From(s, r) \in 1..n
         /\ \A k \in 1..n : \E r \in 1..n : From(s, r) = k
         /\ \A q, r \in 1..n : q < r => Precedes(s, From(s, q), From(s, r))
<1>1. PICK rank : rank = [k \in 1..n |-> Cardinality(Preceding(s, k))]
  OBVIOUS
<1>3. rank \in [1..n -> 0..(n - 1)]
  BY <1>1, PrecedingIsFinite
<1>4. \A j, k \in 1..n : j # k => Precedes(s, j, k) \/ Precedes(s, k, j)
  BY DEF Precedes
<1>5. \A j, k \in 1..n : rank[j] < rank[k] <=> Precedes(s, j, k)
  <2> SUFFICES ASSUME NEW j \in 1..n, NEW k \in 1..n
               PROVE  rank[j] < rank[k] <=> Precedes(s, j, k)
    OBVIOUS
  <2>1. rank[j] \in Int /\ rank[k] \in Int
    BY <1>3
  <2>2. Precedes(s, j, k) => rank[j] < rank[k]
    BY <1>1, PrecedingGrows
  <2>3. Precedes(s, k, j) => rank[k] < rank[j]
    BY <1>1, PrecedingGrows
  <2> QED
    BY <1>4, <2>1, <2>2, <2>3
<1>6. \A j, k \in 1..n : rank[j] = rank[k] => j = k
  <2>1. \A j \in 1..n : rank[j] \in Int
    BY <1>3
  <2> QED
    BY <1>4, <1>5, <2>1
<1>7. rank \in Injection(1..n, 0..(n - 1))
  BY <1>3, <1>6 DEF Injection, IsInjective
<1>8. /\ IsFiniteSet(0..(n - 1)) /\ Cardinality(0..(n - 1)) = n
      /\ Cardinality(1..n) = n
  <2>1. 0 \in Int /\ 1 \in Int /\ n \in Int /\ n - 1 \in Int
    OBVIOUS
  <2>2. IsFiniteSet(0..(n - 1)) /\ Cardinality(0..(n - 1)) = n
    <3>1. PICK m \in Int : m = n - 1
      BY <2>1
    <3>2. IsFiniteSet(0..m) /\ Cardinality(0..m) = IF 0 > m THEN 0 ELSE m - 0 + 1
      BY <2>1, FS_Interval
    <3> QED
      BY <3>1, <3>2
  <2>3. Cardinality(1..n) = n
    BY <2>1, FS_Interval
  <2> QED
    BY <2>2, <2>3
<1>9. rank \in Surjection(1..n, 0..(n - 1))
  BY <1>7, <1>8, FS_Injection
<1>10. \A r \in 1..n : From(s, r) \in 1..n /\ rank[From(s, r)] = r - 1
  <2> SUFFICES ASSUME NEW r \in 1..n
               PROVE  From(s, r) \in 1..n /\ rank[From(s, r)] = r - 1
    OBVIOUS
  <2>1. r - 1 \in 0..(n - 1)
    OBVIOUS
  <2>2. \E k \in 1..n : rank[k] = r - 1
    BY <1>9, <2>1 DEF Surjection
  <2>3. \E k \in 1..n : Cardinality(Preceding(s, k)) = r - 1
    BY <1>1, <2>2
  <2>4. DOMAIN s = 1..n
    OBVIOUS
  <2>5. From(s, r) \in 1..n /\ Cardinality(Preceding(s, From(s, r))) = r - 1
    BY <2>3, <2>4 DEF From
  <2> QED
    BY <1>1, <2>5
<1>11. \A k \in 1..n : \E r \in 1..n : From(s, r) = k
  <2> SUFFICES ASSUME NEW k \in 1..n
               PROVE  \E r \in 1..n : From(s, r) = k
    OBVIOUS
  <2>1. rank[k] + 1 \in 1..n /\ rank[k] \in Int
    BY <1>3
  <2>2. PICK r \in 1..n : r = rank[k] + 1
    BY <2>1
  <2>3. From(s, r) \in 1..n /\ rank[From(s, r)] = r - 1
    BY <1>10
  <2>4. r - 1 = rank[k]
    BY <2>1, <2>2
  <2> QED
    BY <1>6, <2>3, <2>4
<1>12. \A q, r \in 1..n : q < r => Precedes(s, From(s, q), From(s, r))
  <2> SUFFICES ASSUME NEW q \in 1..n, NEW r \in 1..n, q < r
               PROVE  Precedes(s, From(s, q), From(s, r))
    OBVIOUS
  <2>1. From(s, q) \in 1..n /\ rank[From(s, q)] = q - 1
    BY <1>10
  <2>2. From(s, r) \in 1..n /\ rank[From(s, r)] = r - 1
    BY <1>10
  <2>3. q - 1 < r - 1
    OBVIOUS
  <2> QED
    BY <1>5, <2>1, <2>2, <2>3
<1> QED
  BY <1>10, <1>11, <1>12

(* The first of some positions of a sequence: what sorting puts first when *)
(* those positions have the smaller key.                                   *)
LEMMA FirstIsLeast ==
  ASSUME NEW n \in Nat, NEW S \in SUBSET (1..n), S # {}
  PROVE  First(S) \in S /\ \A j \in S : First(S) <= j
<1>1. PICK s : s = [k \in 1..n |-> [pc |-> IF k \in S THEN 0 ELSE 1]]
  OBVIOUS
<1>2. DOMAIN s = 1..n /\ \A k \in 1..n : s[k].pc \in Int
  BY <1>1
<1>3. \A k \in 1..n : s[k].pc = IF k \in S THEN 0 ELSE 1
  BY <1>1
<1>4. 1 \in 1..n
  <2>1. PICK i \in 1..n : i \in S
    OBVIOUS
  <2> QED
    BY <2>1
<1>5. PICK m : m = From(s, 1)
  OBVIOUS
<1>6. m \in 1..n /\ \A k \in 1..n : k = m \/ Precedes(s, m, k)
  <2>1. m \in 1..n
    BY <1>2, <1>4, <1>5, SortingPermutes
  <2>2. ASSUME NEW k \in 1..n, k # m
        PROVE  Precedes(s, m, k)
    <3>1. PICK r \in 1..n : From(s, r) = k
      BY <1>2, SortingPermutes
    <3>2. r # 1
      BY <1>5, <2>2, <3>1
    <3>3. 1 < r
      BY <3>2
    <3> QED
      BY <1>2, <1>4, <1>5, <3>1, <3>3, SortingPermutes
  <2> QED
    BY <2>1, <2>2
<1>7. PICK i \in S : TRUE
  OBVIOUS
<1>8. m \in S
  <2>1. s[i].pc = 0
    BY <1>3, <1>7
  <2>2. m # i => s[m].pc <= 0
    BY <1>3, <1>6, <1>7, <2>1 DEF Precedes
  <2> QED
    BY <1>3, <1>6, <1>7, <2>2
<1>9. \A j \in S : m <= j
  <2> SUFFICES ASSUME NEW j \in S, j # m
               PROVE  m < j
    BY <1>6
  <2>1. Precedes(s, m, j)
    BY <1>6
  <2>2. s[m].pc = 0 /\ s[j].pc = 0
    BY <1>3, <1>8
  <2> QED
    BY <2>1, <2>2 DEF Precedes
<1> QED
  BY <1>8, <1>9 DEF First

(* The sorted exports are the exports, in order of address and then of the *)
(* blob.                                                                   *)
LEMMA SortedIsSorted ==
  ASSUME NEW n \in Nat, NEW s \in [1..n -> Export]
  PROVE  /\ SortedByPc(s) \in [1..n -> Export]
         /\ \A k \in 1..n : From(s, k) \in 1..n /\ SortedByPc(s)[k] = s[From(s, k)]
         /\ \A k \in 1..n : \E r \in 1..n : From(s, r) = k
         /\ \A q, r \in 1..n : q < r => Precedes(s, From(s, q), From(s, r))
<1>1. DOMAIN s = 1..n /\ \A k \in 1..n : s[k].pc \in Int
  BY DEF Export, Pcs
<1>2. /\ \A k \in 1..n : From(s, k) \in 1..n
      /\ \A k \in 1..n : \E r \in 1..n : From(s, r) = k
      /\ \A q, r \in 1..n : q < r => Precedes(s, From(s, q), From(s, r))
  BY <1>1, SortingPermutes
<1>3. SortedByPc(s) = [r \in 1..n |-> s[From(s, r)]]
  BY <1>1 DEF SortedByPc, From, Preceding
<1>4. \A r \in 1..n : s[From(s, r)] \in Export
  BY <1>2
<1> QED
  BY <1>2, <1>3, <1>4

(* FunctionInfo: a function starts at its export and ends where the next   *)
(* one starts.                                                             *)
LEMMA FunctionsOfExports ==
  ASSUME NEW n \in Nat, NEW t \in [1..n -> Export], NEW last \in Nat \cup {None}
  PROVE  /\ FunctionInfo(t, last) \in [1..n -> Function]
         /\ \A k \in 1..n :
               /\ FunctionInfo(t, last)[k].name = t[k].name
               /\ FunctionInfo(t, last)[k].start_pc = t[k].pc
               /\ FunctionInfo(t, last)[k].end_pc = IF k < n THEN t[k + 1].pc ELSE last
<1>1. DOMAIN t = 1..n
  OBVIOUS
<1>2. \A k \in 1..n : t[k].name \in Symbols /\ t[k].pc \in Pcs /\ t[k].pc \in Nat
  BY DEF Export, Pcs
<1>3. \A k \in 1..n : k + 1 \in 1..n <=> k < n
  OBVIOUS
<1>4. FunctionInfo(t, last) =
        [k \in 1..n |-> [name |-> t[k].name, start_pc |-> t[k].pc,
                         end_pc |-> IF k + 1 \in 1..n THEN t[k + 1].pc ELSE last]]
  BY <1>1 DEF FunctionInfo
<1>5. \A k \in 1..n : (IF k + 1 \in 1..n THEN t[k + 1].pc ELSE last) \in Nat \cup {None}
  BY <1>2
<1>6. \A k \in 1..n : [name |-> t[k].name, start_pc |-> t[k].pc,
                       end_pc |-> IF k + 1 \in 1..n THEN t[k + 1].pc ELSE last] \in Function
  BY <1>2, <1>5 DEF Function
<1> QED
  BY <1>3, <1>4, <1>6
(* The binary search: the elements up to pc come first, and are as many as *)
(* partition_point says.                                                   *)
LEMMA DownClosed ==
  ASSUME NEW n \in Nat, NEW P \in SUBSET (1..n),
         \A j, k \in 1..n : (k \in P /\ j <= k) => j \in P
  PROVE  /\ Cardinality(P) \in 0..n
         /\ \A k \in 1..n : k \in P <=> k <= Cardinality(P)
<1>1. CASE P = 1..n
  <2>1. Cardinality(P) = n
    BY <1>1, FS_Interval
  <2> QED
    BY <1>1, <2>1
<1>2. CASE P # 1..n
  <2>1. PICK Q : Q = (1..n) \ P
    OBVIOUS
  <2>2. Q \in SUBSET (1..n) /\ Q # {}
    BY <1>2, <2>1
  <2>3. PICK m : m = First(Q)
    OBVIOUS
  <2>4. m \in Q /\ \A j \in Q : m <= j
    BY <2>2, <2>3, FirstIsLeast
  <2>5. m \in 1..n /\ m \notin P
    BY <2>1, <2>4
  <2>6. \A k \in 1..n : k \in P <=> k < m
    BY <2>1, <2>4, <2>5
  <2>7. P = 1..(m - 1)
    <3>1. \A k \in 1..(m - 1) : k \in 1..n /\ k < m
      BY <2>5
    <3>2. \A k \in P : k \in 1..n /\ k \in 1..(m - 1)
      BY <2>5, <2>6
    <3> QED
      BY <2>6, <3>1, <3>2
  <2>8. Cardinality(P) = m - 1
    BY <2>5, <2>7, FS_Interval
  <2> QED
    BY <2>5, <2>6, <2>8
<1> QED
  BY <1>1, <1>2

(* The functions of the exports s, sorted: fs is one of the two lists of   *)
(* them, which differ in where the last function ends.                     *)
LEMMA SortedFunctions ==
  ASSUME NEW n \in Nat, NEW s \in [1..n -> Export], NEW last \in Nat \cup {None}
  PROVE  /\ FunctionInfo(SortedByPc(s), last) \in [1..n -> Function]
         /\ \A k \in 1..n :
               /\ FunctionInfo(SortedByPc(s), last)[k].name = s[From(s, k)].name
               /\ FunctionInfo(SortedByPc(s), last)[k].start_pc = s[From(s, k)].pc
               /\ FunctionInfo(SortedByPc(s), last)[k].end_pc =
                     IF k < n THEN s[From(s, k + 1)].pc ELSE last
<1>1. PICK t : t = SortedByPc(s)
  OBVIOUS
<1>2. t \in [1..n -> Export] /\ \A k \in 1..n : t[k] = s[From(s, k)]
  <2>1. SortedByPc(s) \in [1..n -> Export]
    BY SortedIsSorted
  <2>2. \A k \in 1..n : SortedByPc(s)[k] = s[From(s, k)]
    BY SortedIsSorted
  <2> QED
    BY <1>1, <2>1, <2>2
<1>3. /\ FunctionInfo(t, last) \in [1..n -> Function]
      /\ \A k \in 1..n :
            /\ FunctionInfo(t, last)[k].name = t[k].name
            /\ FunctionInfo(t, last)[k].start_pc = t[k].pc
            /\ FunctionInfo(t, last)[k].end_pc = IF k < n THEN t[k + 1].pc ELSE last
  BY <1>2, FunctionsOfExports
<1>4. \A k \in 1..n : k < n => k + 1 \in 1..n
  OBVIOUS
<1>5. \A k \in 1..n : k < n => t[k + 1] = s[From(s, k + 1)]
  BY <1>2, <1>4
<1> QED
  BY <1>1, <1>2, <1>3, <1>5

(* function_at over the functions of the exports.                          *)
LEMMA FunctionAtExports ==
  ASSUME NEW n \in Nat, NEW s \in [1..n -> Export], NEW fs \in [1..n -> Function],
         \A k \in 1..n : fs[k].start_pc = s[From(s, k)].pc,
         NEW pc \in Pcs
  PROVE  /\ PartitionPoint(fs, pc) \in 0..n
         /\ \A r \in 1..n : s[From(s, r)].pc <= pc <=> r <= PartitionPoint(fs, pc)
<1>4. \A k \in 1..n : From(s, k) \in 1..n
  BY SortedIsSorted
<1>5. \A k \in 1..n : s[k].pc \in Nat
  BY DEF Export, Pcs
<1>6. \A k \in 1..n : fs[k].start_pc \in Nat
  BY <1>4, <1>5
<1>7. \A j, k \in 1..n : j <= k => fs[j].start_pc <= fs[k].start_pc
  <2> SUFFICES ASSUME NEW j \in 1..n, NEW k \in 1..n, j <= k
               PROVE  fs[j].start_pc <= fs[k].start_pc
    OBVIOUS
  <2>1. CASE j = k
    <3>1. fs[j].start_pc \in Nat
      BY <1>6
    <3> QED
      BY <2>1, <3>1
  <2>2. CASE j < k
    <3>1. Precedes(s, From(s, j), From(s, k))
      BY <2>2, SortedIsSorted
    <3>2. s[From(s, j)].pc \in Nat /\ s[From(s, k)].pc \in Nat
      BY <1>4, <1>5
    <3>3. s[From(s, j)].pc <= s[From(s, k)].pc
      BY <3>1, <3>2 DEF Precedes
    <3>4. fs[j].start_pc = s[From(s, j)].pc /\ fs[k].start_pc = s[From(s, k)].pc
      OBVIOUS
    <3> QED
      BY <3>3, <3>4
  <2> QED
    BY <2>1, <2>2
<1>8. PICK P : P = {k \in 1..n : fs[k].start_pc <= pc}
  OBVIOUS
<1>9. pc \in Nat
  BY DEF Pcs
<1>10. P \in SUBSET (1..n) /\ \A j, k \in 1..n : (k \in P /\ j <= k) => j \in P
  BY <1>6, <1>7, <1>8, <1>9
<1>11. PartitionPoint(fs, pc) = Cardinality(P)
  <2>1. DOMAIN fs = 1..n
    OBVIOUS
  <2> QED
    BY <1>8, <2>1 DEF PartitionPoint
<1>12. Cardinality(P) \in 0..n /\ \A k \in 1..n : k \in P <=> k <= Cardinality(P)
  BY <1>10, DownClosed
<1> QED
  BY <1>8, <1>11, <1>12

(* The export an instruction belongs to.                                   *)
LEMMA LastExport ==
  ASSUME NEW n \in Nat, NEW s \in [1..n -> Export], NEW fs \in [1..n -> Function],
         \A k \in 1..n : fs[k].start_pc = s[From(s, k)].pc,
         NEW pc \in Pcs, NEW idx, idx = PartitionPoint(fs, pc)
  PROVE  /\ idx \in 0..n
         /\ idx = 0 => \A k \in 1..n : ~(s[k].pc <= pc)
         /\ idx # 0 => /\ idx \in 1..n /\ From(s, idx) \in 1..n
                       /\ s[From(s, idx)].pc <= pc
                       /\ \A j \in 1..n : (s[j].pc <= pc /\ j # From(s, idx))
                                             => Precedes(s, j, From(s, idx))
                       /\ idx < n => idx + 1 \in 1..n /\ pc < s[From(s, idx + 1)].pc
<1>1. idx \in 0..n
  BY FunctionAtExports
<1>2. \A r \in 1..n : s[From(s, r)].pc <= pc <=> r <= idx
  BY FunctionAtExports
<1>3. \A k \in 1..n : \E r \in 1..n : From(s, r) = k
  BY SortedIsSorted
<1>4. \A k \in 1..n : From(s, k) \in 1..n
  BY SortedIsSorted
<1>5. \A q, r \in 1..n : q < r => Precedes(s, From(s, q), From(s, r))
  BY SortedIsSorted
<1>6. \A k \in 1..n : s[k].pc \in Nat
  BY DEF Export, Pcs
<1>7. ASSUME idx = 0, NEW k \in 1..n
      PROVE  ~(s[k].pc <= pc)
  <2>1. PICK r \in 1..n : From(s, r) = k
    BY <1>3
  <2>2. ~(r <= idx)
    BY <1>7
  <2> QED
    BY <1>2, <2>1, <2>2
<1>8. ASSUME idx # 0
      PROVE  idx \in 1..n
  BY <1>1, <1>8
<1>9. ASSUME idx # 0, NEW j \in 1..n, s[j].pc <= pc, j # From(s, idx)
      PROVE  Precedes(s, j, From(s, idx))
  <2>1. PICK r \in 1..n : From(s, r) = j
    BY <1>3
  <2>2. r <= idx /\ r # idx
    BY <1>2, <1>9, <2>1
  <2>3. r < idx
    BY <1>1, <2>2
  <2> QED
    BY <1>5, <1>8, <1>9, <2>1, <2>3
<1>10. ASSUME idx # 0, idx < n
       PROVE  idx + 1 \in 1..n /\ pc < s[From(s, idx + 1)].pc
  <2>1. idx + 1 \in 1..n /\ ~(idx + 1 <= idx)
    BY <1>1, <1>10
  <2>2. ~(s[From(s, idx + 1)].pc <= pc)
    BY <1>2, <2>1
  <2>3. s[From(s, idx + 1)].pc \in Nat /\ pc \in Nat
    BY <1>4, <1>6, <2>1 DEF Pcs
  <2> QED
    BY <2>1, <2>2, <2>3
<1>11. idx # 0 => s[From(s, idx)].pc <= pc /\ From(s, idx) \in 1..n
  <2> SUFFICES ASSUME idx # 0
               PROVE  s[From(s, idx)].pc <= pc /\ From(s, idx) \in 1..n
    OBVIOUS
  <2>1. idx \in 1..n /\ idx <= idx
    BY <1>8
  <2> QED
    BY <1>2, <1>4, <2>1
<1> QED
  BY <1>1, <1>7, <1>8, <1>9, <1>10, <1>11

-----------------------------------------------------------------------------
(* The inductive invariant: what each part has left, once it has run.      *)
Stages == {"detect", "resolc", "map", "names", "entry", "name", "ready", "err"}

Built ==
    /\ blob \in Blobs
    /\ stage \in Stages
    /\ is_solidity \in BOOLEAN
    /\ stage # "detect" => (is_solidity <=> LooksLikeRevive \/ HasSolidityDebugPaths)
    /\ resolc = None \/ resolc = ResolcMap
    /\ locations = Empty \/ locations = SourceLocations
    /\ stage \in {"names", "entry", "name", "ready", "err"} => locations = SourceLocations
    /\ functions = <<>> \/ functions = ExportFunctions
    /\ frame_functions = Empty \/ frame_functions = FrameFunctions
    /\ Named => functions = ExportFunctions /\ frame_functions = FrameFunctions
    /\ stage \notin {"name", "ready"} => entry = None
    /\ stage \in {"name", "ready"} =>
          Candidates # {} /\ entry = blob.exports[First(Candidates)].pc
    /\ stage = "err" => Candidates = {}
    /\ stage # "ready" => entry_name = None
    /\ stage = "ready" => entry_name = blob.exports[First(ExportsAtEntry)].name

(* Nothing but the blob decides what a part builds.                        *)
LEMMA OnlyTheBlob ==
  ASSUME blob' = blob
  PROVE  /\ LooksLikeRevive' <=> LooksLikeRevive
         /\ HasSolidityDebugPaths' <=> HasSolidityDebugPaths
         /\ ResolcMap' = ResolcMap /\ SourceLocations' = SourceLocations
         /\ ExportFunctions' = ExportFunctions /\ FrameFunctions' = FrameFunctions
         /\ is_solidity' = is_solidity => Candidates' = Candidates
         /\ entry' = entry => ExportsAtEntry' = ExportsAtEntry
<1>1. LooksLikeRevive' <=> LooksLikeRevive
  BY DEF LooksLikeRevive, Exported
<1>2. HasSolidityDebugPaths' <=> HasSolidityDebugPaths
  BY DEF HasSolidityDebugPaths, Regions
<1>3. ResolcMap' = ResolcMap
  BY SMTT(60) DEF ResolcMap, RangeOf, FunctionInfo, SortedByPc, Precedes, Lined, FramesAt,
             Innermost, Regions, Context, InRange
<1>4. SourceLocations' = SourceLocations
  BY SMT DEF SourceLocations, Lined, FramesAt, Innermost, Regions
<1>5. ExportFunctions' = ExportFunctions
  BY SMT DEF ExportFunctions
<1>6. FrameFunctions' = FrameFunctions
  BY SMT DEF FrameFunctions, FramesAt, Outermost, Regions
<1>7. is_solidity' = is_solidity => Candidates' = Candidates
  BY SMT DEF Candidates, Wanted
<1>8. entry' = entry => ExportsAtEntry' = ExportsAtEntry
  BY SMT DEF ExportsAtEntry
<1> QED
  BY <1>1, <1>2, <1>3, <1>4, <1>5, <1>6, <1>7, <1>8

(* The invariant holds before anything is built.                           *)
LEMMA BuiltInit == Init => Built
  BY DEF Init, Built, Stages, Named

(* Every part of trace_program keeps the invariant.                        *)
LEMMA BuiltStep ==
  ASSUME Built, [Next]_vars
  PROVE  Built'
<1>1. blob' = blob
  BY DEF Next, vars, DetectSolidity, ParseResolc, MapSources, NameVariables, ChooseEntry,
         NameEntry, Ready
<1>2. CASE DetectSolidity
  BY <1>1, <1>2, OnlyTheBlob DEF Built, DetectSolidity, Stages, Named
<1>3. CASE ParseResolc
  BY <1>1, <1>3, OnlyTheBlob DEF Built, ParseResolc, Stages, Named
<1>4. CASE MapSources
  BY <1>1, <1>4, OnlyTheBlob DEF Built, MapSources, Stages, Named
<1>5. CASE NameVariables
  BY <1>1, <1>5, OnlyTheBlob DEF Built, NameVariables, Stages, Named
<1>6. CASE ChooseEntry
  BY <1>1, <1>6, OnlyTheBlob DEF Built, ChooseEntry, Stages, Named
<1>7. CASE NameEntry
  BY <1>1, <1>7, OnlyTheBlob DEF Built, NameEntry, Stages, Named
<1>8. CASE UNCHANGED vars
  BY <1>1, <1>8, OnlyTheBlob DEF Built, vars, Stages, Named
<1> QED
  BY <1>2, <1>3, <1>4, <1>5, <1>6, <1>7, <1>8 DEF Next, Ready

(* What each part has left is what it builds from the blob, in every state *)
(* of every recording.                                                     *)
LEMMA BuiltAlways == Spec => []Built
  BY BuiltInit, BuiltStep, PTL DEF Spec

-----------------------------------------------------------------------------
(* A sequence is a function over its positions.                            *)
LEMMA SeqIsFunction ==
  ASSUME NEW X, NEW x \in Seq(X)
  PROVE  \E n \in Nat : x \in [1..n -> X]
  OBVIOUS

(* A function over positions is a sequence.                                *)
LEMMA FunctionIsSeq ==
  ASSUME NEW X, NEW n \in Nat, NEW x \in [1..n -> X]
  PROVE  x \in Seq(X)
  OBVIOUS

(* A blob lists its exports, each with a name of its own.                  *)
LEMMA ExportList ==
  ASSUME blob \in Blobs
  PROVE  /\ \E n \in Nat : blob.exports \in [1..n -> Export]
         /\ \A j, k \in DOMAIN blob.exports :
               blob.exports[j].name = blob.exports[k].name => j = k
         /\ blob.offsets \subseteq Pcs
<1>1. blob.exports \in Seq(Export)
  BY DebugInfoAssumption DEF Export
<1> QED
  BY <1>1, SeqIsFunction, DebugInfoAssumption

(* function_at finds the function of the last export.                      *)
LEMMA FunctionFound ==
  ASSUME Built, Named, NEW n \in Nat, blob.exports \in [1..n -> Export],
         NEW pc \in Pcs, NEW idx, idx = PartitionPoint(functions, pc)
  PROVE  /\ functions \in [1..n -> Function]
         /\ \A k \in 1..n : functions[k].start_pc = blob.exports[From(blob.exports, k)].pc
         /\ \A k \in 1..n : functions[k].name = blob.exports[From(blob.exports, k)].name
         /\ idx = 0 => FunctionAt(pc) = None
         /\ idx # 0 => /\ FunctionAt(pc) = functions[idx] /\ FunctionAt(pc) # None
                       /\ FunctionAt(pc).name = blob.exports[From(blob.exports, idx)].name
                       /\ FunctionAt(pc).start_pc = blob.exports[From(blob.exports, idx)].pc
<1>1. functions = FunctionInfo(SortedByPc(blob.exports), None)
  BY DEF Built, ExportFunctions
<1>2. PICK s : s = blob.exports
  OBVIOUS
<1>3. None \in Nat \cup {None} /\ s \in [1..n -> Export]
  BY <1>2
<1>4. /\ FunctionInfo(SortedByPc(s), None) \in [1..n -> Function]
      /\ \A k \in 1..n :
            /\ FunctionInfo(SortedByPc(s), None)[k].name = s[From(s, k)].name
            /\ FunctionInfo(SortedByPc(s), None)[k].start_pc = s[From(s, k)].pc
            /\ FunctionInfo(SortedByPc(s), None)[k].end_pc =
                  IF k < n THEN s[From(s, k + 1)].pc ELSE None
  BY <1>3, SortedFunctions
<1>5. /\ functions \in [1..n -> Function]
      /\ \A k \in 1..n : /\ functions[k].name = s[From(s, k)].name
                         /\ functions[k].start_pc = s[From(s, k)].pc
                         /\ functions[k].end_pc = IF k < n THEN s[From(s, k + 1)].pc ELSE None
  BY <1>1, <1>2, <1>4
<1>6. /\ idx \in 0..n
      /\ idx # 0 => /\ idx \in 1..n
                    /\ idx < n => idx + 1 \in 1..n /\ pc < s[From(s, idx + 1)].pc
  <2>1. \A k \in 1..n : functions[k].start_pc = s[From(s, k)].pc
    BY <1>5
  <2>2. functions \in [1..n -> Function] /\ s \in [1..n -> Export]
    BY <1>3, <1>5
  <2> QED
    BY <2>1, <2>2, LastExport
<1>7. idx = 0 => FunctionAt(pc) = None
  BY DEF FunctionAt
<1>8. ASSUME idx # 0
      PROVE  /\ FunctionAt(pc) = functions[idx] /\ FunctionAt(pc) # None
             /\ FunctionAt(pc).name = s[From(s, idx)].name
             /\ FunctionAt(pc).start_pc = s[From(s, idx)].pc
  <2>1. functions[idx] \in Function /\ functions[idx] # None
    BY <1>5, <1>6, <1>8, DebugInfoAssumption
  <2>2. ~(functions[idx].end_pc # None /\ pc >= functions[idx].end_pc)
    <3>1. CASE idx < n
      <4>1. idx + 1 \in 1..n /\ pc < s[From(s, idx + 1)].pc
        BY <1>6, <1>8, <3>1
      <4>2. From(s, idx + 1) \in 1..n
        BY <1>3, <4>1, SortedIsSorted
      <4>3. s[From(s, idx + 1)].pc \in Nat /\ pc \in Nat
        BY <1>3, <4>2 DEF Export, Pcs
      <4>4. functions[idx].end_pc = s[From(s, idx + 1)].pc
        BY <1>5, <1>6, <1>8, <3>1
      <4> QED
        BY <4>1, <4>3, <4>4
    <3>2. CASE ~(idx < n)
      BY <1>5, <1>6, <1>8, <3>2
    <3> QED
      BY <3>1, <3>2
  <2>3. FunctionAt(pc) = functions[idx]
    BY <1>8, <2>2 DEF FunctionAt
  <2> QED
    BY <1>5, <1>6, <1>8, <2>1, <2>3
<1> QED
  BY <1>2, <1>5, <1>7, <1>8

(* function_at's binary search over the sorted exports finds, for every    *)
(* instruction of every blob, the last export at or before it.             *)
THEOREM LastExportIsFound == Spec => []FunctionAtIsTheLastExport
<1>1. ASSUME Built
      PROVE  FunctionAtIsTheLastExport
  <2> SUFFICES ASSUME Built, Named, NEW pc \in blob.offsets, NEW before,
                      before = {k \in DOMAIN blob.exports : blob.exports[k].pc <= pc}
               PROVE  IF before = {} THEN FunctionAt(pc) = None
                      ELSE \E k \in before :
                             /\ \A j \in before \ {k} : Precedes(blob.exports, j, k)
                             /\ FunctionAt(pc) # None
                             /\ FunctionAt(pc).name = blob.exports[k].name
                             /\ FunctionAt(pc).start_pc = blob.exports[k].pc
    BY <1>1 DEF FunctionAtIsTheLastExport
  <2>1. PICK n \in Nat : blob.exports \in [1..n -> Export]
    BY ExportList DEF Built
  <2>2. pc \in Pcs
    BY ExportList DEF Built
  <2>3. PICK idx : idx = PartitionPoint(functions, pc)
    OBVIOUS
  <2>4. PICK s : s = blob.exports
    OBVIOUS
  <2>5. s \in [1..n -> Export]
    BY <2>1, <2>4
  <2>6. /\ functions \in [1..n -> Function]
        /\ \A k \in 1..n : functions[k].start_pc = s[From(s, k)].pc
        /\ idx = 0 => FunctionAt(pc) = None
        /\ idx # 0 => /\ FunctionAt(pc) # None
                      /\ FunctionAt(pc).name = s[From(s, idx)].name
                      /\ FunctionAt(pc).start_pc = s[From(s, idx)].pc
    BY <2>1, <2>2, <2>3, <2>4, FunctionFound
  <2>7. /\ idx \in 0..n
        /\ idx = 0 => \A k \in 1..n : ~(s[k].pc <= pc)
        /\ idx # 0 => /\ From(s, idx) \in 1..n /\ s[From(s, idx)].pc <= pc
                      /\ \A j \in 1..n : (s[j].pc <= pc /\ j # From(s, idx))
                                            => Precedes(s, j, From(s, idx))
    BY <2>2, <2>3, <2>5, <2>6, LastExport
  <2>8. before = {k \in 1..n : s[k].pc <= pc}
    BY <2>4, <2>5
  <2>9. CASE idx = 0
    BY <2>6, <2>7, <2>8, <2>9
  <2>10. CASE idx # 0
    <3>1. PICK k : k = From(s, idx)
      OBVIOUS
    <3>2. k \in before /\ \A j \in before \ {k} : Precedes(s, j, k)
      BY <2>7, <2>8, <2>10, <3>1
    <3>3. FunctionAt(pc) # None /\ FunctionAt(pc).name = s[k].name /\ FunctionAt(pc).start_pc = s[k].pc
      BY <2>6, <2>10, <3>1
    <3> QED
      BY <2>4, <3>2, <3>3
  <2> QED
    BY <2>9, <2>10
<1> QED
  BY <1>1, BuiltAlways, PTL

(* The range of a name, and the instructions function_at finds it for.     *)
LEMMA NameInRange ==
  ASSUME Built, Named, NEW pc \in Pcs, NEW name \in Symbols
  PROVE  InRange(RangeOf(name), pc) <=> NameAt(pc) = name
<1>1. PICK n \in Nat : blob.exports \in [1..n -> Export]
  BY ExportList DEF Built
<1>2. PICK s : s = blob.exports
  OBVIOUS
<1>3. s \in [1..n -> Export]
  BY <1>1, <1>2
<1>4. \A j, k \in 1..n : s[j].name = s[k].name => j = k
  BY <1>2, <1>3, ExportList DEF Built
<1>5. PICK fs : fs = FunctionInfo(SortedByPc(s), MaxPc)
  OBVIOUS
<1>6. /\ fs \in [1..n -> Function]
      /\ \A k \in 1..n : fs[k].name = s[From(s, k)].name
      /\ \A k \in 1..n : fs[k].start_pc = s[From(s, k)].pc
      /\ \A k \in 1..n : fs[k].end_pc = IF k < n THEN s[From(s, k + 1)].pc ELSE MaxPc
  <2>1. MaxPc \in Nat \cup {None}
    BY DebugInfoAssumption
  <2> QED
    BY <1>3, <1>5, <2>1, SortedFunctions
<1>7. PICK idx : idx = PartitionPoint(functions, pc)
  OBVIOUS
<1>8. /\ functions \in [1..n -> Function]
      /\ \A k \in 1..n : functions[k].start_pc = s[From(s, k)].pc
      /\ idx = 0 => FunctionAt(pc) = None
      /\ idx # 0 => FunctionAt(pc) # None /\ FunctionAt(pc).name = s[From(s, idx)].name
  BY <1>1, <1>2, <1>7, FunctionFound
<1>9. idx \in 0..n /\ \A r \in 1..n : s[From(s, r)].pc <= pc <=> r <= idx
  BY <1>3, <1>7, <1>8, FunctionAtExports
<1>11. \A j, k \in 1..n : fs[j].name = fs[k].name => j = k
  <2> SUFFICES ASSUME NEW j \in 1..n, NEW k \in 1..n, fs[j].name = fs[k].name
               PROVE  j = k
    OBVIOUS
  <2>1. From(s, j) \in 1..n /\ From(s, k) \in 1..n
    BY <1>3, SortedIsSorted
  <2>2. From(s, j) = From(s, k)
    BY <1>4, <1>6, <2>1
  <2>3. ASSUME NEW q \in 1..n, NEW r \in 1..n, q < r
        PROVE  From(s, q) # From(s, r)
    <3>1. Precedes(s, From(s, q), From(s, r)) /\ From(s, q) \in 1..n
      BY <1>3, <2>3, SortedIsSorted
    <3>2. s[From(s, q)].pc \in Nat
      BY <1>3, <3>1 DEF Export, Pcs
    <3> QED
      BY <3>1, <3>2 DEF Precedes
  <2> QED
    BY <2>2, <2>3
<1>12. NameAt(pc) = name <=> (idx \in 1..n /\ fs[idx].name = name)
  <2>1. CASE idx = 0
    BY <1>8, <2>1, DebugInfoAssumption DEF NameAt
  <2>2. CASE idx # 0
    <3>1. idx \in 1..n
      BY <1>9, <2>2
    <3> QED
      BY <1>6, <1>8, <2>2, <3>1 DEF NameAt
  <2> QED
    BY <2>1, <2>2
<1>13. PICK ks : ks = {k \in 1..n : fs[k].name = name}
  OBVIOUS
<1>14. RangeOf(name) = IF ks = {} THEN None ELSE fs[CHOOSE k \in ks : TRUE]
  <2>1. DOMAIN fs = 1..n
    BY <1>6
  <2> QED
    BY <1>2, <1>5, <1>13, <2>1 DEF RangeOf
<1>15. CASE ks = {}
  <2>1. ~InRange(RangeOf(name), pc)
    BY <1>14, <1>15 DEF InRange
  <2> QED
    BY <1>12, <1>13, <1>15, <2>1
<1>16. CASE ks # {}
  <2>1. PICK r : r = CHOOSE k \in ks : TRUE
    OBVIOUS
  <2>2. r \in ks
    BY <1>16, <2>1
  <2>3. r \in 1..n /\ fs[r].name = name
    BY <1>13, <2>2
  <2>4. RangeOf(name) = fs[r] /\ fs[r] # None
    BY <1>6, <1>14, <1>16, <2>1, <2>3, DebugInfoAssumption
  <2>5. (fs[r].start_pc <= pc /\ pc < fs[r].end_pc) <=> idx = r
    <3>1. fs[r].start_pc <= pc <=> r <= idx
      BY <1>6, <1>9, <2>3
    <3>2. pc \in Nat /\ pc < MaxPc
      BY DebugInfoAssumption DEF Pcs
    <3>3. CASE r < n
      <4>1. r + 1 \in 1..n
        BY <2>3, <3>3
      <4>2. fs[r].end_pc = s[From(s, r + 1)].pc
        BY <1>6, <2>3, <3>3
      <4>3. From(s, r + 1) \in 1..n
        BY <1>3, <4>1, SortedIsSorted
      <4>4. s[From(s, r + 1)].pc \in Nat
        BY <1>3, <4>3 DEF Export, Pcs
      <4>5. fs[r].end_pc <= pc <=> r + 1 <= idx
        BY <1>9, <4>1, <4>2
      <4> QED
        BY <1>9, <2>3, <3>1, <3>2, <4>2, <4>4, <4>5
    <3>4. CASE ~(r < n)
      <4>1. r = n /\ fs[r].end_pc = MaxPc
        BY <1>6, <2>3, <3>4
      <4> QED
        BY <1>9, <3>1, <3>2, <4>1
    <3> QED
      BY <3>3, <3>4
  <2>6. InRange(RangeOf(name), pc) <=> idx = r
    BY <2>4, <2>5 DEF InRange
  <2> QED
    BY <1>11, <1>12, <2>3, <2>6
<1> QED
  BY <1>15, <1>16

(* The resolc map, SourceMapper and function_at, built by three scans of   *)
(* the debug information, agree on every instruction of every Solidity     *)
(* blob.                                                                   *)
THEOREM ViewsAlwaysAgree == Spec => []ViewsAgree
<1>1. ASSUME Built
      PROVE  ViewsAgree
  <2> SUFFICES ASSUME Built, Named, resolc # None, NEW pc \in blob.offsets
               PROVE  /\ InRange(resolc.deploy_range, pc) <=> NameAt(pc) = "deploy"
                      /\ InRange(resolc.call_range, pc) <=> NameAt(pc) = "call"
                      /\ pc \in DOMAIN locations =>
                            /\ pc \in DOMAIN resolc.locations
                            /\ resolc.locations[pc].path = locations[pc].path
                            /\ resolc.locations[pc].line = locations[pc].line
                      /\ pc \in DOMAIN resolc.locations \ DOMAIN locations =>
                            resolc.locations[pc].path = NoPath
                      /\ pc \in DOMAIN resolc.locations =>
                            resolc.locations[pc].context =
                               IF NameAt(pc) = "deploy" THEN "constructor" ELSE Innermost(pc).fn
    BY <1>1 DEF ViewsAgree
  <2>1. pc \in Pcs
    BY ExportList DEF Built
  <2>2. InRange(RangeOf("deploy"), pc) <=> NameAt(pc) = "deploy"
    BY <2>1, NameInRange, DebugInfoAssumption
  <2>3. InRange(RangeOf("call"), pc) <=> NameAt(pc) = "call"
    BY <2>1, NameInRange, DebugInfoAssumption
  <2>4. resolc = ResolcMap
    BY DEF Built
  <2>5. resolc.deploy_range = RangeOf("deploy") /\ resolc.call_range = RangeOf("call")
    BY <2>4 DEF ResolcMap
  <2>6. /\ DOMAIN resolc.locations = Lined
        /\ \A p \in Lined : /\ resolc.locations[p].path = Innermost(p).path
                            /\ resolc.locations[p].line = Innermost(p).line
                            /\ resolc.locations[p].context = Context(p)
    BY <2>4 DEF ResolcMap
  <2>7. locations = SourceLocations
    BY DEF Built, Named
  <2>8. /\ DOMAIN locations = {p \in Lined : Innermost(p).path # NoPath}
        /\ \A p \in DOMAIN locations : /\ locations[p].path = Innermost(p).path
                                       /\ locations[p].line = Innermost(p).line
    BY <2>7 DEF SourceLocations
  <2>9. Context(pc) = IF NameAt(pc) = "deploy" THEN "constructor" ELSE Innermost(pc).fn
    BY <2>2 DEF Context
  <2> QED
    BY <2>2, <2>3, <2>5, <2>6, <2>8, <2>9
<1> QED
  BY <1>1, BuiltAlways, PTL

-----------------------------------------------------------------------------
(* The entry point is the address of the first export looked for.          *)
LEMMA EntryExport ==
  ASSUME Built, stage \in {"name", "ready"}
  PROVE  \E e \in DOMAIN blob.exports :
            /\ blob.exports[e].name \in Wanted /\ blob.exports[e].pc = entry
            /\ entry \in Pcs
<1>1. PICK n \in Nat : blob.exports \in [1..n -> Export]
  BY ExportList DEF Built
<1>2. PICK e : e = First(Candidates)
  OBVIOUS
<1>3. Candidates \in SUBSET (1..n) /\ Candidates # {}
  BY <1>1 DEF Built, Candidates
<1>4. e \in Candidates
  BY <1>2, <1>3, FirstIsLeast
<1>5. e \in DOMAIN blob.exports /\ blob.exports[e].name \in Wanted
  BY <1>4 DEF Candidates
<1>6. entry = blob.exports[e].pc
  BY <1>2 DEF Built
<1>7. blob.exports[e].pc \in Pcs
  BY <1>1, <1>5 DEF Export
<1> QED
  BY <1>5, <1>6, <1>7

(* The entry frame's name is that of an export at the entry point.         *)
LEMMA EntryName ==
  ASSUME Built, stage = "ready"
  PROVE  \E k \in DOMAIN blob.exports :
            blob.exports[k].name = entry_name /\ blob.exports[k].pc = entry
<1>1. PICK n \in Nat : blob.exports \in [1..n -> Export]
  BY ExportList DEF Built
<1>2. ExportsAtEntry \in SUBSET (1..n) /\ ExportsAtEntry # {}
  BY <1>1, EntryExport DEF ExportsAtEntry
<1>3. First(ExportsAtEntry) \in ExportsAtEntry
  BY <1>1, <1>2, FirstIsLeast
<1> QED
  BY <1>3 DEF Built, ExportsAtEntry

(* Where a function begins at or before, function_at finds one.            *)
LEMMA FoundAfterExport ==
  ASSUME Built, Named, NEW pc \in Pcs, NEW e \in DOMAIN blob.exports,
         blob.exports[e].pc <= pc
  PROVE  /\ FunctionAt(pc) # None /\ functions # <<>>
         /\ blob.exports[e].pc = pc => FunctionAt(pc).start_pc = pc
<1>1. PICK n \in Nat : blob.exports \in [1..n -> Export]
  BY ExportList DEF Built
<1>2. PICK s : s = blob.exports
  OBVIOUS
<1>3. s \in [1..n -> Export] /\ e \in 1..n /\ s[e].pc <= pc
  BY <1>1, <1>2
<1>4. PICK idx : idx = PartitionPoint(functions, pc)
  OBVIOUS
<1>5. /\ functions \in [1..n -> Function]
      /\ \A k \in 1..n : functions[k].start_pc = s[From(s, k)].pc
      /\ idx # 0 => FunctionAt(pc) # None /\ FunctionAt(pc).start_pc = s[From(s, idx)].pc
  BY <1>1, <1>2, <1>4, FunctionFound
<1>6. /\ idx = 0 => \A k \in 1..n : ~(s[k].pc <= pc)
      /\ idx # 0 => /\ From(s, idx) \in 1..n /\ s[From(s, idx)].pc <= pc
                    /\ \A j \in 1..n : (s[j].pc <= pc /\ j # From(s, idx))
                                          => Precedes(s, j, From(s, idx))
  BY <1>3, <1>4, <1>5, LastExport
<1>7. idx # 0
  BY <1>3, <1>6
<1>8. PICK k : k = From(s, idx)
  OBVIOUS
<1>9. k \in 1..n /\ s[k].pc <= pc /\ (e # k => Precedes(s, e, k))
  BY <1>3, <1>6, <1>7, <1>8
<1>10. s[e].pc \in Nat /\ s[k].pc \in Nat /\ pc \in Nat
  BY <1>3, <1>9 DEF Export, Pcs
<1>11. s[e].pc = pc => s[k].pc = pc
  BY <1>9, <1>10 DEF Precedes
<1>12. functions # <<>>
  <2>1. DOMAIN functions = 1..n /\ 1 \in 1..n
    BY <1>3, <1>5
  <2> QED
    BY <2>1
<1> QED
  BY <1>2, <1>5, <1>7, <1>8, <1>11, <1>12

(* trace_program starts every blob at an export of its kind, and refuses   *)
(* one only for having none.                                               *)
THEOREM EntryIsAlwaysRight == Spec => []EntryIsRight
<1>1. ASSUME Built
      PROVE  EntryIsRight
  <2>1. ASSUME stage = "ready"
        PROVE  FunctionAt(entry) # None /\ FunctionAt(entry).start_pc = entry
    <3>1. PICK e \in DOMAIN blob.exports : blob.exports[e].pc = entry /\ entry \in Pcs
      BY <1>1, <2>1, EntryExport
    <3>2. entry <= entry
      BY <3>1 DEF Pcs
    <3> QED
      BY <1>1, <2>1, <3>1, <3>2, FoundAfterExport DEF Named
  <2>2. ASSUME stage = "ready",
               \A j, k \in DOMAIN blob.exports : blob.exports[j].pc = blob.exports[k].pc => j = k
        PROVE  entry_name \in Wanted
    BY <1>1, <2>2, EntryExport, EntryName
  <2>3. HasSolidityDebugPaths => HasSolidityFrames
    BY DEF HasSolidityDebugPaths, HasSolidityFrames
  <2>4. Named => (is_solidity <=> LooksLikeRevive \/ HasSolidityDebugPaths)
    BY <1>1 DEF Built, Named
  <2>5. Exported("main") /\ ~is_solidity => Candidates # {}
    BY DEF Exported, Candidates, Wanted
  <2>6. (Exported("call") \/ Exported("deploy")) /\ is_solidity => Candidates # {}
    BY DEF Exported, Candidates, Wanted
  <2>7. stage = "err" => Candidates = {} /\ Named
    BY <1>1 DEF Built, Named
  <2>8. (Named /\ Exported("main") /\ ~HasSolidityFrames) => ~is_solidity /\ stage # "err"
    BY <2>3, <2>4, <2>5, <2>7 DEF LooksLikeRevive
  <2>9. (Named /\ LooksLikeRevive) => is_solidity /\ stage # "err"
    BY <2>4, <2>6, <2>7 DEF LooksLikeRevive
  <2>10. stage = "err" => /\ ~Exported("call") /\ ~Exported("deploy")
                          /\ Exported("main") => HasSolidityFrames
    BY <2>3, <2>4, <2>5, <2>6, <2>7, <1>1 DEF LooksLikeRevive, Built
  <2> QED
    BY <1>1, <2>1, <2>2, <2>8, <2>9, <2>10, EntryName DEF EntryIsRight
<1> QED
  BY <1>1, BuiltAlways, PTL

(* A0 to A5 have argument names at and after the entry point and where a   *)
(* frame is named, in every blob.                                          *)
THEOREM ArgumentsAreAlwaysNamed == Spec => []ArgumentsAreNamed
<1>1. ASSUME Built
      PROVE  ArgumentsAreNamed
  <2> SUFFICES ASSUME Built, stage = "ready", NEW pc \in blob.offsets
               PROVE  /\ pc >= entry => RenamesArguments(pc)
                      /\ (FramesAt(pc) # <<>> /\ Outermost(pc).fn # NoName) => RenamesArguments(pc)
                      /\ RenamesArguments(pc) =>
                            \/ \E k \in DOMAIN blob.exports : blob.exports[k].pc <= pc
                            \/ FramesAt(pc) # <<>> /\ Outermost(pc).fn # NoName
    BY <1>1 DEF ArgumentsAreNamed
  <2>1. pc \in Pcs
    BY ExportList DEF Built
  <2>2. PICK e \in DOMAIN blob.exports : blob.exports[e].pc = entry /\ entry \in Pcs
    BY EntryExport
  <2>3. Named
    BY DEF Named
  <2>4. pc >= entry => FunctionAt(pc) # None
    BY <2>1, <2>2, <2>3, FoundAfterExport DEF Pcs
  <2>5. functions # <<>>
    <3>1. entry <= entry
      BY <2>2 DEF Pcs
    <3> QED
      BY <2>2, <2>3, <3>1, FoundAfterExport
  <2>6. pc \in DOMAIN frame_functions <=> FramesAt(pc) # <<>> /\ Outermost(pc).fn # NoName
    BY <2>3 DEF Built, FrameFunctions
  <2>7. FunctionAt(pc) # None => \E k \in DOMAIN blob.exports : blob.exports[k].pc <= pc
    <3>1. PICK n \in Nat : blob.exports \in [1..n -> Export]
      BY ExportList DEF Built
    <3>2. PICK s : s = blob.exports
      OBVIOUS
    <3>3. PICK idx : idx = PartitionPoint(functions, pc)
      OBVIOUS
    <3>4. /\ functions \in [1..n -> Function]
          /\ \A k \in 1..n : functions[k].start_pc = s[From(s, k)].pc
          /\ idx = 0 => FunctionAt(pc) = None
      BY <2>1, <2>3, <3>1, <3>2, <3>3, FunctionFound
    <3>5. s \in [1..n -> Export]
      BY <3>1, <3>2
    <3>6. idx # 0 => From(s, idx) \in 1..n /\ s[From(s, idx)].pc <= pc
      BY <2>1, <3>3, <3>4, <3>5, LastExport
    <3> QED
      BY <3>2, <3>4, <3>5, <3>6
  <2> QED
    BY <2>4, <2>5, <2>6, <2>7 DEF RenamesArguments
<1> QED
  BY <1>1, BuiltAlways, PTL

(* The maps and functions of every blob are well-formed.                   *)
THEOREM TypeCorrect == Spec => []TypeOK
<1>1. ASSUME Built
      PROVE  TypeOK
  <2>1. PICK n \in Nat : blob.exports \in [1..n -> Export]
    BY <1>1, ExportList DEF Built
  <2>2. ExportFunctions \in [1..n -> Function]
    BY <2>1, SortedFunctions DEF ExportFunctions
  <2>3. functions \in Seq(Function)
    <3>1. ExportFunctions \in Seq(Function)
      BY <2>2, FunctionIsSeq
    <3>2. <<>> \in Seq(Function)
      OBVIOUS
    <3>3. functions = <<>> \/ functions = ExportFunctions
      BY <1>1 DEF Built
    <3> QED
      BY <3>1, <3>2, <3>3
  <2>4. entry \in Pcs \cup {None}
    BY <1>1, EntryExport DEF Built
  <2>5. entry_name \in Symbols \cup {None}
    <3>1. \A k \in DOMAIN blob.exports : blob.exports[k].name \in Symbols
      BY <2>1 DEF Export
    <3> QED
      BY <1>1, <3>1, EntryName DEF Built
  <2>6. resolc # None => /\ DOMAIN resolc.locations \subseteq blob.offsets
                         /\ \A pc \in DOMAIN resolc.locations : resolc.locations[pc].line > 0
    <3> SUFFICES ASSUME resolc = ResolcMap
                 PROVE  /\ DOMAIN resolc.locations \subseteq blob.offsets
                        /\ \A pc \in DOMAIN resolc.locations : resolc.locations[pc].line > 0
      BY <1>1 DEF Built
    <3>1. /\ DOMAIN resolc.locations = Lined
          /\ \A pc \in Lined : resolc.locations[pc].line = Innermost(pc).line
      BY DEF ResolcMap
    <3> QED
      BY <3>1 DEF Lined
  <2>7. /\ DOMAIN locations \subseteq blob.offsets
        /\ \A pc \in DOMAIN locations : locations[pc].line > 0 /\ locations[pc].path # NoPath
    <3>1. CASE locations = Empty
      BY <3>1 DEF Empty
    <3>2. CASE locations = SourceLocations
      BY <3>2 DEF SourceLocations, Lined
    <3> QED
      BY <1>1, <3>1, <3>2 DEF Built
  <2>8. DOMAIN frame_functions \subseteq blob.offsets
    <3>1. CASE frame_functions = Empty
      BY <3>1 DEF Empty
    <3>2. CASE frame_functions = FrameFunctions
      BY <3>2 DEF FrameFunctions
    <3> QED
      BY <1>1, <3>1, <3>2 DEF Built
  <2> QED
    BY <1>1, <2>3, <2>4, <2>5, <2>6, <2>7, <2>8 DEF TypeOK, Built, Stages
<1> QED
  BY <1>1, BuiltAlways, PTL
=============================================================================
