-------------------------- MODULE BackupRowsProofs --------------------------
(***************************************************************************)
(* Facts about sets of backup rows, for any accounts, sizes and limits: what *)
(* keeps a table healthy, that a healthy table can be restored from, and how *)
(* much it holds.  CatalogTxProofs and BackupServiceProofs rest on them.   *)
(***************************************************************************)
EXTENDS BackupRows, FiniteSetTheorems, WellFoundedInduction, TLAPS

-----------------------------------------------------------------------------
(* Keys and parents.                                                       *)

\* A row above all others of its account, with a fresh id, that builds on the
\* head or on nothing keeps keys unique and deltas adjacent: CreateBackup's head
\* rule.
LEMMA AddHead ==
    ASSUME NEW R \in SUBSET Row, NEW r \in Row,
           UniqueKeys(R), Adjacent(R),
           \A q \in R : q.id # r.id,
           \A q \in RowsOf(R, r.acct) : q.version < r.version,
           r.parent # NoParent =>
               \E h \in RowsOf(R, r.acct) : h.id = r.parent /\ IsHead(R, h)
    PROVE  UniqueKeys(R \cup {r}) /\ Adjacent(R \cup {r})
<1> DEFINE S == R \cup {r}
<1>1. UniqueKeys(S)
  <2>1. ASSUME NEW p \in S, NEW q \in S, p.id = q.id PROVE p = q
    BY <2>1 DEF UniqueKeys
  <2>2. ASSUME NEW p \in S, NEW q \in S, p.acct = q.acct, p.version = q.version
        PROVE  p = q
    <3>1. \A x \in R : x.acct = r.acct => x.version # r.version
      BY DEF RowsOf, Row
    <3> QED
      BY <2>2, <3>1 DEF UniqueKeys
  <2> QED
    BY <2>1, <2>2 DEF UniqueKeys
<1>2. Adjacent(S)
  <2> SUFFICES ASSUME NEW c \in S, c.parent # NoParent
               PROVE  \E p \in RowsOf(S, c.acct) :
                         /\ p.id = c.parent
                         /\ p.version < c.version
                         /\ ~ \E q \in RowsOf(S, c.acct) :
                                 p.version < q.version /\ q.version < c.version
    BY DEF Adjacent, IsDelta
  <2>1. CASE c \in R
    <3>1. PICK p \in RowsOf(R, c.acct) :
             /\ p.id = c.parent
             /\ p.version < c.version
             /\ ~ \E q \in RowsOf(R, c.acct) :
                     p.version < q.version /\ q.version < c.version
      BY <2>1 DEF Adjacent, IsDelta
    <3>2. r.acct = c.acct => ~(r.version < c.version)
      BY <2>1 DEF RowsOf, Row
    <3> QED
      BY <3>1, <3>2 DEF RowsOf
  <2>2. CASE c = r
    <3>1. PICK h \in RowsOf(R, r.acct) : h.id = r.parent /\ IsHead(R, h)
      BY <2>2
    <3>2. \A q \in RowsOf(S, r.acct) : ~(h.version < q.version /\ q.version < r.version)
      BY <3>1 DEF RowsOf, IsHead, Row
    <3> QED
      BY <2>2, <3>1, <3>2 DEF RowsOf
  <2> QED
    BY <2>1, <2>2
<1> QED
  BY <1>1, <1>2

\* Taking rows away that no remaining row references keeps keys unique and deltas
\* adjacent: what the foreign key buys a delete, a prune and a cascade.
LEMMA RemoveUnreferenced ==
    ASSUME NEW R \in SUBSET Row, NEW gone \in SUBSET R,
           UniqueKeys(R), Adjacent(R),
           \A r \in gone : ~Referenced(R \ gone, r)
    PROVE  UniqueKeys(R \ gone) /\ Adjacent(R \ gone)
<1>1. UniqueKeys(R \ gone)
  BY DEF UniqueKeys
<1>2. Adjacent(R \ gone)
  <2> SUFFICES ASSUME NEW c \in R \ gone, c.parent # NoParent
               PROVE  \E p \in RowsOf(R \ gone, c.acct) :
                         /\ p.id = c.parent
                         /\ p.version < c.version
                         /\ ~ \E q \in RowsOf(R \ gone, c.acct) :
                                 p.version < q.version /\ q.version < c.version
    BY DEF Adjacent, IsDelta
  <2>1. PICK p \in RowsOf(R, c.acct) :
           /\ p.id = c.parent
           /\ p.version < c.version
           /\ ~ \E q \in RowsOf(R, c.acct) :
                   p.version < q.version /\ q.version < c.version
    BY DEF Adjacent, IsDelta
  <2>2. p \notin gone
    BY <2>1 DEF Referenced
  <2> QED
    BY <2>1, <2>2 DEF RowsOf
<1> QED
  BY <1>1, <1>2

\* No row of another account references a row of this one, so the cascade of
\* DeleteAccount never leaves a delta without its parent.
LEMMA AccountSelfContained ==
    ASSUME NEW R \in SUBSET Row, NEW a \in Account, UniqueKeys(R), Adjacent(R)
    PROVE  \A r \in RowsOf(R, a) : ~Referenced(R \ RowsOf(R, a), r)
<1> SUFFICES ASSUME NEW r \in RowsOf(R, a), NEW c \in R \ RowsOf(R, a), c.parent = r.id
             PROVE  FALSE
  BY DEF Referenced
<1>1. c.parent # NoParent
  BY DEF RowsOf, Row, NoParent
<1>2. PICK p \in RowsOf(R, c.acct) : p.id = c.parent
  BY <1>1 DEF Adjacent, IsDelta
<1>3. p = r
  BY <1>2 DEF UniqueKeys, RowsOf
<1> QED
  BY <1>2, <1>3 DEF RowsOf

\* "a delta always builds on the version right before it, so the kept chain is
\* self contained exactly when beforeVersion itself is a full backup".
LEMMA FullBoundary ==
    ASSUME NEW R \in SUBSET Row, NEW b \in R, ~IsDelta(b),
           UniqueKeys(R), Adjacent(R)
    PROVE  \A r \in Below(R, b.acct, b.version) :
               ~Referenced(R \ Below(R, b.acct, b.version), r)
<1> DEFINE gone == Below(R, b.acct, b.version)
<1> SUFFICES ASSUME NEW r \in gone, NEW c \in R \ gone, c.parent = r.id
             PROVE  FALSE
  BY DEF Referenced
<1>0. r \in R /\ r.acct = b.acct /\ r.version < b.version
  BY DEF Below, RowsOf
<1>1. c.parent # NoParent
  BY <1>0 DEF Row, NoParent
<1>2. PICK p \in RowsOf(R, c.acct) :
         /\ p.id = c.parent
         /\ p.version < c.version
         /\ ~ \E q \in RowsOf(R, c.acct) :
                 p.version < q.version /\ q.version < c.version
  BY <1>1 DEF Adjacent, IsDelta
<1>3. p = r
  BY <1>0, <1>2 DEF UniqueKeys, RowsOf
<1>4. c.acct = b.acct
  BY <1>0, <1>2, <1>3 DEF RowsOf
<1>5. ~(c.version < b.version)
  BY <1>4 DEF Below, RowsOf
<1>6. c # b
  BY <1>1 DEF IsDelta
<1>7. c.version # b.version
  BY <1>4, <1>6 DEF UniqueKeys
<1>8. b.version < c.version
  BY <1>5, <1>7 DEF Row
<1> QED
  BY <1>0, <1>2, <1>3, <1>4, <1>8 DEF RowsOf

-----------------------------------------------------------------------------
(* Chains.                                                                 *)

\* A nonempty set of natural numbers has a least element.
LEMMA LeastNat ==
    ASSUME NEW T \in SUBSET Nat, T # {}
    PROVE  \E n \in T : \A m \in T : n <= m
<1> DEFINE F == {0..n : n \in T}
<1>1. \A n \in T : 0..n \in FiniteSubsetsOf(Nat)
  <2> TAKE n \in T
  <2>1. IsFiniteSet(0..n)
    BY FS_Interval
  <2>2. 0..n \in SUBSET Nat
    OBVIOUS
  <2> QED
    BY <2>1, <2>2 DEF FiniteSubsetsOf
<1>2. F \subseteq FiniteSubsetsOf(Nat) /\ F # {}
  BY <1>1
<1>3. \E x \in F : \A y \in F : <<y, x>> \notin StrictSubsetOrdering(Nat)
  <2> HIDE DEF F
  <2> QED
    BY <1>2, FS_StrictSubsetOrderingWellFounded, WFMin
<1>4. PICK n \in T : \A m \in T : <<0..m, 0..n>> \notin StrictSubsetOrdering(Nat)
  BY <1>3
<1>5. ASSUME NEW m \in T, m < n
      PROVE  FALSE
  <2>1. 0..m \in SUBSET Nat /\ 0..n \in SUBSET Nat
    OBVIOUS
  <2>2. n \in 0..n /\ n \notin 0..m
    BY <1>5
  <2>3. 0..m \subseteq 0..n /\ 0..m # 0..n
    BY <1>5, <2>2
  <2> QED
    BY <1>4, <2>1, <2>3 DEF StrictSubsetOrdering
<1> QED
  BY <1>4, <1>5

\* Versions go down along parents, so following them ends at a full backup.
LEMMA FullBelow ==
    ASSUME NEW R \in SUBSET Row, Adjacent(R), NEW r \in R
    PROVE  \E f \in RowsOf(R, r.acct) : ~IsDelta(f) /\ f.version <= r.version
<1> DEFINE T == {c.version : c \in {d \in RowsOf(R, r.acct) : d.version <= r.version}}
<1>1. T \in SUBSET Nat /\ r.version \in T
  BY DEF RowsOf, Row
<1>2. PICK n \in T : \A m \in T : n <= m
  <2> HIDE DEF T
  <2> QED
    BY <1>1, LeastNat
<1>3. PICK f \in RowsOf(R, r.acct) : f.version = n /\ f.version <= r.version
  BY <1>2
<1>4. ASSUME IsDelta(f)
      PROVE  FALSE
  <2>1. PICK p \in RowsOf(R, f.acct) : p.version < f.version
    BY <1>3, <1>4 DEF Adjacent, RowsOf
  <2>2. p \in RowsOf(R, r.acct) /\ p.version <= r.version
    BY <1>3, <2>1 DEF RowsOf, Row
  <2>3. n <= p.version
    BY <1>2, <2>2
  <2> QED
    BY <1>3, <2>1, <2>2, <2>3 DEF RowsOf, Row
<1> QED
  BY <1>3, <1>4

\* "the kept chain is self contained": where keys are unique and deltas adjacent, every
\* row can be restored, from the last full backup at or below it.
LEMMA HealthyRestores ==
    ASSUME NEW R \in SUBSET Row, UniqueKeys(R), Adjacent(R), NEW r \in R
    PROVE  Restorable(R, r)
<1> DEFINE Fulls == {f \in RowsOf(R, r.acct) : ~IsDelta(f) /\ f.version <= r.version}
           T == {r.version - f.version : f \in Fulls}
<1>1. T \in SUBSET Nat /\ T # {}
  <2>1. \A f \in Fulls : r.version - f.version \in Nat
    BY DEF RowsOf, Row
  <2>2. Fulls # {}
    BY FullBelow
  <2> HIDE DEF Fulls
  <2> QED
    BY <2>1, <2>2
<1>2. PICK n \in T : \A m \in T : n <= m
  <2> HIDE DEF T
  <2> QED
    BY <1>1, LeastNat
<1>3. PICK f \in Fulls : n = r.version - f.version
  BY <1>2
<1>t. /\ f \in R /\ f.acct = r.acct /\ f.version \in Nat /\ r.version \in Nat
      /\ ~IsDelta(f) /\ f.version <= r.version
  BY <1>3 DEF RowsOf, Row
<1>4. ASSUME NEW c \in Chain(R, f, r) \ {f}
      PROVE  IsDelta(c) /\ \E p \in Chain(R, f, r) : p.id = c.parent /\ p.version < c.version
  <2>1. /\ c \in RowsOf(R, r.acct) /\ c \in R /\ c.acct = r.acct /\ c.version \in Nat
        /\ f.version <= c.version /\ c.version <= r.version
    BY <1>4 DEF Chain, RowsOf, Row
  <2>2. f.version < c.version
    BY <1>4, <1>t, <2>1 DEF UniqueKeys
  <2>3. ASSUME ~IsDelta(c)
        PROVE  FALSE
    <3>1. c \in Fulls
      BY <2>1, <2>3
    <3>2. r.version - f.version <= r.version - c.version
      BY <1>2, <1>3, <3>1
    <3> QED
      BY <1>t, <2>1, <2>2, <3>2
  <2>4. PICK p \in RowsOf(R, c.acct) :
           /\ p.id = c.parent
           /\ p.version < c.version
           /\ ~ \E q \in RowsOf(R, c.acct) : p.version < q.version /\ q.version < c.version
    BY <2>1, <2>3 DEF Adjacent
  <2>5. p \in RowsOf(R, r.acct) /\ f \in RowsOf(R, c.acct) /\ p.version \in Nat
    BY <1>t, <2>1, <2>4 DEF RowsOf, Row
  <2>6. f.version <= p.version /\ p.version <= r.version
    BY <1>t, <2>1, <2>2, <2>4, <2>5
  <2> QED
    BY <2>3, <2>4, <2>5, <2>6 DEF Chain
<1> QED
  BY <1>3, <1>4 DEF Restorable

-----------------------------------------------------------------------------
(* Bytes.                                                                  *)

\* The largest size is one.
LEMMA LargestSize == Largest \in Sizes /\ Largest \in Nat /\ \A s \in Sizes : s <= Largest
BY RowsAssumption DEF Largest

\* Finitely many rows have finitely many bytes, at most the largest size each.
LEMMA BytesFinite ==
    ASSUME NEW R \in SUBSET Row, IsFiniteSet(R)
    PROVE  /\ IsFiniteSet(Bytes(R))
           /\ TotalSize(R) \in Nat /\ Cardinality(R) \in Nat
           /\ TotalSize(R) <= Cardinality(R) * Largest
<1>1. IsFiniteSet(1..Largest) /\ Cardinality(1..Largest) = Largest
  BY LargestSize, FS_Interval
<1>2. IsFiniteSet(R \X (1..Largest)) /\ Cardinality(R \X (1..Largest)) = Cardinality(R) * Largest
  BY <1>1, FS_Product
<1>3. Bytes(R) \in SUBSET (R \X (1..Largest))
  <2> SUFFICES ASSUME NEW r \in R, NEW b \in 1..r.size
               PROVE  b \in 1..Largest
    BY DEF Bytes
  <2>1. r.size \in Nat /\ r.size <= Largest
    BY LargestSize, RowsAssumption DEF Row
  <2> QED
    BY <2>1, LargestSize
<1>4. IsFiniteSet(Bytes(R)) /\ Cardinality(Bytes(R)) <= Cardinality(R \X (1..Largest))
  BY <1>2, <1>3, FS_Subset
<1>5. Cardinality(Bytes(R)) \in Nat /\ Cardinality(R) \in Nat
  BY <1>4, FS_CardinalityType
<1> QED
  BY <1>2, <1>4, <1>5 DEF TotalSize

\* One row has the bytes it says.
LEMMA BytesOfOne ==
    ASSUME NEW r \in Row
    PROVE  TotalSize({r}) = r.size
<1>1. r.size \in Nat
  BY RowsAssumption DEF Row
<1>2. IsFiniteSet(1..r.size) /\ Cardinality(1..r.size) = r.size
  <2>1. /\ IsFiniteSet(1..r.size)
        /\ Cardinality(1..r.size) = IF 1 > r.size THEN 0 ELSE r.size - 1 + 1
    BY ONLY <1>1, FS_Interval
  <2> QED BY ONLY <1>1, <2>1
<1>3. IsFiniteSet({r}) /\ Cardinality({r}) = 1
  BY FS_Singleton
<1>4. Cardinality({r} \X (1..r.size)) = 1 * r.size
  <2>1. Cardinality({r} \X (1..r.size)) = Cardinality({r}) * Cardinality(1..r.size)
    BY ONLY <1>2, <1>3, FS_Product
  <2> QED BY <1>2, <1>3, <2>1
<1>5. Bytes({r}) = {r} \X (1..r.size)
  BY DEF Bytes
<1>6. TotalSize({r}) = 1 * r.size
  BY <1>4, <1>5 DEF TotalSize
<1> QED
  BY <1>1, <1>6

\* Rows together take no more than each part, ...
LEMMA BytesOfBoth ==
    ASSUME NEW R \in SUBSET Row, NEW S \in SUBSET Row, IsFiniteSet(R), IsFiniteSet(S)
    PROVE  TotalSize(R \cup S) <= TotalSize(R) + TotalSize(S)
<1>1. Bytes(R \cup S) = Bytes(R) \cup Bytes(S)
  BY DEF Bytes
<1>2. IsFiniteSet(Bytes(R)) /\ IsFiniteSet(Bytes(S))
  BY BytesFinite
<1>3. Cardinality(Bytes(R) \cup Bytes(S)) =
        Cardinality(Bytes(R)) + Cardinality(Bytes(S)) - Cardinality(Bytes(R) \cap Bytes(S))
  BY <1>2, FS_Union
<1>4. IsFiniteSet(Bytes(R) \cap Bytes(S))
  BY <1>2, FS_Intersection
<1>5. /\ Cardinality(Bytes(R) \cap Bytes(S)) \in Nat
      /\ Cardinality(Bytes(R)) \in Nat /\ Cardinality(Bytes(S)) \in Nat
  BY <1>2, <1>4, FS_CardinalityType
<1>6. TotalSize(R \cup S) = TotalSize(R) + TotalSize(S) - Cardinality(Bytes(R) \cap Bytes(S))
  BY <1>1, <1>3 DEF TotalSize
<1>7. TotalSize(R) \in Nat /\ TotalSize(S) \in Nat
  BY BytesFinite
<1> QED
  BY <1>5, <1>6, <1>7

\* ... and fewer rows no more than all of them.
LEMMA BytesOfFewer ==
    ASSUME NEW R \in SUBSET Row, NEW S \in SUBSET R, IsFiniteSet(R)
    PROVE  TotalSize(S) <= TotalSize(R)
<1>1. Bytes(S) \in SUBSET Bytes(R)
  BY DEF Bytes
<1>2. IsFiniteSet(Bytes(R))
  BY BytesFinite
<1> QED
  BY <1>1, <1>2, FS_Subset DEF TotalSize
=============================================================================
