------------------------ MODULE StorageBillingProofs ------------------------
(***************************************************************************)
(* Proofs about StorageBilling: what was stored is billed, at most once    *)
(* but for what the pass's old time takes back, and nobody stores on       *)
(* credit he never had.                                                    *)
(***************************************************************************)
EXTENDS StorageBilling, TLAPS

-----------------------------------------------------------------------------
(* Arithmetic.                                                             *)

\* CeilDiv rounds up, by less than one.
LEMMA CeilDivBounds ==
    ASSUME NEW n \in Nat, NEW d \in Nat \ {0}
    PROVE  /\ CeilDiv(n, d) \in Nat
           /\ d * CeilDiv(n, d) >= n /\ d * CeilDiv(n, d) <= n + d - 1
           /\ n = 0 => CeilDiv(n, d) = 0
           /\ n > 0 => CeilDiv(n, d) > 0
<1>1. CeilDiv(n, d) \in Nat /\ d * CeilDiv(n, d) >= n
  BY DEF CeilDiv
<1>2. d * CeilDiv(n, d) <= n + d - 1
  BY DEF CeilDiv
<1>3. n = 0 => CeilDiv(n, d) = 0
  BY DEF CeilDiv
<1>4. n > 0 => CeilDiv(n, d) > 0
  BY DEF CeilDiv
<1> QED BY <1>1, <1>2, <1>3, <1>4

\* Bytes above the free ones.
LEMMA AboveBounds ==
    /\ \A x \in Nat : Above(x) \in Nat
    /\ \A x, y \in Nat : x <= y => Above(x) <= Above(y)
BY BillingAssumption DEF Above

\* What a settlement costs: the byte units times the time, rounded up; nothing for a
\* time that runs backwards.
LEMMA CostBounds ==
    ASSUME NEW x \in Nat, NEW d \in Int
    PROVE  /\ StorageCost(x, d) \in Nat
           /\ d <= 0 => StorageCost(x, d) = 0
           /\ d > 0 => /\ Den * StorageCost(x, d) >= Above(x) * d
                       /\ Den * StorageCost(x, d) <= Above(x) * d + Den - 1
                       /\ Above(x) = 0 => StorageCost(x, d) = 0
                       /\ Above(x) > 0 => StorageCost(x, d) > 0
<1>0. Above(x) \in Nat /\ Den \in Nat \ {0}
  BY AboveBounds, BillingAssumption
<1>1. CASE d <= 0
  BY <1>1 DEF StorageCost
<1>2. CASE d > 0
  <2>1. Above(x) * d \in Nat
    BY <1>0, <1>2
  <2>2. Above(x) = 0 => Above(x) * d = 0
    BY <1>0
  <2>3. Above(x) > 0 => Above(x) * d > 0
    BY <1>0, <1>2
  <2>4. StorageCost(x, d) = CeilDiv(Above(x) * d, Den)
    BY <1>2 DEF StorageCost
  <2> DEFINE N == Above(x) * d
  <2>5. N \in Nat /\ (Above(x) = 0 => N = 0) /\ (Above(x) > 0 => N > 0) /\ StorageCost(x, d) = CeilDiv(N, Den)
    BY <2>1, <2>2, <2>3, <2>4
  <2> HIDE DEF N
  <2>6. /\ CeilDiv(N, Den) \in Nat
        /\ Den * CeilDiv(N, Den) >= N /\ Den * CeilDiv(N, Den) <= N + Den - 1
        /\ N = 0 => CeilDiv(N, Den) = 0
        /\ N > 0 => CeilDiv(N, Den) > 0
    BY <1>0, <2>5, CeilDivBounds
  <2>7. /\ StorageCost(x, d) \in Nat
        /\ Den * StorageCost(x, d) >= N /\ Den * StorageCost(x, d) <= N + Den - 1
        /\ Above(x) = 0 => StorageCost(x, d) = 0
        /\ Above(x) > 0 => StorageCost(x, d) > 0
    BY <2>5, <2>6
  <2> QED BY <1>2, <2>7 DEF N
<1> QED BY <1>1, <1>2

\* Two times in a row.
LEMMA Distributes ==
    ASSUME NEW x \in Int, NEW y \in Int, NEW z \in Int
    PROVE  x * (y + z) = x * y + x * z
OBVIOUS

\* No fewer units for no shorter a time.
LEMMA Grows ==
    ASSUME NEW x \in Nat, NEW y \in Nat, NEW v \in Nat, NEW w \in Nat, x <= v, y <= w
    PROVE  x * y <= v * w
<1>1. x * y <= v * y
  OBVIOUS
<1>2. v * y <= v * w
  OBVIOUS
<1>3. x * y \in Nat /\ v * y \in Nat /\ v * w \in Nat
  OBVIOUS
<1> QED BY <1>1, <1>2, <1>3

-----------------------------------------------------------------------------
(* A settlement.                                                           *)

\* The account's books are well typed.
Books(a) ==
    /\ used[a] \in Nat /\ used[a] <= MaxBytes
    /\ mark[a] \in {Unmarked} \cup 0..clock
    /\ balance[a] \in Int /\ charged[a] \in Nat /\ bills[a] \in Nat
    /\ stored[a] \in Nat /\ granted[a] \in Nat
    /\ clock \in Nat /\ passNow \in Nat /\ passNow <= clock

\* Every account's books are.
LEMMA TypedBooks == ASSUME TypeOK, NEW a \in Account PROVE Books(a)
BY BillingAssumption DEF TypeOK, Books

\* What a bill is: nothing, or a positive charge for a time that has passed.
LEMMA DueBounds ==
    ASSUME NEW a \in Account, Books(a), NEW now \in 0..clock
    PROVE  /\ Due(a, now) \in Nat
           /\ mark[a] = Unmarked \/ now <= mark[a] => Due(a, now) = 0
           /\ mark[a] # Unmarked /\ now > mark[a] =>
                /\ Den * Due(a, now) >= Above(used[a]) * (now - mark[a])
                /\ Den * Due(a, now) <= Above(used[a]) * (now - mark[a]) + Den - 1
                /\ Above(used[a]) = 0 => Due(a, now) = 0
                /\ Above(used[a]) > 0 => Due(a, now) > 0
<1>1. CASE mark[a] = Unmarked
  BY <1>1 DEF Due
<1>2. CASE mark[a] # Unmarked
  <2>1. mark[a] \in 0..clock /\ now - mark[a] \in Int /\ used[a] \in Nat
    BY <1>2 DEF Books
  <2>2. Due(a, now) = StorageCost(used[a], now - mark[a])
    BY <1>2 DEF Due
  <2> DEFINE d == now - mark[a]
  <2>3. d \in Int /\ (now <= mark[a] => d <= 0) /\ (now > mark[a] => d > 0)
    BY <2>1
  <2>4. Due(a, now) = StorageCost(used[a], d)
    BY <2>2
  <2> HIDE DEF d
  <2>5. /\ StorageCost(used[a], d) \in Nat
        /\ d <= 0 => StorageCost(used[a], d) = 0
        /\ d > 0 => /\ Den * StorageCost(used[a], d) >= Above(used[a]) * d
                    /\ Den * StorageCost(used[a], d) <= Above(used[a]) * d + Den - 1
                    /\ Above(used[a]) = 0 => StorageCost(used[a], d) = 0
                    /\ Above(used[a]) > 0 => StorageCost(used[a], d) > 0
    BY <2>1, <2>3, CostBounds
  <2>6. /\ Due(a, now) \in Nat
        /\ now <= mark[a] => Due(a, now) = 0
        /\ now > mark[a] => /\ Den * Due(a, now) >= Above(used[a]) * d
                            /\ Den * Due(a, now) <= Above(used[a]) * d + Den - 1
                            /\ Above(used[a]) = 0 => Due(a, now) = 0
                            /\ Above(used[a]) > 0 => Due(a, now) > 0
    BY <2>3, <2>4, <2>5
  <2> QED BY <1>2, <2>6 DEF d
<1> QED BY <1>1, <1>2

\* The settled account's books afterwards.
LEMMA Settled ==
    ASSUME TypeOK, NEW a \in Account, NEW now \in 0..clock, Settle(a, now)
    PROVE  /\ charged' \in [Account -> Nat] /\ bills' \in [Account -> Nat]
           /\ balance' \in [Account -> Int] /\ mark' \in [Account -> {Unmarked} \cup 0..clock]
           /\ charged'[a] = charged[a] + Due(a, now) /\ balance'[a] = balance[a] - Due(a, now)
           /\ bills'[a] = (IF Due(a, now) > 0 THEN bills[a] + 1 ELSE bills[a])
           /\ mark'[a] = now
           /\ \A b \in Account \ {a} :
                /\ charged'[b] = charged[b] /\ balance'[b] = balance[b]
                /\ bills'[b] = bills[b] /\ mark'[b] = mark[b]
<1>1. Due(a, now) \in Nat
  BY TypedBooks, DueBounds
<1> QED BY <1>1 DEF TypeOK, Settle

\* How far a settlement moves what was stored before the mark: by the units that were
\* stored between the old mark and the new one.
LEMMA MarkMoves ==
    ASSUME NEW a \in Account, Books(a), NEW now \in 0..clock,
           mark'[a] = now, clock' = clock, stored'[a] = stored[a], used'[a] \in Nat,
           used'[a] = used[a] \/ now = clock
    PROVE  /\ BeforeMark(a)' = stored[a] - Above(used[a]) * (clock - now)
           /\ mark[a] # Unmarked =>
                BeforeMark(a)' = BeforeMark(a) + Above(used[a]) * (now - mark[a])
<1>0. Above(used[a]) \in Int /\ Above(used'[a]) \in Int
  BY AboveBounds DEF Books
<1>1. mark'[a] # Unmarked
  BY DEF Unmarked, Books
<1>2. BeforeMark(a)' = stored[a] - Above(used'[a]) * (clock - now)
  BY <1>1 DEF BeforeMark, Above
<1>3. BeforeMark(a)' = stored[a] - Above(used[a]) * (clock - now)
  <2>1. CASE now = clock
    <3>1. clock - now = 0
      BY <2>1 DEF Books
    <3> QED BY <1>0, <1>2, <3>1
  <2> QED BY <1>2, <2>1
<1>4. ASSUME mark[a] # Unmarked
      PROVE  BeforeMark(a)' = BeforeMark(a) + Above(used[a]) * (now - mark[a])
  <2>0. mark[a] \in Int /\ now \in Int /\ clock \in Int /\ stored[a] \in Int
    BY <1>4 DEF Books
  <2>1. BeforeMark(a) = stored[a] - Above(used[a]) * (clock - mark[a])
    BY <1>4 DEF BeforeMark
  <2>2. Above(used[a]) * (clock - mark[a])
          = Above(used[a]) * (clock - now) + Above(used[a]) * (now - mark[a])
    BY <1>0, <2>0, Distributes
  <2> DEFINE X == Above(used[a]) * (clock - now)
             Y == Above(used[a]) * (now - mark[a])
  <2>3. X \in Int /\ Y \in Int
    BY <1>0, <2>0
  <2>4. BeforeMark(a) = stored[a] - (X + Y) /\ BeforeMark(a)' = stored[a] - X
    BY <1>3, <2>1, <2>2
  <2> HIDE DEF X, Y
  <2> QED
    <3>1. BeforeMark(a)' = BeforeMark(a) + Y
      BY <2>0, <2>3, <2>4
    <3> QED BY <3>1 DEF Y
<1> QED BY <1>3, <1>4

\* The bound on what may be billed twice is an amount.
LEMMA LagType == Lag \in Nat /\ Above(MaxBytes) \in Nat /\ PassLag \in Nat /\ Den - 1 \in Nat
<1>1. Above(MaxBytes) \in Nat /\ PassLag \in Nat /\ Den - 1 \in Nat
  BY AboveBounds, BillingAssumption
<1> QED BY <1>1 DEF Lag

\* A settlement in terms of the three amounts of Excess: what was charged, what was
\* stored before the mark, and the allowance per bill.
LEMMA SettledAmounts ==
    ASSUME TypeOK, NEW a \in Account, NEW now \in 0..clock, Settle(a, now), mark[a] # Unmarked,
           UNCHANGED <<clock, stored>>, used'[a] \in Nat, used'[a] = used[a] \/ now = clock
    PROVE  \E C, B, A, M, Y \in Int :
             /\ C = Den * charged[a] /\ C + M = Den * charged'[a]
             /\ B = BeforeMark(a) /\ B + Y = BeforeMark(a)'
             /\ A = (Den - 1 + Lag) * bills[a]
             /\ Y = Above(used[a]) * (now - mark[a])
             /\ now <= mark[a] => M = 0 /\ (Den - 1 + Lag) * bills'[a] = A
             /\ now > mark[a] =>
                  /\ M >= Y /\ M <= Y + Den - 1
                  /\ \/ M = 0 /\ Y = 0 /\ Above(used[a]) = 0 /\ (Den - 1 + Lag) * bills'[a] = A
                     \/ (Den - 1 + Lag) * bills'[a] = A + (Den - 1 + Lag)
<1> USE BillingAssumption
<1>1. Books(a)
  BY TypedBooks
<1>2. Den \in Nat \ {0} /\ Den - 1 + Lag \in Nat /\ Above(used[a]) \in Nat
  BY <1>1, LagType, AboveBounds DEF Books
<1> DEFINE C == Den * charged[a]
           B == BeforeMark(a)
           K == Den - 1 + Lag
           A == K * bills[a]
           D == Due(a, now)
           M == Den * D
           Y == Above(used[a]) * (now - mark[a])
<1>3. mark[a] \in 0..clock /\ now - mark[a] \in Int /\ clock \in Nat /\ now \in Nat
  BY <1>1 DEF Books
<1>4. D \in Nat
  BY <1>1, DueBounds
<1>5. C \in Int /\ A \in Int /\ M \in Int /\ Y \in Int
  BY <1>1, <1>2, <1>3, <1>4 DEF Books
<1>6. B \in Int
  BY <1>1, <1>2, <1>3 DEF BeforeMark, Books
<1>7. C + M = Den * charged'[a]
  BY <1>1, <1>2, <1>4, Settled, Distributes DEF Books
<1>8. B + Y = BeforeMark(a)'
  BY <1>1, Settled, MarkMoves
<1>9. K * (bills[a] + 1) = A + K
  BY <1>1, <1>2 DEF Books
<1>10. /\ D > 0 => K * bills'[a] = A + K
       /\ D = 0 => K * bills'[a] = A
  <2>1. bills'[a] = (IF D > 0 THEN bills[a] + 1 ELSE bills[a])
    BY Settled
  <2> QED BY <1>4, <1>9, <2>1
<1>11. now <= mark[a] => D = 0
  BY <1>1, DueBounds
<1>12. now > mark[a] => /\ M >= Y /\ M <= Y + Den - 1
                        /\ Above(used[a]) = 0 => D = 0
                        /\ Above(used[a]) > 0 => D > 0
  BY <1>1, DueBounds
<1>13. (D = 0 => M = 0) /\ (Above(used[a]) = 0 => Y = 0)
  BY <1>2, <1>3, <1>4
<1> HIDE DEF C, B, A, D, M, Y, K
<1>14. /\ now <= mark[a] => M = 0 /\ K * bills'[a] = A
       /\ now > mark[a] =>
            /\ M >= Y /\ M <= Y + Den - 1
            /\ \/ M = 0 /\ Y = 0 /\ Above(used[a]) = 0 /\ K * bills'[a] = A
               \/ K * bills'[a] = A + K
  BY <1>2, <1>4, <1>10, <1>11, <1>12, <1>13
<1>15. C = Den * charged[a] /\ B = BeforeMark(a) /\ K = Den - 1 + Lag
       /\ A = (Den - 1 + Lag) * bills[a] /\ Y = Above(used[a]) * (now - mark[a])
  BY DEF C, B, K, A, Y
<1>16. /\ now <= mark[a] => M = 0 /\ (Den - 1 + Lag) * bills'[a] = A
       /\ now > mark[a] =>
            /\ M >= Y /\ M <= Y + Den - 1
            /\ \/ M = 0 /\ Y = 0 /\ Above(used[a]) = 0 /\ (Den - 1 + Lag) * bills'[a] = A
               \/ (Den - 1 + Lag) * bills'[a] = A + (Den - 1 + Lag)
  BY <1>14 DEF K
<1>17. C \in Int /\ B \in Int /\ A \in Int /\ M \in Int /\ Y \in Int
  BY <1>5, <1>6
<1> USE <1>17
<1> WITNESS C \in Int, B \in Int, A \in Int, M \in Int, Y \in Int
<1> QED BY <1>7, <1>8, <1>15, <1>16

\* How far a mark can be taken back, in what it bills again.
LEMMA StepBack ==
    ASSUME TypeOK, NEW a \in Account, NEW d \in Nat, d <= PassLag
    PROVE  /\ Above(used[a]) * d \in Nat /\ Above(used[a]) * d <= Lag
           /\ d = 0 \/ Above(used[a]) = 0 => Above(used[a]) * d = 0
<1>1. Above(used[a]) \in Nat /\ Above(used[a]) <= Above(MaxBytes)
  <2>1. used[a] \in Nat /\ MaxBytes \in Nat /\ used[a] <= MaxBytes
    BY BillingAssumption DEF TypeOK
  <2> QED BY <2>1, AboveBounds
<1>2. d * Above(used[a]) <= Lag
  BY <1>1, LagType, Grows DEF Lag
<1> QED BY <1>1, <1>2

\* A settlement keeps the account's excess in bounds, and leaves nothing unpaid before
\* the new mark.
LEMMA SettleBills ==
    ASSUME TypeOK, Unbilled, ExcessBounded, NobodyDodges,
           NEW a \in Account, NEW now \in 0..clock, Settle(a, now),
           UNCHANGED <<clock, passNow, stored>>, used'[a] \in Nat,
           \/ now = clock
           \/ now = passNow /\ clock <= passNow + PassLag /\ used'[a] = used[a]
    PROVE  /\ Excess(a)' <= 0 \/ (Excess(a)' <= Lag /\ TakenBack(a)')
           /\ Den * charged'[a] >= BeforeMark(a)'
<1> USE BillingAssumption
<1>1. Books(a)
  BY TypedBooks
<1>2. Den \in Nat \ {0} /\ Lag \in Nat /\ Above(used[a]) \in Nat
  BY <1>1, LagType, AboveBounds DEF Books
<1>3. mark'[a] = now /\ clock \in Nat /\ now \in Nat /\ passNow \in Nat
  BY <1>1, Settled DEF Books
<1>4. now = passNow /\ clock <= passNow + PassLag /\ used'[a] = used[a] /\ now < clock
        => clock - now \in Nat /\ clock - now <= PassLag
  BY <1>3
<1>e. Excess(a)' = Den * charged'[a] - BeforeMark(a)' - (Den - 1 + Lag) * bills'[a]
  BY DEF Excess, Lag, Above
<1>5. CASE mark[a] = Unmarked
  <2>1. stored[a] = 0 /\ charged[a] = 0 /\ bills[a] = 0 /\ Due(a, now) = 0
    BY <1>1, <1>5, DueBounds DEF Unbilled
  <2>2. charged'[a] = 0 /\ bills'[a] = 0
    BY <2>1, Settled
  <2>3. BeforeMark(a)' = 0 - Above(used[a]) * (clock - now)
    BY <1>1, <1>3, <2>1, MarkMoves
  <2> DEFINE Y == Above(used[a]) * (clock - now)
  <2>4. Den * charged'[a] = 0 /\ (Den - 1 + Lag) * bills'[a] = 0
    BY <1>2, <2>2
  <2>5. CASE now = clock
    <3>1. Y = 0
      BY <1>2, <1>3, <2>5
    <3> QED BY <1>e, <2>3, <2>4, <3>1
  <2>6. CASE now # clock
    <3>1. Y \in Nat /\ Y <= Lag /\ (Above(used[a]) = 0 => Y = 0)
      BY <1>3, <1>4, <2>6, StepBack
    <3>2. now = passNow /\ used'[a] = used[a] /\ now < clock
      BY <1>3, <2>6
    <3>3. Above(used[a]) > 0 => TakenBack(a)'
      BY <1>2, <1>3, <3>2 DEF TakenBack, Above
    <3> HIDE DEF Y
    <3>4. BeforeMark(a)' = 0 - Y
      BY <2>3 DEF Y
    <3>5. Excess(a)' = Y
      BY <1>e, <2>4, <3>1, <3>4
    <3> QED BY <1>2, <2>4, <3>1, <3>3, <3>4, <3>5
  <2> QED BY <2>5, <2>6
<1>6. CASE mark[a] # Unmarked
  <2>1. PICK C, B, A, M, Y \in Int :
          /\ C = Den * charged[a] /\ C + M = Den * charged'[a]
          /\ B = BeforeMark(a) /\ B + Y = BeforeMark(a)'
          /\ A = (Den - 1 + Lag) * bills[a]
          /\ Y = Above(used[a]) * (now - mark[a])
          /\ now <= mark[a] => M = 0 /\ (Den - 1 + Lag) * bills'[a] = A
          /\ now > mark[a] =>
               /\ M >= Y /\ M <= Y + Den - 1
               /\ \/ M = 0 /\ Y = 0 /\ Above(used[a]) = 0 /\ (Den - 1 + Lag) * bills'[a] = A
                  \/ (Den - 1 + Lag) * bills'[a] = A + (Den - 1 + Lag)
    BY <1>6, SettledAmounts
  <2> DEFINE A1 == (Den - 1 + Lag) * bills'[a]
  <2>2. C >= B /\ (C - B - A <= 0 \/ (C - B - A <= Lag /\ TakenBack(a)))
    BY <2>1 DEF ExcessBounded, Excess, NobodyDodges
  <2>3. /\ Excess(a)' = (C + M) - (B + Y) - A1
        /\ Den * charged'[a] = C + M /\ BeforeMark(a)' = B + Y
    BY <1>e, <2>1
  <2>4. mark[a] \in Nat
    BY <1>1, <1>6 DEF Books
  <2>5. CASE now > mark[a]
    <3>1. M >= Y /\ M <= Y + Den - 1 /\ \/ M = 0 /\ Y = 0 /\ Above(used[a]) = 0 /\ A1 = A
                                        \/ A1 = A + (Den - 1 + Lag)
      BY <2>1, <2>5
    <3>2. Above(used[a]) = 0 => C - B - A <= 0
      BY <2>2 DEF TakenBack
    <3> HIDE DEF A1
    <3> QED BY <1>2, <2>2, <2>3, <3>1, <3>2
  <2>6. CASE now = mark[a]
    <3>0. M = 0 /\ A1 = A
      BY <1>3, <2>1, <2>4, <2>6
    <3>y. Y = 0
      <4>1. now - mark[a] = 0
        BY <1>3, <2>4, <2>6
      <4>2. Y = Above(used[a]) * (now - mark[a])
        BY <2>1
      <4> QED BY <1>2, <4>1, <4>2
    <3>1. Y = 0 /\ M = 0 /\ A1 = A
      BY <3>0, <3>y
    <3>2. TakenBack(a) => TakenBack(a)'
      BY <1>3, <2>4, <2>6 DEF TakenBack, Above
    <3> HIDE DEF A1
    <3> QED BY <1>2, <2>2, <2>3, <3>1, <3>2
  <2>7. CASE now < mark[a]
    <3>1. now < clock /\ now = passNow /\ used'[a] = used[a] /\ mark[a] <= clock
      BY <1>1, <1>3, <1>6, <2>4, <2>7 DEF Books
    <3>2. mark[a] - now \in Nat /\ mark[a] - now <= PassLag
      BY <1>3, <2>4, <2>7, <3>1
    <3> DEFINE Z == Above(used[a]) * (mark[a] - now)
    <3>3. Z \in Nat /\ Z <= Lag /\ (Above(used[a]) = 0 => Z = 0)
      BY <3>2, StepBack
    <3>4. Y = 0 - Z
      BY <1>2, <1>3, <2>1, <2>4
    <3>5. M = 0 /\ A1 = A
      BY <1>3, <2>1, <2>4, <2>7
    <3>6. ~TakenBack(a)
      BY <1>3, <2>4, <2>7, <3>1 DEF TakenBack
    <3>7. Above(used[a]) > 0 => TakenBack(a)'
      BY <1>2, <1>3, <3>1 DEF TakenBack, Above
    <3> HIDE DEF A1, Z
    <3> QED BY <1>2, <2>2, <2>3, <3>3, <3>4, <3>5, <3>6, <3>7
  <2> QED BY <1>3, <2>4, <2>5, <2>6, <2>7
<1> QED BY <1>5, <1>6

-----------------------------------------------------------------------------
(* The inductive invariant.                                                *)

\* No account has been billed, and the bytes it starts with are free.
LEMMA InitInductive == Init => Inductive
<1> SUFFICES ASSUME Init PROVE Inductive
  OBVIOUS
<1>b. /\ FreeBytes \in Nat /\ MaxBytes \in Nat /\ MaxTime \in Nat /\ MaxGrant \in Nat
      /\ FreeBytes <= MaxBytes
  BY BillingAssumption
<1>s. \A s \in Sizes : s \in Nat
  BY BillingAssumption
<1>u. used \in [Account -> {n \in Nat : n <= FreeBytes}]
  <2>1. ASSUME NEW a \in Account PROVE used[a] \in Nat /\ used[a] <= FreeBytes
    <3>1. used[a] = 0 \/ (used[a] \in Sizes /\ used[a] <= FreeBytes)
      BY DEF Init
    <3> QED BY <1>b, <1>s, <3>1
  <2> QED BY <2>1 DEF Init
<1>0. \A a \in Account : /\ mark[a] = Unmarked /\ charged[a] = 0 /\ bills[a] = 0
                         /\ balance[a] = 0 /\ stored[a] = 0 /\ used[a] \in Nat
                         /\ used[a] <= FreeBytes
  BY <1>u DEF Init
<1>1. TypeOK
  BY <1>b, <1>u DEF Init, TypeOK
<1>2. Unbilled
  BY <1>0 DEF Unbilled
<1>3. PassShort
  BY DEF Init, PassShort
<1>4. Broke
  BY <1>0 DEF Broke
<1>5. ASSUME NEW a \in Account
      PROVE  Den * charged[a] = 0 /\ BeforeMark(a) = 0 /\ Excess(a) = 0
  <2>1. BeforeMark(a) = 0
    BY <1>0 DEF BeforeMark
  <2>2. Den * charged[a] = 0 /\ (Den - 1 + Lag) * bills[a] = 0
    <3>1. Den \in Nat /\ Den - 1 + Lag \in Nat
      BY LagType, BillingAssumption
    <3> QED BY <1>0, <3>1
  <2> QED BY <2>1, <2>2 DEF Excess
<1>6. ExcessBounded
  <2>1. ASSUME NEW a \in Account PROVE Excess(a) <= 0
    BY <1>5
  <2> QED BY <2>1 DEF ExcessBounded
<1>7. NobodyDodges
  <2>1. ASSUME NEW a \in Account PROVE Den * charged[a] >= BeforeMark(a)
    BY <1>5
  <2> QED BY <2>1 DEF NobodyDodges
<1>8. FreeTierHolds
  BY <1>0 DEF FreeTierHolds
<1> QED BY <1>1, <1>2, <1>3, <1>4, <1>6, <1>7, <1>8 DEF Inductive

\* Whatever settles one account leaves the others' books alone.
LEMMA SettleStep ==
    ASSUME Inductive, NEW a \in Account, NEW now \in 0..clock, NEW v \in 0..MaxBytes,
           Settle(a, now), used' = [used EXCEPT ![a] = v],
           UNCHANGED <<clock, passNow, stored, granted>>,
           \/ now = clock
           \/ now = passNow /\ clock <= passNow + PassLag /\ v = used[a]
    PROVE  /\ Unbilled' /\ Broke' /\ ExcessBounded' /\ NobodyDodges'
           /\ charged' \in [Account -> Nat] /\ bills' \in [Account -> Nat]
           /\ balance' \in [Account -> Int] /\ mark' \in [Account -> {Unmarked} \cup 0..clock]
<1>t. TypeOK /\ Unbilled /\ ExcessBounded /\ NobodyDodges /\ Broke
  BY DEF Inductive
<1>b. MaxBytes \in Nat
  BY BillingAssumption
<1>1. /\ charged' \in [Account -> Nat] /\ bills' \in [Account -> Nat]
      /\ balance' \in [Account -> Int] /\ mark' \in [Account -> {Unmarked} \cup 0..clock]
      /\ balance'[a] = balance[a] - Due(a, now) /\ mark'[a] = now
      /\ \A b \in Account \ {a} :
           /\ charged'[b] = charged[b] /\ balance'[b] = balance[b]
           /\ bills'[b] = bills[b] /\ mark'[b] = mark[b]
  BY <1>t, Settled
<1>2. used'[a] = v /\ v \in Nat /\ \A b \in Account \ {a} : used'[b] = used[b]
  BY <1>t, <1>b DEF TypeOK
<1>3. Unbilled'
  <2>1. mark'[a] # Unmarked
    BY <1>1 DEF Unmarked
  <2> QED BY <1>t, <1>1, <2>1 DEF Unbilled
<1>4. Broke'
  <2>1. balance[a] \in Int /\ Due(a, now) \in Nat
    BY <1>t, TypedBooks, DueBounds DEF Books
  <2> QED BY <1>t, <1>1, <2>1 DEF Broke
<1>5. /\ Excess(a)' <= 0 \/ (Excess(a)' <= Lag /\ TakenBack(a)')
      /\ Den * charged'[a] >= BeforeMark(a)'
  BY <1>t, <1>2, SettleBills
<1>6. ASSUME NEW b \in Account \ {a}
      PROVE  /\ Excess(b)' = Excess(b) /\ BeforeMark(b)' = BeforeMark(b)
             /\ TakenBack(b)' <=> TakenBack(b)
  <2>1. BeforeMark(b)' = BeforeMark(b)
    BY <1>1, <1>2 DEF BeforeMark, Above
  <2>2. TakenBack(b)' <=> TakenBack(b)
    BY <1>1, <1>2 DEF TakenBack, Above
  <2>3. Excess(b)' = Excess(b)
    BY <1>1, <2>1 DEF Excess, Lag, Above
  <2> QED BY <2>1, <2>2, <2>3
<1>7. ExcessBounded'
  <2>1. ASSUME NEW b \in Account
        PROVE  Excess(b)' <= 0 \/ (Excess(b)' <= Lag /\ TakenBack(b)')
    <3>1. CASE b = a
      BY <1>5, <3>1
    <3>2. CASE b # a
      BY <1>t, <1>6, <3>2 DEF ExcessBounded
    <3> QED BY <3>1, <3>2
  <2>2. Lag' = Lag
    BY DEF Lag, Above
  <2> QED BY <2>1, <2>2 DEF ExcessBounded
<1>8. NobodyDodges'
  <2>1. ASSUME NEW b \in Account
        PROVE  Den * charged'[b] >= BeforeMark(b)'
    <3>1. CASE b = a
      BY <1>5, <3>1
    <3>2. CASE b # a
      BY <1>t, <1>1, <1>6, <3>2 DEF NobodyDodges
    <3> QED BY <3>1, <3>2
  <2> QED BY <2>1 DEF NobodyDodges
<1> QED BY <1>1, <1>3, <1>4, <1>7, <1>8

\* Time adds to what is stored exactly what the mark falls behind.
LEMMA TickStep ==
    ASSUME Inductive, Tick
    PROVE  TypeOK' /\ Unbilled' /\ PassShort' /\ Broke' /\ ExcessBounded' /\ NobodyDodges'
<1>t. TypeOK /\ Unbilled /\ PassShort /\ ExcessBounded /\ NobodyDodges /\ Broke
  BY DEF Inductive
<1>b. MaxTime \in Nat /\ PassLag \in Nat
  BY BillingAssumption
<1>0. /\ clock' = clock + 1 /\ clock < MaxTime
      /\ stored' = [a \in Account |-> IF mark[a] = Unmarked THEN 0 ELSE stored[a] + Above(used[a])]
      /\ UNCHANGED <<used, mark, balance, charged, bills, pass, passNow, due, granted>>
      /\ pass # "idle" => clock < passNow + PassLag
  BY DEF Tick, account, loop
<1>1. ASSUME NEW a \in Account
      PROVE  /\ stored'[a] \in Nat /\ BeforeMark(a)' = BeforeMark(a)
             /\ Excess(a)' = Excess(a) /\ (TakenBack(a) => TakenBack(a)')
  <2>1. Books(a)
    BY <1>t, TypedBooks
  <2>2. Above(used[a]) \in Nat
    BY <2>1, AboveBounds DEF Books
  <2>3. stored'[a] \in Nat
    BY <1>0, <2>1, <2>2 DEF Books
  <2>4. BeforeMark(a)' = BeforeMark(a)
    <3>1. CASE mark[a] = Unmarked
      BY <1>0, <3>1 DEF BeforeMark
    <3>2. CASE mark[a] # Unmarked
      <4>0. mark[a] \in Int /\ clock \in Int /\ stored[a] \in Int
        BY <2>1, <3>2 DEF Books
      <4> DEFINE X == Above(used[a])
                 D == clock - mark[a]
      <4>1. X * (D + 1) = X * D + X
        BY <2>2, <4>0
      <4>2. clock' - mark'[a] = D + 1 /\ Above(used[a])' = X
        BY <1>0, <4>0 DEF Above
      <4>3. BeforeMark(a)' = (stored[a] + X) - X * (D + 1)
        BY <1>0, <3>2, <4>2 DEF BeforeMark
      <4>4. BeforeMark(a) = stored[a] - X * D
        BY <3>2 DEF BeforeMark
      <4>5. X * D \in Int /\ X \in Int
        BY <2>2, <4>0
      <4> DEFINE Y == X * D
                 Z == X * (D + 1)
      <4> HIDE DEF X, D, Y, Z
      <4>6. Z = Y + X /\ BeforeMark(a)' = (stored[a] + X) - Z /\ BeforeMark(a) = stored[a] - Y
            /\ Y \in Int
        BY <4>1, <4>3, <4>4, <4>5 DEF Y, Z
      <4> QED BY <4>0, <4>5, <4>6
    <3> QED BY <3>1, <3>2
  <2>5. Excess(a)' = Excess(a)
    BY <1>0, <2>4 DEF Excess, Lag, Above
  <2>6. TakenBack(a) => TakenBack(a)'
    BY <1>0, <2>1 DEF TakenBack, Above, Books, Unmarked
  <2> QED BY <2>3, <2>4, <2>5, <2>6
<1>2. TypeOK'
  <2>1. stored' \in [Account -> Nat]
    BY <1>0, <1>1
  <2> QED BY <1>t, <1>b, <1>0, <2>1 DEF TypeOK, Unmarked
<1>3. Unbilled'
  BY <1>t, <1>0 DEF Unbilled
<1>4. PassShort'
  BY <1>t, <1>b, <1>0 DEF PassShort, TypeOK
<1>5. Broke'
  BY <1>t, <1>0 DEF Broke
<1>6. ExcessBounded'
  <2>1. Lag' = Lag
    BY DEF Lag, Above
  <2>2. ASSUME NEW a \in Account
        PROVE  Excess(a)' <= 0 \/ (Excess(a)' <= Lag /\ TakenBack(a)')
    BY <1>t, <1>1 DEF ExcessBounded
  <2> QED BY <2>1, <2>2 DEF ExcessBounded
<1>7. NobodyDodges'
  <2>1. ASSUME NEW a \in Account PROVE Den * charged'[a] >= BeforeMark(a)'
    BY <1>t, <1>0, <1>1 DEF NobodyDodges
  <2> QED BY <2>1 DEF NobodyDodges
<1> QED BY <1>2, <1>3, <1>4, <1>5, <1>6, <1>7

\* A step that leaves the books alone.
LEMMA BooksKept ==
    ASSUME Inductive, UNCHANGED <<clock, used, mark, charged, bills, stored>>,
           passNow' \in passNow..clock
    PROVE  Unbilled' /\ ExcessBounded' /\ NobodyDodges'
<1>t. TypeOK /\ Unbilled /\ ExcessBounded /\ NobodyDodges
  BY DEF Inductive
<1>1. Unbilled'
  BY <1>t DEF Unbilled
<1>2. ASSUME NEW a \in Account
      PROVE  /\ BeforeMark(a)' = BeforeMark(a) /\ Excess(a)' = Excess(a)
             /\ (TakenBack(a) => TakenBack(a)')
  <2>1. BeforeMark(a)' = BeforeMark(a)
    BY DEF BeforeMark, Above
  <2>2. Excess(a)' = Excess(a)
    BY <2>1 DEF Excess, Lag, Above
  <2>3. Books(a)
    BY <1>t, TypedBooks
  <2>4. TakenBack(a) => TakenBack(a)'
    BY <2>3 DEF TakenBack, Above, Books, Unmarked
  <2> QED BY <2>1, <2>2, <2>4
<1>3. ExcessBounded'
  <2>1. Lag' = Lag
    BY DEF Lag, Above
  <2>2. ASSUME NEW a \in Account
        PROVE  Excess(a)' <= 0 \/ (Excess(a)' <= Lag /\ TakenBack(a)')
    BY <1>t, <1>2 DEF ExcessBounded
  <2> QED BY <2>1, <2>2 DEF ExcessBounded
<1>4. NobodyDodges'
  <2>1. ASSUME NEW a \in Account PROVE Den * charged'[a] >= BeforeMark(a)'
    BY <1>t, <1>2 DEF NobodyDodges
  <2> QED BY <2>1 DEF NobodyDodges
<1> QED BY <1>1, <1>3, <1>4

\* Every step keeps the books straight.
LEMMA NextInductive == Inductive /\ [Next]_vars => Inductive'
<1> SUFFICES ASSUME Inductive, [Next]_vars PROVE Inductive'
  OBVIOUS
<1>t. TypeOK /\ Unbilled /\ PassShort /\ Broke /\ ExcessBounded /\ NobodyDodges /\ FreeTierHolds
  BY DEF Inductive
<1>b. MaxTime \in Nat /\ MaxBytes \in Nat /\ MaxGrant \in Nat /\ PassLag \in Nat
  BY BillingAssumption
<1>s. \A s \in Sizes : s \in Nat
  BY BillingAssumption
<1>c. clock \in 0..clock /\ passNow \in 0..clock /\ passNow \in passNow..clock
      /\ clock \in passNow..clock
  BY <1>t, <1>b DEF TypeOK
<1>1. ASSUME NEW a \in Account, CreateBackup(a) PROVE Inductive'
  <2>1. PICK s \in Sizes : /\ used[a] + s <= MaxBytes /\ WithinQuota(a, s)
                           /\ Settle(a, clock) /\ used' = [used EXCEPT ![a] = @ + s]
                           /\ UNCHANGED <<clock, loop, granted, stored>>
    BY <1>1 DEF CreateBackup
  <2> DEFINE v == used[a] + s
  <2>2. v \in 0..MaxBytes /\ used' = [used EXCEPT ![a] = v]
    BY <1>t, <1>b, <1>s, <2>1 DEF TypeOK
  <2>3. UNCHANGED <<clock, pass, passNow, due, stored, granted>>
    BY <2>1 DEF loop
  <2> HIDE DEF v
  <2>4. /\ Unbilled' /\ Broke' /\ ExcessBounded' /\ NobodyDodges'
        /\ charged' \in [Account -> Nat] /\ bills' \in [Account -> Nat]
        /\ balance' \in [Account -> Int] /\ mark' \in [Account -> {Unmarked} \cup 0..clock]
    BY <1>c, <2>1, <2>2, <2>3, SettleStep
  <2>5. TypeOK'
    BY <1>t, <2>2, <2>3, <2>4 DEF TypeOK
  <2>6. PassShort'
    BY <1>t, <2>3 DEF PassShort
  <2>7. FreeTierHolds'
    <3>1. Enforce /\ granted[a] = 0 => used'[a] <= FreeBytes
      BY <1>t, <2>1 DEF Broke, WithinQuota, TypeOK
    <3> QED BY <1>t, <2>2, <2>3, <3>1 DEF FreeTierHolds, TypeOK
  <2> QED BY <2>4, <2>5, <2>6, <2>7 DEF Inductive
<1>2. ASSUME NEW a \in Account, RemoveBackups(a) PROVE Inductive'
  <2>1. PICK s \in 1..used[a] : /\ Settle(a, clock) /\ used' = [used EXCEPT ![a] = @ - s]
                                /\ UNCHANGED <<clock, loop, granted, stored>>
    BY <1>2 DEF RemoveBackups
  <2> DEFINE v == used[a] - s
  <2>2. v \in 0..MaxBytes /\ v <= used[a] /\ used' = [used EXCEPT ![a] = v]
    BY <1>t, <1>b, <2>1 DEF TypeOK
  <2>3. UNCHANGED <<clock, pass, passNow, due, stored, granted>>
    BY <2>1 DEF loop
  <2> HIDE DEF v
  <2>4. /\ Unbilled' /\ Broke' /\ ExcessBounded' /\ NobodyDodges'
        /\ charged' \in [Account -> Nat] /\ bills' \in [Account -> Nat]
        /\ balance' \in [Account -> Int] /\ mark' \in [Account -> {Unmarked} \cup 0..clock]
    BY <1>c, <2>1, <2>2, <2>3, SettleStep
  <2>5. TypeOK'
    BY <1>t, <2>2, <2>3, <2>4 DEF TypeOK
  <2>6. PassShort'
    BY <1>t, <2>3 DEF PassShort
  <2>7. FreeTierHolds'
    <3>1. FreeBytes \in Nat /\ used[a] \in Nat /\ v \in Nat
      BY <1>t, <1>b, <2>2, BillingAssumption DEF TypeOK
    <3>2. used[a] <= FreeBytes => v <= FreeBytes
      BY <2>2, <3>1
    <3> QED BY <1>t, <2>2, <2>3, <3>2 DEF FreeTierHolds, TypeOK
  <2> QED BY <2>4, <2>5, <2>6, <2>7 DEF Inductive
<1>3. ASSUME NEW a \in Account, AddCredits(a) PROVE Inductive'
  <2>1. /\ granted[a] < MaxGrant /\ granted' = [granted EXCEPT ![a] = @ + 1]
        /\ balance' = [balance EXCEPT ![a] = @ + 1]
        /\ UNCHANGED <<clock, used, mark, charged, bills, pass, passNow, due, stored>>
    BY <1>3 DEF AddCredits, loop
  <2>2. Unbilled' /\ ExcessBounded' /\ NobodyDodges'
    BY <1>c, <2>1, BooksKept
  <2>3. TypeOK'
    BY <1>t, <1>b, <2>1 DEF TypeOK
  <2>4. Broke' /\ PassShort' /\ FreeTierHolds'
    <3>1. granted'[a] # 0
      BY <1>t, <1>b, <2>1 DEF TypeOK
    <3>2. \A b \in Account \ {a} : granted'[b] = granted[b] /\ balance'[b] = balance[b]
      BY <1>t, <2>1 DEF TypeOK
    <3> QED BY <1>t, <2>1, <3>1, <3>2 DEF Broke, PassShort, FreeTierHolds
  <2> QED BY <2>2, <2>3, <2>4 DEF Inductive
<1>4. CASE BeginPass \/ ListDue \/ EndPass \/ UNCHANGED vars
  <2>1. /\ UNCHANGED <<clock, used, mark, balance, charged, bills, stored, granted>>
        /\ passNow' \in passNow..clock
        /\ \/ UNCHANGED <<pass, passNow>> \/ pass' = "idle" \/ passNow' = clock
           \/ pass # "idle" /\ passNow' = passNow
        /\ due' \subseteq Account /\ pass' \in {"idle", "begun", "settling"}
    BY <1>4, <1>t, <1>c DEF BeginPass, ListDue, EndPass, vars, account, loop, TypeOK
  <2>2. Unbilled' /\ ExcessBounded' /\ NobodyDodges'
    BY <2>1, BooksKept
  <2>3. TypeOK'
    BY <1>t, <1>c, <2>1 DEF TypeOK
  <2>4. Broke' /\ FreeTierHolds'
    BY <1>t, <2>1 DEF Broke, FreeTierHolds
  <2>5. PassShort'
    <3>1. clock <= clock + PassLag
      BY <1>t, <1>b DEF TypeOK
    <3>2. pass' # "idle" => passNow' = clock \/ (pass # "idle" /\ passNow' = passNow)
      BY <2>1
    <3> QED BY <1>t, <2>1, <3>1, <3>2 DEF PassShort
  <2> QED BY <2>2, <2>3, <2>4, <2>5 DEF Inductive
<1>5. CASE SettleDue
  <2>1. PICK a \in due : /\ pass = "settling" /\ Settle(a, PassTime) /\ due' = due \ {a}
                         /\ UNCHANGED <<clock, used, pass, passNow, granted, stored>>
    BY <1>5 DEF SettleDue
  <2>2. a \in Account /\ used[a] \in 0..MaxBytes /\ used' = [used EXCEPT ![a] = used[a]]
    BY <1>t, <2>1 DEF TypeOK
  <2>3. Settle(a, passNow) /\ clock <= passNow + PassLag
    BY <1>t, <2>1 DEF PassTime, PassShort
  <2>4. /\ Unbilled' /\ Broke' /\ ExcessBounded' /\ NobodyDodges'
        /\ charged' \in [Account -> Nat] /\ bills' \in [Account -> Nat]
        /\ balance' \in [Account -> Int] /\ mark' \in [Account -> {Unmarked} \cup 0..clock]
    BY <1>c, <2>1, <2>2, <2>3, SettleStep
  <2>5. TypeOK'
    BY <1>t, <2>1, <2>4 DEF TypeOK
  <2>6. PassShort' /\ FreeTierHolds'
    BY <1>t, <2>1 DEF PassShort, FreeTierHolds
  <2> QED BY <2>4, <2>5, <2>6 DEF Inductive
<1>6. CASE Tick
  <2>1. FreeTierHolds'
    BY <1>6, <1>t DEF Tick, account, FreeTierHolds
  <2> QED BY <1>6, <2>1, TickStep DEF Inductive
<1> QED BY <1>1, <1>2, <1>3, <1>4, <1>5, <1>6 DEF Next

\* The books stay straight, for any number of accounts, any price and any timing of the
\* pass (the inductive invariant).
THEOREM InductiveInvariant == Spec => []Inductive
<1> QED BY InitInductive, NextInductive, PTL DEF Spec

\* Balances, marks and histories stay well typed (TypeOK).
THEOREM TypeCorrect == Spec => []TypeOK
<1>1. Inductive => TypeOK
  BY DEF Inductive
<1> QED BY <1>1, InductiveInvariant, PTL

\* Whatever was stored before an account's mark has been charged (NobodyDodges).
THEOREM EverythingPaid == Spec => []NobodyDodges
<1>1. Inductive => NobodyDodges
  BY DEF Inductive
<1> QED BY <1>1, InductiveInvariant, PTL

\* The pass's old time bills again what PassLag ticks cost at most, per bill and once more
\* (OverchargeBounded).
THEOREM OverchargeLimit == Spec => []OverchargeBounded
<1>1. Inductive => OverchargeBounded
  <2> SUFFICES ASSUME Inductive, NEW a \in Account
               PROVE  Den * charged[a] <= BeforeMark(a) + (Den - 1 + Lag) * bills[a] + Lag
    BY DEF OverchargeBounded, Lag
  <2> DEFINE C == Den * charged[a]
             B == BeforeMark(a)
             A == (Den - 1 + Lag) * bills[a]
  <2>0. Excess(a) <= 0 \/ Excess(a) <= Lag
    BY DEF Inductive, ExcessBounded
  <2>e. Excess(a) = C - B - A
    BY DEF Excess
  <2>2. C \in Int /\ A \in Int /\ Lag \in Int
    BY LagType, BillingAssumption DEF Inductive, TypeOK
  <2>3. B \in Int
    <3>1. Books(a)
      BY TypedBooks DEF Inductive
    <3>2. Above(used[a]) \in Int
      BY <3>1, AboveBounds DEF Books
    <3> QED BY <3>1, <3>2 DEF BeforeMark, Books
  <2> HIDE DEF A, B, C
  <2>4. C <= B + A + Lag
    BY <2>0, <2>e, <2>2, <2>3, LagType
  <2> QED BY <2>4 DEF A, B, C
<1> QED BY <1>1, InductiveInvariant, PTL

\* Where a pass takes no time, the mark says up to when an account is paid: the time that
\* is billed again is the pass's own (PaidUpToMark, which a pass that lasts violates).
THEOREM PaidOnce ==
    ASSUME PassLag = 0
    PROVE  Spec => []PaidUpToMark
<1>1. PassLag * Above(MaxBytes) = 0
  <2>1. Above(MaxBytes) \in Int
    BY BillingAssumption DEF Above
  <2> QED BY <2>1
<1>2. Inductive /\ OverchargeBounded => PaidUpToMark
  <2> SUFFICES ASSUME Inductive, OverchargeBounded, NEW a \in Account
               PROVE  Den * charged[a] <= BeforeMark(a) + (Den - 1) * bills[a]
    BY DEF PaidUpToMark
  <2>1. Den * charged[a] <= BeforeMark(a) + (Den - 1 + 0) * bills[a] + 0
    BY <1>1 DEF OverchargeBounded
  <2>2. BeforeMark(a) \in Int
    <3>1. Books(a)
      BY TypedBooks DEF Inductive
    <3>2. Above(used[a]) \in Int
      BY <3>1, AboveBounds DEF Books
    <3> QED BY <3>1, <3>2 DEF BeforeMark, Books
  <2>3. Den - 1 + 0 = Den - 1
    BY BillingAssumption
  <2>4. (Den - 1) * bills[a] \in Int
    BY BillingAssumption DEF Inductive, TypeOK
  <2> QED BY <2>1, <2>2, <2>3, <2>4
<1> QED BY <1>2, OverchargeLimit, InductiveInvariant, PTL

\* An account that was never given credit stores no more than is free (FreeTierHolds).
THEOREM FreeTier == Spec => []FreeTierHolds
<1>1. Inductive => FreeTierHolds
  BY DEF Inductive
<1> QED BY <1>1, InductiveInvariant, PTL
=============================================================================
