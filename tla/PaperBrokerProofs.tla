------------------------ MODULE PaperBrokerProofs ------------------------
(***************************************************************************)
(* Machine-checked proofs about PaperBroker, for every set of instruments, *)
(* prices and requests, every fee and rate, and any numbers of fills,      *)
(* orders, signals and runs: TypeCorrect and FundingIsComplete whatever     *)
(* sessions overlap, the others for one session at a time.                 *)
(***************************************************************************)
EXTENDS PaperBroker, FiniteSetTheorems, WellFoundedInduction, TLAPS

-----------------------------------------------------------------------------
(***************************************************************************)
(* Induction, as the existence of a least element.                         *)
(***************************************************************************)

LessThan == {p \in Nat \X Nat : p[1] < p[2]}

LEMMA LessThanIsWellFounded == IsWellFoundedOn(LessThan, Nat)
<1>1. LessThan = OpToRel(<, Nat)
  BY Zenon DEF LessThan, OpToRel
<1>2. QED
  BY <1>1, NatLessThanWellFounded, Zenon

LEMMA Least ==
    ASSUME NEW T \in SUBSET Nat, T # {}
    PROVE  \E n \in T : \A m \in T : n <= m
<1>1. PICK n \in T : \A m \in T : ~ (<<m, n>> \in LessThan)
  BY WFMin, LessThanIsWellFounded
<1>2. ASSUME NEW m \in T PROVE n <= m
  <2>1. ~ (m < n)
    BY <1>1 DEF LessThan
  <2>2. QED
    BY <2>1
<1>3. QED
  BY <1>2

-----------------------------------------------------------------------------
(***************************************************************************)
(* Sums.                                                                   *)
(***************************************************************************)

IsSum(g, f, n) == g = [k \in 0..n |-> IF k = 0 THEN 0 ELSE g[k - 1] + f[k]]

LEMMA SumExists == ASSUME NEW f, NEW n \in Nat PROVE \E g : IsSum(g, f, n)
<1> DEFINE T == {m \in Nat : ~ \E g : IsSum(g, f, m)}
<1>1. SUFFICES ASSUME T # {} PROVE FALSE
  OBVIOUS
<1>2. PICK m \in T : \A k \in T : m <= k
  BY <1>1, Least
<1>3. CASE m = 0
  <2>1. IsSum([k \in 0..0 |-> 0], f, 0)
    BY DEF IsSum
  <2>2. QED
    BY <2>1, <1>3
<1>4. CASE m # 0
  <2>1. m - 1 \in Nat /\ m - 1 \notin T
    BY <1>2, <1>4
  <2>2. PICK g : IsSum(g, f, m - 1)
    BY <2>1
  <2> DEFINE h == [k \in 0..m |-> IF k = m THEN g[m - 1] + f[m] ELSE g[k]]
  <2>3. \A k \in 0..(m - 1) : g[k] = IF k = 0 THEN 0 ELSE g[k - 1] + f[k]
    BY <2>2 DEF IsSum
  <2>4. PICK x : x = h
    OBVIOUS
  <2>5. ASSUME NEW k \in 0..m PROVE x[k] = IF k = 0 THEN 0 ELSE x[k - 1] + f[k]
    <3>1. CASE k = m
      BY <3>1, <1>4, <2>4
    <3>2. CASE k # m
      BY <3>2, <2>3, <2>4
    <3>3. QED
      BY <3>1, <3>2
  <2>6. x = [k \in 0..m |-> x[k]]
    BY <2>4
  <2>7. IsSum(x, f, m)
    BY <2>5, <2>6 DEF IsSum
  <2>8. QED
    BY <2>7
<1>5. QED
  BY <1>3, <1>4

LEMMA SumsAgree ==
    ASSUME NEW f, NEW n \in Nat, NEW m \in Nat, NEW g, NEW h,
           IsSum(g, f, n), IsSum(h, f, m), n <= m
    PROVE  g[n] = h[n]
<1> DEFINE T == {k \in Nat : k <= n /\ g[k] # h[k]}
<1>1. SUFFICES ASSUME T # {} PROVE FALSE
  OBVIOUS
<1>2. PICK k \in T : \A j \in T : k <= j
  BY <1>1, Least
<1>3. /\ g[k] = IF k = 0 THEN 0 ELSE g[k - 1] + f[k]
      /\ h[k] = IF k = 0 THEN 0 ELSE h[k - 1] + f[k]
  BY <1>2 DEF IsSum
<1>4. k # 0 => g[k - 1] = h[k - 1]
  BY <1>2
<1>5. QED
  BY <1>2, <1>3, <1>4

LEMMA SumIs ==
    ASSUME NEW f, NEW n \in Nat PROVE \E g : IsSum(g, f, n) /\ SumTo(f, n) = g[n]
<1>1. IsSum(CHOOSE g : IsSum(g, f, n), f, n)
  BY SumExists
<1>2. SumTo(f, n) = (CHOOSE g : IsSum(g, f, n))[n]
  BY DEF SumTo, IsSum
<1>3. QED
  BY <1>1, <1>2

\* The recursion, as equations.
LEMMA SumSteps ==
    ASSUME NEW f, NEW n \in Nat
    PROVE  /\ SumTo(f, 0) = 0
           /\ SumTo(f, n + 1) = SumTo(f, n) + f[n + 1]
<1>1. PICK z : IsSum(z, f, 0) /\ SumTo(f, 0) = z[0]
  BY SumIs
<1>2. PICK g : IsSum(g, f, n) /\ SumTo(f, n) = g[n]
  BY SumIs
<1>3. PICK h : IsSum(h, f, n + 1) /\ SumTo(f, n + 1) = h[n + 1]
  BY SumIs
<1>4. z[0] = 0
  BY <1>1 DEF IsSum
<1>5. h[n + 1] = h[n] + f[n + 1]
  BY <1>3 DEF IsSum
<1>6. g[n] = h[n]
  BY <1>2, <1>3, SumsAgree
<1>7. QED
  BY <1>1, <1>2, <1>3, <1>4, <1>5, <1>6

\* A sum of integers is one.
LEMMA SumType ==
    ASSUME NEW n \in Nat, NEW f, \A k \in 1..n : f[k] \in Int
    PROVE  SumTo(f, n) \in Int
<1> DEFINE T == {m \in Nat : m <= n /\ SumTo(f, m) \notin Int}
<1>1. SUFFICES ASSUME T # {} PROVE FALSE
  OBVIOUS
<1>2. PICK m \in T : \A k \in T : m <= k
  BY <1>1, Least
<1>3. m # 0
  BY <1>2, SumSteps
<1>4. SumTo(f, m - 1) \in Int
  BY <1>2, <1>3
<1>5. SumTo(f, (m - 1) + 1) = SumTo(f, m - 1) + f[(m - 1) + 1]
  BY <1>3, SumSteps
<1>6. QED
  BY <1>2, <1>3, <1>4, <1>5

\* Sums of the same numbers are equal.
LEMMA SumEqual ==
    ASSUME NEW n \in Nat, NEW f, NEW g, \A k \in 1..n : f[k] = g[k]
    PROVE  SumTo(f, n) = SumTo(g, n)
<1> DEFINE T == {m \in Nat : m <= n /\ SumTo(f, m) # SumTo(g, m)}
<1>1. SUFFICES ASSUME T # {} PROVE FALSE
  OBVIOUS
<1>2. PICK m \in T : \A k \in T : m <= k
  BY <1>1, Least
<1>3. m # 0
  BY <1>2, SumSteps
<1>4. SumTo(f, m - 1) = SumTo(g, m - 1)
  BY <1>2, <1>3
<1>5. /\ SumTo(f, (m - 1) + 1) = SumTo(f, m - 1) + f[(m - 1) + 1]
      /\ SumTo(g, (m - 1) + 1) = SumTo(g, m - 1) + g[(m - 1) + 1]
  BY <1>3, SumSteps
<1>6. QED
  BY <1>2, <1>3, <1>4, <1>5

\* Changing one of the numbers changes the sum by the difference.
LEMMA SumChange ==
    ASSUME NEW n \in Nat, NEW f, NEW g, NEW j \in 1..n,
           \A k \in 1..n : f[k] \in Int /\ g[k] \in Int,
           \A k \in 1..n : k # j => g[k] = f[k]
    PROVE  SumTo(g, n) = SumTo(f, n) - f[j] + g[j]
<1> DEFINE T == {m \in Nat : j <= m /\ m <= n /\ SumTo(g, m) # SumTo(f, m) - f[j] + g[j]}
<1>1. SUFFICES ASSUME T # {} PROVE FALSE
  OBVIOUS
<1>2. PICK m \in T : \A k \in T : m <= k
  BY <1>1, Least
<1>3. /\ SumTo(f, (m - 1) + 1) = SumTo(f, m - 1) + f[(m - 1) + 1]
      /\ SumTo(g, (m - 1) + 1) = SumTo(g, m - 1) + g[(m - 1) + 1]
  BY SumSteps
<1>4. SumTo(f, m - 1) \in Int /\ SumTo(g, m - 1) \in Int
  BY SumType
<1>5. CASE m = j
  <2>1. SumTo(f, m - 1) = SumTo(g, m - 1)
    BY <1>5, SumEqual
  <2>2. QED
    BY <1>2, <1>3, <1>4, <1>5, <2>1
<1>6. CASE m # j
  <2>1. SumTo(g, m - 1) = SumTo(f, m - 1) - f[j] + g[j]
    BY <1>2, <1>6
  <2>2. QED
    BY <1>2, <1>3, <1>4, <1>6, <2>1
<1>7. QED
  BY <1>5, <1>6

\* The l numbers g are the n numbers f with one more, at j.
Inserted(g, l, f, n, j) ==
    /\ l = n + 1 /\ j \in 1..l /\ g[j] \in Int
    /\ \A k \in 1..n : f[k] \in Int
    /\ \A k \in 1..(j - 1) : g[k] = f[k]
    /\ \A k \in (j + 1)..l : g[k] = f[k - 1]

\* Inserting a number adds it.
LEMMA SumInsert ==
    ASSUME NEW n \in Nat, NEW f, NEW l \in Nat, NEW g, NEW j, Inserted(g, l, f, n, j)
    PROVE  SumTo(g, l) = SumTo(f, n) + g[j]
<1> USE DEF Inserted
<1> DEFINE T == {m \in Nat : j <= m /\ m <= l /\ SumTo(g, m) # SumTo(f, m - 1) + g[j]}
<1>1. SUFFICES ASSUME T # {} PROVE FALSE
  OBVIOUS
<1>2. PICK m \in T : \A k \in T : m <= k
  BY <1>1, Least
<1>3. SumTo(g, (m - 1) + 1) = SumTo(g, m - 1) + g[(m - 1) + 1]
  BY SumSteps
<1>4. CASE m = j
  <2>1. SumTo(f, m - 1) = SumTo(g, m - 1)
    BY <1>4, SumEqual
  <2>2. QED
    BY <1>2, <1>3, <1>4, <2>1
<1>5. CASE m # j
  <2>1. SumTo(g, m - 1) = SumTo(f, m - 2) + g[j]
    BY <1>2, <1>5
  <2>2. SumTo(f, (m - 2) + 1) = SumTo(f, m - 2) + f[(m - 2) + 1]
    BY <1>2, <1>5, SumSteps
  <2>3. SumTo(f, m - 2) \in Int /\ f[m - 1] \in Int /\ g[m] = f[m - 1]
    BY <1>2, <1>5, SumType
  <2>4. QED
    BY <1>2, <1>3, <1>5, <2>1, <2>2, <2>3
<1>6. QED
  BY <1>4, <1>5

\* None of the numbers, if they are not negative, is more than the sum.
LEMMA SumBound ==
    ASSUME NEW n \in Nat, NEW f, \A k \in 1..n : f[k] \in Nat
    PROVE  SumTo(f, n) \in Nat /\ \A j \in 1..n : f[j] <= SumTo(f, n)
<1> DEFINE Bounds(m) == SumTo(f, m) \in Nat /\ \A j \in 1..m : f[j] <= SumTo(f, m)
           T == {m \in Nat : m <= n /\ ~ Bounds(m)}
<1>1. SUFFICES ASSUME T # {} PROVE FALSE
  OBVIOUS
<1>2. PICK m \in T : \A k \in T : m <= k
  BY <1>1, Least
<1>3. m # 0
  BY <1>2, SumSteps
<1>4. Bounds(m - 1)
  BY <1>2, <1>3
<1>5. SumTo(f, (m - 1) + 1) = SumTo(f, m - 1) + f[(m - 1) + 1]
  BY <1>3, SumSteps
<1>6. SumTo(f, m) \in Nat
  BY <1>2, <1>3, <1>4, <1>5
<1>7. ASSUME NEW j \in 1..m PROVE f[j] <= SumTo(f, m)
  <2>1. CASE j = m
    BY <1>3, <1>4, <1>5, <2>1
  <2>2. CASE j # m
    BY <1>2, <1>3, <1>4, <1>5, <2>2
  <2>3. QED
    BY <2>1, <2>2
<1>8. QED
  BY <1>2, <1>6, <1>7

\* A finite set as a sequence.
LEMMA ListFacts ==
    ASSUME NEW S, IsFiniteSet(S)
    PROVE  SetToSeq(S) \in Seq(S) /\ Len(SetToSeq(S)) = Cardinality(S)
<1>1. Cardinality(S) \in Nat /\ ExistsBijection(1..Cardinality(S), S)
  BY FS_CardinalityType
<1>2. \E f \in [1..Cardinality(S) -> S] : IsInjective(f)
  BY <1>1 DEF ExistsBijection, Bijection, Injection
<1>3. SetToSeq(S) \in [1..Cardinality(S) -> S]
  BY <1>2 DEF SetToSeq
<1>4. QED
  BY <1>1, <1>3

-----------------------------------------------------------------------------
(***************************************************************************)
(* What the rows hold.                                                     *)
(***************************************************************************)

Position == [qty : Int, entry : Int, realized : Int, margin : Int, mark : Int]

Fill == [inst : Instruments, qty : Int, price : Prices, fee : Int, at : 0..MaxClock]

Order == [inst : Instruments, buy : BOOLEAN, qty : Nat, limit : Prices,
          status : {"pending", "filled", "cancelled"}]

Signal == [inst : Perps, target : Int, until : Nat,
           status : {"generated", "superseded", "expired", "rejected", "consumed"}]

Settlement == [inst : Perps, boundary : Nat, qty : Int]

Account == [cash : Int, locked : Nat, quote : Int, valid : BOOLEAN,
            base : [Spots -> Int], baseLocked : [Spots -> Nat],
            pos : [Instruments -> Position], fills : Seq(Fill),
            ledger : Int, funding : SUBSET Settlement, fundingCash : Int]

LEMMA ConstantFacts ==
    /\ Prices \subseteq Int /\ Prices \subseteq Nat /\ \A p \in Prices : p > 0
    /\ Unit \in Nat /\ Unit > 0 /\ Grid \in Nat /\ Grid > 0 /\ Initial \in Int
    /\ TakerFee \in Nat /\ MakerFee \in Nat /\ Maintenance \in Nat /\ LiquidationFee \in Nat
    /\ Targets \subseteq Int /\ Rates \subseteq Int
    /\ IsFiniteSet(Instruments) /\ IsFiniteSet(Spots) /\ IsFiniteSet(Perps)
    /\ MaxClock \in Nat /\ MaxQty \in Nat /\ MaxSignals \in Nat
    /\ \A i \in Perps : i \in Instruments /\ i \notin Spots
    /\ \A i \in Instruments : i \notin Spots => i \in Perps
    /\ Spots \subseteq Instruments
<1>1. Spots \subseteq Instruments /\ Perps \subseteq Instruments
  BY DEF Instruments
<1>2. IsFiniteSet(Spots) /\ IsFiniteSet(Perps)
  BY <1>1, PaperAssumption, FS_Subset
<1>3. QED
  BY <1>1, <1>2, PaperAssumption DEF Instruments

-----------------------------------------------------------------------------
(***************************************************************************)
(* Positions and fills.                                                    *)
(***************************************************************************)

LEMMA SizeFacts == ASSUME NEW q \in Int PROVE Size(q) \in Nat /\ (q # 0 => Size(q) > 0)
BY DEF Size

LEMMA RealizedType ==
    ASSUME NEW pos \in Position, NEW delta \in Int, NEW price \in Int
    PROVE  Realized(pos, delta, price) \in Int
<1>1. AtMost(Size(pos.qty), Size(delta)) \in Int
  BY SizeFacts DEF AtMost, Position
<1>2. price * Unit - pos.entry \in Int
  BY ConstantFacts DEF Position
<1>3. QED
  BY <1>1, <1>2 DEF Realized

LEMMA EntryType ==
    ASSUME NEW pos \in Position, NEW delta \in Int, NEW price \in Int
    PROVE  Entry(pos, delta, price) \in Int
<1>1. pos.qty \in Int /\ pos.entry \in Int /\ price * Unit \in Int
  BY ConstantFacts DEF Position
<1>2. CASE pos.qty * delta > 0
  <2>1. pos.qty + delta # 0
    BY <1>1, <1>2
  <2>2. Size(pos.qty + delta) \in Nat \ {0}
    BY <1>1, <2>1 DEF Size
  <2>3. Size(pos.qty) * pos.entry + Size(delta) * price * Unit \in Int
    BY <1>1, SizeFacts, ConstantFacts
  <2>4. QED
    BY <1>2, <2>2, <2>3 DEF Entry
<1>3. CASE ~ (pos.qty * delta > 0)
  BY <1>1, <1>3 DEF Entry
<1>4. QED
  BY <1>2, <1>3

LEMMA MovedType ==
    ASSUME NEW pos \in Position, NEW delta \in Int, NEW price \in Int
    PROVE  /\ Moved(pos, delta, price) \in Position
           /\ Moved(pos, delta, price).qty = pos.qty + delta
<1>1. Realized(pos, delta, price) \in Int /\ Entry(pos, delta, price) \in Int
  BY RealizedType, EntryType
<1>2. PICK e \in Int : e = Entry(pos, delta, price)
  BY <1>1
<1>3. PICK r \in Int : r = Realized(pos, delta, price)
  BY <1>1
<1>4. PICK q \in Int, x \in Int : q = pos.qty + delta /\ x = pos.realized + r
  BY DEF Position
<1>5. Moved(pos, delta, price) = [pos EXCEPT !.qty = q, !.entry = e, !.realized = x]
  BY <1>2, <1>3, <1>4, Zenon DEF Moved
<1>6. [pos EXCEPT !.qty = q, !.entry = e, !.realized = x] \in Position
  BY DEF Position
<1>7. [pos EXCEPT !.qty = q, !.entry = e, !.realized = x].qty = q
  BY DEF Position
<1>8. QED
  BY <1>4, <1>5, <1>6, <1>7

LEMMA StoredType == ASSUME NEW x \in Int PROVE Stored(x) \in Int
<1>1. Grid \in Nat \ {0}
  BY ConstantFacts
<1>2. Grid \div 2 \in Int
  BY <1>1
<1>3. (x + Grid \div 2) \div Grid \in Int
  BY <1>1, <1>2
<1>4. QED
  BY <1>1, <1>3 DEF Stored

LEMMA CashOfType ==
    ASSUME NEW f \in Fill, NEW pos \in [Instruments -> Position]
    PROVE  CashOf(f, pos) \in Int
<1>1. f.qty \in Int /\ f.price \in Int /\ f.fee \in Int /\ pos[f.inst] \in Position
  BY ConstantFacts DEF Fill
<1>2. Realized(pos[f.inst], f.qty, f.price) \in Int /\ -f.qty * f.price * Unit \in Int
  BY <1>1, RealizedType, ConstantFacts
<1>3. QED
  BY <1>1, <1>2 DEF CashOf

LEMMA FillOfType ==
    ASSUME NEW i \in Instruments, NEW q \in Int, NEW p \in Prices, NEW fee \in Int,
           NEW at \in 0..MaxClock
    PROVE  FillOf(i, q, p, fee, at) \in Fill
<1>1. Size(q) * p * fee \in Int
  BY SizeFacts, ConstantFacts
<1>2. QED
  BY <1>1 DEF FillOf, Fill

\* A sequence with an element inserted.
LEMMA InsertFacts ==
    ASSUME NEW S, NEW s \in Seq(S), NEW e \in S, NEW k \in 1..(Len(s) + 1)
    PROVE  /\ InsertAt(s, k, e) \in Seq(S)
           /\ Len(InsertAt(s, k, e)) = Len(s) + 1
           /\ \A j \in 1..(k - 1) : InsertAt(s, k, e)[j] = s[j]
           /\ InsertAt(s, k, e)[k] = e
           /\ \A j \in (k + 1)..(Len(s) + 1) : InsertAt(s, k, e)[j] = s[j - 1]
<1> DEFINE front == SubSeq(s, 1, k - 1)
           back  == SubSeq(s, k, Len(s))
<1>1. front \in Seq(S) /\ Len(front) = k - 1 /\ \A j \in 1..(k - 1) : front[j] = s[j]
  OBVIOUS
<1>2. back \in Seq(S) /\ Len(back) = Len(s) - k + 1
  OBVIOUS
<1>3. \A j \in 1..(Len(s) - k + 1) : back[j] = s[k + j - 1]
  OBVIOUS
<1>4. <<e>> \in Seq(S) /\ Len(<<e>>) = 1 /\ <<e>>[1] = e
  OBVIOUS
<1> HIDE DEF front, back
<1>5. InsertAt(s, k, e) = (front \o <<e>>) \o back
  BY DEF InsertAt, front, back
<1>6. PICK left : left = front \o <<e>>
  OBVIOUS
<1>7. left \in Seq(S) /\ Len(left) = k
  BY <1>1, <1>4, <1>6
<1>8. (\A j \in 1..(k - 1) : left[j] = s[j]) /\ left[k] = e
  BY <1>1, <1>4, <1>6
<1>9. InsertAt(s, k, e) = left \o back
  BY <1>5, <1>6
<1>10. InsertAt(s, k, e) \in Seq(S) /\ Len(InsertAt(s, k, e)) = Len(s) + 1
  BY <1>2, <1>7, <1>9
<1>11. \A j \in 1..k : InsertAt(s, k, e)[j] = left[j]
  BY <1>2, <1>7, <1>9
<1>12. ASSUME NEW j \in (k + 1)..(Len(s) + 1) PROVE InsertAt(s, k, e)[j] = s[j - 1]
  <2>1. InsertAt(s, k, e)[j] = back[j - k]
    BY <1>2, <1>7, <1>9
  <2>2. QED
    BY <1>3, <2>1
<1>13. QED
  BY <1>8, <1>10, <1>11, <1>12

-----------------------------------------------------------------------------
(***************************************************************************)
(* A fill is posted.                                                       *)
(***************************************************************************)

\* The row of the instrument that the fill f moves.
PostedRow(b, f) ==
    LET moved == Moved(b.pos[f.inst], f.qty, f.price)
    IN  [moved EXCEPT !.entry = Stored(@), !.mark = f.price,
             !.margin = IF f.inst \in Spots THEN 0 ELSE Size(moved.qty) * f.price * Unit]

LEMMA PostedRowType ==
    ASSUME NEW b \in Account, NEW f \in Fill
    PROVE  /\ PostedRow(b, f) \in Position
           /\ PostedRow(b, f).qty = b.pos[f.inst].qty + f.qty
           /\ PostedRow(b, f).entry = Stored(Moved(b.pos[f.inst], f.qty, f.price).entry)
           /\ PostedRow(b, f).realized = Moved(b.pos[f.inst], f.qty, f.price).realized
<1>1. PICK pos \in Position : pos = b.pos[f.inst]
  BY DEF Account, Fill
<1>2. f.qty \in Int /\ f.price \in Int
  BY ConstantFacts DEF Fill
<1>3. PICK m \in Position : m = Moved(pos, f.qty, f.price) /\ m.qty = pos.qty + f.qty
  BY <1>2, MovedType
<1>4. PICK e \in Int : e = Stored(m.entry)
  BY StoredType DEF Position
<1>5. PICK g \in Int : g = IF f.inst \in Spots THEN 0 ELSE Size(m.qty) * f.price * Unit
  BY <1>2, SizeFacts, ConstantFacts DEF Position
<1>6. PostedRow(b, f) = [m EXCEPT !.entry = e, !.mark = f.price, !.margin = g]
  BY <1>1, <1>3, <1>4, <1>5, Zenon DEF PostedRow
<1>7. PICK y : y = [m EXCEPT !.entry = e, !.mark = f.price, !.margin = g]
  OBVIOUS
<1>8. y \in Position /\ y.qty = m.qty /\ y.entry = e /\ y.realized = m.realized
  BY <1>2, <1>7 DEF Position
<1>9. QED
  BY <1>1, <1>3, <1>4, <1>6, <1>7, <1>8

LEMMA BookedType ==
    ASSUME NEW b \in Account, NEW c \in Int, NEW l \in Int,
           NEW pos \in [Instruments -> Position], NEW fills \in Seq(Fill)
    PROVE  [b EXCEPT !.cash = c, !.ledger = l, !.pos = pos, !.fills = fills] \in Account
BY Zenon DEF Account

LEMMA PostIs ==
    ASSUME NEW b \in Account, NEW f \in Fill, NEW k \in 1..(Len(b.fills) + 1)
    PROVE  LET p == Post(b, f, k)
               cash == b.cash + CashOf(f, b.pos)
               spot == f.inst \in Spots
           IN  /\ p \in Account
               /\ p.cash = cash /\ p.ledger = b.ledger + CashOf(f, b.pos)
               /\ p.locked = b.locked /\ p.baseLocked = b.baseLocked
               /\ p.funding = b.funding /\ p.fundingCash = b.fundingCash
               /\ p.fills = InsertAt(b.fills, k, f)
               /\ p.pos = [b.pos EXCEPT ![f.inst] = PostedRow(b, f)]
               /\ spot => /\ p.base = [b.base EXCEPT ![f.inst] = b.base[f.inst] + f.qty]
                          /\ p.valid <=> b.valid /\ cash >= 0 /\ b.base[f.inst] + f.qty >= 0
               /\ ~ spot => p.base = b.base /\ p.valid = b.valid
<1>1. b.cash \in Int /\ b.ledger \in Int /\ b.pos \in [Instruments -> Position]
      /\ b.base \in [Spots -> Int] /\ b.fills \in Seq(Fill) /\ b.valid \in BOOLEAN
      /\ f.inst \in Instruments /\ f.qty \in Int
  BY DEF Account, Fill
<1>2. PICK d \in Int : d = CashOf(f, b.pos)
  BY <1>1, CashOfType
<1>3. PICK c \in Int : c = b.cash + d
  BY <1>1
<1>4. PICK l \in Int : l = b.ledger + d
  BY <1>1
<1>5. PICK row \in Position : row = PostedRow(b, f)
  BY PostedRowType
<1>6. PICK fills \in Seq(Fill) : fills = InsertAt(b.fills, k, f)
  BY <1>1, InsertFacts
<1>7. PICK pos \in [Instruments -> Position] : pos = [b.pos EXCEPT ![f.inst] = row]
  BY <1>1
<1>8. PICK booked :
        booked = [b EXCEPT !.cash = c, !.ledger = l, !.pos = pos, !.fills = fills]
  OBVIOUS
<1>9. booked \in Account
  BY <1>8, BookedType
<1>10. booked.cash = c /\ booked.ledger = l /\ booked.pos = pos
      /\ booked.fills = fills
  BY <1>8 DEF Account
<1>11. booked.locked = b.locked /\ booked.baseLocked = b.baseLocked
      /\ booked.funding = b.funding /\ booked.fundingCash = b.fundingCash
      /\ booked.base = b.base /\ booked.valid = b.valid
  BY <1>8 DEF Account
<1>12. booked \in Account /\ booked.cash = c /\ booked.ledger = l /\ booked.pos = pos
      /\ booked.fills = fills /\ booked.locked = b.locked /\ booked.baseLocked = b.baseLocked
      /\ booked.funding = b.funding /\ booked.fundingCash = b.fundingCash
      /\ booked.base = b.base /\ booked.valid = b.valid
  BY <1>9, <1>10, <1>11
<1>13. CASE f.inst \in Spots
  <2>1. PICK sum \in Int : sum = b.base[f.inst] + f.qty
    BY <1>1, <1>13
  <2>2. PICK base \in [Spots -> Int] : base = [b.base EXCEPT ![f.inst] = sum]
    BY <1>1, <1>13
  <2>3. PICK v \in BOOLEAN : v <=> b.valid /\ c >= 0 /\ b.base[f.inst] + f.qty >= 0
    OBVIOUS
  <2>4. PICK p : p = [booked EXCEPT !.base = base, !.quote = c, !.valid = v]
    OBVIOUS
  <2>5. p \in Account /\ p.cash = c /\ p.ledger = l /\ p.pos = pos /\ p.fills = fills
        /\ p.locked = b.locked /\ p.baseLocked = b.baseLocked
        /\ p.funding = b.funding /\ p.fundingCash = b.fundingCash
        /\ p.base = base /\ p.valid = v
    BY <2>4, <1>12 DEF Account
  <2>6. Post(b, f, k) =
          LET step == [b EXCEPT !.cash = b.cash + CashOf(f, b.pos),
                           !.ledger = b.ledger + CashOf(f, b.pos),
                           !.pos[f.inst] = PostedRow(b, f), !.fills = InsertAt(b.fills, k, f)]
          IN  [step EXCEPT !.base[f.inst] = @ + f.qty, !.quote = step.cash,
                   !.valid = @ /\ step.cash >= 0 /\ b.base[f.inst] + f.qty >= 0]
    BY <1>13, Zenon DEF Post, PostedRow
  <2>7. [b EXCEPT !.cash = b.cash + CashOf(f, b.pos), !.ledger = b.ledger + CashOf(f, b.pos),
             !.pos[f.inst] = PostedRow(b, f), !.fills = InsertAt(b.fills, k, f)] = booked
    BY <1>2, <1>4, <1>3, <1>5, <1>6, <1>7, <1>8
  <2>8. [booked EXCEPT !.base[f.inst] = @ + f.qty, !.quote = booked.cash,
               !.valid = @ /\ booked.cash >= 0 /\ b.base[f.inst] + f.qty >= 0] = p
    BY <1>12, <2>1, <2>2, <2>3, <2>4
  <2>9. Post(b, f, k) = p
    BY <2>6, <2>7, <2>8, Zenon
  <2>10. QED
    BY <1>2, <1>4, <1>3, <1>5, <1>6, <1>7, <1>13, <2>1, <2>2, <2>3, <2>5, <2>9
<1>14. CASE f.inst \notin Spots
  <2>1. Post(b, f, k) =
          [b EXCEPT !.cash = b.cash + CashOf(f, b.pos), !.ledger = b.ledger + CashOf(f, b.pos),
             !.pos[f.inst] = PostedRow(b, f), !.fills = InsertAt(b.fills, k, f)]
    BY <1>14, Zenon DEF Post, PostedRow
  <2>2. Post(b, f, k) = booked
    BY <1>2, <1>4, <1>3, <1>5, <1>6, <1>7, <1>8, <2>1
  <2>3. QED
    BY <1>2, <1>4, <1>3, <1>5, <1>6, <1>7, <1>12, <1>14, <2>2
<1>15. QED
  BY <1>13, <1>14

-----------------------------------------------------------------------------
(***************************************************************************)
(* Positions, balances and fills that agree.                               *)
(***************************************************************************)

\* PositionsFollowFills of the books b, unless sessions overlap; and no
\* balance is negative unless a row broke its constraint.
Agrees(b) ==
    /\ ~ Overlap => \A i \in Instruments : b.pos[i].qty = Held(b.fills, i)
    /\ ~ Overlap => \A i \in Spots : b.base[i] + b.baseLocked[i] = b.pos[i].qty
    /\ b.valid => \A i \in Spots : b.base[i] >= 0

\* The books c have more fills than b, and none that is before the boundaries
\* up to `at`.
Later(b, c, at) ==
    /\ Len(b.fills) <= Len(c.fills)
    /\ \A i \in Instruments, x \in Int :
           x <= at => HeldAt(c.fills, i, x) = HeldAt(b.fills, i, x)

Share(f, i, x) == IF f.inst = i /\ f.at < x THEN f.qty ELSE 0

LEMMA HeldIs ==
    ASSUME NEW fills \in Seq(Fill), NEW i, NEW x \in Int
    PROVE  /\ HeldAt(fills, i, x) =
                  SumTo([k \in DOMAIN fills |-> Share(fills[k], i, x)], Len(fills))
           /\ \A k \in 1..Len(fills) :
                  [j \in DOMAIN fills |-> Share(fills[j], i, x)][k] = Share(fills[k], i, x)
           /\ HeldAt(fills, i, x) \in Int
           /\ \A f \in Fill : Share(f, i, x) \in Int
<1>1. HeldAt(fills, i, x) = SumTo([k \in DOMAIN fills |-> Share(fills[k], i, x)], Len(fills))
  BY Zenon DEF HeldAt, Share
<1>2. \A f \in Fill : Share(f, i, x) \in Int
  BY DEF Share, Fill
<1>3. \A k \in 1..Len(fills) : fills[k] \in Fill
  OBVIOUS
<1>4. \A k \in 1..Len(fills) :
         [j \in DOMAIN fills |-> Share(fills[j], i, x)][k] = Share(fills[k], i, x)
  OBVIOUS
<1>5. SumTo([k \in DOMAIN fills |-> Share(fills[k], i, x)], Len(fills)) \in Int
  BY <1>2, <1>3, <1>4, SumType
<1>6. QED
  BY <1>1, <1>2, <1>4, <1>5

LEMMA HeldInsert ==
    ASSUME NEW fills \in Seq(Fill), NEW f \in Fill, NEW k \in 1..(Len(fills) + 1),
           NEW i, NEW x \in Int
    PROVE  HeldAt(InsertAt(fills, k, f), i, x) = HeldAt(fills, i, x) + Share(f, i, x)
<1>1. PICK n \in Nat : n = Len(fills)
  OBVIOUS
<1>2. PICK more \in Seq(Fill) :
        /\ more = InsertAt(fills, k, f)
        /\ Len(more) = Len(fills) + 1
        /\ \A j \in 1..(k - 1) : more[j] = fills[j]
        /\ more[k] = f
        /\ \A j \in (k + 1)..(Len(fills) + 1) : more[j] = fills[j - 1]
  <2>1. InsertAt(fills, k, f) \in Seq(Fill)
    BY InsertFacts
  <2>2. WITNESS InsertAt(fills, k, f) \in Seq(Fill)
  <2>3. QED
    BY InsertFacts
<1>3. more = InsertAt(fills, k, f)
  BY <1>2
<1>4. /\ Len(more) = n + 1
      /\ \A j \in 1..(k - 1) : more[j] = fills[j]
      /\ more[k] = f
      /\ \A j \in (k + 1)..(n + 1) : more[j] = fills[j - 1]
  BY <1>1, <1>2
<1>5. PICK a : a = [j \in DOMAIN fills |-> Share(fills[j], i, x)]
  OBVIOUS
<1>6. PICK c : c = [j \in DOMAIN more |-> Share(more[j], i, x)]
  OBVIOUS
<1>7. \A j \in 1..n : a[j] = Share(fills[j], i, x) /\ fills[j] \in Fill
  BY <1>1, <1>5
<1>8. \A j \in 1..(n + 1) : c[j] = Share(more[j], i, x)
  BY <1>4, <1>6
<1>9. \A j \in 1..n : a[j] \in Int
  BY <1>7, HeldIs
<1>10. c[k] = Share(f, i, x) /\ c[k] \in Int
  BY <1>1, <1>4, <1>8, HeldIs
<1>11. \A j \in 1..(k - 1) : c[j] = a[j]
  BY <1>1, <1>4, <1>7, <1>8
<1>12. \A j \in (k + 1)..(n + 1) : c[j] = a[j - 1]
  BY <1>1, <1>4, <1>7, <1>8
<1>13. PICK l \in Nat : l = Len(more) /\ l = n + 1
  BY <1>4
<1>14. Inserted(c, l, a, n, k)
  BY <1>1, <1>9, <1>10, <1>11, <1>12, <1>13 DEF Inserted
<1>15. SumTo(c, l) = SumTo(a, n) + c[k]
  BY <1>14, SumInsert
<1>16. HeldAt(fills, i, x) = SumTo(a, n)
  BY <1>1, <1>5, HeldIs
<1>17. HeldAt(more, i, x) = SumTo(c, l)
  BY <1>6, <1>13, HeldIs
<1>18. QED
  BY <1>2, <1>10, <1>15, <1>16, <1>17

LEMMA PostAgrees ==
    ASSUME NEW b \in Account, Agrees(b), NEW f \in Fill, NEW k \in 1..(Len(b.fills) + 1)
    PROVE  /\ Agrees(Post(b, f, k))
           /\ Later(b, Post(b, f, k), f.at)
           /\ Len(Post(b, f, k).fills) = Len(b.fills) + 1
<1>1. b.fills \in Seq(Fill) /\ b.pos \in [Instruments -> Position]
      /\ b.base \in [Spots -> Int] /\ b.baseLocked \in [Spots -> Nat] /\ b.valid \in BOOLEAN
      /\ f.inst \in Instruments /\ f.qty \in Int /\ f.at \in 0..MaxClock /\ b.cash \in Int
  BY DEF Account, Fill
<1>2. PICK p \in Account : p = Post(b, f, k)
  BY PostIs
<1>3. /\ p.baseLocked = b.baseLocked
      /\ p.fills = InsertAt(b.fills, k, f)
      /\ p.pos = [b.pos EXCEPT ![f.inst] = PostedRow(b, f)]
      /\ f.inst \in Spots =>
             /\ p.base = [b.base EXCEPT ![f.inst] = b.base[f.inst] + f.qty]
             /\ p.valid => b.valid /\ b.base[f.inst] + f.qty >= 0
      /\ f.inst \notin Spots => p.base = b.base /\ p.valid = b.valid
  BY <1>2, PostIs
<1>4. \A i \in Instruments, x \in Int :
          HeldAt(p.fills, i, x) = HeldAt(b.fills, i, x) + Share(f, i, x)
  <2>1. TAKE i \in Instruments, x \in Int
  <2>2. HeldAt(InsertAt(b.fills, k, f), i, x) = HeldAt(b.fills, i, x) + Share(f, i, x)
    BY <1>1, HeldInsert
  <2>3. QED
    BY <1>3, <2>2
<1>5. PostedRow(b, f).qty = b.pos[f.inst].qty + f.qty
  BY PostedRowType
<1>6. \A i \in Instruments : p.pos[i].qty = b.pos[i].qty + IF f.inst = i THEN f.qty ELSE 0
  <2>1. \A i \in Instruments : b.pos[i].qty \in Int
    BY <1>1 DEF Position
  <2>2. QED
    BY <1>1, <1>3, <1>5, <2>1
<1>7. ASSUME ~ Overlap PROVE \A i \in Instruments : p.pos[i].qty = Held(p.fills, i)
  <2>1. MaxClock \in Nat /\ MaxClock + 1 \in Int
    BY ConstantFacts
  <2>2. \A i \in Instruments : Share(f, i, MaxClock + 1) = IF f.inst = i THEN f.qty ELSE 0
    BY <1>1, <2>1 DEF Share
  <2>3. QED
    BY <1>4, <1>6, <1>7, <2>1, <2>2 DEF Held, Agrees
<1>8. ASSUME ~ Overlap PROVE \A i \in Spots : p.base[i] + p.baseLocked[i] = p.pos[i].qty
  <2>1. \A i \in Spots : p.base[i] = b.base[i] + IF f.inst = i THEN f.qty ELSE 0
    BY <1>1, <1>3
  <2>2. TAKE i \in Spots
  <2>3. i \in Instruments
    BY ConstantFacts
  <2>4. b.pos[i].qty \in Int /\ b.base[i] \in Int /\ b.baseLocked[i] \in Int
    BY <1>1, <2>3 DEF Position
  <2>5. b.base[i] + b.baseLocked[i] = b.pos[i].qty
    BY <1>8 DEF Agrees
  <2>6. QED
    BY <1>1, <1>3, <1>6, <2>1, <2>3, <2>4, <2>5, SMTT(60)
<1>9. ASSUME p.valid, NEW i \in Spots PROVE p.base[i] >= 0
  <2>1. b.valid
    BY <1>3, <1>9
  <2>2. b.base[i] >= 0
    BY <2>1 DEF Agrees
  <2>3. QED
    BY <1>1, <1>3, <1>9, <2>2
<1>10. Agrees(p)
  BY <1>7, <1>8, <1>9 DEF Agrees
<1>11. Len(p.fills) = Len(b.fills) + 1
  BY <1>1, <1>3, InsertFacts
<1>12. \A i \in Instruments, x \in Int :
           x <= f.at => HeldAt(p.fills, i, x) = HeldAt(b.fills, i, x)
  <2>1. \A i \in Instruments, x \in Int : x <= f.at => Share(f, i, x) = 0
    BY <1>1 DEF Share
  <2>2. \A i \in Instruments, x \in Int : HeldAt(b.fills, i, x) \in Int
    BY <1>1, HeldIs
  <2>3. QED
    BY <1>4, <2>1, <2>2
<1>13. Later(b, p, f.at)
  BY <1>1, <1>11, <1>12 DEF Later
<1>14. QED
  BY <1>2, <1>10, <1>11, <1>13

-----------------------------------------------------------------------------
(***************************************************************************)
(* Funds are locked and released.                                          *)
(***************************************************************************)

\* All but the cash, free and locked, is the same.
AllButCash(b, c) ==
    /\ c.valid = b.valid /\ c.base = b.base /\ c.baseLocked = b.baseLocked
    /\ c.pos = b.pos /\ c.fills = b.fills /\ c.ledger = b.ledger
    /\ c.funding = b.funding /\ c.fundingCash = b.fundingCash

\* All but the cash and the balance rows is the same; what is locked and what
\* is free add up to the same.
OnlyMoved(b, c) ==
    /\ c.pos = b.pos /\ c.fills = b.fills /\ c.ledger = b.ledger
    /\ c.funding = b.funding /\ c.fundingCash = b.fundingCash
    /\ c.cash + c.locked = b.cash + b.locked
    /\ \A i \in Spots : c.base[i] + c.baseLocked[i] = b.base[i] + b.baseLocked[i]

WithCash(b, c, l) == [b EXCEPT !.cash = c, !.locked = l]

LEMMA CashSet ==
    ASSUME NEW b \in Account, NEW c \in Int, NEW l \in Nat
    PROVE  /\ WithCash(b, c, l) \in Account /\ AllButCash(b, WithCash(b, c, l))
           /\ WithCash(b, c, l).cash = c /\ WithCash(b, c, l).locked = l
<1>1. PICK x : x = WithCash(b, c, l)
  OBVIOUS
<1>2. x \in Account
  <2>1. [b EXCEPT !.cash = c, !.locked = l] \in Account
    BY Zenon DEF Account
  <2>2. QED
    BY <1>1, <2>1 DEF WithCash
<1>3. x.cash = c /\ x.locked = l
  BY <1>1 DEF Account, WithCash
<1>4. AllButCash(b, x)
  BY <1>1 DEF Account, AllButCash, WithCash
<1>5. QED
  BY <1>1, <1>2, <1>3, <1>4

LEMMA AllButCashAgrees ==
    ASSUME NEW b \in Account, Agrees(b), NEW c \in Account, AllButCash(b, c)
    PROVE  Agrees(c)
BY DEF AllButCash, Agrees

LEMMA LockCashIs ==
    ASSUME NEW b \in Account, NEW amount \in Int, b.locked + amount >= 0
    PROVE  LET c == LockCash(b, amount)
           IN  /\ c \in Account /\ OnlyMoved(b, c)
               /\ c.locked = b.locked + amount /\ c.cash = b.cash - amount
               /\ c.base = b.base /\ c.baseLocked = b.baseLocked
               /\ c.valid <=> b.valid /\ b.cash >= amount
<1>1. b.cash \in Int /\ b.locked \in Nat /\ b.base \in [Spots -> Int]
      /\ b.baseLocked \in [Spots -> Nat] /\ b.valid \in BOOLEAN
  BY DEF Account
<1>2. PICK cash \in Int : cash = b.cash - amount
  BY <1>1
<1>3. PICK locked \in Nat : locked = b.locked + amount
  BY <1>1
<1>4. PICK v \in BOOLEAN : v <=> b.valid /\ b.cash >= amount
  OBVIOUS
<1>5. PICK c : c = [b EXCEPT !.cash = cash, !.locked = locked, !.quote = cash, !.valid = v]
  OBVIOUS
<1>6. LockCash(b, amount) = c
  <2>1. LockCash(b, amount) =
          [b EXCEPT !.cash = b.cash - amount, !.locked = b.locked + amount,
              !.quote = b.cash - amount, !.valid = b.valid /\ b.cash >= amount]
    BY Zenon DEF LockCash
  <2>2. QED
    BY <1>1, <1>2, <1>3, <1>4, <1>5, <2>1
<1>7. c \in Account
  <2>1. [b EXCEPT !.cash = cash, !.locked = locked, !.quote = cash, !.valid = v] \in Account
    BY Zenon DEF Account
  <2>2. QED
    BY <1>5, <2>1
<1>8. /\ c.pos = b.pos /\ c.fills = b.fills /\ c.ledger = b.ledger
      /\ c.funding = b.funding /\ c.fundingCash = b.fundingCash
      /\ c.base = b.base /\ c.baseLocked = b.baseLocked
      /\ c.cash = cash /\ c.locked = locked /\ c.valid = v
  BY <1>5 DEF Account
<1>9. OnlyMoved(b, c)
  BY <1>1, <1>2, <1>3, <1>8 DEF OnlyMoved
<1>10. QED
  BY <1>2, <1>3, <1>4, <1>6, <1>7, <1>8, <1>9

LEMMA LockBaseIs ==
    ASSUME NEW b \in Account, NEW i \in Spots, NEW amount \in Int,
           b.baseLocked[i] + amount >= 0
    PROVE  LET c == LockBase(b, i, amount)
           IN  /\ c \in Account /\ OnlyMoved(b, c)
               /\ c.locked = b.locked /\ c.cash = b.cash /\ c.valid = b.valid
               /\ c.base = [b.base EXCEPT ![i] = b.base[i] - amount]
               /\ c.baseLocked = [b.baseLocked EXCEPT ![i] = b.baseLocked[i] + amount]
<1>1. b.cash \in Int /\ b.locked \in Nat /\ b.base \in [Spots -> Int]
      /\ b.baseLocked \in [Spots -> Nat]
  BY DEF Account
<1>2. PICK free \in Int : free = b.base[i] - amount
  BY <1>1
<1>3. PICK held \in Nat : held = b.baseLocked[i] + amount
  BY <1>1
<1>4. PICK base \in [Spots -> Int] : base = [b.base EXCEPT ![i] = free]
  BY <1>1
<1>5. PICK locked \in [Spots -> Nat] : locked = [b.baseLocked EXCEPT ![i] = held]
  BY <1>1
<1>6. PICK c : c = [b EXCEPT !.base = base, !.baseLocked = locked]
  OBVIOUS
<1>7. LockBase(b, i, amount) = c
  <2>1. LockBase(b, i, amount) =
          [b EXCEPT !.base = [b.base EXCEPT ![i] = b.base[i] - amount],
              !.baseLocked = [b.baseLocked EXCEPT ![i] = b.baseLocked[i] + amount]]
    BY DEF LockBase, Account
  <2>2. QED
    BY <1>2, <1>3, <1>4, <1>5, <1>6, <2>1
<1>8. c \in Account
  <2>1. [b EXCEPT !.base = base, !.baseLocked = locked] \in Account
    BY Zenon DEF Account
  <2>2. QED
    BY <1>6, <2>1
<1>9. /\ c.pos = b.pos /\ c.fills = b.fills /\ c.ledger = b.ledger
      /\ c.funding = b.funding /\ c.fundingCash = b.fundingCash
      /\ c.base = base /\ c.baseLocked = locked
      /\ c.cash = b.cash /\ c.locked = b.locked /\ c.valid = b.valid
  BY <1>6 DEF Account
<1>10. \A j \in Spots : base[j] + locked[j] = b.base[j] + b.baseLocked[j]
  BY <1>1, <1>2, <1>3, <1>4, <1>5
<1>11. OnlyMoved(b, c)
  BY <1>9, <1>10 DEF OnlyMoved
<1>12. QED
  BY <1>2, <1>3, <1>4, <1>5, <1>7, <1>8, <1>9, <1>11

LEMMA NatProduct == ASSUME NEW m \in Nat, NEW n \in Nat PROVE m * n \in Nat
OBVIOUS

LEMMA ReservedType == ASSUME NEW o \in Order PROVE Reserved(o) \in Nat
<1>1. o.qty \in Nat /\ o.limit \in Nat
  BY ConstantFacts DEF Order
<1>2. PICK unit \in Nat : unit = IF o.inst \in Spots THEN Unit + MakerFee ELSE Unit
  BY ConstantFacts
<1>3. o.qty * o.limit \in Nat
  BY <1>1, NatProduct
<1>4. o.qty * o.limit * unit \in Nat
  BY <1>3, NatProduct
<1>5. QED
  BY <1>2, <1>4 DEF Reserved

\* What Unlock and Lock leave in the books.
LEMMA UnlockIs ==
    ASSUME NEW b \in Account, NEW o \in Order
    PROVE  LET c == Unlock(b, o)
               cash == AtMost(b.locked, Reserved(o))
               asset == AtMost(b.baseLocked[o.inst], o.qty)
           IN  /\ c \in Account /\ OnlyMoved(b, c)
               /\ c.valid => b.valid
               /\ b.cash >= 0 => c.valid = b.valid
               /\ \A i \in Spots : c.base[i] >= b.base[i]
               /\ Sells(o) =>
                      /\ c.locked = b.locked /\ c.cash = b.cash
                      /\ c.baseLocked = [b.baseLocked EXCEPT ![o.inst] = b.baseLocked[o.inst] - asset]
               /\ ~ Sells(o) =>
                      /\ c.locked = b.locked - cash /\ c.cash = b.cash + cash
                      /\ c.baseLocked = b.baseLocked /\ c.base = b.base
<1>1. b.cash \in Int /\ b.locked \in Nat /\ b.base \in [Spots -> Int]
      /\ b.baseLocked \in [Spots -> Nat] /\ b.valid \in BOOLEAN /\ o.qty \in Nat
  BY DEF Account, Order
<1>2. CASE Sells(o)
  <2>1. o.inst \in Spots
    BY <1>2 DEF Sells
  <2>2. PICK amount \in Nat : amount = AtMost(b.baseLocked[o.inst], o.qty)
    BY <1>1, <2>1 DEF AtMost
  <2>3. amount <= b.baseLocked[o.inst]
    BY <1>1, <2>1, <2>2 DEF AtMost
  <2>4. PICK less \in Int : less = -amount
    OBVIOUS
  <2>5. b.baseLocked[o.inst] + less >= 0
    BY <1>1, <2>1, <2>3, <2>4
  <2>6. Unlock(b, o) = LockBase(b, o.inst, less)
    BY <1>2, <2>2, <2>4 DEF Unlock
  <2>7. PICK c : c = LockBase(b, o.inst, less)
    OBVIOUS
  <2>8. /\ c \in Account /\ OnlyMoved(b, c)
        /\ c.locked = b.locked /\ c.cash = b.cash /\ c.valid = b.valid
        /\ c.base = [b.base EXCEPT ![o.inst] = b.base[o.inst] - less]
        /\ c.baseLocked = [b.baseLocked EXCEPT ![o.inst] = b.baseLocked[o.inst] + less]
    BY <2>1, <2>5, <2>7, LockBaseIs
  <2>9. \A i \in Spots : c.base[i] >= b.base[i]
    BY <1>1, <2>4, <2>8
  <2>10. b.baseLocked[o.inst] + less = b.baseLocked[o.inst] - amount
    BY <1>1, <2>1, <2>4
  <2>11. QED
    BY <1>2, <2>2, <2>6, <2>7, <2>8, <2>9, <2>10
<1>3. CASE ~ Sells(o)
  <2>1. PICK amount \in Nat : amount = AtMost(b.locked, Reserved(o))
    BY <1>1, ReservedType DEF AtMost
  <2>2. amount <= b.locked
    BY <1>1, ReservedType, <2>1 DEF AtMost
  <2>3. PICK less \in Int : less = -amount
    OBVIOUS
  <2>4. b.locked + less >= 0
    BY <1>1, <2>2, <2>3
  <2>5. Unlock(b, o) = LockCash(b, less)
    BY <1>3, <2>1, <2>3 DEF Unlock
  <2>6. PICK c : c = LockCash(b, less)
    OBVIOUS
  <2>7. /\ c \in Account /\ OnlyMoved(b, c)
        /\ c.locked = b.locked + less /\ c.cash = b.cash - less
        /\ c.base = b.base /\ c.baseLocked = b.baseLocked
        /\ c.valid <=> b.valid /\ b.cash >= less
    BY <2>4, <2>6, LockCashIs
  <2>8. c.locked = b.locked - amount /\ c.cash = b.cash + amount
    BY <1>1, <2>3, <2>7
  <2>9. b.cash >= 0 => b.cash >= less
    BY <1>1, <2>3
  <2>10. c.valid \in BOOLEAN
    BY <2>7 DEF Account
  <2>11. \A i \in Spots : c.base[i] >= b.base[i]
    BY <1>1, <2>7
  <2>12. QED
    BY <1>1, <1>3, <2>1, <2>5, <2>6, <2>7, <2>8, <2>9, <2>10, <2>11
<1>4. QED
  BY <1>2, <1>3

LEMMA UnlockAgrees ==
    ASSUME NEW b \in Account, Agrees(b), NEW o \in Order
    PROVE  Agrees(Unlock(b, o))
<1>1. PICK c : c = Unlock(b, o)
  OBVIOUS
<1>2. /\ c \in Account /\ OnlyMoved(b, c)
      /\ c.valid => b.valid
      /\ \A i \in Spots : c.base[i] >= b.base[i]
  BY <1>1, UnlockIs
<1>3. b.base \in [Spots -> Int] /\ c.base \in [Spots -> Int]
  BY <1>2 DEF Account
<1>4. c.valid => \A i \in Spots : c.base[i] >= 0
  BY <1>2, <1>3 DEF Agrees
<1>5. Agrees(c)
  BY <1>2, <1>4 DEF Agrees, OnlyMoved
<1>6. QED
  BY <1>1, <1>5

LEMMA LockIs ==
    ASSUME NEW b \in Account, NEW o \in Order, Lockable(b, o)
    PROVE  LET c == Lock(b, o)
           IN  /\ c \in Account /\ OnlyMoved(b, c) /\ c.valid = b.valid
               /\ Sells(o) =>
                      /\ c.locked = b.locked /\ c.cash = b.cash
                      /\ c.base = [b.base EXCEPT ![o.inst] = b.base[o.inst] - o.qty]
                      /\ c.baseLocked = [b.baseLocked EXCEPT ![o.inst] = b.baseLocked[o.inst] + o.qty]
               /\ ~ Sells(o) =>
                      /\ c.locked = b.locked + Reserved(o) /\ c.cash = b.cash - Reserved(o)
                      /\ c.baseLocked = b.baseLocked /\ c.base = b.base
<1>1. b.cash \in Int /\ b.locked \in Nat /\ b.base \in [Spots -> Int]
      /\ b.baseLocked \in [Spots -> Nat] /\ b.valid \in BOOLEAN /\ o.qty \in Nat
  BY DEF Account, Order
<1>2. CASE Sells(o)
  <2>1. o.inst \in Spots
    BY <1>2 DEF Sells
  <2>2. b.baseLocked[o.inst] + o.qty >= 0
    BY <1>1, <2>1
  <2>3. Lock(b, o) = LockBase(b, o.inst, o.qty)
    BY <1>2 DEF Lock
  <2>4. QED
    BY <1>1, <1>2, <2>1, <2>2, <2>3, LockBaseIs
<1>3. CASE ~ Sells(o)
  <2>1. PICK amount \in Nat : amount = Reserved(o)
    BY ReservedType
  <2>2. b.locked + amount >= 0 /\ b.cash >= amount
    BY <1>1, <1>3, <2>1 DEF Lockable
  <2>3. Lock(b, o) = LockCash(b, amount)
    BY <1>3, <2>1 DEF Lock
  <2>4. PICK c : c = LockCash(b, amount)
    OBVIOUS
  <2>5. /\ c \in Account /\ OnlyMoved(b, c)
        /\ c.locked = b.locked + amount /\ c.cash = b.cash - amount
        /\ c.base = b.base /\ c.baseLocked = b.baseLocked
        /\ c.valid <=> b.valid /\ b.cash >= amount
    BY <2>2, <2>4, LockCashIs
  <2>6. c.valid = b.valid
    BY <1>1, <2>2, <2>5 DEF Account
  <2>7. QED
    BY <1>3, <2>1, <2>3, <2>4, <2>5, <2>6
<1>4. QED
  BY <1>2, <1>3

LEMMA LockAgrees ==
    ASSUME NEW b \in Account, Agrees(b), NEW o \in Order, Lockable(b, o)
    PROVE  Agrees(Lock(b, o))
<1>1. PICK c : c = Lock(b, o)
  OBVIOUS
<1>2. c \in Account /\ OnlyMoved(b, c) /\ c.valid = b.valid
  BY <1>1, LockIs
<1>3. b.base \in [Spots -> Int] /\ o.qty \in Nat
  BY DEF Account, Order
<1>4. ASSUME c.valid, NEW i \in Spots PROVE c.base[i] >= 0
  <2>1. b.base[i] >= 0
    BY <1>2, <1>4 DEF Agrees
  <2>2. CASE Sells(o)
    <3>1. b.base[o.inst] >= o.qty
      BY <2>2 DEF Lockable
    <3>2. c.base = [b.base EXCEPT ![o.inst] = b.base[o.inst] - o.qty]
      BY <1>1, <2>2, LockIs
    <3>3. QED
      BY <1>3, <2>1, <3>1, <3>2
  <2>3. CASE ~ Sells(o)
    BY <1>1, <2>1, <2>3, LockIs
  <2>4. QED
    BY <2>2, <2>3
<1>5. Agrees(c)
  BY <1>2, <1>4 DEF Agrees, OnlyMoved
<1>6. QED
  BY <1>1, <1>5

-----------------------------------------------------------------------------
(***************************************************************************)
(* From the books b to the books c, by fills and locks alone.              *)
(***************************************************************************)

\* Cash that no ledger event explains.
Excess(b) == b.cash + b.locked - b.ledger

Follows(b, c, at) ==
    /\ c \in Account /\ Agrees(c)
    /\ c.valid => b.valid
    /\ Later(b, c, at)
    /\ c.funding = b.funding /\ c.fundingCash = b.fundingCash
    /\ Excess(c) = Excess(b)

LEMMA SameFills ==
    ASSUME NEW b \in Account, NEW c, c.fills = b.fills, NEW at
    PROVE  Later(b, c, at)
BY DEF Later, Account

LEMMA FollowsItself ==
    ASSUME NEW b \in Account, Agrees(b), NEW at \in Int
    PROVE  Follows(b, b, at)
BY SameFills DEF Follows

LEMMA FollowsOn ==
    ASSUME NEW b \in Account, NEW c \in Account, NEW d, NEW at \in Int,
           Follows(b, c, at), Follows(c, d, at)
    PROVE  Follows(b, d, at)
<1>1. Len(b.fills) \in Nat /\ Len(c.fills) \in Nat /\ Len(d.fills) \in Nat
  BY SMTT(60) DEF Follows, Account
<1>2. Later(b, d, at)
  BY <1>1 DEF Follows, Later
<1>3. QED
  BY <1>2 DEF Follows

LEMMA PostFollows ==
    ASSUME NEW b \in Account, Agrees(b), NEW f \in Fill, NEW k \in 1..(Len(b.fills) + 1)
    PROVE  Follows(b, Post(b, f, k), f.at)
<1>1. PICK c : c = Post(b, f, k)
  OBVIOUS
<1>2. PICK d \in Int : d = CashOf(f, b.pos)
  BY CashOfType DEF Account
<1>3. c \in Account /\ c.cash = b.cash + d /\ c.ledger = b.ledger + d /\ c.locked = b.locked
      /\ c.funding = b.funding /\ c.fundingCash = b.fundingCash
  BY <1>1, <1>2, PostIs, ZenonT(60)
<1>4. c.valid => b.valid
  <2>1. CASE f.inst \in Spots
    BY <1>1, <2>1, PostIs
  <2>2. CASE f.inst \notin Spots
    <3>1. c.valid = b.valid
      BY <1>1, <2>2, PostIs
    <3>2. QED
      BY <3>1
  <2>3. QED
    BY <2>1, <2>2
<1>5. b.cash \in Int /\ b.ledger \in Int /\ b.locked \in Int
  BY DEF Account
<1>6. Excess(c) = Excess(b)
  BY <1>3, <1>5 DEF Excess
<1>7. Agrees(c) /\ Later(b, c, f.at)
  BY <1>1, PostAgrees
<1>8. QED
  BY <1>1, <1>3, <1>4, <1>6, <1>7 DEF Follows

LEMMA UnlockFollows ==
    ASSUME NEW b \in Account, Agrees(b), NEW o \in Order, NEW at \in Int
    PROVE  Follows(b, Unlock(b, o), at)
<1>1. PICK c : c = Unlock(b, o)
  OBVIOUS
<1>2. c \in Account /\ OnlyMoved(b, c) /\ (c.valid => b.valid)
  BY <1>1, UnlockIs
<1>3. Agrees(c)
  BY <1>1, UnlockAgrees
<1>4. Excess(c) = Excess(b)
  <2>1. c.cash + c.locked = b.cash + b.locked /\ c.ledger = b.ledger
    BY <1>2 DEF OnlyMoved
  <2>2. c.cash \in Int /\ c.locked \in Int /\ b.cash \in Int /\ b.locked \in Int /\ b.ledger \in Int
    BY <1>2 DEF Account
  <2>3. QED
    BY <2>1, <2>2 DEF Excess
<1>5. Later(b, c, at)
  BY <1>2, SameFills DEF OnlyMoved
<1>6. QED
  BY <1>1, <1>2, <1>3, <1>4, <1>5 DEF Follows, OnlyMoved

LEMMA LockFollows ==
    ASSUME NEW b \in Account, Agrees(b), NEW o \in Order, Lockable(b, o), NEW at \in Int
    PROVE  Follows(b, Lock(b, o), at)
<1>1. PICK c : c = Lock(b, o)
  OBVIOUS
<1>2. c \in Account /\ OnlyMoved(b, c) /\ c.valid = b.valid
  BY <1>1, LockIs
<1>3. Agrees(c)
  BY <1>1, LockAgrees
<1>4. Excess(c) = Excess(b)
  <2>1. c.cash + c.locked = b.cash + b.locked /\ c.ledger = b.ledger
    BY <1>2 DEF OnlyMoved
  <2>2. c.cash \in Int /\ c.locked \in Int /\ b.cash \in Int /\ b.locked \in Int /\ b.ledger \in Int
    BY <1>2 DEF Account
  <2>3. QED
    BY <2>1, <2>2 DEF Excess
<1>5. Later(b, c, at)
  BY <1>2, SameFills DEF OnlyMoved
<1>6. QED
  BY <1>1, <1>2, <1>3, <1>4, <1>5 DEF Follows, OnlyMoved

LEMMA PlaceLast ==
    ASSUME NEW b \in Account
    PROVE  Len(b.fills) \in Nat /\ Len(b.fills) + 1 \in 1..(Len(b.fills) + 1)
BY DEF Account

LEMMA SignedType == ASSUME NEW o \in Order PROVE Signed(o) \in Int
BY DEF Signed, Order

LEMMA FilledFollows ==
    ASSUME NEW b \in Account, Agrees(b), NEW o \in Order, NEW p \in Prices, clock \in 0..MaxClock
    PROVE  Follows(b, FilledAt(b, o, p), clock)
<1>1. PICK c : c = Unlock(b, o)
  OBVIOUS
<1>2. clock \in Int
  BY ConstantFacts
<1>3. Follows(b, c, clock)
  BY <1>1, <1>2, UnlockFollows
<1>4. c \in Account /\ Agrees(c)
  BY <1>3 DEF Follows
<1>5. PICK f \in Fill : f = FillOf(o.inst, Signed(o), p, MakerFee, clock) /\ f.at = clock
  <2>1. o.inst \in Instruments /\ MakerFee \in Int
    BY ConstantFacts DEF Order
  <2>2. FillOf(o.inst, Signed(o), p, MakerFee, clock) \in Fill
    BY <2>1, SignedType, FillOfType
  <2>3. FillOf(o.inst, Signed(o), p, MakerFee, clock).at = clock
    BY DEF FillOf
  <2>4. QED
    BY <2>2, <2>3
<1>6. FilledAt(b, o, p) = Post(c, f, Len(c.fills) + 1)
  BY <1>1, <1>5, Zenon DEF FilledAt, PostLast
<1>7. Follows(c, FilledAt(b, o, p), clock)
  BY <1>4, <1>5, <1>6, PlaceLast, PostFollows
<1>8. QED
  BY <1>2, <1>3, <1>4, <1>7, FollowsOn

-----------------------------------------------------------------------------
(***************************************************************************)
(* A session reads its copy of the cash and writes it back.                *)
(***************************************************************************)

\* The rows of an instrument that a session has read; none stay read while
\* sessions do not overlap.
Row == [pos : Position, base : Nat, baseLocked : Nat]
Readings == UNION {[S -> Row] : S \in SUBSET Instruments}
Copy == {c \in [open : BOOLEAN, cash : Int, locked : Nat, rows : Readings] :
            Overlap \/ DOMAIN c.rows = {}}

\* The account's rows are of their kinds and agree with each other.
BooksOK == books \in Account /\ books.valid /\ Agrees(books)

LEMMA RowsOfType == ASSUME BooksOK, NEW i \in Instruments PROVE RowsOf(i) \in Row
<1>1. books.pos[i] \in Position
  BY DEF BooksOK, Account
<1>2. \A j \in Spots : books.base[j] \in Nat /\ books.baseLocked[j] \in Nat
  BY DEF BooksOK, Account, Agrees
<1>3. QED
  BY <1>1, <1>2 DEF RowsOf, Row

LEMMA RowsAre ==
    ASSUME BooksOK, NEW s, copy[s] \in Copy, NEW i \in Instruments
    PROVE  Rows(s, i) \in Row /\ (~ Overlap => Rows(s, i) = RowsOf(i))
<1>1. copy[s].rows \in Readings /\ (~ Overlap => i \notin DOMAIN copy[s].rows)
  BY DEF Copy
<1>2. PICK S \in SUBSET Instruments : copy[s].rows \in [S -> Row]
  BY <1>1 DEF Readings
<1>3. QED
  BY <1>1, <1>2, RowsOfType DEF Rows

\* A copy with the rows of one instrument more.
LEMMA MoreRead ==
    ASSUME BooksOK, Overlap, NEW c \in Copy, NEW i \in Instruments
    PROVE  LET d == [c EXCEPT !.rows =
                        [j \in DOMAIN @ \cup {i} |-> IF j = i THEN RowsOf(i) ELSE @[j]]]
           IN  d \in Copy /\ d.open = c.open
<1>1. c.rows \in Readings
  BY DEF Copy
<1>2. PICK S \in SUBSET Instruments : c.rows \in [S -> Row]
  BY <1>1 DEF Readings
<1>3. PICK r : r = [j \in DOMAIN c.rows \cup {i} |-> IF j = i THEN RowsOf(i) ELSE c.rows[j]]
  OBVIOUS
<1>4. r \in [S \cup {i} -> Row] /\ S \cup {i} \in SUBSET Instruments
  BY <1>2, <1>3, RowsOfType
<1>5. r \in Readings
  BY <1>4 DEF Readings
<1>6. [c EXCEPT !.rows = r] \in Copy /\ [c EXCEPT !.rows = r].open = c.open
  BY <1>5 DEF Copy
<1>7. QED
  BY <1>3, <1>6

\* What a session sees.
LEMMA SeenIs ==
    ASSUME BooksOK, NEW s, copy[s] \in Copy
    PROVE  /\ Seen(s) \in Account /\ Agrees(Seen(s))
           /\ Seen(s).cash = copy[s].cash /\ Seen(s).locked = copy[s].locked
           /\ Seen(s).valid /\ Seen(s).fills = books.fills /\ Seen(s).ledger = books.ledger
           /\ Seen(s).funding = books.funding /\ Seen(s).fundingCash = books.fundingCash
           /\ ~ Overlap => AllButCash(books, Seen(s))
<1>1. PICK c \in Int, l \in Nat : c = copy[s].cash /\ l = copy[s].locked
  BY DEF Copy
<1>2. PICK pos \in [Instruments -> Position] : pos = [i \in Instruments |-> Rows(s, i).pos]
  BY RowsAre DEF Row
<1>3. \A i \in Spots : /\ Rows(s, i).base \in Nat /\ Rows(s, i).baseLocked \in Nat
                       /\ ~ Overlap => Rows(s, i) = RowsOf(i)
  <2>1. \A i \in Spots : Rows(s, i) \in Row /\ (~ Overlap => Rows(s, i) = RowsOf(i))
    BY RowsAre, ConstantFacts
  <2>2. QED
    BY <2>1 DEF Row
<1>4. PICK base \in [Spots -> Nat] : base = [i \in Spots |-> Rows(s, i).base]
  BY <1>3
<1>5. PICK held \in [Spots -> Nat] : held = [i \in Spots |-> Rows(s, i).baseLocked]
  BY <1>3
<1>6. PICK b \in Account : b = books /\ b.valid /\ Agrees(b)
  BY DEF BooksOK
<1>7. PICK x : x = [b EXCEPT !.cash = c, !.locked = l, !.pos = pos, !.base = base,
                             !.baseLocked = held]
  OBVIOUS
<1>8. Seen(s) = x
  BY <1>1, <1>2, <1>4, <1>5, <1>6, <1>7, Zenon DEF Seen
<1>9. x \in Account
  <2>1. base \in [Spots -> Int]
    OBVIOUS
  <2>2. [b EXCEPT !.cash = c, !.locked = l, !.pos = pos, !.base = base,
                  !.baseLocked = held] \in Account
    BY <2>1, Zenon DEF Account
  <2>3. QED
    BY <1>7, <2>2
<1>10. /\ x.cash = c /\ x.locked = l /\ x.pos = pos /\ x.base = base /\ x.baseLocked = held
       /\ x.valid = b.valid /\ x.fills = b.fills /\ x.ledger = b.ledger
       /\ x.funding = b.funding /\ x.fundingCash = b.fundingCash
  BY <1>7 DEF Account
<1>11. ASSUME ~ Overlap PROVE pos = b.pos /\ base = b.base /\ held = b.baseLocked
  <2>1. /\ b.pos = [i \in Instruments |-> b.pos[i]] /\ b.base = [i \in Spots |-> b.base[i]]
        /\ b.baseLocked = [i \in Spots |-> b.baseLocked[i]]
    BY DEF Account
  <2>2. \A i \in Instruments : Rows(s, i).pos = b.pos[i]
    BY <1>6, <1>11, RowsAre DEF RowsOf
  <2>3. \A i \in Spots : Rows(s, i).base = b.base[i] /\ Rows(s, i).baseLocked = b.baseLocked[i]
    BY <1>3, <1>6, <1>11 DEF RowsOf
  <2>4. QED
    BY <1>2, <1>4, <1>5, <2>1, <2>2, <2>3
<1>12. ~ Overlap => AllButCash(b, x)
  BY <1>10, <1>11 DEF AllButCash
<1>13. Agrees(x)
  <2>1. \A i \in Spots : x.base[i] >= 0
    BY <1>10
  <2>2. CASE ~ Overlap
    BY <1>6, <1>9, <1>12, <2>2, AllButCashAgrees
  <2>3. CASE Overlap
    BY <2>1, <2>3 DEF Agrees
  <2>4. QED
    BY <2>2, <2>3
<1>14. QED
  BY <1>1, <1>6, <1>8, <1>9, <1>10, <1>12, <1>13

\* The task's own position rows are those it sees.
LEMMA OwnIs == ASSUME NEW i \in Instruments PROVE Own(i) = Seen(Task).pos[i]
BY DEF Own, Seen

LEMMA WrittenPosIs ==
    ASSUME NEW old \in Position, NEW new \in Position, NEW now \in Position
    PROVE  /\ WrittenPos(old, new, now) \in Position
           /\ old = now => WrittenPos(old, new, now) = new
BY DEF WrittenPos, Column, Position

\* What the books become when a session commits b.
LEMMA WrittenIs ==
    ASSUME BooksOK, NEW s, copy[s] \in Copy, NEW b \in Account
    PROVE  /\ Written(s, b) \in Account
           /\ b.valid /\ Agrees(b) => Agrees(Written(s, b))
           /\ Written(s, b).cash = Column(copy[s].cash, b.cash, books.cash)
           /\ Written(s, b).locked = Column(copy[s].locked, b.locked, books.locked)
           /\ Written(s, b).valid = b.valid /\ Written(s, b).fills = b.fills
           /\ Written(s, b).ledger = b.ledger /\ Written(s, b).funding = b.funding
           /\ Written(s, b).fundingCash = b.fundingCash
           /\ ~ Overlap => AllButCash(b, Written(s, b))
<1>1. PICK c \in Int : c = Column(copy[s].cash, b.cash, books.cash)
  BY DEF Account, Column, BooksOK
<1>2. PICK l \in Nat : l = Column(copy[s].locked, b.locked, books.locked)
  BY DEF Account, Column, BooksOK
<1>3. ASSUME NEW i \in Instruments
      PROVE  /\ WrittenPos(Rows(s, i).pos, b.pos[i], books.pos[i]) \in Position
             /\ ~ Overlap => WrittenPos(Rows(s, i).pos, b.pos[i], books.pos[i]) = b.pos[i]
  <2>1. Rows(s, i).pos \in Position /\ (~ Overlap => Rows(s, i).pos = books.pos[i])
    BY RowsAre DEF Row, RowsOf
  <2>2. b.pos[i] \in Position /\ books.pos[i] \in Position
    BY DEF Account, BooksOK
  <2>3. QED
    BY <2>1, <2>2, WrittenPosIs
<1>4. PICK pos \in [Instruments -> Position] :
          pos = [i \in Instruments |-> WrittenPos(Rows(s, i).pos, b.pos[i], books.pos[i])]
  BY <1>3
<1>5. ASSUME NEW i \in Spots
      PROVE  /\ Column(Rows(s, i).base, b.base[i], books.base[i]) \in Int
             /\ b.valid /\ Agrees(b) => Column(Rows(s, i).base, b.base[i], books.base[i]) >= 0
             /\ Column(Rows(s, i).baseLocked, b.baseLocked[i], books.baseLocked[i]) \in Nat
             /\ ~ Overlap =>
                    /\ Column(Rows(s, i).base, b.base[i], books.base[i]) = b.base[i]
                    /\ Column(Rows(s, i).baseLocked, b.baseLocked[i], books.baseLocked[i])
                           = b.baseLocked[i]
  <2>1. ~ Overlap => /\ Rows(s, i).base = books.base[i]
                     /\ Rows(s, i).baseLocked = books.baseLocked[i]
    BY RowsAre, ConstantFacts DEF RowsOf
  <2>2. /\ b.base[i] \in Int /\ books.base[i] \in Int /\ books.base[i] >= 0
        /\ b.valid /\ Agrees(b) => b.base[i] >= 0
    BY DEF Account, BooksOK, Agrees
  <2>3. b.baseLocked[i] \in Nat /\ books.baseLocked[i] \in Nat
    BY DEF Account, BooksOK
  <2>4. QED
    BY <2>1, <2>2, <2>3 DEF Column
<1>6. PICK base \in [Spots -> Int] :
          base = [i \in Spots |-> Column(Rows(s, i).base, b.base[i], books.base[i])]
  BY <1>5
<1>7. PICK held \in [Spots -> Nat] :
          held = [i \in Spots |->
                     Column(Rows(s, i).baseLocked, b.baseLocked[i], books.baseLocked[i])]
  BY <1>5
<1>8. PICK x : x = [b EXCEPT !.cash = c, !.locked = l, !.pos = pos, !.base = base,
                             !.baseLocked = held]
  OBVIOUS
<1>9. Written(s, b) = x
  <2>1. [b EXCEPT !.cash = Column(copy[s].cash, @, books.cash),
                  !.locked = Column(copy[s].locked, @, books.locked),
                  !.pos = [i \in Instruments |->
                              WrittenPos(Rows(s, i).pos, @[i], books.pos[i])],
                  !.base = [i \in Spots |-> Column(Rows(s, i).base, @[i], books.base[i])],
                  !.baseLocked = [i \in Spots |->
                              Column(Rows(s, i).baseLocked, @[i], books.baseLocked[i])]]
        = [b EXCEPT !.cash = Column(copy[s].cash, b.cash, books.cash),
                  !.locked = Column(copy[s].locked, b.locked, books.locked),
                  !.pos = [i \in Instruments |->
                              WrittenPos(Rows(s, i).pos, b.pos[i], books.pos[i])],
                  !.base = [i \in Spots |-> Column(Rows(s, i).base, b.base[i], books.base[i])],
                  !.baseLocked = [i \in Spots |->
                      Column(Rows(s, i).baseLocked, b.baseLocked[i], books.baseLocked[i])]]
    OBVIOUS
  <2>2. QED
    BY <1>1, <1>2, <1>4, <1>6, <1>7, <1>8, <2>1, Zenon DEF Written
<1>10. x \in Account
  <2>1. [b EXCEPT !.cash = c, !.locked = l, !.pos = pos, !.base = base,
                  !.baseLocked = held] \in Account
    BY Zenon DEF Account
  <2>2. QED
    BY <1>8, <2>1
<1>11. /\ x.cash = c /\ x.locked = l /\ x.pos = pos /\ x.base = base /\ x.baseLocked = held
       /\ x.valid = b.valid /\ x.fills = b.fills /\ x.ledger = b.ledger
       /\ x.funding = b.funding /\ x.fundingCash = b.fundingCash
  BY <1>8 DEF Account
<1>12. ASSUME ~ Overlap PROVE pos = b.pos /\ base = b.base /\ held = b.baseLocked
  <2>1. /\ b.pos = [i \in Instruments |-> b.pos[i]] /\ b.base = [i \in Spots |-> b.base[i]]
        /\ b.baseLocked = [i \in Spots |-> b.baseLocked[i]]
    BY DEF Account
  <2>2. QED
    BY <1>3, <1>4, <1>5, <1>6, <1>7, <1>12, <2>1
<1>13. ~ Overlap => AllButCash(b, x)
  BY <1>11, <1>12 DEF AllButCash
<1>14. ASSUME b.valid, Agrees(b) PROVE Agrees(x)
  <2>1. \A i \in Spots : x.base[i] >= 0
    BY <1>5, <1>6, <1>11, <1>14
  <2>2. CASE ~ Overlap
    BY <1>10, <1>13, <1>14, <2>2, AllButCashAgrees
  <2>3. CASE Overlap
    BY <2>1, <2>3 DEF Agrees
  <2>4. QED
    BY <2>2, <2>3
<1>15. QED
  BY <1>1, <1>2, <1>9, <1>10, <1>11, <1>13, <1>14

LEMMA NothingRead == NoRows \in Readings /\ DOMAIN NoRows = {}
<1>1. DOMAIN NoRows = {} /\ NoRows \in [{} -> Row]
  BY DEF NoRows
<1>2. QED
  BY <1>1 DEF Readings

LEMMA LoadedType ==
    ASSUME NEW b \in Account
    PROVE  Loaded(b) \in Copy /\ Loaded(b).open /\ Loaded(b).cash = b.cash /\ Loaded(b).locked = b.locked
BY NothingRead DEF Account, Loaded, Copy

LEMMA NoCopyType == NoCopy \in Copy /\ ~ NoCopy.open
BY NothingRead DEF NoCopy, Copy

\* What a session that computed b from what it saw leaves in the books.
LEMMA CommitFollows ==
    ASSUME BooksOK, NEW s, copy[s] \in Copy,
           NEW b, NEW at \in Int, Follows(Seen(s), b, at), Commit(s, b)
    PROVE  /\ books' \in Account /\ books'.valid /\ Agrees(books')
           /\ Later(books, books', at) /\ books'.funding = books.funding
           /\ books'.fills = b.fills
<1>1. b \in Account /\ Agrees(b) /\ b.valid
  BY DEF Commit, Follows
<1>2. PICK c : c = Written(s, b)
  OBVIOUS
<1>3. books' = c
  BY <1>2 DEF Commit
<1>4. /\ c \in Account /\ Agrees(c) /\ c.valid = b.valid
      /\ c.fills = b.fills /\ c.funding = b.funding
  BY <1>1, <1>2, WrittenIs
<1>5. PICK d \in Account : /\ d = Seen(s) /\ d.fills = books.fills
                           /\ d.funding = books.funding
  BY SeenIs
<1>6. Later(d, b, at) /\ b.funding = d.funding
  BY <1>5 DEF Follows
<1>7. Later(books, c, at)
  BY <1>4, <1>5, <1>6 DEF Later
<1>8. QED
  BY <1>1, <1>3, <1>4, <1>5, <1>6, <1>7

-----------------------------------------------------------------------------
(***************************************************************************)
(* Recursive functions.                                                    *)
(***************************************************************************)

LEMMA UpTo ==
    ASSUME NEW n \in Nat, NEW T, 0 \in T, \A k \in 1..n : k - 1 \in T => k \in T
    PROVE  \A k \in 0..n : k \in T
<1> DEFINE U == {k \in Nat : k <= n /\ k \notin T}
<1>1. SUFFICES ASSUME U # {} PROVE FALSE
  OBVIOUS
<1>2. PICK m \in U : \A k \in U : m <= k
  BY <1>1, Least
<1>3. m # 0 /\ m - 1 \in Nat /\ m - 1 \notin U
  BY <1>2
<1>4. m - 1 \in T /\ m \in 1..n
  BY <1>2, <1>3
<1>5. QED
  BY <1>2, <1>4

Maps(step, n, S) == step \in [(1..n) \X S -> S]

Recurs(g, n, S, x, step) ==
    /\ g \in [0..n -> S]
    /\ g[0] = x
    /\ \A k \in 1..n : g[k] = step[<<k, g[k - 1]>>]

\* A function may be defined from its values below.
LEMMA Recursion ==
    ASSUME NEW n \in Nat, NEW S, NEW x \in S, NEW step, Maps(step, n, S)
    PROVE  \E g : Recurs(g, n, S, x, step)
<1> DEFINE T == {m \in 0..n : \E g : Recurs(g, m, S, x, step)}
<1>1. 0 \in T
  <2>1. PICK g : g = [k \in 0..0 |-> x]
    OBVIOUS
  <2>2. Recurs(g, 0, S, x, step)
    BY <2>1 DEF Recurs
  <2>3. QED
    BY <2>2
<1>2. ASSUME NEW m \in 1..n, m - 1 \in T PROVE m \in T
  <2>1. PICK g : Recurs(g, m - 1, S, x, step)
    BY <1>2
  <2>2. <<m, g[m - 1]>> \in (1..n) \X S
    BY <2>1 DEF Recurs
  <2>3. PICK y \in S : y = step[<<m, g[m - 1]>>]
    BY <2>2 DEF Maps
  <2>4. PICK h : h = [k \in 0..m |-> IF k = m THEN y ELSE g[k]]
    OBVIOUS
  <2>5. h[m] = y /\ \A k \in 0..(m - 1) : h[k] = g[k]
    BY <2>4
  <2>6. h \in [0..m -> S] /\ h[0] = x
    BY <2>1, <2>4 DEF Recurs
  <2>7. ASSUME NEW k \in 1..m PROVE h[k] = step[<<k, h[k - 1]>>]
    <3>1. h[k - 1] = g[k - 1]
      BY <2>5
    <3>2. CASE k = m
      BY <2>3, <2>5, <3>1, <3>2
    <3>3. CASE k # m
      <4>1. k \in 1..(m - 1)
        BY <3>3
      <4>2. g[k] = step[<<k, g[k - 1]>>]
        BY <2>1, <4>1 DEF Recurs
      <4>3. QED
        BY <2>5, <3>1, <4>1, <4>2
    <3>4. QED
      BY <3>2, <3>3
  <2>8. Recurs(h, m, S, x, step)
    BY <2>6, <2>7 DEF Recurs
  <2>9. QED
    BY <2>8
<1> HIDE DEF T
<1>3. \A k \in 0..n : k \in T
  BY <1>1, <1>2, UpTo
<1>4. n \in T
  BY <1>3
<1>5. QED
  BY <1>4 DEF T

-----------------------------------------------------------------------------
(***************************************************************************)
(* The fills replayed.                                                     *)
(***************************************************************************)

Start == [i \in Instruments |-> Flat]

ReplayStep(fills, k, pos) ==
    [pos EXCEPT ![fills[k].inst] = Moved(pos[fills[k].inst], fills[k].qty, fills[k].price)]

IsReplay(g, fills) ==
    g = [k \in 0..Len(fills) |-> IF k = 0 THEN Start ELSE ReplayStep(fills, k, g[k - 1])]

PosRows == [Instruments -> Position]

LEMMA StartType == Start \in PosRows
BY DEF Start, Flat, PosRows, Position

LEMMA ReplayStepType ==
    ASSUME NEW fills \in Seq(Fill), NEW k \in 1..Len(fills), NEW pos \in PosRows
    PROVE  ReplayStep(fills, k, pos) \in PosRows
<1>1. fills[k] \in Fill
  OBVIOUS
<1>2. fills[k].inst \in Instruments /\ fills[k].qty \in Int /\ fills[k].price \in Int
  BY <1>1, ConstantFacts DEF Fill
<1>3. pos[fills[k].inst] \in Position
  BY <1>2 DEF PosRows
<1>4. PICK new \in Position : new = Moved(pos[fills[k].inst], fills[k].qty, fills[k].price)
  BY <1>2, <1>3, MovedType
<1>5. ReplayStep(fills, k, pos) = [pos EXCEPT ![fills[k].inst] = new]
  BY <1>4 DEF ReplayStep
<1>6. QED
  BY <1>5 DEF PosRows

LEMMA ReplayIs ==
    ASSUME NEW fills \in Seq(Fill)
    PROVE  /\ Replay(fills)[0] = Start
           /\ \A k \in 1..Len(fills) :
                  Replay(fills)[k] = ReplayStep(fills, k, Replay(fills)[k - 1])
           /\ \A k \in 0..Len(fills) : Replay(fills)[k] \in PosRows
<1>1. PICK n \in Nat : n = Len(fills)
  OBVIOUS
<1> DEFINE st == [c \in (1..n) \X PosRows |-> ReplayStep(fills, c[1], c[2])]
<1>2. PICK step : step = st
  OBVIOUS
<1>3. Maps(step, n, PosRows)
  BY <1>1, <1>2, ReplayStepType DEF Maps
<1>4. PICK g : Recurs(g, n, PosRows, Start, step)
  BY <1>3, StartType, Recursion
<1>5. /\ g = [k \in 0..n |-> g[k]] /\ g[0] = Start
      /\ \A k \in 1..n : g[k] = ReplayStep(fills, k, g[k - 1])
  <2>1. g \in [0..n -> PosRows] /\ g[0] = Start
    BY <1>4 DEF Recurs
  <2>2. ASSUME NEW k \in 1..n PROVE g[k] = ReplayStep(fills, k, g[k - 1])
    <3>1. g[k] = step[<<k, g[k - 1]>>]
      BY <1>4 DEF Recurs
    <3>2. <<k, g[k - 1]>> \in (1..n) \X PosRows
      BY <2>1
    <3>3. QED
      BY <1>2, <3>1, <3>2
  <2>3. QED
    BY <2>1, <2>2
<1>6. IsReplay(g, fills)
  BY <1>1, <1>5 DEF IsReplay
<1>7. PICK r : r = Replay(fills)
  OBVIOUS
<1>8. Replay(fills) = CHOOSE f : IsReplay(f, fills)
  BY Zenon DEF Replay, IsReplay, Start, ReplayStep
<1>9. IsReplay(r, fills)
  BY <1>6, <1>7, <1>8, Zenon
<1>10. r[0] = Start /\ \A k \in 1..n : r[k] = ReplayStep(fills, k, r[k - 1])
  <2>1. \A k \in 0..n : r[k] = IF k = 0 THEN Start ELSE ReplayStep(fills, k, r[k - 1])
    BY <1>1, <1>9 DEF IsReplay
  <2>2. QED
    BY <2>1
<1>11. ASSUME NEW k \in 0..n PROVE r[k] \in PosRows
  <2> DEFINE T == {m \in 0..n : r[m] \in PosRows}
  <2>1. 0 \in T
    BY <1>10, StartType
  <2>2. \A m \in 1..n : m - 1 \in T => m \in T
    BY <1>1, <1>10, ReplayStepType
  <2> HIDE DEF T
  <2>3. \A m \in 0..n : m \in T
    BY <2>1, <2>2, UpTo
  <2>4. QED
    BY <2>3 DEF T
<1>12. QED
  BY <1>1, <1>7, <1>10, <1>11

-----------------------------------------------------------------------------
\* The quantities replayed are the quantities held.
LEMMA ReplayHeld ==
    ASSUME NEW fills \in Seq(Fill), NEW i \in Instruments
    PROVE  Replay(fills)[Len(fills)][i].qty = Held(fills, i)
<1>1. PICK n \in Nat : n = Len(fills)
  OBVIOUS
<1>2. PICK r : r = Replay(fills)
  OBVIOUS
<1>3. PICK f : f = [k \in DOMAIN fills |-> Share(fills[k], i, MaxClock + 1)]
  OBVIOUS
<1>4. \A k \in 1..n : f[k] = Share(fills[k], i, MaxClock + 1) /\ fills[k] \in Fill
  BY <1>1, <1>3
<1>5. MaxClock + 1 \in Int
  BY ConstantFacts
<1>6. Held(fills, i) = SumTo(f, n)
  BY <1>1, <1>3, <1>5, HeldIs DEF Held
<1> DEFINE T == {k \in 0..n : r[k][i].qty = SumTo(f, k)}
<1>7. 0 \in T
  BY <1>2, ReplayIs, SumSteps DEF Start, Flat
<1>8. ASSUME NEW k \in 1..n, k - 1 \in T PROVE k \in T
  <2>1. r[k] = ReplayStep(fills, k, r[k - 1]) /\ r[k - 1] \in PosRows
    BY <1>1, <1>2, ReplayIs
  <2>2. PICK x \in Fill : x = fills[k]
    BY <1>4
  <2>3. x.inst \in Instruments /\ x.qty \in Int /\ x.price \in Int /\ x.at \in 0..MaxClock
    BY ConstantFacts DEF Fill
  <2>4. r[k - 1][i] \in Position /\ r[k - 1][x.inst] \in Position
    BY <2>1, <2>3 DEF PosRows
  <2>5. r[k - 1][i].qty \in Int
    BY <2>4 DEF Position
  <2>6. Moved(r[k - 1][x.inst], x.qty, x.price).qty = r[k - 1][x.inst].qty + x.qty
    BY <2>3, <2>4, MovedType
  <2>7. r[k][i].qty = r[k - 1][i].qty + IF x.inst = i THEN x.qty ELSE 0
    BY <2>1, <2>2, <2>3, <2>5, <2>6 DEF ReplayStep, PosRows
  <2>8. f[k] = IF x.inst = i THEN x.qty ELSE 0
    BY <1>4, <2>2, <2>3, ConstantFacts DEF Share
  <2>9. SumTo(f, (k - 1) + 1) = SumTo(f, k - 1) + f[(k - 1) + 1]
    BY SumSteps
  <2>10. QED
    BY <1>8, <2>7, <2>8, <2>9
<1> HIDE DEF T
<1>9. \A k \in 0..n : k \in T
  BY <1>7, <1>8, UpTo
<1>10. QED
  BY <1>1, <1>2, <1>6, <1>9 DEF T

\* What is rebuilt has the right types.
LEMMA RebuiltType ==
    ASSUME NEW b \in Account
    PROVE  /\ Rebuilt(b).pos = Replay(b.fills)[Len(b.fills)]
           /\ Rebuilt(b).pos \in PosRows
           /\ Rebuilt(b).cash \in Int
<1>1. b.fills \in Seq(Fill) /\ b.fundingCash \in Int
  BY DEF Account
<1>2. PICK n \in Nat : n = Len(b.fills)
  BY <1>1
<1>3. PICK r : r = Replay(b.fills)
  OBVIOUS
<1>4. \A k \in 0..n : r[k] \in PosRows
  BY <1>1, <1>2, <1>3, ReplayIs
<1>5. PICK gain : gain = [k \in DOMAIN b.fills |-> CashOf(b.fills[k], r[k - 1])]
  OBVIOUS
<1>6. ASSUME NEW k \in 1..n PROVE gain[k] \in Int
  <2>1. b.fills[k] \in Fill /\ r[k - 1] \in PosRows
    BY <1>1, <1>2, <1>4
  <2>2. gain[k] = CashOf(b.fills[k], r[k - 1])
    BY <1>1, <1>2, <1>5
  <2>3. QED
    BY <2>1, <2>2, CashOfType DEF PosRows
<1>7. SumTo(gain, n) \in Int
  BY <1>6, SumType
<1>8. Rebuilt(b) = [pos |-> r[n], cash |-> Initial + b.fundingCash + SumTo(gain, n)]
  BY <1>2, <1>3, <1>5, Zenon DEF Rebuilt
<1>9. Rebuilt(b).pos = r[n] /\ Rebuilt(b).cash = Initial + b.fundingCash + SumTo(gain, n)
  BY <1>8
<1>10. QED
  BY <1>1, <1>2, <1>3, <1>4, <1>7, <1>9, ConstantFacts

-----------------------------------------------------------------------------
(***************************************************************************)
(* The loops of the task: open orders, liquidation, funding.               *)
(***************************************************************************)

Sound == {b \in Account : Agrees(b)}

MatchStep(quote, k, b) ==
    IF k \in rows /\ Crosses(orders[k], quote[k])
    THEN FilledAt(b, orders[k], quote[k]) ELSE b

IsMatched(g, quote) ==
    g = [k \in 0..Len(orders) |->
            IF k = 0 THEN Seen(Task) ELSE MatchStep(quote, k, g[k - 1])]

LEMMA QuoteFacts ==
    ASSUME NEW quote \in Quotes, NEW k \in rows, Crosses(orders[k], quote[k])
    PROVE  quote[k] \in Prices
BY DEF Quotes, Crosses

LEMMA MatchStepFollows ==
    ASSUME orders \in Seq(Order), clock \in 0..MaxClock, NEW quote \in Quotes,
           NEW k \in 1..Len(orders), NEW b \in Sound
    PROVE  Follows(b, MatchStep(quote, k, b), clock) /\ MatchStep(quote, k, b) \in Sound
<1>1. b \in Account /\ Agrees(b) /\ orders[k] \in Order /\ clock \in Int
  BY ConstantFacts DEF Sound
<1>2. CASE k \in rows /\ Crosses(orders[k], quote[k])
  <2>1. MatchStep(quote, k, b) = FilledAt(b, orders[k], quote[k])
    BY <1>2 DEF MatchStep
  <2>2. Follows(b, FilledAt(b, orders[k], quote[k]), clock)
    BY <1>1, <1>2, QuoteFacts, FilledFollows
  <2>3. QED
    BY <2>1, <2>2 DEF Follows, Sound
<1>3. CASE ~ (k \in rows /\ Crosses(orders[k], quote[k]))
  <2>1. MatchStep(quote, k, b) = b
    BY <1>3 DEF MatchStep
  <2>2. QED
    BY <1>1, <2>1, FollowsItself
<1>4. QED
  BY <1>2, <1>3

LEMMA MatchedIs ==
    ASSUME orders \in Seq(Order), clock \in 0..MaxClock, NEW quote \in Quotes,
           Seen(Task) \in Sound
    PROVE  \E g : /\ g[0] = Seen(Task)
                  /\ \A k \in 1..Len(orders) : g[k] = MatchStep(quote, k, g[k - 1])
                  /\ \A k \in 0..Len(orders) : g[k] \in Sound
                  /\ Matched(quote) = g[Len(orders)]
<1>1. PICK n \in Nat : n = Len(orders)
  OBVIOUS
<1>2. PICK x \in Sound : x = Seen(Task)
  OBVIOUS
<1> DEFINE st == [c \in (1..n) \X Sound |-> MatchStep(quote, c[1], c[2])]
<1>3. PICK step : step = st
  OBVIOUS
<1>4. Maps(step, n, Sound)
  BY <1>1, <1>3, MatchStepFollows DEF Maps
<1>5. PICK g : Recurs(g, n, Sound, x, step)
  BY <1>4, Recursion
<1>6. /\ g = [k \in 0..n |-> g[k]] /\ g[0] = x
      /\ \A k \in 1..n : g[k] = MatchStep(quote, k, g[k - 1])
  <2>1. g \in [0..n -> Sound] /\ g[0] = x
    BY <1>5 DEF Recurs
  <2>2. ASSUME NEW k \in 1..n PROVE g[k] = MatchStep(quote, k, g[k - 1])
    <3>1. g[k] = step[<<k, g[k - 1]>>]
      BY <1>5 DEF Recurs
    <3>2. <<k, g[k - 1]>> \in (1..n) \X Sound
      BY <2>1
    <3>3. QED
      BY <1>3, <3>1, <3>2
  <2>3. QED
    BY <2>1, <2>2
<1>7. IsMatched(g, quote)
  BY <1>1, <1>2, <1>6 DEF IsMatched
<1>8. Matched(quote) = (CHOOSE f : IsMatched(f, quote))[Len(orders)]
  BY Zenon DEF Matched, IsMatched, MatchStep
<1>9. PICK r : IsMatched(r, quote) /\ Matched(quote) = r[n]
  BY <1>1, <1>7, <1>8, Zenon
<1>10. r[0] = x /\ \A k \in 1..n : r[k] = MatchStep(quote, k, r[k - 1])
  <2>1. \A k \in 0..n : r[k] = IF k = 0 THEN x ELSE MatchStep(quote, k, r[k - 1])
    BY <1>1, <1>2, <1>9 DEF IsMatched
  <2>2. QED
    BY <2>1
<1>11. \A k \in 0..n : r[k] \in Sound
  <2> DEFINE T == {m \in 0..n : r[m] \in Sound}
  <2>1. 0 \in T
    BY <1>10
  <2>2. \A m \in 1..n : m - 1 \in T => m \in T
    BY <1>1, <1>10, MatchStepFollows
  <2> HIDE DEF T
  <2>3. \A m \in 0..n : m \in T
    BY <2>1, <2>2, UpTo
  <2>4. QED
    BY <2>3 DEF T
<1>12. QED
  BY <1>1, <1>2, <1>9, <1>10, <1>11

\* process_open_orders.
LEMMA MatchedFollows ==
    ASSUME orders \in Seq(Order), clock \in 0..MaxClock, NEW quote \in Quotes,
           Seen(Task) \in Sound
    PROVE  Follows(Seen(Task), Matched(quote), clock)
<1>1. PICK n \in Nat : n = Len(orders)
  OBVIOUS
<1>2. PICK g : /\ g[0] = Seen(Task)
               /\ \A k \in 1..n : g[k] = MatchStep(quote, k, g[k - 1])
               /\ \A k \in 0..n : g[k] \in Sound
               /\ Matched(quote) = g[n]
  BY <1>1, MatchedIs
<1> DEFINE T == {k \in 0..n : Follows(Seen(Task), g[k], clock)}
<1>3. 0 \in T
  BY <1>2, FollowsItself, ConstantFacts DEF Sound
<1>4. ASSUME NEW k \in 1..n, k - 1 \in T PROVE k \in T
  <2>1. Follows(g[k - 1], g[k], clock)
    BY <1>1, <1>2, MatchStepFollows
  <2>2. Seen(Task) \in Account /\ g[k - 1] \in Account /\ clock \in Int
    BY <1>2, ConstantFacts DEF Sound
  <2>3. QED
    BY <1>4, <2>1, <2>2, FollowsOn
<1> HIDE DEF T
<1>5. \A k \in 0..n : k \in T
  BY <1>3, <1>4, UpTo
<1>6. QED
  BY <1>2, <1>5 DEF T

LEMMA ExposedFacts ==
    /\ Exposed \subseteq Perps /\ Exposed \subseteq Instruments /\ IsFiniteSet(Exposed)
    /\ SetToSeq(Exposed) \in Seq(Exposed)
<1>1. Exposed \subseteq Perps /\ Exposed \subseteq Instruments
  BY DEF Exposed, Instruments
<1>2. IsFiniteSet(Exposed)
  BY <1>1, ConstantFacts, FS_Subset
<1>3. QED
  BY <1>1, <1>2, ListFacts

Remark(pos, price) == [pos EXCEPT !.mark = price, !.margin = Size(pos.qty) * price * Unit]

LEMMA RemarkIs ==
    ASSUME NEW pos \in Position, NEW price \in Int
    PROVE  /\ Remark(pos, price) \in Position
           /\ Remark(pos, price).qty = pos.qty /\ Remark(pos, price).entry = pos.entry
           /\ Remark(pos, price).realized = pos.realized
<1>1. PICK m \in Int : m = Size(pos.qty) * price * Unit
  BY SizeFacts, ConstantFacts DEF Position
<1>2. Remark(pos, price) = [pos EXCEPT !.mark = price, !.margin = m]
  BY <1>1, Zenon DEF Remark
<1>3. PICK x : x = [pos EXCEPT !.mark = price, !.margin = m]
  OBVIOUS
<1>4. x \in Position /\ x.qty = pos.qty /\ x.entry = pos.entry /\ x.realized = pos.realized
  BY <1>3 DEF Position
<1>5. QED
  BY <1>2, <1>3, <1>4

LEMMA MarkedIs ==
    ASSUME Seen(Task) \in Account, NEW mark \in [Exposed -> Prices]
    PROVE  LET m == Marked(mark)
               b == Seen(Task)
           IN  /\ m \in Account
               /\ \A i \in Instruments :
                      /\ m.pos[i].qty = b.pos[i].qty /\ m.pos[i].entry = b.pos[i].entry
                      /\ m.pos[i].realized = b.pos[i].realized
               /\ m.cash = b.cash /\ m.locked = b.locked /\ m.valid = b.valid
               /\ m.base = b.base /\ m.baseLocked = b.baseLocked
               /\ m.fills = b.fills /\ m.ledger = b.ledger
               /\ m.funding = b.funding /\ m.fundingCash = b.fundingCash
<1>1. PICK b \in Account : b = Seen(Task)
  OBVIOUS
<1>2. \A i \in Instruments : b.pos[i] \in Position
  BY DEF Account
<1>3. \A i \in Exposed : i \in Instruments /\ mark[i] \in Int
  BY ExposedFacts, ConstantFacts
<1>4. PICK pos : pos = [i \in Instruments |->
                           IF i \in Exposed THEN Remark(b.pos[i], mark[i]) ELSE b.pos[i]]
  OBVIOUS
<1>5. pos \in [Instruments -> Position]
  BY <1>2, <1>3, <1>4, RemarkIs
<1>6. \A i \in Instruments : /\ pos[i].qty = b.pos[i].qty /\ pos[i].entry = b.pos[i].entry
                             /\ pos[i].realized = b.pos[i].realized
  BY <1>2, <1>3, <1>4, RemarkIs
<1>7. PICK m : m = [b EXCEPT !.pos = pos]
  OBVIOUS
<1>8. Marked(mark) = m
  <2>1. \A i \in Instruments : Own(i) = b.pos[i]
    BY <1>1, OwnIs
  <2>2. Marked(mark) = [b EXCEPT !.pos = [i \in Instruments |->
            IF i \in Exposed THEN Remark(Own(i), mark[i]) ELSE b.pos[i]]]
    <3>1. [b EXCEPT !.pos = [i \in Instruments |->
               IF i \in Exposed THEN Remark(Own(i), mark[i]) ELSE @[i]]]
          = [b EXCEPT !.pos = [i \in Instruments |->
               IF i \in Exposed THEN Remark(Own(i), mark[i]) ELSE b.pos[i]]]
      OBVIOUS
    <3>2. QED
      BY <1>1, <3>1, Zenon DEF Marked, Remark
  <2>3. pos = [i \in Instruments |-> IF i \in Exposed THEN Remark(Own(i), mark[i]) ELSE b.pos[i]]
    BY <1>4, <2>1
  <2>4. QED
    BY <1>7, <2>2, <2>3
<1>9. m \in Account
  <2>1. [b EXCEPT !.pos = pos] \in Account
    BY <1>5, Zenon DEF Account
  <2>2. QED
    BY <1>7, <2>1
<1>10. /\ m.pos = pos /\ m.cash = b.cash /\ m.locked = b.locked /\ m.valid = b.valid
       /\ m.base = b.base /\ m.baseLocked = b.baseLocked
       /\ m.fills = b.fills /\ m.ledger = b.ledger
       /\ m.funding = b.funding /\ m.fundingCash = b.fundingCash
  BY <1>7 DEF Account
<1>11. QED
  BY <1>1, <1>6, <1>8, <1>9, <1>10

LEMMA MarkedFollows ==
    ASSUME Seen(Task) \in Sound, NEW mark \in [Exposed -> Prices], NEW at \in Int
    PROVE  Follows(Seen(Task), Marked(mark), at)
<1>1. PICK b \in Account : b = Seen(Task) /\ Agrees(b)
  BY DEF Sound
<1>2. PICK m : m = Marked(mark)
  OBVIOUS
<1>3. /\ m \in Account
      /\ \A i \in Instruments : m.pos[i].qty = b.pos[i].qty
      /\ m.cash = b.cash /\ m.locked = b.locked /\ m.valid = b.valid
      /\ m.base = b.base /\ m.baseLocked = b.baseLocked
      /\ m.fills = b.fills /\ m.ledger = b.ledger
      /\ m.funding = b.funding /\ m.fundingCash = b.fundingCash
  BY <1>1, <1>2, MarkedIs
<1>4. Agrees(m)
  BY <1>1, <1>3, ConstantFacts DEF Agrees
<1>5. Excess(m) = Excess(b)
  BY <1>3 DEF Excess
<1>6. Later(b, m, at)
  BY <1>3, SameFills
<1>7. QED
  BY <1>1, <1>2, <1>3, <1>4, <1>5, <1>6 DEF Follows

LEMMA ClosedAtFollows ==
    ASSUME Seen(Task) \in Account, clock \in 0..MaxClock, NEW b \in Sound,
           NEW i \in Instruments, NEW p \in Prices
    PROVE  Follows(b, ClosedAt(b, i, p), clock) /\ ClosedAt(b, i, p) \in Sound
<1>1. b \in Account /\ Agrees(b)
  BY DEF Sound
<1>2. PICK f \in Fill : /\ f = FillOf(i, -Own(i).qty, p, TakerFee + LiquidationFee, clock)
                        /\ f.at = clock
  <2>1. Own(i) \in Position
    BY OwnIs DEF Account
  <2>2. PICK q \in Int : q = -Own(i).qty
    BY <2>1 DEF Position
  <2>3. TakerFee + LiquidationFee \in Int
    BY ConstantFacts
  <2>4. FillOf(i, q, p, TakerFee + LiquidationFee, clock) \in Fill
    BY <2>2, <2>3, FillOfType
  <2>5. FillOf(i, q, p, TakerFee + LiquidationFee, clock).at = clock
    BY DEF FillOf
  <2>6. QED
    BY <2>2, <2>4, <2>5
<1>3. ClosedAt(b, i, p) = Post(b, f, Len(b.fills) + 1)
  BY <1>2, Zenon DEF ClosedAt, PostLast
<1>4. Follows(b, ClosedAt(b, i, p), clock)
  BY <1>1, <1>2, <1>3, PlaceLast, PostFollows
<1>5. QED
  BY <1>4 DEF Follows, Sound

CloseStep(mark, k, b) == ClosedAt(b, SetToSeq(Exposed)[k], mark[SetToSeq(Exposed)[k]])

IsClosed(g, mark) ==
    g = [k \in 0..Len(SetToSeq(Exposed)) |->
            IF k = 0 THEN Marked(mark) ELSE CloseStep(mark, k, g[k - 1])]

LEMMA CloseStepFollows ==
    ASSUME Seen(Task) \in Account, clock \in 0..MaxClock, NEW mark \in [Exposed -> Prices],
           NEW k \in 1..Len(SetToSeq(Exposed)), NEW b \in Sound
    PROVE  Follows(b, CloseStep(mark, k, b), clock) /\ CloseStep(mark, k, b) \in Sound
<1>1. PICK i \in Exposed : i = SetToSeq(Exposed)[k]
  BY ExposedFacts
<1>2. i \in Instruments /\ mark[i] \in Prices
  BY ExposedFacts
<1>3. CloseStep(mark, k, b) = ClosedAt(b, i, mark[i])
  BY <1>1 DEF CloseStep
<1>4. QED
  BY <1>2, <1>3, ClosedAtFollows

LEMMA ClosedIs ==
    ASSUME Seen(Task) \in Account, clock \in 0..MaxClock, NEW mark \in [Exposed -> Prices],
           Marked(mark) \in Sound
    PROVE  \E n \in Nat : \E g :
               /\ n = Len(SetToSeq(Exposed))
               /\ g[0] = Marked(mark)
               /\ \A k \in 1..n : g[k] = CloseStep(mark, k, g[k - 1])
               /\ \A k \in 0..n : g[k] \in Sound
               /\ Closed(mark) = g[n]
<1>1. PICK n \in Nat : n = Len(SetToSeq(Exposed))
  BY ExposedFacts
<1>2. PICK x \in Sound : x = Marked(mark)
  OBVIOUS
<1> DEFINE st == [c \in (1..n) \X Sound |-> CloseStep(mark, c[1], c[2])]
<1>3. PICK step : step = st
  OBVIOUS
<1>4. Maps(step, n, Sound)
  BY <1>1, <1>3, CloseStepFollows DEF Maps
<1>5. PICK g : Recurs(g, n, Sound, x, step)
  BY <1>4, Recursion
<1>6. /\ g = [k \in 0..n |-> g[k]] /\ g[0] = x
      /\ \A k \in 1..n : g[k] = CloseStep(mark, k, g[k - 1])
  <2>1. g \in [0..n -> Sound] /\ g[0] = x
    BY <1>5 DEF Recurs
  <2>2. ASSUME NEW k \in 1..n PROVE g[k] = CloseStep(mark, k, g[k - 1])
    <3>1. g[k] = step[<<k, g[k - 1]>>]
      BY <1>5 DEF Recurs
    <3>2. <<k, g[k - 1]>> \in (1..n) \X Sound
      BY <2>1
    <3>3. QED
      BY <1>3, <3>1, <3>2
  <2>3. QED
    BY <2>1, <2>2
<1>7. IsClosed(g, mark)
  <2>1. ASSUME NEW k \in 0..n
        PROVE  g[k] = IF k = 0 THEN x ELSE CloseStep(mark, k, g[k - 1])
    <3>1. CASE k = 0
      BY <1>6, <3>1
    <3>2. CASE k # 0
      <4>1. k \in 1..n
        BY <3>2
      <4>2. QED
        BY <1>6, <3>2, <4>1
    <3>3. QED
      BY <3>1, <3>2
  <2>2. g = [k \in 0..n |-> IF k = 0 THEN x ELSE CloseStep(mark, k, g[k - 1])]
    BY <1>6, <2>1, Zenon
  <2>3. QED
    BY <1>1, <1>2, <2>2, Zenon DEF IsClosed
<1>8. Closed(mark) = (CHOOSE f : IsClosed(f, mark))[Len(SetToSeq(Exposed))]
  BY Zenon DEF Closed, IsClosed, CloseStep
<1>9. PICK r : IsClosed(r, mark) /\ Closed(mark) = r[n]
  BY <1>1, <1>7, <1>8, Zenon
<1>10. r[0] = x /\ \A k \in 1..n : r[k] = CloseStep(mark, k, r[k - 1])
  <2>1. \A k \in 0..n : r[k] = IF k = 0 THEN x ELSE CloseStep(mark, k, r[k - 1])
    BY <1>1, <1>2, <1>9 DEF IsClosed
  <2>2. QED
    BY <2>1
<1>11. \A k \in 0..n : r[k] \in Sound
  <2> DEFINE T == {m \in 0..n : r[m] \in Sound}
  <2>1. 0 \in T
    BY <1>10
  <2>2. \A m \in 1..n : m - 1 \in T => m \in T
    BY <1>1, <1>10, CloseStepFollows
  <2> HIDE DEF T
  <2>3. \A m \in 0..n : m \in T
    BY <2>1, <2>2, UpTo
  <2>4. QED
    BY <2>3 DEF T
<1>12. \E f : /\ n = Len(SetToSeq(Exposed))
              /\ f[0] = Marked(mark)
              /\ \A k \in 1..n : f[k] = CloseStep(mark, k, f[k - 1])
              /\ \A k \in 0..n : f[k] \in Sound
              /\ Closed(mark) = f[n]
  BY <1>1, <1>2, <1>9, <1>10, <1>11
<1>13. QED
  BY <1>12

LEMMA ClosedFollows ==
    ASSUME Seen(Task) \in Account, clock \in 0..MaxClock, NEW mark \in [Exposed -> Prices],
           Marked(mark) \in Sound
    PROVE  Follows(Marked(mark), Closed(mark), clock)
<1>1. PICK n \in Nat : \E g :
          /\ n = Len(SetToSeq(Exposed))
          /\ g[0] = Marked(mark)
          /\ \A k \in 1..n : g[k] = CloseStep(mark, k, g[k - 1])
          /\ \A k \in 0..n : g[k] \in Sound
          /\ Closed(mark) = g[n]
  BY ClosedIs
<1>2. PICK g :
          /\ n = Len(SetToSeq(Exposed))
          /\ g[0] = Marked(mark)
          /\ \A k \in 1..n : g[k] = CloseStep(mark, k, g[k - 1])
          /\ \A k \in 0..n : g[k] \in Sound
          /\ Closed(mark) = g[n]
  BY <1>1
<1> DEFINE T == {k \in 0..n : Follows(Marked(mark), g[k], clock)}
<1>3. clock \in Int
  BY ConstantFacts
<1>4. 0 \in T
  BY <1>2, <1>3, FollowsItself DEF Sound
<1>5. ASSUME NEW k \in 1..n, k - 1 \in T PROVE k \in T
  <2>1. Follows(g[k - 1], g[k], clock)
    BY <1>2, CloseStepFollows
  <2>2. Marked(mark) \in Account /\ g[k - 1] \in Account
    BY <1>2 DEF Sound
  <2>3. QED
    BY <1>3, <1>5, <2>1, <2>2, FollowsOn
<1> HIDE DEF T
<1>6. \A k \in 0..n : k \in T
  BY <1>4, <1>5, UpTo
<1>7. QED
  BY <1>2, <1>6 DEF T

-----------------------------------------------------------------------------
(***************************************************************************)
(* Funding.                                                                *)
(***************************************************************************)

\* The boundaries passed are the first ones after the last.
LEMMA PassedIs ==
    ASSUME lastFunding \in Nat, moment.clock \in Nat, lastFunding <= moment.clock, NEW known
    PROVE  \E m \in lastFunding..moment.clock :
               /\ Passed(known) = (lastFunding + 1)..m
               /\ Cardinality(Passed(known)) = m - lastFunding
<1>1. PICK l \in Nat, c \in Nat : l = lastFunding /\ c = moment.clock /\ l <= c
  OBVIOUS
<1>2. Span = (l + 1)..c
  BY <1>1 DEF Span
<1> DEFINE T == {b \in Nat : b \in Span /\ Lacks(b, known)}
<1>3. \E m \in l..c : Passed(known) = (l + 1)..m
  <2>1. CASE T = {}
    <3>1. \A b \in Span : b \in Nat
      BY <1>2
    <3>2. \A b \in Span : ~ Lacks(b, known)
      BY <2>1, <3>1
    <3>3. Passed(known) = (l + 1)..c
      BY <1>2, <3>2 DEF Passed, Tried
    <3>4. QED
      BY <1>1, <3>3
  <2>2. CASE T # {}
    <3>1. PICK b \in T : \A d \in T : b <= d
      BY <2>2, Least
    <3>2. b \in (l + 1)..c /\ Lacks(b, known)
      BY <1>2, <3>1
    <3>3. \A d \in Span : d < b => ~ Lacks(d, known)
      BY <1>2, <3>1
    <3>4. Passed(known) = (l + 1)..(b - 1)
      <4>1. ASSUME NEW d \in Passed(known) PROVE d \in (l + 1)..(b - 1)
        <5>1. d \in (l + 1)..c /\ ~ Lacks(d, known) /\ \A x \in Span : x < d => ~ Lacks(x, known)
          BY <1>2 DEF Passed, Tried
        <5>2. ~ (b < d) /\ d # b
          BY <1>2, <3>2, <5>1
        <5>3. QED
          BY <3>2, <5>1, <5>2
      <4>2. ASSUME NEW d \in (l + 1)..(b - 1) PROVE d \in Passed(known)
        <5>1. d \in Span /\ ~ Lacks(d, known)
          BY <1>2, <3>2, <3>3
        <5>2. \A x \in Span : x < d => ~ Lacks(x, known)
          BY <1>2, <3>2, <3>3
        <5>3. QED
          BY <5>1, <5>2 DEF Passed, Tried
      <4>3. QED
        BY <4>1, <4>2
    <3>5. b - 1 \in l..c
      BY <3>2
    <3>6. QED
      BY <3>4, <3>5
  <2>3. QED
    BY <2>1, <2>2
<1>4. PICK m \in l..c : Passed(known) = (l + 1)..m
  BY <1>3
<1>5. Cardinality((l + 1)..m) = IF l + 1 > m THEN 0 ELSE m - (l + 1) + 1
  BY <1>1, <1>4, FS_Interval
<1>6. Cardinality(Passed(known)) = m - l
  BY <1>4, <1>5
<1>7. QED
  BY <1>1, <1>4, <1>6

LEMMA DueIs ==
    ASSUME books \in Account, lastFunding \in Nat, moment.clock \in Nat, NEW known
    PROVE  /\ Due(known) \subseteq Settlement /\ IsFiniteSet(Due(known))
           /\ \A e \in Due(known) :
                  /\ e.boundary \in Span /\ e.boundary \in Nat /\ ~ Funded(e.inst, e.boundary)
                  /\ e.qty = HeldAt(books.fills, e.inst, e.boundary)
                  /\ e = [inst |-> e.inst, boundary |-> e.boundary, qty |-> e.qty]
           /\ \A b \in Passed(known), i \in Perps :
                  HeldAt(books.fills, i, b) # 0 =>
                      Funded(i, b) \/ \E e \in Due(known) : e.inst = i /\ e.boundary = b
<1>1. Span \subseteq Nat /\ IsFiniteSet(Span)
  BY FS_Interval, SMTT(60) DEF Span
<1>2. Tried(known) \subseteq Span /\ IsFiniteSet(Tried(known)) /\ Tried(known) \subseteq Nat
  <2>1. Tried(known) \subseteq Span
    BY DEF Tried
  <2>2. QED
    BY <1>1, <2>1, FS_Subset
<1>3. books.fills \in Seq(Fill)
  BY DEF Account
<1> DEFINE entry(i, b) == [inst |-> i, boundary |-> b, qty |-> HeldAt(books.fills, i, b)]
<1>4. ASSUME NEW e \in Due(known)
      PROVE  \E i \in Perps, b \in Tried(known) :
                 /\ e = entry(i, b) /\ ~ Funded(i, b) /\ e \in Settlement
                 /\ e.inst = i /\ e.boundary = b /\ e.qty = HeldAt(books.fills, i, b)
  <2>1. PICK i \in Perps, b \in Tried(known) : e = entry(i, b)
    BY DEF Due
  <2>2. e.inst = i /\ e.boundary = b /\ e.qty = HeldAt(books.fills, i, b)
    BY <2>1
  <2>3. ~ Funded(i, b)
    BY <2>2 DEF Due
  <2>4. b \in Nat /\ b \in Int
    BY <1>2
  <2>5. HeldAt(books.fills, i, b) \in Int
    BY <1>3, <2>4, HeldIs
  <2>6. e \in Settlement
    BY <2>1, <2>4, <2>5 DEF Settlement
  <2>7. QED
    BY <2>1, <2>2, <2>3, <2>6
<1>5. IsFiniteSet(Due(known))
  <2>1. IsFiniteSet(Perps \X Tried(known))
    BY <1>2, ConstantFacts, FS_Product
  <2> DEFINE image == {entry(c[1], c[2]) : c \in Perps \X Tried(known)}
  <2>2. PICK f : f = [c \in Perps \X Tried(known) |-> entry(c[1], c[2])]
    OBVIOUS
  <2>3. PICK S : S = image
    OBVIOUS
  <2>4. S = {f[c] : c \in Perps \X Tried(known)}
    BY <2>2, <2>3
  <2>5. f \in Surjection(Perps \X Tried(known), S)
    BY <2>2, <2>4 DEF Surjection
  <2>6. IsFiniteSet(S)
    BY <2>1, <2>5, FS_Surjection
  <2>7. Due(known) \subseteq S
    <3>1. SUFFICES ASSUME NEW e \in Due(known) PROVE e \in S
      OBVIOUS
    <3>2. PICK i \in Perps, b \in Tried(known) : e = entry(i, b)
      BY <1>4
    <3>3. <<i, b>> \in Perps \X Tried(known) /\ e = entry(<<i, b>>[1], <<i, b>>[2])
      BY <3>2
    <3>4. QED
      BY <2>3, <3>3
  <2>8. QED
    BY <2>6, <2>7, FS_Subset
<1>6. ASSUME NEW b \in Passed(known), NEW i \in Perps, HeldAt(books.fills, i, b) # 0,
             ~ Funded(i, b)
      PROVE  \E e \in Due(known) : e.inst = i /\ e.boundary = b
  <2>1. b \in Tried(known) /\ ~ Lacks(b, known) /\ i \in Instruments
    BY ConstantFacts DEF Passed
  <2>2. <<i, b>> \in known
    BY <1>6, <2>1 DEF Lacks
  <2>3. PICK e : e = entry(i, b)
    OBVIOUS
  <2>4. e.inst = i /\ e.boundary = b /\ e.qty = HeldAt(books.fills, i, b)
    BY <2>3
  <2>5. e \in Due(known)
    BY <1>6, <2>1, <2>2, <2>3, <2>4 DEF Due
  <2>6. QED
    BY <2>4, <2>5
<1>7. ASSUME NEW e \in Due(known)
      PROVE  /\ e \in Settlement
             /\ e.boundary \in Span /\ e.boundary \in Nat /\ ~ Funded(e.inst, e.boundary)
             /\ e.qty = HeldAt(books.fills, e.inst, e.boundary)
             /\ e = [inst |-> e.inst, boundary |-> e.boundary, qty |-> e.qty]
  <2>1. PICK i \in Perps, b \in Tried(known) :
            /\ e = entry(i, b) /\ ~ Funded(i, b) /\ e \in Settlement
            /\ e.inst = i /\ e.boundary = b /\ e.qty = HeldAt(books.fills, i, b)
    BY <1>4
  <2>2. QED
    BY <1>1, <1>2, <2>1
<1> HIDE DEF entry
<1>8. QED
  BY <1>5, <1>6, <1>7

LEMMA CostType ==
    ASSUME NEW S \in SUBSET Settlement, IsFiniteSet(S), NEW p \in Prices, NEW rate \in Rates
    PROVE  Cost(S, rate, p) \in Int
<1>1. PICK s \in Seq(S) : s = SetToSeq(S)
  BY ListFacts
<1>2. PICK n \in Nat : n = Len(s)
  OBVIOUS
<1>3. PICK f : f = [k \in DOMAIN s |-> s[k].qty * p * rate]
  OBVIOUS
<1>4. p \in Int /\ rate \in Int
  BY ConstantFacts
<1>5. ASSUME NEW k \in 1..n PROVE f[k] \in Int
  <2>1. s[k] \in S
    BY <1>2
  <2>2. s[k].qty \in Int
    BY <2>1 DEF Settlement
  <2>3. QED
    BY <1>2, <1>3, <1>4, <2>2
<1>6. SumTo(f, n) \in Int
  BY <1>5, SumType
<1>7. Cost(S, rate, p) = SumTo(f, n)
  BY <1>1, <1>2, <1>3, Zenon DEF Cost, SumOver
<1>8. QED
  BY <1>6, <1>7

LEMMA NavType == ASSUME NEW b \in Account PROVE Nav(b) \in Int
<1> DEFINE value(i) == b.pos[i].qty *
               (b.pos[i].mark * Unit - IF i \in Spots THEN 0 ELSE b.pos[i].entry)
<1>1. PICK s \in Seq(Instruments) : s = SetToSeq(Instruments)
  BY ListFacts, ConstantFacts
<1>2. PICK n \in Nat : n = Len(s)
  OBVIOUS
<1>3. PICK f : f = [k \in DOMAIN s |-> value(s[k])]
  OBVIOUS
<1>4. ASSUME NEW i \in Instruments PROVE value(i) \in Int
  <2>1. b.pos[i] \in Position
    BY DEF Account
  <2>2. b.pos[i].qty \in Int /\ b.pos[i].mark \in Int /\ b.pos[i].entry \in Int /\ Unit \in Int
    BY <2>1, ConstantFacts DEF Position
  <2>3. b.pos[i].mark * Unit - (IF i \in Spots THEN 0 ELSE b.pos[i].entry) \in Int
    BY <2>2, SMTT(60)
  <2>4. QED
    BY <2>2, <2>3
<1>5. ASSUME NEW k \in 1..n PROVE f[k] \in Int
  <2>1. s[k] \in Instruments
    BY <1>2
  <2>2. f[k] = value(s[k])
    BY <1>2, <1>3
  <2>3. QED
    BY <1>4, <2>1, <2>2
<1>6. SumTo(f, n) \in Int
  BY <1>5, SumType
<1>7. Nav(b) = b.cash + b.locked + SumTo(f, n)
  BY <1>1, <1>2, <1>3, Zenon DEF Nav, SumOver
<1>8. QED
  BY <1>6, <1>7 DEF Account

LEMMA LastPriceType ==
    ASSUME books \in Account, NEW i
    PROVE  LastPrice(i) \in Int
<1>1. PICK n \in Nat : n = Len(books.fills) /\ books.fills \in Seq(Fill)
  BY DEF Account
<1>2. PICK S : S = {k \in DOMAIN books.fills : books.fills[k].inst = i}
  OBVIOUS
<1>3. LastPrice(i) = IF S = {} THEN 0 ELSE books.fills[Max(S)].price
  BY <1>2, Zenon DEF LastPrice
<1>4. CASE S = {}
  BY <1>3, <1>4
<1>5. CASE S # {}
  <2> DEFINE T == {m \in Nat : m <= n /\ n - m \in S}
  <2>1. S \subseteq 1..n
    BY <1>1, <1>2
  <2>2. T # {}
    <3>1. PICK k \in S : TRUE
      BY <1>5
    <3>2. n - k \in T
      BY <2>1
    <3>3. QED
      BY <3>2
  <2>3. PICK m \in T : \A j \in T : m <= j
    BY <2>2, Least
  <2>4. ASSUME NEW k \in S PROVE n - m >= k
    <3>1. k \in 1..n /\ n - k \in T
      BY <2>1
    <3>2. QED
      BY <2>3, <3>1
  <2>5. Max(S) \in S
    BY <2>3, <2>4 DEF Max
  <2>6. PICK k \in 1..n : k = Max(S)
    BY <2>1, <2>5
  <2>7. books.fills[k] \in Fill
    BY <1>1
  <2>8. books.fills[k].price \in Int
    BY <2>7, ConstantFacts DEF Fill
  <2>9. QED
    BY <1>3, <1>5, <2>6, <2>8
<1>6. QED
  BY <1>4, <1>5

-----------------------------------------------------------------------------
(***************************************************************************)
(* The inductive invariant.                                                *)
(***************************************************************************)

RowsOK ==
    /\ orders \in Seq(Order) /\ signals \in Seq(Signal)
    /\ rows \subseteq DOMAIN orders
    /\ listed \subseteq DOMAIN signals /\ uncommitted \subseteq DOMAIN signals

\* Funding has not passed the task's time.
TimeOK ==
    /\ active \in BOOLEAN
    /\ clock \in 0..MaxClock /\ lastFunding \in 0..clock
    /\ phase # "idle" => lastFunding <= moment.clock

CopyOK == copy \in [Requests \cup {Task} -> Copy]

\* The task has what its phase needs.
TaskOK ==
    /\ phase \in {"idle", "match", "fund", "liquidate", "signals", "close"}
    /\ copy[Task].open <=> phase # "idle"
    /\ listed # {} <=> phase = "signals"
    /\ rows # {} => phase = "match"
    /\ moment \in [clock : 0..clock, place : 0..Len(books.fills)]
    /\ phase = "idle" => moment = NoMoment

\* Nothing is settled for a boundary at or before which a fill may still come.
FundingOK ==
    /\ FundingComplete
    /\ \A e \in books.funding :
           e.boundary <= clock /\ (phase # "idle" => e.boundary <= moment.clock)

IInv == BooksOK /\ RowsOK /\ TimeOK /\ CopyOK /\ TaskOK /\ FundingOK

LEMMA Implied == IInv => TypeOK /\ (~ Overlap => PositionsFollowFills) /\ FundingComplete
<1> SUFFICES ASSUME IInv
             PROVE  TypeOK /\ (~ Overlap => PositionsFollowFills) /\ FundingComplete
  OBVIOUS
<1> USE DEF IInv
<1>1. /\ books.valid /\ books.locked \in Nat
      /\ \A i \in Spots : books.base[i] \in Nat /\ books.baseLocked[i] \in Nat
  BY DEF BooksOK, Account, Agrees
<1>2. \A o \in DOMAIN orders : orders[o].status \in {"pending", "filled", "cancelled"}
  <2>1. \A o \in DOMAIN orders : orders[o] \in Order
    BY DEF RowsOK
  <2>2. QED
    BY <2>1 DEF Order
<1>3. \A s \in DOMAIN signals :
          signals[s].status \in {"generated", "superseded", "expired", "rejected", "consumed"}
  <2>1. \A s \in DOMAIN signals : signals[s] \in Signal
    BY DEF RowsOK
  <2>2. QED
    BY <2>1 DEF Signal
<1>4. TypeOK
  BY <1>1, <1>2, <1>3 DEF TypeOK, TimeOK, TaskOK
<1>5. ~ Overlap => PositionsFollowFills
  BY DEF PositionsFollowFills, BooksOK, Agrees
<1>6. QED
  BY <1>4, <1>5 DEF FundingOK

LEMMA NothingHeld ==
    ASSUME NEW i, NEW x \in Int PROVE HeldAt(<<>>, i, x) = 0
<1>1. <<>> \in Seq(Fill) /\ Len(<<>>) = 0
  OBVIOUS
<1>2. PICK s \in Seq(Fill) : s = <<>> /\ Len(s) = 0
  BY <1>1
<1>3. PICK f : HeldAt(s, i, x) = SumTo(f, Len(s))
  BY HeldIs
<1>4. QED
  BY <1>2, <1>3, SumSteps

LEMMA OpenedIs ==
    /\ Opened \in Account /\ Opened.valid /\ Agrees(Opened)
    /\ Opened.fills = <<>> /\ Opened.funding = {} /\ Opened.fundingCash = 0
    /\ Opened.locked = 0 /\ Opened.cash = Initial /\ Opened.ledger = Initial
    /\ \A i \in Spots : Opened.baseLocked[i] = 0
    /\ \A i \in Instruments : Opened.pos[i] = Flat
<1>1. Flat \in Position /\ Flat.qty = 0
  BY DEF Flat, Position
<1>2. [i \in Instruments |-> Flat] \in [Instruments -> Position]
  BY <1>1
<1>3. [i \in Spots |-> 0] \in [Spots -> Int] /\ [i \in Spots |-> 0] \in [Spots -> Nat]
  OBVIOUS
<1>4. Opened \in Account
  BY <1>2, <1>3, ConstantFacts DEF Opened, Account
<1>5. /\ Opened.valid /\ Opened.fills = <<>> /\ Opened.funding = {} /\ Opened.fundingCash = 0
      /\ Opened.locked = 0 /\ Opened.cash = Initial /\ Opened.ledger = Initial
      /\ Opened.base = [i \in Spots |-> 0] /\ Opened.baseLocked = [i \in Spots |-> 0]
      /\ Opened.pos = [i \in Instruments |-> Flat]
  BY DEF Opened
<1>6. MaxClock + 1 \in Int
  BY ConstantFacts
<1>7. \A i \in Instruments : Held(Opened.fills, i) = 0
  BY <1>5, <1>6, NothingHeld DEF Held
<1>8. Agrees(Opened)
  BY <1>1, <1>5, <1>7, ConstantFacts DEF Agrees
<1>9. QED
  BY <1>4, <1>5, <1>8

LEMMA Starts == Init => IInv
<1> SUFFICES ASSUME Init PROVE IInv
  OBVIOUS
<1> USE DEF Init
<1>1. BooksOK
  BY OpenedIs DEF BooksOK
<1>2. RowsOK
  BY DEF RowsOK
<1>3. TimeOK
  BY ConstantFacts DEF TimeOK
<1>4. CopyOK
  BY NoCopyType DEF CopyOK
<1>5. TaskOK
  BY NoCopyType, OpenedIs DEF TaskOK, NoMoment
<1>6. FundingOK
  BY OpenedIs DEF FundingOK, FundingComplete
<1>7. QED
  BY <1>1, <1>2, <1>3, <1>4, <1>5, <1>6 DEF IInv

-----------------------------------------------------------------------------
(***************************************************************************)
(* Facts for the steps.                                                    *)
(***************************************************************************)

LEMMA CopyFacts ==
    ASSUME CopyOK
    PROVE  copy[Task] \in Copy /\ \A r \in Requests : copy[r] \in Copy /\ r # Task
BY PaperAssumption DEF CopyOK

\* A session sees books that agree.
LEMMA SeenSound ==
    ASSUME BooksOK, NEW s, copy[s] \in Copy
    PROVE  /\ Seen(s) \in Sound /\ Seen(s) \in Account /\ Seen(s).valid
           /\ Seen(s).fills = books.fills /\ Seen(s).funding = books.funding
           /\ ~ Overlap => Seen(s).pos = books.pos /\ Seen(s).base = books.base
BY SeenIs DEF AllButCash, Sound

\* Fills after the boundaries that are settled leave them settled.
LEMMA FundingKept ==
    ASSUME FundingComplete, NEW at \in Int, lastFunding \in Nat, lastFunding <= at,
           books \in Account, \A e \in books.funding : e.boundary <= at,
           Later(books, books', at), books'.funding = books.funding,
           lastFunding' = lastFunding
    PROVE  FundingComplete'
<1>1. ASSUME NEW b \in 1..lastFunding, NEW i \in Perps, HeldAt(books'.fills, i, b) # 0
      PROVE  Funded(i, b)'
  <2>1. b \in Int /\ b <= at /\ i \in Instruments
    BY ConstantFacts
  <2>2. HeldAt(books'.fills, i, b) = HeldAt(books.fills, i, b)
    BY <2>1 DEF Later
  <2>3. Funded(i, b)
    BY <1>1, <2>2 DEF FundingComplete
  <2>4. QED
    BY <2>3 DEF Funded
<1>2. ASSUME NEW e \in books'.funding
      PROVE  /\ e.qty = HeldAt(books'.fills, e.inst, e.boundary)
             /\ \A d \in books'.funding :
                    d.inst = e.inst /\ d.boundary = e.boundary => d = e
  <2>1. e \in books.funding /\ e \in Settlement
    BY DEF Account
  <2>2. e.inst \in Instruments /\ e.boundary \in Int /\ e.boundary <= at
    BY <2>1, ConstantFacts DEF Settlement
  <2>3. HeldAt(books'.fills, e.inst, e.boundary) = HeldAt(books.fills, e.inst, e.boundary)
    BY <2>2 DEF Later
  <2>4. QED
    BY <2>1, <2>3 DEF FundingComplete
<1>3. QED
  BY <1>1, <1>2 DEF FundingComplete

\* A request, or a cancellation, whose books follow the old ones.
LEMMA RequestWrites ==
    ASSUME IInv, books' \in Account, books'.valid, Agrees(books'), Later(books, books', clock),
           books'.funding = books.funding,
           UNCHANGED <<signals, active, lastFunding, clock, run, taskVars>>,
           orders' \in Seq(Order), DOMAIN orders \subseteq DOMAIN orders',
           copy' \in [Requests \cup {Task} -> Copy], copy'[Task] = copy[Task]
    PROVE  IInv'
<1> USE DEF taskVars
<1>1. BooksOK'
  BY DEF BooksOK
<1>2. RowsOK'
  BY DEF IInv, RowsOK
<1>3. TimeOK'
  BY DEF IInv, TimeOK
<1>4. CopyOK'
  BY DEF CopyOK
<1>5. TaskOK'
  <2>1. Len(books.fills) <= Len(books'.fills)
    BY DEF Later
  <2>2. Len(books.fills) \in Nat /\ Len(books'.fills) \in Nat
    BY DEF IInv, BooksOK, Account
  <2>3. moment' \in [clock : 0..clock', place : 0..Len(books'.fills)]
    BY <2>1, <2>2 DEF IInv, TaskOK
  <2>4. QED
    BY <2>3 DEF IInv, TaskOK
<1>6. FundingOK'
  <2>1. clock \in Int /\ lastFunding \in Nat /\ lastFunding <= clock
    BY ConstantFacts DEF IInv, TimeOK
  <2>2. FundingComplete /\ books \in Account /\ \A e \in books.funding : e.boundary <= clock
    BY DEF IInv, FundingOK, BooksOK
  <2>3. FundingComplete'
    BY <2>1, <2>2, FundingKept
  <2>4. QED
    BY <2>3 DEF IInv, FundingOK
<1>7. QED
  BY <1>1, <1>2, <1>3, <1>4, <1>5, <1>6 DEF IInv

-----------------------------------------------------------------------------
(***************************************************************************)
(* The steps of the requests.                                              *)
(***************************************************************************)

\* A step that leaves the books, the orders, signals and the task alone.
LEMMA OnlyCopies ==
    ASSUME IInv, UNCHANGED <<books, orders, signals, lastFunding, clock, run, taskVars>>,
           active' \in BOOLEAN,
           copy' \in [Requests \cup {Task} -> Copy], copy'[Task] = copy[Task]
    PROVE  IInv'
<1> USE DEF taskVars
<1>1. BooksOK' /\ RowsOK'
  BY DEF IInv, BooksOK, RowsOK
<1>2. TimeOK' /\ CopyOK' /\ TaskOK'
  BY DEF IInv, TimeOK, CopyOK, TaskOK
<1>3. FundingOK'
  BY DEF IInv, FundingOK, FundingComplete, Funded
<1>4. QED
  BY <1>1, <1>2, <1>3 DEF IInv

LEMMA OpenStep == ASSUME IInv, NEW r \in Requests, Open(r) PROVE IInv'
<1>1. CopyOK /\ books \in Account /\ active \in BOOLEAN
  BY DEF IInv, BooksOK, TimeOK
<1>2. r # Task /\ Loaded(books) \in Copy
  BY <1>1, CopyFacts, LoadedType
<1>3. copy' \in [Requests \cup {Task} -> Copy] /\ copy'[Task] = copy[Task]
  BY <1>1, <1>2 DEF Open, CopyOK
<1>4. QED
  BY <1>1, <1>3, OnlyCopies DEF Open

LEMMA AbandonStep == ASSUME IInv, NEW r \in Requests, Abandon(r) PROVE IInv'
<1>1. CopyOK /\ active \in BOOLEAN
  BY DEF IInv, TimeOK
<1>2. r # Task
  BY <1>1, CopyFacts
<1>3. copy' \in [Requests \cup {Task} -> Copy] /\ copy'[Task] = copy[Task]
  BY <1>1, <1>2, NoCopyType DEF Abandon, CopyOK
<1>4. QED
  BY <1>1, <1>3, OnlyCopies DEF Abandon

LEMMA SetStatusStep == ASSUME IInv, SetStatus PROVE IInv'
<1>1. active' \in BOOLEAN
  BY DEF IInv, TimeOK, SetStatus
<1>2. copy' \in [Requests \cup {Task} -> Copy] /\ copy'[Task] = copy[Task]
  BY DEF IInv, CopyOK, SetStatus
<1>3. QED
  BY <1>1, <1>2, OnlyCopies DEF SetStatus

LEMMA ReadRowsStep ==
    ASSUME IInv, NEW s \in Requests \cup {Task}, NEW i \in Instruments, ReadRows(s, i)
    PROVE  IInv'
<1> USE DEF taskVars
<1>1. BooksOK /\ CopyOK /\ Overlap /\ copy[s] \in Copy
  BY DEF IInv, CopyOK, ReadRows
<1>2. PICK c : c = [copy[s] EXCEPT !.rows =
                       [j \in DOMAIN @ \cup {i} |-> IF j = i THEN RowsOf(i) ELSE @[j]]]
  OBVIOUS
<1>3. c \in Copy /\ c.open = copy[s].open
  BY <1>1, <1>2, MoreRead
<1>4. copy' = [copy EXCEPT ![s] = c]
  BY <1>2, Zenon DEF ReadRows
<1>5. CopyOK' /\ copy'[Task].open = copy[Task].open
  BY <1>1, <1>3, <1>4 DEF CopyOK
<1>6. UNCHANGED <<books, orders, signals, active, lastFunding, clock, taskVars>>
  BY DEF ReadRows
<1>7. BooksOK' /\ RowsOK' /\ TimeOK'
  BY <1>6 DEF IInv, BooksOK, RowsOK, TimeOK
<1>8. TaskOK'
  BY <1>5, <1>6 DEF IInv, TaskOK
<1>9. FundingOK'
  BY <1>6 DEF IInv, FundingOK, FundingComplete, Funded
<1>10. QED
  BY <1>5, <1>7, <1>8, <1>9 DEF IInv

LEMMA SubmitFilledStep ==
    ASSUME IInv, NEW r \in Requests, NEW i \in Instruments, NEW q \in Int, NEW p \in Prices,
           NEW fee \in Int, SubmitFilled(r, i, q, p, fee)
    PROVE  IInv'
<1>1. BooksOK /\ CopyOK /\ clock \in 0..MaxClock /\ books \in Account
  BY DEF IInv, TimeOK, BooksOK
<1>2. copy[r] \in Copy /\ r # Task
  BY <1>1, CopyFacts
<1>3. PICK b \in Account : b = Seen(r) /\ Agrees(b)
  BY <1>1, <1>2, SeenSound DEF Sound
<1>4. PICK f \in Fill : f = FillOf(i, q, p, fee, clock) /\ f.at = clock
  <2>1. FillOf(i, q, p, fee, clock) \in Fill
    BY <1>1, FillOfType
  <2>2. FillOf(i, q, p, fee, clock).at = clock
    BY DEF FillOf
  <2>3. QED
    BY <2>1, <2>2
<1>5. PICK c : c = Post(b, f, Len(b.fills) + 1)
  OBVIOUS
<1>6. Follows(b, c, clock)
  BY <1>3, <1>4, <1>5, PlaceLast, PostFollows
<1>7. Commit(r, c)
  BY <1>3, <1>4, <1>5 DEF SubmitFilled, PostLast
<1>8. books.valid /\ Agrees(books) /\ clock \in Int
  BY <1>1, ConstantFacts DEF BooksOK
<1>9. /\ books' \in Account /\ books'.valid /\ Agrees(books')
      /\ Later(books, books', clock) /\ books'.funding = books.funding
  BY <1>1, <1>2, <1>3, <1>6, <1>7, <1>8, CommitFollows
<1>10. copy' \in [Requests \cup {Task} -> Copy] /\ copy'[Task] = copy[Task]
  BY <1>1, <1>2, NoCopyType DEF SubmitFilled, CopyOK
<1>11. orders' \in Seq(Order) /\ DOMAIN orders \subseteq DOMAIN orders'
  BY DEF IInv, RowsOK, SubmitFilled
<1>12. UNCHANGED <<signals, active, lastFunding, clock, run, taskVars>>
  BY DEF SubmitFilled
<1>13. QED
  BY <1>9, <1>10, <1>11, <1>12, RequestWrites

LEMMA SubmitRestingStep ==
    ASSUME IInv, NEW r \in Requests, NEW i \in Instruments, NEW buy \in BOOLEAN,
           NEW q \in 1..MaxQty, NEW limit \in Prices, NEW p \in Prices,
           SubmitResting(r, i, buy, q, limit, p)
    PROVE  IInv'
<1>1. BooksOK /\ CopyOK /\ clock \in 0..MaxClock /\ books \in Account /\ orders \in Seq(Order)
  BY DEF IInv, TimeOK, BooksOK, RowsOK
<1>2. copy[r] \in Copy /\ r # Task
  BY <1>1, CopyFacts
<1>3. PICK b \in Account : b = Seen(r) /\ Agrees(b)
  BY <1>1, <1>2, SeenSound DEF Sound
<1>4. q \in Nat
  BY ConstantFacts
<1>5. [inst |-> i, buy |-> buy, qty |-> q, limit |-> limit, status |-> "pending"] \in Order
  BY <1>4 DEF Order
<1>6. PICK o \in Order :
          o = [inst |-> i, buy |-> buy, qty |-> q, limit |-> limit, status |-> "pending"]
  BY <1>5
<1>7. Lockable(b, o) /\ Commit(r, Lock(b, o)) /\ orders' = Append(orders, o)
  BY <1>3, <1>6 DEF SubmitResting
<1>8. books.valid /\ Agrees(books) /\ clock \in Int
  BY <1>1, ConstantFacts DEF BooksOK
<1>9. Follows(b, Lock(b, o), clock)
  BY <1>3, <1>7, <1>8, LockFollows
<1>10. /\ books' \in Account /\ books'.valid /\ Agrees(books')
      /\ Later(books, books', clock) /\ books'.funding = books.funding
  BY <1>1, <1>2, <1>3, <1>7, <1>8, <1>9, CommitFollows
<1>11. copy' \in [Requests \cup {Task} -> Copy] /\ copy'[Task] = copy[Task]
  BY <1>1, <1>2, NoCopyType DEF SubmitResting, CopyOK
<1>12. orders' \in Seq(Order) /\ DOMAIN orders \subseteq DOMAIN orders'
  BY <1>1, <1>7
<1>13. UNCHANGED <<signals, active, lastFunding, clock, run, taskVars>>
  BY DEF SubmitResting
<1>14. QED
  BY <1>10, <1>11, <1>12, <1>13, RequestWrites

LEMMA SubmitStep == ASSUME IInv, NEW r \in Requests, Submit(r) PROVE IInv'
<1>1. PICK i \in Instruments, buy \in BOOLEAN, q \in 1..MaxQty, p \in Prices :
          \/ \E fee \in {TakerFee, MakerFee} :
                 SubmitFilled(r, i, IF buy THEN q ELSE -q, p, fee)
          \/ \E limit \in Prices : SubmitResting(r, i, buy, q, limit, p)
  BY DEF Submit
<1>2. (IF buy THEN q ELSE -q) \in Int /\ TakerFee \in Int /\ MakerFee \in Int
  BY ConstantFacts
<1>3. QED
  BY <1>1, <1>2, SubmitFilledStep, SubmitRestingStep

LEMMA CancelStep == ASSUME IInv, NEW o \in DOMAIN orders, Cancel(o) PROVE IInv'
<1>1. books \in Account /\ Agrees(books) /\ orders \in Seq(Order) /\ clock \in Int
  BY ConstantFacts DEF IInv, BooksOK, RowsOK, TimeOK
<1>2. orders[o] \in Order
  BY <1>1
<1>3. Follows(books, Unlock(books, orders[o]), clock)
  BY <1>1, <1>2, UnlockFollows
<1>4. books' = Unlock(books, orders[o]) /\ books'.valid
  BY DEF Cancel
<1>5. /\ books' \in Account /\ Agrees(books') /\ Later(books, books', clock)
      /\ books'.funding = books.funding
  BY <1>3, <1>4 DEF Follows
<1>6. orders' \in Seq(Order) /\ DOMAIN orders \subseteq DOMAIN orders'
  <2>1. [orders[o] EXCEPT !.status = "cancelled"] \in Order
    BY <1>2 DEF Order
  <2>2. orders' = [orders EXCEPT ![o] = [orders[o] EXCEPT !.status = "cancelled"]]
    BY DEF Cancel
  <2>3. QED
    BY <1>1, <2>1, <2>2
<1>7. copy' \in [Requests \cup {Task} -> Copy] /\ copy'[Task] = copy[Task]
  BY DEF IInv, CopyOK, Cancel
<1>8. UNCHANGED <<signals, active, lastFunding, clock, run, taskVars>>
  BY DEF Cancel
<1>9. QED
  BY <1>4, <1>5, <1>6, <1>7, <1>8, RequestWrites

LEMMA TickStep == ASSUME IInv, Tick PROVE IInv'
<1> USE DEF taskVars
<1>1. clock \in 0..MaxClock /\ clock' = clock + 1 /\ clock < MaxClock
  BY DEF IInv, TimeOK, Tick
<1>2. clock' \in 0..MaxClock /\ clock <= clock' /\ clock \in Nat
  BY <1>1, ConstantFacts
<1>3. BooksOK' /\ RowsOK' /\ CopyOK'
  BY DEF IInv, BooksOK, RowsOK, CopyOK, Tick
<1>4. TimeOK'
  BY <1>2 DEF IInv, TimeOK, Tick
<1>5. TaskOK'
  BY <1>2 DEF IInv, TaskOK, Tick
<1>6. FundingOK'
  <2>1. \A e \in books.funding : e.boundary \in Nat
    BY DEF IInv, BooksOK, Account, Settlement
  <2>2. FundingComplete'
    BY DEF IInv, FundingOK, FundingComplete, Funded, Tick
  <2>3. QED
    BY <1>2, <2>1, <2>2 DEF IInv, FundingOK, Tick
<1>7. QED
  BY <1>3, <1>4, <1>5, <1>6 DEF IInv

LEMMA ResetStep == ASSUME IInv, Reset PROVE IInv'
<1> USE DEF taskVars
<1>1. /\ books' = Opened /\ orders' = <<>> /\ lastFunding' = clock
      /\ phase = "idle" /\ UNCHANGED <<signals, active, clock, copy, taskVars>>
  BY DEF Reset, Idle
<1>2. BooksOK'
  BY <1>1, OpenedIs DEF BooksOK
<1>3. RowsOK'
  BY <1>1 DEF IInv, RowsOK, TaskOK
<1>4. TimeOK' /\ CopyOK'
  BY <1>1, ConstantFacts DEF IInv, TimeOK, CopyOK
<1>5. TaskOK'
  <2>1. moment = NoMoment /\ clock \in Nat
    BY <1>1, ConstantFacts DEF IInv, TaskOK, TimeOK
  <2>2. Len(books'.fills) = 0
    BY <1>1, OpenedIs
  <2>3. moment' \in [clock : 0..clock', place : 0..Len(books'.fills)]
    BY <1>1, <2>1, <2>2 DEF NoMoment
  <2>4. QED
    BY <1>1, <2>3 DEF IInv, TaskOK
<1>6. FundingOK'
  <2>1. \A i \in Perps, b \in 1..lastFunding' : HeldAt(books'.fills, i, b) = 0
    BY <1>1, OpenedIs, NothingHeld
  <2>2. QED
    BY <1>1, <2>1, OpenedIs DEF FundingOK, FundingComplete
<1>7. QED
  BY <1>2, <1>3, <1>4, <1>5, <1>6 DEF IInv

LEMMA RepairStep == ASSUME IInv, Repair PROVE IInv'
<1>1. PICK b \in Account : b = books /\ Agrees(b) /\ b.valid
  BY DEF IInv, BooksOK
<1>2. PICK d : d = Rebuilt(books)
  OBVIOUS
<1>3. b.fills \in Seq(Fill) /\ b.locked \in Nat
  BY DEF Account
<1>4. d.pos \in PosRows /\ d.cash \in Int /\ d.pos = Replay(b.fills)[Len(b.fills)]
  BY <1>1, <1>2, RebuiltType
<1>5. \A i \in Instruments : d.pos[i] \in Position /\ d.pos[i].qty = Held(b.fills, i)
  BY <1>3, <1>4, ReplayHeld DEF PosRows
<1>6. PICK cash \in Int : cash = d.cash - b.locked
  BY <1>3, <1>4
<1>7. PICK pos : pos = [i \in Instruments |-> [d.pos[i] EXCEPT !.mark = LastPrice(i)]]
  OBVIOUS
<1>8. \A i \in Instruments : pos[i] \in Position /\ pos[i].qty = Held(b.fills, i)
  <2>1. TAKE i \in Instruments
  <2>2. PICK x \in Int : x = LastPrice(i)
    BY <1>1, LastPriceType
  <2>3. pos[i] = [d.pos[i] EXCEPT !.mark = x]
    BY <1>7, <2>2
  <2>4. QED
    BY <1>5, <2>3 DEF Position
<1>9. pos \in [Instruments -> Position]
  BY <1>7, <1>8
<1>10. PICK base : base = [i \in Spots |-> d.pos[i].qty]
  OBVIOUS
<1>11. \A i \in Spots : base[i] \in Int /\ base[i] >= 0 /\ base[i] = pos[i].qty
  <2>1. TAKE i \in Spots
  <2>2. i \in Instruments
    BY ConstantFacts
  <2>3. base[i] = d.pos[i].qty /\ d.pos[i].qty = Held(b.fills, i) /\ pos[i].qty = Held(b.fills, i)
    BY <1>5, <1>8, <1>10, <2>2
  <2>4. d.pos[i].qty \in Int
    BY <1>5, <2>2 DEF Position
  <2>5. \A j \in Spots : d.pos[j].qty >= 0
    BY <1>2 DEF Repair
  <2>6. QED
    BY <2>3, <2>4, <2>5
<1>12. base \in [Spots -> Int]
  BY <1>10, <1>11
<1>13. PICK none \in [Spots -> Nat] : none = [i \in Spots |-> 0]
  OBVIOUS
<1>14. PICK c : c = [b EXCEPT !.cash = cash, !.quote = cash, !.pos = pos, !.base = base,
                        !.baseLocked = none]
  OBVIOUS
<1>15. books' = c
  <2>1. books' = [b EXCEPT !.cash = d.cash - b.locked, !.quote = d.cash - b.locked,
            !.pos = [i \in Instruments |-> [d.pos[i] EXCEPT !.mark = LastPrice(i)]],
            !.base = [i \in Spots |-> d.pos[i].qty],
            !.baseLocked = [i \in Spots |-> 0]]
    BY <1>1, <1>2, Zenon DEF Repair
  <2>2. QED
    BY <1>6, <1>7, <1>10, <1>13, <1>14, <2>1
<1>16. c \in Account
  <2>1. [b EXCEPT !.cash = cash, !.quote = cash, !.pos = pos, !.base = base,
             !.baseLocked = none] \in Account
    BY <1>9, <1>12, Zenon DEF Account
  <2>2. QED
    BY <1>14, <2>1
<1>17. c.pos = pos /\ c.base = base /\ c.baseLocked = none /\ c.fills = b.fills
       /\ c.funding = b.funding /\ c.valid = b.valid
  BY <1>14 DEF Account
<1>18. Agrees(c)
  BY <1>8, <1>11, <1>13, <1>17 DEF Agrees
<1>19. Later(books, books', clock)
  BY <1>1, <1>15, <1>17, SameFills
<1>20. orders' \in Seq(Order) /\ DOMAIN orders \subseteq DOMAIN orders'
  BY DEF IInv, RowsOK, Repair
<1>21. copy' \in [Requests \cup {Task} -> Copy] /\ copy'[Task] = copy[Task]
  BY DEF IInv, CopyOK, Repair
<1>22. UNCHANGED <<signals, active, lastFunding, clock, run, taskVars>>
  BY DEF Repair
<1>23. QED
  BY <1>1, <1>15, <1>16, <1>17, <1>18, <1>19, <1>20, <1>21, <1>22, RequestWrites

-----------------------------------------------------------------------------
(***************************************************************************)
(* The steps of the signals and of the task.                               *)
(***************************************************************************)

\* A sequence changed place by place.
LEMMA SeqMap ==
    ASSUME NEW S, NEW s \in Seq(S), NEW t, t = [k \in DOMAIN s |-> t[k]],
           \A k \in DOMAIN s : t[k] \in S
    PROVE  t \in Seq(S) /\ DOMAIN t = DOMAIN s /\ Len(t) = Len(s)
<1>1. PICK n \in Nat : n = Len(s) /\ DOMAIN s = 1..n
  OBVIOUS
<1>2. t \in [1..n -> S]
  BY <1>1
<1>3. QED
  BY <1>1, <1>2

LEMMA WithStatus ==
    ASSUME NEW x \in Signal,
           NEW status \in {"generated", "superseded", "expired", "rejected", "consumed"}
    PROVE  [x EXCEPT !.status = status] \in Signal
BY DEF Signal

LEMMA SupersededType ==
    ASSUME signals \in Seq(Signal), NEW i
    PROVE  Superseded(i) \in Seq(Signal) /\ DOMAIN Superseded(i) = DOMAIN signals
<1>1. PICK t : t = Superseded(i)
  OBVIOUS
<1>2. \A s \in DOMAIN signals : signals[s] \in Signal
  OBVIOUS
<1>3. ASSUME NEW s \in DOMAIN signals PROVE t[s] \in Signal
  BY <1>1, <1>2, WithStatus DEF Superseded
<1>4. t = [k \in DOMAIN signals |-> t[k]]
  BY <1>1 DEF Superseded
<1>5. QED
  BY <1>1, <1>3, <1>4, SeqMap

LEMMA ConsumeType ==
    ASSUME signals \in Seq(Signal), NEW S
    PROVE  Consume(S) \in Seq(Signal) /\ DOMAIN Consume(S) = DOMAIN signals
<1>1. PICK t : t = Consume(S)
  OBVIOUS
<1>2. \A s \in DOMAIN signals : signals[s] \in Signal
  OBVIOUS
<1>3. ASSUME NEW s \in DOMAIN signals PROVE t[s] \in Signal
  BY <1>1, <1>2, WithStatus DEF Consume
<1>4. t = [k \in DOMAIN signals |-> t[k]]
  BY <1>1 DEF Consume
<1>5. QED
  BY <1>1, <1>3, <1>4, SeqMap

LEMMA SettleType ==
    ASSUME signals \in Seq(Signal), NEW s \in DOMAIN signals,
           NEW status \in {"generated", "superseded", "expired", "rejected", "consumed"},
           Settle(s, status)
    PROVE  signals' \in Seq(Signal) /\ DOMAIN signals' = DOMAIN signals /\ uncommitted' = {}
<1>1. PICK t \in Seq(Signal) : t = Consume(uncommitted) /\ DOMAIN t = DOMAIN signals
  BY ConsumeType
<1>2. t[s] \in Signal
  BY <1>1
<1>3. [t EXCEPT ![s].status = status] = [t EXCEPT ![s] = [t[s] EXCEPT !.status = status]]
  OBVIOUS
<1>4. [t[s] EXCEPT !.status = status] \in Signal
  BY <1>2, WithStatus
<1>5. PICK x \in Signal : x = [t[s] EXCEPT !.status = status]
  BY <1>4
<1>6. [t EXCEPT ![s] = x] \in Seq(Signal) /\ DOMAIN [t EXCEPT ![s] = x] = DOMAIN t
  BY <1>1
<1>7. signals' = t \/ signals' = [t EXCEPT ![s] = x]
  BY <1>1, <1>3, <1>5 DEF Settle
<1>8. QED
  BY <1>1, <1>6, <1>7 DEF Settle

\* Only the signals change.
LEMMA OnlySignals ==
    ASSUME IInv, UNCHANGED <<books, orders, active, lastFunding, clock, run, copy, taskVars>>,
           signals' \in Seq(Signal), DOMAIN signals \subseteq DOMAIN signals'
    PROVE  IInv'
<1> USE DEF taskVars
<1>1. BooksOK' /\ RowsOK' /\ CopyOK'
  BY DEF IInv, BooksOK, RowsOK, CopyOK
<1>2. TimeOK' /\ TaskOK'
  BY DEF IInv, TimeOK, TaskOK
<1>3. FundingOK'
  BY DEF IInv, FundingOK, FundingComplete, Funded
<1>4. QED
  BY <1>1, <1>2, <1>3 DEF IInv

LEMMA DropSignalsStep == ASSUME IInv, NEW i \in Perps, DropSignals(i) PROVE IInv'
<1>1. signals' = Superseded(i) /\ signals \in Seq(Signal)
  BY DEF DropSignals, IInv, RowsOK
<1>2. signals' \in Seq(Signal) /\ DOMAIN signals' = DOMAIN signals
  BY <1>1, SupersededType
<1>3. QED
  BY <1>2, OnlySignals DEF DropSignals

LEMMA GenerateSignalStep ==
    ASSUME IInv, NEW i \in Perps, NEW target \in Targets, GenerateSignal(i, target)
    PROVE  IInv'
<1>1. PICK t \in Seq(Signal) : t = Superseded(i) /\ DOMAIN t = DOMAIN signals
  BY SupersededType DEF IInv, RowsOK
<1>2. clock + 1 \in Nat /\ target \in Int
  BY ConstantFacts DEF IInv, TimeOK
<1>3. PICK until \in Nat : until = clock + 1
  BY <1>2
<1>4. [inst |-> i, target |-> target, until |-> until, status |-> "generated"] \in Signal
  BY <1>2 DEF Signal
<1>5. PICK x \in Signal :
          x = [inst |-> i, target |-> target, until |-> clock + 1, status |-> "generated"]
  BY <1>3, <1>4
<1>6. signals' = Append(t, x)
  BY <1>1, <1>5 DEF GenerateSignal
<1>7. signals' \in Seq(Signal) /\ DOMAIN signals \subseteq DOMAIN signals'
  BY <1>1, <1>6
<1>8. QED
  BY <1>7, OnlySignals DEF GenerateSignal

LEMMA TaskStartStep == ASSUME IInv, TaskStart PROVE IInv'
<1>1. /\ phase = "idle" /\ phase' = "match" /\ rows' = Pending
      /\ copy' = [copy EXCEPT ![Task] = Loaded(books)]
      /\ moment' = [clock |-> clock, place |-> Len(books.fills)]
      /\ UNCHANGED <<books, orders, signals, active, lastFunding, clock, listed, uncommitted>>
  BY DEF TaskStart, Idle
<1>2. books \in Account /\ clock \in 0..MaxClock /\ lastFunding \in 0..clock /\ clock \in Nat
  BY ConstantFacts DEF IInv, BooksOK, TimeOK
<1>3. Loaded(books) \in Copy /\ Loaded(books).open
  BY <1>2, LoadedType
<1>4. Len(books.fills) \in Nat
  BY <1>2 DEF Account
<1>5. moment'.clock = clock /\ moment' \in [clock : 0..clock, place : 0..Len(books.fills)]
  BY <1>1, <1>2, <1>4
<1>6. BooksOK'
  BY <1>1 DEF IInv, BooksOK
<1>7. RowsOK'
  BY <1>1 DEF IInv, RowsOK, Pending
<1>8. TimeOK'
  BY <1>1, <1>2, <1>5 DEF IInv, TimeOK
<1>9. CopyOK' /\ copy'[Task].open
  BY <1>1, <1>3 DEF IInv, CopyOK
<1>10. TaskOK'
  BY <1>1, <1>5, <1>9 DEF IInv, TaskOK
<1>11. FundingOK'
  BY <1>1, <1>5 DEF IInv, FundingOK, FundingComplete, Funded
<1>12. QED
  BY <1>6, <1>7, <1>8, <1>9, <1>10, <1>11 DEF IInv

\* The task has written books that follow what it saw, and goes on.
LEMMA TaskWrites ==
    ASSUME IInv, phase # "idle", NEW at \in Int, lastFunding <= at,
           \A e \in books.funding : e.boundary <= at,
           books' \in Account, books'.valid, Agrees(books'), Later(books, books', at),
           books'.funding = books.funding,
           UNCHANGED <<active, lastFunding, clock>>,
           phase' = "idle" \/ moment'.clock = moment.clock
    PROVE  BooksOK' /\ TimeOK' /\ FundingOK' /\ Len(books.fills) <= Len(books'.fills)
           /\ Len(books.fills) \in Nat /\ Len(books'.fills) \in Nat
<1>1. BooksOK'
  BY DEF BooksOK
<1>2. TimeOK'
  BY DEF IInv, TimeOK
<1>3. lastFunding \in Nat /\ books \in Account /\ FundingComplete
  BY ConstantFacts DEF IInv, TimeOK, BooksOK, FundingOK
<1>4. FundingComplete'
  BY <1>3, FundingKept
<1>5. FundingOK'
  BY <1>4 DEF IInv, FundingOK
<1>6. Len(books.fills) <= Len(books'.fills)
  BY DEF Later
<1>7. Len(books.fills) \in Nat /\ Len(books'.fills) \in Nat
  BY <1>3 DEF Account
<1>8. QED
  BY <1>1, <1>2, <1>5, <1>6, <1>7

LEMMA ClockFacts ==
    ASSUME IInv
    PROVE  /\ clock \in Int /\ lastFunding \in Nat /\ lastFunding <= clock
           /\ \A e \in books.funding : e.boundary <= clock
           /\ moment.clock \in Nat /\ moment.clock <= clock /\ moment.clock \in 0..MaxClock
           /\ moment.place \in 0..Len(books.fills)
           /\ phase # "idle" => /\ lastFunding <= moment.clock
                                /\ \A e \in books.funding : e.boundary <= moment.clock
<1>1. clock \in 0..MaxClock /\ lastFunding \in 0..clock /\ clock \in Nat
  BY ConstantFacts DEF IInv, TimeOK
<1>2. moment.clock \in 0..clock /\ moment.place \in 0..Len(books.fills)
  BY DEF IInv, TaskOK
<1>3. moment.clock \in 0..MaxClock
  BY <1>1, <1>2, ConstantFacts
<1>4. QED
  BY <1>1, <1>2, <1>3 DEF IInv, TimeOK, FundingOK

LEMMA TaskMatchStep == ASSUME IInv, NEW quote \in Quotes, TaskMatch(quote) PROVE IInv'
<1>1. BooksOK /\ CopyOK /\ orders \in Seq(Order) /\ clock \in 0..MaxClock
      /\ books \in Account /\ books.valid /\ Agrees(books)
  BY DEF IInv, BooksOK, RowsOK, TimeOK
<1>2. copy[Task] \in Copy
  BY <1>1, CopyFacts
<1>3. PICK b : b = Matched(quote)
  OBVIOUS
<1>4. Follows(Seen(Task), b, clock)
  BY <1>1, <1>2, <1>3, SeenSound, MatchedFollows
<1>5. /\ phase = "match" /\ phase' = "fund" /\ rows' = {} /\ Commit(Task, b)
      /\ copy' = [copy EXCEPT ![Task] = Loaded(b)]
      /\ UNCHANGED <<signals, active, lastFunding, clock, run, moment, listed, uncommitted>>
  BY <1>3 DEF TaskMatch
<1>6. clock \in Int
  BY ConstantFacts, <1>1
<1>7. /\ books' \in Account /\ books'.valid /\ Agrees(books')
      /\ Later(books, books', clock) /\ books'.funding = books.funding
  BY <1>1, <1>2, <1>4, <1>5, <1>6, CommitFollows
<1>8. BooksOK' /\ TimeOK' /\ FundingOK' /\ Len(books.fills) <= Len(books'.fills)
      /\ Len(books.fills) \in Nat /\ Len(books'.fills) \in Nat
  BY <1>5, <1>7, ClockFacts, TaskWrites
<1>9. RowsOK'
  <2>1. \A o \in DOMAIN orders : orders[o] \in Order
    BY <1>1
  <2>2. ASSUME NEW o \in DOMAIN orders PROVE orders'[o] \in Order
    BY <2>1 DEF TaskMatch, Order
  <2>3. orders' = [o \in DOMAIN orders |-> orders'[o]]
    BY DEF TaskMatch
  <2>4. orders' \in Seq(Order)
    BY <1>1, <2>2, <2>3, SeqMap
  <2>5. QED
    BY <1>5, <2>4 DEF IInv, RowsOK
<1>10. Loaded(b) \in Copy /\ Loaded(b).open
  BY <1>4, LoadedType DEF Follows
<1>11. CopyOK' /\ copy'[Task].open
  BY <1>1, <1>5, <1>10 DEF CopyOK
<1>12. TaskOK'
  BY <1>5, <1>8, <1>11 DEF IInv, TaskOK
<1>13. QED
  BY <1>8, <1>9, <1>11, <1>12 DEF IInv

\* The task is over, with nothing written.
LEMMA TaskMatchFailsStep ==
    ASSUME IInv, NEW quote, TaskMatchFails(quote) PROVE IInv'
<1>1. /\ phase = "match" /\ phase' = "idle" /\ rows' = {} /\ moment' = NoMoment
      /\ copy' = [copy EXCEPT ![Task] = NoCopy]
      /\ UNCHANGED <<books, orders, signals, active, lastFunding, clock, listed, uncommitted>>
  BY DEF TaskMatchFails
<1>2. BooksOK' /\ RowsOK' /\ TimeOK' /\ FundingOK'
  BY <1>1 DEF IInv, BooksOK, RowsOK, TimeOK, FundingOK, FundingComplete, Funded
<1>3. CopyOK' /\ ~ copy'[Task].open
  BY <1>1, NoCopyType DEF IInv, CopyOK
<1>4. Len(books.fills) \in Nat /\ clock \in Nat
  BY ConstantFacts DEF IInv, BooksOK, Account, TimeOK
<1>5. TaskOK'
  BY <1>1, <1>3, <1>4 DEF IInv, TaskOK, NoMoment
<1>6. QED
  BY <1>2, <1>3, <1>5 DEF IInv

\* What funding changes.
LEMMA ChargedIs ==
    ASSUME NEW b \in Account, NEW cost \in Int, NEW new \in SUBSET Settlement
    PROVE  /\ Charged(b, cost, new) \in Account
           /\ Charged(b, cost, new).cash = b.cash - cost
           /\ Charged(b, cost, new).ledger = b.ledger - cost
           /\ Charged(b, cost, new).fundingCash = b.fundingCash - cost
           /\ Charged(b, cost, new).funding = b.funding \cup new
           /\ Charged(b, cost, new).locked = b.locked
           /\ Charged(b, cost, new).valid = b.valid
           /\ Charged(b, cost, new).pos = b.pos
           /\ Charged(b, cost, new).fills = b.fills
           /\ Charged(b, cost, new).base = b.base
           /\ Charged(b, cost, new).baseLocked = b.baseLocked
<1>1. b.cash \in Int /\ b.ledger \in Int /\ b.fundingCash \in Int /\ b.funding \in SUBSET Settlement
      /\ b.quote \in Int
  BY DEF Account
<1>2. PICK cash \in Int : cash = b.cash - cost
  BY <1>1
<1>3. PICK ledger \in Int : ledger = b.ledger - cost
  BY <1>1
<1>4. PICK sum \in Int : sum = b.fundingCash - cost
  BY <1>1
<1>5. PICK funding \in SUBSET Settlement : funding = b.funding \cup new
  BY <1>1
<1>6. PICK quote \in Int : quote = IF new = {} THEN b.quote ELSE AtLeast(0, cash)
  BY <1>1 DEF AtLeast
<1>7. PICK c : c = [b EXCEPT !.cash = cash, !.ledger = ledger, !.quote = quote,
                       !.funding = funding, !.fundingCash = sum]
  OBVIOUS
<1>8. Charged(b, cost, new) = c
  BY <1>2, <1>3, <1>4, <1>5, <1>6, <1>7 DEF Charged
<1>9. c \in Account
  <2>1. [b EXCEPT !.cash = cash, !.ledger = ledger, !.quote = quote,
             !.funding = funding, !.fundingCash = sum] \in Account
    BY Zenon DEF Account
  <2>2. QED
    BY <1>7, <2>1
<1>10. /\ c.cash = cash /\ c.ledger = ledger /\ c.fundingCash = sum /\ c.funding = funding
      /\ c.locked = b.locked /\ c.valid = b.valid /\ c.pos = b.pos
      /\ c.fills = b.fills /\ c.base = b.base /\ c.baseLocked = b.baseLocked
  BY <1>7 DEF Account
<1>11. QED
  BY <1>2, <1>3, <1>4, <1>5, <1>8, <1>9, <1>10

LEMMA TaskFundStep ==
    ASSUME IInv, NEW known, NEW rate \in Rates, NEW p \in Prices, TaskFund(known, rate, p)
    PROVE  IInv'
<1>1. books \in Account /\ lastFunding \in Nat /\ moment.clock \in Nat
  BY ClockFacts DEF IInv, BooksOK, TaskFund
<1>2. Due(known) \subseteq Settlement /\ IsFiniteSet(Due(known))
  BY <1>1, DueIs
<1>3. PICK cost \in Int : cost = Cost(Due(known), rate, p)
  BY <1>2, CostType
<1>4. LET b == Charged(Seen(Task), cost, Due(known))
      IN  /\ phase = "fund" /\ phase' = "liquidate" /\ Commit(Task, b)
          /\ copy' = [copy EXCEPT ![Task] = Loaded(b)]
          /\ lastFunding' = lastFunding + Cardinality(Passed(known))
  BY <1>3, Zenon DEF TaskFund
<1>5. UNCHANGED <<orders, signals, active, clock, moment, rows, listed, uncommitted>>
  BY DEF TaskFund
<1>6. BooksOK /\ books \in Account /\ books.valid /\ Agrees(books)
      /\ copy[Task] \in Copy /\ Seen(Task) \in Sound /\ Seen(Task).fills = books.fills
      /\ Seen(Task).funding = books.funding
  BY CopyFacts, SeenSound DEF IInv, BooksOK
<1>7. lastFunding \in Nat /\ moment.clock \in Nat /\ lastFunding <= moment.clock
      /\ moment.clock <= clock /\ clock \in Int
      /\ \A e \in books.funding : e.boundary <= moment.clock
  BY <1>4, ClockFacts
<1>8. /\ Due(known) \in SUBSET Settlement
      /\ \A e \in Due(known) :
             /\ e.boundary \in Span /\ e.boundary \in Nat /\ ~ Funded(e.inst, e.boundary)
             /\ e.qty = HeldAt(books.fills, e.inst, e.boundary)
             /\ e = [inst |-> e.inst, boundary |-> e.boundary, qty |-> e.qty]
      /\ \A b \in Passed(known), i \in Perps :
             HeldAt(books.fills, i, b) # 0 =>
                 Funded(i, b) \/ \E e \in Due(known) : e.inst = i /\ e.boundary = b
  BY <1>6, <1>7, DueIs
<1>9. PICK b : b = Charged(Seen(Task), cost, Due(known))
  OBVIOUS
<1>10. PICK s \in Account : s = Seen(Task) /\ Agrees(s)
  BY <1>6 DEF Sound
<1>11. /\ b \in Account /\ b.funding = books.funding \cup Due(known) /\ b.valid = s.valid
      /\ b.pos = s.pos /\ b.fills = s.fills /\ b.base = s.base /\ b.baseLocked = s.baseLocked
  BY <1>6, <1>8, <1>9, <1>10, ChargedIs
<1>12. Agrees(b)
  BY <1>10, <1>11 DEF Agrees
<1>13. PICK w : w = Written(Task, b)
  OBVIOUS
<1>14. books' = w /\ b.valid
  BY <1>4, <1>9, <1>13 DEF Commit
<1>15. /\ w \in Account /\ Agrees(w)
       /\ w.valid = b.valid /\ w.fills = b.fills /\ w.funding = b.funding
  BY <1>6, <1>11, <1>12, <1>13, <1>14, WrittenIs
<1>17. books'.funding = books.funding \cup Due(known) /\ books'.fills = books.fills
  BY <1>6, <1>10, <1>11, <1>14, <1>15
<1>18. BooksOK'
  BY <1>14, <1>15 DEF BooksOK
<1>19. RowsOK'
  BY <1>5 DEF IInv, RowsOK
<1>20. Loaded(b) \in Copy /\ Loaded(b).open
  BY <1>11, LoadedType
<1>21. CopyOK' /\ copy'[Task].open
  BY <1>4, <1>9, <1>20 DEF IInv, CopyOK
<1>22. PICK m \in lastFunding..moment.clock :
           Passed(known) = (lastFunding + 1)..m /\ lastFunding' = m
  <2>1. PICK m \in lastFunding..moment.clock :
            /\ Passed(known) = (lastFunding + 1)..m
            /\ Cardinality(Passed(known)) = m - lastFunding
    BY <1>7, PassedIs
  <2>2. lastFunding' = m
    BY <1>4, <1>7, <2>1
  <2>3. QED
    BY <2>1, <2>2
<1>23. TimeOK'
  BY <1>5, <1>7, <1>22 DEF IInv, TimeOK
<1>24. TaskOK'
  BY <1>4, <1>5, <1>17, <1>21 DEF IInv, TaskOK
<1>25. FundingOK'
  <2>1. ASSUME NEW b1 \in 1..lastFunding', NEW i \in Perps, HeldAt(books'.fills, i, b1) # 0
        PROVE  \E e \in books'.funding : e.inst = i /\ e.boundary = b1
    <3>1. CASE b1 <= lastFunding
      <4>1. Funded(i, b1)
        BY <1>7, <1>17, <2>1, <3>1 DEF IInv, FundingOK, FundingComplete
      <4>2. QED
        BY <1>17, <4>1 DEF Funded
    <3>2. CASE b1 > lastFunding
      <4>1. b1 \in Passed(known)
        BY <1>7, <1>22, <3>2
      <4>2. Funded(i, b1) \/ \E e \in Due(known) : e.inst = i /\ e.boundary = b1
        BY <1>8, <1>17, <2>1, <4>1
      <4>3. QED
        BY <1>17, <4>2 DEF Funded
    <3>3. QED
      BY <1>7, <3>1, <3>2
  <2>2. ASSUME NEW e \in books'.funding
        PROVE  e.qty = HeldAt(books'.fills, e.inst, e.boundary)
    BY <1>8, <1>17 DEF IInv, FundingOK, FundingComplete
  <2>3. ASSUME NEW e \in books'.funding, NEW d \in books'.funding,
               d.inst = e.inst, d.boundary = e.boundary
        PROVE  d = e
    <3>1. CASE e \in books.funding /\ d \in books.funding
      BY <2>3, <3>1 DEF IInv, FundingOK, FundingComplete
    <3>2. CASE e \in Due(known) /\ d \in Due(known)
      <4>1. d.qty = e.qty
        BY <1>8, <2>3, <3>2
      <4>2. QED
        BY <1>8, <2>3, <3>2, <4>1
    <3>3. CASE e \in books.funding /\ d \in Due(known)
      BY <1>8, <2>3, <3>3 DEF Funded
    <3>4. CASE d \in books.funding /\ e \in Due(known)
      BY <1>8, <2>3, <3>4 DEF Funded
    <3>5. QED
      BY <1>17, <3>1, <3>2, <3>3, <3>4
  <2>4. ASSUME NEW e \in books'.funding PROVE e.boundary <= moment.clock /\ e.boundary \in Nat
    <3>1. Due(known) \subseteq Settlement /\ books.funding \subseteq Settlement
      BY <1>6, <1>8 DEF Account
    <3>2. \A x \in Span : x <= moment.clock
      BY <1>7 DEF Span
    <3>3. QED
      BY <1>7, <1>8, <1>17, <3>1, <3>2 DEF Settlement
  <2>5. FundingComplete'
    BY <2>1, <2>2, <2>3 DEF FundingComplete, Funded
  <2>6. QED
    BY <1>5, <1>7, <2>4, <2>5 DEF FundingOK
<1>26. QED
  BY <1>18, <1>19, <1>21, <1>23, <1>24, <1>25 DEF IInv

LEMMA QuoteSet ==
    ASSUME NEW b \in Sound, NEW q \in Int, NEW at \in Int
    PROVE  Follows(b, [b EXCEPT !.quote = q], at)
<1>1. PICK c : c = [b EXCEPT !.quote = q]
  OBVIOUS
<1>2. c \in Account
  <2>1. [b EXCEPT !.quote = q] \in Account
    BY Zenon DEF Account, Sound
  <2>2. QED
    BY <1>1, <2>1
<1>3. /\ c.cash = b.cash /\ c.ledger = b.ledger /\ c.fundingCash = b.fundingCash
      /\ c.funding = b.funding /\ c.locked = b.locked /\ c.valid = b.valid /\ c.pos = b.pos
      /\ c.fills = b.fills /\ c.base = b.base /\ c.baseLocked = b.baseLocked
  BY <1>1 DEF Account, Sound
<1>4. Agrees(c) /\ Excess(c) = Excess(b)
  BY <1>3 DEF Agrees, Excess, Sound
<1>5. Later(b, c, at)
  BY <1>3, SameFills DEF Sound
<1>6. QED
  BY <1>1, <1>2, <1>3, <1>4, <1>5 DEF Follows

\* The task goes on to the signals, or is over.
LEMMA ThenSignalsKeeps ==
    ASSUME IInv, phase = "liquidate", NEW b \in Account, ThenSignals(b),
           BooksOK', TimeOK', FundingOK', Len(books.fills) <= Len(books'.fills),
           Len(books.fills) \in Nat, Len(books'.fills) \in Nat,
           UNCHANGED <<orders, signals, clock, rows>>
    PROVE  IInv'
<1>1. RowsOK'
  BY DEF IInv, RowsOK, ThenSignals, Generated
<1>2. Loaded(b) \in Copy /\ Loaded(b).open /\ NoCopy \in Copy /\ ~ NoCopy.open
  BY LoadedType, NoCopyType
<1>3. CopyOK'
  BY <1>2 DEF IInv, CopyOK, ThenSignals
<1>4. rows' = {} /\ clock \in Nat
  BY ConstantFacts DEF IInv, TaskOK, TimeOK
<1>5. CASE Generated = {}
  <2>1. phase' = "idle" /\ listed' = {} /\ moment' = NoMoment /\ ~ copy'[Task].open
    BY <1>2, <1>5 DEF ThenSignals, IInv, CopyOK
  <2>2. TaskOK'
    BY <1>4, <2>1 DEF TaskOK, NoMoment
  <2>3. QED
    BY <1>1, <1>3, <2>2 DEF IInv
<1>6. CASE Generated # {}
  <2>1. phase' = "signals" /\ listed' # {} /\ moment' = moment /\ copy'[Task].open
    BY <1>2, <1>6 DEF ThenSignals, IInv, CopyOK
  <2>2. moment' \in [clock : 0..clock', place : 0..Len(books'.fills)]
    BY <2>1 DEF IInv, TaskOK
  <2>3. TaskOK'
    BY <1>4, <2>1, <2>2 DEF TaskOK
  <2>4. QED
    BY <1>1, <1>3, <2>3 DEF IInv
<1>7. QED
  BY <1>5, <1>6

\* What liquidation writes follows what it saw.
LEMMA LiquidateFollows ==
    ASSUME IInv, NEW mark \in [Exposed -> Prices], TaskLiquidate(mark)
    PROVE  \E b \in Account : /\ Follows(Seen(Task), b, clock)
                              /\ Commit(Task, b) /\ ThenSignals(b)
<1>1. BooksOK /\ CopyOK /\ books \in Account /\ clock \in 0..MaxClock
  BY DEF IInv, BooksOK, TimeOK
<1>2. copy[Task] \in Copy /\ clock \in Int
  BY <1>1, CopyFacts, ConstantFacts
<1>3. Seen(Task) \in Sound /\ Seen(Task) \in Account
  BY <1>1, <1>2, SeenSound
<1>4. PICK m : m = Marked(mark)
  OBVIOUS
<1>5. Follows(Seen(Task), m, clock) /\ m \in Sound /\ m \in Account
  BY <1>1, <1>2, <1>3, <1>4, MarkedFollows DEF Follows, Sound
<1>6. PICK c : c = Closed(mark)
  OBVIOUS
<1>7. Follows(m, c, clock) /\ c \in Sound /\ c \in Account
  BY <1>1, <1>3, <1>4, <1>5, <1>6, ClosedFollows DEF Follows, Sound
<1>8. PICK q \in Int : q = AtLeast(0, c.cash)
  BY <1>7 DEF Account, AtLeast
<1>9. PICK d : d = [c EXCEPT !.quote = q]
  OBVIOUS
<1>10. Follows(c, d, clock)
  BY <1>2, <1>7, <1>9, QuoteSet
<1>11. Follows(Seen(Task), d, clock)
  <2>1. Follows(Seen(Task), c, clock)
    BY <1>2, <1>3, <1>5, <1>7, FollowsOn
  <2>2. QED
    BY <1>2, <1>3, <1>7, <1>10, <2>1, FollowsOn
<1>12. \E p : LET b2 == IF p THEN Marked(mark)
                         ELSE [Closed(mark) EXCEPT !.quote = AtLeast(0, Closed(mark).cash)]
              IN  Commit(Task, b2) /\ ThenSignals(b2)
  BY Zenon DEF TaskLiquidate
<1>13. \/ Commit(Task, m) /\ ThenSignals(m)
       \/ Commit(Task, d) /\ ThenSignals(d)
  BY <1>4, <1>6, <1>8, <1>9, <1>12, Zenon
<1>14. QED
  BY <1>5, <1>11, <1>13 DEF Follows

LEMMA TaskLiquidateStep ==
    ASSUME IInv, NEW mark \in [Exposed -> Prices], TaskLiquidate(mark) PROVE IInv'
<1>1. PICK b \in Account : /\ Follows(Seen(Task), b, clock)
                           /\ Commit(Task, b) /\ ThenSignals(b)
  BY LiquidateFollows
<1>2. BooksOK /\ CopyOK /\ books \in Account /\ books.valid /\ Agrees(books) /\ clock \in Int
  BY ClockFacts DEF IInv, BooksOK
<1>3. copy[Task] \in Copy
  BY <1>2, CopyFacts
<1>4. /\ books' \in Account /\ books'.valid /\ Agrees(books')
      /\ Later(books, books', clock) /\ books'.funding = books.funding
  BY <1>1, <1>2, <1>3, CommitFollows
<1>5. phase = "liquidate" /\ UNCHANGED <<orders, signals, active, lastFunding, clock, rows>>
  BY DEF TaskLiquidate
<1>6. phase' = "idle" \/ moment'.clock = moment.clock
  BY <1>1 DEF ThenSignals
<1>7. /\ BooksOK' /\ TimeOK' /\ FundingOK' /\ Len(books.fills) <= Len(books'.fills)
      /\ Len(books.fills) \in Nat /\ Len(books'.fills) \in Nat
  BY <1>2, <1>4, <1>5, <1>6, ClockFacts, TaskWrites
<1>8. QED
  BY <1>1, <1>5, <1>7, ThenSignalsKeeps

LEMMA TaskLiquidateFailsStep == ASSUME IInv, TaskLiquidateFails PROVE IInv'
<1>1. /\ phase = "liquidate" /\ ThenSignals(books)
      /\ UNCHANGED <<books, orders, signals, active, lastFunding, clock, rows>>
  BY DEF TaskLiquidateFails
<1>2. books \in Account /\ Len(books.fills) \in Nat
  BY DEF IInv, BooksOK, Account
<1>3. BooksOK'
  BY <1>1 DEF IInv, BooksOK
<1>4. phase' = "idle" \/ moment' = moment
  BY <1>1 DEF ThenSignals
<1>5. TimeOK' /\ FundingOK'
  BY <1>1, <1>4 DEF IInv, TimeOK, FundingOK, FundingComplete, Funded
<1>6. QED
  BY <1>1, <1>2, <1>3, <1>5, ThenSignalsKeeps

-----------------------------------------------------------------------------
(***************************************************************************)
(* Signals.                                                                *)
(***************************************************************************)

\* There is an oldest signal among those listed.
LEMMA OldestIs ==
    ASSUME signals \in Seq(Signal), listed \subseteq DOMAIN signals, listed # {}
    PROVE  Oldest \in listed /\ Oldest \in DOMAIN signals
<1>1. listed \subseteq Nat
  <2>1. DOMAIN signals = 1..Len(signals)
    OBVIOUS
  <2>2. QED
    BY <2>1
<1>2. PICK m \in listed : \A n \in listed : m <= n
  BY <1>1, Least
<1>3. Oldest = CHOOSE x \in listed : \A y \in listed : x <= y
  BY DEF Oldest, Min
<1>4. QED
  BY <1>2, <1>3

\* On to the next signal, with `filled` fills more.
LEMMA ThenNextKeeps ==
    ASSUME IInv, phase = "signals", NEW b \in Account, NEW filled \in 0..1, ThenNext(b, filled),
           BooksOK', TimeOK', FundingOK', Len(books.fills) + filled <= Len(books'.fills),
           Len(books.fills) \in Nat, Len(books'.fills) \in Nat,
           signals' \in Seq(Signal), DOMAIN signals' = DOMAIN signals,
           uncommitted' \subseteq DOMAIN signals
    PROVE  IInv'
<1>1. UNCHANGED <<orders, active, lastFunding, clock, rows>> /\ listed' = listed \ {Oldest}
  BY DEF ThenNext
<1>2. RowsOK'
  BY <1>1 DEF IInv, RowsOK
<1>3. Loaded(b) \in Copy /\ Loaded(b).open /\ NoCopy \in Copy /\ ~ NoCopy.open
  BY LoadedType, NoCopyType
<1>4. CopyOK'
  BY <1>3 DEF IInv, CopyOK, ThenNext
<1>5. rows' = {} /\ clock' = clock /\ clock \in Nat
  BY <1>1, ConstantFacts DEF IInv, TaskOK, TimeOK
<1>6. listed # {} /\ Oldest \in listed
  BY OldestIs DEF IInv, RowsOK, TaskOK
<1>7. CASE listed = {Oldest} /\ uncommitted' = {}
  <2>1. phase' = "idle" /\ listed' = {} /\ moment' = NoMoment /\ ~ copy'[Task].open
    BY <1>3, <1>7 DEF ThenNext, IInv, CopyOK
  <2>2. TaskOK'
    BY <1>5, <2>1 DEF TaskOK, NoMoment
  <2>3. QED
    BY <1>2, <1>4, <2>2 DEF IInv
<1>8. CASE ~ (listed = {Oldest} /\ uncommitted' = {})
  <2>1. /\ phase' = IF listed = {Oldest} THEN "close" ELSE "signals"
        /\ moment' = [moment EXCEPT !.place = @ + filled] /\ copy'[Task].open
    BY <1>3, <1>8 DEF ThenNext, IInv, CopyOK
  <2>2. listed' # {} <=> phase' = "signals"
    BY <1>1, <1>6, <2>1
  <2>3. moment.clock \in 0..clock /\ moment.place \in 0..Len(books.fills)
        /\ moment \in [clock : 0..clock, place : 0..Len(books.fills)]
    BY DEF IInv, TaskOK
  <2>4. PICK n \in 0..Len(books'.fills) : n = moment.place + filled
    BY <2>3
  <2>5. moment' = [clock |-> moment.clock, place |-> n]
    BY <2>1, <2>3, <2>4
  <2>6. moment' \in [clock : 0..clock', place : 0..Len(books'.fills)]
    BY <1>5, <2>3, <2>5
  <2>7. TaskOK'
    BY <1>5, <2>1, <2>2, <2>6 DEF TaskOK
  <2>8. QED
    BY <1>2, <1>4, <2>7 DEF IInv
<1>9. QED
  BY <1>7, <1>8

\* A signal that leaves the books alone.
LEMMA UnfilledKeeps ==
    ASSUME IInv, phase = "signals", Unfilled,
           signals' \in Seq(Signal), DOMAIN signals' = DOMAIN signals,
           uncommitted' \subseteq DOMAIN signals
    PROVE  IInv'
<1>1. ThenNext(Seen(Task), 0) /\ UNCHANGED <<books, active, lastFunding, clock>>
  BY DEF Unfilled, ThenNext
<1>2. books \in Account /\ Len(books.fills) \in Nat
  BY DEF IInv, BooksOK, Account
<1>3. Seen(Task) \in Account
  BY CopyFacts, SeenSound DEF IInv
<1>4. moment.clock \in Nat /\ moment \in [clock : 0..clock, place : 0..Len(books.fills)]
  BY ClockFacts DEF IInv, TaskOK
<1>5. phase' = "idle" \/ moment'.clock = moment.clock
  BY <1>1, <1>4 DEF ThenNext
<1>6. BooksOK' /\ TimeOK' /\ FundingOK'
  BY <1>1, <1>5 DEF IInv, BooksOK, TimeOK, FundingOK, FundingComplete, Funded
<1>7. Len(books.fills) + 0 <= Len(books'.fills)
  BY <1>1, <1>2
<1>8. QED
  BY <1>1, <1>2, <1>3, <1>6, <1>7, ThenNextKeeps

LEMMA SignalSkippedStep == ASSUME IInv, SignalSkipped PROVE IInv'
BY UnfilledKeeps DEF SignalSkipped, IInv, RowsOK

LEMMA SignalLapsedStep ==
    ASSUME IInv, phase = "signals", NEW s \in DOMAIN signals, SignalLapsed(s) PROVE IInv'
<1>1. signals' \in Seq(Signal) /\ DOMAIN signals' = DOMAIN signals /\ uncommitted' = {}
  BY SettleType DEF SignalLapsed, IInv, RowsOK
<1>2. QED
  BY <1>1, UnfilledKeeps DEF SignalLapsed

LEMMA SignalNoDeltaStep ==
    ASSUME IInv, phase = "signals", NEW s \in DOMAIN signals, NEW p, SignalNoDelta(s, p)
    PROVE  IInv'
<1>1. uncommitted' \subseteq DOMAIN signals /\ signals' = signals /\ Unfilled
  BY DEF SignalNoDelta, IInv, RowsOK
<1>2. QED
  BY <1>1, UnfilledKeeps DEF IInv, RowsOK

LEMMA SignalRejectedStep ==
    ASSUME IInv, phase = "signals", NEW s \in DOMAIN signals, NEW p, SignalRejected(s, p)
    PROVE  IInv'
<1>1. Settle(s, "rejected") /\ Unfilled
  BY DEF SignalRejected
<1>2. signals' \in Seq(Signal) /\ DOMAIN signals' = DOMAIN signals /\ uncommitted' = {}
  BY <1>1, SettleType DEF IInv, RowsOK
<1>3. QED
  BY <1>1, <1>2, UnfilledKeeps

LEMMA TargetType ==
    ASSUME NEW b \in Account, Seen(Task) = b, NEW target \in Int, NEW p \in Prices
    PROVE  TargetQty(target, p) \in Int
<1>1. PICK n \in Int : n = Nav(Seen(Task))
  BY NavType
<1>2. PICK m \in Int : m = target * n
  OBVIOUS
<1>3. PICK k \in Nat : k = Size(m)
  BY SizeFacts
<1>4. PICK d \in Nat : d = p * Unit /\ d > 0
  BY ConstantFacts
<1>5. k \div d \in Int
  BY <1>4
<1>6. QED
  BY <1>1, <1>2, <1>3, <1>4, <1>5 DEF TargetQty

\* The fill of a signal, at the task's moment and place.
LEMMA SignalFilledIs ==
    ASSUME IInv, phase = "signals", NEW s \in DOMAIN signals, NEW p \in Prices,
           SignalFilled(s, p)
    PROVE  \E f \in Fill :
               /\ f.at = moment.clock /\ f.inst = signals[s].inst
               /\ moment.place + 1 \in 1..(Len(Seen(Task).fills) + 1)
               /\ Commit(Task, Post(Seen(Task), f, moment.place + 1))
               /\ Settle(s, "consumed")
               /\ ThenNext(Post(Seen(Task), f, moment.place + 1), 1)
<1>1. books \in Account /\ signals[s] \in Signal
  BY DEF IInv, BooksOK, RowsOK
<1>2. Seen(Task) \in Account /\ Seen(Task).fills = books.fills
  BY CopyFacts, SeenSound DEF IInv
<1>3. signals[s].inst \in Instruments /\ signals[s].target \in Int
  BY <1>1, ConstantFacts DEF Signal
<1>4. PICK i \in Instruments : i = signals[s].inst
  BY <1>3
<1>5. PICK t \in Int : t = TargetQty(signals[s].target, p)
  BY <1>2, <1>3, TargetType
<1>6. Own(i).qty \in Int
  BY <1>2, OwnIs DEF Account, Position
<1>7. PICK q \in Int : q = t - Own(i).qty
  BY <1>6
<1>8. moment.clock \in 0..MaxClock /\ moment.place \in 0..Len(books.fills)
      /\ Len(books.fills) \in Nat
  BY <1>1, ClockFacts DEF Account
<1>9. FillOf(i, q, p, TakerFee, moment.clock) \in Fill
  BY <1>8, FillOfType, ConstantFacts
<1>10. PICK f \in Fill : f = FillOf(i, q, p, TakerFee, moment.clock)
  BY <1>9
<1>11. f.at = moment.clock /\ f.inst = i
  BY <1>10 DEF FillOf
<1>12. moment.place + 1 \in 1..(Len(Seen(Task).fills) + 1)
  BY <1>2, <1>8
<1>13. /\ Commit(Task, Post(Seen(Task), f, moment.place + 1))
       /\ Settle(s, "consumed")
       /\ ThenNext(Post(Seen(Task), f, moment.place + 1), 1)
  BY <1>4, <1>5, <1>7, <1>10, Zenon DEF SignalFilled
<1>14. QED
  BY <1>4, <1>11, <1>12, <1>13

LEMMA SignalFilledStep ==
    ASSUME IInv, phase = "signals", NEW s \in DOMAIN signals, NEW p \in Prices,
           SignalFilled(s, p)
    PROVE  IInv'
<1>1. PICK f \in Fill :
          /\ f.at = moment.clock
          /\ moment.place + 1 \in 1..(Len(Seen(Task).fills) + 1)
          /\ Commit(Task, Post(Seen(Task), f, moment.place + 1))
          /\ Settle(s, "consumed")
          /\ ThenNext(Post(Seen(Task), f, moment.place + 1), 1)
  BY SignalFilledIs
<1>2. BooksOK /\ CopyOK /\ books \in Account /\ books.valid /\ Agrees(books)
      /\ moment.clock \in Int /\ signals \in Seq(Signal)
  BY ClockFacts DEF IInv, BooksOK, RowsOK
<1>3. copy[Task] \in Copy
  BY <1>2, CopyFacts
<1>4. PICK d \in Account : d = Seen(Task) /\ Agrees(d) /\ d.fills = books.fills
  BY <1>2, <1>3, SeenSound DEF Sound
<1>5. PICK k \in 1..(Len(d.fills) + 1) : k = moment.place + 1
  BY <1>1, <1>4
<1>6. PICK b : b = Post(d, f, k)
  OBVIOUS
<1>7. Follows(d, b, moment.clock) /\ b \in Account /\ b.fills = InsertAt(d.fills, k, f)
  BY <1>1, <1>4, <1>5, <1>6, PostFollows, PostIs, ZenonT(60)
<1>8. Commit(Task, b) /\ ThenNext(b, 1)
  BY <1>1, <1>4, <1>5, <1>6
<1>9. /\ books' \in Account /\ books'.valid /\ Agrees(books')
      /\ Later(books, books', moment.clock) /\ books'.funding = books.funding
      /\ books'.fills = b.fills
  BY <1>2, <1>3, <1>4, <1>7, <1>8, CommitFollows
<1>10. Len(books'.fills) = Len(books.fills) + 1
  <2>1. PICK h \in Seq(Fill) : h = d.fills
    BY <1>4 DEF Account
  <2>2. Len(InsertAt(h, k, f)) = Len(h) + 1
    BY <1>5, <2>1, InsertFacts
  <2>3. QED
    BY <1>4, <1>7, <1>9, <2>1, <2>2
<1>11. UNCHANGED <<active, lastFunding, clock>>
       /\ (phase' = "idle" \/ moment' = [moment EXCEPT !.place = @ + 1])
  BY <1>8 DEF ThenNext
<1>12. phase' = "idle" \/ moment'.clock = moment.clock
  BY <1>11 DEF IInv, TaskOK
<1>13. /\ BooksOK' /\ TimeOK' /\ FundingOK'
       /\ Len(books.fills) \in Nat /\ Len(books'.fills) \in Nat
  BY <1>2, <1>9, <1>11, <1>12, ClockFacts, TaskWrites
<1>14. signals' \in Seq(Signal) /\ DOMAIN signals' = DOMAIN signals /\ uncommitted' = {}
  BY <1>1, <1>2, SettleType
<1>15. Len(books.fills) + 1 <= Len(books'.fills)
  BY <1>10, <1>13
<1>16. QED
  BY <1>7, <1>8, <1>13, <1>14, <1>15, ThenNextKeeps

LEMMA TaskSignalStep == ASSUME IInv, TaskSignal PROVE IInv'
<1>1. phase = "signals" /\ Oldest \in DOMAIN signals
  BY OldestIs DEF TaskSignal, IInv, RowsOK, TaskOK
<1>2. PICK s \in DOMAIN signals : s = Oldest
  BY <1>1
<1>3. CASE SignalLapsed(s)
  BY <1>1, <1>3, SignalLapsedStep
<1>4. ASSUME NEW p \in Prices, SignalNoDelta(s, p) PROVE IInv'
  BY <1>1, <1>4, SignalNoDeltaStep
<1>5. ASSUME NEW p \in Prices, SignalRejected(s, p) PROVE IInv'
  BY <1>1, <1>5, SignalRejectedStep
<1>6. ASSUME NEW p \in Prices, SignalFilled(s, p) PROVE IInv'
  BY <1>1, <1>6, SignalFilledStep
<1>7. QED
  BY <1>2, <1>3, <1>4, <1>5, <1>6 DEF TaskSignal

LEMMA TaskCloseStep == ASSUME IInv, TaskClose PROVE IInv'
<1>1. /\ phase = "close" /\ phase' = "idle" /\ uncommitted' = {} /\ moment' = NoMoment
      /\ copy' = [copy EXCEPT ![Task] = NoCopy]
      /\ UNCHANGED <<books, orders, active, lastFunding, clock, rows, listed>>
  BY DEF TaskClose
<1>2. signals' \in Seq(Signal) /\ DOMAIN signals' = DOMAIN signals
  BY ConsumeType DEF TaskClose, IInv, RowsOK
<1>3. RowsOK'
  BY <1>1, <1>2 DEF IInv, RowsOK
<1>4. BooksOK' /\ TimeOK' /\ FundingOK'
  BY <1>1 DEF IInv, BooksOK, TimeOK, FundingOK, FundingComplete, Funded
<1>5. CopyOK' /\ ~ copy'[Task].open
  BY <1>1, NoCopyType DEF IInv, CopyOK
<1>6. Len(books.fills) \in Nat /\ clock \in Nat
  BY ConstantFacts DEF IInv, BooksOK, Account, TimeOK
<1>7. TaskOK'
  BY <1>1, <1>5, <1>6 DEF IInv, TaskOK, NoMoment
<1>8. QED
  BY <1>3, <1>4, <1>5, <1>7 DEF IInv

LEMMA Stutters == ASSUME IInv, UNCHANGED vars PROVE IInv'
<1> USE DEF vars
<1>1. BooksOK' /\ RowsOK' /\ TimeOK' /\ CopyOK'
  BY DEF IInv, BooksOK, RowsOK, TimeOK, CopyOK
<1>2. TaskOK'
  BY DEF IInv, TaskOK
<1>3. FundingOK'
  BY DEF IInv, FundingOK, FundingComplete, Funded
<1>4. QED
  BY <1>1, <1>2, <1>3 DEF IInv

\* Every step keeps the invariant.
LEMMA Steps == IInv /\ [Next]_vars => IInv'
<1> SUFFICES ASSUME IInv, [Next]_vars PROVE IInv'
  OBVIOUS
<1>1. CASE UNCHANGED vars
  BY <1>1, Stutters
<1>2. ASSUME NEW r \in Requests, Open(r) \/ Abandon(r) \/ Submit(r) PROVE IInv'
  BY <1>2, OpenStep, AbandonStep, SubmitStep
<1>3. ASSUME NEW o \in DOMAIN orders, Cancel(o) PROVE IInv'
  BY <1>3, CancelStep
<1>4. CASE SetStatus \/ Repair \/ Reset \/ Tick
  BY <1>4, SetStatusStep, RepairStep, ResetStep, TickStep
<1>5. ASSUME NEW i \in Perps, DropSignals(i) PROVE IInv'
  BY <1>5, DropSignalsStep
<1>6. ASSUME NEW i \in Perps, NEW target \in Targets, GenerateSignal(i, target) PROVE IInv'
  BY <1>6, GenerateSignalStep
<1>7. CASE TaskStart
  BY <1>7, TaskStartStep
<1>8. CASE TaskWork
  <2>1. ASSUME NEW quote \in Quotes, TaskMatch(quote) \/ TaskMatchFails(quote) PROVE IInv'
    BY <2>1, TaskMatchStep, TaskMatchFailsStep
  <2>2. ASSUME NEW known \in KnownRates, NEW rate \in Rates, NEW p \in Prices,
               TaskFund(known, rate, p)
        PROVE  IInv'
    BY <2>2, TaskFundStep
  <2>3. ASSUME NEW mark \in [Exposed -> Prices], TaskLiquidate(mark) PROVE IInv'
    BY <2>3, TaskLiquidateStep
  <2>4. CASE TaskLiquidateFails \/ SignalSkipped \/ TaskSignal \/ TaskClose
    BY <2>4, TaskLiquidateFailsStep, SignalSkippedStep, TaskSignalStep, TaskCloseStep
  <2>5. QED
    BY <1>8, <2>1, <2>2, <2>3, <2>4 DEF TaskWork
<1>9. ASSUME NEW s \in Requests \cup {Task}, NEW i \in Instruments, ReadRows(s, i) PROVE IInv'
  BY <1>9, ReadRowsStep
<1>10. QED
  BY <1>1, <1>2, <1>3, <1>4, <1>5, <1>6, <1>7, <1>8, <1>9 DEF Next

\* IInv holds at all times, whatever sessions overlap: it is what makes the
\* three properties below inductive.
THEOREM Invariant == Spec => []IInv
BY Starts, Steps, PTL DEF Spec

\* Every row is of its kind; no committed balance is negative, and the task's
\* list and copy exist exactly while it runs.
THEOREM TypeCorrect == Spec => []TypeOK
<1>1. IInv => TypeOK
  BY Implied
<1>2. QED
  BY <1>1, Invariant, PTL

\* With one session at a time, however many rest, fill, are cancelled, funded,
\* liquidated or repaired: apply_fill, the locks and the liquidation keep each
\* position's quantity at the sum of its fills, and each asset balance, free
\* and locked, at the spot position.  (Overlapping sessions lose updates.)
THEOREM PositionsFollow ==
    ASSUME ~ Overlap
    PROVE  Spec => []PositionsFollowFills
<1>1. IInv => PositionsFollowFills
  BY Implied
<1>2. QED
  BY <1>1, Invariant, PTL

\* apply_due_funding settles every boundary it moves past, once, for the
\* quantity the fills say was held, although requests and signals insert fills
\* while it is under way and rates may be missing.
THEOREM FundingIsComplete == Spec => []FundingComplete
<1>1. IInv => FundingComplete
  BY Implied
<1>2. QED
  BY <1>1, Invariant, PTL

-----------------------------------------------------------------------------
(***************************************************************************)
(* One session at a time: what is locked, and the ledger.                  *)
(***************************************************************************)

\* The list os of orders holds exactly what the books b have locked.
CashList(os) == [o \in DOMAIN os |-> CashHeld(os[o])]
AssetList(os, i) == [o \in DOMAIN os |-> AssetHeld(os[o], i)]
Covers(b, os) ==
    /\ b.locked = SumTo(CashList(os), Len(os))
    /\ \A i \in Spots : b.baseLocked[i] = SumTo(AssetList(os, i), Len(os))

\* The lists f and g of n numbers differ at j at most.
DiffersAt(f, g, n, j) ==
    /\ j \in 1..n
    /\ \A k \in 1..n : f[k] \in Int /\ g[k] \in Int
    /\ \A k \in 1..n : k # j => g[k] = f[k]

LEMMA SumDiffers ==
    ASSUME NEW n \in Nat, NEW f, NEW g, NEW j, DiffersAt(f, g, n, j)
    PROVE  SumTo(g, n) = SumTo(f, n) - f[j] + g[j]
BY SumChange DEF DiffersAt

LEMMA HeldTypes ==
    ASSUME NEW o \in Order, NEW i
    PROVE  CashHeld(o) \in Nat /\ AssetHeld(o, i) \in Nat
<1>1. Reserved(o) \in Nat /\ o.qty \in Nat
  BY ReservedType DEF Order
<1>2. QED
  BY <1>1 DEF CashHeld, AssetHeld

LEMMA CoversSame ==
    ASSUME NEW b, NEW c, NEW os, Covers(b, os), c.locked = b.locked, c.baseLocked = b.baseLocked
    PROVE  Covers(c, os)
BY DEF Covers

LEMMA NothingLocked == Covers(Opened, <<>>)
<1>1. Len(<<>>) = 0
  OBVIOUS
<1>2. PICK s : s = <<>> /\ Len(s) = 0
  BY <1>1
<1>3. SumTo(CashList(s), Len(s)) = 0 /\ \A i \in Spots : SumTo(AssetList(s, i), Len(s)) = 0
  BY <1>2, SumSteps
<1>4. QED
  BY <1>2, <1>3, OpenedIs DEF Covers

\* The order's status.
Ended(os, k, status) == [os EXCEPT ![k] = [os[k] EXCEPT !.status = status]]

\* An order that ends gives back exactly what it held.
LEMMA Released ==
    ASSUME NEW b \in Account, NEW os \in Seq(Order), NEW k \in 1..Len(os), NEW status,
           os[k].status = "pending", status # "pending", Covers(b, os)
    PROVE  Covers(Unlock(b, os[k]), Ended(os, k, status))
<1>1. PICK n \in Nat : n = Len(os) /\ DOMAIN os = 1..n
  OBVIOUS
<1>2. PICK o \in Order : o = os[k] /\ o.status = "pending"
  OBVIOUS
<1>3. PICK ps : ps = Ended(os, k, status)
  OBVIOUS
<1>4. /\ DOMAIN ps = 1..n /\ Len(ps) = n
      /\ \A j \in 1..n : j # k => ps[j] = os[j]
      /\ ps[k].status = status
  BY <1>1, <1>2, <1>3 DEF Ended, Order
<1>5. PICK c : c = Unlock(b, o)
  OBVIOUS
<1>6. \A j \in 1..n : os[j] \in Order
  BY <1>1
<1>7. c.locked = SumTo(CashList(ps), n)
  <2>1. PICK f : f = CashList(os)
    OBVIOUS
  <2>2. PICK g : g = CashList(ps)
    OBVIOUS
  <2>3. \A j \in 1..n : f[j] = CashHeld(os[j]) /\ g[j] = CashHeld(ps[j])
    BY <1>1, <1>4, <2>1, <2>2 DEF CashList
  <2>4. g[k] = 0
    BY <1>1, <1>4, <2>3 DEF CashHeld
  <2>5. \A j \in 1..n : f[j] \in Nat /\ g[j] \in Nat
    <3>1. TAKE j \in 1..n
    <3>2. f[j] \in Nat
      BY <1>6, <2>3, HeldTypes
    <3>3. g[j] = f[j] \/ g[j] = 0
      BY <1>4, <2>3, <2>4
    <3>4. QED
      BY <3>2, <3>3
  <2>6. SumTo(f, n) \in Nat /\ f[k] <= SumTo(f, n) /\ f[k] \in Nat
    BY <1>1, <2>5, SumBound
  <2>7. SumTo(g, n) = SumTo(f, n) - f[k] + g[k]
    <3>1. \A j \in 1..n : f[j] \in Int /\ g[j] \in Int
      BY <2>5
    <3>2. (\A j \in 1..n : j # k => g[j] = f[j]) /\ k \in 1..n
      BY <1>1, <1>4, <2>3
    <3>3. DiffersAt(f, g, n, k)
      BY <3>1, <3>2 DEF DiffersAt
    <3>4. QED
      BY <3>3, SumDiffers
  <2>8. b.locked = SumTo(f, n)
    BY <1>1, <2>1 DEF Covers
  <2>9. CASE Sells(o)
    <3>1. f[k] = 0 /\ c.locked = b.locked
      BY <1>1, <1>2, <1>5, <2>3, <2>9, UnlockIs DEF CashHeld
    <3>2. QED
      BY <2>2, <2>4, <2>6, <2>7, <2>8, <3>1
  <2>10. CASE ~ Sells(o)
    <3>1. f[k] = Reserved(o) /\ c.locked = b.locked - AtMost(b.locked, Reserved(o))
      BY <1>1, <1>2, <1>5, <2>3, <2>10, UnlockIs DEF CashHeld
    <3>2. AtMost(b.locked, Reserved(o)) = f[k]
      BY <2>6, <2>8, <3>1 DEF AtMost
    <3>3. QED
      BY <2>2, <2>4, <2>6, <2>7, <2>8, <3>1, <3>2
  <2>11. QED
    BY <2>9, <2>10
<1>8. ASSUME NEW i \in Spots PROVE c.baseLocked[i] = SumTo(AssetList(ps, i), n)
  <2>1. PICK f : f = AssetList(os, i)
    OBVIOUS
  <2>2. PICK g : g = AssetList(ps, i)
    OBVIOUS
  <2>3. \A j \in 1..n : f[j] = AssetHeld(os[j], i) /\ g[j] = AssetHeld(ps[j], i)
    BY <1>1, <1>4, <2>1, <2>2 DEF AssetList
  <2>4. g[k] = 0
    BY <1>1, <1>4, <2>3 DEF AssetHeld
  <2>5. \A j \in 1..n : f[j] \in Nat /\ g[j] \in Nat
    <3>1. TAKE j \in 1..n
    <3>2. f[j] \in Nat
      BY <1>6, <2>3, HeldTypes
    <3>3. g[j] = f[j] \/ g[j] = 0
      BY <1>4, <2>3, <2>4
    <3>4. QED
      BY <3>2, <3>3
  <2>6. SumTo(f, n) \in Nat /\ f[k] <= SumTo(f, n) /\ f[k] \in Nat
    BY <1>1, <2>5, SumBound
  <2>7. SumTo(g, n) = SumTo(f, n) - f[k] + g[k]
    <3>1. \A j \in 1..n : f[j] \in Int /\ g[j] \in Int
      BY <2>5
    <3>2. (\A j \in 1..n : j # k => g[j] = f[j]) /\ k \in 1..n
      BY <1>1, <1>4, <2>3
    <3>3. DiffersAt(f, g, n, k)
      BY <3>1, <3>2 DEF DiffersAt
    <3>4. QED
      BY <3>3, SumDiffers
  <2>8. b.baseLocked[i] = SumTo(f, n) /\ b.baseLocked \in [Spots -> Nat]
    BY <1>1, <2>1 DEF Covers, Account
  <2>9. CASE ~ Sells(o)
    <3>1. f[k] = 0 /\ c.baseLocked = b.baseLocked
      BY <1>1, <1>2, <1>5, <2>3, <2>9, UnlockIs DEF AssetHeld
    <3>2. QED
      BY <2>2, <2>4, <2>6, <2>7, <2>8, <3>1
  <2>10. CASE Sells(o)
    <3>1. c.baseLocked = [b.baseLocked EXCEPT ![o.inst] =
                             b.baseLocked[o.inst] - AtMost(b.baseLocked[o.inst], o.qty)]
      BY <1>5, <2>10, UnlockIs
    <3>2. CASE o.inst # i
      <4>1. f[k] = 0 /\ c.baseLocked[i] = b.baseLocked[i]
        BY <1>1, <1>2, <2>3, <2>8, <3>1, <3>2 DEF AssetHeld
      <4>2. QED
        BY <2>2, <2>4, <2>6, <2>7, <2>8, <4>1
    <3>3. CASE o.inst = i
      <4>1. f[k] = o.qty
        BY <1>1, <1>2, <2>3, <2>10, <3>3 DEF AssetHeld
      <4>2. c.baseLocked[i] = b.baseLocked[i] - AtMost(b.baseLocked[i], o.qty)
        BY <2>8, <3>1, <3>3
      <4>3. AtMost(b.baseLocked[i], o.qty) = f[k]
        BY <2>6, <2>8, <4>1 DEF AtMost
      <4>4. QED
        BY <2>2, <2>4, <2>6, <2>7, <2>8, <4>2, <4>3
    <3>4. QED
      BY <3>2, <3>3
  <2>11. QED
    BY <2>9, <2>10
<1>9. QED
  BY <1>2, <1>3, <1>4, <1>5, <1>7, <1>8 DEF Covers

\* An order that is placed holds exactly what is locked for it.
LEMMA Placed ==
    ASSUME NEW b \in Account, NEW os \in Seq(Order), NEW o \in Order,
           o.status = "pending", Lockable(b, o), Covers(b, os)
    PROVE  Covers(Lock(b, o), Append(os, o))
<1>1. PICK n \in Nat : n = Len(os) /\ DOMAIN os = 1..n
  OBVIOUS
<1>2. PICK ps : ps = Append(os, o)
  OBVIOUS
<1>3. /\ DOMAIN ps = 1..(n + 1) /\ Len(ps) = n + 1 /\ ps[n + 1] = o
      /\ \A j \in 1..n : ps[j] = os[j] /\ os[j] \in Order
  BY <1>1, <1>2
<1>4. PICK c : c = Lock(b, o)
  OBVIOUS
<1>5. b.locked \in Nat /\ b.baseLocked \in [Spots -> Nat]
  BY DEF Account
<1>6. c.locked = SumTo(CashList(ps), n + 1)
  <2>1. PICK f : f = CashList(os)
    OBVIOUS
  <2>2. PICK g : g = CashList(ps)
    OBVIOUS
  <2>3. (\A j \in 1..n : f[j] = g[j]) /\ g[n + 1] = CashHeld(o)
    BY <1>1, <1>3, <2>1, <2>2 DEF CashList
  <2>4. SumTo(g, n + 1) = b.locked + CashHeld(o)
    <3>1. SumTo(g, n) = SumTo(f, n)
      BY <2>3, SumEqual
    <3>2. SumTo(g, n + 1) = SumTo(g, n) + g[n + 1]
      BY SumSteps
    <3>3. b.locked = SumTo(f, n)
      BY <1>1, <2>1 DEF Covers
    <3>4. QED
      BY <2>3, <3>1, <3>2, <3>3
  <2>5. c.locked = b.locked + CashHeld(o)
    <3>1. CASE Sells(o)
      <4>1. c.locked = b.locked
        BY <1>4, <3>1, LockIs
      <4>2. QED
        BY <1>5, <3>1, <4>1 DEF CashHeld
    <3>2. CASE ~ Sells(o)
      <4>1. c.locked = b.locked + Reserved(o)
        BY <1>4, <3>2, LockIs
      <4>2. QED
        BY <3>2, <4>1 DEF CashHeld
    <3>3. QED
      BY <3>1, <3>2
  <2>6. QED
    BY <2>2, <2>4, <2>5
<1>7. ASSUME NEW i \in Spots PROVE c.baseLocked[i] = SumTo(AssetList(ps, i), n + 1)
  <2>1. PICK f : f = AssetList(os, i)
    OBVIOUS
  <2>2. PICK g : g = AssetList(ps, i)
    OBVIOUS
  <2>3. (\A j \in 1..n : f[j] = g[j]) /\ g[n + 1] = AssetHeld(o, i)
    BY <1>1, <1>3, <2>1, <2>2 DEF AssetList
  <2>4. SumTo(g, n + 1) = b.baseLocked[i] + AssetHeld(o, i)
    <3>1. SumTo(g, n) = SumTo(f, n)
      BY <2>3, SumEqual
    <3>2. SumTo(g, n + 1) = SumTo(g, n) + g[n + 1]
      BY SumSteps
    <3>3. b.baseLocked[i] = SumTo(f, n)
      BY <1>1, <2>1 DEF Covers
    <3>4. QED
      BY <2>3, <3>1, <3>2, <3>3
  <2>5. c.baseLocked[i] = b.baseLocked[i] + AssetHeld(o, i)
    <3>1. CASE Sells(o)
      <4>1. c.baseLocked = [b.baseLocked EXCEPT ![o.inst] = b.baseLocked[o.inst] + o.qty]
        BY <1>4, <3>1, LockIs
      <4>2. QED
        BY <1>5, <3>1, <4>1 DEF AssetHeld
    <3>2. CASE ~ Sells(o)
      <4>1. c.baseLocked = b.baseLocked
        BY <1>4, <3>2, LockIs
      <4>2. QED
        BY <1>5, <3>2, <4>1 DEF AssetHeld
    <3>3. QED
      BY <3>1, <3>2
  <2>6. QED
    BY <2>2, <2>4, <2>5
<1>8. QED
  BY <1>2, <1>3, <1>4, <1>6, <1>7 DEF Covers

\* Sessions are alone: what each has loaded is what the books hold, and the
\* orders the task has loaded are still pending.
Alone ==
    /\ \A r \in Requests : copy[r].open =>
           /\ phase = "idle" /\ copy[r].cash = books.cash /\ copy[r].locked = books.locked
           /\ \A q \in Requests : copy[q].open => q = r
    /\ phase # "idle" => copy[Task].cash = books.cash /\ copy[Task].locked = books.locked
    /\ rows \subseteq Pending

\* The ledger and the locks account for all the cash and assets.
Conserved == Excess(books) = 0 /\ Covers(books, orders)

LEMMA ConservedIs ==
    ASSUME books \in Account
    PROVE  Conserved <=> LedgerExplainsCash /\ LocksCoverOrders
<1>1. Excess(books) = 0 <=> LedgerExplainsCash
  BY DEF Excess, LedgerExplainsCash, Account
<1>2. Covers(books, orders) <=> LocksCoverOrders
  BY Zenon DEF Covers, LocksCoverOrders, CashList, AssetList
<1>3. QED
  BY <1>1, <1>2 DEF Conserved

\* What a session alone commits is what it computed.
LEMMA Wrote ==
    ASSUME ~ Overlap, BooksOK, NEW s, copy[s] \in Copy,
           copy[s].cash = books.cash, copy[s].locked = books.locked,
           NEW b \in Account, Commit(s, b)
    PROVE  /\ books'.cash = b.cash /\ books'.locked = b.locked
           /\ books'.baseLocked = b.baseLocked /\ Excess(books') = Excess(b)
           /\ Loaded(b).cash = books'.cash /\ Loaded(b).locked = books'.locked
           /\ AllButCash(b, books')
<1>1. PICK c : c = Written(s, b)
  OBVIOUS
<1>2. c \in Account /\ AllButCash(b, c) /\ c.cash = b.cash /\ c.locked = b.locked
  BY <1>1, WrittenIs DEF Column
<1>3. books' = c
  BY <1>1 DEF Commit
<1>4. QED
  BY <1>2, <1>3, LoadedType DEF AllButCash, Excess

\* What a session alone sees is what there is.
LEMMA Saw ==
    ASSUME ~ Overlap, BooksOK, NEW s, copy[s] \in Copy,
           copy[s].cash = books.cash, copy[s].locked = books.locked
    PROVE  /\ Seen(s).cash = books.cash /\ Seen(s).locked = books.locked
           /\ Seen(s).baseLocked = books.baseLocked /\ Excess(Seen(s)) = Excess(books)
           /\ AllButCash(books, Seen(s))
<1>1. AllButCash(books, Seen(s)) /\ Seen(s).cash = books.cash /\ Seen(s).locked = books.locked
  BY SeenIs
<1>2. QED
  BY <1>1 DEF AllButCash, Excess

LEMMA StartsAlone == Init => Alone /\ Conserved
<1> SUFFICES ASSUME Init PROVE Alone /\ Conserved
  OBVIOUS
<1>1. Alone
  BY NoCopyType DEF Init, Alone
<1>2. Excess(Opened) = 0
  <2>1. Initial \in Int
    BY ConstantFacts
  <2>2. QED
    BY <2>1, OpenedIs DEF Excess
<1>3. QED
  BY <1>1, <1>2, NothingLocked DEF Init, Conserved

\* A step of the task.
LEMMA TaskAlone ==
    ASSUME ~ Overlap, IInv, IInv', Alone, phase # "idle", phase' # "match",
           copy' = [copy EXCEPT ![Task] = copy'[Task]],
           phase' # "idle" => copy'[Task].cash = books'.cash /\ copy'[Task].locked = books'.locked
    PROVE  Alone'
<1>1. \A r \in Requests : ~ copy[r].open
  BY DEF Alone
<1>2. \A r \in Requests : copy'[r] = copy[r]
  BY CopyFacts DEF IInv, CopyOK
<1>3. rows' = {}
  BY DEF IInv, TaskOK
<1>4. QED
  BY <1>1, <1>2, <1>3 DEF Alone

\* A step made while nobody has a session, or the only one ends with it.
LEMMA RequestAlone ==
    ASSUME IInv, IInv', phase' = "idle", \A r \in Requests : ~ copy'[r].open
    PROVE  Alone'
<1>1. rows' = {}
  BY DEF IInv, TaskOK
<1>2. QED
  BY <1>1 DEF Alone

LEMMA OpenAlone ==
    ASSUME ~ Overlap, IInv, IInv', Alone, NEW r \in Requests, Open(r)
    PROVE  Alone' /\ (Conserved => Conserved')
<1>1. phase = "idle" /\ (\A q \in Requests : ~ copy[q].open)
      /\ copy' = [copy EXCEPT ![r] = Loaded(books)]
      /\ UNCHANGED <<books, orders, phase, rows>>
  BY DEF Open, Quiet, Idle, taskVars
<1>2. copy'[r] = Loaded(books) /\ \A q \in Requests : q # r => copy'[q] = copy[q]
  BY <1>1 DEF IInv, CopyOK
<1>3. Loaded(books).cash = books.cash /\ Loaded(books).locked = books.locked
  BY DEF Loaded
<1>4. rows' = {}
  BY <1>1 DEF IInv, TaskOK
<1>5. Alone'
  BY <1>1, <1>2, <1>3, <1>4 DEF Alone
<1>6. QED
  BY <1>1, <1>5 DEF Conserved

\* The request r ends.
LEMMA Leaves ==
    ASSUME IInv, Alone, NEW r \in Requests, copy[r].open, copy' = [copy EXCEPT ![r] = NoCopy]
    PROVE  /\ phase = "idle" /\ copy[r].cash = books.cash /\ copy[r].locked = books.locked
           /\ \A q \in Requests : ~ copy'[q].open
<1>1. phase = "idle" /\ copy[r].cash = books.cash /\ copy[r].locked = books.locked
      /\ \A q \in Requests : q # r => ~ copy[q].open
  BY DEF Alone
<1>2. \A q \in Requests : ~ copy'[q].open
  BY <1>1, NoCopyType DEF IInv, CopyOK
<1>3. QED
  BY <1>1, <1>2

LEMMA AbandonAlone ==
    ASSUME ~ Overlap, IInv, IInv', Alone, NEW r \in Requests, Abandon(r)
    PROVE  Alone' /\ (Conserved => Conserved')
<1>1. copy[r].open /\ copy' = [copy EXCEPT ![r] = NoCopy] /\ UNCHANGED <<books, orders, phase>>
  BY DEF Abandon, taskVars
<1>2. Alone'
  BY <1>1, Leaves, RequestAlone
<1>3. QED
  BY <1>1, <1>2 DEF Conserved

LEMMA SubmitFilledAlone ==
    ASSUME ~ Overlap, IInv, IInv', Alone, NEW r \in Requests, NEW i \in Instruments, NEW q \in Int,
           NEW p \in Prices, NEW fee \in Int, SubmitFilled(r, i, q, p, fee)
    PROVE  Alone' /\ (Conserved => Conserved')
<1>1. copy[r].open /\ copy' = [copy EXCEPT ![r] = NoCopy] /\ UNCHANGED <<orders, phase>>
  BY DEF SubmitFilled, taskVars
<1>2. Alone' /\ copy[r].cash = books.cash /\ copy[r].locked = books.locked
  BY <1>1, Leaves, RequestAlone
<1>3. books \in Account /\ copy[r] \in Copy /\ clock \in 0..MaxClock
  BY CopyFacts DEF IInv, BooksOK, TimeOK
<1>4. PICK b \in Account : b = Seen(r) /\ Agrees(b)
  BY <1>3, SeenSound DEF Sound, IInv
<1>5. FillOf(i, q, p, fee, clock) \in Fill
  BY <1>3, FillOfType
<1>6. PICK f \in Fill : f = FillOf(i, q, p, fee, clock)
  BY <1>5
<1>7. PICK c : c = Post(b, f, Len(b.fills) + 1)
  OBVIOUS
<1>8. /\ c \in Account /\ Excess(c) = Excess(b)
      /\ c.locked = b.locked /\ c.baseLocked = b.baseLocked
  <2>1. Follows(b, c, f.at)
    BY <1>4, <1>7, PlaceLast, PostFollows
  <2>2. c.locked = b.locked /\ c.baseLocked = b.baseLocked
    BY <1>7, PlaceLast, PostIs
  <2>3. QED
    BY <2>1, <2>2 DEF Follows
<1>9. Commit(r, c)
  BY <1>4, <1>6, <1>7 DEF SubmitFilled, PostLast
<1>10. /\ Excess(books') = Excess(c) /\ books'.locked = c.locked
       /\ books'.baseLocked = c.baseLocked
  BY <1>2, <1>3, <1>8, <1>9, Wrote DEF IInv
<1>11. Excess(b) = Excess(books) /\ b.locked = books.locked /\ b.baseLocked = books.baseLocked
  BY <1>2, <1>3, <1>4, Saw DEF IInv
<1>12. ASSUME Conserved PROVE Conserved'
  BY <1>1, <1>8, <1>10, <1>11, <1>12, CoversSame DEF Conserved
<1>13. QED
  BY <1>2, <1>12

LEMMA SubmitRestingAlone ==
    ASSUME ~ Overlap, IInv, IInv', Alone, NEW r \in Requests, NEW i \in Instruments,
           NEW buy \in BOOLEAN, NEW q \in 1..MaxQty, NEW limit \in Prices, NEW p \in Prices,
           SubmitResting(r, i, buy, q, limit, p)
    PROVE  Alone' /\ (Conserved => Conserved')
<1>1. copy[r].open /\ copy' = [copy EXCEPT ![r] = NoCopy] /\ phase' = phase
  BY DEF SubmitResting, taskVars
<1>2. Alone' /\ copy[r].cash = books.cash /\ copy[r].locked = books.locked
  BY <1>1, Leaves, RequestAlone
<1>3. books \in Account /\ copy[r] \in Copy /\ orders \in Seq(Order) /\ clock \in Int
  BY CopyFacts, ConstantFacts DEF IInv, BooksOK, RowsOK, TimeOK
<1>4. PICK b \in Account : b = Seen(r) /\ Agrees(b)
  BY <1>3, SeenSound DEF Sound, IInv
<1>5. PICK o \in Order :
          o = [inst |-> i, buy |-> buy, qty |-> q, limit |-> limit, status |-> "pending"]
  <2>1. q \in Nat
    BY ConstantFacts
  <2>2. [inst |-> i, buy |-> buy, qty |-> q, limit |-> limit, status |-> "pending"] \in Order
    BY <2>1 DEF Order
  <2>3. QED
    BY <2>2
<1>6. Lockable(b, o) /\ Commit(r, Lock(b, o)) /\ orders' = Append(orders, o)
  BY <1>4, <1>5 DEF SubmitResting
<1>7. PICK c : c = Lock(b, o)
  OBVIOUS
<1>8. c \in Account /\ Excess(c) = Excess(b)
  BY <1>3, <1>4, <1>6, <1>7, LockFollows DEF Follows
<1>9. /\ Excess(books') = Excess(c) /\ books'.locked = c.locked
      /\ books'.baseLocked = c.baseLocked
  BY <1>2, <1>3, <1>6, <1>7, <1>8, Wrote DEF IInv
<1>10. Excess(b) = Excess(books) /\ b.locked = books.locked /\ b.baseLocked = books.baseLocked
  BY <1>2, <1>3, <1>4, Saw DEF IInv
<1>11. ASSUME Conserved PROVE Conserved'
  <2>1. Covers(b, orders)
    BY <1>10, <1>11, CoversSame DEF Conserved
  <2>2. o.status = "pending"
    BY <1>5
  <2>3. Covers(c, orders')
    BY <1>3, <1>6, <1>7, <2>1, <2>2, Placed
  <2>4. Covers(books', orders')
    BY <1>9, <2>3, CoversSame
  <2>5. QED
    BY <1>8, <1>9, <1>10, <1>11, <2>4 DEF Conserved
<1>12. QED
  BY <1>2, <1>11

LEMMA SubmitAlone ==
    ASSUME ~ Overlap, IInv, IInv', Alone, NEW r \in Requests, Submit(r)
    PROVE  Alone' /\ (Conserved => Conserved')
<1>1. PICK i \in Instruments, buy \in BOOLEAN, q \in 1..MaxQty, p \in Prices :
          \/ \E fee \in {TakerFee, MakerFee} :
                 SubmitFilled(r, i, IF buy THEN q ELSE -q, p, fee)
          \/ \E limit \in Prices : SubmitResting(r, i, buy, q, limit, p)
  BY DEF Submit
<1>2. (IF buy THEN q ELSE -q) \in Int /\ TakerFee \in Int /\ MakerFee \in Int
  BY ConstantFacts
<1>3. QED
  BY <1>1, <1>2, SubmitFilledAlone, SubmitRestingAlone

LEMMA CancelAlone ==
    ASSUME ~ Overlap, IInv, IInv', Alone, NEW o \in DOMAIN orders, Cancel(o)
    PROVE  Alone' /\ (Conserved => Conserved')
<1>1. /\ phase' = "idle" /\ (\A q \in Requests : ~ copy'[q].open)
      /\ books' = Unlock(books, orders[o]) /\ orders[o].status = "pending"
      /\ orders' = [orders EXCEPT ![o].status = "cancelled"]
  BY DEF Cancel, Quiet, Idle, taskVars, Pending
<1>2. Alone'
  BY <1>1, RequestAlone
<1>3. books \in Account /\ orders \in Seq(Order) /\ clock \in Int /\ Agrees(books)
  BY ConstantFacts DEF IInv, BooksOK, RowsOK, TimeOK
<1>4. orders[o] \in Order /\ o \in 1..Len(orders)
  BY <1>3
<1>5. orders' = Ended(orders, o, "cancelled")
  BY <1>1 DEF Ended
<1>6. ASSUME Conserved PROVE Conserved'
  <2>1. Excess(books') = Excess(books)
    BY <1>1, <1>3, <1>4, UnlockFollows DEF Follows
  <2>2. Covers(books', orders')
    <3>1. Covers(books, orders)
      BY <1>6 DEF Conserved
    <3>2. Covers(Unlock(books, orders[o]), Ended(orders, o, "cancelled"))
      BY <1>1, <1>3, <1>4, <3>1, Released
    <3>3. QED
      BY <1>1, <1>5, <3>2
  <2>3. QED
    BY <1>6, <2>1, <2>2 DEF Conserved
<1>7. QED
  BY <1>2, <1>6

LEMMA ResetAlone ==
    ASSUME IInv, IInv', Reset PROVE Alone' /\ Conserved'
<1>1. phase' = "idle" /\ (\A r \in Requests : ~ copy'[r].open) /\ books' = Opened /\ orders' = <<>>
  BY DEF Reset, Idle, taskVars
<1>2. Excess(Opened) = 0
  <2>1. Initial \in Int
    BY ConstantFacts
  <2>2. QED
    BY <2>1, OpenedIs DEF Excess
<1>3. QED
  BY <1>1, <1>2, RequestAlone, NothingLocked DEF Conserved

LEMMA RepairAlone ==
    ASSUME ~ Overlap, IInv, IInv', Repair PROVE Alone'
<1>1. phase' = "idle" /\ (\A r \in Requests : ~ copy'[r].open)
  BY DEF Repair, Quiet, Idle, taskVars
<1>2. QED
  BY <1>1, RequestAlone

\* A step that touches neither money nor orders nor sessions.
LEMMA OthersAlone ==
    ASSUME Alone, UNCHANGED <<books, orders, copy, taskVars>>
    PROVE  Alone' /\ (Conserved => Conserved')
BY DEF Alone, Conserved, taskVars, Pending

LEMMA TaskStartAlone ==
    ASSUME ~ Overlap, IInv, IInv', Alone, TaskStart
    PROVE  Alone' /\ (Conserved => Conserved')
<1>1. /\ (\A q \in Requests : ~ copy[q].open) /\ rows' = Pending
      /\ copy' = [copy EXCEPT ![Task] = Loaded(books)]
      /\ UNCHANGED <<books, orders>>
  BY DEF TaskStart, Quiet
<1>2. copy'[Task] = Loaded(books) /\ \A q \in Requests : copy'[q] = copy[q]
  BY <1>1, CopyFacts DEF IInv, CopyOK
<1>3. Loaded(books).cash = books.cash /\ Loaded(books).locked = books.locked
  BY DEF Loaded
<1>4. Alone'
  BY <1>1, <1>2, <1>3 DEF Alone, Pending
<1>5. QED
  BY <1>1, <1>4 DEF Conserved

\* The orders after the task has looked at the first k of them.
Looked(quote, k) ==
    [o \in DOMAIN orders |->
        IF o <= k /\ o \in rows /\ Crosses(orders[o], quote[o])
        THEN [orders[o] EXCEPT !.status = "filled"] ELSE orders[o]]

LEMMA LookedIs ==
    ASSUME orders \in Seq(Order), NEW quote, NEW k \in Nat
    PROVE  /\ Looked(quote, k) \in Seq(Order)
           /\ Len(Looked(quote, k)) = Len(orders)
           /\ DOMAIN Looked(quote, k) = DOMAIN orders
<1>1. PICK t : t = Looked(quote, k)
  OBVIOUS
<1>2. t = [o \in DOMAIN orders |-> t[o]]
  BY <1>1 DEF Looked
<1>3. \A o \in DOMAIN orders : orders[o] \in Order
  OBVIOUS
<1>4. ASSUME NEW o \in DOMAIN orders PROVE t[o] \in Order
  BY <1>1, <1>3 DEF Looked, Order
<1>5. QED
  BY <1>1, <1>2, <1>4, SeqMap

LEMMA LookedNone ==
    ASSUME orders \in Seq(Order), NEW quote
    PROVE  Looked(quote, 0) = orders
<1>1. \A o \in DOMAIN orders : ~ (o <= 0)
  OBVIOUS
<1>2. orders = [o \in DOMAIN orders |-> orders[o]]
  OBVIOUS
<1>3. QED
  BY <1>1, <1>2 DEF Looked

LEMMA LookedAll ==
    ASSUME orders \in Seq(Order), NEW quote \in Quotes, TaskMatch(quote)
    PROVE  Looked(quote, Len(orders)) = orders'
<1>1. \A o \in DOMAIN orders : o <= Len(orders)
  OBVIOUS
<1>2. QED
  BY <1>1 DEF Looked, TaskMatch

\* One more order looked at: it is filled, or left.
LEMMA LookedNext ==
    ASSUME orders \in Seq(Order), NEW quote, NEW k \in 1..Len(orders)
    PROVE  /\ Looked(quote, k - 1)[k] = orders[k]
           /\ k \in rows /\ Crosses(orders[k], quote[k]) =>
                  Looked(quote, k) = Ended(Looked(quote, k - 1), k, "filled")
           /\ ~ (k \in rows /\ Crosses(orders[k], quote[k])) =>
                  Looked(quote, k) = Looked(quote, k - 1)
<1>1. DOMAIN orders = 1..Len(orders) /\ Len(orders) \in Nat
  OBVIOUS
<1>2. PICK s : s = Looked(quote, k - 1)
  OBVIOUS
<1>3. PICK t : t = Looked(quote, k)
  OBVIOUS
<1>4. /\ DOMAIN s = DOMAIN orders /\ DOMAIN t = DOMAIN orders
      /\ s = [o \in DOMAIN orders |-> s[o]] /\ t = [o \in DOMAIN orders |-> t[o]]
  BY <1>2, <1>3 DEF Looked
<1>5. s[k] = orders[k]
  BY <1>1, <1>2 DEF Looked
<1>6. ASSUME NEW o \in DOMAIN orders, o # k PROVE t[o] = s[o]
  <2>1. o <= k <=> o <= k - 1
    BY <1>1, <1>6
  <2>2. QED
    BY <1>2, <1>3, <2>1 DEF Looked
<1>7. ASSUME k \in rows, Crosses(orders[k], quote[k])
      PROVE  t = Ended(s, k, "filled")
  <2>1. t[k] = [s[k] EXCEPT !.status = "filled"]
    BY <1>1, <1>3, <1>5, <1>7 DEF Looked
  <2>2. PICK x : x = [s[k] EXCEPT !.status = "filled"]
    OBVIOUS
  <2>3. t = [s EXCEPT ![k] = x]
    BY <1>1, <1>4, <1>6, <2>1, <2>2
  <2>4. QED
    BY <2>2, <2>3 DEF Ended
<1>8. ASSUME ~ (k \in rows /\ Crosses(orders[k], quote[k]))
      PROVE  t = s
  <2>1. t[k] = s[k]
    BY <1>1, <1>3, <1>5, <1>8 DEF Looked
  <2>2. QED
    BY <1>4, <1>6, <2>1
<1>9. QED
  BY <1>2, <1>3, <1>5, <1>7, <1>8

\* A fill leaves what is locked as it is.
LEMMA FilledCovers ==
    ASSUME NEW b \in Sound, NEW o \in Order, NEW p \in Prices, clock \in 0..MaxClock,
           NEW os, Covers(Unlock(b, o), os)
    PROVE  Covers(FilledAt(b, o, p), os)
<1>1. PICK c : c = Unlock(b, o)
  OBVIOUS
<1>2. c \in Account
  BY <1>1, UnlockIs DEF Sound
<1>3. PICK f \in Fill : f = FillOf(o.inst, Signed(o), p, MakerFee, clock)
  <2>1. o.inst \in Instruments /\ MakerFee \in Int
    BY ConstantFacts DEF Order
  <2>2. FillOf(o.inst, Signed(o), p, MakerFee, clock) \in Fill
    BY <2>1, SignedType, FillOfType
  <2>3. QED
    BY <2>2
<1>4. PICK d : d = Post(c, f, Len(c.fills) + 1)
  OBVIOUS
<1>5. FilledAt(b, o, p) = d
  BY <1>1, <1>3, <1>4, Zenon DEF FilledAt, PostLast
<1>6. d.locked = c.locked /\ d.baseLocked = c.baseLocked
  BY <1>2, <1>4, PlaceLast, PostIs, ZenonT(60)
<1>7. QED
  BY <1>1, <1>5, <1>6, CoversSame

\* process_open_orders leaves locked what the orders still open hold.
LEMMA MatchedCovers ==
    ASSUME orders \in Seq(Order), clock \in 0..MaxClock, NEW quote \in Quotes,
           Seen(Task) \in Sound, rows \subseteq Pending, Covers(Seen(Task), orders),
           TaskMatch(quote)
    PROVE  Covers(Matched(quote), orders')
<1>1. PICK n \in Nat : n = Len(orders)
  OBVIOUS
<1>2. PICK g : /\ g[0] = Seen(Task)
               /\ \A k \in 1..n : g[k] = MatchStep(quote, k, g[k - 1])
               /\ \A k \in 0..n : g[k] \in Sound
               /\ Matched(quote) = g[n]
  BY <1>1, MatchedIs
<1> DEFINE T == {k \in 0..n : Covers(g[k], Looked(quote, k))}
<1>3. 0 \in T
  BY <1>2, LookedNone
<1>4. ASSUME NEW k \in 1..n, k - 1 \in T PROVE k \in T
  <2>1. k \in 0..n /\ k - 1 \in 0..n /\ k \in 1..Len(orders) /\ k - 1 \in Nat
    BY <1>1
  <2>2. PICK b \in Sound : b = g[k - 1] /\ g[k] = MatchStep(quote, k, b)
    BY <1>2, <2>1
  <2>3. PICK os \in Seq(Order) : os = Looked(quote, k - 1) /\ Len(os) = Len(orders)
    BY <2>1, LookedIs
  <2>4. Covers(b, os)
    BY <1>4, <2>2, <2>3
  <2>5. CASE k \in rows /\ Crosses(orders[k], quote[k])
    <3>1. /\ g[k] = FilledAt(b, orders[k], quote[k])
          /\ orders[k].status = "pending" /\ quote[k] \in Prices /\ orders[k] \in Order
      BY <2>1, <2>2, <2>5, QuoteFacts DEF MatchStep, Pending
    <3>2. Looked(quote, k) = Ended(os, k, "filled") /\ os[k] = orders[k]
      BY <2>1, <2>3, <2>5, LookedNext
    <3>3. k \in 1..Len(os) /\ os[k].status = "pending" /\ b \in Account
      BY <2>1, <2>3, <3>1, <3>2 DEF Sound
    <3>4. Covers(Unlock(b, os[k]), Ended(os, k, "filled"))
      BY <2>4, <3>3, Released
    <3>5. Covers(FilledAt(b, orders[k], quote[k]), Ended(os, k, "filled"))
      BY <3>1, <3>2, <3>4, FilledCovers
    <3>6. QED
      BY <2>1, <3>1, <3>2, <3>5
  <2>6. CASE ~ (k \in rows /\ Crosses(orders[k], quote[k]))
    <3>1. g[k] = b
      BY <2>2, <2>6 DEF MatchStep
    <3>2. Looked(quote, k) = os
      BY <2>1, <2>3, <2>6, LookedNext
    <3>3. QED
      BY <2>1, <2>4, <3>1, <3>2
  <2>7. QED
    BY <2>5, <2>6
<1> HIDE DEF T
<1>5. \A k \in 0..n : k \in T
  BY <1>3, <1>4, UpTo
<1>6. Covers(g[n], Looked(quote, n))
  BY <1>5 DEF T
<1>7. QED
  BY <1>1, <1>2, <1>6, LookedAll

LEMMA TaskMatchAlone ==
    ASSUME ~ Overlap, IInv, IInv', Alone, NEW quote \in Quotes, TaskMatch(quote)
    PROVE  Alone' /\ (Conserved => Conserved')
<1>1. PICK b : b = Matched(quote)
  OBVIOUS
<1>2. /\ phase = "match" /\ phase' = "fund" /\ Commit(Task, b)
      /\ copy' = [copy EXCEPT ![Task] = Loaded(b)]
  BY <1>1 DEF TaskMatch
<1>3. /\ books \in Account /\ copy[Task] \in Copy /\ orders \in Seq(Order)
      /\ clock \in 0..MaxClock /\ clock \in Int
  BY CopyFacts, ConstantFacts DEF IInv, BooksOK, RowsOK, TimeOK
<1>4. copy[Task].cash = books.cash /\ copy[Task].locked = books.locked
  BY <1>2 DEF Alone
<1>5. Seen(Task) \in Sound
  BY <1>3, SeenSound DEF IInv
<1>6. Follows(Seen(Task), b, clock) /\ b \in Account
  BY <1>1, <1>3, <1>5, MatchedFollows DEF Follows
<1>7. /\ Excess(books') = Excess(b) /\ books'.locked = b.locked
      /\ books'.baseLocked = b.baseLocked
      /\ Loaded(b).cash = books'.cash /\ Loaded(b).locked = books'.locked
  BY <1>2, <1>3, <1>4, <1>6, Wrote DEF IInv
<1>8. copy'[Task] = Loaded(b) /\ copy' = [copy EXCEPT ![Task] = copy'[Task]]
  BY <1>2 DEF IInv, CopyOK
<1>9. Alone'
  BY <1>2, <1>7, <1>8, TaskAlone
<1>10. ASSUME Conserved PROVE Conserved'
  <2>1. /\ Seen(Task).locked = books.locked /\ Seen(Task).baseLocked = books.baseLocked
        /\ Excess(Seen(Task)) = Excess(books)
    BY <1>3, <1>4, Saw DEF IInv
  <2>2. Covers(Seen(Task), orders)
    BY <1>10, <2>1, CoversSame DEF Conserved
  <2>3. rows \subseteq Pending
    BY DEF Alone
  <2>4. Covers(b, orders')
    BY <1>1, <1>3, <1>5, <2>2, <2>3, MatchedCovers
  <2>5. Covers(books', orders')
    BY <1>7, <2>4, CoversSame
  <2>6. Excess(books') = 0
    BY <1>6, <1>7, <1>10, <2>1 DEF Follows, Conserved
  <2>7. QED
    BY <2>5, <2>6 DEF Conserved
<1>11. QED
  BY <1>9, <1>10

\* The task is over, the books as they were.
LEMMA TaskEndsAlone ==
    ASSUME ~ Overlap, IInv, IInv', Alone, phase # "idle", phase' = "idle",
           copy' = [copy EXCEPT ![Task] = NoCopy], UNCHANGED <<books, orders>>
    PROVE  Alone' /\ (Conserved => Conserved')
<1>1. copy' = [copy EXCEPT ![Task] = copy'[Task]]
  BY DEF IInv, CopyOK
<1>2. QED
  BY <1>1, TaskAlone DEF Conserved

\* A step of the task that posts or charges, and leaves the orders alone.
LEMMA TaskPostsAlone ==
    ASSUME ~ Overlap, IInv, IInv', Alone, phase # "idle", phase' # "match",
           NEW b \in Account, Commit(Task, b), orders' = orders,
           Excess(b) = Excess(Seen(Task)),
           b.locked = Seen(Task).locked, b.baseLocked = Seen(Task).baseLocked,
           copy' = [copy EXCEPT ![Task] = IF phase' = "idle" THEN NoCopy ELSE Loaded(b)]
    PROVE  Alone' /\ (Conserved => Conserved')
<1>1. books \in Account /\ copy[Task] \in Copy
  BY CopyFacts DEF IInv, BooksOK
<1>2. copy[Task].cash = books.cash /\ copy[Task].locked = books.locked
  BY DEF Alone
<1>3. /\ Excess(books') = Excess(b) /\ books'.locked = b.locked
      /\ books'.baseLocked = b.baseLocked
      /\ Loaded(b).cash = books'.cash /\ Loaded(b).locked = books'.locked
  BY <1>1, <1>2, Wrote DEF IInv
<1>4. copy' = [copy EXCEPT ![Task] = copy'[Task]]
      /\ (phase' # "idle" => copy'[Task] = Loaded(b))
  BY DEF IInv, CopyOK
<1>5. Alone'
  BY <1>3, <1>4, TaskAlone
<1>6. /\ Seen(Task).locked = books.locked /\ Seen(Task).baseLocked = books.baseLocked
      /\ Excess(Seen(Task)) = Excess(books)
  BY <1>1, <1>2, Saw DEF IInv
<1>7. ASSUME Conserved PROVE Conserved'
  BY <1>3, <1>6, <1>7, CoversSame DEF Conserved
<1>8. QED
  BY <1>5, <1>7

LEMMA TaskFundAlone ==
    ASSUME ~ Overlap, IInv, IInv', Alone, NEW known, NEW rate \in Rates, NEW p \in Prices,
           TaskFund(known, rate, p)
    PROVE  Alone' /\ (Conserved => Conserved')
<1>1. books \in Account /\ lastFunding \in Nat /\ moment.clock \in Nat /\ copy[Task] \in Copy
  BY ClockFacts, CopyFacts DEF IInv, BooksOK
<1>2. Due(known) \in SUBSET Settlement /\ IsFiniteSet(Due(known))
  BY <1>1, DueIs
<1>3. PICK cost \in Int : cost = Cost(Due(known), rate, p)
  BY <1>2, CostType
<1>4. PICK d \in Account : d = Seen(Task)
  BY <1>1, SeenSound DEF IInv
<1>5. PICK b : b = Charged(d, cost, Due(known))
  OBVIOUS
<1>6. /\ b \in Account /\ b.cash = d.cash - cost /\ b.ledger = d.ledger - cost
      /\ b.locked = d.locked /\ b.baseLocked = d.baseLocked
  BY <1>2, <1>5, ChargedIs
<1>7. Excess(b) = Excess(d)
  <2>1. d.cash \in Int /\ d.ledger \in Int /\ d.locked \in Int
    BY DEF Account
  <2>2. QED
    BY <1>6, <2>1 DEF Excess
<1>8. /\ phase = "fund" /\ phase' = "liquidate" /\ Commit(Task, b) /\ orders' = orders
      /\ copy' = [copy EXCEPT ![Task] = Loaded(b)]
  BY <1>3, <1>4, <1>5 DEF TaskFund
<1>9. copy' = [copy EXCEPT ![Task] = IF phase' = "idle" THEN NoCopy ELSE Loaded(b)]
  BY <1>8
<1>10. QED
  BY <1>4, <1>6, <1>7, <1>8, <1>9, TaskPostsAlone

SameLocks(b, c) == c.locked = b.locked /\ c.baseLocked = b.baseLocked

LEMMA PostLocks ==
    ASSUME NEW b \in Account, NEW f \in Fill, NEW k \in 1..(Len(b.fills) + 1)
    PROVE  SameLocks(b, Post(b, f, k))
BY PostIs DEF SameLocks

\* Closing a position leaves what is locked as it is.
LEMMA ClosedAtLocks ==
    ASSUME Seen(Task) \in Account, clock \in 0..MaxClock, NEW b \in Sound,
           NEW i \in Instruments, NEW p \in Prices
    PROVE  SameLocks(b, ClosedAt(b, i, p))
<1>1. b \in Account
  BY DEF Sound
<1>2. PICK f \in Fill : f = FillOf(i, -Own(i).qty, p, TakerFee + LiquidationFee, clock)
  <2>1. Own(i) \in Position
    BY OwnIs DEF Account
  <2>2. PICK q \in Int : q = -Own(i).qty
    BY <2>1 DEF Position
  <2>3. TakerFee + LiquidationFee \in Int
    BY ConstantFacts
  <2>4. FillOf(i, q, p, TakerFee + LiquidationFee, clock) \in Fill
    BY <2>2, <2>3, FillOfType
  <2>5. QED
    BY <2>2, <2>4
<1>3. PICK k \in 1..(Len(b.fills) + 1) : k = Len(b.fills) + 1
  BY <1>1, PlaceLast
<1>4. ClosedAt(b, i, p) = Post(b, f, k)
  BY <1>2, <1>3, Zenon DEF ClosedAt, PostLast
<1>5. SameLocks(b, Post(b, f, k))
  BY <1>1, PostLocks
<1>6. QED
  BY <1>4, <1>5

LEMMA ClosedLocks ==
    ASSUME Seen(Task) \in Account, clock \in 0..MaxClock, NEW mark \in [Exposed -> Prices],
           Marked(mark) \in Sound
    PROVE  SameLocks(Marked(mark), Closed(mark))
<1>1. PICK n \in Nat : \E g :
          /\ n = Len(SetToSeq(Exposed))
          /\ g[0] = Marked(mark)
          /\ \A k \in 1..n : g[k] = CloseStep(mark, k, g[k - 1])
          /\ \A k \in 0..n : g[k] \in Sound
          /\ Closed(mark) = g[n]
  BY ClosedIs
<1>2. PICK g :
          /\ n = Len(SetToSeq(Exposed))
          /\ g[0] = Marked(mark)
          /\ \A k \in 1..n : g[k] = CloseStep(mark, k, g[k - 1])
          /\ \A k \in 0..n : g[k] \in Sound
          /\ Closed(mark) = g[n]
  BY <1>1
<1> DEFINE T == {k \in 0..n : SameLocks(Marked(mark), g[k])}
<1>3. 0 \in T
  BY <1>2 DEF SameLocks
<1>4. ASSUME NEW k \in 1..n, k - 1 \in T PROVE k \in T
  <2>1. PICK i \in Exposed : i = SetToSeq(Exposed)[k]
    BY <1>2, ExposedFacts
  <2>2. i \in Instruments /\ mark[i] \in Prices
    BY ExposedFacts
  <2>3. g[k] = ClosedAt(g[k - 1], i, mark[i]) /\ g[k - 1] \in Sound
    BY <1>2, <2>1 DEF CloseStep
  <2>4. SameLocks(g[k - 1], g[k])
    BY <2>2, <2>3, ClosedAtLocks
  <2>5. QED
    BY <1>4, <2>4 DEF SameLocks
<1> HIDE DEF T
<1>5. \A k \in 0..n : k \in T
  BY <1>3, <1>4, UpTo
<1>6. QED
  BY <1>2, <1>5 DEF T

\* What liquidation commits.
LEMMA LiquidateLocks ==
    ASSUME IInv, NEW mark \in [Exposed -> Prices], TaskLiquidate(mark)
    PROVE  \E b \in Account : /\ Commit(Task, b) /\ ThenSignals(b)
                              /\ Excess(b) = Excess(Seen(Task)) /\ SameLocks(Seen(Task), b)
<1>1. BooksOK /\ CopyOK /\ books \in Account /\ clock \in 0..MaxClock
  BY DEF IInv, BooksOK, TimeOK
<1>2. copy[Task] \in Copy /\ clock \in Int
  BY <1>1, CopyFacts, ConstantFacts
<1>3. Seen(Task) \in Sound /\ Seen(Task) \in Account
  BY <1>1, <1>2, SeenSound
<1>4. PICK m : m = Marked(mark)
  OBVIOUS
<1>5. /\ Excess(m) = Excess(Seen(Task)) /\ m \in Sound /\ m \in Account
  BY <1>1, <1>2, <1>3, <1>4, MarkedFollows DEF Follows, Sound
<1>6. SameLocks(Seen(Task), m)
  BY <1>1, <1>3, <1>4, MarkedIs DEF SameLocks
<1>7. PICK c : c = Closed(mark)
  OBVIOUS
<1>8. /\ Excess(c) = Excess(m) /\ c \in Sound /\ c \in Account
  BY <1>1, <1>3, <1>4, <1>5, <1>7, ClosedFollows DEF Follows, Sound
<1>9. SameLocks(m, c)
  BY <1>1, <1>3, <1>4, <1>5, <1>7, ClosedLocks
<1>10. PICK q \in Int : q = AtLeast(0, c.cash)
  BY <1>8 DEF Account, AtLeast
<1>11. PICK d : d = [c EXCEPT !.quote = q]
  OBVIOUS
<1>12. Excess(d) = Excess(c) /\ d \in Account
  BY <1>2, <1>8, <1>11, QuoteSet DEF Follows
<1>13. SameLocks(c, d)
  BY <1>8, <1>11 DEF SameLocks, Account
<1>14. \E p : LET b2 == IF p THEN Marked(mark)
                         ELSE [Closed(mark) EXCEPT !.quote = AtLeast(0, Closed(mark).cash)]
              IN  Commit(Task, b2) /\ ThenSignals(b2)
  BY Zenon DEF TaskLiquidate
<1>15. \/ Commit(Task, m) /\ ThenSignals(m)
       \/ Commit(Task, d) /\ ThenSignals(d)
  BY <1>4, <1>7, <1>10, <1>11, <1>14, Zenon
<1>16. Excess(d) = Excess(Seen(Task)) /\ SameLocks(Seen(Task), d)
  BY <1>5, <1>6, <1>8, <1>9, <1>12, <1>13 DEF SameLocks
<1>17. QED
  BY <1>5, <1>6, <1>12, <1>15, <1>16

LEMMA TaskLiquidateAlone ==
    ASSUME ~ Overlap, IInv, IInv', Alone, NEW mark \in [Exposed -> Prices], TaskLiquidate(mark)
    PROVE  Alone' /\ (Conserved => Conserved')
<1>1. PICK b \in Account : /\ Commit(Task, b) /\ ThenSignals(b)
                           /\ Excess(b) = Excess(Seen(Task)) /\ SameLocks(Seen(Task), b)
  BY LiquidateLocks
<1>2. phase = "liquidate" /\ orders' = orders
  BY DEF TaskLiquidate
<1>3. /\ phase' # "match"
      /\ copy' = [copy EXCEPT ![Task] = IF phase' = "idle" THEN NoCopy ELSE Loaded(b)]
  BY <1>1 DEF ThenSignals
<1>4. b.locked = Seen(Task).locked /\ b.baseLocked = Seen(Task).baseLocked
  BY <1>1 DEF SameLocks
<1>5. QED
  BY <1>1, <1>2, <1>3, <1>4, TaskPostsAlone

\* A step of the task that leaves the books alone and reads them again, or
\* keeps what it had read.
LEMMA TaskReadsAlone ==
    ASSUME ~ Overlap, IInv, IInv', Alone, phase # "idle", phase' # "match", UNCHANGED <<books, orders>>,
           NEW b, b.cash = books.cash, b.locked = books.locked,
           copy' = [copy EXCEPT ![Task] = IF phase' = "idle" THEN NoCopy ELSE Loaded(b)]
    PROVE  Alone' /\ (Conserved => Conserved')
<1>1. copy' = [copy EXCEPT ![Task] = copy'[Task]]
      /\ (phase' # "idle" => copy'[Task] = Loaded(b))
  BY DEF IInv, CopyOK
<1>2. Loaded(b).cash = b.cash /\ Loaded(b).locked = b.locked
  BY DEF Loaded
<1>3. Alone'
  BY <1>1, <1>2, TaskAlone
<1>4. QED
  BY <1>3 DEF Conserved

LEMMA TaskLiquidateFailsAlone ==
    ASSUME ~ Overlap, IInv, IInv', Alone, TaskLiquidateFails
    PROVE  Alone' /\ (Conserved => Conserved')
<1>1. phase = "liquidate" /\ UNCHANGED <<books, orders>> /\ ThenSignals(books)
  BY DEF TaskLiquidateFails
<1>2. /\ phase' # "match"
      /\ copy' = [copy EXCEPT ![Task] = IF phase' = "idle" THEN NoCopy ELSE Loaded(books)]
  BY <1>1 DEF ThenSignals
<1>3. QED
  BY <1>1, <1>2, TaskReadsAlone

LEMMA NextCopy ==
    ASSUME NEW b, NEW filled, ThenNext(b, filled)
    PROVE  /\ phase' # "match" /\ orders' = orders
           /\ copy' = [copy EXCEPT ![Task] = IF phase' = "idle" THEN NoCopy ELSE Loaded(b)]
<1>1. CASE listed = {Oldest} /\ uncommitted' = {}
  BY <1>1 DEF ThenNext
<1>2. CASE ~ (listed = {Oldest} /\ uncommitted' = {})
  BY <1>2 DEF ThenNext
<1>3. QED
  BY <1>1, <1>2

LEMMA UnfilledAlone ==
    ASSUME ~ Overlap, IInv, IInv', Alone, phase = "signals", Unfilled
    PROVE  Alone' /\ (Conserved => Conserved')
<1>1. books' = books /\ ThenNext(Seen(Task), 0)
  BY DEF Unfilled
<1>2. copy[Task].cash = books.cash /\ copy[Task].locked = books.locked
      /\ copy[Task] \in Copy /\ books \in Account
  BY CopyFacts DEF Alone, IInv, BooksOK
<1>3. Seen(Task).cash = books.cash /\ Seen(Task).locked = books.locked
  BY <1>2, Saw DEF IInv
<1>4. /\ phase' # "match" /\ orders' = orders
      /\ copy' = [copy EXCEPT ![Task] = IF phase' = "idle" THEN NoCopy ELSE Loaded(Seen(Task))]
  BY <1>1, NextCopy
<1>5. QED
  BY <1>1, <1>3, <1>4, TaskReadsAlone

LEMMA SignalFilledAlone ==
    ASSUME ~ Overlap, IInv, IInv', Alone, phase = "signals", NEW s \in DOMAIN signals, NEW p \in Prices,
           SignalFilled(s, p)
    PROVE  Alone' /\ (Conserved => Conserved')
<1>1. PICK f \in Fill :
          /\ f.at = moment.clock
          /\ moment.place + 1 \in 1..(Len(Seen(Task).fills) + 1)
          /\ Commit(Task, Post(Seen(Task), f, moment.place + 1))
          /\ Settle(s, "consumed")
          /\ ThenNext(Post(Seen(Task), f, moment.place + 1), 1)
  BY SignalFilledIs
<1>2. PICK d \in Account : d = Seen(Task) /\ Agrees(d)
  BY CopyFacts, SeenSound DEF Sound, IInv
<1>3. PICK k \in 1..(Len(d.fills) + 1) : k = moment.place + 1
  BY <1>1, <1>2
<1>4. PICK b : b = Post(d, f, k)
  OBVIOUS
<1>5. b \in Account /\ Excess(b) = Excess(d)
  BY <1>2, <1>4, PostFollows DEF Follows
<1>6. b.locked = d.locked /\ b.baseLocked = d.baseLocked
  BY <1>4, PostIs
<1>7. Commit(Task, b) /\ ThenNext(b, 1)
  BY <1>1, <1>2, <1>3, <1>4
<1>8. /\ phase' # "match" /\ orders' = orders
      /\ copy' = [copy EXCEPT ![Task] = IF phase' = "idle" THEN NoCopy ELSE Loaded(b)]
  BY <1>7, NextCopy
<1>9. QED
  BY <1>2, <1>5, <1>6, <1>7, <1>8, TaskPostsAlone

LEMMA TaskSignalAlone ==
    ASSUME ~ Overlap, IInv, IInv', Alone, TaskSignal
    PROVE  Alone' /\ (Conserved => Conserved')
<1>1. phase = "signals" /\ Oldest \in DOMAIN signals
  BY OldestIs DEF TaskSignal, IInv, RowsOK, TaskOK
<1>2. PICK s \in DOMAIN signals : s = Oldest
  BY <1>1
<1>3. \/ SignalLapsed(s)
      \/ \E p \in Prices : SignalNoDelta(s, p) \/ SignalRejected(s, p) \/ SignalFilled(s, p)
  BY <1>2 DEF TaskSignal
<1>4. CASE Unfilled
  BY <1>1, <1>4, UnfilledAlone
<1>5. ASSUME NEW p \in Prices, SignalFilled(s, p) PROVE Alone' /\ (Conserved => Conserved')
  BY <1>1, <1>5, SignalFilledAlone
<1>6. QED
  BY <1>3, <1>4, <1>5 DEF SignalLapsed, SignalNoDelta, SignalRejected

\* A step with sessions one at a time; only a repair moves cash without a
\* ledger event and unlocks what orders hold.
LEMMA AloneSteps ==
    ASSUME ~ Overlap, IInv, IInv', Alone, [Next]_vars
    PROVE  Alone' /\ (Conserved /\ ~ Repair => Conserved')
<1>1. CASE UNCHANGED vars
  BY <1>1, OthersAlone DEF vars, taskVars
<1>2. ASSUME NEW r \in Requests, Open(r) \/ Abandon(r) \/ Submit(r)
      PROVE  Alone' /\ (Conserved => Conserved')
  BY <1>2, OpenAlone, AbandonAlone, SubmitAlone
<1>3. ASSUME NEW o \in DOMAIN orders, Cancel(o) PROVE Alone' /\ (Conserved => Conserved')
  BY <1>3, CancelAlone
<1>4. CASE SetStatus \/ Tick
  BY <1>4, OthersAlone DEF SetStatus, Tick
<1>5. CASE Repair
  BY <1>5, RepairAlone
<1>6. CASE Reset
  BY <1>6, ResetAlone
<1>7. ASSUME NEW i \in Perps, DropSignals(i) \/ \E target \in Targets : GenerateSignal(i, target)
      PROVE  Alone' /\ (Conserved => Conserved')
  BY <1>7, OthersAlone DEF DropSignals, GenerateSignal
<1>8. CASE TaskStart
  BY <1>8, TaskStartAlone
<1>9. CASE TaskWork
  <2>1. ASSUME NEW quote \in Quotes, TaskMatch(quote) PROVE Alone' /\ (Conserved => Conserved')
    BY <2>1, TaskMatchAlone
  <2>2. ASSUME NEW quote \in Quotes, TaskMatchFails(quote)
        PROVE  Alone' /\ (Conserved => Conserved')
    BY <2>2, TaskEndsAlone DEF TaskMatchFails
  <2>3. ASSUME NEW known \in KnownRates, NEW rate \in Rates, NEW p \in Prices,
               TaskFund(known, rate, p)
        PROVE  Alone' /\ (Conserved => Conserved')
    BY <2>3, TaskFundAlone
  <2>4. ASSUME NEW mark \in [Exposed -> Prices], TaskLiquidate(mark)
        PROVE  Alone' /\ (Conserved => Conserved')
    BY <2>4, TaskLiquidateAlone
  <2>5. CASE TaskLiquidateFails
    BY <2>5, TaskLiquidateFailsAlone
  <2>6. CASE SignalSkipped
    BY <2>6, UnfilledAlone DEF SignalSkipped
  <2>7. CASE TaskSignal
    BY <2>7, TaskSignalAlone
  <2>8. CASE TaskClose
    BY <2>8, TaskEndsAlone DEF TaskClose
  <2>9. QED
    BY <1>9, <2>1, <2>2, <2>3, <2>4, <2>5, <2>6, <2>7, <2>8 DEF TaskWork
<1>10. QED
  BY <1>1, <1>2, <1>3, <1>4, <1>5, <1>6, <1>7, <1>8, <1>9 DEF Next, ReadRows

\* With one session at a time and no repair, the ledger events add up to the
\* cash, and exactly what the resting orders reserved is locked, through
\* submissions, fills at any price, cancellations, funding and liquidation.
THEOREM CashIsExplained ==
    ASSUME ~ Overlap
    PROVE  Spec /\ [][~ Repair]_vars => [](LedgerExplainsCash /\ LocksCoverOrders)
<1> DEFINE J == IInv /\ Alone /\ Conserved
<1>1. Init => J
  BY Starts, StartsAlone
<1>2. ASSUME J, [Next]_vars, [~ Repair]_vars PROVE J'
  <2>1. IInv'
    BY <1>2, Steps
  <2>2. CASE ~ Repair
    BY <1>2, <2>1, <2>2, AloneSteps
  <2>3. CASE UNCHANGED vars
    BY <1>2, <2>1, <2>3, OthersAlone DEF vars, taskVars
  <2>4. QED
    BY <1>2, <2>2, <2>3
<1>3. J => LedgerExplainsCash /\ LocksCoverOrders
  BY ConservedIs DEF IInv, BooksOK
<1> HIDE DEF J
<1>4. QED
  BY <1>1, <1>2, <1>3, PTL DEF Spec

-----------------------------------------------------------------------------
(***************************************************************************)
(* What is rebuilt from fills and funding is what was kept.                *)
(***************************************************************************)

\* Rows that replays cannot tell apart.
AlikeRow(x, y) == y.qty = x.qty /\ y.entry = x.entry /\ y.realized = x.realized

Gains(fills) == [k \in DOMAIN fills |-> CashOf(fills[k], Replay(fills)[k - 1])]

\* The fills explain the positions and, with funding, the ledger.
Explained(b) ==
    /\ \A i \in Instruments : AlikeRow(Replay(b.fills)[Len(b.fills)][i], b.pos[i])
    /\ b.ledger = Initial + b.fundingCash + SumTo(Gains(b.fills), Len(b.fills))

LEMMA GainsType ==
    ASSUME NEW fills \in Seq(Fill)
    PROVE  \A k \in 1..Len(fills) : /\ Gains(fills)[k] = CashOf(fills[k], Replay(fills)[k - 1])
                                    /\ Gains(fills)[k] \in Int
<1>1. PICK n \in Nat : n = Len(fills)
  OBVIOUS
<1>2. PICK r : r = Replay(fills)
  OBVIOUS
<1>3. \A k \in 0..n : r[k] \in PosRows
  BY <1>1, <1>2, ReplayIs
<1>4. ASSUME NEW k \in 1..n
      PROVE  Gains(fills)[k] = CashOf(fills[k], r[k - 1]) /\ Gains(fills)[k] \in Int
  <2>1. fills[k] \in Fill /\ r[k - 1] \in PosRows
    BY <1>1, <1>3
  <2>2. Gains(fills)[k] = CashOf(fills[k], r[k - 1])
    BY <1>1, <1>2 DEF Gains
  <2>3. QED
    BY <2>1, <2>2, CashOfType DEF PosRows
<1>5. QED
  BY <1>1, <1>2, <1>4

LEMMA Reconciles ==
    ASSUME books \in Account, Explained(books), Excess(books) = 0
    PROVE  RebuildsExactly
<1>1. PICK b \in Account : b = books /\ b.fills \in Seq(Fill)
  BY DEF Account
<1>2. PICK n \in Nat : n = Len(b.fills)
  BY <1>1
<1>3. PICK r : r = Replay(b.fills)
  OBVIOUS
<1>4. PICK g : g = Gains(b.fills)
  OBVIOUS
<1>5. Rebuilt(b) = [pos |-> r[n], cash |-> Initial + b.fundingCash + SumTo(g, n)]
  BY <1>2, <1>3, <1>4, Zenon DEF Rebuilt, Gains
<1>6. b.ledger = Initial + b.fundingCash + SumTo(g, n)
      /\ \A i \in Instruments : AlikeRow(r[n][i], b.pos[i])
  BY <1>1, <1>2, <1>3, <1>4 DEF Explained
<1>7. b.cash + b.locked = b.ledger
  <2>1. b.cash \in Int /\ b.locked \in Int /\ b.ledger \in Int
    BY DEF Account
  <2>2. QED
    BY <1>1, <2>1 DEF Excess
<1>8. PICK d : d = Rebuilt(b) /\ d.pos = r[n] /\ d.cash = b.ledger
  BY <1>5, <1>6
<1>9. ~ \/ \E i \in Instruments :
               \/ b.pos[i].qty # d.pos[i].qty
               \/ b.pos[i].entry # d.pos[i].entry
               \/ b.pos[i].realized # d.pos[i].realized
        \/ b.cash + b.locked # d.cash
        \/ b.ledger # d.cash
  BY <1>6, <1>7, <1>8 DEF AlikeRow
<1>10. QED
  BY <1>1, <1>8, <1>9, Zenon DEF RebuildsExactly, Mismatch

\* The books c differ from b in what a replay does not look at.
Alike(b, c) ==
    /\ c.fills = b.fills /\ \A i \in Instruments : AlikeRow(b.pos[i], c.pos[i])
    /\ c.ledger - c.fundingCash = b.ledger - b.fundingCash

LEMMA AlikeExplained ==
    ASSUME NEW b \in Account, NEW c \in Account, Explained(b), Alike(b, c)
    PROVE  Explained(c)
<1>1. b.fills \in Seq(Fill) /\ c.fills = b.fills
  BY DEF Account, Alike
<1>2. PICK n \in Nat : n = Len(b.fills)
  BY <1>1
<1>3. PICK g : g = Gains(b.fills)
  OBVIOUS
<1>4. \A k \in 1..n : g[k] \in Int
  BY <1>1, <1>2, <1>3, GainsType
<1>5. PICK total \in Int : total = SumTo(g, n)
  BY <1>4, SumType
<1>6. /\ b.ledger \in Int /\ b.fundingCash \in Int /\ c.ledger \in Int /\ c.fundingCash \in Int
      /\ Initial \in Int
  BY ConstantFacts DEF Account
<1>7. b.ledger = Initial + b.fundingCash + total
  BY <1>2, <1>3, <1>5 DEF Explained
<1>8. c.ledger = Initial + c.fundingCash + total
  <2>1. c.ledger - c.fundingCash = b.ledger - b.fundingCash
    BY DEF Alike
  <2>2. PICK x \in Int, y \in Int, v \in Int, w \in Int :
            x = b.ledger /\ y = b.fundingCash /\ v = c.ledger /\ w = c.fundingCash
    BY <1>6
  <2>3. x = Initial + y + total /\ v - w = x - y
    BY <1>7, <2>1, <2>2
  <2>4. v = Initial + w + total
    BY <1>6, <2>3
  <2>5. QED
    BY <2>2, <2>4
<1>9. \A i \in Instruments : AlikeRow(Replay(c.fills)[Len(c.fills)][i], c.pos[i])
  BY <1>1 DEF Explained, Alike, AlikeRow
<1>10. QED
  BY <1>1, <1>2, <1>3, <1>5, <1>8, <1>9 DEF Explained

\* Locking and unlocking, reading and writing a copy, are not replayed.
LEMMA AlikeMoved ==
    ASSUME NEW b, NEW c, OnlyMoved(b, c) \/ AllButCash(b, c)
    PROVE  Alike(b, c)
BY DEF OnlyMoved, AllButCash, Alike, AlikeRow

\* A move takes alike rows to alike rows, and realizes as much on both.
LEMMA MovedAlike ==
    ASSUME NEW x \in Position, NEW y \in Position, AlikeRow(x, y), NEW q \in Int, NEW p \in Int
    PROVE  /\ AlikeRow(Moved(x, q, p), Moved(y, q, p))
           /\ Realized(y, q, p) = Realized(x, q, p)
<1>1. Realized(y, q, p) = Realized(x, q, p)
  BY DEF AlikeRow, Realized
<1>2. Entry(y, q, p) = Entry(x, q, p)
  BY DEF AlikeRow, Entry
<1>3. PICK e : e = Entry(x, q, p)
  OBVIOUS
<1>4. PICK g : g = Realized(x, q, p)
  OBVIOUS
<1>5. Moved(x, q, p) = [x EXCEPT !.qty = @ + q, !.entry = e, !.realized = @ + g]
  BY <1>3, <1>4, Zenon DEF Moved
<1>6. Moved(y, q, p) = [y EXCEPT !.qty = @ + q, !.entry = e, !.realized = @ + g]
  BY <1>1, <1>2, <1>3, <1>4, Zenon DEF Moved
<1>7. AlikeRow(Moved(x, q, p), Moved(y, q, p))
  BY <1>5, <1>6 DEF AlikeRow, Position
<1>8. QED
  BY <1>1, <1>7

\* The fills of a list with one more, replayed.
Prolonged(fills, more, f, n) ==
    /\ Len(more) = n + 1 /\ more[n + 1] = f
    /\ \A k \in 1..n : more[k] = fills[k]
    /\ \A k \in 0..n : Replay(more)[k] = Replay(fills)[k]
    /\ Replay(more)[n + 1] = [Replay(fills)[n] EXCEPT
           ![f.inst] = Moved(Replay(fills)[n][f.inst], f.qty, f.price)]

LEMMA ReplayMore ==
    ASSUME NEW fills \in Seq(Fill), NEW f \in Fill, NEW more \in Seq(Fill),
           more = InsertAt(fills, Len(fills) + 1, f)
    PROVE  Prolonged(fills, more, f, Len(fills))
<1>1. PICK n \in Nat : n = Len(fills)
  OBVIOUS
<1>2. n + 1 \in 1..(Len(fills) + 1)
  BY <1>1
<1>3. Len(more) = n + 1 /\ more[n + 1] = f /\ \A k \in 1..n : more[k] = fills[k]
  <2>1. PICK k \in 1..(Len(fills) + 1) : k = n + 1
    BY <1>2
  <2>2. more = InsertAt(fills, k, f)
    BY <1>1, <2>1
  <2>3. /\ Len(InsertAt(fills, k, f)) = Len(fills) + 1
        /\ \A j \in 1..(k - 1) : InsertAt(fills, k, f)[j] = fills[j]
        /\ InsertAt(fills, k, f)[k] = f
    BY InsertFacts
  <2>4. QED
    BY <1>1, <2>1, <2>2, <2>3
<1>4. PICK r : r = Replay(fills)
  OBVIOUS
<1>5. PICK s : s = Replay(more)
  OBVIOUS
<1>6. r[0] = Start /\ \A k \in 1..n : r[k] = ReplayStep(fills, k, r[k - 1])
  BY <1>1, <1>4, ReplayIs
<1>7. s[0] = Start /\ \A k \in 1..(n + 1) : s[k] = ReplayStep(more, k, s[k - 1])
  BY <1>3, <1>5, ReplayIs
<1> DEFINE T == {k \in 0..n : s[k] = r[k]}
<1>8. 0 \in T
  BY <1>6, <1>7
<1>9. ASSUME NEW k \in 1..n, k - 1 \in T PROVE k \in T
  <2>1. s[k] = ReplayStep(more, k, s[k - 1]) /\ r[k] = ReplayStep(fills, k, r[k - 1])
    BY <1>6, <1>7
  <2>2. more[k] = fills[k] /\ s[k - 1] = r[k - 1]
    BY <1>3, <1>9
  <2>3. QED
    BY <2>1, <2>2 DEF ReplayStep
<1> HIDE DEF T
<1>10. \A k \in 0..n : k \in T
  BY <1>8, <1>9, UpTo
<1>11. \A k \in 0..n : s[k] = r[k]
  BY <1>10 DEF T
<1>12. s[n + 1] = [r[n] EXCEPT ![f.inst] = Moved(r[n][f.inst], f.qty, f.price)]
  <2>1. s[n + 1] = ReplayStep(more, n + 1, s[(n + 1) - 1])
    BY <1>7
  <2>2. s[(n + 1) - 1] = r[n] /\ more[n + 1] = f
    BY <1>3, <1>11
  <2>3. QED
    BY <2>1, <2>2 DEF ReplayStep
<1>13. QED
  BY <1>1, <1>3, <1>4, <1>5, <1>11, <1>12 DEF Prolonged

\* With as many digits kept as computed, nothing is rounded.
LEMMA StoredExactly == ASSUME Grid = 1, NEW x \in Int PROVE Stored(x) = x
<1>1. Grid \div 2 = 0
  OBVIOUS
<1>2. (x + 0) \div 1 = x
  OBVIOUS
<1>3. QED
  BY <1>1, <1>2 DEF Stored

Booked(b, c, f, k) ==
    /\ c.ledger = b.ledger + CashOf(f, b.pos) /\ c.fundingCash = b.fundingCash
    /\ c.fills = InsertAt(b.fills, k, f)
    /\ c.pos = [b.pos EXCEPT ![f.inst] = PostedRow(b, f)]

LEMMA PostBooked ==
    ASSUME NEW b \in Account, NEW f \in Fill, NEW k \in 1..(Len(b.fills) + 1)
    PROVE  Booked(b, Post(b, f, k), f, k)
BY PostIs, ZenonT(60) DEF Booked

\* A fill posted after all others leaves the books explained.
LEMMA PostExplained ==
    ASSUME Grid = 1, NEW b \in Account, NEW f \in Fill, Explained(b)
    PROVE  Explained(Post(b, f, Len(b.fills) + 1))
<1>1. b.fills \in Seq(Fill) /\ b.pos \in PosRows
  BY DEF Account, PosRows
<1>2. PICK fills \in Seq(Fill) : fills = b.fills
  BY <1>1
<1>3. PICK n \in Nat : n = Len(fills)
  OBVIOUS
<1>4. PICK k \in 1..(Len(b.fills) + 1) : k = n + 1
  BY <1>2, <1>3
<1>5. PICK c \in Account : c = Post(b, f, k)
  BY PostIs
<1>6. /\ c.ledger = b.ledger + CashOf(f, b.pos)
      /\ c.fundingCash = b.fundingCash /\ c.fills = InsertAt(b.fills, k, f)
      /\ c.pos = [b.pos EXCEPT ![f.inst] = PostedRow(b, f)]
  <2>1. Booked(b, c, f, k)
    BY <1>5, PostBooked
  <2>2. QED
    BY <2>1 DEF Booked
<1>7. PICK more \in Seq(Fill) : more = c.fills /\ more = InsertAt(fills, Len(fills) + 1, f)
  <2>1. c.fills \in Seq(Fill)
    BY <1>6 DEF Account
  <2>2. QED
    BY <1>2, <1>3, <1>4, <1>6, <2>1
<1>8. PICK r : r = Replay(fills)
  OBVIOUS
<1>9. PICK s : s = Replay(more)
  OBVIOUS
<1>10. /\ Len(more) = n + 1 /\ more[n + 1] = f /\ \A j \in 1..n : more[j] = fills[j]
      /\ \A j \in 0..n : s[j] = r[j]
      /\ s[n + 1] = [r[n] EXCEPT ![f.inst] = Moved(r[n][f.inst], f.qty, f.price)]
  <2>1. Prolonged(fills, more, f, n)
    BY <1>3, <1>7, ReplayMore
  <2>2. QED
    BY <1>8, <1>9, <2>1 DEF Prolonged
<1>11. f.inst \in Instruments /\ f.qty \in Int /\ f.price \in Int
  BY ConstantFacts DEF Fill
<1>12. r[n] \in PosRows /\ b.pos \in [Instruments -> Position]
  BY <1>1, <1>3, <1>8, ReplayIs DEF PosRows
<1>13. \A i \in Instruments : AlikeRow(r[n][i], b.pos[i])
  BY <1>2, <1>3, <1>8 DEF Explained
<1>14. PICK x \in Position : x = r[n][f.inst]
  BY <1>11, <1>12 DEF PosRows
<1>15. PICK y \in Position : y = b.pos[f.inst]
  BY <1>11, <1>12
<1>16. AlikeRow(x, y)
  BY <1>11, <1>13, <1>14, <1>15
<1>17. /\ AlikeRow(Moved(x, f.qty, f.price), Moved(y, f.qty, f.price))
       /\ Realized(y, f.qty, f.price) = Realized(x, f.qty, f.price)
  BY <1>11, <1>16, MovedAlike
<1>18. AlikeRow(Moved(y, f.qty, f.price), PostedRow(b, f))
  <2>1. Moved(y, f.qty, f.price) \in Position
        /\ Moved(y, f.qty, f.price).qty = y.qty + f.qty
    BY <1>11, MovedType
  <2>2. Moved(y, f.qty, f.price).entry \in Int
    BY <2>1 DEF Position
  <2>3. Stored(Moved(y, f.qty, f.price).entry) = Moved(y, f.qty, f.price).entry
    BY <2>2, StoredExactly
  <2>4. /\ PostedRow(b, f).qty = y.qty + f.qty
        /\ PostedRow(b, f).entry = Stored(Moved(y, f.qty, f.price).entry)
        /\ PostedRow(b, f).realized = Moved(y, f.qty, f.price).realized
    BY <1>15, PostedRowType
  <2>5. QED
    BY <2>1, <2>3, <2>4 DEF AlikeRow
<1>19. ASSUME NEW i \in Instruments PROVE AlikeRow(s[n + 1][i], c.pos[i])
  <2>1. CASE i = f.inst
    <3>1. s[n + 1][i] = Moved(x, f.qty, f.price)
      BY <1>10, <1>11, <1>12, <1>14, <2>1 DEF PosRows
    <3>2. c.pos[i] = PostedRow(b, f)
      BY <1>6, <1>11, <1>12, <2>1
    <3>3. QED
      BY <1>17, <1>18, <3>1, <3>2 DEF AlikeRow
  <2>2. CASE i # f.inst
    <3>1. s[n + 1][i] = r[n][i]
      BY <1>10, <1>12, <2>2 DEF PosRows
    <3>2. c.pos[i] = b.pos[i]
      BY <1>6, <1>12, <2>2
    <3>3. QED
      BY <1>13, <3>1, <3>2
  <2>3. QED
    BY <2>1, <2>2
<1>20. CashOf(f, b.pos) = CashOf(f, r[n])
  BY <1>14, <1>15, <1>17 DEF CashOf
<1>21. PICK g : g = Gains(fills)
  OBVIOUS
<1>22. PICK h : h = Gains(more)
  OBVIOUS
<1>23. (\A j \in 1..n : g[j] = h[j] /\ g[j] \in Int) /\ h[n + 1] = CashOf(f, r[n])
  <2>1. ASSUME NEW j \in 1..n PROVE g[j] = h[j] /\ g[j] \in Int
    <3>1. g[j] = CashOf(fills[j], r[j - 1]) /\ g[j] \in Int
      BY <1>3, <1>8, <1>21, GainsType
    <3>2. h[j] = CashOf(more[j], s[j - 1])
      <4>1. j \in 1..Len(more)
        BY <1>10
      <4>2. QED
        BY <1>9, <1>22, <4>1, GainsType
    <3>3. more[j] = fills[j] /\ s[j - 1] = r[j - 1]
      BY <1>10
    <3>4. QED
      BY <3>1, <3>2, <3>3
  <2>2. h[n + 1] = CashOf(more[n + 1], s[(n + 1) - 1])
    <3>1. n + 1 \in 1..Len(more)
      BY <1>10
    <3>2. QED
      BY <1>9, <1>22, <3>1, GainsType
  <2>3. s[(n + 1) - 1] = r[n] /\ more[n + 1] = f
    BY <1>10
  <2>4. QED
    BY <2>1, <2>2, <2>3
<1>24. PICK total \in Int : total = SumTo(g, n)
  BY <1>23, SumType
<1>25. SumTo(h, n + 1) = total + CashOf(f, r[n])
  <2>1. SumTo(h, n + 1) = SumTo(h, n) + h[n + 1]
    BY SumSteps
  <2>2. SumTo(h, n) = SumTo(g, n)
    BY <1>23, SumEqual
  <2>3. QED
    BY <1>23, <1>24, <2>1, <2>2
<1>26. c.ledger = Initial + c.fundingCash + SumTo(h, n + 1)
  <2>1. b.ledger = Initial + b.fundingCash + total
    BY <1>2, <1>3, <1>21, <1>24 DEF Explained
  <2>2. PICK d \in Int : d = CashOf(f, b.pos)
    BY <1>12, CashOfType
  <2>3. Initial \in Int /\ b.fundingCash \in Int
    BY ConstantFacts DEF Account
  <2>4. QED
    BY <1>6, <1>20, <1>25, <2>1, <2>2, <2>3
<1>27. Explained(c)
  BY <1>7, <1>9, <1>10, <1>19, <1>22, <1>26 DEF Explained
<1>28. QED
  BY <1>2, <1>3, <1>4, <1>5, <1>27

\* What a session sees, and what it writes, of explained books.
LEMMA SeenExplained ==
    ASSUME ~ Overlap, BooksOK, NEW s, copy[s] \in Copy, Explained(books)
    PROVE  Seen(s) \in Account /\ Explained(Seen(s))
<1>1. PICK b \in Account : b = books
  BY DEF BooksOK
<1>2. PICK d \in Account : d = Seen(s) /\ AllButCash(b, d)
  BY <1>1, SeenIs
<1>3. Alike(b, d)
  BY <1>2, AlikeMoved
<1>4. QED
  BY <1>1, <1>2, <1>3, AlikeExplained

LEMMA CommitExplained ==
    ASSUME ~ Overlap, BooksOK, NEW s, copy[s] \in Copy,
           NEW b \in Account, Explained(b), Commit(s, b)
    PROVE  Explained(books')
<1>1. PICK c : c = Written(s, b)
  OBVIOUS
<1>2. c \in Account /\ Alike(b, c)
  <2>1. c \in Account /\ AllButCash(b, c)
    BY <1>1, WrittenIs
  <2>2. QED
    BY <2>1, AlikeMoved
<1>3. Explained(c)
  BY <1>2, AlikeExplained
<1>4. QED
  BY <1>1, <1>3 DEF Commit

\* Releasing what an order locks is not replayed.
LEMMA UnlockExplained ==
    ASSUME NEW b \in Account, NEW o \in Order, Explained(b)
    PROVE  Unlock(b, o) \in Account /\ Explained(Unlock(b, o))
<1>1. PICK c : c = Unlock(b, o)
  OBVIOUS
<1>2. c \in Account /\ OnlyMoved(b, c)
  BY <1>1, UnlockIs
<1>3. Alike(b, c)
  BY <1>2, AlikeMoved
<1>4. QED
  BY <1>1, <1>2, <1>3, AlikeExplained

LEMMA FilledExplained ==
    ASSUME Grid = 1, NEW b \in Account, NEW o \in Order, NEW p \in Prices,
           clock \in 0..MaxClock, Explained(b)
    PROVE  Explained(FilledAt(b, o, p))
<1>1. PICK c \in Account : c = Unlock(b, o) /\ Explained(c)
  BY UnlockExplained
<1>2. PICK f \in Fill : f = FillOf(o.inst, Signed(o), p, MakerFee, clock)
  <2>1. o.inst \in Instruments /\ MakerFee \in Int
    BY ConstantFacts DEF Order
  <2>2. FillOf(o.inst, Signed(o), p, MakerFee, clock) \in Fill
    BY <2>1, SignedType, FillOfType
  <2>3. QED
    BY <2>2
<1>3. FilledAt(b, o, p) = Post(c, f, Len(c.fills) + 1)
  BY <1>1, <1>2, Zenon DEF FilledAt, PostLast
<1>4. QED
  BY <1>1, <1>3, PostExplained

LEMMA MatchedExplained ==
    ASSUME Grid = 1, orders \in Seq(Order), clock \in 0..MaxClock, NEW quote \in Quotes,
           Seen(Task) \in Sound, Explained(Seen(Task))
    PROVE  Matched(quote) \in Account /\ Explained(Matched(quote))
<1>1. PICK n \in Nat : n = Len(orders)
  OBVIOUS
<1>2. PICK g : /\ g[0] = Seen(Task)
               /\ \A k \in 1..n : g[k] = MatchStep(quote, k, g[k - 1])
               /\ \A k \in 0..n : g[k] \in Sound
               /\ Matched(quote) = g[n]
  BY <1>1, MatchedIs
<1> DEFINE T == {k \in 0..n : Explained(g[k])}
<1>3. 0 \in T
  BY <1>2
<1>4. ASSUME NEW k \in 1..n, k - 1 \in T PROVE k \in T
  <2>1. k \in 0..n /\ k - 1 \in 0..n /\ orders[k] \in Order
    BY <1>1
  <2>2. PICK b \in Account : b = g[k - 1] /\ g[k] = MatchStep(quote, k, b)
    BY <1>2, <2>1 DEF Sound
  <2>3. Explained(b)
    BY <1>4, <2>2
  <2>4. CASE k \in rows /\ Crosses(orders[k], quote[k])
    <3>1. g[k] = FilledAt(b, orders[k], quote[k]) /\ quote[k] \in Prices
      BY <2>2, <2>4, QuoteFacts DEF MatchStep
    <3>2. Explained(FilledAt(b, orders[k], quote[k]))
      BY <2>1, <2>3, <3>1, FilledExplained
    <3>3. QED
      BY <2>1, <3>1, <3>2
  <2>5. CASE ~ (k \in rows /\ Crosses(orders[k], quote[k]))
    BY <2>1, <2>2, <2>3, <2>5 DEF MatchStep
  <2>6. QED
    BY <2>4, <2>5
<1> HIDE DEF T
<1>5. \A k \in 0..n : k \in T
  BY <1>3, <1>4, UpTo
<1>6. Explained(g[n]) /\ g[n] \in Sound
  BY <1>2, <1>5 DEF T
<1>7. QED
  BY <1>2, <1>6 DEF Sound

LEMMA ClosedAtExplained ==
    ASSUME Grid = 1, Seen(Task) \in Account, clock \in 0..MaxClock, NEW b \in Account,
           Explained(b), NEW i \in Instruments, NEW p \in Prices
    PROVE  Explained(ClosedAt(b, i, p))
<1>1. Own(i).qty \in Int
  BY OwnIs DEF Account, Position
<1>2. PICK f \in Fill : f = FillOf(i, -Own(i).qty, p, TakerFee + LiquidationFee, clock)
  <2>1. PICK q \in Int : q = -Own(i).qty
    BY <1>1
  <2>2. TakerFee + LiquidationFee \in Int
    BY ConstantFacts
  <2>3. FillOf(i, q, p, TakerFee + LiquidationFee, clock) \in Fill
    BY <2>1, <2>2, FillOfType
  <2>4. QED
    BY <2>1, <2>3
<1>3. ClosedAt(b, i, p) = Post(b, f, Len(b.fills) + 1)
  BY <1>2, Zenon DEF ClosedAt, PostLast
<1>4. QED
  BY <1>3, PostExplained

LEMMA ClosedExplained ==
    ASSUME Grid = 1, Seen(Task) \in Account, clock \in 0..MaxClock,
           NEW mark \in [Exposed -> Prices], Marked(mark) \in Sound, Explained(Marked(mark))
    PROVE  Explained(Closed(mark))
<1>1. PICK n \in Nat : \E g :
          /\ n = Len(SetToSeq(Exposed))
          /\ g[0] = Marked(mark)
          /\ \A k \in 1..n : g[k] = CloseStep(mark, k, g[k - 1])
          /\ \A k \in 0..n : g[k] \in Sound
          /\ Closed(mark) = g[n]
  BY ClosedIs
<1>2. PICK g :
          /\ n = Len(SetToSeq(Exposed))
          /\ g[0] = Marked(mark)
          /\ \A k \in 1..n : g[k] = CloseStep(mark, k, g[k - 1])
          /\ \A k \in 0..n : g[k] \in Sound
          /\ Closed(mark) = g[n]
  BY <1>1
<1> DEFINE T == {k \in 0..n : Explained(g[k])}
<1>3. 0 \in T
  BY <1>2
<1>4. ASSUME NEW k \in 1..n, k - 1 \in T PROVE k \in T
  <2>1. PICK i \in Exposed : i = SetToSeq(Exposed)[k]
    BY <1>2, ExposedFacts
  <2>2. i \in Instruments /\ mark[i] \in Prices
    BY ExposedFacts
  <2>3. g[k] = ClosedAt(g[k - 1], i, mark[i]) /\ g[k - 1] \in Account /\ k \in 0..n
    BY <1>2, <2>1 DEF CloseStep, Sound
  <2>4. Explained(g[k])
    BY <1>4, <2>2, <2>3, ClosedAtExplained
  <2>5. QED
    BY <2>3, <2>4
<1> HIDE DEF T
<1>5. \A k \in 0..n : k \in T
  BY <1>3, <1>4, UpTo
<1>6. QED
  BY <1>2, <1>5 DEF T

LEMMA QuoteExplained ==
    ASSUME NEW b \in Account, NEW q \in Int, Explained(b)
    PROVE  [b EXCEPT !.quote = q] \in Account /\ Explained([b EXCEPT !.quote = q])
<1>1. PICK c : c = [b EXCEPT !.quote = q]
  OBVIOUS
<1>2. c \in Account
  <2>1. [b EXCEPT !.quote = q] \in Account
    BY Zenon DEF Account
  <2>2. QED
    BY <1>1, <2>1
<1>3. c.ledger = b.ledger /\ c.fundingCash = b.fundingCash /\ c.pos = b.pos /\ c.fills = b.fills
  BY <1>1 DEF Account
<1>4. Alike(b, c)
  BY <1>3 DEF Alike, AlikeRow
<1>5. QED
  BY <1>1, <1>2, <1>4, AlikeExplained

\* A fill of the signal loop is replayed last: no fill was made since the
\* task began but its own.
SignalsInOrder ==
    \A s \in DOMAIN signals, p \in Prices :
        SignalFilled(s, p) => moment.place = Len(books.fills)

LEMMA OpenedExplained == Explained(Opened)
<1>1. /\ Opened.fills = <<>> /\ Opened.fundingCash = 0 /\ Opened.ledger = Initial
      /\ \A i \in Instruments : Opened.pos[i] = Flat
  BY OpenedIs
<1>2. <<>> \in Seq(Fill) /\ Len(<<>>) = 0
  OBVIOUS
<1>3. PICK fills \in Seq(Fill) : fills = <<>> /\ Len(fills) = 0
  BY <1>2
<1>4. Replay(fills)[0] = Start
  BY <1>3, ReplayIs
<1>5. \A i \in Instruments : AlikeRow(Start[i], Flat)
  BY DEF AlikeRow, Start
<1>6. PICK g : g = Gains(fills)
  OBVIOUS
<1>7. SumTo(g, 0) = 0
  BY SumSteps
<1>8. Initial \in Int
  BY ConstantFacts
<1>9. PICK b : b = Opened
  OBVIOUS
<1>10. b.fills = fills
  BY <1>1, <1>3, <1>9
<1>11. \A i \in Instruments : AlikeRow(Replay(b.fills)[Len(b.fills)][i], b.pos[i])
  BY <1>1, <1>3, <1>4, <1>5, <1>9, <1>10
<1>12. b.ledger = Initial + b.fundingCash + SumTo(Gains(b.fills), Len(b.fills))
  BY <1>1, <1>3, <1>6, <1>7, <1>8, <1>9, <1>10
<1>13. QED
  BY <1>9, <1>11, <1>12 DEF Explained

LEMMA SubmitFilledExplained ==
    ASSUME ~ Overlap, Grid = 1, IInv, Explained(books), NEW r \in Requests, NEW i \in Instruments,
           NEW q \in Int, NEW p \in Prices, NEW fee \in Int, SubmitFilled(r, i, q, p, fee)
    PROVE  Explained(books')
<1>1. books \in Account /\ copy[r] \in Copy /\ clock \in 0..MaxClock
  BY CopyFacts DEF IInv, BooksOK, TimeOK
<1>2. PICK b \in Account : b = Seen(r) /\ Explained(b)
  BY <1>1, SeenExplained DEF IInv
<1>3. FillOf(i, q, p, fee, clock) \in Fill
  BY <1>1, FillOfType
<1>4. PICK f \in Fill : f = FillOf(i, q, p, fee, clock)
  BY <1>3
<1>5. PICK c : c = Post(b, f, Len(b.fills) + 1)
  OBVIOUS
<1>6. Explained(c)
  BY <1>2, <1>5, PostExplained
<1>7. c \in Account
  BY <1>5, PlaceLast, PostIs
<1>8. Commit(r, c)
  BY <1>2, <1>4, <1>5 DEF SubmitFilled, PostLast
<1>9. QED
  BY <1>1, <1>6, <1>7, <1>8, CommitExplained DEF IInv

LEMMA SubmitRestingExplained ==
    ASSUME ~ Overlap, IInv, Explained(books), NEW r \in Requests, NEW i \in Instruments,
           NEW buy \in BOOLEAN, NEW q \in 1..MaxQty, NEW limit \in Prices, NEW p \in Prices,
           SubmitResting(r, i, buy, q, limit, p)
    PROVE  Explained(books')
<1>1. books \in Account /\ copy[r] \in Copy
  BY CopyFacts DEF IInv, BooksOK
<1>2. PICK b \in Account : b = Seen(r) /\ Explained(b)
  BY <1>1, SeenExplained DEF IInv
<1>3. PICK o \in Order :
          o = [inst |-> i, buy |-> buy, qty |-> q, limit |-> limit, status |-> "pending"]
  <2>1. q \in Nat
    BY ConstantFacts
  <2>2. [inst |-> i, buy |-> buy, qty |-> q, limit |-> limit, status |-> "pending"] \in Order
    BY <2>1 DEF Order
  <2>3. QED
    BY <2>2
<1>4. Lockable(b, o) /\ Commit(r, Lock(b, o))
  BY <1>2, <1>3 DEF SubmitResting
<1>5. PICK c : c = Lock(b, o)
  OBVIOUS
<1>6. c \in Account /\ OnlyMoved(b, c)
  BY <1>4, <1>5, LockIs
<1>7. Alike(b, c)
  BY <1>6, AlikeMoved
<1>8. Explained(c)
  BY <1>2, <1>6, <1>7, AlikeExplained
<1>9. QED
  BY <1>1, <1>4, <1>5, <1>6, <1>8, CommitExplained DEF IInv

LEMMA SubmitExplained ==
    ASSUME ~ Overlap, Grid = 1, IInv, Explained(books), NEW r \in Requests, Submit(r)
    PROVE  Explained(books')
<1>1. PICK i \in Instruments, buy \in BOOLEAN, q \in 1..MaxQty, p \in Prices :
          \/ \E fee \in {TakerFee, MakerFee} :
                 SubmitFilled(r, i, IF buy THEN q ELSE -q, p, fee)
          \/ \E limit \in Prices : SubmitResting(r, i, buy, q, limit, p)
  BY DEF Submit
<1>2. ASSUME NEW fee \in {TakerFee, MakerFee}, SubmitFilled(r, i, IF buy THEN q ELSE -q, p, fee)
      PROVE  Explained(books')
  <2>1. fee \in Int
    BY ConstantFacts
  <2>2. PICK x \in Int : x = IF buy THEN q ELSE -q
    OBVIOUS
  <2>3. SubmitFilled(r, i, x, p, fee)
    BY <1>2, <2>2
  <2>4. QED
    BY <2>1, <2>3, SubmitFilledExplained
<1>3. ASSUME NEW limit \in Prices, SubmitResting(r, i, buy, q, limit, p)
      PROVE  Explained(books')
  BY <1>3, SubmitRestingExplained
<1>4. QED
  BY <1>1, <1>2, <1>3

LEMMA CancelExplained ==
    ASSUME ~ Overlap, IInv, Explained(books), NEW o \in DOMAIN orders, Cancel(o)
    PROVE  Explained(books')
<1>1. books \in Account /\ orders[o] \in Order
  BY DEF IInv, BooksOK, RowsOK
<1>2. books' = Unlock(books, orders[o])
  BY DEF Cancel
<1>3. QED
  BY <1>1, <1>2, UnlockExplained

LEMMA TaskMatchExplained ==
    ASSUME ~ Overlap, Grid = 1, IInv, Explained(books), NEW quote \in Quotes, TaskMatch(quote)
    PROVE  Explained(books')
<1>1. /\ books \in Account /\ copy[Task] \in Copy /\ orders \in Seq(Order)
      /\ clock \in 0..MaxClock
  BY CopyFacts DEF IInv, BooksOK, RowsOK, TimeOK
<1>2. Seen(Task) \in Sound /\ Explained(Seen(Task))
  BY <1>1, SeenSound, SeenExplained DEF IInv
<1>3. PICK b : b = Matched(quote)
  OBVIOUS
<1>4. b \in Account /\ Explained(b)
  BY <1>1, <1>2, <1>3, MatchedExplained
<1>5. Commit(Task, b)
  BY <1>3 DEF TaskMatch
<1>6. QED
  BY <1>1, <1>4, <1>5, CommitExplained DEF IInv

LEMMA TaskFundExplained ==
    ASSUME ~ Overlap, IInv, Explained(books), NEW known, NEW rate \in Rates, NEW p \in Prices,
           TaskFund(known, rate, p)
    PROVE  Explained(books')
<1>1. books \in Account /\ lastFunding \in Nat /\ moment.clock \in Nat /\ copy[Task] \in Copy
  BY ClockFacts, CopyFacts DEF IInv, BooksOK
<1>2. Due(known) \in SUBSET Settlement /\ IsFiniteSet(Due(known))
  BY <1>1, DueIs
<1>3. PICK cost \in Int : cost = Cost(Due(known), rate, p)
  BY <1>2, CostType
<1>4. PICK d \in Account : d = Seen(Task) /\ Explained(d)
  BY <1>1, SeenExplained DEF IInv
<1>5. PICK b : b = Charged(d, cost, Due(known))
  OBVIOUS
<1>6. /\ b \in Account /\ b.ledger = d.ledger - cost /\ b.fundingCash = d.fundingCash - cost
      /\ b.pos = d.pos /\ b.fills = d.fills
  BY <1>2, <1>5, ChargedIs
<1>7. Alike(d, b)
  <2>1. d.ledger \in Int /\ d.fundingCash \in Int
    BY DEF Account
  <2>2. b.ledger - b.fundingCash = d.ledger - d.fundingCash
    BY <1>6, <2>1
  <2>3. QED
    BY <1>6, <2>2 DEF Alike, AlikeRow
<1>8. Explained(b)
  BY <1>4, <1>6, <1>7, AlikeExplained
<1>9. Commit(Task, b)
  BY <1>3, <1>4, <1>5 DEF TaskFund
<1>10. QED
  BY <1>1, <1>6, <1>8, <1>9, CommitExplained DEF IInv

LEMMA TaskLiquidateExplained ==
    ASSUME ~ Overlap, Grid = 1, IInv, Explained(books), NEW mark \in [Exposed -> Prices],
           TaskLiquidate(mark)
    PROVE  Explained(books')
<1>1. BooksOK /\ CopyOK /\ books \in Account /\ clock \in 0..MaxClock
  BY DEF IInv, BooksOK, TimeOK
<1>2. copy[Task] \in Copy /\ clock \in Int
  BY <1>1, CopyFacts, ConstantFacts
<1>3. Seen(Task) \in Sound /\ Seen(Task) \in Account
  BY <1>1, <1>2, SeenSound
<1>4. PICK m : m = Marked(mark)
  OBVIOUS
<1>5. m \in Sound /\ m \in Account
  BY <1>1, <1>2, <1>3, <1>4, MarkedFollows DEF Follows, Sound
<1>6. Alike(Seen(Task), m)
  BY <1>1, <1>3, <1>4, MarkedIs DEF Alike, AlikeRow
<1>7. Explained(m)
  BY <1>1, <1>2, <1>3, <1>5, <1>6, SeenExplained, AlikeExplained DEF IInv
<1>8. PICK c : c = Closed(mark)
  OBVIOUS
<1>9. c \in Account
  BY <1>1, <1>3, <1>4, <1>5, <1>8, ClosedFollows DEF Follows
<1>10. Explained(c)
  BY <1>1, <1>3, <1>4, <1>5, <1>7, <1>8, ClosedExplained
<1>11. PICK q \in Int : q = AtLeast(0, c.cash)
  BY <1>9 DEF Account, AtLeast
<1>12. PICK d : d = [c EXCEPT !.quote = q]
  OBVIOUS
<1>13. d \in Account /\ Explained(d)
  BY <1>9, <1>10, <1>12, QuoteExplained
<1>14. \E x : LET b2 == IF x THEN Marked(mark)
                         ELSE [Closed(mark) EXCEPT !.quote = AtLeast(0, Closed(mark).cash)]
              IN  Commit(Task, b2)
  BY Zenon DEF TaskLiquidate
<1>15. Commit(Task, m) \/ Commit(Task, d)
  BY <1>4, <1>8, <1>11, <1>12, <1>14, Zenon
<1>16. QED
  BY <1>1, <1>2, <1>5, <1>7, <1>13, <1>15, CommitExplained

LEMMA SignalFilledExplained ==
    ASSUME ~ Overlap, Grid = 1, IInv, Explained(books), phase = "signals", NEW s \in DOMAIN signals,
           NEW p \in Prices, SignalFilled(s, p), moment.place = Len(books.fills)
    PROVE  Explained(books')
<1>1. books \in Account /\ copy[Task] \in Copy
  BY CopyFacts DEF IInv, BooksOK
<1>2. PICK d \in Account : d = Seen(Task) /\ Explained(d) /\ d.fills = books.fills
  BY <1>1, SeenExplained, SeenSound DEF IInv
<1>3. PICK f \in Fill : Commit(Task, Post(Seen(Task), f, moment.place + 1))
  BY SignalFilledIs
<1>4. PICK b : b = Post(d, f, Len(d.fills) + 1)
  OBVIOUS
<1>5. Explained(b)
  BY <1>2, <1>4, PostExplained
<1>6. b \in Account
  BY <1>4, PlaceLast, PostIs
<1>7. Commit(Task, b)
  BY <1>2, <1>3, <1>4
<1>8. QED
  BY <1>1, <1>5, <1>6, <1>7, CommitExplained DEF IInv

LEMMA TaskSignalExplained ==
    ASSUME ~ Overlap, Grid = 1, IInv, Explained(books), SignalsInOrder, TaskSignal
    PROVE  Explained(books')
<1>1. phase = "signals" /\ Oldest \in DOMAIN signals
  BY OldestIs DEF TaskSignal, IInv, RowsOK, TaskOK
<1>2. PICK s \in DOMAIN signals : s = Oldest
  BY <1>1
<1>3. \/ SignalLapsed(s)
      \/ \E p \in Prices : SignalNoDelta(s, p) \/ SignalRejected(s, p) \/ SignalFilled(s, p)
  BY <1>2 DEF TaskSignal
<1>4. CASE Unfilled
  BY <1>4 DEF Unfilled
<1>5. ASSUME NEW p \in Prices, SignalFilled(s, p) PROVE Explained(books')
  <2>1. moment.place = Len(books.fills)
    BY <1>5 DEF SignalsInOrder
  <2>2. QED
    BY <1>1, <1>5, <2>1, SignalFilledExplained
<1>6. QED
  BY <1>3, <1>4, <1>5 DEF SignalLapsed, SignalNoDelta, SignalRejected

LEMMA ExplainedSteps ==
    ASSUME ~ Overlap, Grid = 1, IInv, Explained(books), ~ Repair, SignalsInOrder, Next
    PROVE  Explained(books')
<1>1. ASSUME NEW r \in Requests, Open(r) \/ Abandon(r) \/ Submit(r)
      PROVE  Explained(books')
  BY <1>1, SubmitExplained DEF Open, Abandon
<1>2. ASSUME NEW o \in DOMAIN orders, Cancel(o) PROVE Explained(books')
  BY <1>2, CancelExplained
<1>3. CASE SetStatus \/ Tick
  BY <1>3 DEF SetStatus, Tick
<1>4. CASE Reset
  BY <1>4, OpenedExplained DEF Reset
<1>5. ASSUME NEW i \in Perps, DropSignals(i) \/ \E target \in Targets : GenerateSignal(i, target)
      PROVE  Explained(books')
  BY <1>5 DEF DropSignals, GenerateSignal
<1>6. CASE TaskStart
  BY <1>6 DEF TaskStart
<1>7. CASE TaskWork
  <2>1. ASSUME NEW quote \in Quotes, TaskMatch(quote) PROVE Explained(books')
    BY <2>1, TaskMatchExplained
  <2>2. ASSUME NEW quote \in Quotes, TaskMatchFails(quote) PROVE Explained(books')
    BY <2>2 DEF TaskMatchFails
  <2>3. ASSUME NEW known \in KnownRates, NEW rate \in Rates, NEW p \in Prices,
               TaskFund(known, rate, p)
        PROVE  Explained(books')
    BY <2>3, TaskFundExplained
  <2>4. ASSUME NEW mark \in [Exposed -> Prices], TaskLiquidate(mark) PROVE Explained(books')
    BY <2>4, TaskLiquidateExplained
  <2>5. CASE TaskLiquidateFails
    BY <2>5 DEF TaskLiquidateFails
  <2>6. CASE SignalSkipped
    BY <2>6 DEF SignalSkipped, Unfilled
  <2>7. CASE TaskSignal
    BY <2>7, TaskSignalExplained
  <2>8. CASE TaskClose
    BY <2>8 DEF TaskClose
  <2>9. QED
    BY <1>7, <2>1, <2>2, <2>3, <2>4, <2>5, <2>6, <2>7, <2>8 DEF TaskWork
<1>8. QED
  BY <1>1, <1>2, <1>3, <1>4, <1>5, <1>6, <1>7 DEF Next, ReadRows

\* With books that are explained and conserved there is nothing to repair.
LEMMA NothingToRepair ==
    ASSUME IInv, Conserved, Explained(books)
    PROVE  RebuildsExactly /\ ~ Repair
<1>1. RebuildsExactly
  BY Reconciles DEF IInv, BooksOK, Conserved
<1>2. QED
  BY <1>1 DEF RebuildsExactly, Repair

Rebuilds == IInv /\ Alone /\ Conserved /\ Explained(books)

LEMMA RebuildsStarts == Init => Rebuilds
BY Starts, StartsAlone, OpenedExplained DEF Init, Rebuilds

LEMMA RebuildsSteps ==
    ASSUME ~ Overlap, Grid = 1, Rebuilds, [Next]_vars, [SignalsInOrder]_vars
    PROVE  Rebuilds'
<1>1. IInv'
  BY Steps DEF Rebuilds
<1>2. CASE UNCHANGED vars
  <2>1. books' = books
    BY <1>2 DEF vars
  <2>2. Explained(books')
    BY <2>1 DEF Rebuilds
  <2>3. Alone' /\ Conserved'
    BY <1>1, <1>2, OthersAlone DEF vars, taskVars, Rebuilds
  <2>4. QED
    BY <1>1, <2>2, <2>3 DEF Rebuilds
<1>3. CASE Next /\ SignalsInOrder
  <2>1. ~ Repair
    BY NothingToRepair DEF Rebuilds
  <2>2. Explained(books')
    BY <1>3, <2>1, ExplainedSteps DEF Rebuilds
  <2>3. Alone' /\ Conserved'
    BY <1>1, <2>1, AloneSteps DEF Rebuilds
  <2>4. QED
    BY <1>1, <2>2, <2>3 DEF Rebuilds
<1>4. QED
  BY <1>2, <1>3

LEMMA RebuildsImplied == Rebuilds => RebuildsExactly /\ LedgerExplainsCash /\ LocksCoverOrders
BY NothingToRepair, ConservedIs DEF Rebuilds, IInv, BooksOK

\* With one session at a time, no rounding, and signals that fill in the order
\* fills are replayed in, reconcile_account never finds a mismatch: what is
\* rebuilt from fills and funding is what was kept, so there is never a repair.
THEOREM AccountsReconcile ==
    ASSUME ~ Overlap, Grid = 1
    PROVE  Spec /\ [][SignalsInOrder]_vars =>
               [](RebuildsExactly /\ LedgerExplainsCash /\ LocksCoverOrders)
<1>1. ASSUME Rebuilds, [Next]_vars, [SignalsInOrder]_vars PROVE Rebuilds'
  BY <1>1, RebuildsSteps
<1>2. QED
  BY <1>1, RebuildsStarts, RebuildsImplied, PTL DEF Spec

\* Without deployments there are no signals.
LEMMA NoSignals ==
    ASSUME MaxSignals = 0, IInv, DOMAIN signals = {}, [Next]_vars
    PROVE  DOMAIN signals' = {} /\ SignalsInOrder
<1>1. SignalsInOrder
  BY DEF SignalsInOrder
<1> SUFFICES DOMAIN signals' = {}
  BY <1>1
<1>2. phase # "signals" /\ Len(signals) = 0
  BY DEF IInv, RowsOK, TaskOK
<1>3. \A i, target : ~ GenerateSignal(i, target)
  BY <1>2 DEF GenerateSignal
<1>4. \A S : DOMAIN Consume(S) = {}
  BY DEF Consume
<1>5. \A i : DOMAIN Superseded(i) = {}
  BY DEF Superseded
<1>6. CASE UNCHANGED vars
  BY <1>6 DEF vars
<1>7. ASSUME NEW r \in Requests, Open(r) \/ Abandon(r) PROVE signals' = signals
  BY <1>7 DEF Open, Abandon
<1>8. ASSUME NEW r \in Requests, Submit(r) PROVE signals' = signals
  <2>1. ASSUME NEW i, NEW q, NEW p, NEW fee, SubmitFilled(r, i, q, p, fee)
        PROVE  signals' = signals
    BY <2>1 DEF SubmitFilled
  <2>2. ASSUME NEW i, NEW buy, NEW q, NEW limit, NEW p, SubmitResting(r, i, buy, q, limit, p)
        PROVE  signals' = signals
    BY <2>2 DEF SubmitResting
  <2>3. QED
    BY <1>8, <2>1, <2>2, Zenon DEF Submit
<1>9. ASSUME NEW o \in DOMAIN orders, Cancel(o) PROVE signals' = signals
  BY <1>9 DEF Cancel
<1>10. CASE SetStatus \/ Tick \/ Repair \/ Reset \/ TaskStart
  BY <1>10 DEF SetStatus, Tick, Repair, Reset, TaskStart
<1>11. ASSUME NEW i \in Perps, DropSignals(i) PROVE DOMAIN signals' = {}
  BY <1>5, <1>11 DEF DropSignals
<1>12. CASE TaskWork
  <2>1. ~ TaskSignal /\ ~ SignalSkipped
    BY <1>2 DEF TaskSignal, SignalSkipped
  <2>2. ASSUME NEW quote \in Quotes, TaskMatch(quote) \/ TaskMatchFails(quote)
        PROVE  signals' = signals
    BY <2>2 DEF TaskMatch, TaskMatchFails
  <2>3. ASSUME NEW known, NEW rate, NEW p, TaskFund(known, rate, p) PROVE signals' = signals
    BY <2>3 DEF TaskFund
  <2>4. ASSUME NEW mark, TaskLiquidate(mark) PROVE signals' = signals
    BY <2>4 DEF TaskLiquidate
  <2>5. CASE TaskLiquidateFails
    BY <2>5 DEF TaskLiquidateFails
  <2>6. CASE TaskClose
    BY <1>4, <2>6 DEF TaskClose
  <2>7. QED
    BY <1>12, <2>1, <2>2, <2>3, <2>4, <2>5, <2>6 DEF TaskWork
<1>13. QED
  BY <1>3, <1>6, <1>7, <1>8, <1>9, <1>10, <1>11, <1>12 DEF Next, ReadRows

\* The same of an account without deployments: it has no signals.
THEOREM ManualAccountsReconcile ==
    ASSUME ~ Overlap, Grid = 1, MaxSignals = 0
    PROVE  Spec => [](RebuildsExactly /\ LedgerExplainsCash /\ LocksCoverOrders)
<1> DEFINE J == Rebuilds /\ DOMAIN signals = {}
<1>1. Init => J
  BY RebuildsStarts DEF Init
<1>2. ASSUME J, [Next]_vars PROVE J'
  <2>1. SignalsInOrder /\ DOMAIN signals' = {}
    BY <1>2, NoSignals DEF Rebuilds
  <2>2. QED
    BY <1>2, <2>1, RebuildsSteps
<1>3. J => RebuildsExactly /\ LedgerExplainsCash /\ LocksCoverOrders
  BY RebuildsImplied
<1> HIDE DEF J
<1>4. QED
  BY <1>1, <1>2, <1>3, PTL DEF Spec

-----------------------------------------------------------------------------
(***************************************************************************)
(* Spot accounts: a resting order can be filled.                           *)
(***************************************************************************)

\* Books whose rows the database takes are not in debt.
Solvent(b) == b.valid => b.cash >= 0

LEMMA SpotsOnly == ASSUME Perps = {}, NEW i \in Instruments PROVE i \in Spots
BY DEF Instruments

LEMMA PostSolvent ==
    ASSUME Perps = {}, NEW b \in Account, NEW f \in Fill, NEW k \in 1..(Len(b.fills) + 1)
    PROVE  Solvent(Post(b, f, k))
<1>1. f.inst \in Spots
  BY SpotsOnly DEF Fill
<1>2. PICK p : p = Post(b, f, k)
  OBVIOUS
<1>3. p.cash = b.cash + CashOf(f, b.pos)
  BY <1>2, PostIs
<1>4. p.valid => b.cash + CashOf(f, b.pos) >= 0
  BY <1>1, <1>2, PostIs
<1>5. QED
  BY <1>2, <1>3, <1>4 DEF Solvent

\* What a session alone writes of solvent books.
LEMMA CommitSolvent ==
    ASSUME ~ Overlap, BooksOK, NEW s, copy[s] \in Copy,
           copy[s].cash = books.cash, copy[s].locked = books.locked,
           NEW b \in Account, Solvent(b), Commit(s, b)
    PROVE  books'.cash >= 0
<1>1. books'.cash = b.cash
  BY Wrote
<1>2. QED
  BY <1>1 DEF Commit, Solvent

LEMMA FilledSolvent ==
    ASSUME Perps = {}, NEW b \in Account, NEW o \in Order, NEW p \in Prices,
           clock \in 0..MaxClock
    PROVE  Solvent(FilledAt(b, o, p))
<1>1. PICK c \in Account : c = Unlock(b, o)
  BY UnlockIs
<1>2. PICK f \in Fill : f = FillOf(o.inst, Signed(o), p, MakerFee, clock)
  <2>1. o.inst \in Instruments /\ MakerFee \in Int
    BY ConstantFacts DEF Order
  <2>2. FillOf(o.inst, Signed(o), p, MakerFee, clock) \in Fill
    BY <2>1, SignedType, FillOfType
  <2>3. QED
    BY <2>2
<1>3. FilledAt(b, o, p) = Post(c, f, Len(c.fills) + 1)
  BY <1>1, <1>2, Zenon DEF FilledAt, PostLast
<1>4. QED
  BY <1>3, PlaceLast, PostSolvent

LEMMA MatchedSolvent ==
    ASSUME Perps = {}, orders \in Seq(Order), clock \in 0..MaxClock, NEW quote \in Quotes,
           Seen(Task) \in Sound, Solvent(Seen(Task))
    PROVE  Matched(quote) \in Account /\ Solvent(Matched(quote))
<1>1. PICK n \in Nat : n = Len(orders)
  OBVIOUS
<1>2. PICK g : /\ g[0] = Seen(Task)
               /\ \A k \in 1..n : g[k] = MatchStep(quote, k, g[k - 1])
               /\ \A k \in 0..n : g[k] \in Sound
               /\ Matched(quote) = g[n]
  BY <1>1, MatchedIs
<1> DEFINE T == {k \in 0..n : Solvent(g[k])}
<1>3. 0 \in T
  BY <1>2
<1>4. ASSUME NEW k \in 1..n, k - 1 \in T PROVE k \in T
  <2>1. k \in 0..n /\ k - 1 \in 0..n /\ orders[k] \in Order
    BY <1>1
  <2>2. PICK b \in Account : b = g[k - 1] /\ g[k] = MatchStep(quote, k, b)
    BY <1>2, <2>1 DEF Sound
  <2>3. Solvent(b)
    BY <1>4, <2>2
  <2>4. CASE k \in rows /\ Crosses(orders[k], quote[k])
    <3>1. g[k] = FilledAt(b, orders[k], quote[k]) /\ quote[k] \in Prices
      BY <2>2, <2>4, QuoteFacts DEF MatchStep
    <3>2. Solvent(FilledAt(b, orders[k], quote[k]))
      BY <2>1, <3>1, FilledSolvent
    <3>3. QED
      BY <2>1, <3>1, <3>2
  <2>5. CASE ~ (k \in rows /\ Crosses(orders[k], quote[k]))
    BY <2>1, <2>2, <2>3, <2>5 DEF MatchStep
  <2>6. QED
    BY <2>4, <2>5
<1> HIDE DEF T
<1>5. \A k \in 0..n : k \in T
  BY <1>3, <1>4, UpTo
<1>6. Solvent(g[n]) /\ g[n] \in Sound
  BY <1>2, <1>5 DEF T
<1>7. QED
  BY <1>2, <1>6 DEF Sound

\* A session alone sees books that are solvent.
LEMMA SeenSolvent ==
    ASSUME ~ Overlap, IInv, books.cash >= 0, NEW s, copy[s] \in Copy,
           copy[s].cash = books.cash, copy[s].locked = books.locked
    PROVE  /\ Seen(s) \in Account /\ Seen(s) \in Sound /\ Solvent(Seen(s))
           /\ Seen(s).cash >= 0
<1>1. books \in Account
  BY DEF IInv, BooksOK
<1>2. Seen(s).cash = books.cash
  BY <1>1, Saw DEF IInv
<1>3. Seen(s) \in Account /\ Seen(s) \in Sound
  BY SeenSound DEF IInv, Sound
<1>4. QED
  BY <1>2, <1>3 DEF Solvent

LEMMA SubmitSolvent ==
    ASSUME ~ Overlap, Perps = {}, IInv, Alone, books.cash >= 0, NEW r \in Requests, Submit(r)
    PROVE  books'.cash >= 0
<1>1. PICK i \in Instruments, buy \in BOOLEAN, q \in 1..MaxQty, p \in Prices :
          \/ \E fee \in {TakerFee, MakerFee} :
                 SubmitFilled(r, i, IF buy THEN q ELSE -q, p, fee)
          \/ \E limit \in Prices : SubmitResting(r, i, buy, q, limit, p)
  BY DEF Submit
<1>2. copy[r].open
  BY <1>1 DEF SubmitFilled, SubmitResting
<1>3. /\ copy[r].cash = books.cash /\ copy[r].locked = books.locked /\ copy[r] \in Copy
      /\ books \in Account /\ clock \in 0..MaxClock
  BY <1>2, CopyFacts DEF Alone, IInv, BooksOK, TimeOK
<1>4. PICK b \in Account : b = Seen(r) /\ b.cash >= 0
  BY <1>3, SeenSolvent DEF IInv
<1>5. ASSUME NEW fee \in {TakerFee, MakerFee}, SubmitFilled(r, i, IF buy THEN q ELSE -q, p, fee)
      PROVE  books'.cash >= 0
  <2>1. fee \in Int
    BY ConstantFacts
  <2>2. PICK x \in Int : x = IF buy THEN q ELSE -q
    OBVIOUS
  <2>3. FillOf(i, x, p, fee, clock) \in Fill
    BY <1>3, <2>1, FillOfType
  <2>4. PICK f \in Fill : f = FillOf(i, x, p, fee, clock)
    BY <2>3
  <2>5. PICK c : c = Post(b, f, Len(b.fills) + 1)
    OBVIOUS
  <2>6. c \in Account /\ Solvent(c)
    BY <2>5, PlaceLast, PostIs, PostSolvent
  <2>7. Commit(r, c)
    BY <1>4, <1>5, <2>2, <2>4, <2>5 DEF SubmitFilled, PostLast
  <2>8. QED
    BY <1>3, <2>6, <2>7, CommitSolvent DEF IInv
<1>6. ASSUME NEW limit \in Prices, SubmitResting(r, i, buy, q, limit, p)
      PROVE  books'.cash >= 0
  <2>1. PICK o \in Order :
            o = [inst |-> i, buy |-> buy, qty |-> q, limit |-> limit, status |-> "pending"]
    <3>1. q \in Nat
      BY ConstantFacts
    <3>2. [inst |-> i, buy |-> buy, qty |-> q, limit |-> limit, status |-> "pending"] \in Order
      BY <3>1 DEF Order
    <3>3. QED
      BY <3>2
  <2>2. Lockable(b, o) /\ Commit(r, Lock(b, o))
    BY <1>4, <1>6, <2>1 DEF SubmitResting
  <2>3. PICK c : c = Lock(b, o)
    OBVIOUS
  <2>4. c \in Account
    BY <2>2, <2>3, LockIs
  <2>5. c.cash >= 0
    <3>1. CASE Sells(o)
      <4>1. c.cash = b.cash
        BY <2>2, <2>3, <3>1, LockIs
      <4>2. QED
        BY <1>4, <4>1
    <3>2. CASE ~ Sells(o)
      <4>1. c.cash = b.cash - Reserved(o)
        BY <2>2, <2>3, <3>2, LockIs
      <4>2. b.cash >= Reserved(o)
        BY <2>2, <3>2 DEF Lockable
      <4>3. b.cash \in Int /\ Reserved(o) \in Int
        BY ReservedType DEF Account
      <4>4. QED
        BY <4>1, <4>2, <4>3
    <3>3. QED
      BY <3>1, <3>2
  <2>6. QED
    BY <1>3, <2>2, <2>3, <2>4, <2>5, CommitSolvent DEF IInv, Solvent
<1>7. QED
  BY <1>1, <1>5, <1>6

LEMMA CancelSolvent ==
    ASSUME ~ Overlap, IInv, books.cash >= 0, NEW o \in DOMAIN orders, Cancel(o)
    PROVE  books'.cash >= 0
<1>1. books \in Account /\ orders[o] \in Order /\ books' = Unlock(books, orders[o])
  BY DEF IInv, BooksOK, RowsOK, Cancel
<1>2. PICK x \in Order : x = orders[o]
  BY <1>1
<1>3. PICK c : c = Unlock(books, x)
  OBVIOUS
<1>4. c.cash >= books.cash /\ c.cash \in Int
  <2>1. c \in Account
    BY <1>1, <1>3, UnlockIs
  <2>2. c.cash = books.cash \/ c.cash = books.cash + AtMost(books.locked, Reserved(x))
    BY <1>1, <1>3, UnlockIs
  <2>3. AtMost(books.locked, Reserved(x)) \in Nat /\ books.cash \in Int
    BY <1>1, ReservedType DEF AtMost, Account
  <2>4. QED
    BY <2>1, <2>2, <2>3 DEF Account
<1>5. QED
  BY <1>1, <1>2, <1>3, <1>4 DEF Account

\* No perpetual: nothing to settle, nothing to liquidate.
LEMMA FundSolvent ==
    ASSUME ~ Overlap, Perps = {}, IInv, Alone, books.cash >= 0, NEW known, NEW rate \in Rates,
           NEW p \in Prices, TaskFund(known, rate, p)
    PROVE  books'.cash >= 0
<1>1. /\ books \in Account /\ copy[Task] \in Copy /\ phase = "fund"
      /\ copy[Task].cash = books.cash /\ copy[Task].locked = books.locked
  BY CopyFacts DEF IInv, BooksOK, Alone, TaskFund
<1>2. PICK d \in Account : d = Seen(Task) /\ d.cash >= 0
  BY <1>1, SeenSolvent DEF IInv
<1>3. Due(known) = {}
  BY DEF Due
<1>4. Cost({}, rate, p) = 0
  <2>1. IsFiniteSet({}) /\ Cardinality({}) = 0
    BY FS_EmptySet
  <2>2. PICK s \in Seq({}) : s = SetToSeq({}) /\ Len(s) = 0
    BY <2>1, ListFacts
  <2>3. PICK f : f = [k \in DOMAIN s |-> s[k].qty * p * rate]
    OBVIOUS
  <2>4. Cost({}, rate, p) = SumTo(f, Len(s))
    BY <2>2, <2>3, Zenon DEF Cost, SumOver
  <2>5. QED
    BY <2>2, <2>4, SumSteps
<1>5. PICK cost \in Int : cost = Cost(Due(known), rate, p) /\ cost = 0
  BY <1>3, <1>4
<1>6. PICK b : b = Charged(d, cost, Due(known))
  OBVIOUS
<1>7. b \in Account /\ b.cash = d.cash - cost
  <2>1. Due(known) \in SUBSET Settlement
    BY <1>3
  <2>2. QED
    BY <1>6, <2>1, ChargedIs
<1>8. b.cash >= 0
  <2>1. d.cash \in Int
    BY DEF Account
  <2>2. QED
    BY <1>2, <1>5, <1>7, <2>1
<1>9. Commit(Task, b)
  BY <1>2, <1>5, <1>6 DEF TaskFund
<1>10. QED
  BY <1>1, <1>7, <1>8, <1>9, CommitSolvent DEF IInv, Solvent

LEMMA LiquidateSolvent ==
    ASSUME ~ Overlap, Perps = {}, IInv, Alone, books.cash >= 0, NEW mark \in [Exposed -> Prices],
           TaskLiquidate(mark)
    PROVE  books'.cash >= 0
<1>1. /\ books \in Account /\ copy[Task] \in Copy /\ phase = "liquidate"
      /\ copy[Task].cash = books.cash /\ copy[Task].locked = books.locked
  BY CopyFacts DEF IInv, BooksOK, Alone, TaskLiquidate
<1>2. PICK d \in Account : d = Seen(Task) /\ d.cash >= 0 /\ d.pos = books.pos
  BY <1>1, SeenSolvent, SeenSound DEF IInv
<1>3. Exposed = {}
  BY DEF Exposed
<1>4. PICK m : m = Marked(mark)
  OBVIOUS
<1>5. m \in Account /\ m.cash = d.cash
  BY <1>2, <1>4, MarkedIs
<1>6. Commit(Task, m)
  BY <1>3, <1>4, Zenon DEF TaskLiquidate
<1>7. QED
  BY <1>1, <1>2, <1>5, <1>6, CommitSolvent DEF IInv, Solvent

LEMMA TaskSolvent ==
    ASSUME ~ Overlap, Perps = {}, IInv, Alone, books.cash >= 0, TaskWork
    PROVE  books'.cash >= 0
<1>1. phase # "idle" => /\ books \in Account /\ copy[Task] \in Copy /\ clock \in 0..MaxClock
                        /\ copy[Task].cash = books.cash /\ copy[Task].locked = books.locked
                        /\ orders \in Seq(Order)
  BY CopyFacts DEF IInv, BooksOK, Alone, TimeOK, RowsOK
<1>2. ASSUME NEW quote \in Quotes, TaskMatch(quote) PROVE books'.cash >= 0
  <2>1. phase # "idle" /\ Commit(Task, Matched(quote))
    BY <1>2 DEF TaskMatch
  <2>2. Seen(Task) \in Sound /\ Solvent(Seen(Task))
    BY <1>1, <2>1, SeenSolvent DEF IInv
  <2>3. PICK b \in Account : b = Matched(quote) /\ Solvent(b)
    BY <1>1, <2>1, <2>2, MatchedSolvent
  <2>4. QED
    BY <1>1, <2>1, <2>3, CommitSolvent DEF IInv
<1>3. ASSUME NEW quote \in Quotes, TaskMatchFails(quote) PROVE books'.cash >= 0
  BY <1>3 DEF TaskMatchFails
<1>4. ASSUME NEW known \in KnownRates, NEW rate \in Rates, NEW p \in Prices,
             TaskFund(known, rate, p)
      PROVE  books'.cash >= 0
  BY <1>4, FundSolvent
<1>5. ASSUME NEW mark \in [Exposed -> Prices], TaskLiquidate(mark) PROVE books'.cash >= 0
  BY <1>5, LiquidateSolvent
<1>6. CASE TaskLiquidateFails
  BY <1>6 DEF TaskLiquidateFails
<1>7. CASE SignalSkipped
  BY <1>7 DEF SignalSkipped, Unfilled
<1>8. ~ TaskSignal
  <2>1. ASSUME TaskSignal PROVE FALSE
    <3>1. Oldest \in DOMAIN signals
      BY <2>1, OldestIs DEF TaskSignal, IInv, RowsOK, TaskOK
    <3>2. signals[Oldest] \in Signal
      BY <3>1 DEF IInv, RowsOK
    <3>3. signals[Oldest].inst \in Perps
      BY <3>2 DEF Signal
    <3>4. QED
      BY <3>3
  <2>2. QED
    BY <2>1
<1>9. CASE TaskClose
  BY <1>9 DEF TaskClose
<1>10. QED
  BY <1>2, <1>3, <1>4, <1>5, <1>6, <1>7, <1>8, <1>9 DEF TaskWork

LEMMA SolventSteps ==
    ASSUME ~ Overlap, Perps = {}, IInv, Alone, books.cash >= 0, ~ Repair, [Next]_vars
    PROVE  books'.cash >= 0
<1>1. CASE UNCHANGED vars
  BY <1>1 DEF vars
<1>2. ASSUME NEW r \in Requests, Open(r) \/ Abandon(r) \/ Submit(r) PROVE books'.cash >= 0
  BY <1>2, SubmitSolvent DEF Open, Abandon
<1>3. ASSUME NEW o \in DOMAIN orders, Cancel(o) PROVE books'.cash >= 0
  BY <1>3, CancelSolvent
<1>4. CASE SetStatus \/ Tick \/ TaskStart
  BY <1>4 DEF SetStatus, Tick, TaskStart
<1>5. CASE Reset
  <2>1. books'.cash = Initial /\ Initial \in Nat
    BY <1>5, OpenedIs, PaperAssumption DEF Reset
  <2>2. QED
    BY <2>1
<1>6. CASE TaskWork
  BY <1>6, TaskSolvent
<1>7. QED
  BY <1>1, <1>2, <1>3, <1>4, <1>5, <1>6 DEF Next, ReadRows

LEMMA HigherCostsMore ==
    ASSUME NEW x \in Nat, NEW p \in Nat, NEW l \in Nat, p <= l, NEW u \in Nat
    PROVE  x * p * u <= x * l * u
<1>1. PICK d \in Nat : l = p + d
  <2>1. l - p \in Nat /\ l = p + (l - p)
    OBVIOUS
  <2>2. QED
    BY <2>1
<1>2. x * d * u \in Nat
  OBVIOUS
<1>3. x * l * u = x * p * u + x * d * u
  BY <1>1
<1>4. x * p * u \in Nat
  OBVIOUS
<1>5. QED
  BY <1>2, <1>3, <1>4

\* What a resting order holds is there to be released.
LEMMA HeldIsThere ==
    ASSUME NEW b \in Account, NEW os \in Seq(Order), Covers(b, os), NEW o \in DOMAIN os
    PROVE  CashHeld(os[o]) <= b.locked
           /\ \A i \in Spots : AssetHeld(os[o], i) <= b.baseLocked[i]
<1>1. PICK n \in Nat : n = Len(os) /\ DOMAIN os = 1..n /\ o \in 1..n
  OBVIOUS
<1>2. \A j \in 1..n : os[j] \in Order
  BY <1>1
<1>3. CashHeld(os[o]) <= b.locked
  <2>1. PICK f : f = CashList(os)
    OBVIOUS
  <2>2. \A j \in 1..n : f[j] = CashHeld(os[j])
    BY <1>1, <2>1 DEF CashList
  <2>3. \A j \in 1..n : f[j] \in Nat
    BY <1>2, <2>2, HeldTypes
  <2>4. f[o] <= SumTo(f, n)
    BY <1>1, <2>3, SumBound
  <2>5. QED
    BY <1>1, <2>1, <2>2, <2>4 DEF Covers
<1>4. ASSUME NEW i \in Spots PROVE AssetHeld(os[o], i) <= b.baseLocked[i]
  <2>1. PICK f : f = AssetList(os, i)
    OBVIOUS
  <2>2. \A j \in 1..n : f[j] = AssetHeld(os[j], i)
    BY <1>1, <2>1 DEF AssetList
  <2>3. \A j \in 1..n : f[j] \in Nat
    BY <1>2, <2>2, HeldTypes
  <2>4. f[o] <= SumTo(f, n)
    BY <1>1, <2>3, SumBound
  <2>5. QED
    BY <1>1, <2>1, <2>2, <2>4 DEF Covers
<1>5. QED
  BY <1>3, <1>4

\* The fill of a resting spot order, once what it locked is released.
LEMMA CanFill ==
    ASSUME Perps = {}, MakerFee <= Unit, clock \in 0..MaxClock,
           NEW b \in Account, b.valid, b.cash >= 0, \A i \in Spots : b.base[i] >= 0,
           NEW o \in Order, NEW p \in Prices, Crosses(o, p), ~ Sells(o) => Reserved(o) <= b.locked,
           Sells(o) => o.qty <= b.baseLocked[o.inst]
    PROVE  FilledAt(b, o, p).valid
<1>1. PICK c \in Account : c = Unlock(b, o) /\ OnlyMoved(b, c)
  BY UnlockIs
<1>2. c.valid
  <2>1. c.valid = b.valid
    BY <1>1, UnlockIs
  <2>2. QED
    BY <2>1
<1>3. o.inst \in Spots /\ o.qty \in Nat /\ o.limit \in Nat /\ p \in Nat
      /\ Unit \in Nat /\ MakerFee \in Nat
  BY SpotsOnly, ConstantFacts DEF Order
<1>4. FillOf(o.inst, Signed(o), p, MakerFee, clock) \in Fill
  BY <1>3, SignedType, FillOfType, ConstantFacts
<1>5. PICK f \in Fill : f = FillOf(o.inst, Signed(o), p, MakerFee, clock)
  BY <1>4
<1>6. f.inst = o.inst /\ f.qty = Signed(o) /\ f.price = p /\ f.fee = o.qty * p * MakerFee
  <2>1. Size(Signed(o)) = o.qty
    BY <1>3 DEF Size, Signed
  <2>2. QED
    BY <1>5, <2>1 DEF FillOf
<1>7. PICK i \in Spots : i = o.inst
  BY <1>3
<1>8. PICK d : d = Post(c, f, Len(c.fills) + 1)
  OBVIOUS
<1>9. d.valid <=> c.valid /\ c.cash + CashOf(f, c.pos) >= 0 /\ c.base[i] + f.qty >= 0
  BY <1>6, <1>7, <1>8, PlaceLast, PostIs
<1>10. CashOf(f, c.pos) = -f.qty * p * Unit - o.qty * p * MakerFee
  BY <1>6, <1>7 DEF CashOf
<1>11. /\ b.cash \in Int /\ c.cash \in Int /\ b.locked \in Nat /\ c.locked \in Nat
       /\ b.base[i] \in Int /\ c.base[i] \in Int
       /\ b.baseLocked[i] \in Nat /\ c.baseLocked[i] \in Nat
  BY <1>7 DEF Account
<1>12. b.base[i] >= 0
  BY <1>7
<1>13. CASE Sells(o)
  <2>1. f.qty = -o.qty
    BY <1>6, <1>13 DEF Sells, Signed
  <2>2. c.cash = b.cash
    BY <1>1, <1>13, UnlockIs
  <2>3. o.qty * p * MakerFee <= o.qty * p * Unit
    <3>1. PICK x \in Nat : x = o.qty * p
      BY <1>3
    <3>2. x * MakerFee <= x * Unit
      <4>1. x * MakerFee * 1 <= x * Unit * 1
        BY <1>3, HigherCostsMore
      <4>2. QED
        BY <1>3, <4>1
    <3>3. QED
      BY <3>1, <3>2
  <2>4. CashOf(f, c.pos) = o.qty * p * Unit - o.qty * p * MakerFee
    BY <1>3, <1>10, <2>1
  <2>5. CashOf(f, c.pos) >= 0
    <3>1. o.qty * p * Unit \in Nat /\ o.qty * p * MakerFee \in Nat
      BY <1>3
    <3>2. QED
      BY <2>3, <2>4, <3>1
  <2>6. c.baseLocked[i] = b.baseLocked[i] - o.qty
    <3>1. c.baseLocked = [b.baseLocked EXCEPT ![o.inst] =
                             b.baseLocked[o.inst] - AtMost(b.baseLocked[o.inst], o.qty)]
      BY <1>1, <1>13, UnlockIs
    <3>2. AtMost(b.baseLocked[o.inst], o.qty) = o.qty
      BY <1>3, <1>7, <1>11, <1>13 DEF AtMost
    <3>3. QED
      BY <1>7, <3>1, <3>2 DEF Account
  <2>7. c.base[i] + c.baseLocked[i] = b.base[i] + b.baseLocked[i]
    BY <1>1, <1>7 DEF OnlyMoved
  <2>8. c.base[i] + f.qty >= 0
    BY <1>3, <1>11, <1>12, <2>1, <2>6, <2>7
  <2>9. c.cash + CashOf(f, c.pos) >= 0
    <3>1. PICK x \in Int : x = CashOf(f, c.pos)
      BY CashOfType DEF Account
    <3>2. QED
      BY <1>11, <2>2, <2>5, <3>1
  <2>10. d.valid
    BY <1>2, <1>9, <2>8, <2>9
  <2>11. QED
    BY <1>1, <1>5, <1>8, <2>10, Zenon DEF FilledAt, PostLast
<1>14. CASE ~ Sells(o)
  <2>1. o.buy /\ f.qty = o.qty
    BY <1>3, <1>6, <1>14 DEF Sells, Signed
  <2>2. p <= o.limit
    BY <2>1 DEF Crosses
  <2>3. PICK u \in Nat : u = Unit + MakerFee
    BY <1>3
  <2>4. Reserved(o) = o.qty * o.limit * u
    BY <1>3, <2>3 DEF Reserved
  <2>5. c.cash = b.cash + o.qty * o.limit * u
    <3>1. c.cash = b.cash + AtMost(b.locked, Reserved(o))
      BY <1>1, <1>14, UnlockIs
    <3>2. Reserved(o) <= b.locked /\ Reserved(o) \in Nat
      BY <1>14, ReservedType
    <3>3. AtMost(b.locked, Reserved(o)) = Reserved(o)
      BY <1>11, <3>2 DEF AtMost
    <3>4. QED
      BY <2>4, <3>1, <3>3
  <2>6. CashOf(f, c.pos) = -(o.qty * p * u)
    <3>1. PICK x \in Nat : x = o.qty * p
      BY <1>3
    <3>2. -f.qty * p * Unit = -(x * Unit)
      BY <1>3, <2>1, <3>1
    <3>3. CashOf(f, c.pos) = -(x * Unit) - x * MakerFee
      BY <1>10, <3>1, <3>2
    <3>4. x * u = x * Unit + x * MakerFee
      BY <1>3, <2>3
    <3>5. x * Unit \in Nat /\ x * MakerFee \in Nat
      BY <1>3
    <3>6. QED
      BY <3>1, <3>3, <3>4, <3>5
  <2>7. o.qty * p * u <= o.qty * o.limit * u
    BY <1>3, <2>2, HigherCostsMore
  <2>8. c.cash + CashOf(f, c.pos) >= 0
    <3>1. PICK x \in Nat, y \in Nat : x = o.qty * p * u /\ y = o.qty * o.limit * u
      BY <1>3
    <3>2. QED
      BY <1>11, <2>5, <2>6, <2>7, <3>1
  <2>9. c.base[i] + f.qty >= 0
    <3>1. c.base = b.base
      BY <1>1, <1>14, UnlockIs
    <3>2. QED
      BY <1>3, <1>11, <1>12, <2>1, <3>1
  <2>10. d.valid
    BY <1>2, <1>9, <2>8, <2>9
  <2>11. QED
    BY <1>1, <1>5, <1>8, <2>10, Zenon DEF FilledAt, PostLast
<1>15. QED
  BY <1>13, <1>14

LEMMA RestingFills ==
    ASSUME Perps = {}, MakerFee <= Unit, IInv, Conserved, books.cash >= 0
    PROVE  RestingOrdersCanFill
<1>1. /\ books \in Account /\ books.valid /\ orders \in Seq(Order) /\ clock \in 0..MaxClock
      /\ Covers(books, orders)
  BY DEF IInv, BooksOK, RowsOK, TimeOK, Conserved
<1>2. \A i \in Spots : books.base[i] >= 0
  BY <1>1 DEF IInv, BooksOK, Agrees
<1>3. ASSUME NEW k \in Pending, NEW p \in Prices, Crosses(orders[k], p)
      PROVE  FilledAt(books, orders[k], p).valid
  <2>1. k \in DOMAIN orders /\ orders[k].status = "pending"
    BY DEF Pending
  <2>2. PICK o \in Order : o = orders[k] /\ o.status = "pending"
    BY <1>1, <2>1
  <2>3. CashHeld(o) <= books.locked /\ \A i \in Spots : AssetHeld(o, i) <= books.baseLocked[i]
    BY <1>1, <2>1, <2>2, HeldIsThere
  <2>4. ~ Sells(o) => Reserved(o) <= books.locked
    BY <2>2, <2>3 DEF CashHeld
  <2>5. Sells(o) => o.qty <= books.baseLocked[o.inst]
    BY <2>2, <2>3, SpotsOnly DEF AssetHeld, Order
  <2>6. FilledAt(books, o, p).valid
    BY <1>1, <1>2, <1>3, <2>2, <2>4, <2>5, CanFill
  <2>7. QED
    BY <2>2, <2>6
<1>4. QED
  BY <1>3 DEF RestingOrdersCanFill

\* With one session at a time, no repair, spot instruments only and a fee of no
\* more than the notional, a resting order can fill at any price that crosses
\* it: no flush fails on a negative balance and ends the task.
THEOREM SpotOrdersCanFill ==
    ASSUME ~ Overlap, Perps = {}, MakerFee <= Unit
    PROVE  Spec /\ [][~ Repair]_vars => []RestingOrdersCanFill
<1> DEFINE J == IInv /\ Alone /\ Conserved /\ books.cash >= 0
<1>1. Init => J
  <2>1. ASSUME Init PROVE books.cash >= 0
    <3>1. books.cash = Initial /\ Initial \in Nat
      BY <2>1, OpenedIs, PaperAssumption DEF Init
    <3>2. QED
      BY <3>1
  <2>2. QED
    BY <2>1, Starts, StartsAlone
<1>2. ASSUME J, [Next]_vars, [~ Repair]_vars PROVE J'
  <2>1. IInv'
    BY <1>2, Steps
  <2>2. CASE ~ Repair
    BY <1>2, <2>1, <2>2, AloneSteps, SolventSteps
  <2>3. CASE UNCHANGED vars
    <3>1. Alone' /\ Conserved'
      BY <1>2, <2>1, <2>3, OthersAlone DEF vars, taskVars
    <3>2. books' = books
      BY <2>3 DEF vars
    <3>3. QED
      BY <1>2, <2>1, <3>1, <3>2
  <2>4. QED
    BY <1>2, <2>2, <2>3
<1>3. J => RestingOrdersCanFill
  BY RestingFills
<1> HIDE DEF J
<1>4. QED
  BY <1>1, <1>2, <1>3, PTL DEF Spec

\* The same of a spot account without rounding, which needs no repair.
THEOREM SpotAccountsCanFill ==
    ASSUME ~ Overlap, Perps = {}, MakerFee <= Unit, Grid = 1, MaxSignals = 0
    PROVE  Spec => []RestingOrdersCanFill
<1>1. RebuildsExactly => ~ Repair
  BY DEF RebuildsExactly, Repair
<1>2. Spec => [](RebuildsExactly /\ LedgerExplainsCash /\ LocksCoverOrders)
  BY ManualAccountsReconcile
<1>3. Spec /\ [][~ Repair]_vars => []RestingOrdersCanFill
  BY SpotOrdersCanFill
<1>4. QED
  BY <1>1, <1>2, <1>3, PTL
=============================================================================
