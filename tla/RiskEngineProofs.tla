-------------------------- MODULE RiskEngineProofs --------------------------
(***************************************************************************)
(* For any symbols, prices, limits and amounts: the book that check_trade  *)
(* lets grow stays inside all limits together, an emergency stop is lifted *)
(* by the operator only, and the stop or a loss beyond a limit keeps every *)
(* position from growing, across restarts too.  At the end, what sets the  *)
(* stop: the instance of HealthEmergency, whose activation disables        *)
(* trading.                                                                *)
(*                                                                         *)
(* The utilization is a sum over symbols of which check_trade sees only    *)
(* those with an entry, so the invariant says that the others hold         *)
(* nothing.  The sums are the fold of TotalCost; the first part of the     *)
(* module proves its recursion equation and that elements can be taken out *)
(* in any order, by induction over sets of numbers and sets of subsets.    *)
(***************************************************************************)
EXTENDS RiskEngine, Sequences, FiniteSetTheorems, WellFoundedInduction, TLAPS

-----------------------------------------------------------------------------
(* Induction, over sets instead of predicates.                             *)

\* A set of numbers with 0 and every successor has all numbers: the least
\* number outside of it would have a predecessor.
LEMMA SetInduction ==
    ASSUME NEW T \in SUBSET Nat, 0 \in T, \A n \in T : n + 1 \in T
    PROVE  T = Nat
<1> SUFFICES ASSUME Nat \ T # {} PROVE FALSE
  OBVIOUS
<1>1. PICK m \in Nat \ T : \A k \in Nat \ T : ~(<<k, m>> \in OpToRel(<, Nat))
  BY NatLessThanWellFounded, WFMin, Zenon
<1>2. m - 1 \in Nat /\ m - 1 \in T => m \in T
  OBVIOUS
<1>3. m - 1 \in Nat
  OBVIOUS
<1>4. <<m - 1, m>> \in OpToRel(<, Nat)
  BY <1>3 DEF OpToRel
<1> QED
  BY <1>1, <1>2, <1>3, <1>4

\* A set of subsets with the empty one, and with each subset whose parts
\* without one element it has, has all subsets.
LEMMA SubsetInduction ==
    ASSUME NEW S, IsFiniteSet(S), NEW T \in SUBSET (SUBSET S), {} \in T,
           \A s \in SUBSET S : s # {} /\ (\A x \in s : s \ {x} \in T) => s \in T
    PROVE  T = SUBSET S
<1> DEFINE N == {n \in Nat : \A s \in SUBSET S : Cardinality(s) <= n => s \in T}
<1>0. \A s \in SUBSET S : IsFiniteSet(s) /\ Cardinality(s) \in Nat
  BY FS_Subset, FS_CardinalityType
<1>1. 0 \in N
  <2>1. ASSUME NEW s \in SUBSET S, Cardinality(s) <= 0 PROVE s \in T
    <3>0. IsFiniteSet(s) /\ Cardinality(s) \in Nat
      BY <1>0
    <3>1. Cardinality(s) = 0
      BY <3>0, <2>1
    <3>2. s = {}
      BY <3>0, <3>1, FS_EmptySet, Zenon
    <3> QED
      BY <3>2
  <2> QED
    BY <2>1
<1>2. ASSUME NEW n \in N PROVE n + 1 \in N
  <2>1. ASSUME NEW s \in SUBSET S, Cardinality(s) <= n + 1 PROVE s \in T
    <3>0. IsFiniteSet(s) /\ Cardinality(s) \in Nat
      BY <1>0
    <3>1. ASSUME NEW x \in s PROVE s \ {x} \in T
      <4>1. Cardinality(s \ {x}) = Cardinality(s) - 1
        BY <3>0, FS_RemoveElement
      <4>2. Cardinality(s \ {x}) <= n
        BY <2>1, <3>0, <4>1
      <4> QED
        BY <4>2
    <3> QED
      BY <3>1
  <2> QED
    BY <2>1
<1>3. N = Nat
  <2> HIDE DEF N
  <2>1. N \in SUBSET Nat
    BY DEF N
  <2> QED
    BY <1>1, <1>2, <2>1, SetInduction
<1>4. ASSUME NEW s \in SUBSET S PROVE s \in T
  BY <1>0, <1>3
<1> QED
  BY <1>4

-----------------------------------------------------------------------------
(* Sums of costs.                                                          *)

First(s) == CHOOSE x \in s : TRUE

\* One step of the summation over the subsets of S.
Summed(c, f, s) == IF s = {} THEN 0 ELSE c[First(s)] + f[s \ {First(s)}]

Sums(c, S) == CHOOSE f : f = [s \in SUBSET S |-> Summed(c, f, s)]

LEMMA TotalIsSums ==
    ASSUME NEW c, NEW S PROVE TotalCost(c, S) = Sums(c, S)[S]
  BY DEF TotalCost, MapThenSumSet, MapThenFoldSet, Sums, Summed, First

\* A set is summed after its elements were taken out one at a time; a function
\* that sums all subsets of up to n elements gives one for n + 1.
LEMMA SumsExist ==
    ASSUME NEW S, IsFiniteSet(S), NEW c, \A x \in S : c[x] \in Nat
    PROVE  \E f \in [SUBSET S -> Nat] : f = [s \in SUBSET S |-> Summed(c, f, s)]
<1> DEFINE Upto(f, n) == \A s \in SUBSET S : Cardinality(s) <= n => f[s] = Summed(c, f, s)
           T == {n \in Nat : \E f \in [SUBSET S -> Nat] : Upto(f, n)}
<1>0. \A s \in SUBSET S :
        /\ IsFiniteSet(s) /\ Cardinality(s) \in Nat
        /\ s # {} => /\ First(s) \in s /\ s \ {First(s)} \in SUBSET S
                     /\ Cardinality(s \ {First(s)}) = Cardinality(s) - 1
                     /\ c[First(s)] \in Nat
  <2> TAKE s \in SUBSET S
  <2>1. IsFiniteSet(s) /\ Cardinality(s) \in Nat
    BY FS_Subset, FS_CardinalityType
  <2>2. s # {} => First(s) \in s
    BY DEF First
  <2>3. Cardinality(s \ {First(s)}) = IF First(s) \in s THEN Cardinality(s) - 1 ELSE Cardinality(s)
    BY <2>1, FS_RemoveElement
  <2> QED
    BY <2>1, <2>2, <2>3
<1>1. 0 \in T
  <2> DEFINE f == [s \in SUBSET S |-> 0]
  <2>1. f \in [SUBSET S -> Nat]
    OBVIOUS
  <2>2. ASSUME NEW s \in SUBSET S, Cardinality(s) <= 0 PROVE f[s] = Summed(c, f, s)
    <3>1. s = {}
      <4>0. IsFiniteSet(s) /\ Cardinality(s) \in Nat
        BY <1>0
      <4>1. Cardinality(s) = 0
        BY <4>0, <2>2
      <4> QED
        BY <4>0, <4>1, FS_EmptySet, Zenon
    <3> QED
      BY <3>1 DEF Summed
  <2> QED
    BY <2>1, <2>2
<1>2. ASSUME NEW n \in T PROVE n + 1 \in T
  <2>1. PICK f \in [SUBSET S -> Nat] : Upto(f, n)
    OBVIOUS
  <2> DEFINE g == [s \in SUBSET S |-> Summed(c, f, s)]
  <2>2. g \in [SUBSET S -> Nat]
    <3>1. ASSUME NEW s \in SUBSET S PROVE Summed(c, f, s) \in Nat
      <4>1. CASE s = {}
        BY <4>1 DEF Summed
      <4>2. CASE s # {}
        <5>1. c[First(s)] \in Nat /\ f[s \ {First(s)}] \in Nat
          BY <1>0, <4>2
        <5> QED
          BY <4>2, <5>1 DEF Summed
      <4> QED
        BY <4>1, <4>2
    <3> QED
      BY <3>1
  <2>3. ASSUME NEW s \in SUBSET S, Cardinality(s) <= n + 1 PROVE g[s] = Summed(c, g, s)
    <3>1. CASE s = {}
      BY <3>1 DEF Summed
    <3>2. CASE s # {}
      <4> DEFINE r == s \ {First(s)}
      <4>1. r \in SUBSET S /\ Cardinality(r) <= n
        BY <1>0, <2>3, <3>2
      <4>2. g[r] = f[r]
        BY <2>1, <4>1
      <4>3. g[s] = c[First(s)] + f[r]
        BY <3>2 DEF Summed
      <4> QED
        BY <3>2, <4>2, <4>3 DEF Summed
    <3> QED
      BY <3>1, <3>2
  <2>4. n + 1 \in Nat
    OBVIOUS
  <2> QED
    BY <2>2, <2>3, <2>4
<1>3. T = Nat
  <2> HIDE DEF T
  <2>1. T \in SUBSET Nat
    BY DEF T
  <2> QED
    BY <1>1, <1>2, <2>1, SetInduction
<1>4. PICK f \in [SUBSET S -> Nat] : Upto(f, Cardinality(S))
  <2>1. Cardinality(S) \in T
    BY <1>3, FS_CardinalityType
  <2> QED
    BY <2>1
<1>5. \A s \in SUBSET S : f[s] = Summed(c, f, s)
  <2> TAKE s \in SUBSET S
  <2>1. Cardinality(s) <= Cardinality(S)
    BY FS_Subset
  <2> QED
    BY <1>4, <2>1
<1>6. f = [s \in SUBSET S |-> Summed(c, f, s)]
  BY <1>5
<1> QED
  BY <1>6

\* The recursion equation of the sum.
LEMMA SumsEquation ==
    ASSUME NEW S, IsFiniteSet(S), NEW c, \A x \in S : c[x] \in Nat
    PROVE  /\ Sums(c, S)[{}] = 0
           /\ \A s \in SUBSET S : s # {} =>
                Sums(c, S)[s] = c[First(s)] + Sums(c, S)[s \ {First(s)}]
<1> DEFINE g == Sums(c, S)
<1>1. g = [s \in SUBSET S |-> Summed(c, g, s)]
  BY SumsExist DEF Sums
<1> HIDE DEF g
<1>2. \A s \in SUBSET S : g[s] = Summed(c, g, s)
  BY <1>1
<1>3. g[{}] = 0
  BY <1>2 DEF Summed
<1>4. \A s \in SUBSET S : s # {} => g[s] = c[First(s)] + g[s \ {First(s)}]
  BY <1>2 DEF Summed
<1> QED
  BY <1>3, <1>4 DEF g

\* The sum is a number, and any element can be taken out of it.
LEMMA SumsRemove ==
    ASSUME NEW S, IsFiniteSet(S), NEW c, \A x \in S : c[x] \in Nat
    PROVE  /\ \A s \in SUBSET S : Sums(c, S)[s] \in Nat
           /\ \A s \in SUBSET S : \A x \in s : Sums(c, S)[s] = c[x] + Sums(c, S)[s \ {x}]
<1> DEFINE g == Sums(c, S)
           T == {s \in SUBSET S : g[s] \in Nat}
           U == {s \in SUBSET S : \A x \in s : g[s] = c[x] + g[s \ {x}]}
<1>0. /\ g[{}] = 0
      /\ \A s \in SUBSET S : s # {} => First(s) \in s /\ g[s] = c[First(s)] + g[s \ {First(s)}]
  BY SumsEquation DEF First
<1> HIDE DEF g
<1>1. T = SUBSET S
  <2>1. {} \in T
    BY <1>0
  <2>2. ASSUME NEW s \in SUBSET S, s # {}, \A x \in s : s \ {x} \in T PROVE s \in T
    <3>1. First(s) \in s /\ c[First(s)] \in Nat /\ g[s \ {First(s)}] \in Nat
      BY <1>0, <2>2
    <3>2. g[s] = c[First(s)] + g[s \ {First(s)}]
      BY <1>0, <2>2
    <3>3. g[s] \in Nat
      BY <3>1, <3>2
    <3> QED
      BY <3>3
  <2>3. T \in SUBSET (SUBSET S)
    OBVIOUS
  <2> HIDE DEF T
  <2> QED
    BY <2>1, <2>2, <2>3, SubsetInduction
<1>2. U = SUBSET S
  <2>1. {} \in U
    OBVIOUS
  <2>2. ASSUME NEW s \in SUBSET S, s # {}, \A x \in s : s \ {x} \in U PROVE s \in U
    <3>1. ASSUME NEW x \in s PROVE g[s] = c[x] + g[s \ {x}]
      <4> DEFINE p == First(s)
                 r == s \ {x, p}
      <4>0. p \in s /\ g[s] = c[p] + g[s \ {p}]
        BY <1>0, <2>2
      <4> HIDE DEF p
      <4>1. CASE x = p
        BY <4>0, <4>1
      <4>2. CASE x # p
        <5>1. (s \ {p}) \ {x} = r /\ (s \ {x}) \ {p} = r
          OBVIOUS
        <5>2. g[s \ {p}] = c[x] + g[r]
          BY <2>2, <4>0, <4>2, <5>1
        <5>3. g[s \ {x}] = c[p] + g[r]
          BY <2>2, <4>0, <4>2, <5>1
        <5>4. c[x] \in Nat /\ c[p] \in Nat /\ g[r] \in Nat
          <6>1. r \in SUBSET S
            OBVIOUS
          <6> QED
            BY <4>0, <1>1, <6>1
        <5> HIDE DEF r
        <5> QED
          BY <4>0, <5>2, <5>3, <5>4
      <4> QED
        BY <4>1, <4>2
    <3> QED
      BY <3>1
  <2>3. U \in SUBSET (SUBSET S)
    OBVIOUS
  <2> HIDE DEF U
  <2> QED
    BY <2>1, <2>2, <2>3, SubsetInduction
<1> QED
  BY <1>1, <1>2 DEF g

\* The sum of a set depends on the costs in it only.
LEMMA SumsAgree ==
    ASSUME NEW S, IsFiniteSet(S), NEW c, \A x \in S : c[x] \in Nat,
           NEW R \in SUBSET S, NEW d, \A x \in R : d[x] = c[x]
    PROVE  Sums(c, S)[R] = Sums(d, R)[R]
<1> DEFINE f == Sums(c, S)
           g == Sums(d, R)
           T == {s \in SUBSET R : f[s] = g[s]}
<1>0. IsFiniteSet(R) /\ \A x \in R : d[x] \in Nat
  BY FS_Subset
<1>1. /\ f[{}] = 0
      /\ \A s \in SUBSET S : s # {} => First(s) \in s /\ f[s] = c[First(s)] + f[s \ {First(s)}]
  BY SumsEquation DEF First
<1>2. /\ g[{}] = 0
      /\ \A s \in SUBSET R : s # {} => First(s) \in s /\ g[s] = d[First(s)] + g[s \ {First(s)}]
  BY <1>0, SumsEquation DEF First
<1> HIDE DEF f, g
<1>3. {} \in T
  BY <1>1, <1>2
<1>4. ASSUME NEW s \in SUBSET R, s # {}, \A x \in s : s \ {x} \in T PROVE s \in T
  <2>1. /\ First(s) \in s /\ c[First(s)] = d[First(s)]
        /\ f[s \ {First(s)}] = g[s \ {First(s)}]
    BY <1>2, <1>4
  <2>2. f[s] = c[First(s)] + f[s \ {First(s)}]
    BY <1>1, <1>4
  <2>3. g[s] = d[First(s)] + g[s \ {First(s)}]
    BY <1>2, <1>4
  <2> QED
    BY <2>1, <2>2, <2>3
<1>5. T \in SUBSET (SUBSET R)
  OBVIOUS
<1>6. T = SUBSET R
  <2> HIDE DEF T
  <2> QED
    BY <1>0, <1>3, <1>4, <1>5, SubsetInduction
<1> QED
  BY <1>6 DEF f, g

\* The facts about TotalCost that the limits need: it is a number, any symbol
\* can be taken out, it depends on its symbols only, and symbols without cost
\* do not count.
LEMMA TotalRemove ==
    ASSUME NEW S, IsFiniteSet(S), NEW c, \A y \in S : c[y] \in Nat
    PROVE  /\ TotalCost(c, S) \in Nat
           /\ \A x \in S : TotalCost(c, S) = c[x] + TotalCost(c, S \ {x})
<1>1. TotalCost(c, S) \in Nat
  BY SumsRemove, TotalIsSums
<1>2. ASSUME NEW x \in S PROVE TotalCost(c, S) = c[x] + TotalCost(c, S \ {x})
  <2>1. Sums(c, S)[S \ {x}] = Sums(c, S \ {x})[S \ {x}]
    BY SumsAgree
  <2>2. Sums(c, S)[S] = c[x] + Sums(c, S)[S \ {x}]
    BY SumsRemove
  <2> QED
    BY <2>1, <2>2, TotalIsSums
<1> QED
  BY <1>1, <1>2

LEMMA TotalAgree ==
    ASSUME NEW S, IsFiniteSet(S), NEW c, \A y \in S : c[y] \in Nat,
           NEW d, \A y \in S : d[y] = c[y]
    PROVE  TotalCost(d, S) = TotalCost(c, S)
<1>1. Sums(c, S)[S] = Sums(d, S)[S]
  BY SumsAgree
<1> QED
  BY <1>1, TotalIsSums

LEMMA TotalZero ==
    ASSUME NEW S, IsFiniteSet(S), NEW c, \A y \in S : c[y] \in Nat,
           NEW R \in SUBSET S, \A y \in S \ R : c[y] = 0
    PROVE  TotalCost(c, S) = TotalCost(c, R)
<1> DEFINE T == {V \in SUBSET (S \ R) : TotalCost(c, R \cup V) = TotalCost(c, R)}
<1>1. {} \in T
  <2>1. R \cup {} = R
    OBVIOUS
  <2> QED
    BY <2>1
<1>2. ASSUME NEW V \in SUBSET (S \ R), V # {}, \A x \in V : V \ {x} \in T PROVE V \in T
  <2>1. PICK x \in V : TRUE
    BY <1>2
  <2>2. TotalCost(c, R \cup (V \ {x})) = TotalCost(c, R)
    BY <1>2
  <2>3. (R \cup V) \ {x} = R \cup (V \ {x})
    OBVIOUS
  <2>4. IsFiniteSet(R \cup V) /\ IsFiniteSet(R) /\ \A y \in R \cup V : c[y] \in Nat
    BY FS_Subset
  <2>5. TotalCost(c, R \cup V) = c[x] + TotalCost(c, (R \cup V) \ {x})
    BY <2>4, TotalRemove
  <2>6. TotalCost(c, R) \in Nat /\ c[x] = 0
    BY <2>4, TotalRemove
  <2>7. TotalCost(c, (R \cup V) \ {x}) = TotalCost(c, R)
    BY <2>2, <2>3, Zenon
  <2>8. TotalCost(c, R \cup V) = TotalCost(c, R)
    BY <2>5, <2>6, <2>7
  <2> QED
    BY <2>8
<1>3. T \in SUBSET (SUBSET (S \ R)) /\ IsFiniteSet(S \ R)
  BY FS_Subset
<1>4. T = SUBSET (S \ R)
  <2> HIDE DEF T
  <2> QED
    BY <1>1, <1>2, <1>3, SubsetInduction
<1>5. R \cup (S \ R) = S /\ S \ R \in T
  BY <1>4
<1> QED
  BY <1>5

-----------------------------------------------------------------------------
(* check_trade on one request.                                             *)

\* max() of two amounts.
LEMMA MaxOfTwo ==
    ASSUME NEW a \in Int, NEW b \in Int
    PROVE  Max({a, b}) \in {a, b} /\ Max({a, b}) >= a /\ Max({a, b}) >= b
<1>1. \E m \in {a, b} : \A y \in {a, b} : m >= y
  OBVIOUS
<1>2. Max({a, b}) \in {a, b} /\ \A y \in {a, b} : Max({a, b}) >= y
  BY <1>1 DEF Max
<1> QED
  BY <1>2

\* The value of an order.
LEMMA OrderValue ==
    ASSUME NEW q \in Quantities, NEW p \in Prices
    PROVE  q * p \in Nat \ {0}
<1>1. q \in Nat \ {0} /\ p \in Nat \ {0}
  BY RiskAssumption
<1>2. \A a, b \in Nat \ {0} : a * b \in Nat \ {0}
  OBVIOUS
<1> QED
  BY <1>1, <1>2

\* What is left of a cost after the sale of a part of the position.
LEMMA CostLeft ==
    ASSUME NEW c \in Nat, NEW n \in Nat \ {0}, NEW k \in 0 .. n
    PROVE  (c * k) \div n \in Nat /\ (c * k) \div n <= c
<1>1. c * k \in Nat /\ c * k <= c * n
  BY ONLY c \in Nat, n \in Nat, k \in Nat, k <= n
<1>2. ASSUME NEW m \in Nat PROVE m \div n \in Nat /\ n * (m \div n) <= m
  OBVIOUS
<1>3. ASSUME NEW d \in Nat, n * d <= c * n PROVE d <= c
  BY <1>3
<1> QED
  BY <1>1, <1>2, <1>3

\* A purchase is new exposure, so it is approved only without any objection.
LEMMA ApprovedPurchase ==
    ASSUME cost \in [Symbols -> Nat], NEW x \in Symbols, NEW q \in Quantities, NEW p \in Prices,
           Approved(x, "BUY", q, p)
    PROVE  OperationalEvents = {} /\ LossEvents = {} /\ LimitEvents(x, "BUY", q, p) = {}
<1>1. cost[x] \in Nat /\ q * p \in Nat \ {0}
  BY OrderValue
<1>2. ExposureAfter(x, "BUY", q, p) = cost[x] + q * p
  BY DEF ExposureAfter, Delta
<1>3. ExposureIncrease(x, "BUY", q, p) >= Abs(cost[x] + q * p) - Abs(cost[x])
  <2>1. Abs(cost[x] + q * p) - Abs(cost[x]) \in Int
    BY <1>1 DEF Abs
  <2>2. ASSUME NEW d \in Int PROVE Max({d, 0}) >= d
    <3>1. 0 \in Int
      OBVIOUS
    <3> QED
      BY <3>1, MaxOfTwo, Zenon
  <2>3. ExposureIncrease(x, "BUY", q, p) = Max({Abs(cost[x] + q * p) - Abs(cost[x]), 0})
    BY <1>2 DEF ExposureIncrease
  <2> QED
    BY <2>1, <2>2, <2>3, Zenon
<1>4. Abs(cost[x] + q * p) - Abs(cost[x]) > 0
  BY <1>1 DEF Abs
<1>5. ~Reducing(x, "BUY", q, p)
  BY <1>3, <1>4, <1>1 DEF Reducing, Abs
<1> QED
  BY <1>5 DEF Approved

\* An approved purchase of x keeps x, and all symbols together, in the limits.
LEMMA PurchaseWithinLimits ==
    ASSUME cost \in [Symbols -> Nat], NEW x \in Symbols, NEW q \in Quantities, NEW p \in Prices,
           Approved(x, "BUY", q, p)
    PROVE  /\ ~Above(cost[x] + q * p, MaxPositionSize)
           /\ ~Above(cost[x] + q * p, MaxAssetExposure)
           /\ ~Above(OtherExposure(x) + (cost[x] + q * p), MaxCapitalUtilization)
           /\ x \in known \/ ~(Cardinality(known) >= MaxOpenPositions)
<1>1. Abs(ExposureAfter(x, "BUY", q, p)) = cost[x] + q * p
  BY OrderValue DEF ExposureAfter, Delta, Abs
<1>2. /\ "MAX_POSITION_SIZE" \notin LimitEvents(x, "BUY", q, p)
      /\ "MAX_ASSET_EXPOSURE" \notin LimitEvents(x, "BUY", q, p)
      /\ "MAX_CAPITAL_UTILIZATION" \notin LimitEvents(x, "BUY", q, p)
  BY ApprovedPurchase
<1> QED
  BY <1>1, <1>2 DEF LimitEvents

\* A stopped engine approves no purchase.
LEMMA StoppedRefusesPurchase ==
    ASSUME cost \in [Symbols -> Nat], NEW x \in Symbols, NEW q \in Quantities, NEW p \in Prices,
           risk.stopped
    PROVE  ~Approved(x, "BUY", q, p)
<1>1. "EMERGENCY_STOP" \in OperationalEvents
  BY DEF OperationalEvents
<1> QED
  BY <1>1, ApprovedPurchase

-----------------------------------------------------------------------------
(* Types.                                                                  *)

\* The record of an engine that was never used is one.
LEMMA FreshType == Fresh \in Risks
  BY RiskAssumption DEF Fresh, Risks

\* Every operation on the risk state leaves a record of its type.
LEMMA RiskType ==
    ASSUME risk \in Risks
    PROVE  /\ \A daily, weekly \in PnLs : [risk EXCEPT !.daily = daily, !.weekly = weekly] \in Risks
           /\ \A equity \in Equities :
                [risk EXCEPT !.equity = equity, !.peak = Max({@, equity})] \in Risks
           /\ \A active \in BOOLEAN : [risk EXCEPT !.stopped = active] \in Risks
           /\ risk.errors < ErrorLimit =>
                [risk EXCEPT !.errors = risk.errors + 1,
                             !.stopped = risk.stopped \/ risk.errors + 1 >= ErrorLimit] \in Risks
           /\ [risk EXCEPT !.errors = 0] \in Risks
           /\ [risk EXCEPT !.daily = 0] \in Risks /\ [risk EXCEPT !.weekly = 0] \in Risks
<1>1. \A equity \in Equities : Max({risk.peak, equity}) \in Equities \cup {0}
  <2>1. risk.peak \in Equities \cup {0} /\ Equities \cup {0} \subseteq Int
    BY RiskAssumption DEF Risks
  <2> QED
    BY <2>1, MaxOfTwo
<1>2. \A equity \in Equities : [risk EXCEPT !.equity = equity, !.peak = Max({@, equity})] \in Risks
  BY <1>1 DEF Risks
<1>3. risk.errors < ErrorLimit => risk.errors + 1 \in 0 .. ErrorLimit
  BY RiskAssumption DEF Risks
<1>4. (risk.stopped \/ risk.errors + 1 >= ErrorLimit) \in BOOLEAN
  OBVIOUS
<1>5. risk.errors < ErrorLimit =>
        [risk EXCEPT !.errors = risk.errors + 1,
                     !.stopped = risk.stopped \/ risk.errors + 1 >= ErrorLimit] \in Risks
  BY <1>3, <1>4 DEF Risks
<1>6. \A daily, weekly \in PnLs : [risk EXCEPT !.daily = daily, !.weekly = weekly] \in Risks
  BY DEF Risks
<1>7. \A active \in BOOLEAN : [risk EXCEPT !.stopped = active] \in Risks
  BY DEF Risks
<1>8. [risk EXCEPT !.errors = 0] \in Risks
  <2>1. 0 \in 0 .. ErrorLimit
    BY RiskAssumption
  <2> QED
    BY <2>1 DEF Risks
<1>9. [risk EXCEPT !.daily = 0] \in Risks /\ [risk EXCEPT !.weekly = 0] \in Risks
  BY RiskAssumption DEF Risks
<1> QED
  BY <1>2, <1>5, <1>6, <1>7, <1>8, <1>9

\* The operations on the risk state, all of which end in the store.
StateSteps ==
    \/ \E daily \in PnLs, weekly \in PnLs : UpdatePnl(daily, weekly)
    \/ \E equity \in Equities : UpdateEquity(equity)
    \/ \E active \in BOOLEAN : SetEmergencyStop(active)
    \/ RecordError \/ ResetErrors \/ ResetDaily \/ ResetWeekly

FlagSteps ==
    \/ \E db \in BOOLEAN, exchange \in BOOLEAN : UpdateSystemHealth(db, exchange)
    \/ \E ok \in BOOLEAN : UpdateReconciliation(ok)
    \/ UpdateDataTime \/ DataAges

\* An operation on the risk state leaves a record in memory, and the same one
\* in the store unless the store fails.
LEMMA StateStep ==
    ASSUME risk \in Risks, StateSteps
    PROVE  /\ risk' \in Risks /\ UNCHANGED <<book, flags, restarts>>
           /\ \/ stored' = risk' /\ saveFailures' = saveFailures
              \/ stored' = stored /\ saveFailures' = saveFailures + 1
<1> DEFINE Kept == /\ UNCHANGED <<book, flags, restarts>>
                   /\ \/ stored' = risk' /\ saveFailures' = saveFailures
                      \/ stored' = stored /\ saveFailures' = saveFailures + 1
<1>1. Kept
  BY DEF StateSteps, UpdatePnl, UpdateEquity, SetEmergencyStop, RecordError, ResetErrors,
         ResetDaily, ResetWeekly, Persist
<1>2. ASSUME NEW daily \in PnLs, NEW weekly \in PnLs, UpdatePnl(daily, weekly) PROVE risk' \in Risks
  BY <1>2, RiskType DEF UpdatePnl, Persist
<1>3. ASSUME NEW equity \in Equities, UpdateEquity(equity) PROVE risk' \in Risks
  BY <1>3, RiskType DEF UpdateEquity, Persist
<1>4. ASSUME NEW active \in BOOLEAN, SetEmergencyStop(active) PROVE risk' \in Risks
  <2>1. risk' = [risk EXCEPT !.stopped = active]
    BY <1>4 DEF SetEmergencyStop, Persist
  <2> QED
    BY <2>1, RiskType, Zenon
<1>5. ASSUME RecordError PROVE risk' \in Risks
  <2>1. /\ risk.errors < ErrorLimit
        /\ risk' = [risk EXCEPT !.errors = risk.errors + 1,
                                !.stopped = risk.stopped \/ risk.errors + 1 >= ErrorLimit]
    BY <1>5 DEF RecordError, Persist
  <2>2. [risk EXCEPT !.errors = risk.errors + 1,
                     !.stopped = risk.stopped \/ risk.errors + 1 >= ErrorLimit] \in Risks
    BY <2>1, RiskType
  <2> QED
    BY <2>1, <2>2, Zenon
<1>6. ASSUME ResetErrors PROVE risk' \in Risks
  BY <1>6, RiskType, Zenon DEF ResetErrors, Persist
<1>7. ASSUME ResetDaily \/ ResetWeekly PROVE risk' \in Risks
  BY <1>7, RiskType, Zenon DEF ResetDaily, ResetWeekly, Persist
<1>8. risk' \in Risks
  BY <1>2, <1>3, <1>4, <1>5, <1>6, <1>7 DEF StateSteps
<1> QED
  BY <1>1, <1>8

\* The engine's book and its persisted record have their types initially.
LEMMA TypeInit == Init => TypeOK
<1> SUFFICES ASSUME Init PROVE TypeOK
  OBVIOUS
<1>1. quantity \in [Symbols -> Nat] /\ cost \in [Symbols -> Nat] /\ known \subseteq Symbols
  BY DEF Init
<1>2. risk \in Risks /\ stored \in Risks
  BY FreshType DEF Init
<1>3. database \in BOOLEAN /\ api \in BOOLEAN /\ reconciled \in BOOLEAN
  BY Zenon DEF Init
<1>4. data \in {"never", "fresh", "stale"} /\ saveFailures \in Nat /\ restarts \in Nat
  BY DEF Init
<1> QED
  BY <1>1, <1>2, <1>3, <1>4 DEF TypeOK

\* Approved requests and every operation keep the types.
LEMMA TypeStep == TypeOK /\ [Next]_vars => TypeOK'
<1> SUFFICES ASSUME TypeOK, [Next]_vars PROVE TypeOK'
  OBVIOUS
<1> USE DEF TypeOK
<1>1. ASSUME NEW x \in Symbols, NEW q \in Quantities, NEW p \in Prices, Buy(x, q, p) PROVE TypeOK'
  <2>1. q \in Nat /\ q * p \in Nat
    BY RiskAssumption, OrderValue
  <2>2. cost[x] + q * p \in Nat /\ quantity[x] + q \in Nat
    BY <2>1
  <2> QED
    BY <1>1, <2>2 DEF Buy, flags
<1>2. ASSUME NEW x \in Symbols, NEW q \in Quantities, NEW p \in Prices, Sell(x, q, p) PROVE TypeOK'
  <2>1. /\ q \in Nat \ {0} /\ q <= quantity[x]
        /\ quantity[x] - q \in 0 .. quantity[x] /\ quantity[x] \in Nat \ {0}
    BY <1>2, RiskAssumption DEF Sell
  <2>2. (cost[x] * (quantity[x] - q)) \div quantity[x] \in Nat
    BY <2>1, CostLeft
  <2>3. quantity' \in [Symbols -> Nat] /\ cost' \in [Symbols -> Nat]
    BY <1>2, <2>1, <2>2 DEF Sell
  <2> QED
    BY <1>2, <2>3 DEF Sell, flags
<1>3. CASE StateSteps
  BY <1>3, StateStep DEF book, flags
<1>4. CASE FlagSteps
  BY <1>4 DEF FlagSteps, UpdateSystemHealth, UpdateReconciliation, UpdateDataTime, DataAges, book
<1>5. CASE Restart
  <2>1. /\ database' \in BOOLEAN /\ api' \in BOOLEAN /\ reconciled' \in BOOLEAN
    BY <1>5, Zenon DEF Restart
  <2> QED
    BY <1>5, <2>1 DEF Restart, book
<1>6. CASE UNCHANGED vars
  BY <1>6 DEF vars, book, flags
<1> QED
  BY <1>1, <1>2, <1>3, <1>4, <1>5, <1>6 DEF Next, StateSteps, FlagSteps

\* Type correctness of the book, the risk state, the flags and the store.
THEOREM TypeCorrect == Spec => []TypeOK
  BY TypeInit, TypeStep, PTL DEF Spec

-----------------------------------------------------------------------------
(* Limits.  check_trade sees the symbols that have an entry, so the book   *)
(* may have nothing elsewhere, and it counts entries, closed ones too.     *)

BookInv ==
    /\ TypeOK
    /\ \A x \in Symbols \ known : quantity[x] = 0 /\ cost[x] = 0
    /\ Cardinality(known) <= MaxOpenPositions
    /\ CostWithinLimits /\ UtilizationWithinLimit

\* A smaller amount is above a limit only if the larger one is.
LEMMA AboveMonotone ==
    ASSUME NEW a \in Nat, NEW b \in Nat, a <= b, NEW l, ~Above(b, l), l * Capital \in Nat
    PROVE  ~Above(a, l)
  BY DEF Above

\* The limits are numbers.
LEMMA LimitValues ==
    /\ MaxPositionSize * Capital \in Nat /\ MaxAssetExposure * Capital \in Nat
    /\ MaxCapitalUtilization * Capital \in Nat
<1>1. /\ MaxPositionSize \in Nat /\ MaxAssetExposure \in Nat /\ MaxCapitalUtilization \in Nat
      /\ Capital \in Nat
  BY RiskAssumption
<1>2. \A a, b \in Nat : a * b \in Nat
  OBVIOUS
<1> QED
  BY <1>1, <1>2

\* An empty book is inside every limit.
LEMMA BookInit == Init => BookInv
<1> SUFFICES ASSUME Init PROVE BookInv
  OBVIOUS
<1>1. TypeOK
  BY TypeInit
<1>2. \A x \in Symbols : quantity[x] = 0 /\ cost[x] = 0
  BY DEF Init
<1>3. ~Above(0, MaxPositionSize) /\ ~Above(0, MaxAssetExposure) /\ ~Above(0, MaxCapitalUtilization)
  BY LimitValues DEF Above
<1>4. CostWithinLimits
  BY <1>2, <1>3 DEF CostWithinLimits
<1>5. UtilizationWithinLimit
  <2>1. /\ IsFiniteSet({}) /\ IsFiniteSet(Symbols)
        /\ \A x \in Symbols : cost[x] \in Nat
    BY <1>2, RiskAssumption, FS_EmptySet
  <2>2. TotalCost(cost, Symbols) = TotalCost(cost, {})
    BY <1>2, <2>1, TotalZero
  <2>3. Sums(cost, {})[{}] = 0
    BY <2>1, SumsEquation
  <2> QED
    BY <1>3, <2>2, <2>3, TotalIsSums DEF UtilizationWithinLimit
<1>6. Cardinality(known) <= MaxOpenPositions
  BY FS_EmptySet, RiskAssumption DEF Init
<1> QED
  BY <1>1, <1>2, <1>4, <1>5, <1>6 DEF BookInv

\* An approved purchase of one symbol.
LEMMA BookBuy ==
    ASSUME BookInv, TypeOK', NEW x \in Symbols, NEW q \in Quantities, NEW p \in Prices, Buy(x, q, p)
    PROVE  BookInv'
<1>0. /\ cost \in [Symbols -> Nat] /\ quantity \in [Symbols -> Nat] /\ known \subseteq Symbols
      /\ cost' \in [Symbols -> Nat] /\ IsFiniteSet(Symbols)
      /\ cost' = [cost EXCEPT ![x] = @ + q * p] /\ known' = known \cup {x}
      /\ quantity' = [quantity EXCEPT ![x] = @ + q]
      /\ Approved(x, "BUY", q, p)
  BY RiskAssumption DEF BookInv, TypeOK, Buy
<1>1. /\ ~Above(cost'[x], MaxPositionSize) /\ ~Above(cost'[x], MaxAssetExposure)
      /\ ~Above(OtherExposure(x) + cost'[x], MaxCapitalUtilization)
      /\ x \in known \/ ~(Cardinality(known) >= MaxOpenPositions)
  BY <1>0, PurchaseWithinLimits
<1>2. \A y \in Symbols \ known' : quantity'[y] = 0 /\ cost'[y] = 0
  BY <1>0 DEF BookInv
<1>3. Cardinality(known') <= MaxOpenPositions
  <2>1. IsFiniteSet(known) /\ Cardinality(known) \in Nat
    BY <1>0, FS_Subset, FS_CardinalityType
  <2>2. Cardinality(known') = IF x \in known THEN Cardinality(known) ELSE Cardinality(known) + 1
    BY <1>0, <2>1, FS_AddElement
  <2> QED
    BY <1>1, <2>1, <2>2, RiskAssumption DEF BookInv
<1>4. CostWithinLimits'
  BY <1>0, <1>1 DEF BookInv, CostWithinLimits, Above
<1>5. UtilizationWithinLimit'
  <2>1. IsFiniteSet(known') /\ known' \subseteq Symbols /\ x \in known'
    BY <1>0, FS_Subset
  <2>2. TotalCost(cost', Symbols) = TotalCost(cost', known')
    <3>1. /\ known' \in SUBSET Symbols /\ \A y \in Symbols : cost'[y] \in Nat
          /\ \A y \in Symbols \ known' : cost'[y] = 0
      BY <1>0, <1>2, <2>1
    <3>2. IsFiniteSet(Symbols)
      BY RiskAssumption
    <3> QED
      BY <3>1, <3>2, TotalZero, Zenon
  <2>3. TotalCost(cost', known') = cost'[x] + TotalCost(cost', known' \ {x})
    BY <1>0, <2>1, TotalRemove
  <2>4. known' \ {x} = known \ {x}
    BY <1>0
  <2>5. IsFiniteSet(known \ {x}) /\ \A y \in known \ {x} : cost'[y] = cost[y] /\ cost[y] \in Nat
    BY <1>0, FS_Subset
  <2>6. TotalCost(cost', known \ {x}) = TotalCost(cost, known \ {x})
    BY <2>5, TotalAgree
  <2>7. OtherExposure(x) \in Nat /\ cost'[x] \in Nat
    BY <1>0, <2>5, TotalRemove DEF OtherExposure
  <2>8. TotalCost(cost', Symbols) = OtherExposure(x) + cost'[x]
    <3>1. TotalCost(cost', known' \ {x}) = OtherExposure(x)
      BY <2>4, <2>6, Zenon DEF OtherExposure
    <3> QED
      BY <2>2, <2>3, <2>7, <3>1
  <2> QED
    BY <1>1, <2>8 DEF UtilizationWithinLimit, Above
<1> QED
  BY <1>2, <1>3, <1>4, <1>5 DEF BookInv

\* What a sale leaves of the cost is no more than before.
LEMMA SaleLowersCost ==
    ASSUME TypeOK, NEW x \in Symbols, NEW q \in Quantities, NEW p \in Prices, Sell(x, q, p)
    PROVE  /\ \A y \in Symbols : cost'[y] \in Nat /\ cost'[y] <= cost[y]
           /\ \A y \in Symbols \ {x} : cost'[y] = cost[y]
<1>1. /\ cost \in [Symbols -> Nat] /\ quantity \in [Symbols -> Nat]
      /\ q \in Nat \ {0} /\ q <= quantity[x]
      /\ cost' = [cost EXCEPT ![x] = (@ * (quantity[x] - q)) \div quantity[x]]
  BY RiskAssumption DEF TypeOK, Sell
<1>2. quantity[x] \in Nat \ {0} /\ quantity[x] - q \in 0 .. quantity[x] /\ cost[x] \in Nat
  BY <1>1
<1>3. /\ (cost[x] * (quantity[x] - q)) \div quantity[x] \in Nat
      /\ (cost[x] * (quantity[x] - q)) \div quantity[x] <= cost[x]
  BY <1>2, CostLeft
<1>4. cost'[x] \in Nat /\ cost'[x] <= cost[x]
  BY <1>1, <1>3
<1>5. \A y \in Symbols \ {x} : cost'[y] = cost[y] /\ cost[y] \in Nat
  BY <1>1
<1> QED
  BY <1>4, <1>5

\* A sale.
LEMMA BookSell ==
    ASSUME BookInv, TypeOK', NEW x \in Symbols, NEW q \in Quantities, NEW p \in Prices, Sell(x, q, p)
    PROVE  BookInv'
<1>0. /\ cost \in [Symbols -> Nat] /\ cost' \in [Symbols -> Nat] /\ IsFiniteSet(Symbols)
      /\ known' = known /\ known \subseteq Symbols
      /\ \A y \in Symbols : cost'[y] \in Nat /\ cost'[y] <= cost[y]
      /\ \A y \in Symbols \ {x} : cost'[y] = cost[y]
  BY SaleLowersCost, RiskAssumption DEF BookInv, TypeOK, Sell
<1>1. \A y \in Symbols \ known' : quantity'[y] = 0 /\ cost'[y] = 0
  <2>1. quantity[x] # 0
    BY RiskAssumption DEF Sell, BookInv, TypeOK
  <2>2. x \in known
    BY <2>1 DEF BookInv
  <2> QED
    BY <1>0, <2>2 DEF BookInv, TypeOK, Sell
<1>2. CostWithinLimits'
  <2>1. ASSUME NEW y \in Symbols
        PROVE  ~Above(cost'[y], MaxPositionSize) /\ ~Above(cost'[y], MaxAssetExposure)
    <3>1. ~Above(cost[y], MaxPositionSize) /\ ~Above(cost[y], MaxAssetExposure)
      BY DEF BookInv, CostWithinLimits
    <3> QED
      BY <1>0, <3>1, AboveMonotone, LimitValues
  <2> QED
    BY <2>1 DEF CostWithinLimits, Above
<1>3. UtilizationWithinLimit'
  <2>1. /\ TotalCost(cost', Symbols) = cost'[x] + TotalCost(cost', Symbols \ {x})
        /\ TotalCost(cost', Symbols) \in Nat
    BY <1>0, TotalRemove
  <2>2. /\ TotalCost(cost, Symbols) = cost[x] + TotalCost(cost, Symbols \ {x})
        /\ TotalCost(cost, Symbols) \in Nat
    BY <1>0, TotalRemove
  <2>3. IsFiniteSet(Symbols \ {x})
    BY <1>0, FS_Subset
  <2>4. /\ TotalCost(cost', Symbols \ {x}) = TotalCost(cost, Symbols \ {x})
        /\ TotalCost(cost, Symbols \ {x}) \in Nat
    BY <1>0, <2>3, TotalAgree, TotalRemove
  <2>5. TotalCost(cost', Symbols) <= TotalCost(cost, Symbols)
    BY <1>0, <2>1, <2>2, <2>4
  <2>6. ~Above(TotalCost(cost, Symbols), MaxCapitalUtilization)
    BY DEF BookInv, UtilizationWithinLimit
  <2>7. ~Above(TotalCost(cost', Symbols), MaxCapitalUtilization)
    BY <2>1, <2>2, <2>5, <2>6, AboveMonotone, LimitValues
  <2> QED
    BY <2>7 DEF UtilizationWithinLimit, Above
<1> QED
  BY <1>0, <1>1, <1>2, <1>3 DEF BookInv

\* Only requests move the book.
LEMMA BookStep == BookInv /\ [Next]_vars => BookInv'
<1> SUFFICES ASSUME BookInv, [Next]_vars PROVE BookInv'
  OBVIOUS
<1>0. TypeOK'
  BY TypeStep DEF BookInv
<1>1. ASSUME NEW x \in Symbols, NEW q \in Quantities, NEW p \in Prices, Buy(x, q, p) PROVE BookInv'
  BY <1>0, <1>1, BookBuy
<1>2. ASSUME NEW x \in Symbols, NEW q \in Quantities, NEW p \in Prices, Sell(x, q, p) PROVE BookInv'
  BY <1>0, <1>2, BookSell
<1>3. ASSUME UNCHANGED book PROVE BookInv'
  BY <1>0, <1>3 DEF book, BookInv, CostWithinLimits, UtilizationWithinLimit, Above
<1>4. StateSteps => UNCHANGED book
  BY StateStep DEF BookInv, TypeOK
<1>5. FlagSteps \/ Restart \/ UNCHANGED vars => UNCHANGED book
  BY DEF FlagSteps, UpdateSystemHealth, UpdateReconciliation, UpdateDataTime, DataAges, Restart, vars
<1> QED
  BY <1>1, <1>2, <1>3, <1>4, <1>5 DEF Next, StateSteps, FlagSteps

\* RiskEngine.check_trade: the book built by any sequence of approved requests,
\* at any prices, with store failures and restarts between them, respects the
\* position, asset, utilization and open position limits together.
THEOREM BookStaysWithinLimits == Spec => []BookWithinLimits
<1>1. BookInv => BookWithinLimits
  <2> SUFFICES ASSUME BookInv PROVE OpenPositionsBounded
    BY DEF BookInv, BookWithinLimits
  <2> DEFINE open == {x \in Symbols : quantity[x] > 0}
  <2>1. open \subseteq known
    BY DEF BookInv, TypeOK
  <2>2. IsFiniteSet(known) /\ known \in SUBSET Symbols
    BY FS_Subset, RiskAssumption DEF BookInv, TypeOK
  <2>3. /\ Cardinality(open) \in Nat /\ Cardinality(known) \in Nat
        /\ Cardinality(open) <= Cardinality(known)
    BY <2>1, <2>2, FS_Subset, FS_CardinalityType
  <2> QED
    BY <2>3, RiskAssumption DEF BookInv, OpenPositionsBounded
<1> QED
  BY <1>1, BookInit, BookStep, PTL DEF Spec

-----------------------------------------------------------------------------
(* The emergency stop.                                                     *)

\* Until a write fails, the store holds the record in memory.
StopInv == TypeOK /\ (saveFailures = 0 => stored = risk)

\* The store follows every operation and a restart reads it back.
LEMMA StopStep == StopInv /\ [Next]_vars => StopInv'
<1> SUFFICES ASSUME StopInv, [Next]_vars PROVE StopInv'
  OBVIOUS
<1>0. TypeOK /\ TypeOK' /\ saveFailures \in Nat /\ (saveFailures = 0 => stored = risk)
  BY TypeStep DEF StopInv, TypeOK
<1>1. CASE StateSteps
  BY <1>0, <1>1, StateStep DEF StopInv, TypeOK
<1>2. CASE Restart
  BY <1>0, <1>2 DEF Restart, StopInv
<1>3. CASE UNCHANGED <<risk, stored, saveFailures>>
  BY <1>0, <1>3 DEF StopInv
<1> QED
  BY <1>1, <1>2, <1>3
  DEF Next, StateSteps, Buy, Sell, UpdateSystemHealth, UpdateReconciliation, UpdateDataTime, DataAges,
      vars

\* Whatever else is done to a stopped engine, it stays stopped.
LEMMA LatchStep ==
    ASSUME StopInv, [Next]_vars, risk.stopped, ~risk'.stopped, saveFailures = 0
    PROVE  SetEmergencyStop(FALSE)
<1>0. risk \in Risks /\ stored = risk
  BY DEF StopInv, TypeOK
<1>1. ASSUME NEW active \in BOOLEAN, SetEmergencyStop(active) PROVE SetEmergencyStop(FALSE)
  <2>1. risk' = [risk EXCEPT !.stopped = active]
    BY <1>1 DEF SetEmergencyStop, Persist
  <2>2. risk'.stopped = active
    BY <1>0, <2>1 DEF Risks
  <2> QED
    BY <1>1, <2>2
<1>2. ASSUME NEW daily \in PnLs, NEW weekly \in PnLs, UpdatePnl(daily, weekly) PROVE FALSE
  BY <1>0, <1>2 DEF UpdatePnl, Persist, Risks
<1>3. ASSUME NEW equity \in Equities, UpdateEquity(equity) PROVE FALSE
  BY <1>0, <1>3 DEF UpdateEquity, Persist, Risks
<1>4. ~RecordError
  BY <1>0 DEF RecordError, Persist, Risks
<1>5. ~ResetErrors /\ ~ResetDaily /\ ~ResetWeekly
  BY <1>0 DEF ResetErrors, ResetDaily, ResetWeekly, Persist, Risks
<1>6. risk' # risk /\ ~Restart
  BY <1>0 DEF Restart
<1> QED
  BY <1>1, <1>2, <1>3, <1>4, <1>5, <1>6
  DEF Next, Buy, Sell, UpdateSystemHealth, UpdateReconciliation, UpdateDataTime, DataAges, vars

\* The stop of the RiskEngine is lifted by set_emergency_stop(False) only: not
\* by a reset of the errors that set it, nor by a restart, unless the store
\* failed.
THEOREM StopStaysLatched == Spec => StopIsLatched
<1>1. Init => StopInv
  BY TypeInit DEF Init, StopInv
<1>2. StopInv /\ [Next]_vars =>
        [risk.stopped /\ ~risk'.stopped /\ saveFailures = 0 => SetEmergencyStop(FALSE)]_vars
  BY LatchStep
<1> QED
  BY <1>1, <1>2, StopStep, PTL DEF Spec, StopIsLatched

\* Only requests change a cost.
LEMMA OthersKeepCost ==
    ASSUME TypeOK PROVE StateSteps \/ FlagSteps \/ Restart \/ UNCHANGED vars => UNCHANGED cost
<1>1. StateSteps => UNCHANGED cost
  BY StateStep DEF book, TypeOK
<1>2. FlagSteps \/ Restart \/ UNCHANGED vars => UNCHANGED cost
  BY DEF FlagSteps, UpdateSystemHealth, UpdateReconciliation, UpdateDataTime, DataAges, Restart, vars,
         book
<1> QED
  BY <1>1, <1>2

\* While the stored record is stopped no request makes a position larger.
LEMMA StoppedStep ==
    ASSUME StopInv, [Next]_vars, stored.stopped, saveFailures = 0, NEW y \in Symbols
    PROVE  cost'[y] <= cost[y]
<1>0. /\ TypeOK /\ risk \in Risks /\ risk.stopped /\ cost \in [Symbols -> Nat]
  BY DEF StopInv, TypeOK
<1>1. ASSUME NEW x \in Symbols, NEW q \in Quantities, NEW p \in Prices, Buy(x, q, p) PROVE FALSE
  BY <1>0, <1>1, StoppedRefusesPurchase DEF Buy
<1>2. ASSUME NEW x \in Symbols, NEW q \in Quantities, NEW p \in Prices, Sell(x, q, p)
      PROVE  cost'[y] <= cost[y]
  BY <1>0, <1>2, SaleLowersCost
<1>3. ASSUME UNCHANGED cost PROVE cost'[y] <= cost[y]
  BY <1>0, <1>3
<1> QED
  BY <1>0, <1>1, <1>2, <1>3, OthersKeepCost DEF Next, StateSteps, FlagSteps

\* A durable emergency stop keeps every position from growing, in a process
\* started after it was set as well, as long as every change was stored.
THEOREM StoppedPositionsNeverGrow == Spec => StoppedNeverGrows
<1>1. Init => StopInv
  BY TypeInit DEF Init, StopInv
<1>2. StopInv /\ [Next]_vars =>
        [stored.stopped /\ saveFailures = 0 => \A x \in Symbols : cost'[x] <= cost[x]]_vars
  BY StoppedStep
<1> QED
  BY <1>1, <1>2, StopStep, PTL DEF Spec, StoppedNeverGrows

\* While the stored figures are beyond a loss limit no request makes a position
\* larger.
LEMMA LossStep ==
    ASSUME StopInv, [Next]_vars, LossEventsOf(stored) # {}, saveFailures = 0, NEW y \in Symbols
    PROVE  cost'[y] <= cost[y]
<1>0. /\ TypeOK /\ risk \in Risks /\ cost \in [Symbols -> Nat]
      /\ LossEvents # {}
  BY DEF StopInv, TypeOK, LossEvents
<1>1. ASSUME NEW x \in Symbols, NEW q \in Quantities, NEW p \in Prices, Buy(x, q, p) PROVE FALSE
  BY <1>0, <1>1, ApprovedPurchase DEF Buy
<1>2. ASSUME NEW x \in Symbols, NEW q \in Quantities, NEW p \in Prices, Sell(x, q, p)
      PROVE  cost'[y] <= cost[y]
  BY <1>0, <1>2, SaleLowersCost
<1>3. ASSUME UNCHANGED cost PROVE cost'[y] <= cost[y]
  BY <1>0, <1>3
<1> QED
  BY <1>0, <1>1, <1>2, <1>3, OthersKeepCost DEF Next, StateSteps, FlagSteps

\* A loss beyond a limit keeps every position from growing until the figures are
\* reset or recover, across restarts as well, as long as every change was stored.
THEOREM LossesKeepPositionsFromGrowing == Spec => LossesNeverGrow
<1>1. Init => StopInv
  BY TypeInit DEF Init, StopInv
<1>2. StopInv /\ [Next]_vars =>
        [LossEventsOf(stored) # {} /\ saveFailures = 0 =>
            \A x \in Symbols : cost'[x] <= cost[x]]_vars
  BY LossStep
<1> QED
  BY <1>1, <1>2, StopStep, PTL DEF Spec, LossesNeverGrow

-----------------------------------------------------------------------------
(* What sets the stop of the risk engine: EmergencyStop.activate, called   *)
(* by the coordinator's loop and by an operator, with the loop cancelled   *)
(* at any await, any step raising and any number of changes of the         *)
(* environment.  Every safety step is attempted at most once, and the      *)
(* runtime is stopped after all of them.                                   *)
(*                                                                         *)
(* The property is not inductive: nothing in it says that the step under   *)
(* way was not attempted before.  What does is that whoever works on the   *)
(* steps holds the lock, that the steps before the current one, and only   *)
(* those, were attempted, and that nothing was attempted before the flag.  *)

CONSTANTS RiskMonitored, NotifierFails, MayStop, MaxChanges

VARIABLES connection, sound, notifier, gate, last, result, pc, activated, holder, step, calls,
          changes

Stop == INSTANCE HealthEmergency WITH database <- connection, active <- activated

Names == {"disable_trading", "close_execution", "save_checkpoint", "record_risk_event",
          "notify", "stop_runtime"}

Places == {"idle", "checking", "alerting", "locking", "stopping", "cancelled", "returned"}

Shape ==
    /\ pc \in [Stop!Activators -> Places]
    /\ calls \in [Names -> Nat]
    /\ step \in 1 .. 6
    /\ activated \in BOOLEAN

\* Whoever works on the steps has set the flag and holds the lock.
Alone == \A a \in Stop!Activators : pc[a] = "stopping" => activated /\ holder = a

\* Nothing is attempted before the flag is set.
Unattempted == ~activated => \A s \in Names : calls[s] = 0

\* The steps before the one under way were attempted, and no others.
Progress ==
    \A a \in Stop!Activators : pc[a] = "stopping" =>
        \A i \in 1 .. 6 : calls[Stop!Steps[i]] = IF i < step THEN 1 ELSE 0

StepsInv == Shape /\ Alone /\ Unattempted /\ Progress /\ Stop!StepsOnceAndInOrder

-----------------------------------------------------------------------------
\* The six steps of activate() have different names.
LEMMA StepNames ==
    /\ Len(Stop!Steps) = 6 /\ Stop!ToSet(Stop!Steps) = Names
    /\ \A i \in 1 .. 6 : Stop!Steps[i] \in Names
    /\ \A i, j \in 1 .. 6 : Stop!Steps[i] = Stop!Steps[j] => i = j
    /\ \A s \in Names : \E i \in 1 .. 6 : s = Stop!Steps[i]
    /\ \A i \in 1 .. 6 : Stop!Steps[i] = "stop_runtime" <=> i = 6
<1>1. Len(Stop!Steps) = 6
  BY DEF Stop!Steps
<1>2. /\ Stop!Steps[1] = "disable_trading" /\ Stop!Steps[2] = "close_execution"
      /\ Stop!Steps[3] = "save_checkpoint" /\ Stop!Steps[4] = "record_risk_event"
      /\ Stop!Steps[5] = "notify" /\ Stop!Steps[6] = "stop_runtime"
  BY DEF Stop!Steps
<1>3. 1 .. 6 = {1, 2, 3, 4, 5, 6}
  OBVIOUS
<1>4. \A s \in Names : \E i \in 1 .. 6 : s = Stop!Steps[i]
  BY <1>2, <1>3 DEF Names
<1>5. \A i \in 1 .. 6 : Stop!Steps[i] \in Names
  BY <1>2, <1>3 DEF Names
<1>6. DOMAIN Stop!Steps = 1 .. 6
  BY DEF Stop!Steps
<1>7. Stop!ToSet(Stop!Steps) = Names
  BY <1>1, <1>4, <1>5, <1>6 DEF Stop!ToSet
<1>8. /\ \A i, j \in 1 .. 6 : Stop!Steps[i] = Stop!Steps[j] => i = j
      /\ \A i \in 1 .. 6 : Stop!Steps[i] = "stop_runtime" <=> i = 6
  BY <1>2, <1>3
<1> QED
  BY <1>1, <1>4, <1>5, <1>7, <1>8

\* No emergency stop was called yet.
LEMMA StopInit == Stop!Init => StepsInv
<1> SUFFICES ASSUME Stop!Init PROVE StepsInv
  OBVIOUS
<1>1. calls = [s \in Names |-> 0] /\ Stop!ToSet(Stop!Steps) = Names /\ "stop_runtime" \in Names
  BY StepNames DEF Stop!Init, Names
<1>2. \A a \in Stop!Activators : pc[a] = "idle"
  BY DEF Stop!Init
<1>3. Shape
  <2>1. pc \in [Stop!Activators -> Places]
    BY DEF Stop!Init, Places
  <2>2. calls \in [Names -> Nat]
    BY <1>1
  <2>3. step \in 1 .. 6
    BY DEF Stop!Init
  <2>4. activated \in BOOLEAN
    BY Zenon DEF Stop!Init
  <2> QED
    BY <2>1, <2>2, <2>3, <2>4 DEF Shape
<1>4. Alone /\ Unattempted /\ Progress
  BY <1>1, <1>2 DEF Alone, Unattempted, Progress
<1>5. Stop!StepsOnceAndInOrder
  BY <1>1 DEF Stop!StepsOnceAndInOrder, Stop!EachStepAtMostOnce, Stop!RuntimeStoppedLast
<1> QED
  BY <1>3, <1>4, <1>5 DEF StepsInv

\* A step that touches neither the attempts nor the flag, and lets nobody
\* begin or go on with another step, keeps the invariant.
LEMMA StopKept ==
    ASSUME StepsInv, UNCHANGED <<activated, step, calls>>, pc' \in [Stop!Activators -> Places],
           \A a \in Stop!Activators : pc'[a] = "stopping" => pc[a] = "stopping" /\ holder' = a
    PROVE  StepsInv'
  BY DEF StepsInv, Shape, Alone, Unattempted, Progress, Stop!StepsOnceAndInOrder,
         Stop!EachStepAtMostOnce, Stop!RuntimeStoppedLast

\* The coordinator, its cancellation, the operator's call and the environment.
LEMMA StopCoordinator ==
    /\ StepsInv
    /\ \/ Stop!Coordinator \/ Stop!StopPeriodic \/ Stop!OperatorActivates \/ Stop!Environment
       \/ UNCHANGED Stop!vars
    => StepsInv'
<1> SUFFICES ASSUME StepsInv,
                    \/ Stop!Coordinator \/ Stop!StopPeriodic \/ Stop!OperatorActivates
                    \/ Stop!Environment \/ UNCHANGED Stop!vars
             PROVE  StepsInv'
  OBVIOUS
<1>0. /\ pc \in [Stop!Activators -> Places]
      /\ \A a \in Stop!Activators : pc[a] = "stopping" => holder = a
  BY DEF StepsInv, Shape, Alone
<1>1. CASE Stop!Coordinator
  <2>1. /\ UNCHANGED Stop!stopVars
        /\ \E p \in Places \ {"stopping"} : pc' = [pc EXCEPT !["loop"] = p]
    BY <1>1 DEF Stop!Coordinator, Stop!CheckBegins, Stop!CheckReturns, Stop!AlertSent,
                Stop!AlertRaises, Places
  <2> QED
    BY <1>0, <2>1, StopKept DEF Stop!stopVars, Stop!Activators
<1>2. CASE Stop!StopPeriodic
  BY <1>0, <1>2, StopKept DEF Stop!StopPeriodic, Stop!Activators, Places
<1>3. CASE Stop!OperatorActivates
  BY <1>0, <1>3, StopKept DEF Stop!OperatorActivates, Stop!stopVars, Stop!Activators, Places
<1>4. CASE Stop!Environment
  BY <1>0, <1>4, StopKept DEF Stop!Environment, Stop!stopVars
<1>5. CASE UNCHANGED Stop!vars
  BY <1>0, <1>5, StopKept DEF Stop!vars, Stop!stopVars
<1> QED
  BY <1>1, <1>2, <1>3, <1>4, <1>5

\* The lock is free, so nobody is at a step: an activator that finds the flag
\* set returns, one that does not finds nothing attempted.
LEMMA StopAcquires ==
    ASSUME StepsInv, NEW a \in Stop!Activators, Stop!Acquires(a) PROVE StepsInv'
<1>0. /\ pc \in [Stop!Activators -> Places] /\ calls' = calls /\ holder = "nobody"
      /\ \A b \in Stop!Activators : pc[b] # "stopping"
  BY DEF StepsInv, Shape, Alone, Stop!Acquires, Stop!Activators
<1>1. CASE activated
  <2>1. /\ UNCHANGED <<activated, step, calls>>
        /\ pc' = [pc EXCEPT ![a] = IF a = "loop" THEN "idle" ELSE "returned"]
    BY <1>1 DEF Stop!Acquires, Stop!Returns
  <2>2. pc' \in [Stop!Activators -> Places] /\ \A b \in Stop!Activators : pc'[b] # "stopping"
    BY <1>0, <2>1 DEF Places
  <2> QED
    BY <2>1, <2>2, StopKept
<1>2. CASE ~activated
  <2>1. /\ activated' = TRUE /\ holder' = a /\ step' = 1
        /\ pc' = [pc EXCEPT ![a] = "stopping"]
    BY <1>2 DEF Stop!Acquires
  <2>2. \A s \in Names : calls[s] = 0
    BY <1>2 DEF StepsInv, Unattempted
  <2>3. Shape'
    BY <1>0, <2>1 DEF StepsInv, Shape, Places
  <2>4. Alone' /\ Unattempted'
    BY <1>0, <2>1 DEF Alone, Unattempted
  <2>5. Progress'
    BY <1>0, <2>1, <2>2, StepNames DEF Progress
  <2>6. Stop!StepsOnceAndInOrder'
    BY <1>0 DEF StepsInv, Stop!StepsOnceAndInOrder, Stop!EachStepAtMostOnce, Stop!RuntimeStoppedLast
  <2> QED
    BY <2>3, <2>4, <2>5, <2>6 DEF StepsInv
<1> QED
  BY <1>1, <1>2

\* A callback or the notification: its step has not been attempted before.
LEMMA StopNextStep ==
    ASSUME StepsInv, NEW a \in Stop!Activators, Stop!NextStep(a) PROVE StepsInv'
<1>0. /\ pc \in [Stop!Activators -> Places] /\ calls \in [Names -> Nat] /\ step \in 1 .. 6
      /\ activated /\ activated' = activated /\ holder = a /\ pc[a] = "stopping"
      /\ \A b \in Stop!Activators : pc[b] = "stopping" => b = a
      /\ Stop!Steps[step] \in Names /\ Stop!Steps[step] # "stop_runtime" /\ step # 6
      /\ calls' = [calls EXCEPT ![Stop!Steps[step]] = @ + 1]
  BY StepNames DEF StepsInv, Shape, Alone, Stop!NextStep, Stop!Attempt
<1>1. /\ calls[Stop!Steps[step]] = 0
      /\ \A i \in 1 .. 6 : calls[Stop!Steps[i]] = IF i < step THEN 1 ELSE 0
  BY <1>0 DEF StepsInv, Progress
<1>2. \A i \in 1 .. 6 : calls'[Stop!Steps[i]] = IF i < step + 1 THEN 1 ELSE 0
  BY <1>0, <1>1, StepNames
<1>3. /\ calls' \in [Names -> Nat]
      /\ \A s \in Names : calls'[s] <= 1
      /\ calls'["stop_runtime"] = 0
  <2>1. calls["stop_runtime"] = 0
    BY <1>0, <1>1, StepNames DEF Names
  <2>2. \A s \in Names : calls'[s] <= 1
    BY <1>2, StepNames, <1>0
  <2> QED
    BY <1>0, <2>1, <2>2 DEF Names
<1>4. Stop!StepsOnceAndInOrder'
  BY <1>3, StepNames DEF Stop!StepsOnceAndInOrder, Stop!EachStepAtMostOnce, Stop!RuntimeStoppedLast
<1>5. Unattempted'
  BY <1>0 DEF Unattempted
<1>6. CASE Stop!Steps[step] = "notify" /\ ~notifier
  <2>1. /\ step' = step /\ holder' = "nobody"
        /\ pc' = [pc EXCEPT ![a] = IF a = "loop" THEN "idle" ELSE "returned"]
    BY <1>6 DEF Stop!NextStep, Stop!Returns
  <2>2. Shape' /\ \A b \in Stop!Activators : pc'[b] # "stopping"
    BY <1>0, <1>3, <2>1 DEF StepsInv, Shape, Places
  <2> QED
    BY <1>4, <1>5, <2>2 DEF StepsInv, Alone, Progress
<1>7. CASE ~(Stop!Steps[step] = "notify" /\ ~notifier)
  <2>1. step' = step + 1 /\ UNCHANGED <<pc, holder>>
    BY <1>7 DEF Stop!NextStep
  <2>2. Shape' /\ Alone'
    BY <1>0, <1>3, <2>1 DEF StepsInv, Shape, Alone
  <2>3. Progress'
    BY <1>2, <2>1 DEF Progress
  <2> QED
    BY <1>4, <1>5, <2>2, <2>3 DEF StepsInv
<1> QED
  BY <1>6, <1>7

\* The last step: all the others were attempted.
LEMMA StopStopRuntime ==
    ASSUME StepsInv, NEW a \in Stop!Activators, Stop!StopRuntime(a) PROVE StepsInv'
<1>0. /\ pc \in [Stop!Activators -> Places] /\ calls \in [Names -> Nat] /\ step = 6
      /\ activated /\ activated' = activated /\ step' = step
      /\ \A b \in Stop!Activators : pc[b] = "stopping" => b = a
      /\ calls' = [calls EXCEPT !["stop_runtime"] = @ + 1]
      /\ pc' = [pc EXCEPT ![a] = IF a = "loop" THEN "idle" ELSE "returned"]
  BY StepNames DEF StepsInv, Shape, Alone, Stop!StopRuntime, Stop!Attempt, Stop!Returns
<1>1. \A i \in 1 .. 6 : calls[Stop!Steps[i]] = IF i < 6 THEN 1 ELSE 0
  BY <1>0 DEF StepsInv, Progress, Stop!StopRuntime
<1>2. \A i \in 1 .. 6 : calls'[Stop!Steps[i]] = 1
  BY <1>0, <1>1, StepNames
<1>3. \A s \in Names : calls'[s] = 1
  BY <1>2, StepNames
<1>4. Stop!StepsOnceAndInOrder'
  BY <1>3, StepNames DEF Stop!StepsOnceAndInOrder, Stop!EachStepAtMostOnce, Stop!RuntimeStoppedLast
<1>5. Shape' /\ \A b \in Stop!Activators : pc'[b] # "stopping"
  BY <1>0 DEF StepsInv, Shape, Places, Names
<1> QED
  BY <1>0, <1>4, <1>5 DEF StepsInv, Alone, Unattempted, Progress

\* EmergencyStop.activate: whoever calls it, whatever raises and whenever the
\* loop is cancelled, each safety step is attempted at most once and the
\* runtime is stopped only after all of them.
THEOREM StopsOnceAndInOrder == Stop!Spec => []Stop!StepsOnceAndInOrder
<1>1. StepsInv /\ [Stop!Next]_(Stop!vars) => StepsInv'
  BY StopCoordinator, StopAcquires, StopNextStep, StopStopRuntime DEF Stop!Next, Stop!Activation
<1>2. StepsInv => Stop!StepsOnceAndInOrder
  BY DEF StepsInv
<1> QED
  BY <1>1, <1>2, StopInit, PTL DEF Stop!Spec
=============================================================================
