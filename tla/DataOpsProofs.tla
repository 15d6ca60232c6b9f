---------------------------- MODULE DataOpsProofs ----------------------------
(***************************************************************************)
(* For every set of hours, candles, collectors and every page size: RAW    *)
(* and DDS, with all the programs of the operator running side by side,    *)
(* implement a ledger and its copy, and what the checks attest stays true. *)
(*                                                                         *)
(* The proofs rest on the order in which dds.load_raw_candles looks up the *)
(* rows of RAW, on the two cutoffs it keeps, of the last transaction it    *)
(* read and of the last hour it took for closed, and on ids that ascend    *)
(* with time: then a calculation reads the candles of DDS without a hole.  *)
(***************************************************************************)
EXTENDS DataOps, FiniteSetTheorems, WellFoundedInduction, TLAPS

-----------------------------------------------------------------------------
(* The largest and the smallest element.                                   *)

\* A finite set of numbers has a largest one: one with the fewest above it.
LEMMA MaxExists ==
    ASSUME NEW S \in SUBSET Int, IsFiniteSet(S), S # {}
    PROVE  Max(S) \in S /\ \A x \in S : x <= Max(S)
<1> DEFINE above(x) == {y \in S : y > x}
           N == {n \in Nat : \E x \in S : Cardinality(above(x)) = n}
<1>1. \A x \in S : IsFiniteSet(above(x)) /\ Cardinality(above(x)) \in Nat
  BY FS_Subset, FS_CardinalityType
<1>2. N # {}
  BY <1>1
<1>3. PICK n \in N : \A k \in N : ~(<<k, n>> \in OpToRel(<, Nat))
  <2> HIDE DEF N
  <2>1. N \subseteq Nat
    BY DEF N
  <2> QED
    BY <1>2, <2>1, NatLessThanWellFounded, WFMin, Zenon
<1>4. PICK x \in S : Cardinality(above(x)) = n
  OBVIOUS
<1>5. ASSUME NEW y \in S, y > x PROVE FALSE
  <2>1. above(y) \subseteq above(x) /\ y \in above(x) /\ y \notin above(y)
    <3>1. y \in Int /\ x \in Int /\ \A z \in S : z \in Int /\ (z > y => z > x)
      BY <1>5
    <3>2. ~(y > y)
      BY <3>1
    <3> QED
      BY <1>5, <3>1, <3>2
  <2>2. Cardinality(above(y)) # n /\ Cardinality(above(y)) <= n
    <3> HIDE DEF above
    <3>1. IsFiniteSet(above(x)) /\ above(y) \in SUBSET above(x) /\ above(y) # above(x)
      BY <1>1, <2>1
    <3> QED
      BY <1>4, <3>1, FS_Subset
  <2>3. Cardinality(above(y)) \in N /\ n \in Nat
    BY <1>1
  <2>4. <<Cardinality(above(y)), n>> \in OpToRel(<, Nat)
    BY <2>2, <2>3 DEF OpToRel
  <2> QED
    BY <1>3, <2>3, <2>4
<1>6. x \in S /\ \A y \in S : y <= x
  BY <1>5
<1> QED
  BY <1>6 DEF Max

\* Max and Min of two numbers.
LEMMA TwoNumbers ==
    ASSUME NEW a \in Int, NEW b \in Int
    PROVE  /\ Max({a, b}) = IF a >= b THEN a ELSE b
           /\ Min({a, b}) = IF a <= b THEN a ELSE b
  BY DEF Max, Min

-----------------------------------------------------------------------------
(* The rows of RAW in order: each row is given the number of those before. *)

LEMMA InOrderEnumerates ==
    ASSUME NEW S, S \subseteq Int, IsFiniteSet(S), \A h \in S : raw[h].at \in Int
    PROVE  /\ InOrder(S) \in [1 .. Cardinality(S) -> S]
           /\ \A h \in S : \E i \in 1 .. Cardinality(S) : InOrder(S)[i] = h
<1> DEFINE n == Cardinality(S)
           before(h) == {g \in S : Older(g, h)}
           rank == [h \in S |-> Cardinality(before(h)) + 1]
           Sorted(s) == \A i, j \in DOMAIN s : i < j => Older(s[i], s[j])
<1>1. n \in Nat /\ IsFiniteSet(1 .. n) /\ Cardinality(1 .. n) = n
  BY FS_CardinalityType, FS_Interval
<1>2. /\ \A g, h \in S : g = h \/ Older(g, h) \/ Older(h, g)
      /\ \A g, h \in S : ~(Older(g, h) /\ Older(h, g))
      /\ \A f, g, h \in S : Older(f, g) /\ Older(g, h) => Older(f, h)
  BY DEF Older
<1>3. ASSUME NEW h \in S
      PROVE  /\ IsFiniteSet(before(h)) /\ Cardinality(before(h)) \in Nat
             /\ rank[h] \in 1 .. n
  <2>1. before(h) \subseteq S \ {h}
    BY <1>2
  <2> HIDE DEF before
  <2>2. IsFiniteSet(S \ {h}) /\ Cardinality(S \ {h}) = n - 1
    BY FS_RemoveElement
  <2>3. IsFiniteSet(before(h)) /\ Cardinality(before(h)) <= n - 1
    BY <2>1, <2>2, FS_Subset
  <2>4. Cardinality(before(h)) \in Nat
    BY <2>3, FS_CardinalityType
  <2> QED
    BY <1>1, <2>3, <2>4
<1>4. ASSUME NEW g \in S, NEW h \in S, Older(g, h)
      PROVE  rank[g] < rank[h]
  <2>1. before(g) \subseteq before(h) /\ g \in before(h) /\ g \notin before(g)
    BY <1>2, <1>4
  <2> HIDE DEF before
  <2>2. before(g) \in SUBSET before(h) /\ before(g) # before(h)
    BY <2>1
  <2>3. Cardinality(before(g)) <= Cardinality(before(h))
        /\ Cardinality(before(g)) # Cardinality(before(h))
    BY <1>3, <2>2, FS_Subset
  <2> QED
    BY <1>3, <2>3
<1> HIDE DEF before
<1>5. rank \in [S -> 1 .. n] /\ \A g, h \in S : rank[g] = rank[h] => g = h
  <2>1. rank \in [S -> 1 .. n]
    BY <1>3
  <2>2. ASSUME NEW g \in S, NEW h \in S, rank[g] = rank[h] PROVE g = h
    <3>1. rank[g] \in Int
      BY <1>3
    <3> HIDE DEF rank
    <3> QED
      BY <1>2, <1>4, <2>2, <3>1
  <2> QED
    BY <2>1, <2>2
<1> HIDE DEF rank
<1>6. rank \in Injection(S, 1 .. n)
  BY <1>5 DEF Injection, IsInjective
<1>7. \A i \in 1 .. n : \E h \in S : rank[h] = i
  <2>1. rank \in Surjection(S, 1 .. n)
    BY <1>1, <1>6, FS_Injection
  <2> QED
    BY <2>1 DEF Surjection
<1> DEFINE s == [i \in 1 .. n |-> CHOOSE h \in S : rank[h] = i]
<1>8. \A i \in 1 .. n : s[i] \in S /\ rank[s[i]] = i
  BY <1>7
<1>9. s \in [1 .. n -> S] /\ Sorted(s)
  <2>1. s \in [1 .. n -> S]
    BY <1>8
  <2>2. ASSUME NEW i \in 1 .. n, NEW j \in 1 .. n, i < j PROVE Older(s[i], s[j])
    <3> HIDE DEF s
    <3>1. s[i] \in S /\ s[j] \in S /\ rank[s[i]] = i /\ rank[s[j]] = j
      BY <1>8
    <3>2. s[i] # s[j]
      BY <2>2, <3>1
    <3>3. ~Older(s[j], s[i])
      <4>1. Older(s[j], s[i]) => rank[s[j]] < rank[s[i]]
        BY <1>4, <3>1
      <4> QED
        BY <1>1, <2>2, <3>1, <4>1
    <3> QED
      BY <1>2, <3>1, <3>2, <3>3
  <2>3. DOMAIN s = 1 .. n
    BY <2>1
  <2> HIDE DEF s
  <2> QED
    BY <2>1, <2>2, <2>3
<1> HIDE DEF s
<1> DEFINE t == InOrder(S)
<1>10. t \in [1 .. n -> S] /\ Sorted(t)
  BY <1>9 DEF InOrder
<1> HIDE DEF t
<1>11. \A i, j \in 1 .. n : t[i] = t[j] => i = j
  <2> SUFFICES ASSUME NEW i \in 1 .. n, NEW j \in 1 .. n, t[i] = t[j], i < j PROVE FALSE
    BY <1>1
  <2>1. Older(t[i], t[j]) /\ t[i] \in S
    BY <1>10
  <2> QED
    BY <1>2, <2>1
<1>12. t \in Injection(1 .. n, S)
  BY <1>10, <1>11 DEF Injection, IsInjective
<1>13. t \in Surjection(1 .. n, S)
  BY <1>1, <1>12, FS_Injection
<1> QED
  BY <1>10, <1>13 DEF Surjection, t

-----------------------------------------------------------------------------
(***************************************************************************)
(* Types of the store.  The start of a transaction is one more than a      *)
(* largest number, so it is a number because the rows and the collectors   *)
(* are finitely many; a page that is to be stored is not empty.            *)
(***************************************************************************)
Rows == [hour : Hours, final : BOOLEAN]

LoaderStates == [pc : {"idle", "fetch", "store"}, from : Nat, end : Int,
                 page : SUBSET Hours, closed : SUBSET Hours, at : Nat]

StoreType ==
    /\ now \in Hours
    /\ DOMAIN raw \subseteq Hours
    /\ \A h \in DOMAIN raw : raw[h].at \in Nat /\ raw[h].final \in BOOLEAN
    /\ journal \in Hours \cup {Never}
    /\ dds \in Seq(Rows)
    /\ etl \in [loadedAt : Int, lastRun : Int]
    /\ runs.count \in Nat
    /\ loader \in [Loaders -> LoaderStates]
    /\ \A l \in Loaders : loader[l].pc = "store" => loader[l].page # {}

UpdateType ==
    /\ update = [pc |-> update.pc, asOf |-> update.asOf, work |-> update.work]
    /\ update.asOf \in Int

LEMMA HoursFinite ==
    /\ LastHour \in Nat /\ Hours \subseteq Nat /\ IsFiniteSet(Hours)
    /\ \A S \in SUBSET Hours : IsFiniteSet(S) /\ Cardinality(S) \in Nat
    /\ IsFiniteSet(Loaders)
<1>1. LastHour \in Nat /\ Hours \subseteq Nat /\ IsFiniteSet(Loaders)
  BY StoreAssumption DEF Hours
<1>2. IsFiniteSet(Hours)
  BY <1>1, FS_Interval DEF Hours
<1> QED
  BY <1>1, <1>2, FS_Subset, FS_CardinalityType

LEMMA LoadedAtType ==
    ASSUME StoreType
    PROVE  LoadedAt \in Nat
<1> DEFINE A == {raw[h].at : h \in DOMAIN raw}
           B == {loader[l].at : l \in Loaders}
           f == [h \in DOMAIN raw |-> raw[h].at]
           g == [l \in Loaders |-> loader[l].at]
           S == {0} \cup A \cup B
<1>1. IsFiniteSet(A)
  <2>1. f \in Surjection(DOMAIN raw, A)
    BY DEF Surjection
  <2>2. IsFiniteSet(DOMAIN raw)
    BY HoursFinite DEF StoreType
  <2> QED
    BY <2>1, <2>2, FS_Surjection
<1>2. IsFiniteSet(B)
  <2>1. g \in Surjection(Loaders, B)
    BY DEF Surjection
  <2> QED
    BY <2>1, HoursFinite, FS_Surjection
<1>3. A \subseteq Nat /\ B \subseteq Nat
  BY DEF StoreType, LoaderStates
<1> HIDE DEF A, B
<1>4. IsFiniteSet(S)
  BY <1>1, <1>2, FS_Union, FS_Singleton
<1>5. S \subseteq Int /\ 0 \in S
  BY <1>3
<1> HIDE DEF S
<1>6. Max(S) \in Int /\ 0 <= Max(S)
  BY <1>4, <1>5, MaxExists
<1> QED
  BY <1>6 DEF LoadedAt, S, A, B

LEMMA LoadTypes ==
    ASSUME StoreType, NEW l \in Loaders, NEW from \in Nat, NEW end \in Int, Load(l, from, end)
    PROVE  /\ loader' \in [Loaders -> LoaderStates]
           /\ \A k \in Loaders : loader'[k].pc = "store" => loader'[k].page # {}
<1> DEFINE fetching == [IdleLoader EXCEPT !.pc = "fetch", !.from = from, !.end = end]
<1>1. fetching \in LoaderStates /\ fetching.pc = "fetch"
  BY DEF IdleLoader, LoaderStates
<1> HIDE DEF fetching
<1>2. loader' = [loader EXCEPT ![l] = fetching]
  BY DEF Load, fetching
<1> QED
  BY <1>1, <1>2 DEF StoreType

LEMMA FetchTypes ==
    ASSUME StoreType, NEW l \in Loaders, NEW last \in Hours, Fetch(l, last)
    PROVE  StoreType'
<1> DEFINE page == loader[l].from .. last
           fetched == [loader[l] EXCEPT !.pc = "store", !.page = page,
                            !.closed = {h \in page : Closes(h) <= now}, !.at = LoadedAt]
<1>1. loader[l] \in LoaderStates /\ last \in loader[l].from .. loader[l].from + PageSize - 1
  BY DEF StoreType, Fetch, Window
<1>2. page \subseteq Hours /\ page # {}
  <2>1. loader[l].from \in Nat /\ last \in Int /\ loader[l].from <= last /\ last <= LastHour
    BY <1>1, StoreAssumption DEF LoaderStates, Hours
  <2> QED
    BY <2>1, HoursFinite DEF Hours
<1> HIDE DEF page
<1>3. {h \in page : Closes(h) <= now} \in SUBSET Hours
  BY <1>2
<1>4. fetched \in LoaderStates /\ fetched.page # {}
  BY <1>1, <1>2, <1>3, LoadedAtType DEF LoaderStates
<1>5. loader' = [loader EXCEPT ![l] = fetched]
  <2>1. loader' = [loader EXCEPT ![l].pc = "store", ![l].page = page,
                     ![l].closed = {h \in page : Closes(h) <= now}, ![l].at = LoadedAt]
    BY DEF Fetch, page
  <2> QED
    BY <2>1 DEF StoreType
<1> HIDE DEF fetched
<1>6. /\ loader' \in [Loaders -> LoaderStates]
      /\ \A k \in Loaders : loader'[k].pc = "store" => loader'[k].page # {}
  BY <1>4, <1>5 DEF StoreType
<1> QED
  BY <1>6 DEF StoreType, Fetch

LEMMA IdleTypes ==
    ASSUME StoreType, NEW l \in Loaders, NEW s \in LoaderStates, s.pc # "store",
           loader' = [loader EXCEPT ![l] = s]
    PROVE  /\ loader' \in [Loaders -> LoaderStates]
           /\ \A k \in Loaders : loader'[k].pc = "store" => loader'[k].page # {}
  BY DEF StoreType

LEMMA IdleType == IdleLoader \in LoaderStates /\ IdleLoader.pc = "idle"
  BY DEF IdleLoader, LoaderStates

LEMMA FailTypes ==
    ASSUME StoreType, NEW l \in Loaders, LoadFails(l)
    PROVE  StoreType'
  BY IdleTypes, IdleType DEF LoadFails, StoreType

\* A page is stored: rows that are there stay, and the others are of the page.
LEMMA StoreTypes ==
    ASSUME StoreType, NEW l \in Loaders, Store(l)
    PROVE  /\ StoreType'
           /\ DOMAIN raw \subseteq DOMAIN raw'
           /\ \A h \in DOMAIN raw : raw'[h] = raw[h]
           /\ \A h \in DOMAIN raw' \ DOMAIN raw : raw'[h] = RawRow(l, h)
<1> DEFINE page == loader[l].page
<1>1. /\ loader[l] \in LoaderStates
      /\ page \in SUBSET Hours /\ page # {} /\ loader[l].at \in Nat
  BY DEF StoreType, Store, LoaderStates
<1>2. Max(page) \in Hours
  BY <1>1, HoursFinite, MaxExists
<1>3. journal' \in Hours \cup {Never}
  <2> DEFINE S == {journal} \cup page
  <2> HIDE DEF page
  <2>1. journal \in Hours \cup {Never} /\ Hours \subseteq Int /\ Never \in Int
    BY HoursFinite DEF StoreType, Never
  <2>2. S \subseteq Hours \cup {Never} /\ S \subseteq Int /\ S # {}
    BY <1>1, <2>1
  <2>3. IsFiniteSet(S)
    BY <1>1, HoursFinite, FS_Union, FS_Singleton
  <2>4. Max(S) \in S
    <3> HIDE DEF S
    <3> QED
      BY <2>2, <2>3, MaxExists
  <2>5. journal' = Max(S)
    BY DEF Store, JournalAfter, page
  <2> HIDE DEF S
  <2> QED
    BY <2>2, <2>4, <2>5
<1>4. NextPage(l) \in LoaderStates /\ NextPage(l).pc # "store"
  <2>1. Max(page) + 1 \in Nat /\ loader[l].end \in Int
    <3>1. Max(page) \in Nat
      BY <1>2, HoursFinite
    <3> QED
      BY <1>1, <3>1 DEF LoaderStates
  <2> DEFINE m == Max(page) + 1
             e == loader[l].end
             fetching == [IdleLoader EXCEPT !.pc = "fetch", !.from = m, !.end = e]
  <2>2. NextPage(l) = IF m < e THEN fetching ELSE IdleLoader
    BY DEF NextPage
  <2> HIDE DEF m, e
  <2>3. m \in Nat /\ e \in Int
    BY <2>1 DEF m, e
  <2>4. fetching \in LoaderStates /\ fetching.pc = "fetch"
    BY <2>3 DEF IdleLoader, LoaderStates
  <2> QED
    BY <2>2, <2>4, IdleType
<1>5. /\ loader' \in [Loaders -> LoaderStates]
      /\ \A k \in Loaders : loader'[k].pc = "store" => loader'[k].page # {}
  <2>1. loader' = [loader EXCEPT ![l] = NextPage(l)]
    BY DEF Store
  <2> QED
    BY <1>4, <2>1, IdleTypes
<1>6. /\ DOMAIN raw' = DOMAIN raw \cup page
      /\ \A h \in DOMAIN raw : raw'[h] = raw[h]
      /\ \A h \in page \ DOMAIN raw : raw'[h] = RawRow(l, h)
  BY DEF Store, Stored
<1>7. \A h : RawRow(l, h).at \in Nat /\ RawRow(l, h).final \in BOOLEAN
  BY <1>1 DEF RawRow
<1>8. \A h \in DOMAIN raw' : raw'[h].at \in Nat /\ raw'[h].final \in BOOLEAN
  BY <1>6, <1>7 DEF StoreType
<1>9. DOMAIN raw' \subseteq Hours
  BY <1>1, <1>6 DEF StoreType
<1>10. UNCHANGED <<now, dds, etl, runs>>
  BY DEF Store
<1>11. StoreType'
  BY <1>3, <1>5, <1>8, <1>9, <1>10 DEF StoreType
<1> QED
  BY <1>6, <1>11

-----------------------------------------------------------------------------
(***************************************************************************)
(* The copy.  Every row of DDS is a row of RAW, with its values; so it     *)
(* does not matter which of the rows of an hour is looked up.              *)
(***************************************************************************)
Copied == \A i \in Ids : dds[i].hour \in DOMAIN raw /\ dds[i].final = raw[dds[i].hour].final

LEMMA DdsRowsTypes ==
    ASSUME StoreType, NEW S \in SUBSET DOMAIN raw
    PROVE  /\ DdsRows(S) \in Seq(Rows)
           /\ \A i \in DOMAIN DdsRows(S) :
                /\ DdsRows(S)[i].hour \in S
                /\ DdsRows(S)[i].final = raw[DdsRows(S)[i].hour].final
           /\ \A h \in S : \E i \in DOMAIN DdsRows(S) : DdsRows(S)[i].hour = h
<1> DEFINE n == Cardinality(S)
           t == InOrder(S)
           rows == DdsRows(S)
<1>1. S \subseteq Hours /\ S \subseteq Int /\ IsFiniteSet(S) /\ n \in Nat
      /\ \A h \in S : raw[h].at \in Int /\ raw[h].final \in BOOLEAN
  <2>1. S \subseteq Hours /\ S \in SUBSET Hours
    BY DEF StoreType
  <2>2. IsFiniteSet(S) /\ n \in Nat
    BY <2>1, HoursFinite
  <2>4. S \subseteq Int
    BY <2>1, HoursFinite DEF Hours
  <2>3. \A h \in S : raw[h].at \in Int /\ raw[h].final \in BOOLEAN
    BY DEF StoreType
  <2> QED
    BY <2>1, <2>2, <2>3, <2>4
<1>2. t \in [1 .. n -> S] /\ \A h \in S : \E i \in 1 .. n : t[i] = h
  BY <1>1, InOrderEnumerates
<1> HIDE DEF t
<1>3. rows = [i \in 1 .. n |-> [hour |-> t[i], final |-> raw[t[i]].final]]
  BY <1>2 DEF DdsRows, t
<1> HIDE DEF rows, n
<1>4. \A i \in 1 .. n : rows[i] \in Rows /\ rows[i].hour = t[i] /\ rows[i].final = raw[t[i]].final
  BY <1>1, <1>2, <1>3 DEF Rows
<1>5. DOMAIN rows = 1 .. n
  BY <1>3
<1>6. rows \in Seq(Rows)
  <2>1. rows = [i \in 1 .. n |-> rows[i]]
    BY <1>3, <1>5, Zenon
  <2>2. rows \in [1 .. n -> Rows]
    BY <1>4, <2>1, Zenon
  <2>3. n \in Nat
    BY <1>1
  <2> QED
    BY <2>2, <2>3
<1> QED
  BY <1>2, <1>4, <1>5, <1>6 DEF rows

LEMMA UpperType ==
    ASSUME StoreType
    PROVE  Upper \in Int
<1> DEFINE A == {raw[h].at : h \in DOMAIN raw}
           f == [h \in DOMAIN raw |-> raw[h].at]
           S == {etl.loadedAt} \cup A
<1>1. IsFiniteSet(A)
  <2>1. f \in Surjection(DOMAIN raw, A)
    BY DEF Surjection
  <2>2. IsFiniteSet(DOMAIN raw)
    BY HoursFinite DEF StoreType
  <2> QED
    BY <2>1, <2>2, FS_Surjection
<1>2. A \subseteq Nat /\ etl.loadedAt \in Int
  BY DEF StoreType
<1> HIDE DEF A
<1>3. IsFiniteSet(S) /\ S \subseteq Int /\ S # {}
  <2>1. IsFiniteSet({etl.loadedAt})
    BY FS_Singleton
  <2>2. IsFiniteSet(S)
    BY <1>1, <2>1, FS_Union
  <2>3. S \subseteq Int /\ etl.loadedAt \in S
    <3>1. A \subseteq Int
      BY <1>2
    <3> QED
      BY <1>2, <3>1, Zenon
  <2> QED
    BY <2>2, <2>3
<1> HIDE DEF S
<1>4. Max(S) \in Int
  BY <1>3, MaxExists
<1> QED
  BY <1>4 DEF Upper, S, A

LEMMA Joined ==
    ASSUME NEW T, NEW s \in Seq(T), NEW t \in Seq(T)
    PROVE  /\ s \o t \in Seq(T)
           /\ DOMAIN s = 1 .. Len(s) /\ DOMAIN t = 1 .. Len(t)
           /\ DOMAIN (s \o t) = 1 .. Len(s) + Len(t)
           /\ Len(s) \in Nat /\ Len(t) \in Nat
           /\ \A i \in DOMAIN s : (s \o t)[i] = s[i]
           /\ \A i \in DOMAIN (s \o t) :
                i \in DOMAIN s \/ (i - Len(s) \in DOMAIN t /\ (s \o t)[i] = t[i - Len(s)])
           /\ \A i \in DOMAIN t : i + Len(s) \in DOMAIN (s \o t) /\ (s \o t)[i + Len(s)] = t[i]
<1>1. /\ s \o t \in Seq(T)
      /\ DOMAIN s = 1 .. Len(s) /\ DOMAIN t = 1 .. Len(t)
      /\ DOMAIN (s \o t) = 1 .. Len(s) + Len(t)
      /\ Len(s) \in Nat /\ Len(t) \in Nat
  OBVIOUS
<1>2. \A i \in 1 .. Len(s) + Len(t) :
        (s \o t)[i] = IF i <= Len(s) THEN s[i] ELSE t[i - Len(s)]
  OBVIOUS
<1>3. \A i \in DOMAIN s : (s \o t)[i] = s[i]
  BY <1>1, <1>2
<1>4. \A i \in DOMAIN (s \o t) :
         i \in DOMAIN s \/ (i - Len(s) \in DOMAIN t /\ (s \o t)[i] = t[i - Len(s)])
  BY <1>1, <1>2
<1>5. \A i \in DOMAIN t : i + Len(s) \in DOMAIN (s \o t) /\ (s \o t)[i + Len(s)] = t[i]
  <2> SUFFICES ASSUME NEW i \in 1 .. Len(t)
               PROVE  i + Len(s) \in 1 .. Len(s) + Len(t) /\ (s \o t)[i + Len(s)] = t[i]
    BY <1>1
  <2> DEFINE k == i + Len(s)
  <2>1. k \in 1 .. Len(s) + Len(t) /\ ~(k <= Len(s)) /\ k - Len(s) = i
    BY <1>1
  <2>2. (s \o t)[k] = t[k - Len(s)]
    BY <1>2, <2>1
  <2> QED
    BY <2>1, <2>2
<1> QED
  BY <1>1, <1>3, <1>4, <1>5

\* One run of dds.load_raw_candles.
Ran(asOf) ==
    LET closed == ClosedBy(Candidates(asOf), asOf) IN
    /\ InDds' = InDds \cup Accepted(closed)
    /\ events' = events \cup UNION {{[hour |-> h, check |-> c] : c \in Flaws[h]} : h \in closed}
    /\ etl'.lastRun = asOf
    /\ runs'.count > 0

LEMMA LoadRawTypes ==
    ASSUME StoreType, Copied, NEW asOf \in Int, LoadRawCandles(asOf),
           UNCHANGED <<now, raw, journal, loader>>
    PROVE  /\ StoreType' /\ Copied'
           /\ (DOMAIN raw = {} /\ UNCHANGED <<dds, events, etl, runs>>) \/ Ran(asOf)
<1>1. CASE DOMAIN raw = {} /\ UNCHANGED <<dds, events, etl, runs>>
  BY <1>1 DEF StoreType, Copied, Ids
<1>2. CASE DOMAIN raw # {}
  <2> DEFINE closed == ClosedBy(Candidates(asOf), asOf)
             S == Accepted(closed)
             rows == DdsRows(S)
  <2>1. S \in SUBSET DOMAIN raw /\ closed \in SUBSET DOMAIN raw
    BY DEF Accepted, ClosedBy, Candidates
  <2>2. /\ dds' = dds \o rows
        /\ events' = events \cup UNION {{[hour |-> h, check |-> c] : c \in Flaws[h]} : h \in closed}
        /\ etl' = [loadedAt |-> Upper, lastRun |-> asOf]
        /\ runs'.count = Min({runs.count + 1, 2})
    BY <1>2 DEF LoadRawCandles
  <2> HIDE DEF closed
  <2>3. /\ rows \in Seq(Rows) /\ dds \in Seq(Rows)
        /\ \A i \in DOMAIN rows : rows[i].hour \in S /\ rows[i].final = raw[rows[i].hour].final
        /\ \A h \in S : \E i \in DOMAIN rows : rows[i].hour = h
    BY <2>1, DdsRowsTypes DEF StoreType
  <2> HIDE DEF S, rows
  <2>4. /\ dds' \in Seq(Rows)
        /\ DOMAIN dds = 1 .. Len(dds) /\ DOMAIN rows = 1 .. Len(rows)
        /\ DOMAIN dds' = 1 .. Len(dds) + Len(rows)
        /\ Len(dds) \in Nat /\ Len(rows) \in Nat
        /\ \A i \in DOMAIN dds : dds'[i] = dds[i]
        /\ \A i \in DOMAIN dds' :
             i \in DOMAIN dds \/ (i - Len(dds) \in DOMAIN rows /\ dds'[i] = rows[i - Len(dds)])
        /\ \A i \in DOMAIN rows : i + Len(dds) \in DOMAIN dds' /\ dds'[i + Len(dds)] = rows[i]
    BY <2>2, <2>3, Joined
  <2>5. etl' \in [loadedAt : Int, lastRun : Int] /\ etl'.lastRun = asOf
    BY <2>2, UpperType
  <2>6. runs'.count \in Nat /\ runs'.count > 0
    <3> DEFINE c == runs.count + 1
    <3>1. c \in Nat /\ c > 0
      BY DEF StoreType
    <3>2. runs'.count = Min({c, 2})
      BY <2>2
    <3> HIDE DEF c
    <3>3. Min({c, 2}) = IF c <= 2 THEN c ELSE 2
      BY <3>1, TwoNumbers
    <3> QED
      BY <3>1, <3>2, <3>3
  <2>7. StoreType'
    BY <2>4, <2>5, <2>6 DEF StoreType
  <2>8. Copied'
    <3> SUFFICES ASSUME NEW i \in DOMAIN dds'
                 PROVE  dds'[i].hour \in DOMAIN raw /\ dds'[i].final = raw[dds'[i].hour].final
      BY DEF Copied, Ids
    <3>1. CASE i \in DOMAIN dds
      BY <2>4, <3>1 DEF Copied, Ids
    <3>2. CASE i - Len(dds) \in DOMAIN rows /\ dds'[i] = rows[i - Len(dds)]
      BY <2>1, <2>3, <3>2
    <3> QED
      BY <2>4, <3>1, <3>2
  <2>9. InDds' = InDds \cup S
    <3>1. \A h \in InDds : h \in InDds'
      BY <2>4 DEF InDds
    <3>2. ASSUME NEW h \in S PROVE h \in InDds'
      <4>1. PICK i \in DOMAIN rows : rows[i].hour = h
        BY <2>3
      <4>2. i + Len(dds) \in DOMAIN dds' /\ dds'[i + Len(dds)].hour = h
        BY <2>4, <4>1
      <4> QED
        BY <4>2 DEF InDds
    <3>3. ASSUME NEW h \in InDds' PROVE h \in InDds \/ h \in S
      <4>1. PICK i \in DOMAIN dds' : dds'[i].hour = h
        BY DEF InDds
      <4>2. CASE i \in DOMAIN dds
        BY <2>4, <4>1, <4>2 DEF InDds
      <4>3. CASE i - Len(dds) \in DOMAIN rows /\ dds'[i] = rows[i - Len(dds)]
        BY <2>3, <4>1, <4>3
      <4> QED
        BY <2>4, <4>1, <4>2, <4>3
    <3> QED
      BY <3>1, <3>2, <3>3
  <2>10. Ran(asOf)
    BY <2>2, <2>5, <2>6, <2>9 DEF Ran, closed, S
  <2> QED
    BY <2>7, <2>8, <2>10
<1>3. DOMAIN raw = {} => UNCHANGED <<dds, events, etl, runs>>
  BY DEF LoadRawCandles
<1> QED
  BY <1>1, <1>2, <1>3
-----------------------------------------------------------------------------
(***************************************************************************)
(* What a step can do to the tables: nothing, store a page, or run the     *)
(* ETL.  Which program does it does not matter.                            *)
(***************************************************************************)
TablesStep ==
    \/ UNCHANGED <<raw, dds, events, etl, runs>>
    \/ \E l \in Loaders : Store(l)
    \/ \E asOf \in Int : LoadRawCandles(asOf) /\ UNCHANGED <<now, raw, journal, loader>>

DerivedStep == UNCHANGED derived \/ \E work : derived' = Written(work)

LEMMA CompletedEndType ==
    ASSUME NEW asOf \in Int
    PROVE  /\ CompletedEnd(asOf) \in Int
           /\ asOf >= PeriodEnd => CompletedEnd(asOf) = PeriodEnd
<1> DEFINE m == Min({asOf, PeriodEnd})
<1>1. PeriodStart \in Int /\ PeriodEnd \in Int /\ PeriodStart < PeriodEnd
  BY HoldoutAssumption
<1> HIDE DEF m
<1>0. m = IF asOf <= PeriodEnd THEN asOf ELSE PeriodEnd
  BY <1>1, TwoNumbers DEF m
<1>2. m \in Int /\ (asOf >= PeriodEnd => m = PeriodEnd)
  BY <1>0, <1>1
<1>3. Max({PeriodStart, m}) = IF PeriodStart >= m THEN PeriodStart ELSE m
  BY <1>1, <1>2, TwoNumbers
<1> QED
  BY <1>1, <1>2, <1>3 DEF CompletedEnd, m

LEMMA CollectionStartType ==
    ASSUME StoreType
    PROVE  CollectionStart \in Nat
<1> DEFINE a == PeriodStart - DerivedWarmUp
           b == journal + 1
<1>1. a \in Nat
  BY HoldoutAssumption
<1>2. journal # Never => b \in Nat
  BY HoursFinite DEF StoreType
<1> HIDE DEF a, b
<1>3. journal # Never => Max({a, b}) \in Nat
  BY <1>1, <1>2, TwoNumbers
<1> QED
  BY <1>1, <1>3 DEF CollectionStart, a, b

LEMMA LoaderOnly ==
    ASSUME StoreType, UNCHANGED <<now, raw, journal, dds, etl, runs>>,
           loader' \in [Loaders -> LoaderStates],
           \A k \in Loaders : loader'[k].pc = "store" => loader'[k].page # {}
    PROVE  StoreType'
  BY DEF StoreType

LEMMA StoreVarsKept ==
    ASSUME StoreType, UNCHANGED storeVars
    PROVE  StoreType' /\ TablesStep
  BY DEF StoreType, storeVars, TablesStep

LEMMA CollectingTypes ==
    ASSUME StoreType, NEW l \in Loaders, Collecting(l) \/ LoadFails(l)
    PROVE  StoreType' /\ TablesStep
<1>1. ASSUME NEW last \in Hours, Fetch(l, last) PROVE StoreType' /\ TablesStep
  BY <1>1, FetchTypes DEF Fetch, TablesStep
<1>2. CASE Store(l)
  BY <1>2, StoreTypes DEF TablesStep
<1>3. CASE LoadFails(l)
  BY <1>3, FailTypes DEF LoadFails, TablesStep
<1> QED
  BY <1>1, <1>2, <1>3 DEF Collecting

LEMMA StepTypes ==
    ASSUME StoreType, UpdateType, Copied, [Next]_vars
    PROVE  StoreType' /\ UpdateType' /\ TablesStep /\ DerivedStep
<1> USE DEF TablesStep, DerivedStep
<1>0. "history" \in Loaders /\ "holdout" \in Loaders
  BY HoldoutAssumption
<1>k. ASSUME UNCHANGED update PROVE UpdateType'
  BY <1>k DEF UpdateType
<1>1. CASE Clock /\ UNCHANGED <<derived, todo, update>>
  <2>1. now' \in Hours
    BY <1>1, StoreAssumption DEF Clock, StoreType, Hours
  <2> QED
    BY <1>1, <1>k, <2>1 DEF Clock, StoreType
<1>2. ASSUME NEW from \in Hours, NEW end \in 1 .. LastHour + 1, LoadHistory(from, end)
      PROVE  StoreType' /\ UpdateType' /\ TablesStep /\ DerivedStep
  <2>1. from \in Nat /\ end \in Int
    BY HoursFinite
  <2>2. /\ loader' \in [Loaders -> LoaderStates]
        /\ \A k \in Loaders : loader'[k].pc = "store" => loader'[k].page # {}
    BY <1>0, <1>2, <2>1, LoadTypes DEF LoadHistory
  <2>3. UNCHANGED <<now, raw, journal, dds, events, etl, runs, derived, todo, update>>
    BY <1>2 DEF LoadHistory
  <2> QED
    BY <1>k, <2>2, <2>3, LoaderOnly
<1>3. CASE HistoryCollects
  BY <1>0, <1>3, <1>k, CollectingTypes DEF HistoryCollects
<1>4. CASE HoldoutCollects
  BY <1>0, <1>4, <1>k, CollectingTypes DEF HoldoutCollects
<1>5. CASE LoadDds
  <2>1. now \in Int /\ LoadRawCandles(now)
        /\ UNCHANGED <<now, raw, journal, loader, derived, todo, update>>
    BY <1>5, HoursFinite DEF LoadDds, StoreType
  <2> QED
    BY <1>k, <2>1, LoadRawTypes
<1>6. CASE CalculateAll \/ CalculateMissing \/ Calculate
  <2>1. UNCHANGED <<storeVars, update>> /\ DerivedStep
    BY <1>6 DEF CalculateAll, CalculateMissing, Calculate, StartCalculation, CalculateBatch,
                CalculationFails
  <2> QED
    BY <1>k, <2>1, StoreVarsKept
<1>7. CASE StartUpdate
  <2>1. /\ UNCHANGED <<now, raw, journal, dds, events, etl, runs, derived, todo>>
        /\ Load("holdout", CollectionStart, CompletedEnd(now)) \/ UNCHANGED loader
        /\ update' = [IdleUpdate EXCEPT !.pc = "collect", !.asOf = now]
    BY <1>7 DEF StartUpdate
  <2>2. now \in Int /\ CollectionStart \in Nat /\ CompletedEnd(now) \in Int
    <3>1. now \in Int
      BY HoursFinite DEF StoreType
    <3> QED
      BY <3>1, CollectionStartType, CompletedEndType
  <2>3. UpdateType'
    BY <2>1, <2>2 DEF UpdateType, IdleUpdate
  <2>4. /\ loader' \in [Loaders -> LoaderStates]
        /\ \A k \in Loaders : loader'[k].pc = "store" => loader'[k].page # {}
    <3>1. CASE UNCHANGED loader
      BY <3>1 DEF StoreType
    <3>2. CASE Load("holdout", CollectionStart, CompletedEnd(now))
      BY <1>0, <2>2, <3>2, LoadTypes
    <3> QED
      BY <2>1, <3>1, <3>2
  <2> QED
    BY <2>1, <2>3, <2>4, LoaderOnly
<1>8. CASE UpdateDds
  <2>1. LoadRawCandles(update.asOf) /\ update.asOf \in Int
        /\ UNCHANGED <<now, raw, journal, loader, derived, todo>>
    BY <1>8 DEF UpdateDds, UpdateType
  <2>2. UpdateType'
    BY <1>8 DEF UpdateDds, UpdateType, IdleUpdate
  <2> QED
    BY <2>1, <2>2, LoadRawTypes
<1>9. CASE UpdateReads \/ UpdateWrites \/ UpdateGate
  <2>1. UNCHANGED storeVars /\ DerivedStep
    BY <1>9 DEF UpdateReads, UpdateWrites, UpdateGate
  <2>2. UpdateType'
    <3>1. UpdateReads => UpdateType'
      <4> DEFINE w == WindowWork(PeriodStart, CompletedEnd(update.asOf))
      <4>1. UpdateReads => update' = [update EXCEPT !.pc = "write", !.work = w]
        BY DEF UpdateReads
      <4> HIDE DEF w
      <4> QED
        BY <4>1 DEF UpdateType
    <3>2. UpdateWrites => UpdateType'
      BY DEF UpdateWrites, UpdateType
    <3>3. UpdateGate => UpdateType'
      BY DEF UpdateGate, UpdateType, IdleUpdate
    <3> QED
      BY <1>9, <3>1, <3>2, <3>3
  <2> QED
    BY <2>1, <2>2, StoreVarsKept
<1>10. CASE UpdateFails
  <2>1. UpdateType' /\ UNCHANGED derived
    BY <1>10 DEF UpdateFails, UpdateType, IdleUpdate
  <2>2. UNCHANGED storeVars \/ LoadFails("holdout")
    BY <1>10 DEF UpdateFails
  <2> QED
    BY <1>0, <2>1, <2>2, StoreVarsKept, CollectingTypes
<1>11. CASE UNCHANGED vars
  BY <1>11, <1>k, StoreVarsKept DEF vars
<1> QED
  BY <1>1, <1>2, <1>3, <1>4, <1>5, <1>6, <1>7, <1>8, <1>9, <1>10, <1>11 DEF Next, UpdateStep
-----------------------------------------------------------------------------
(* The invariant.                                                          *)

DataInv == StoreType /\ UpdateType /\ Copied /\ RawIsSettled

LEMMA DataInit == Init => DataInv
<1> SUFFICES ASSUME Init PROVE DataInv
  OBVIOUS
<1> USE DEF Init, StoreInit
<1>1. StoreType
  <2>1. IdleLoader \in LoaderStates /\ IdleLoader.pc = "idle"
    BY IdleType
  <2>2. /\ loader \in [Loaders -> LoaderStates]
        /\ \A l \in Loaders : loader[l].pc = "store" => loader[l].page # {}
    BY <2>1
  <2>3. now \in Hours
    BY StoreAssumption DEF Hours
  <2>4. DOMAIN raw = {} /\ dds \in Seq(Rows)
    OBVIOUS
  <2>5. etl \in [loadedAt : Int, lastRun : Int] /\ runs.count \in Nat /\ journal \in {Never}
    BY DEF Never
  <2> QED
    BY <2>2, <2>3, <2>4, <2>5 DEF StoreType
<1>2. DOMAIN raw = {} /\ DOMAIN dds = {}
  OBVIOUS
<1>3. InDds = {} /\ Ids = {}
  BY <1>2 DEF InDds, Ids
<1> QED
  BY <1>1, <1>2, <1>3 DEF DataInv, UpdateType, IdleUpdate, Copied, RawIsSettled

\* Storing a page leaves DDS alone, and its rows are newer than the checkpoint or
\* are marked as late.
LEMMA StoreKeeps ==
    ASSUME DataInv, NEW l \in Loaders, Store(l)
    PROVE  Copied' /\ RawIsSettled'
<1>1. /\ DOMAIN raw \subseteq DOMAIN raw'
      /\ \A h \in DOMAIN raw : raw'[h] = raw[h]
      /\ \A h \in DOMAIN raw' \ DOMAIN raw : raw'[h] = RawRow(l, h)
  BY StoreTypes DEF DataInv
<1>2. UNCHANGED <<dds, events, etl>> /\ InDds' = InDds /\ Ids' = Ids
  BY DEF Store, InDds, Ids
<1>3. Copied'
  BY <1>1, <1>2 DEF DataInv, Copied
<1>4. \A h \in DOMAIN raw' \ DOMAIN raw :
         ~(raw'[h].at <= etl'.loadedAt /\ ~raw'[h].late)
  <2> SUFFICES ASSUME NEW h \in DOMAIN raw' \ DOMAIN raw
               PROVE  ~(raw'[h].at <= etl'.loadedAt /\ ~raw'[h].late)
    OBVIOUS
  <2>1. raw'[h] = RawRow(l, h)
    BY <1>1
  <2>2. raw'[h].at = loader[l].at /\ raw'[h].late = (loader[l].at <= etl.loadedAt)
    BY <2>1 DEF RawRow
  <2> QED
    BY <1>2, <2>2, Zenon
<1>5. RawIsSettled'
  BY <1>1, <1>2, <1>4 DEF DataInv, RawIsSettled, Closes
<1> QED
  BY <1>3, <1>5

\* What a run of the ETL finds closed is settled; what it does not look at was
\* stored before the checkpoint and closed by the last run, or is late.
LEMMA RunSettles ==
    ASSUME DataInv, NEW asOf \in Int, Ran(asOf), UNCHANGED <<raw>>
    PROVE  RawIsSettled'
<1> DEFINE closed == ClosedBy(Candidates(asOf), asOf)
<1>1. /\ InDds' = InDds \cup Accepted(closed)
      /\ events' = events \cup UNION {{[hour |-> h, check |-> c] : c \in Flaws[h]} : h \in closed}
      /\ etl'.lastRun = asOf
  BY DEF Ran
<1>2. \A h \in DOMAIN raw : raw[h].at \in Int /\ Closes(h) \in Int
      /\ etl.loadedAt \in Int /\ etl.lastRun \in Int
  BY HoursFinite DEF DataInv, StoreType, Closes
<1>3. \A h \in DOMAIN raw : Closes(h) <= asOf =>
         h \in closed \/ (raw[h].at <= etl.loadedAt /\ Closes(h) <= etl.lastRun)
  BY <1>2 DEF Candidates, ClosedBy
<1> HIDE DEF closed
<1>4. \A h \in closed : IF Flaws[h] = {} THEN h \in InDds'
                        ELSE \A c \in Flaws[h] : [hour |-> h, check |-> c] \in events'
  <2>1. \A h \in closed : Flaws[h] = {} => h \in InDds'
    BY <1>1 DEF Accepted
  <2>2. ASSUME NEW h \in closed, NEW c \in Flaws[h]
        PROVE  [hour |-> h, check |-> c] \in events'
    <3>1. [hour |-> h, check |-> c] \in {[hour |-> h, check |-> d] : d \in Flaws[h]}
      OBVIOUS
    <3> QED
      BY <1>1, <3>1, Zenon
  <2> QED
    BY <2>1, <2>2
<1>5. InDds \subseteq InDds' /\ events \subseteq events'
  BY <1>1
<1>6. ASSUME NEW h \in DOMAIN raw', Closes(h) <= etl'.lastRun, ~raw'[h].late
      PROVE  IF Flaws[h] = {} THEN h \in InDds'
             ELSE \A c \in Flaws[h] : [hour |-> h, check |-> c] \in events'
  <2>1. CASE h \in closed
    BY <1>4, <2>1
  <2>2. CASE raw[h].at <= etl.loadedAt /\ Closes(h) <= etl.lastRun
    BY <1>5, <1>6, <2>2 DEF DataInv, RawIsSettled
  <2> QED
    BY <1>1, <1>3, <1>6, <2>1, <2>2
<1>7. \A h \in InDds' : Flaws[h] = {}
  BY <1>1 DEF DataInv, RawIsSettled, Accepted
<1> QED
  BY <1>6, <1>7 DEF RawIsSettled, Closes

\* A run of the ETL: the four conjuncts, and that DDS and the record of its flaws
\* only grow.
LEMMA RunKeeps ==
    ASSUME DataInv, NEW asOf \in Int, LoadRawCandles(asOf),
           UNCHANGED <<now, raw, journal, loader>>
    PROVE  Copied' /\ RawIsSettled' /\ InDds \subseteq InDds'
<1>1. Copied' /\ ((DOMAIN raw = {} /\ UNCHANGED <<dds, events, etl, runs>>) \/ Ran(asOf))
  BY LoadRawTypes DEF DataInv
<1>2. CASE UNCHANGED <<dds, events, etl, runs>>
  BY <1>1, <1>2 DEF DataInv, RawIsSettled, InDds, Closes
<1>3. CASE Ran(asOf)
  BY <1>1, <1>3, RunSettles DEF Ran
<1> QED
  BY <1>1, <1>2, <1>3

LEMMA DataNext == DataInv /\ [Next]_vars => DataInv'
<1> SUFFICES ASSUME DataInv, [Next]_vars PROVE DataInv'
  OBVIOUS
<1>1. StoreType' /\ UpdateType' /\ TablesStep
  BY StepTypes DEF DataInv
<1>2. Copied' /\ RawIsSettled'
  <2>1. CASE UNCHANGED <<raw, dds, events, etl, runs>>
    BY <2>1 DEF DataInv, Copied, RawIsSettled, InDds, Ids, Closes
  <2>2. ASSUME NEW l \in Loaders, Store(l) PROVE Copied' /\ RawIsSettled'
    BY <2>2, StoreKeeps
  <2>3. ASSUME NEW asOf \in Int, LoadRawCandles(asOf), UNCHANGED <<now, raw, journal, loader>>
        PROVE  Copied' /\ RawIsSettled'
    BY <2>3, RunKeeps
  <2> QED
    BY <1>1, <2>1, <2>2, <2>3 DEF TablesStep
<1> QED
  BY <1>1, <1>2 DEF DataInv

LEMMA DataAlways == Spec => []DataInv
  BY DataInit, DataNext, PTL DEF Spec

\* The two cutoffs of dds.load_raw_candles leave no row of RAW behind, whichever
\* collectors store pages and whichever programs run the ETL meanwhile; rows that
\* were committed behind the checkpoint are the exception.
THEOREM AlwaysSettled == Spec => []RawIsSettled
<1>1. DataInv => RawIsSettled
  BY DEF DataInv
<1> QED
  BY DataAlways, <1>1, PTL

-----------------------------------------------------------------------------
(* What the checks attest.                                                 *)

\* Writing the derived values of a candle never takes the long ones away.
LEMMA WrittenKeeps ==
    ASSUME NEW h, Complete(h), NEW work, derived' = Written(work)
    PROVE  Complete(h)'
<1> DEFINE of(g) == CHOOSE p \in work : Candle(p) = g
           hours == {Candle(p) : p \in Computable(work)}
           old(g) == IF g \in DOMAIN derived THEN derived[g] ELSE [short |-> <<>>, long |-> <<>>]
<1>1. derived' = [g \in DOMAIN derived \cup hours |->
            IF g \notin hours THEN derived[g]
            ELSE [short |-> of(g), long |-> IF Len(of(g)) >= LongBars THEN of(g) ELSE old(g).long]]
  BY DEF Written
<1> HIDE DEF hours
<1>2. h \in DOMAIN derived' /\ old(h) = derived[h] /\ derived[h].long # <<>>
  BY <1>1 DEF Complete
<1>3. CASE h \notin hours
  BY <1>1, <1>2, <1>3 DEF Complete
<1>4. CASE h \in hours
  <2> HIDE DEF of, old
  <2>1. derived'[h].long = IF Len(of(h)) >= LongBars THEN of(h) ELSE old(h).long
    BY <1>1, <1>4
  <2>2. Len(of(h)) >= LongBars => of(h) # <<>>
    <3>1. LongBars \in Nat /\ LongBars >= 1
      BY DerivedAssumption
    <3>2. Len(<<>>) = 0
      OBVIOUS
    <3> QED
      BY <3>1, <3>2
  <2> QED
    BY <1>2, <2>1, <2>2 DEF Complete
<1> QED
  BY <1>3, <1>4

LEMMA HealthyStays ==
    ASSUME DataInv, [Next]_vars, NEW asOf \in Int, Healthy(asOf)
    PROVE  Healthy(asOf)'
<1>1. TablesStep /\ DerivedStep
  BY StepTypes DEF DataInv
<1>2. InDds \subseteq InDds'
  <2>1. CASE UNCHANGED <<raw, dds, events, etl, runs>>
    BY <2>1 DEF InDds
  <2>2. ASSUME NEW l \in Loaders, Store(l) PROVE InDds \subseteq InDds'
    BY <2>2 DEF Store, InDds
  <2>3. ASSUME NEW t \in Int, LoadRawCandles(t), UNCHANGED <<now, raw, journal, loader>>
        PROVE  InDds \subseteq InDds'
    BY <2>3, RunKeeps
  <2> QED
    BY <1>1, <2>1, <2>2, <2>3 DEF TablesStep
<1>3. ASSUME NEW h, Complete(h) PROVE Complete(h)'
  <2>1. CASE UNCHANGED derived
    BY <1>3, <2>1 DEF Complete
  <2>2. ASSUME NEW work, derived' = Written(work) PROVE Complete(h)'
    BY <1>3, <2>2, WrittenKeeps
  <2> QED
    BY <1>1, <2>1, <2>2 DEF DerivedStep
<1>4. \A h \in Expected(asOf) : h \in InDds' /\ Complete(h)'
  BY <1>2, <1>3 DEF Healthy
<1> QED
  BY <1>4 DEF Healthy, Expected, CompletedEnd

LEMMA VerifiedStays ==
    ASSUME DataInv, [Next]_vars, NEW h \in Hours, Verified(h, h + 1)
    PROVE  Verified(h, h + 1)'
<1>1. TablesStep
  BY StepTypes DEF DataInv
<1>2. h .. (h + 1) - 1 = {h}
  BY HoursFinite
<1>3. /\ h \in DOMAIN raw /\ h \in InDds /\ Flaws[h] = {} /\ runs.count > 0
      /\ \A e \in events : e.hour # h
  BY <1>2 DEF Verified
<1>4. /\ h \in DOMAIN raw' /\ h \in InDds' /\ runs'.count > 0
      /\ \A e \in events' : e.hour # h
  <2>1. CASE UNCHANGED <<raw, dds, events, etl, runs>>
    BY <1>3, <2>1 DEF InDds
  <2>2. ASSUME NEW l \in Loaders, Store(l)
        PROVE  /\ h \in DOMAIN raw' /\ h \in InDds' /\ runs'.count > 0
               /\ \A e \in events' : e.hour # h
    <3>1. DOMAIN raw \subseteq DOMAIN raw'
      BY <2>2, StoreTypes DEF DataInv
    <3>2. UNCHANGED <<dds, events, runs>>
      BY <2>2 DEF Store
    <3> QED
      BY <1>3, <3>1, <3>2 DEF InDds
  <2>3. ASSUME NEW t \in Int, LoadRawCandles(t), UNCHANGED <<now, raw, journal, loader>>
        PROVE  /\ h \in DOMAIN raw' /\ h \in InDds' /\ runs'.count > 0
               /\ \A e \in events' : e.hour # h
    <3> DEFINE closed == ClosedBy(Candidates(t), t)
    <3>1. Ran(t)
      BY <1>3, <2>3, LoadRawTypes DEF DataInv
    <3>2. runs'.count > 0 /\ InDds' = InDds \cup Accepted(closed)
          /\ events' = events \cup UNION {{[hour |-> g, check |-> c] : c \in Flaws[g]} : g \in closed}
      BY <3>1 DEF Ran
    <3> HIDE DEF closed
    <3>3. ASSUME NEW e \in events' PROVE e.hour # h
      <4>1. CASE e \in events
        BY <1>3, <4>1
      <4>2. CASE e \notin events
        <5>1. PICK g \in closed : e \in {[hour |-> g, check |-> c] : c \in Flaws[g]}
          BY <3>2, <3>3, <4>2
        <5>2. PICK c \in Flaws[g] : e = [hour |-> g, check |-> c]
          BY <5>1
        <5> QED
          BY <1>3, <5>2
      <4> QED
        BY <4>1, <4>2
    <3> QED
      BY <1>3, <2>3, <3>2, <3>3
  <2> QED
    BY <1>1, <2>1, <2>2, <2>3 DEF TablesStep
<1> QED
  BY <1>2, <1>3, <1>4 DEF Verified

\* The last three conjuncts are of one state.
LEMMA StateGates ==
    ASSUME DataInv
    PROVE  /\ HoldoutOpen(TRUE) /\ Healthy(now) =>
                \A h \in PeriodStart .. PeriodEnd - 1 : Complete(h)
           /\ QualityPassed
           /\ FullLoadAllowed(TRUE, AllPassed) =>
                \A h \in DOMAIN raw :
                    h \in InDds \/ raw[h].late \/ raw[h].at > etl.loadedAt \/ Closes(h) > etl.lastRun
<1>1. ASSUME HoldoutOpen(TRUE), Healthy(now)
      PROVE  \A h \in PeriodStart .. PeriodEnd - 1 : Complete(h)
  <2>1. now \in Int /\ now >= PeriodEnd
    BY <1>1, HoursFinite, HoldoutAssumption DEF DataInv, StoreType, HoldoutOpen
  <2>2. CompletedEnd(now) = PeriodEnd
    BY <2>1, CompletedEndType
  <2> QED
    BY <1>1, <2>2 DEF Healthy, Expected
<1>2. QualityPassed
  BY DEF DataInv, RawIsSettled, QualityPassed
<1>3. ASSUME FullLoadAllowed(TRUE, AllPassed), NEW h \in DOMAIN raw, h \notin InDds, ~raw[h].late
      PROVE  raw[h].at > etl.loadedAt \/ Closes(h) > etl.lastRun
  <2>1. Flaws[h] = {}
    BY <1>3 DEF FullLoadAllowed, DatabaseReady, RawCheck
  <2>2. raw[h].at \in Int /\ Closes(h) \in Int /\ etl.loadedAt \in Int /\ etl.lastRun \in Int
    BY HoursFinite DEF DataInv, StoreType, Closes
  <2>3. ~(raw[h].at <= etl.loadedAt /\ Closes(h) <= etl.lastRun)
    BY <1>3, <2>1 DEF DataInv, RawIsSettled
  <2> QED
    BY <2>2, <2>3
<1> QED
  BY <1>1, <1>2, <1>3, Zenon

\* What holdout_validation.py, verify_market_data.py, the data quality checker and
\* diagnose_readiness.py attest is so, and a healthy period or a verified range
\* stays so whatever the loaders, the ETL and the calculators do next.
THEOREM GatesAlwaysHold == Spec => GatesHold
<1> DEFINE G == /\ \A asOf \in PeriodStart + 1 .. PeriodEnd : Healthy(asOf) => Healthy(asOf)'
                /\ \A h \in Hours : Verified(h, h + 1) => Verified(h, h + 1)'
                /\ HoldoutOpen(TRUE) /\ Healthy(now) =>
                        \A h \in PeriodStart .. PeriodEnd - 1 : Complete(h)
                /\ QualityPassed
                /\ FullLoadAllowed(TRUE, AllPassed) =>
                        \A h \in DOMAIN raw :
                            h \in InDds \/ raw[h].late \/ raw[h].at > etl.loadedAt
                                \/ Closes(h) > etl.lastRun
<1>1. DataInv /\ [Next]_vars => G
  <2> SUFFICES ASSUME DataInv, [Next]_vars PROVE G
    OBVIOUS
  <2>1. \A asOf \in PeriodStart + 1 .. PeriodEnd : Healthy(asOf) => Healthy(asOf)'
    <3>1. \A asOf \in PeriodStart + 1 .. PeriodEnd : asOf \in Int
      BY HoldoutAssumption
    <3> QED
      BY <3>1, HealthyStays
  <2>2. \A h \in Hours : Verified(h, h + 1) => Verified(h, h + 1)'
    BY VerifiedStays
  <2> QED
    BY <2>1, <2>2, StateGates
<1> QED
  BY DataAlways, <1>1, PTL DEF Spec, GatesHold

-----------------------------------------------------------------------------
(* The ledger.                                                             *)

Source == [h \in DOMAIN raw |-> raw[h].final]
Copies == [h \in InDds |-> dds[IdOf(h)].final]

CopiesAgree == InDds \subseteq DOMAIN raw /\ \A h \in InDds : Copies[h] = raw[h].final

LEMMA CopiedAgree == Copied => CopiesAgree
<1> SUFFICES ASSUME Copied PROVE CopiesAgree
  OBVIOUS
<1> USE DEF CopiesAgree
<1>1. ASSUME NEW h \in InDds PROVE IdOf(h) \in Ids /\ dds[IdOf(h)].hour = h
  BY DEF InDds, Ids, IdOf
<1> QED
  BY <1>1 DEF Copied, Copies

LEMMA LedgerStep ==
    ASSUME DataInv, DataInv', [Next]_vars
    PROVE  [Ledger!Collect \/ Ledger!Copy]_<<Source, Copies>>
<1>1. TablesStep
  BY StepTypes DEF DataInv
<1>2. CASE UNCHANGED <<raw, dds, events, etl, runs>>
  BY <1>2 DEF Source, Copies, InDds, IdOf, Ids
<1>3. ASSUME NEW l \in Loaders, Store(l) PROVE Ledger!Collect
  <2>1. /\ DOMAIN raw \subseteq DOMAIN raw'
        /\ \A h \in DOMAIN raw : raw'[h] = raw[h]
        /\ UNCHANGED dds
    BY <1>3, StoreTypes DEF DataInv, Store
  <2>2. Copies' = Copies
    BY <2>1 DEF Copies, InDds, IdOf, Ids
  <2>3. DOMAIN Source \subseteq DOMAIN Source' /\ \A h \in DOMAIN Source : Source'[h] = Source[h]
    BY <2>1 DEF Source
  <2> QED
    BY <2>2, <2>3 DEF Ledger!Collect, Ledger!Extends, Source, Copies
<1>4. ASSUME NEW asOf \in Int, LoadRawCandles(asOf), UNCHANGED <<now, raw, journal, loader>>
      PROVE  Ledger!Copy
  <2>1. Copied /\ Copied' /\ InDds \subseteq InDds'
    BY <1>4, RunKeeps DEF DataInv
  <2>2. \A h \in InDds : Copies[h] = raw[h].final
    BY <2>1, CopiedAgree DEF CopiesAgree
  <2>3. InDds' \subseteq DOMAIN raw' /\ \A h \in InDds' : Copies'[h] = raw'[h].final
    <3>1. CopiesAgree'
      BY <2>1, CopiedAgree, PTL
    <3> QED
      BY <3>1 DEF CopiesAgree
  <2>4. DOMAIN Copies = InDds /\ DOMAIN Copies' = InDds' /\ DOMAIN Source = DOMAIN raw
        /\ \A h \in DOMAIN raw : Source[h] = raw[h].final
    BY DEF Copies, Source
  <2>5. Source' = Source
    BY <1>4 DEF Source
  <2>6. DOMAIN Copies \subseteq DOMAIN Copies' /\ \A h \in DOMAIN Copies : Copies'[h] = Copies[h]
    BY <1>4, <2>1, <2>2, <2>3, <2>4
  <2>7. DOMAIN Copies' \subseteq DOMAIN Source /\ \A h \in DOMAIN Copies' : Source[h] = Copies'[h]
    BY <1>4, <2>3, <2>4
  <2> QED
    BY <2>5, <2>6, <2>7 DEF Ledger!Copy, Ledger!Extends, Source, Copies
<1> QED
  BY <1>1, <1>2, <1>3, <1>4 DEF TablesStep

\* RAW and DDS refine the append-only ledger: every step of every program adds to
\* RAW, copies to DDS or leaves both alone, because the inserts of raw_candles and
\* of dds.load_raw_candles pass over the rows that are there.
THEOREM LedgerImplemented == Spec => RawToDds
<1>1. Init => Ledger!Init
  <2> SUFFICES ASSUME Init PROVE Ledger!Init
    OBVIOUS
  <2>1. DOMAIN raw = {} /\ DOMAIN dds = {}
    BY DEF Init, StoreInit
  <2>2. InDds = {}
    BY <2>1 DEF InDds
  <2> QED
    BY <2>1, <2>2 DEF Ledger!Init
<1>2. DataInv /\ DataInv' /\ [Next]_vars => [Ledger!Collect \/ Ledger!Copy]_<<Source, Copies>>
  BY LedgerStep
<1> QED
  BY DataAlways, <1>1, <1>2, PTL DEF Spec, RawToDds, Ledger!Spec, Source, Copies

-----------------------------------------------------------------------------
(* Candles by open time.                                                   *)

Ascends(p) == \A i, j \in DOMAIN p : i < j => p[i] < p[j]

\* Each hour is where the number of earlier ones puts it.
LEMMA AscendingEnumerates ==
    ASSUME NEW S, S \subseteq Int, IsFiniteSet(S)
    PROVE  /\ Cardinality(S) \in Nat
           /\ Ascending(S) \in [1 .. Cardinality(S) -> S]
           /\ Ascends(Ascending(S))
           /\ \A h \in S : /\ Cardinality({g \in S : g < h}) + 1 \in 1 .. Cardinality(S)
                           /\ Ascending(S)[Cardinality({g \in S : g < h}) + 1] = h
<1> DEFINE n == Cardinality(S)
           before(h) == {g \in S : g < h}
           rank == [h \in S |-> Cardinality(before(h)) + 1]
<1>1. n \in Nat /\ IsFiniteSet(1 .. n) /\ Cardinality(1 .. n) = n
  BY FS_CardinalityType, FS_Interval
<1>3. ASSUME NEW h \in S
      PROVE  /\ IsFiniteSet(before(h)) /\ Cardinality(before(h)) \in Nat
             /\ rank[h] \in 1 .. n /\ rank[h] = Cardinality(before(h)) + 1
  <2>1. before(h) \subseteq S \ {h}
    OBVIOUS
  <2>0. rank[h] = Cardinality(before(h)) + 1
    OBVIOUS
  <2> HIDE DEF before, rank
  <2>2. IsFiniteSet(S \ {h}) /\ Cardinality(S \ {h}) = n - 1
    BY FS_RemoveElement
  <2>3. IsFiniteSet(before(h)) /\ Cardinality(before(h)) <= n - 1
    BY <2>1, <2>2, FS_Subset
  <2>4. Cardinality(before(h)) \in Nat
    BY <2>3, FS_CardinalityType
  <2> QED
    BY <1>1, <2>0, <2>3, <2>4
<1>4. ASSUME NEW g \in S, NEW h \in S, g < h
      PROVE  rank[g] < rank[h]
  <2>0. (\A x \in S : x < g => x < h) /\ ~(g < g)
    <3>1. g \in Int /\ h \in Int /\ \A x \in S : x \in Int
      OBVIOUS
    <3> QED
      BY <1>4, <3>1
  <2>1. before(g) \subseteq before(h) /\ g \in before(h) /\ g \notin before(g)
    BY <1>4, <2>0
  <2> HIDE DEF before
  <2>2. before(g) \in SUBSET before(h) /\ before(g) # before(h)
    BY <2>1
  <2>3. Cardinality(before(g)) <= Cardinality(before(h))
        /\ Cardinality(before(g)) # Cardinality(before(h))
    BY <1>3, <2>2, FS_Subset
  <2> QED
    BY <1>3, <2>3
<1> HIDE DEF before
<1>5. rank \in [S -> 1 .. n] /\ \A g, h \in S : rank[g] = rank[h] => g = h
  <2>1. rank \in [S -> 1 .. n]
    BY <1>3
  <2>2. ASSUME NEW g \in S, NEW h \in S, rank[g] = rank[h] PROVE g = h
    <3>1. rank[g] \in Int /\ g \in Int /\ h \in Int
      BY <1>3
    <3> HIDE DEF rank
    <3> QED
      BY <1>4, <2>2, <3>1
  <2> QED
    BY <2>1, <2>2
<1>x. \A h \in S : rank[h] = Cardinality(before(h)) + 1
  BY <1>3
<1> HIDE DEF rank
<1>6. rank \in Injection(S, 1 .. n)
  BY <1>5 DEF Injection, IsInjective
<1>7. \A i \in 1 .. n : \E h \in S : rank[h] = i
  <2>1. rank \in Surjection(S, 1 .. n)
    BY <1>1, <1>6, FS_Injection
  <2> QED
    BY <2>1 DEF Surjection
<1> DEFINE s == Ascending(S)
<1>8. s = [i \in 1 .. n |-> CHOOSE h \in S : Cardinality(before(h)) = i - 1]
  BY DEF Ascending, before
<1> HIDE DEF s, n
<1>9. \A i \in 1 .. n : s[i] \in S /\ rank[s[i]] = i
  <2> SUFFICES ASSUME NEW i \in 1 .. n PROVE s[i] \in S /\ rank[s[i]] = i
    OBVIOUS
  <2>1. PICK h \in S : rank[h] = i
    BY <1>7
  <2>2. Cardinality(before(h)) = i - 1
    BY <1>1, <1>3, <1>x, <2>1
  <2>3. s[i] \in S /\ Cardinality(before(s[i])) = i - 1
    BY <1>8, <2>2
  <2>4. rank[s[i]] = Cardinality(before(s[i])) + 1
    BY <1>x, <2>3, Zenon
  <2>5. i \in Int /\ (i - 1) + 1 = i
    BY <1>1
  <2> QED
    BY <2>3, <2>4, <2>5
<1>10. s \in [1 .. n -> S]
  BY <1>8, <1>9
<1>11. Ascends(s)
  <2> SUFFICES ASSUME NEW i \in 1 .. n, NEW j \in 1 .. n, i < j PROVE s[i] < s[j]
    BY <1>10 DEF Ascends
  <2>1. s[i] \in S /\ s[j] \in S /\ rank[s[i]] = i /\ rank[s[j]] = j
    BY <1>9
  <2>2. s[j] < s[i] => rank[s[j]] < rank[s[i]]
    BY <1>4, <2>1
  <2>3. s[i] # s[j] /\ ~(j < i)
    BY <1>1, <2>1
  <2>4. s[i] \in Int /\ s[j] \in Int
    BY <2>1
  <2> QED
    BY <2>1, <2>2, <2>3, <2>4
<1>12. \A h \in S : rank[h] \in 1 .. n /\ s[rank[h]] = h
  BY <1>5, <1>9
<1> QED
  BY <1>1, <1>10, <1>11, <1>12, <1>x DEF s, n, before

LEMMA AscendingSeq ==
    ASSUME NEW S, S \subseteq Int, IsFiniteSet(S)
    PROVE  LET s == Ascending(S) IN
           /\ s \in Seq(Int) /\ Len(s) = Cardinality(S) /\ Len(s) \in Nat
           /\ DOMAIN s = 1 .. Len(s)
           /\ Ascends(s)
           /\ \A i \in DOMAIN s : s[i] \in S /\ s[i] \in Int
           /\ \A h \in S : \E i \in DOMAIN s : s[i] = h
<1> DEFINE s == Ascending(S)
           n == Cardinality(S)
<1>1. /\ n \in Nat /\ s \in [1 .. n -> S] /\ Ascends(s)
      /\ \A h \in S : \E i \in 1 .. n : s[i] = h
  BY AscendingEnumerates
<1> HIDE DEF s, n
<1>2. s \in Seq(Int) /\ Len(s) = n /\ DOMAIN s = 1 .. n
  <2>1. DOMAIN s = 1 .. n /\ s = [i \in 1 .. n |-> s[i]]
    BY <1>1
  <2>2. \A i \in 1 .. n : s[i] \in Int
    BY <1>1
  <2>3. s \in Seq(Int)
    BY <1>1, <2>1, <2>2
  <2> QED
    BY <1>1, <2>1, <2>3
<1> QED
  BY <1>1, <1>2 DEF s, n

\* A sequence that ascends through the upper part of a set is the end of the set.
LEMMA EndOfAscending ==
    ASSUME NEW S, S \subseteq Int, IsFiniteSet(S), NEW p \in Seq(Int), p # <<>>, Ascends(p),
           \A i \in DOMAIN p : p[i] \in S,
           \A g \in S : p[1] <= g => \E i \in DOMAIN p : p[i] = g
    PROVE  IsSuffix(p, Ascending(S))
<1> DEFINE s == Ascending(S)
           n == Cardinality(S)
           m == Len(p)
           before(h) == {g \in S : g < h}
           after(h) == {g \in S : h <= g}
<1>1. m \in Nat /\ m >= 1 /\ DOMAIN p = 1 .. m /\ \A i \in 1 .. m : p[i] \in Int
  OBVIOUS
<1>2. /\ n \in Nat /\ s \in [1 .. n -> S]
      /\ \A h \in S : Cardinality(before(h)) + 1 \in 1 .. n /\ s[Cardinality(before(h)) + 1] = h
  BY AscendingEnumerates
<1> HIDE DEF s, n, m
<1>3. ASSUME NEW j \in 1 .. m
      PROVE  IsFiniteSet(after(p[j])) /\ Cardinality(after(p[j])) = m - j + 1
  <2> DEFINE f == [k \in j .. m |-> p[k]]
  <2>1. \A k \in j .. m : p[k] \in after(p[j])
    <3> SUFFICES ASSUME NEW k \in j .. m PROVE p[k] \in after(p[j])
      OBVIOUS
    <3>1. k \in 1 .. m /\ (k = j \/ j < k)
      BY <1>1
    <3>2. p[k] \in S /\ p[j] \in Int /\ p[k] \in Int
      BY <1>1, <3>1
    <3>3. p[j] <= p[k]
      <4>1. CASE k = j
        BY <3>2, <4>1
      <4>2. CASE j < k
        <5>1. p[j] < p[k]
          BY <1>1, <3>1, <4>2 DEF Ascends
        <5> QED
          BY <3>2, <5>1
      <4> QED
        BY <3>1, <4>1, <4>2
    <3> QED
      BY <3>2, <3>3
  <2>2. \A g \in after(p[j]) : \E k \in j .. m : p[k] = g
    <3> SUFFICES ASSUME NEW g \in after(p[j]) PROVE \E k \in j .. m : p[k] = g
      OBVIOUS
    <3>1. g \in S /\ g \in Int /\ p[j] <= g /\ p[j] \in Int /\ p[1] \in Int
      BY <1>1
    <3>2. p[1] <= p[j]
      <4>1. CASE j = 1
        BY <3>1, <4>1
      <4>2. CASE j # 1
        <5>1. p[1] < p[j]
          BY <1>1, <4>2 DEF Ascends
        <5> QED
          BY <3>1, <5>1
      <4> QED
        BY <4>1, <4>2
    <3>3. PICK k \in 1 .. m : p[k] = g
      BY <1>1, <3>1, <3>2
    <3>4. ~(k < j)
      <4>1. k < j => p[k] < p[j]
        BY <1>1 DEF Ascends
      <4> QED
        BY <3>1, <3>3, <4>1
    <3> QED
      BY <1>1, <3>3, <3>4
  <2>3. \A k, l \in j .. m : p[k] = p[l] => k = l
    <3> SUFFICES ASSUME NEW k \in j .. m, NEW l \in j .. m, p[k] = p[l], k < l PROVE FALSE
      BY <1>1
    <3>1. k \in 1 .. m /\ l \in 1 .. m
      BY <1>1
    <3>2. p[k] < p[l] /\ p[k] \in Int
      BY <1>1, <3>1 DEF Ascends
    <3> QED
      BY <3>2
  <2> HIDE DEF after
  <2>4. f \in Bijection(j .. m, after(p[j]))
    BY <2>1, <2>2, <2>3 DEF Bijection, Injection, Surjection, IsInjective
  <2>5. IsFiniteSet(j .. m) /\ Cardinality(j .. m) = m - j + 1
    BY <1>1, FS_Interval
  <2>6. ExistsBijection(j .. m, after(p[j]))
    BY <2>4 DEF ExistsBijection
  <2> QED
    BY <2>5, <2>6, FS_Bijection
<1>4. ASSUME NEW j \in 1 .. m
      PROVE  /\ n - m + j \in 1 .. n
             /\ s[n - m + j] = p[j]
  <2>1. p[j] \in S /\ p[j] \in Int
    BY <1>1
  <2>2. before(p[j]) = S \ after(p[j]) /\ S \cap after(p[j]) = after(p[j])
    <3>1. \A g \in S : g < p[j] <=> ~(p[j] <= g)
      BY <2>1
    <3> QED
      BY <3>1
  <2> HIDE DEF before, after
  <2>3. Cardinality(S \ after(p[j])) = n - (m - j + 1)
    <3> DEFINE T == after(p[j])
    <3> HIDE DEF T
    <3>1. Cardinality(S \ T) = Cardinality(S) - Cardinality(S \cap T)
      BY FS_Difference
    <3>2. S \cap T = T /\ Cardinality(T) = m - j + 1
      BY <1>3, <2>2 DEF T
    <3>3. Cardinality(S \ T) = n - (m - j + 1)
      BY <3>1, <3>2 DEF n
    <3> QED
      BY <3>3 DEF T
  <2>4. n - (m - j + 1) + 1 = n - m + j
    BY <1>1, <1>2
  <2> QED
    BY <1>2, <2>1, <2>2, <2>3, <2>4
<1>5. m <= n /\ Len(s) = n /\ DOMAIN s = 1 .. n
  <2>1. n - m + 1 \in 1 .. n
    BY <1>1, <1>4
  <2>2. s \in Seq(Int) /\ Len(s) = n
    BY AscendingSeq DEF s, n
  <2> QED
    BY <1>1, <1>2, <2>1, <2>2
<1> DEFINE rp == Reverse(p)
           rs == Reverse(s)
<1>6. rp \in Seq(Int) /\ Len(rp) = m /\ rs \in Seq(Int) /\ Len(rs) = n
  <2>1. rp = [i \in 1 .. m |-> p[m - i + 1]] /\ rs = [i \in 1 .. n |-> s[n - i + 1]]
    BY <1>5 DEF Reverse, m
  <2>2. \A i \in 1 .. m : p[m - i + 1] \in Int
    BY <1>1
  <2>3. \A i \in 1 .. n : s[n - i + 1] \in Int
    <3>1. \A i \in 1 .. n : n - i + 1 \in 1 .. n
      BY <1>2
    <3>2. \A i \in 1 .. n : s[i] \in Int
      BY <1>2
    <3> QED
      BY <3>1, <3>2
  <2> QED
    BY <1>1, <1>2, <2>1, <2>2, <2>3
<1>7. \A i \in 1 .. m : rp[i] = rs[i]
  <2> SUFFICES ASSUME NEW i \in 1 .. m PROVE rp[i] = rs[i]
    OBVIOUS
  <2>1. rp[i] = p[m - i + 1] /\ rs[i] = s[n - i + 1]
    BY <1>1, <1>2, <1>5 DEF Reverse, m
  <2>2. m - i + 1 \in 1 .. m /\ n - m + (m - i + 1) = n - i + 1
    BY <1>1, <1>2
  <2> QED
    BY <1>4, <2>1, <2>2
<1> HIDE DEF rp, rs
<1>8. SubSeq(rp, 1, m) = SubSeq(rs, 1, m)
  <2>1. /\ SubSeq(rp, 1, m) = [i \in 1 .. m |-> rp[i]]
        /\ SubSeq(rs, 1, m) = [i \in 1 .. m |-> rs[i]]
    BY <1>1, <1>2, <1>5, <1>6
  <2> QED
    BY <1>7, <2>1
<1> QED
  BY <1>5, <1>6, <1>8 DEF IsSuffix, IsPrefix, rp, rs, s

-----------------------------------------------------------------------------
(***************************************************************************)
(* A history is a stretch of DDS: candles in order, without a hole.  What  *)
(* a calculation has read holds one stretch for each of its candles.       *)
(***************************************************************************)
Stretch(hours, p) ==
    /\ p \in Seq(Int) /\ p # <<>>
    /\ Ascends(p)
    /\ \A i \in DOMAIN p : p[i] \in hours
    /\ \A g \in hours : p[1] <= g /\ g <= Candle(p) => \E i \in DOMAIN p : p[i] = g

Stretches(hours, work) ==
    /\ \A p \in work : Stretch(hours, p)
    /\ \A p, q \in work : Candle(p) = Candle(q) => p = q

LEMMA InDdsTypes ==
    ASSUME StoreType
    PROVE  /\ Ids \subseteq Nat /\ (\A i \in Ids : dds[i].hour \in InDds)
           /\ InDds \subseteq Hours /\ InDds \subseteq Int
           /\ IsFiniteSet(InDds) /\ IsFiniteSet(Ids)
<1>1. dds \in Seq(Rows) /\ Ids = 1 .. Len(dds) /\ Len(dds) \in Nat
  BY DEF StoreType, Ids
<1>2. \A i \in Ids : dds[i] \in Rows
  BY <1>1
<1>3. InDds \subseteq Hours
  BY <1>2 DEF InDds, Ids, Rows
<1>4. InDds \subseteq Int /\ IsFiniteSet(InDds)
  BY <1>3, HoursFinite
<1>5. IsFiniteSet(Ids)
  BY <1>1, FS_Interval
<1> QED
  BY <1>1, <1>3, <1>4, <1>5 DEF InDds, Ids

\* A stretch up to a candle ends what DDS has up to that candle.
LEMMA StretchIsSuffix ==
    ASSUME StoreType, NEW p, Stretch(InDds, p)
    PROVE  IsSuffix(p, ByTime({i \in Ids : dds[i].hour <= Candle(p)}))
<1> DEFINE S == {g \in InDds : g <= Candle(p)}
<1>1. {dds[i].hour : i \in {i \in Ids : dds[i].hour <= Candle(p)}} = S
  BY DEF InDds, Ids
<1>2. S \subseteq Int /\ IsFiniteSet(S)
  BY InDdsTypes, FS_Subset
<1>3. p \in Seq(Int) /\ p # <<>> /\ Ascends(p)
  BY DEF Stretch
<1>4. DOMAIN p = 1 .. Len(p) /\ Len(p) \in Nat /\ Len(p) \in DOMAIN p
      /\ \A i \in DOMAIN p : p[i] \in Int
  BY <1>3
<1>5. \A i \in DOMAIN p : p[i] \in S
  <2> SUFFICES ASSUME NEW i \in DOMAIN p PROVE p[i] \in InDds /\ p[i] <= p[Len(p)]
    BY DEF Candle
  <2>1. i = Len(p) \/ i < Len(p)
    BY <1>4
  <2>2. i < Len(p) => p[i] < p[Len(p)]
    BY <1>3, <1>4 DEF Ascends
  <2>3. p[i] \in Int /\ p[Len(p)] \in Int
    BY <1>4
  <2> QED
    BY <2>1, <2>2, <2>3 DEF Stretch
<1>6. \A g \in S : p[1] <= g => \E i \in DOMAIN p : p[i] = g
  BY DEF Stretch
<1> HIDE DEF S
<1>7. IsSuffix(p, Ascending(S))
  BY <1>2, <1>3, <1>5, <1>6, EndOfAscending
<1> QED
  BY <1>1, <1>7 DEF ByTime

\* The histories of a stretch.
LEMMA HistoriesStretch ==
    ASSUME StoreType, NEW c \in Seq(Int), c # <<>> => Stretch(InDds, c),
           NEW first \in Nat \ {0}
    PROVE  /\ Histories(c, first) \in Seq(Seq(Int))
           /\ Stretches(InDds, Range(Histories(c, first)))
<1> DEFINE n == Len(c) - first + 1
           w == Histories(c, first)
           upTo(k) == SubSeq(c, 1, k)
<1>1. Len(c) \in Nat /\ n \in Int /\ DOMAIN c = 1 .. Len(c) /\ \A i \in DOMAIN c : c[i] \in Int
  OBVIOUS
<1>2. ASSUME NEW k \in 1 .. Len(c)
      PROVE  /\ upTo(k) \in Seq(Int) /\ Len(upTo(k)) = k /\ upTo(k) # <<>>
             /\ DOMAIN upTo(k) = 1 .. k
             /\ \A i \in 1 .. k : upTo(k)[i] = c[i]
             /\ Candle(upTo(k)) = c[k]
  <2> DEFINE u == upTo(k)
  <2>1. u \in Seq(Int) /\ Len(u) = k /\ \A i \in 1 .. k : u[i] = c[i]
    BY <1>1
  <2> HIDE DEF u
  <2>2. u # <<>> /\ DOMAIN u = 1 .. k /\ k \in 1 .. k
    BY <1>1, <2>1
  <2> QED
    BY <2>1, <2>2 DEF Candle, u
<1>3. w = [i \in 1 .. n |-> upTo(first + i - 1)] /\ \A i \in 1 .. n : first + i - 1 \in 1 .. Len(c)
  <2>1. \A i \in 1 .. n : first + i - 1 \in 1 .. Len(c)
    BY <1>1
  <2> QED
    BY <2>1 DEF Histories
<1> HIDE DEF w, n, upTo
<1>4. w \in Seq(Seq(Int))
  <2>1. \A i \in 1 .. n : upTo(first + i - 1) \in Seq(Int)
    BY <1>2, <1>3
  <2>2. CASE n \in Nat
    <3> DEFINE T == Seq(Int)
               e(i) == upTo(first + i - 1)
    <3>1. w = [i \in 1 .. n |-> e(i)] /\ \A i \in 1 .. n : e(i) \in T
      BY <1>3, <2>1
    <3> HIDE DEF T, e
    <3>2. w \in Seq(T)
      BY <2>2, <3>1
    <3> QED
      BY <3>2 DEF T
  <2>3. CASE n \notin Nat
    <3>1. 1 .. n = {} /\ 1 .. 0 = {}
      BY <1>1, <2>3
    <3>2. w = [i \in 1 .. 0 |-> upTo(first + i - 1)]
      BY <1>3, <3>1
    <3>3. w = <<>>
      BY <3>2
    <3> QED
      BY <3>3
  <2> QED
    BY <2>2, <2>3
<1>5. \A p \in Range(w) : \E k \in 1 .. Len(c) : p = upTo(k)
  <2>1. DOMAIN w = 1 .. n /\ \A i \in 1 .. n : w[i] = upTo(first + i - 1)
    BY <1>3
  <2> QED
    BY <1>3, <2>1 DEF Range
<1>6. ASSUME NEW k \in 1 .. Len(c) PROVE Stretch(InDds, upTo(k))
  <2>1. Stretch(InDds, c) /\ Ascends(c) /\ Candle(c) = c[Len(c)]
    <3>1. c # <<>>
      BY <1>1
    <3> QED
      BY <3>1 DEF Stretch, Candle
  <2>2. Ascends(upTo(k))
    <3>1. \A i, j \in 1 .. k : i < j => c[i] < c[j]
      BY <1>1, <2>1 DEF Ascends
    <3> QED
      BY <1>2, <3>1 DEF Ascends
  <2>3. \A i \in 1 .. k : c[i] \in InDds
    BY <1>1, <2>1 DEF Stretch
  <2>4. ASSUME NEW g \in InDds, c[1] <= g, g <= c[k]
        PROVE  \E i \in 1 .. k : c[i] = g
    <3>1. c[k] \in Int /\ c[Len(c)] \in Int /\ 1 \in DOMAIN c /\ Len(c) \in DOMAIN c
          /\ k \in DOMAIN c
      BY <1>1
    <3>2. c[k] <= c[Len(c)]
      <4>1. k = Len(c) \/ k < Len(c)
        <5> DEFINE l == Len(c)
        <5>1. l \in Nat /\ k \in 1 .. l
          BY <1>1
        <5> HIDE DEF l
        <5>2. k = l \/ k < l
          BY <5>1
        <5> QED
          BY <5>2 DEF l
      <4>2. k < Len(c) => c[k] < c[Len(c)]
        BY <2>1, <3>1 DEF Ascends
      <4> QED
        BY <3>1, <4>1, <4>2
    <3>3. g \in Int
      BY InDdsTypes
    <3>4. g <= c[Len(c)]
      BY <2>4, <3>1, <3>2, <3>3
    <3>5. PICK i \in DOMAIN c : c[i] = g
      BY <2>1, <2>4, <3>4 DEF Stretch
    <3>6. ~(k < i)
      <4>1. k < i => c[k] < c[i]
        BY <2>1, <3>1 DEF Ascends
      <4> QED
        BY <2>4, <3>1, <3>3, <3>5, <4>1
    <3> QED
      BY <1>1, <3>5, <3>6
  <2>5. upTo(k)[1] = c[1]
    BY <1>2
  <2> QED
    BY <1>2, <2>2, <2>3, <2>4, <2>5 DEF Stretch
<1>7. \A k, l \in 1 .. Len(c) : Candle(upTo(k)) = Candle(upTo(l)) => k = l
  <2> SUFFICES ASSUME NEW k \in 1 .. Len(c), NEW l \in 1 .. Len(c), c[k] = c[l], k < l
               PROVE  FALSE
    BY <1>1, <1>2
  <2>1. c # <<>>
    BY <1>1
  <2>2. c[k] < c[l] /\ c[k] \in Int
    BY <1>1, <2>1 DEF Stretch, Ascends
  <2> QED
    BY <2>2
<1>8. Stretches(InDds, Range(w))
  BY <1>5, <1>6, <1>7 DEF Stretches
<1> QED
  BY <1>4, <1>8 DEF w

LEMMA ByTimeOrders ==
    ASSUME StoreType, NEW I \in SUBSET Ids
    PROVE  LET s == ByTime(I) IN
           /\ s \in Seq(Int) /\ Len(s) \in Nat /\ DOMAIN s = 1 .. Len(s)
           /\ Ascends(s)
           /\ \A k \in DOMAIN s : /\ s[k] \in Int /\ s[k] \in InDds
                                  /\ \E i \in I : dds[i].hour = s[k]
           /\ \A i \in I : \E k \in DOMAIN s : s[k] = dds[i].hour
<1> DEFINE S == {dds[i].hour : i \in I}
<1>1. S \subseteq InDds
  BY InDdsTypes
<1>2. S \subseteq Int /\ IsFiniteSet(S)
  BY <1>1, InDdsTypes, FS_Subset
<1>3. \A h \in S : \E i \in I : dds[i].hour = h
  OBVIOUS
<1>4. \A i \in I : dds[i].hour \in S
  OBVIOUS
<1>5. ByTime(I) = Ascending(S)
  BY DEF ByTime
<1> HIDE DEF S
<1> DEFINE s == Ascending(S)
<1>6. /\ s \in Seq(Int) /\ Len(s) \in Nat /\ DOMAIN s = 1 .. Len(s) /\ Ascends(s)
      /\ \A i \in DOMAIN s : s[i] \in S /\ s[i] \in Int
      /\ \A h \in S : \E i \in DOMAIN s : s[i] = h
  BY <1>2, AscendingSeq
<1> HIDE DEF s
<1> QED
  BY <1>1, <1>3, <1>4, <1>5, <1>6 DEF s

\* calculate_and_store_indicators reads all candles.
LEMMA AllWorkStretches ==
    ASSUME StoreType
    PROVE  AllWork \in Seq(Seq(Int)) /\ Stretches(InDds, Range(AllWork))
<1> DEFINE c == ByTime(Ids)
<1>1. /\ c \in Seq(Int) /\ Ascends(c)
      /\ \A k \in DOMAIN c : c[k] \in InDds
      /\ \A i \in Ids : \E k \in DOMAIN c : c[k] = dds[i].hour
  BY ByTimeOrders
<1>2. \A g \in InDds : \E k \in DOMAIN c : c[k] = g
  BY <1>1 DEF InDds, Ids
<1> HIDE DEF c
<1>3. c # <<>> => Stretch(InDds, c)
  BY <1>1, <1>2 DEF Stretch
<1>4. 1 \in Nat \ {0}
  OBVIOUS
<1> QED
  BY <1>1, <1>3, <1>4, HistoriesStretch DEF AllWork, c

\* _get_last_indicator_candle_id
LEMMA LastDerivedType ==
    ASSUME StoreType
    PROVE  LastDerived \in Int
<1> DEFINE S == {0} \cup {i \in Ids : dds[i].hour \in DOMAIN derived}
<1>1. S \subseteq Int /\ S # {}
  BY InDdsTypes
<1>2. IsFiniteSet(S)
  <2>1. IsFiniteSet({i \in Ids : dds[i].hour \in DOMAIN derived})
    BY InDdsTypes, FS_Subset
  <2> QED
    BY <2>1, FS_Singleton, FS_Union
<1> HIDE DEF S
<1>3. Max(S) \in Int
  BY <1>1, <1>2, MaxExists
<1> QED
  BY <1>3 DEF LastDerived, S

\* The warm-up is the end of what came before.
LEMMA WarmUpEnds ==
    ASSUME StoreType, NEW id \in Ids
    PROVE  LET older == ByTime(1 .. id - 1)
               before == WarmUpBefore(id)
           IN  /\ before \in Seq(Int) /\ Len(before) \in Nat /\ Len(before) <= Len(older)
               /\ DOMAIN before = 1 .. Len(before)
               /\ \A i \in 1 .. Len(before) : /\ Len(older) - Len(before) + i \in 1 .. Len(older)
                                              /\ before[i] = older[Len(older) - Len(before) + i]
<1> DEFINE older == ByTime(1 .. id - 1)
           n == Len(older)
           lo == Max({1, n - WarmUp + 1})
           before == SubSeq(older, lo, n)
<1>1. 1 .. id - 1 \in SUBSET Ids
  <2>1. Ids = 1 .. Len(dds) /\ Len(dds) \in Nat
    BY DEF StoreType, Ids
  <2> QED
    BY <2>1
<1>2. older \in Seq(Int) /\ n \in Nat
  BY <1>1, ByTimeOrders
<1>3. WarmUpBefore(id) = before
  BY DEF WarmUpBefore
<1> HIDE DEF older
<1>4. lo \in Nat /\ 1 <= lo /\ lo <= n + 1
  <2> DEFINE b == n - WarmUp + 1
  <2>1. b \in Int /\ b <= n + 1
    BY <1>2, DerivedAssumption
  <2> HIDE DEF b
  <2>2. Max({1, b}) = IF 1 >= b THEN 1 ELSE b
    BY <2>1, TwoNumbers
  <2>3. Max({1, b}) \in Nat /\ 1 <= Max({1, b}) /\ Max({1, b}) <= n + 1
    BY <1>2, <2>1, <2>2
  <2> QED
    BY <2>3 DEF b
<1> HIDE DEF lo
<1>5. /\ before \in Seq(Int) /\ Len(before) = n - lo + 1
      /\ \A i \in 1 .. n - lo + 1 : before[i] = older[lo + i - 1]
  <2>1. before = [i \in 1 .. n - lo + 1 |-> older[lo + i - 1]]
    BY <1>2, <1>4
  <2>2. \A i \in 1 .. n - lo + 1 : older[lo + i - 1] \in Int
    BY <1>2, <1>4
  <2>3. n - lo + 1 \in Nat
    BY <1>2, <1>4
  <2> HIDE DEF before
  <2> QED
    BY <2>1, <2>2, <2>3
<1> HIDE DEF before, n
<1>6. \A i \in 1 .. n - lo + 1 : n - (n - lo + 1) + i = lo + i - 1 /\ lo + i - 1 \in 1 .. n
  BY <1>2, <1>4
<1>7. /\ Len(before) \in Nat /\ Len(before) <= n /\ DOMAIN before = 1 .. Len(before)
      /\ \A i \in 1 .. Len(before) : n - Len(before) + i \in 1 .. n
                                     /\ before[i] = older[n - Len(before) + i]
  BY <1>2, <1>4, <1>5, <1>6
<1> QED
  BY <1>3, <1>5, <1>7 DEF older, n

\* While ids ascend with time, calculate_missing reads the end of what came before
\* its new candles, and these.
LEMMA MissingWorkStretches ==
    ASSUME StoreType, IdsAscend
    PROVE  MissingWork \in Seq(Seq(Int)) /\ Stretches(InDds, Range(MissingWork))
<1> DEFINE newIds == {i \in Ids : i > LastDerived}
           new == ByTime(newIds)
           before == IF new = <<>> THEN <<>> ELSE WarmUpBefore(IdOf(new[1]))
           c == before \o new
<1>1. LastDerived \in Int /\ newIds \in SUBSET Ids /\ Ids \subseteq Nat
  BY LastDerivedType, InDdsTypes
<1>2. /\ new \in Seq(Int) /\ Len(new) \in Nat /\ DOMAIN new = 1 .. Len(new) /\ Ascends(new)
      /\ \A k \in DOMAIN new : /\ new[k] \in Int /\ new[k] \in InDds
                               /\ \E i \in newIds : dds[i].hour = new[k]
      /\ \A i \in newIds : \E k \in DOMAIN new : new[k] = dds[i].hour
  BY <1>1, ByTimeOrders
<1>3. MissingWork = Histories(c, Len(before) + 1)
  BY DEF MissingWork
<1>n. \A i \in newIds : i \in Ids /\ i > LastDerived
  OBVIOUS
<1>o. \A i \in Ids : i > LastDerived => i \in newIds
  OBVIOUS
<1> HIDE DEF new, newIds
<1>4. CASE new = <<>>
  <2>1. before = <<>> /\ c = <<>> /\ Len(before) + 1 \in Nat \ {0}
    BY <1>4
  <2>2. c \in Seq(Int)
    BY <2>1
  <2> HIDE DEF c, before
  <2> QED
    BY <1>3, <2>1, <2>2, HistoriesStretch
<1>5. CASE new # <<>>
  <2> DEFINE id == IdOf(new[1])
             older == ByTime(1 .. id - 1)
             b == Len(before)
  <2>1. 1 \in DOMAIN new /\ Len(new) >= 1
    BY <1>2, <1>5
  <2>2. id \in Ids /\ dds[id].hour = new[1]
    BY <1>1, <1>2, <2>1 DEF IdOf
  <2>3. id > LastDerived
    <3>1. PICK i \in newIds : dds[i].hour = new[1]
      BY <1>2, <2>1
    <3> HIDE DEF id
    <3>2. i \in Ids /\ i > LastDerived /\ i \in Int /\ id \in Int /\ new[1] \in Int
      <4>1. i \in Ids /\ i > LastDerived
        BY <1>n
      <4>2. i \in Int /\ id \in Int
        BY <1>1, <2>2, <4>1
      <4>3. new[1] \in Int
        BY <1>2, <2>1
      <4> QED
        BY <4>1, <4>2, <4>3
    <3>3. i = id
      BY <2>2, <3>1, <3>2 DEF IdsAscend
    <3> QED
      BY <3>2, <3>3
  <2>4. before = WarmUpBefore(id)
    BY <1>5
  <2> HIDE DEF id
  <2>5. /\ before \in Seq(Int) /\ b \in Nat /\ b <= Len(older)
        /\ DOMAIN before = 1 .. b
        /\ \A i \in 1 .. b : /\ Len(older) - b + i \in 1 .. Len(older)
                             /\ before[i] = older[Len(older) - b + i]
    BY <2>2, <2>4, WarmUpEnds
  <2> HIDE DEF before
  <2>6. 1 .. id - 1 \in SUBSET Ids
    <3>1. Ids = 1 .. Len(dds) /\ Len(dds) \in Nat
      BY DEF StoreType, Ids
    <3> QED
      BY <2>2, <3>1
  <2>7. /\ older \in Seq(Int) /\ Len(older) \in Nat /\ DOMAIN older = 1 .. Len(older)
        /\ Ascends(older)
        /\ \A k \in DOMAIN older : /\ older[k] \in Int /\ older[k] \in InDds
                                   /\ \E i \in 1 .. id - 1 : dds[i].hour = older[k]
        /\ \A i \in 1 .. id - 1 : \E k \in DOMAIN older : older[k] = dds[i].hour
    BY <2>6, ByTimeOrders
  <2> HIDE DEF older
  <2>8. /\ c \in Seq(Int) /\ DOMAIN c = 1 .. b + Len(new)
        /\ \A i \in 1 .. b : c[i] = before[i]
        /\ \A i \in 1 .. Len(new) : i + b \in DOMAIN c /\ c[i + b] = new[i]
        /\ \A i \in DOMAIN c : i \in 1 .. b
                               \/ (i - b \in 1 .. Len(new) /\ c[i] = new[i - b])
    BY <1>2, <2>5, Joined
  <2> HIDE DEF c, b
  <2>b. /\ b \in Nat /\ b <= Len(older) /\ Len(older) \in Nat
        /\ \A i \in 1 .. b : /\ Len(older) - b + i \in DOMAIN older
                             /\ before[i] = older[Len(older) - b + i]
    BY <2>5, <2>7 DEF b
  <2>9. \A i \in 1 .. b : /\ c[i] \in Int /\ c[i] \in InDds
                          /\ \E a \in 1 .. id - 1 : dds[a].hour = c[i]
    <3> SUFFICES ASSUME NEW i \in 1 .. b
                 PROVE  /\ c[i] \in Int /\ c[i] \in InDds
                        /\ \E a \in 1 .. id - 1 : dds[a].hour = c[i]
      OBVIOUS
    <3> DEFINE m == Len(older) - b + i
    <3>1. m \in DOMAIN older /\ c[i] = older[m]
      BY <2>b, <2>8
    <3> HIDE DEF m
    <3> QED
      BY <2>7, <3>1
  <2>10. \A i \in 1 .. b : \A k \in 1 .. Len(new) : c[i] < new[k]
    <3> SUFFICES ASSUME NEW i \in 1 .. b, NEW k \in 1 .. Len(new) PROVE c[i] < new[k]
      OBVIOUS
    <3>1. PICK a \in 1 .. id - 1 : dds[a].hour = c[i]
      BY <2>9
    <3>2. a \in Ids /\ a < id
      BY <1>1, <2>2, <2>6
    <3>3. c[i] < new[1]
      BY <2>2, <3>1, <3>2 DEF IdsAscend
    <3>4. new[1] <= new[k]
      <4>1. k = 1 \/ 1 < k
        OBVIOUS
      <4>2. 1 < k => new[1] < new[k]
        BY <1>2, <2>1 DEF Ascends
      <4>3. new[1] \in Int /\ new[k] \in Int
        BY <1>2, <2>1
      <4> QED
        BY <4>1, <4>2, <4>3
    <3>5. c[i] \in Int /\ new[1] \in Int /\ new[k] \in Int
      BY <1>2, <2>1, <2>9
    <3> QED
      BY <3>3, <3>4, <3>5
  <2>11. Ascends(c)
    <3> SUFFICES ASSUME NEW i \in DOMAIN c, NEW j \in DOMAIN c, i < j PROVE c[i] < c[j]
      BY DEF Ascends
    <3>0. b \in Int /\ i \in Int /\ j \in Int
      BY <2>5, <2>8 DEF b
    <3>1. CASE i \in 1 .. b /\ j \in 1 .. b
      <4> DEFINE m == Len(older) - b + i
                 n == Len(older) - b + j
      <4>1. m < n
        BY <2>7, <3>0
      <4>2. m \in DOMAIN older /\ n \in DOMAIN older /\ c[i] = older[m] /\ c[j] = older[n]
        BY <2>b, <2>8, <3>1
      <4> HIDE DEF m, n
      <4> QED
        BY <2>7, <4>1, <4>2 DEF Ascends
    <3>2. CASE i \in 1 .. b /\ j \notin 1 .. b
      BY <2>8, <2>10, <3>2
    <3>3. CASE i \notin 1 .. b
      <4>1. i - b \in 1 .. Len(new) /\ c[i] = new[i - b]
        BY <2>8, <3>3
      <4>2. j \notin 1 .. b
        BY <3>0, <3>3, <4>1
      <4>3. j - b \in 1 .. Len(new) /\ c[j] = new[j - b]
        BY <2>8, <4>2
      <4>4. i - b < j - b
        BY <3>0
      <4> QED
        BY <1>2, <4>1, <4>3, <4>4 DEF Ascends
    <3> QED
      BY <3>1, <3>2, <3>3
  <2>12. \A i \in DOMAIN c : c[i] \in InDds
    BY <1>2, <2>8, <2>9
  <2>13. ASSUME NEW g \in InDds, c[1] <= g PROVE \E i \in DOMAIN c : c[i] = g
    <3>1. PICK k \in Ids : dds[k].hour = g
      BY DEF InDds, Ids
    <3>2. CASE k > LastDerived
      BY <1>2, <1>o, <2>8, <3>1, <3>2
    <3>3. CASE ~(k > LastDerived)
      <4>1. k \in 1 .. id - 1
        <5>1. Ids = 1 .. Len(dds) /\ Len(dds) \in Nat
          BY DEF StoreType, Ids
        <5>2. k \in Nat /\ 1 <= k /\ id \in Nat
          BY <2>2, <5>1
        <5> QED
          BY <1>1, <2>3, <3>3, <5>2
      <4>2. PICK m \in 1 .. Len(older) : older[m] = g
        BY <2>7, <3>1, <4>1
      <4>3. b # 0
        <5> SUFFICES ASSUME b = 0 PROVE FALSE
          OBVIOUS
        <5>1. c[1] = new[1]
          <6>1. 1 \in 1 .. Len(new) /\ 1 + b = 1
            BY <1>2, <2>1
          <6> QED
            BY <2>8, <6>1
        <5>2. k < id
          BY <1>1, <2>2, <4>1
        <5>3. g < new[1]
          BY <2>2, <3>1, <5>2 DEF IdsAscend
        <5>4. g \in Int /\ new[1] \in Int
          BY <1>2, <2>1, <2>7, <4>2
        <5> QED
          BY <2>13, <5>1, <5>3, <5>4
      <4>4. b \in Nat /\ 1 \in 1 .. b /\ c[1] = older[Len(older) - b + 1]
            /\ Len(older) - b + 1 \in 1 .. Len(older)
        <5>1. b \in Nat /\ 1 \in 1 .. b
          BY <2>5, <4>3 DEF b
        <5> QED
          BY <2>5, <2>8, <5>1 DEF b
      <4>5. ~(m < Len(older) - b + 1)
        <5>1. m < Len(older) - b + 1 => older[m] < older[Len(older) - b + 1]
          BY <2>7, <4>4 DEF Ascends
        <5>2. g \in Int /\ c[1] \in Int
          BY <2>7, <2>9, <4>2, <4>4
        <5> QED
          BY <2>13, <4>2, <4>4, <5>1, <5>2
      <4>6. /\ m - (Len(older) - b) \in 1 .. b
            /\ Len(older) - b + (m - (Len(older) - b)) = m
        BY <2>7, <4>4, <4>5
      <4>7. before[m - (Len(older) - b)] = g
        BY <2>5, <4>2, <4>6 DEF b
      <4> QED
        <5> DEFINE k2 == m - (Len(older) - b)
        <5>1. k2 \in 1 .. b /\ before[k2] = g
          BY <4>6, <4>7
        <5> HIDE DEF k2
        <5>2. k2 \in DOMAIN c
          BY <1>2, <2>b, <2>8, <5>1
        <5> QED
          BY <2>8, <5>1, <5>2
    <3> QED
      BY <3>2, <3>3
  <2>14. c # <<>>
    <3>1. 1 + b \in DOMAIN c
      BY <2>1, <2>8, <1>2
    <3> QED
      BY <3>1
  <2>15. Stretch(InDds, c)
    BY <2>8, <2>11, <2>12, <2>13, <2>14 DEF Stretch
  <2>16. b + 1 \in Nat \ {0}
    BY <2>5 DEF b
  <2>17. MissingWork = Histories(c, b + 1)
    BY <1>3 DEF c, b, before
  <2> QED
    BY <2>8, <2>15, <2>16, <2>17, HistoriesStretch
<1> QED
  BY <1>4, <1>5

\* calculate_and_store_missing_indicators reads candles of a window.
LEMMA WindowWorkStretches ==
    ASSUME StoreType, NEW start, NEW end
    PROVE  Stretches(InDds, WindowWork(start, end))
BY AllWorkStretches DEF WindowWork, Stretches

-----------------------------------------------------------------------------
(***************************************************************************)
(* While ids ascend with time, every stored value has a stretch that ends  *)
(* with its candle, and so has what is about to be written.                *)
(***************************************************************************)
LooksBack(hours, h, p, bars) == Stretch(hours, p) /\ Candle(p) = h /\ Len(p) >= bars

DerivedBack ==
    \A h \in DOMAIN derived :
        /\ LooksBack(InDds, h, derived[h].short, ShortBars)
        /\ derived[h].long # <<>> => LooksBack(InDds, h, derived[h].long, LongBars)

WorkBack ==
    /\ todo \in Seq(Seq(Int)) /\ Stretches(InDds, Range(todo))
    /\ update.pc = "write" => Stretches(InDds, update.work)

LookInv == DataInv /\ (IdsAscend => DerivedBack /\ WorkBack)

\* What is written looks back, and so does what is left alone.
LEMMA WrittenLooksBack ==
    ASSUME DerivedBack, NEW work, Stretches(InDds, work), derived' = Written(work),
           UNCHANGED dds
    PROVE  DerivedBack'
<1> DEFINE of(g) == CHOOSE p \in work : Candle(p) = g
           hours == {Candle(p) : p \in Computable(work)}
           old(g) == IF g \in DOMAIN derived THEN derived[g] ELSE [short |-> <<>>, long |-> <<>>]
<1>1. derived' = [g \in DOMAIN derived \cup hours |->
            IF g \notin hours THEN derived[g]
            ELSE [short |-> of(g), long |-> IF Len(of(g)) >= LongBars THEN of(g) ELSE old(g).long]]
  BY DEF Written
<1>2. ASSUME NEW h \in hours PROVE LooksBack(InDds, h, of(h), ShortBars)
  <2>1. PICK p \in work : Candle(p) = h /\ Len(p) >= ShortBars
    BY DEF Computable
  <2>2. of(h) \in work /\ Candle(of(h)) = h
    BY <2>1
  <2> HIDE DEF of
  <2>3. of(h) = p
    BY <2>1, <2>2 DEF Stretches
  <2> QED
    BY <2>1, <2>2, <2>3 DEF LooksBack, Stretches
<1>3. \A h : old(h).long # <<>> => h \in DOMAIN derived /\ old(h) = derived[h]
  OBVIOUS
<1> HIDE DEF hours, of, old
<1>4. InDds' = InDds
  BY DEF InDds
<1>5. ASSUME NEW h \in DOMAIN derived'
      PROVE  /\ LooksBack(InDds, h, derived'[h].short, ShortBars)
             /\ derived'[h].long # <<>> => LooksBack(InDds, h, derived'[h].long, LongBars)
  <2>1. CASE h \notin hours
    <3>1. h \in DOMAIN derived /\ derived'[h] = derived[h]
      BY <1>1, <2>1
    <3> QED
      BY <3>1 DEF DerivedBack
  <2>2. CASE h \in hours
    <3>1. /\ derived'[h].short = of(h)
          /\ derived'[h].long = IF Len(of(h)) >= LongBars THEN of(h) ELSE old(h).long
      BY <1>1, <2>2
    <3>2. Len(of(h)) >= LongBars => LooksBack(InDds, h, of(h), LongBars)
      BY <1>2, <2>2 DEF LooksBack
    <3>3. old(h).long # <<>> => LooksBack(InDds, h, old(h).long, LongBars)
      BY <1>3 DEF DerivedBack
    <3> QED
      BY <1>2, <2>2, <3>1, <3>2, <3>3
  <2> QED
    BY <2>1, <2>2
<1> QED
  BY <1>4, <1>5 DEF DerivedBack

\* Candles that are added after the others leave a stretch a stretch.
LEMMA StretchGrows ==
    ASSUME StoreType, StoreType', IdsAscend', Ids \subseteq Ids', \A i \in Ids : dds'[i] = dds[i],
           NEW p, Stretch(InDds, p)
    PROVE  Stretch(InDds', p)
<1>1. /\ Ids = 1 .. Len(dds) /\ Len(dds) \in Nat
      /\ Ids' = 1 .. Len(dds') /\ Len(dds') \in Nat
  BY DEF StoreType, Ids
<1>2. InDds \subseteq InDds'
  BY DEF InDds, Ids
<1>3. p \in Seq(Int) /\ p # <<>> /\ Len(p) \in DOMAIN p /\ Candle(p) = p[Len(p)]
  BY DEF Stretch, Candle
<1>4. PICK i \in Ids : dds[i].hour = Candle(p)
  BY <1>3 DEF Stretch, InDds, Ids
<1>5. ASSUME NEW g \in InDds', p[1] <= g, g <= Candle(p)
      PROVE  g \in InDds
  <2>1. PICK k \in Ids' : dds'[k].hour = g
    BY DEF InDds, Ids
  <2>2. CASE k \in Ids
    BY <2>1, <2>2 DEF InDds, Ids
  <2>3. CASE k \notin Ids
    <3>1. i < k /\ i \in Ids'
      BY <1>1, <2>3
    <3>2. Candle(p) < g
      BY <1>4, <2>1, <3>1 DEF IdsAscend
    <3>3. g \in Int /\ Candle(p) \in Int
      <4>1. \A h \in InDds' : h \in Int
        <5>1. \A j \in Ids' : dds'[j] \in Rows
          BY <1>1 DEF StoreType
        <5>2. \A j \in Ids' : dds'[j].hour \in Hours
          BY <5>1 DEF Rows
        <5>3. InDds' \subseteq Hours
          BY <5>2 DEF InDds, Ids
        <5>4. Hours \subseteq Int
          BY HoursFinite
        <5> QED
          BY <5>3, <5>4, Zenon
      <4> QED
        BY <1>3, <4>1
    <3> QED
      BY <1>5, <3>2, <3>3
  <2> QED
    BY <2>2, <2>3
<1> QED
  BY <1>2, <1>5 DEF Stretch

\* Every step leaves DDS alone or adds to its end.
LEMMA DdsGrows ==
    ASSUME StoreType, TablesStep
    PROVE  Ids \subseteq Ids' /\ \A i \in Ids : dds'[i] = dds[i]
<1>1. CASE UNCHANGED dds
  BY <1>1 DEF Ids
<1>2. ASSUME NEW asOf \in Int, LoadRawCandles(asOf), DOMAIN raw # {}
      PROVE  Ids \subseteq Ids' /\ \A i \in Ids : dds'[i] = dds[i]
  <2> DEFINE S == Accepted(ClosedBy(Candidates(asOf), asOf))
             rows == DdsRows(S)
  <2>1. dds' = dds \o rows
    BY <1>2 DEF LoadRawCandles
  <2>2. S \in SUBSET DOMAIN raw
    BY DEF Accepted, ClosedBy, Candidates
  <2> HIDE DEF S
  <2>3. rows \in Seq(Rows) /\ dds \in Seq(Rows)
    BY <2>2, DdsRowsTypes DEF StoreType
  <2> HIDE DEF rows
  <2>4. /\ DOMAIN dds = 1 .. Len(dds) /\ DOMAIN dds' = 1 .. Len(dds) + Len(rows)
        /\ Len(dds) \in Nat /\ Len(rows) \in Nat
        /\ \A i \in DOMAIN dds : dds'[i] = dds[i]
    BY <2>1, <2>3, Joined
  <2> QED
    BY <2>4 DEF Ids
<1>3. ASSUME NEW l \in Loaders, Store(l) PROVE UNCHANGED dds
  BY <1>3 DEF Store
<1>4. ASSUME NEW asOf \in Int, LoadRawCandles(asOf), DOMAIN raw = {} PROVE UNCHANGED dds
  BY <1>4 DEF LoadRawCandles
<1> QED
  BY <1>1, <1>2, <1>3, <1>4 DEF TablesStep

\* What a batch leaves, and what it writes, is of the work that was read.
LEMMA BatchStretches ==
    ASSUME NEW hours, NEW work \in Seq(Seq(Int)), Stretches(hours, Range(work)), work # <<>>
    PROVE  /\ Stretches(hours, Range(SubSeq(work, 1, Min({BatchSize, Len(work)}))))
           /\ SubSeq(work, BatchSize + 1, Len(work)) \in Seq(Seq(Int))
           /\ Stretches(hours, Range(SubSeq(work, BatchSize + 1, Len(work))))
<1> DEFINE T == Seq(Int)
           n == Len(work)
           k == Min({BatchSize, n})
<1>1. work \in Seq(T) /\ n \in Nat /\ DOMAIN work = 1 .. n /\ BatchSize \in Nat \ {0}
  BY DerivedAssumption
<1> HIDE DEF T, n, k
<1>2. k \in 0 .. n
  <2>1. k = IF BatchSize <= n THEN BatchSize ELSE n
    <3>1. BatchSize \in Int /\ n \in Int
      BY <1>1
    <3>2. Min({BatchSize, n}) = IF BatchSize <= n THEN BatchSize ELSE n
      BY <3>1, TwoNumbers
    <3> QED
      BY <3>2 DEF k
  <2> QED
    BY <1>1, <2>1
<1>3. ASSUME NEW a \in Nat \ {0}, NEW b \in 0 .. n
      PROVE  SubSeq(work, a, b) \in Seq(T) /\ Range(SubSeq(work, a, b)) \subseteq Range(work)
  <2> DEFINE s == SubSeq(work, a, b)
  <2>1. s \in Seq(T) /\ \A i \in DOMAIN s : a + i - 1 \in 1 .. n /\ s[i] = work[a + i - 1]
    <3>1. CASE a <= b
      <4>1. s = [i \in 1 .. b - a + 1 |-> work[a + i - 1]] /\ b - a + 1 \in Nat
        BY <1>1, <1>3, <3>1
      <4>2. \A i \in 1 .. b - a + 1 : a + i - 1 \in 1 .. n
        BY <1>1, <1>3, <3>1
      <4>3. \A i \in 1 .. b - a + 1 : work[a + i - 1] \in T
        BY <1>1, <4>2
      <4> HIDE DEF s
      <4> QED
        BY <4>1, <4>2, <4>3
    <3>2. CASE ~(a <= b)
      <4>1. s = <<>>
        <5>1. b - a + 1 <= 0
          BY <1>1, <1>3, <3>2
        <5> QED
          BY <1>1, <1>3, <3>2, <5>1
      <4> HIDE DEF s
      <4>2. DOMAIN s = {} /\ s \in Seq(T)
        BY <4>1
      <4> QED
        BY <4>2
    <3> QED
      BY <3>1, <3>2
  <2> HIDE DEF s
  <2>2. \A i \in DOMAIN s : s[i] \in Range(work)
    BY <1>1, <2>1 DEF Range
  <2>3. Range(s) \subseteq Range(work)
    BY <2>2 DEF Range
  <2> QED
    BY <2>1, <2>3 DEF s
<1>4. /\ Range(SubSeq(work, 1, k)) \subseteq Range(work)
      /\ SubSeq(work, BatchSize + 1, n) \in Seq(T)
      /\ Range(SubSeq(work, BatchSize + 1, n)) \subseteq Range(work)
  <2>1. 1 \in Nat \ {0} /\ BatchSize + 1 \in Nat \ {0} /\ n \in 0 .. n
    BY <1>1
  <2> QED
    BY <1>2, <1>3, <2>1
<1> QED
  BY <1>4 DEF Stretches, T, n, k

LEMMA LookInit == Init => LookInv
<1> SUFFICES ASSUME Init PROVE LookInv
  OBVIOUS
<1>1. DataInv
  BY DataInit
<1>2. DOMAIN derived = {} /\ todo \in Seq(Seq(Int)) /\ Range(todo) = {} /\ update.pc # "write"
  BY DEF Init, DerivedInit, IdleUpdate, Range
<1> QED
  BY <1>1, <1>2 DEF LookInv, DerivedBack, WorkBack, Stretches

LEMMA LookNext == LookInv /\ [Next]_vars => LookInv'
<1> SUFFICES ASSUME LookInv, [Next]_vars, IdsAscend' PROVE DerivedBack' /\ WorkBack'
  BY DataNext DEF LookInv
<1>1. StoreType /\ UpdateType /\ StoreType' /\ TablesStep
  BY StepTypes DEF LookInv, DataInv
<1>2. Ids \subseteq Ids' /\ \A i \in Ids : dds'[i] = dds[i]
  BY <1>1, DdsGrows
<1>3. IdsAscend /\ DerivedBack /\ WorkBack
  <2>1. IdsAscend
    BY <1>2 DEF IdsAscend
  <2> QED
    BY <2>1 DEF LookInv
<1>4. \A p : Stretch(InDds, p) => Stretch(InDds', p)
  BY <1>1, <1>2, StretchGrows
<1>5. /\ \A work : Stretches(InDds, work) => Stretches(InDds', work)
      /\ \A h, p, n : LooksBack(InDds, h, p, n) => LooksBack(InDds', h, p, n)
  BY <1>4 DEF Stretches, LooksBack
<1>6. ASSUME UNCHANGED derived PROVE DerivedBack'
  BY <1>3, <1>5, <1>6 DEF DerivedBack
<1>7. ASSUME UNCHANGED todo, update'.pc = "write" => update' = update PROVE WorkBack'
  BY <1>3, <1>5, <1>7 DEF WorkBack
<1>8. ASSUME todo' \in Seq(Seq(Int)), Stretches(InDds', Range(todo')), UNCHANGED update
      PROVE  WorkBack'
  BY <1>3, <1>5, <1>8 DEF WorkBack
<1>9. ASSUME UNCHANGED <<derived, todo>>, update'.pc = "write" => update' = update
      PROVE  DerivedBack' /\ WorkBack'
  BY <1>6, <1>7, <1>9
<1>10. CASE Clock /\ UNCHANGED <<derived, todo, update>>
  BY <1>9, <1>10
<1>11. ASSUME NEW from \in Hours, NEW end \in 1 .. LastHour + 1, LoadHistory(from, end)
       PROVE  DerivedBack' /\ WorkBack'
  BY <1>9, <1>11 DEF LoadHistory
<1>12. CASE HistoryCollects \/ HoldoutCollects \/ LoadDds
  BY <1>9, <1>12 DEF HistoryCollects, HoldoutCollects, LoadDds
<1>13. CASE CalculateAll \/ CalculateMissing
  <2>1. UNCHANGED <<dds, derived, update>> /\ todo' \in {AllWork, MissingWork}
    BY <1>13 DEF CalculateAll, CalculateMissing, StartCalculation, storeVars
  <2>2. todo' \in Seq(Seq(Int)) /\ Stretches(InDds, Range(todo'))
    BY <1>1, <1>3, <2>1, AllWorkStretches, MissingWorkStretches
  <2> QED
    BY <1>5, <1>6, <1>8, <2>1, <2>2
<1>14. CASE Calculate
  <2>1. CASE CalculateBatch /\ UNCHANGED update
    <3>1. /\ todo # <<>> /\ UNCHANGED dds
          /\ derived' = Written(Range(SubSeq(todo, 1, Min({BatchSize, Len(todo)}))))
          /\ todo' = SubSeq(todo, BatchSize + 1, Len(todo))
      BY <2>1 DEF CalculateBatch, storeVars
    <3>2. /\ Stretches(InDds, Range(SubSeq(todo, 1, Min({BatchSize, Len(todo)}))))
          /\ todo' \in Seq(Seq(Int)) /\ Stretches(InDds, Range(todo'))
      BY <1>3, <3>1, BatchStretches DEF WorkBack
    <3>3. DerivedBack'
      BY <1>3, <3>1, <3>2, WrittenLooksBack
    <3> QED
      BY <1>5, <1>8, <2>1, <3>2, <3>3
  <2>2. CASE CalculationFails /\ UNCHANGED update
    <3>1. todo' = <<>> /\ UNCHANGED derived
      BY <2>2 DEF CalculationFails
    <3>2. todo' \in Seq(Seq(Int)) /\ Range(todo') = {}
      BY <3>1 DEF Range
    <3> QED
      BY <1>6, <1>8, <2>2, <3>1, <3>2 DEF Stretches
  <2> QED
    BY <1>14, <2>1, <2>2 DEF Calculate
<1>15. CASE StartUpdate \/ UpdateDds \/ UpdateGate \/ UpdateFails
  <2>1. UNCHANGED <<derived, todo>>
    BY <1>15 DEF StartUpdate, UpdateDds, UpdateGate, UpdateFails
  <2>2. update'.pc # "write"
    <3>1. update' \in {IdleUpdate, [IdleUpdate EXCEPT !.pc = "collect", !.asOf = now],
                       [update EXCEPT !.pc = "derive"]}
      BY <1>15 DEF StartUpdate, UpdateDds, UpdateGate, UpdateFails
    <3>2. IdleUpdate.pc = "idle"
          /\ [IdleUpdate EXCEPT !.pc = "collect", !.asOf = now].pc = "collect"
      BY DEF IdleUpdate
    <3>3. [update EXCEPT !.pc = "derive"].pc = "derive"
      BY <1>1 DEF UpdateType
    <3> QED
      BY <3>1, <3>2, <3>3
  <2> QED
    BY <1>9, <2>1, <2>2
<1>16. CASE UpdateReads
  <2> DEFINE w == WindowWork(PeriodStart, CompletedEnd(update.asOf))
  <2>1. update' = [update EXCEPT !.pc = "write", !.work = w] /\ UNCHANGED <<dds, derived, todo>>
    BY <1>16 DEF UpdateReads, storeVars
  <2>2. Stretches(InDds, w)
    BY <1>1, WindowWorkStretches
  <2> HIDE DEF w
  <2>3. update'.work = w
    BY <1>1, <2>1 DEF UpdateType
  <2>4. WorkBack'
    BY <1>3, <1>5, <2>1, <2>2, <2>3 DEF WorkBack
  <2> QED
    BY <1>6, <2>1, <2>4
<1>17. CASE UpdateWrites
  <2>1. /\ update.pc = "write" /\ derived' = Written(update.work) /\ UNCHANGED <<dds, todo>>
        /\ update' = [update EXCEPT !.pc = "gate", !.work = {}]
    BY <1>17 DEF UpdateWrites, storeVars
  <2>2. update'.pc # "write"
    BY <1>1, <2>1 DEF UpdateType
  <2>3. DerivedBack'
    BY <1>3, <2>1, WrittenLooksBack DEF WorkBack
  <2> QED
    BY <1>7, <2>1, <2>2, <2>3
<1>18. CASE UNCHANGED vars
  BY <1>9, <1>18 DEF vars
<1> QED
  BY <1>10, <1>11, <1>12, <1>13, <1>14, <1>15, <1>16, <1>17, <1>18 DEF Next, UpdateStep

\* While nothing is backfilled, every indicator and regime IndicatorCollector,
\* BatchIndicatorCollector and the holdout update store was computed from the
\* candles just before its own, without a hole and without one from the future,
\* and from as many as its period needs, whatever ran or was cut off in between.
THEOREM DerivedAlwaysLooksBack == Spec => []DerivedLooksBack
<1>1. LookInv => DerivedLooksBack
  <2> SUFFICES ASSUME LookInv, IdsAscend, NEW h \in DOMAIN derived
               PROVE  LET past == ByTime({i \in Ids : dds[i].hour <= h}) IN
                      /\ IsSuffix(derived[h].short, past) /\ Len(derived[h].short) >= ShortBars
                      /\ derived[h].long # <<>> =>
                          IsSuffix(derived[h].long, past) /\ Len(derived[h].long) >= LongBars
    BY DEF DerivedLooksBack
  <2>1. StoreType /\ DerivedBack
    BY DEF LookInv, DataInv
  <2>2. \A p : Stretch(InDds, p) =>
                  IsSuffix(p, ByTime({i \in Ids : dds[i].hour <= Candle(p)}))
    BY <2>1, StretchIsSuffix
  <2> QED
    BY <2>1, <2>2 DEF DerivedBack, LooksBack
<1> QED
  BY <1>1, LookInit, LookNext, PTL DEF Spec
=============================================================================
