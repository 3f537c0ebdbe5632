-------------------------- MODULE ConfigPath_proofs --------------------------
(***************************************************************************)
(* What is proved of ConfigPath and of the RAM disk it uses, for every     *)
(* number of pages, sectors to a page, users, requests and segments.       *)
(*                                                                         *)
(* First the arithmetic of sectors and pages and of a request's segments,  *)
(* whose number of sectors is a fold; then what each step makes of a       *)
(* request, what a batch of the flush is, and the invariant: a request     *)
(* stays inside the disk, the pages it has made sure of stay, a flush is   *)
(* alone, and a page belongs to a device.  From it follow the type         *)
(* invariant, NoBugOn and NothingLeaks, and that the disk is an array of   *)
(* sectors (module SectorStore).  A second invariant follows the records   *)
(* of a configuration from the application through the cache and the pages *)
(* to the buffer of the transfer: ConfigArrives.                           *)
(***************************************************************************)
EXTENDS ConfigPath, TLAPS, FiniteSetTheorems, SequenceTheorems, WellFoundedInduction

(* Division. *)

\* Division leaves a rest below the divisor.
LEMMA Division ==
    ASSUME NEW b \in Nat \ {0}, NEW a \in Nat
    PROVE  a \div b \in Nat /\ a % b \in 0 .. b - 1 /\ a = b * (a \div b) + (a % b)
  OBVIOUS

\* The multiples of b are b apart.
LEMMA ProductGrows ==
    ASSUME NEW b \in Nat \ {0}, NEW p \in Nat, NEW q \in Nat, p < q
    PROVE  b * p + b <= b * q
<1>1. PICK k \in Nat : q = p + 1 + k
  <2>1. q - p - 1 \in Nat
    OBVIOUS
  <2>. QED BY <2>1
<1>2. b * q = b * p + b + b * k
  BY <1>1
<1>3. b * k >= 0
  OBVIOUS
<1>4. b * p \in Nat /\ b * q \in Nat /\ b * k \in Nat
  OBVIOUS
<1>. QED
  BY <1>2, <1>3, <1>4

\* A multiple and a rest determine quotient and rest.
LEMMA DivisionIsUnique ==
    ASSUME NEW b \in Nat \ {0}, NEW q \in Nat, NEW r \in 0 .. b - 1
    PROVE  (b * q + r) \div b = q /\ (b * q + r) % b = r
<1>. DEFINE a == b * q + r
            d == a \div b
            m == a % b
<1>1. a \in Nat /\ b * q \in Nat
  OBVIOUS
<1>2. d \in Nat /\ m \in 0 .. b - 1 /\ a = b * d + m
  <2>. HIDE DEF a
  <2>. QED  BY <1>1, Division
<1>3. b * d \in Nat
  <2>. HIDE DEF d
  <2>. QED BY <1>2
<1>4. ~(d < q)
  <2>. SUFFICES ASSUME d < q PROVE FALSE
    OBVIOUS
  <2>1. b * d + b <= b * q
    <3>. HIDE DEF d
    <3>. QED BY <1>2, ProductGrows
  <2>. HIDE DEF d, m
  <2>. QED BY <1>1, <1>2, <1>3, <2>1
<1>5. ~(q < d)
  <2>. SUFFICES ASSUME q < d PROVE FALSE
    OBVIOUS
  <2>1. b * q + b <= b * d
    <3>. HIDE DEF d
    <3>. QED BY <1>2, ProductGrows
  <2>. HIDE DEF d, m
  <2>. QED BY <1>1, <1>2, <1>3, <2>1
<1>6. d = q
  <2>. HIDE DEF d
  <2>. QED  BY <1>2, <1>4, <1>5
<1>7. m = r
  <2>. HIDE DEF d, m
  <2>. QED  BY <1>1, <1>2, <1>6
<1>. QED BY <1>6, <1>7

-----------------------------------------------------------------------------
(* The sectors of a request: FoldSet over the segments.                    *)

\* The sectors of the segments in s, as pairs of a segment and a place in it.
Places(segs, s) == {p \in s \X Nat : 1 <= p[2] /\ p[2] <= segs[p[1]]}

\* A fold over a set by its recursive equation.
IsFold(segs, g) ==
    g = [s \in SUBSET DOMAIN segs |->
            IF s = {} THEN 0
            ELSE LET x == CHOOSE x \in s : TRUE IN segs[x] + g[s \ {x}]]

\* FoldSet as its module defines it.
LEMMA SectorsFold ==
    ASSUME NEW segs
    PROVE  Sectors(segs) = (CHOOSE g : IsFold(segs, g))[DOMAIN segs]
  BY DEF Sectors, FoldSet, MapThenFoldSet, IsFold

\* The pairs of a segment come on top of those of the others.
LEMMA PlacesFinite ==
    ASSUME NEW segs, IsFiniteSet(DOMAIN segs), segs \in [DOMAIN segs -> Nat],
           NEW s \in SUBSET DOMAIN segs
    PROVE  /\ IsFiniteSet(Places(segs, s))
           /\ Places(segs, {}) = {}
           /\ \A x \in s :
                Cardinality(Places(segs, s)) = segs[x] + Cardinality(Places(segs, s \ {x}))
<1>. DEFINE D == DOMAIN segs
            Column(x) == {x} \X (1 .. segs[x])
            Bad == {t \in SUBSET D : ~IsFiniteSet(Places(segs, t))}
<1>1. Places(segs, {}) = {}
  BY DEF Places
<1>2. ASSUME NEW t \in SUBSET D, NEW x \in t
      PROVE  /\ Places(segs, t) = Places(segs, t \ {x}) \cup Column(x)
             /\ Places(segs, t \ {x}) \cap Column(x) = {}
             /\ IsFiniteSet(Column(x)) /\ Cardinality(Column(x)) = segs[x]
  <2>1. segs[x] \in Nat
    OBVIOUS
  <2>2. \A p : p \in Places(segs, t) <=> p \in Places(segs, t \ {x}) \/ p \in Column(x)
    BY <2>1 DEF Places
  <2>3. \A p : ~(p \in Places(segs, t \ {x}) /\ p \in Column(x))
    BY DEF Places
  <2>4. IsFiniteSet({x}) /\ Cardinality({x}) = 1
    BY FS_Singleton
  <2>5. IsFiniteSet(1 .. segs[x]) /\ Cardinality(1 .. segs[x]) = segs[x]
    BY <2>1, FS_Interval
  <2>. HIDE DEF Column
  <2>6. IsFiniteSet(Column(x)) /\ Cardinality(Column(x)) = segs[x]
    BY <2>1, <2>4, <2>5, FS_Product DEF Column
  <2>. QED
    BY <2>2, <2>3, <2>6
<1>3. Bad = {}
  <2>. SUFFICES ASSUME Bad # {} PROVE FALSE
    OBVIOUS
  <2>1. Bad \subseteq FiniteSubsetsOf(D)
    BY FS_FiniteSubsetsOfFinite
  <2>6. IsWellFoundedOn(StrictSubsetOrdering(D), FiniteSubsetsOf(D))
    BY FS_StrictSubsetOrderingWellFounded
  <2>7. \E t \in Bad : \A y \in Bad : ~(<<y, t>> \in StrictSubsetOrdering(D))
    <3>. HIDE DEF Bad
    <3>. QED  BY <2>1, <2>6, WFMin
  <2>2. PICK t \in Bad : \A y \in Bad : ~(<<y, t>> \in StrictSubsetOrdering(D))
    BY <2>7
  <2>3. t # {}
    BY <1>1, FS_EmptySet
  <2>4. PICK x \in t : TRUE
    BY <2>3
  <2>8. <<t \ {x}, t>> \in StrictSubsetOrdering(D)
    BY DEF StrictSubsetOrdering
  <2>5. IsFiniteSet(Places(segs, t \ {x}))
    BY <2>2, <2>8
  <2>9. IsFiniteSet(Column(x)) /\ Places(segs, t) = Places(segs, t \ {x}) \cup Column(x)
    BY <1>2
  <2>10. IsFiniteSet(Places(segs, t))
    <3>. HIDE DEF Column
    <3>. QED  BY <2>5, <2>9, FS_Union
  <2>. QED
    BY <2>10
<1>4. ASSUME NEW t \in SUBSET D PROVE IsFiniteSet(Places(segs, t))
  BY <1>3
<1>5. ASSUME NEW x \in s
      PROVE  Cardinality(Places(segs, s)) = segs[x] + Cardinality(Places(segs, s \ {x}))
  <2>1. IsFiniteSet(Places(segs, s \ {x}))
    BY <1>4
  <2>2. Cardinality(Places(segs, s \ {x})) \in Nat /\ segs[x] \in Nat
    BY <2>1, FS_CardinalityType
  <2>3. /\ Places(segs, s) = Places(segs, s \ {x}) \cup Column(x)
        /\ Places(segs, s \ {x}) \cap Column(x) = {}
        /\ IsFiniteSet(Column(x)) /\ Cardinality(Column(x)) = segs[x]
    BY <1>2
  <2>4. Cardinality(Places(segs, s)) = Cardinality(Places(segs, s \ {x})) + segs[x] - 0
    <3>. HIDE DEF Column
    <3>1. Cardinality(Places(segs, s \ {x}) \cap Column(x)) = 0
      BY <2>3, FS_EmptySet
    <3>. QED  BY <2>1, <2>3, <3>1, FS_Union
  <2>. QED
    BY <2>2, <2>4
<1>. QED
  BY <1>1, <1>4, <1>5

\* The fold counts the pairs, whatever order CHOOSE takes the segments in: of a least
\* set on which they differed, one segment could be taken out.
LEMMA SectorsArePlaces ==
    ASSUME NEW segs, IsFiniteSet(DOMAIN segs), segs \in [DOMAIN segs -> Nat]
    PROVE  Sectors(segs) = Cardinality(Places(segs, DOMAIN segs))
<1>. DEFINE D == DOMAIN segs
            card == [s \in SUBSET D |-> Cardinality(Places(segs, s))]
            g == CHOOSE g : IsFold(segs, g)
            Bad == {s \in SUBSET D : g[s] # card[s]}
<1>1. IsFold(segs, card)
  <2>1. ASSUME NEW s \in SUBSET D
        PROVE  card[s] = IF s = {} THEN 0
                         ELSE LET x == CHOOSE x \in s : TRUE IN segs[x] + card[s \ {x}]
    <3>1. CASE s = {}
      BY <3>1, PlacesFinite, FS_EmptySet
    <3>2. CASE s # {}
      <4>. DEFINE x == CHOOSE x \in s : TRUE
      <4>1. x \in s
        BY <3>2
      <4>. HIDE DEF x
      <4>2. card[s \ {x}] = Cardinality(Places(segs, s \ {x}))
        OBVIOUS
      <4>3. card[s] = segs[x] + card[s \ {x}]
        BY <4>1, <4>2, PlacesFinite
      <4>. QED
        BY <3>2, <4>3 DEF x
    <3>. QED
      BY <3>1, <3>2
  <2>2. card = [s \in SUBSET D |-> card[s]]
    OBVIOUS
  <2>. HIDE DEF card
  <2>. QED
    BY <2>1, <2>2 DEF IsFold
<1>2. IsFold(segs, g)
  <2>. HIDE DEF card
  <2>. QED
    BY <1>1
<1>3. Bad = {}
  <2>. SUFFICES ASSUME Bad # {} PROVE FALSE
    OBVIOUS
  <2>1. Bad \subseteq FiniteSubsetsOf(D)
    BY FS_FiniteSubsetsOfFinite
  <2>2. IsWellFoundedOn(StrictSubsetOrdering(D), FiniteSubsetsOf(D))
    BY FS_StrictSubsetOrderingWellFounded
  <2>3. \E s \in Bad : \A y \in Bad : ~(<<y, s>> \in StrictSubsetOrdering(D))
    <3>. HIDE DEF Bad
    <3>. QED  BY <2>1, <2>2, WFMin
  <2>4. PICK s \in Bad : \A y \in Bad : ~(<<y, s>> \in StrictSubsetOrdering(D))
    BY <2>3
  <2>. HIDE DEF g
  <2>5. g[s] = IF s = {} THEN 0 ELSE LET x == CHOOSE x \in s : TRUE IN segs[x] + g[s \ {x}]
    BY <1>2 DEF IsFold
  <2>6. card[s] = IF s = {} THEN 0 ELSE LET x == CHOOSE x \in s : TRUE IN segs[x] + card[s \ {x}]
    <3>. HIDE DEF card
    <3>. QED  BY <1>1 DEF IsFold
  <2>7. s # {}
    BY <2>5, <2>6
  <2>8. PICK x \in s : x = CHOOSE y \in s : TRUE
    BY <2>7
  <2>9. <<s \ {x}, s>> \in StrictSubsetOrdering(D)
    BY DEF StrictSubsetOrdering
  <2>10. g[s \ {x}] = card[s \ {x}]
    BY <2>4, <2>9
  <2>. HIDE DEF card
  <2>. QED
    BY <2>5, <2>6, <2>7, <2>8, <2>10 
<1>4. g[D] = card[D]
  BY <1>3
<1>. QED
  BY <1>4, SectorsFold

\* A request covers a natural number of sectors.
LEMMA SectorsType ==
    ASSUME NEW segs \in Seq(Nat)
    PROVE  Sectors(segs) \in Nat
<1>1. PICK n \in Nat : DOMAIN segs = 1 .. n /\ segs \in [DOMAIN segs -> Nat]
  OBVIOUS
<1>4. IsFiniteSet(1 .. n)
  BY FS_Interval
<1>2. IsFiniteSet(DOMAIN segs)
  BY <1>1, <1>4
<1>3. IsFiniteSet(Places(segs, DOMAIN segs))
  BY <1>1, <1>2, PlacesFinite
<1>. QED
  BY <1>1, <1>2, <1>3, SectorsArePlaces, FS_CardinalityType

\* A request without segments covers none.
LEMMA SectorsEmpty == Sectors(<<>>) = 0
<1>1. DOMAIN <<>> = {} /\ <<>> \in [{} -> Nat]
  OBVIOUS
<1>2. IsFiniteSet({})
  BY FS_EmptySet
<1>3. Places(<<>>, {}) = {}
  BY DEF Places
<1>. QED
  BY <1>1, <1>2, <1>3, SectorsArePlaces, FS_EmptySet

\* A request covers its first segment and what its others cover.
LEMMA SectorsHead ==
    ASSUME NEW segs \in Seq(Nat), segs # <<>>
    PROVE  Sectors(segs) = Head(segs) + Sectors(Tail(segs))
<1>. DEFINE n == Len(segs)
            rest == Tail(segs)
            P == Places(segs, (1 .. n) \ {1})
            Q == Places(rest, 1 .. n - 1)
            f == [p \in P |-> <<p[1] - 1, p[2]>>]
<1>1. /\ n \in Nat \ {0} /\ DOMAIN segs = 1 .. n /\ segs \in [1 .. n -> Nat]
      /\ rest \in Seq(Nat) /\ Len(rest) = n - 1 /\ DOMAIN rest = 1 .. n - 1
      /\ rest \in [1 .. n - 1 -> Nat]
      /\ Head(segs) = segs[1]
      /\ \A i \in 1 .. n - 1 : rest[i] = segs[i + 1]
  <2>1. n \in Nat \ {0} /\ DOMAIN segs = 1 .. n /\ segs \in [1 .. n -> Nat] /\ Head(segs) = segs[1]
    OBVIOUS
  <2>2. rest \in Seq(Nat) /\ Len(rest) = n - 1 /\ \A i \in 1 .. n - 1 : rest[i] = segs[i + 1]
    OBVIOUS
  <2>3. DOMAIN rest = 1 .. Len(rest) /\ rest \in [1 .. Len(rest) -> Nat]
    <3>. HIDE DEF rest
    <3>. QED  BY <2>2
  <2>. QED
    BY <2>1, <2>2, <2>3
<1>2. IsFiniteSet(1 .. n) /\ IsFiniteSet(1 .. n - 1)
  BY <1>1, FS_Interval
<1>3. IsFiniteSet(P) /\ Cardinality(Places(segs, 1 .. n)) = segs[1] + Cardinality(P)
  <2>1. 1 \in 1 .. n
    BY <1>1
  <2>. HIDE DEF n
  <2>2. (1 .. n) \ {1} \in SUBSET DOMAIN segs /\ 1 .. n \in SUBSET DOMAIN segs
    BY <1>1
  <2>3. IsFiniteSet(P)
    BY <1>1, <1>2, <2>2, PlacesFinite
  <2>4. IsFiniteSet(DOMAIN segs) /\ segs \in [DOMAIN segs -> Nat]
    BY <1>1, <1>2
  <2>5. \A x \in 1 .. n :
          Cardinality(Places(segs, 1 .. n)) = segs[x] + Cardinality(Places(segs, (1 .. n) \ {x}))
    BY <2>2, <2>4, PlacesFinite
  <2>. QED
    BY <2>1, <2>3, <2>5
<1>4. f \in [P -> Q]
  <2>. SUFFICES ASSUME NEW p \in P PROVE <<p[1] - 1, p[2]>> \in Q
    OBVIOUS
  <2>1. /\ p[1] \in (1 .. n) \ {1} /\ p[2] \in Nat
        /\ 1 <= p[2] /\ p[2] <= segs[p[1]]
    BY DEF Places
  <2>2. p[1] - 1 \in 1 .. n - 1 /\ rest[p[1] - 1] = segs[p[1]]
    BY <1>1, <2>1
  <2>. QED
    BY <2>1, <2>2 DEF Places
<1>5. \A p, q \in P : f[p] = f[q] => p = q
  <2>. SUFFICES ASSUME NEW p \in P, NEW q \in P, f[p] = f[q] PROVE p = q
    OBVIOUS
  <2>1. /\ p = <<p[1], p[2]>> /\ p[1] \in 1 .. n
        /\ q = <<q[1], q[2]>> /\ q[1] \in 1 .. n
    BY DEF Places
  <2>2. p[1] - 1 = q[1] - 1 /\ p[2] = q[2]
    OBVIOUS
  <2>3. p[1] = q[1]
    <3>. HIDE DEF P, Q, f
    <3>. QED  BY <1>1, <2>1, <2>2
  <2>. QED
    BY <2>1, <2>2, <2>3, Zenon
<1>6. \A q \in Q : \E p \in P : f[p] = q
  <2>. SUFFICES ASSUME NEW q \in Q PROVE \E p \in P : f[p] = q
    OBVIOUS
  <2>1. /\ q = <<q[1], q[2]>> /\ q[1] \in 1 .. n - 1 /\ q[2] \in Nat
        /\ 1 <= q[2] /\ q[2] <= rest[q[1]]
    BY DEF Places
  <2>2. q[1] + 1 \in (1 .. n) \ {1} /\ rest[q[1]] = segs[q[1] + 1]
    BY <1>1, <2>1
  <2>3. <<q[1] + 1, q[2]>> \in P
    BY <2>1, <2>2 DEF Places
  <2>4. PICK p \in P : p[1] = q[1] + 1 /\ p[2] = q[2]
    BY <2>3
  <2>5. (q[1] + 1) - 1 = q[1]
    BY <1>1, <2>1
  <2>6. f[p] = <<q[1], q[2]>>
    <3>1. f[p] = <<p[1] - 1, p[2]>>
      OBVIOUS
    <3>2. p[1] - 1 = q[1]
      BY <2>4, <2>5
    <3>. QED  BY <2>4, <3>1, <3>2, Zenon
  <2>. QED
    BY <2>1, <2>6
<1>7. Cardinality(Q) = Cardinality(P)
  <2>. HIDE DEF P, Q, f
  <2>1. f \in Bijection(P, Q)
    BY <1>4, <1>5, <1>6 DEF Bijection, Injection, Surjection, IsInjective
  <2>. QED
    BY <1>3, <2>1, FS_Bijection DEF ExistsBijection
<1>8. Sectors(segs) = Cardinality(Places(segs, 1 .. n))
  BY <1>1, <1>2, SectorsArePlaces
<1>9. Sectors(rest) = Cardinality(Q)
  BY <1>1, <1>2, SectorsArePlaces
<1>. QED
  BY <1>1, <1>3, <1>7, <1>8, <1>9
-----------------------------------------------------------------------------
(* Sectors and pages.                                                      *)

\* What the assumptions say of the sizes.
LEMMA Sizes ==
    /\ Pages \in Nat \ {0} /\ PageSectors \in Nat \ {0}
    /\ FreeBatch \in Nat \ {0} /\ Amount \in Nat \ {0}
    /\ Capacity \in Nat /\ 4 <= Capacity
<1>1. /\ Pages \in Nat \ {0} /\ PageSectors \in Nat \ {0}
      /\ FreeBatch \in Nat \ {0} /\ Amount \in Nat \ {0}
  BY RamDiskAssumption
<1>2. Capacity \in Nat
  BY <1>1 DEF Capacity
<1>3. 4 <= Capacity
  BY ConfigAssumption DEF SECTOR_AMOUNT
<1>. QED
  BY <1>1, <1>2, <1>3

\* The pages fill the disk.
LEMMA WholeDisk == Capacity = PageSectors * Pages
  BY Sizes DEF Capacity

\* A sector's page and its place on it.
LEMMA PageAndPlace ==
    ASSUME NEW s \in Nat
    PROVE  /\ PageOf(s) \in Nat /\ s % PageSectors \in 0 .. PageSectors - 1
           /\ PageSectors * PageOf(s) \in Nat
           /\ s = PageSectors * PageOf(s) + (s % PageSectors)
<1>1. PageOf(s) \in Nat /\ s % PageSectors \in 0 .. PageSectors - 1
  BY Sizes, Division DEF PageOf
<1>2. s = PageSectors * PageOf(s) + (s % PageSectors)
  BY Sizes, Division DEF PageOf
<1>3. PageSectors * PageOf(s) \in Nat
  BY <1>1, Sizes
<1>. QED
  BY <1>1, <1>2, <1>3

\* The sector at a place of a page.
LEMMA SectorAt ==
    ASSUME NEW p \in Nat, NEW o \in 0 .. PageSectors - 1, NEW s, s = PageSectors * p + o
    PROVE  PageOf(s) = p /\ s % PageSectors = o
<1>1. (PageSectors * p + o) \div PageSectors = p /\ (PageSectors * p + o) % PageSectors = o
  BY Sizes, DivisionIsUnique
<1>. QED
  BY <1>1 DEF PageOf

\* A page's first sector.
LEMMA FirstOfPage ==
    ASSUME NEW p \in Nat
    PROVE  /\ p * PageSectors \in Nat /\ p * PageSectors = PageSectors * p
           /\ PageOf(p * PageSectors) = p /\ (p * PageSectors) % PageSectors = 0
<1>1. p * PageSectors \in Nat /\ p * PageSectors = PageSectors * p + 0
      /\ p * PageSectors = PageSectors * p
  BY Sizes
<1>2. 0 \in 0 .. PageSectors - 1
  BY Sizes
<1>. QED
  BY <1>1, <1>2, SectorAt

\* Sectors that follow on the same page.
LEMMA SamePage ==
    ASSUME NEW s \in Nat, NEW k \in Nat, (s % PageSectors) + k < PageSectors
    PROVE  PageOf(s + k) = PageOf(s) /\ (s + k) % PageSectors = (s % PageSectors) + k
<1>. DEFINE o == s % PageSectors
            b == PageSectors * PageOf(s)
<1>1. PageOf(s) \in Nat /\ o \in 0 .. PageSectors - 1 /\ b \in Nat /\ s = b + o
  BY PageAndPlace
<1>2. o + k \in 0 .. PageSectors - 1 /\ s + k = b + (o + k)
  <2>. HIDE DEF o, b
  <2>. QED  BY <1>1, Sizes DEF o
<1>. QED
  BY <1>1, <1>2, SectorAt

\* The first sector of the next page.
LEMMA NextPage ==
    ASSUME NEW s \in Nat
    PROVE  LET n == PageSectors - (s % PageSectors)
           IN  PageOf(s + n) = PageOf(s) + 1 /\ (s + n) % PageSectors = 0
<1>. DEFINE o == s % PageSectors
            b == PageSectors * PageOf(s)
            n == PageSectors - o
<1>1. PageOf(s) \in Nat /\ o \in 0 .. PageSectors - 1 /\ b \in Nat /\ s = b + o
  BY PageAndPlace
<1>2. PageSectors * (PageOf(s) + 1) = b + PageSectors
  BY <1>1, Sizes
<1>3. s + n = (b + PageSectors) + 0
  <2>. HIDE DEF o, b
  <2>. QED  BY <1>1, Sizes
<1>4. /\ s + n = PageSectors * (PageOf(s) + 1) + 0 /\ 0 \in 0 .. PageSectors - 1
      /\ PageOf(s) + 1 \in Nat
  BY <1>1, <1>2, <1>3, Sizes
<1>. QED
  BY <1>4, SectorAt

\* A later sector is not on an earlier page.
LEMMA PagesInOrder ==
    ASSUME NEW s \in Nat, NEW t \in Nat, s <= t
    PROVE  PageOf(s) <= PageOf(t)
<1>1. /\ PageOf(s) \in Nat /\ PageOf(t) \in Nat
      /\ s % PageSectors \in 0 .. PageSectors - 1 /\ t % PageSectors \in 0 .. PageSectors - 1
      /\ PageSectors * PageOf(s) \in Nat /\ PageSectors * PageOf(t) \in Nat
      /\ s = PageSectors * PageOf(s) + (s % PageSectors)
      /\ t = PageSectors * PageOf(t) + (t % PageSectors)
  BY PageAndPlace
<1>2. PageOf(t) < PageOf(s) =>
        PageSectors * PageOf(t) + PageSectors <= PageSectors * PageOf(s)
  BY <1>1, Sizes, ProductGrows
<1>. QED
  BY <1>1, <1>2, Sizes

\* A sector of the device is on one of its pages, and the other way round.
LEMMA PageExists ==
    ASSUME NEW s \in Nat
    PROVE  s < Capacity <=> PageOf(s) \in 0 .. Pages - 1
<1>1. /\ PageOf(s) \in Nat /\ s % PageSectors \in 0 .. PageSectors - 1
      /\ PageSectors * PageOf(s) \in Nat
      /\ s = PageSectors * PageOf(s) + (s % PageSectors)
  BY PageAndPlace
<1>2. PageOf(s) < Pages => PageSectors * PageOf(s) + PageSectors <= Capacity
  BY <1>1, Sizes, WholeDisk, ProductGrows
<1>3. Pages <= PageOf(s) => Capacity <= PageSectors * PageOf(s)
  <2>1. Pages < PageOf(s) => Capacity + PageSectors <= PageSectors * PageOf(s)
    BY <1>1, Sizes, WholeDisk, ProductGrows
  <2>. QED
    BY <1>1, <2>1, Sizes, WholeDisk
<1>. QED
  BY <1>1, <1>2, <1>3, Sizes

-----------------------------------------------------------------------------
(* What is true of a request.                                              *)

IoRecord ==
    [at : {"idle", "setup", "insert", "copy", "zero", "flush", "flushed", "done"},
     op : {"none", "read", "write", "discard", "flush"},
     sector : Nat, segs : Seq(Nat), part : {1, 2}, data : Seq(Contents), got : Seq(Contents)]

Onward(r) == r.at \in {"setup", "insert", "copy"}

\* How far it is and what it has still to do fit what it was asked for.
RequestOK(r) ==
    /\ r \in IoRecord
    /\ r.sector + Sectors(r.segs) <= Capacity
    /\ r.at = "idle" \/ r.op = "none" => r = NoIo
    /\ r.at \in {"setup", "insert"} => r.op = "write"
    /\ Onward(r) => r.op \in {"read", "write"} /\ r.segs # <<>>
    /\ r.at = "zero" =>
        /\ r.op = "discard" /\ r.segs # <<>>
        /\ r.sector % PageSectors = 0 /\ Sectors(r.segs) % PageSectors = 0
    /\ r.at = "done" => r.op \in {"read", "write", "discard"} /\ r.segs = <<>>
    /\ r.at \in {"flush", "flushed"} =>
        /\ r.op = "flush" /\ r.segs = <<Capacity - r.sector>> /\ r.sector % PageSectors = 0
    /\ r.at = "flushed" => r.sector = Capacity
    /\ r.op \in {"read", "write"} => r.segs \in Seq(1 .. PageSectors)
    /\ r.op = "discard" => r.segs \in Seq(Nat \ {0})
    /\ Len(r.data) = IF r.op = "write" THEN Sectors(r.segs) ELSE 0
    /\ r.op # "read" => r.got = <<>>
    /\ r.part = 2 => r.at \in {"setup", "insert"} /\ Spans(r)

There(tr, p) == tr[p] # NoPage

\* The pages it has made sure of are there.
PagesThere(tr, r) ==
    /\ r.part = 2 => There(tr, PageOf(r.sector))
    /\ r.at = "copy" /\ r.op = "write" =>
        There(tr, PageOf(r.sector)) /\ There(tr, PageOf(r.sector + Head(r.segs) - 1))

-----------------------------------------------------------------------------

\* FirstStep by cases.
LEMMA FirstSteps ==
    FirstStep("write") = "setup" /\ FirstStep("read") = "copy" /\ FirstStep("discard") = "zero"
  BY DEF FirstStep

\* A non-empty sequence of segments and its first one.
LEMMA Segments ==
    ASSUME NEW segs \in Seq(Nat), segs # <<>>
    PROVE  /\ Head(segs) \in Nat /\ Tail(segs) \in Seq(Nat)
           /\ Sectors(segs) \in Nat /\ Sectors(Tail(segs)) \in Nat
           /\ Sectors(segs) = Head(segs) + Sectors(Tail(segs))
<1>1. Head(segs) \in Nat /\ Tail(segs) \in Seq(Nat)
  OBVIOUS
<1>. QED
  BY <1>1, SectorsType, SectorsHead

\* What one segment covers, alone and before others.
LEMMA SectorsCons ==
    ASSUME NEW n \in Nat, NEW segs \in Seq(Nat)
    PROVE  Sectors(<<n>>) = n /\ Sectors(<<n>> \o segs) = n + Sectors(segs)
<1>1. \A t \in Seq(Nat) : Sectors(<<n>> \o t) = n + Sectors(t)
  <2>. SUFFICES ASSUME NEW t \in Seq(Nat) PROVE Sectors(<<n>> \o t) = n + Sectors(t)
    OBVIOUS
  <2>1. /\ <<n>> \o t \in Seq(Nat) /\ <<n>> \o t # <<>>
        /\ Head(<<n>> \o t) = n /\ Tail(<<n>> \o t) = t
    OBVIOUS
  <2>2. PICK w \in Seq(Nat) : w = <<n>> \o t
    BY <2>1
  <2>3. Sectors(w) = Head(w) + Sectors(Tail(w))
    BY <2>1, <2>2, SectorsHead
  <2>. QED
    BY <2>1, <2>2, <2>3
<1>2. <<>> \in Seq(Nat) /\ <<n>> \o <<>> = <<n>>
  OBVIOUS
<1>3. Sectors(<<n>>) = n
  <2>1. Sectors(<<n>> \o <<>>) = n + 0
    BY <1>1, <1>2, SectorsEmpty, Zenon
  <2>. QED
    BY <1>2, <2>1
<1>. QED
  BY <1>1, <1>3

\* The sectors of a segment that lie on its first page.
LEMMA Copied ==
    ASSUME NEW r \in IoRecord, r.segs # <<>>, Head(r.segs) # 0
    PROVE  LET left == PageSectors - (r.sector % PageSectors)
           IN  /\ Copy1(r) \in 1 .. PageSectors /\ Copy1(r) <= Head(r.segs) /\ Copy1(r) <= left
               /\ IF Spans(r) THEN Copy1(r) = left ELSE Copy1(r) = Head(r.segs)
<1>. DEFINE left == PageSectors - (r.sector % PageSectors)
            h == Head(r.segs)
<1>1. r.sector \in Nat /\ h \in Nat /\ h # 0
  <2>1. r.segs \in Seq(Nat) /\ r.sector \in Nat
    BY DEF IoRecord
  <2>. QED
    BY <2>1
<1>2. left \in 1 .. PageSectors
  <2>1. r.sector % PageSectors \in 0 .. PageSectors - 1
    BY <1>1, PageAndPlace
  <2>. QED
    BY <2>1, Sizes
<1>3. \E m \in {h, left} : m <= h /\ m <= left
  <2>. HIDE DEF h, left
  <2>. QED  BY <1>1, <1>2, Sizes
<1>4. Copy1(r) = Min({h, left})
  BY DEF Copy1
<1>5. Min({h, left}) \in {h, left} /\ Min({h, left}) <= h /\ Min({h, left}) <= left
  <2>. HIDE DEF h, left
  <2>. QED  BY <1>3 DEF Min
<1>. QED
  BY <1>1, <1>2, <1>4, <1>5, Sizes DEF Spans

\* The segments of a request that goes on: not empty, within a page.
LEMMA Going ==
    ASSUME NEW r, RequestOK(r), Onward(r)
    PROVE  /\ r \in IoRecord /\ r.op \in {"read", "write"} /\ r.segs # <<>>
           /\ r.sector \in Nat /\ Head(r.segs) \in 1 .. PageSectors
           /\ r.segs \in Seq(Nat) /\ Tail(r.segs) \in Seq(1 .. PageSectors)
           /\ Tail(r.segs) \in Seq(Nat)
           /\ Sectors(r.segs) = Head(r.segs) + Sectors(Tail(r.segs))
           /\ Sectors(Tail(r.segs)) \in Nat
           /\ r.sector + Head(r.segs) <= Capacity
<1>1. /\ r \in IoRecord /\ r.op \in {"read", "write"} /\ r.segs # <<>>
      /\ r.sector \in Nat /\ r.segs \in Seq(Nat) /\ r.segs \in Seq(1 .. PageSectors)
      /\ r.sector + Sectors(r.segs) <= Capacity
  BY DEF RequestOK, Onward, IoRecord
<1>2. Head(r.segs) \in 1 .. PageSectors /\ Tail(r.segs) \in Seq(1 .. PageSectors)
  <2>1. PICK s \in Seq(1 .. PageSectors) : s = r.segs /\ s # <<>>
    BY <1>1
  <2>2. Head(s) \in 1 .. PageSectors /\ Tail(s) \in Seq(1 .. PageSectors)
    BY <2>1, HeadTailProperties
  <2>. QED
    BY <2>1, <2>2
<1>3. /\ Tail(r.segs) \in Seq(Nat) /\ Sectors(r.segs) \in Nat /\ Sectors(Tail(r.segs)) \in Nat
      /\ Sectors(r.segs) = Head(r.segs) + Sectors(Tail(r.segs))
  BY <1>1, Segments
<1>4. r.sector + Head(r.segs) <= Capacity
  <2>1. PICK a \in Nat : a = r.sector
    BY <1>1
  <2>2. PICK h \in Nat : h = Head(r.segs)
    BY <1>2, Sizes
  <2>3. PICK m \in Nat : m = Sectors(Tail(r.segs))
    BY <1>3
  <2>4. a + (h + m) <= Capacity
    BY <1>1, <1>3, <2>1, <2>2, <2>3
  <2>5. a + h <= Capacity
    BY <2>4, Sizes
  <2>. QED
    BY <2>1, <2>2, <2>5
<1>. QED
  BY <1>1, <1>2, <1>3, <1>4

\* The pages of a segment: its first sector's, and the next if it spans two.
LEMMA PagesOfSegment ==
    ASSUME NEW r, RequestOK(r), Onward(r)
    PROVE  /\ PageOf(r.sector) \in 0 .. Pages - 1
           /\ Spans(r) => PageOf(r.sector) + 1 \in 0 .. Pages - 1
           /\ PageOf(r.sector + Head(r.segs) - 1)
                = IF Spans(r) THEN PageOf(r.sector) + 1 ELSE PageOf(r.sector)
<1>. DEFINE s == r.sector
            h == Head(r.segs)
            n == Copy1(r)
            left == PageSectors - (s % PageSectors)
<1>1. s \in Nat /\ h \in 1 .. PageSectors /\ s + h <= Capacity
  BY Going
<1>2. /\ n \in 1 .. PageSectors /\ n <= h /\ n <= left
      /\ IF Spans(r) THEN n = left ELSE n = h
  <2>1. r \in IoRecord /\ r.segs # <<>> /\ Head(r.segs) # 0
    BY Going
  <2>. QED
    BY <2>1, Copied
<1>3. s % PageSectors \in 0 .. PageSectors - 1 /\ PageOf(s) \in Nat
  BY <1>1, PageAndPlace
<1>4. PageOf(s) \in 0 .. Pages - 1
  BY <1>1, PageExists, Sizes
<1>5. CASE ~Spans(r)
  <2>1. h - 1 \in Nat /\ (s % PageSectors) + (h - 1) < PageSectors
    <3>. HIDE DEF s, h, n
    <3>. QED  BY <1>1, <1>2, <1>3, <1>5, Sizes
  <2>2. PageOf(s + (h - 1)) = PageOf(s)
    BY <1>1, <2>1, SamePage
  <2>3. s + (h - 1) = s + h - 1
    BY <1>1
  <2>. QED
    BY <1>4, <1>5, <2>2, <2>3
<1>6. CASE Spans(r)
  <2>. DEFINE t == s + left
  <2>1. /\ t \in Nat /\ PageOf(t) = PageOf(s) + 1 /\ t % PageSectors = 0
    <3>1. t \in Nat
      BY <1>1, <1>3, Sizes
    <3>. QED
      BY <1>1, <3>1, NextPage
  <2>2. left < h
    BY <1>2, <1>6 DEF Spans
  <2>3. h - left - 1 \in Nat /\ 0 + (h - left - 1) < PageSectors /\ t + (h - left - 1) = s + h - 1
        /\ t < Capacity
    <3>. HIDE DEF s, h
    <3>. QED  BY <1>1, <1>3, <2>2, Sizes
  <2>4. PageOf(t + (h - left - 1)) = PageOf(t)
    <3>. HIDE DEF t, h, left
    <3>. QED  BY <2>1, <2>3, SamePage
  <2>5. PageOf(t) \in 0 .. Pages - 1
    <3>. HIDE DEF t
    <3>. QED  BY <2>1, <2>3, PageExists
  <2>. QED
    BY <1>4, <1>6, <2>1, <2>3, <2>4, <2>5
<1>. QED
  BY <1>5, <1>6

\* The page a write is to make sure of.
LEMMA SetupPageExists ==
    ASSUME NEW r, RequestOK(r), r.at \in {"setup", "insert"}
    PROVE  /\ SetupPage(r) \in 0 .. Pages - 1
           /\ SetupPage(r) = IF r.part = 2 THEN PageOf(r.sector) + 1 ELSE PageOf(r.sector)
<1>1. Onward(r) /\ r \in IoRecord /\ (r.part = 2 => Spans(r))
  BY DEF RequestOK, Onward
<1>2. r.part \in {1, 2}
  BY <1>1 DEF IoRecord
<1>3. PageOf(r.sector) \in 0 .. Pages - 1 /\ (Spans(r) => PageOf(r.sector) + 1 \in 0 .. Pages - 1)
  BY <1>1, PagesOfSegment
<1>4. SetupPage(r) = IF r.part = 2 THEN PageOf(r.sector) + 1 ELSE PageOf(r.sector)
  BY <1>2, <1>3, Sizes DEF SetupPage
<1>. QED
  BY <1>1, <1>3, <1>4

\* A request that goes on at another place is still one.
LEMMA PlacedOK ==
    ASSUME NEW r, RequestOK(r), r.at \in {"setup", "insert"},
           NEW a \in {"setup", "insert", "copy"}, NEW p \in {1, 2},
           p = 2 => a # "copy" /\ Spans(r)
    PROVE  RequestOK([r EXCEPT !.at = a, !.part = p])
<1>1. r \in IoRecord /\ r.op = "write" /\ r.segs # <<>>
  BY DEF RequestOK, Onward
<1>2. PICK q : q = [r EXCEPT !.at = a, !.part = p]
  OBVIOUS
<1>3. /\ q \in IoRecord /\ q.at = a /\ q.part = p /\ q.op = r.op /\ q.sector = r.sector
      /\ q.segs = r.segs /\ q.data = r.data /\ q.got = r.got
  BY <1>1, <1>2 DEF IoRecord
<1>5. Copy1(q) = Copy1(r)
  BY <1>3 DEF Copy1
<1>6. Spans(q) = Spans(r)
  BY <1>3, <1>5 DEF Spans
<1>4. RequestOK(q)
  BY <1>1, <1>3, <1>6 DEF RequestOK, Onward
<1>. QED
  BY <1>2, <1>4

\* Once the page is there, the write goes on to the next or to the copy.
LEMMA NextSetupOK ==
    ASSUME NEW tr, NEW r, RequestOK(r), r.at \in {"setup", "insert"},
           PagesThere(tr, r), There(tr, SetupPage(r))
    PROVE  RequestOK(NextSetup(r)) /\ PagesThere(tr, NextSetup(r))
<1>1. Onward(r) /\ r \in IoRecord /\ (r.part = 2 => Spans(r)) /\ r.part \in {1, 2}
  BY DEF RequestOK, Onward, IoRecord
<1>2. SetupPage(r) = IF r.part = 2 THEN PageOf(r.sector) + 1 ELSE PageOf(r.sector)
  BY SetupPageExists
<1>3. CASE r.part = 1 /\ Spans(r)
  <2>1. PICK q : q = [r EXCEPT !.at = "setup", !.part = 2]
    OBVIOUS
  <2>7. 2 \in {1, 2}
    OBVIOUS
  <2>2. RequestOK(q)
    BY <1>3, <2>1, PlacedOK
  <2>3. q.at = "setup" /\ q.part = 2 /\ q.sector = r.sector
    BY <1>1, <2>1, <2>7 DEF IoRecord
  <2>4. PagesThere(tr, q)
    BY <1>2, <1>3, <2>3 DEF PagesThere
  <2>. QED
    BY <1>3, <2>1, <2>2, <2>4 DEF NextSetup
<1>4. CASE ~(r.part = 1 /\ Spans(r))
  <2>1. PICK q : q = [r EXCEPT !.at = "copy", !.part = 1]
    OBVIOUS
  <2>7. 1 \in {1, 2}
    OBVIOUS
  <2>2. RequestOK(q)
    <3>1. "copy" \in {"setup", "insert", "copy"} /\ (1 = 2 => "copy" # "copy" /\ Spans(r))
      OBVIOUS
    <3>. QED  BY <2>1, <2>7, <3>1, PlacedOK, Zenon
  <2>3. q.at = "copy" /\ q.part = 1 /\ q.sector = r.sector /\ q.segs = r.segs
    BY <1>1, <2>1, <2>7 DEF IoRecord
  <2>4. PageOf(r.sector + Head(r.segs) - 1)
          = IF Spans(r) THEN PageOf(r.sector) + 1 ELSE PageOf(r.sector)
    BY <1>1, PagesOfSegment
  <2>5. There(tr, PageOf(r.sector)) /\ There(tr, PageOf(r.sector + Head(r.segs) - 1))
    BY <1>1, <1>2, <1>4, <2>4 DEF PagesThere
  <2>6. PagesThere(tr, q)
    BY <2>3, <2>5 DEF PagesThere
  <2>. QED
    BY <1>4, <2>1, <2>2, <2>6 DEF NextSetup
<1>. QED
  BY <1>3, <1>4

\* What copying leaves to do: the rest of the segment, or the other segments.
LEMMA Advances ==
    ASSUME NEW r, RequestOK(r), r.at = "copy",
           NEW n, n = Copy1(r), NEW h, h = Head(r.segs), NEW q, q = Advance(r, n)
    PROVE  /\ q \in IoRecord /\ q.op = r.op /\ q.data = r.data /\ q.got = r.got /\ q.part = 1
           /\ n \in 1 .. PageSectors /\ n <= h /\ h \in 1 .. PageSectors /\ n \in Nat
           /\ n <= PageSectors - (r.sector % PageSectors)
           /\ q.sector = r.sector + n /\ q.segs \in Seq(1 .. PageSectors)
           /\ Sectors(r.segs) \in Nat /\ n <= Sectors(r.segs)
           /\ Sectors(q.segs) = Sectors(r.segs) - n
           /\ IF n < h
              THEN /\ q.at = "copy" /\ q.segs # <<>> /\ Head(q.segs) = h - n
                   /\ n = PageSectors - (r.sector % PageSectors)
              ELSE /\ q.segs = Tail(r.segs)
                   /\ q.at = IF q.segs = <<>> THEN "done" ELSE FirstStep(r.op)
<1>. DEFINE t == Tail(r.segs)
<1>1. /\ r \in IoRecord /\ r.op \in {"read", "write"} /\ r.segs # <<>>
      /\ r.sector \in Nat /\ h \in 1 .. PageSectors
      /\ t \in Seq(1 .. PageSectors) /\ t \in Seq(Nat)
      /\ Sectors(r.segs) = h + Sectors(t) /\ Sectors(t) \in Nat
  BY Going DEF Onward
<1>2. /\ n \in 1 .. PageSectors /\ n <= h /\ n <= PageSectors - (r.sector % PageSectors)
      /\ (n < h => n = PageSectors - (r.sector % PageSectors))
  BY <1>1, Copied DEF Spans
<1>3. FirstStep(r.op) \in {"setup", "copy"}
  BY <1>1, FirstSteps
<1>4. n \in Nat /\ h \in Nat /\ Sectors(r.segs) \in Nat /\ n <= Sectors(r.segs)
  <2>1. n \in Nat /\ h \in Nat
    BY <1>1, <1>2, Sizes
  <2>2. PICK m \in Nat : m = Sectors(t)
    BY <1>1
  <2>3. Sectors(r.segs) = h + m /\ n <= h
    BY <1>1, <1>2, <2>2
  <2>. QED
    BY <2>1, <2>3
<1>5. CASE n < h
  <2>1. PICK m \in 1 .. PageSectors : m = h - n
    BY <1>1, <1>2, <1>5, Sizes
  <2>2. PICK s : s = <<m>> \o t
    OBVIOUS
  <2>3. s \in Seq(1 .. PageSectors) /\ s # <<>> /\ Head(s) = m
    <3>. HIDE DEF t
    <3>. QED  BY <1>1, <2>2
  <2>4. s \in Seq(Nat) /\ Sectors(s) = m + Sectors(t)
    <3>1. m \in Nat
      BY Sizes
    <3>. HIDE DEF t
    <3>2. s \in Seq(Nat)
      BY <1>1, <2>2, <3>1
    <3>. QED  BY <1>1, <2>2, <3>1, <3>2, SectorsCons
  <2>5. q = [r EXCEPT !.sector = r.sector + n, !.segs = s, !.part = 1, !.at = "copy"]
    <3>1. h - n > 0
      BY <1>1, <1>4, <1>5
    <3>2. s = <<h - n>> \o t /\ s # <<>>
      BY <2>1, <2>2, <2>3
    <3>3. Advance(r, n) = [r EXCEPT !.sector = r.sector + n, !.segs = <<h - n>> \o t, !.part = 1,
              !.at = IF <<h - n>> \o t = <<>> THEN "done"
                     ELSE IF h - n > 0 THEN r.at ELSE FirstStep(r.op)]
      BY <3>1 DEF Advance
    <3>. QED
      BY <3>1, <3>2, <3>3
  <2>6. r.sector + n \in Nat
    <3>1. r.sector \in Nat /\ n \in Nat
      BY <1>1, <1>4
    <3>. QED
      BY <3>1
  <2>7. /\ q \in IoRecord /\ q.op = r.op /\ q.data = r.data /\ q.got = r.got /\ q.part = 1
        /\ q.sector = r.sector + n /\ q.segs = s /\ q.at = "copy"
    <3>1. PICK k \in Nat : k = r.sector + n
      BY <2>6
    <3>2. q = [r EXCEPT !.sector = k, !.segs = s, !.part = 1, !.at = "copy"]
      BY <2>5, <3>1
    <3>3. r \in IoRecord /\ s \in Seq(Nat)
      BY <1>1, <2>4
    <3>4. /\ q \in IoRecord /\ q.op = r.op /\ q.data = r.data /\ q.got = r.got /\ q.part = 1
          /\ q.sector = k /\ q.segs = s /\ q.at = "copy"
      BY <3>2, <3>3 DEF IoRecord
    <3>. QED
      BY <3>1, <3>4
  <2>8. Sectors(q.segs) = Sectors(r.segs) - n
    <3>1. PICK l \in Nat : l = Sectors(t)
      BY <1>1
    <3>2. Sectors(q.segs) = m + l /\ Sectors(r.segs) = h + l
      BY <1>1, <2>4, <2>7, <3>1
    <3>3. m + l = (h + l) - n
      BY <1>4, <2>1, <3>1
    <3>. QED
      BY <3>2, <3>3
  <2>. QED
    BY <1>1, <1>2, <1>4, <1>5, <2>1, <2>3, <2>7, <2>8
<1>6. CASE ~(n < h)
  <2>0. h - n = 0
    BY <1>1, <1>2, <1>4, <1>6
  <2>1. PICK a \in {"done", "setup", "copy"} : a = IF t = <<>> THEN "done" ELSE FirstStep(r.op)
    BY <1>3
  <2>2. ~(h - n > 0)
    BY <2>0
  <2>5. q = [r EXCEPT !.sector = r.sector + n, !.segs = t, !.part = 1, !.at = a]
    BY <2>1, <2>2 DEF Advance
  <2>6. r.sector + n \in Nat
    <3>1. r.sector \in Nat /\ n \in Nat
      BY <1>1, <1>4
    <3>. QED
      BY <3>1
  <2>3. PICK s \in Seq(Nat) : s = t
    BY <1>1
  <2>7. /\ q \in IoRecord /\ q.op = r.op /\ q.data = r.data /\ q.got = r.got /\ q.part = 1
        /\ q.sector = r.sector + n /\ q.segs = t /\ q.at = a
    <3>1. PICK k \in Nat : k = r.sector + n
      BY <2>6
    <3>2. q = [r EXCEPT !.sector = k, !.segs = s, !.part = 1, !.at = a]
      BY <2>3, <2>5, <3>1
    <3>3. r \in IoRecord
      BY <1>1
    <3>4. /\ q \in IoRecord /\ q.op = r.op /\ q.data = r.data /\ q.got = r.got /\ q.part = 1
          /\ q.sector = k /\ q.segs = s /\ q.at = a
      <4>. HIDE DEF t
      <4>. QED  BY <3>2, <3>3 DEF IoRecord
    <3>. QED
      BY <2>3, <3>1, <3>4
  <2>8. Sectors(q.segs) = Sectors(r.segs) - n
    <3>1. PICK l \in Nat : l = Sectors(t)
      BY <1>1
    <3>2. Sectors(q.segs) = l /\ Sectors(r.segs) = h + l
      BY <1>1, <2>7, <3>1
    <3>3. l = (h + l) - n
      BY <1>4, <2>0, <3>1
    <3>. QED
      BY <3>2, <3>3
  <2>9. q.segs \in Seq(1 .. PageSectors)
    BY <1>1, <2>7
  <2>11. q.segs = Tail(r.segs)
    BY <2>7
  <2>10. ~(n < h) /\ q.at = IF q.segs = <<>> THEN "done" ELSE FirstStep(r.op)
    BY <1>1, <1>6, <2>1, <2>7
  <2>. QED
    <3>. HIDE DEF t
    <3>. QED  BY <1>1, <1>2, <1>4, <1>6, <2>7, <2>8, <2>9, <2>10, <2>11
<1>. QED
  BY <1>1, <1>2, <1>4, <1>5, <1>6

\* A sequence without its first n members.
LEMMA Dropped ==
    ASSUME NEW S, NEW s \in Seq(S), NEW n \in Nat, n <= Len(s)
    PROVE  /\ SubSeq(s, n + 1, Len(s)) \in Seq(S)
           /\ Len(SubSeq(s, n + 1, Len(s))) = Len(s) - n
           /\ \A i \in 1 .. Len(s) - n : SubSeq(s, n + 1, Len(s))[i] = s[n + i]
  OBVIOUS

\* A request that has copied what lies on one page is still one, and the pages
\* of the rest of its segment are still there.
LEMMA CopyGoesOn ==
    ASSUME NEW tr, NEW r, RequestOK(r), r.at = "copy", PagesThere(tr, r),
           NEW n, n = Copy1(r), NEW w, w = Advance(r, n), NEW q \in IoRecord,
           q.at = w.at, q.op = w.op, q.sector = w.sector, q.segs = w.segs, q.part = w.part,
           Len(q.data) = IF r.op = "write" THEN Sectors(r.segs) - n ELSE 0,
           r.op # "read" => q.got = <<>>
    PROVE  RequestOK(q) /\ PagesThere(tr, q)
<1>0. PICK h : h = Head(r.segs)
  OBVIOUS
<1>1. /\ w.op = r.op /\ w.part = 1 /\ n \in Nat /\ n <= h /\ h \in 1 .. PageSectors
      /\ w.sector = r.sector + n /\ w.segs \in Seq(1 .. PageSectors)
      /\ Sectors(r.segs) \in Nat /\ n <= Sectors(r.segs) /\ Sectors(w.segs) = Sectors(r.segs) - n
      /\ n <= PageSectors - (r.sector % PageSectors)
      /\ IF n < h
         THEN /\ w.at = "copy" /\ w.segs # <<>> /\ Head(w.segs) = h - n
              /\ n = PageSectors - (r.sector % PageSectors)
         ELSE /\ w.segs = Tail(r.segs)
              /\ w.at = IF w.segs = <<>> THEN "done" ELSE FirstStep(r.op)
  BY <1>0, Advances
<1>2. /\ r \in IoRecord /\ r.op \in {"read", "write"} /\ r.segs # <<>> /\ r.sector \in Nat
      /\ Onward(r) /\ r.sector + h <= Capacity /\ r.sector + Sectors(r.segs) <= Capacity
  BY <1>0, Going DEF Onward, RequestOK
<1>3. FirstStep(r.op) = IF r.op = "write" THEN "setup" ELSE "copy"
  BY <1>2, FirstSteps
<1>4. /\ q.at \in {"setup", "copy", "done"} /\ (q.at = "done" => q.segs = <<>>)
      /\ (q.at # "done" => q.segs # <<>>) /\ (q.at = "setup" => q.op = "write")
  BY <1>1, <1>2, <1>3
<1>5. q.sector + Sectors(q.segs) <= Capacity
  <2>1. q.sector + Sectors(q.segs) = r.sector + Sectors(r.segs)
    BY <1>1, <1>2
  <2>. QED
    BY <1>2, <2>1
<1>6. Len(q.data) = IF q.op = "write" THEN Sectors(q.segs) ELSE 0
  BY <1>1
<1>7. RequestOK(q)
  <2>1. q.op \in {"read", "write"} /\ (q.op # "read" => q.got = <<>>) /\ q.part = 1
    BY <1>1, <1>2
  <2>2. q.segs \in Seq(1 .. PageSectors)
    BY <1>1
  <2>. QED
    BY <1>4, <1>5, <1>6, <2>1, <2>2 DEF RequestOK, Onward
<1>8. PagesThere(tr, q)
  <2>1. q.part = 1
    BY <1>1
  <2>2. SUFFICES ASSUME q.at = "copy", q.op = "write"
        PROVE  There(tr, PageOf(q.sector)) /\ There(tr, PageOf(q.sector + Head(q.segs) - 1))
    BY <2>1 DEF PagesThere
  <2>3. n < h /\ r.op = "write"
    BY <1>1, <1>2, <1>3, <2>2
  <2>4. PageOf(q.sector) = PageOf(r.sector) + 1
    BY <1>1, <1>2, <2>3, NextPage
  <2>5. q.sector + Head(q.segs) - 1 = r.sector + h - 1
    <3>1. q.sector = r.sector + n /\ Head(q.segs) = h - n
      BY <1>1, <2>3
    <3>2. h \in Nat /\ n \in Nat /\ r.sector \in Nat
      BY <1>1, <1>2, Sizes
    <3>3. PICK a \in Nat : a = r.sector
      BY <3>2
    <3>4. (a + n) + (h - n) - 1 = a + h - 1
      BY <3>2
    <3>. QED
      BY <3>1, <3>3, <3>4
  <2>6. Spans(r)
    BY <1>0, <2>3 DEF Spans
  <2>7. PageOf(r.sector + h - 1) = PageOf(r.sector) + 1
    BY <1>0, <1>2, <2>6, PagesOfSegment
  <2>8. There(tr, PageOf(r.sector + h - 1))
    BY <1>0, <2>3 DEF PagesThere
  <2>. QED
    BY <2>4, <2>5, <2>7, <2>8
<1>. QED
  BY <1>7, <1>8

\* What copy_to_brd leaves of a write.
WriteNext(r) ==
    [Advance(r, Copy1(r)) EXCEPT !.data = SubSeq(@, Copy1(r) + 1, Len(@))]

\* A write has as many sectors of data as it has still to write.
LEMMA WriteGoesOn ==
    ASSUME NEW tr, NEW r, RequestOK(r), r.at = "copy", r.op = "write", PagesThere(tr, r)
    PROVE  /\ RequestOK(WriteNext(r)) /\ PagesThere(tr, WriteNext(r))
           /\ WriteNext(r).at # "idle" /\ WriteNext(r).at \notin {"flush", "flushed"}
           /\ WriteNext(r).op = "write" /\ WriteNext(r).sector = r.sector + Copy1(r)
           /\ Sectors(WriteNext(r).segs) = Sectors(r.segs) - Copy1(r)
           /\ WriteNext(r).data = SubSeq(r.data, Copy1(r) + 1, Len(r.data))
           /\ WriteNext(r).got = r.got
<1>1. PICK n : n = Copy1(r)
  OBVIOUS
<1>2. PICK h : h = Head(r.segs)
  OBVIOUS
<1>3. PICK w : w = Advance(r, n)
  OBVIOUS
<1>4. /\ w \in IoRecord /\ w.op = r.op /\ w.data = r.data /\ w.got = r.got /\ w.part = 1
      /\ n \in Nat /\ n <= Sectors(r.segs) /\ Sectors(r.segs) \in Nat
      /\ w.sector = r.sector + n /\ Sectors(w.segs) = Sectors(r.segs) - n
      /\ w.at \in {"setup", "copy", "done"}
  <2>1. /\ w \in IoRecord /\ w.op = r.op /\ w.data = r.data /\ w.got = r.got /\ w.part = 1
        /\ n \in Nat /\ n <= Sectors(r.segs) /\ Sectors(r.segs) \in Nat
        /\ w.sector = r.sector + n /\ Sectors(w.segs) = Sectors(r.segs) - n
        /\ IF n < h THEN w.at = "copy"
           ELSE w.at = IF w.segs = <<>> THEN "done" ELSE FirstStep(r.op)
    BY <1>1, <1>2, <1>3, Advances
  <2>. QED
    BY <2>1, FirstSteps
<1>5. r \in IoRecord /\ Len(r.data) = Sectors(r.segs) /\ r.got = <<>>
  BY DEF RequestOK
<1>6. r.data \in Seq(Contents)
  BY <1>5 DEF IoRecord
<1>7. PICK d : d = SubSeq(r.data, n + 1, Len(r.data))
  OBVIOUS
<1>8. d \in Seq(Contents) /\ Len(d) = Sectors(r.segs) - n
  BY <1>4, <1>5, <1>6, <1>7, Dropped
<1>9. PICK q : q = [w EXCEPT !.data = d]
  OBVIOUS
<1>10. /\ q \in IoRecord /\ q.at = w.at /\ q.op = w.op /\ q.sector = w.sector /\ q.segs = w.segs
       /\ q.part = w.part /\ q.data = d /\ q.got = w.got
  BY <1>4, <1>8, <1>9 DEF IoRecord
<1>11. q = WriteNext(r)
  <2>1. [w EXCEPT !.data = SubSeq(@, n + 1, Len(@))] = [w EXCEPT !.data = d]
    BY <1>4, <1>7
  <2>. QED
    BY <1>1, <1>3, <1>9, <2>1 DEF WriteNext
<1>12. RequestOK(q) /\ PagesThere(tr, q)
  BY <1>1, <1>3, <1>4, <1>5, <1>8, <1>10, CopyGoesOn
<1>. QED
  BY <1>1, <1>4, <1>7, <1>10, <1>11, <1>12

\* What copy_from_brd leaves of a read.
ReadNext(tr, r) ==
    [Advance(r, Copy1(r)) EXCEPT !.got = @ \o [i \in 1 .. Copy1(r) |->
        IF tr[PageOf(r.sector)] = NoPage THEN Zero ELSE OnPage(tr, r.sector + i - 1)]]

TreeType == [0 .. Pages - 1 -> [1 .. PageSectors -> Contents] \cup {NoPage}]

\* What is read of a page, or of none, is contents of sectors.
LEMMA ReadIsContents ==
    ASSUME NEW tr \in TreeType, NEW s \in Nat, s < Capacity, NEW n \in Nat,
           n <= PageSectors - (s % PageSectors)
    PROVE  [i \in 1 .. n |-> IF tr[PageOf(s)] = NoPage THEN Zero ELSE OnPage(tr, s + i - 1)]
             \in Seq(Contents)
<1>1. Zero \in Contents
  BY RamDiskAssumption
<1>. DEFINE f == [i \in 1 .. n |-> IF tr[PageOf(s)] = NoPage THEN Zero ELSE OnPage(tr, s + i - 1)]
<1>0. \A g \in [1 .. n -> Contents] : g \in Seq(Contents)
  OBVIOUS
<1>2. SUFFICES ASSUME NEW i \in 1 .. n, tr[PageOf(s)] # NoPage
      PROVE  OnPage(tr, s + i - 1) \in Contents
  <2>1. ASSUME \A i \in 1 .. n : tr[PageOf(s)] # NoPage => OnPage(tr, s + i - 1) \in Contents
        PROVE  f \in [1 .. n -> Contents]
    BY <1>1, <2>1
  <2>2. f \in [1 .. n -> Contents] => f \in Seq(Contents)
    <3>. HIDE DEF f
    <3>. QED  BY <1>0
  <2>. QED
    BY <2>1, <2>2
<1>3. /\ s % PageSectors \in 0 .. PageSectors - 1 /\ i - 1 \in Nat
      /\ (s % PageSectors) + (i - 1) < PageSectors /\ s + (i - 1) = s + i - 1
  BY PageAndPlace, Sizes
<1>4. PageOf(s + (i - 1)) = PageOf(s) /\ (s + (i - 1)) % PageSectors = (s % PageSectors) + (i - 1)
  BY <1>3, SamePage
<1>5. PageOf(s) \in 0 .. Pages - 1
  BY PageExists
<1>6. tr[PageOf(s)] \in [1 .. PageSectors -> Contents]
  BY <1>2, <1>5 DEF TreeType
<1>7. (s % PageSectors) + (i - 1) + 1 \in 1 .. PageSectors
  BY <1>3, Sizes
<1>8. tr[PageOf(s)][(s % PageSectors) + (i - 1) + 1] \in Contents
  BY <1>6, <1>7
<1>. QED
  BY <1>3, <1>4, <1>8 DEF OnPage

\* A set of numbers that is not empty has a smallest one.
LEMMA Smallest ==
    ASSUME NEW S \in SUBSET Nat, S # {}
    PROVE  Min(S) \in S /\ \A x \in S : Min(S) <= x
<1>1. PICK R : R = OpToRel(<, Nat)
  OBVIOUS
<1>2. IsWellFoundedOn(R, Nat)
  BY <1>1, NatLessThanWellFounded
<1>3. PICK m \in S : \A y \in S : ~(<<y, m>> \in R)
  BY <1>2, WFMin
<1>4. \A y \in S : m <= y
  <2>. SUFFICES ASSUME NEW y \in S, y < m PROVE FALSE
    OBVIOUS
  <2>1. <<y, m>> \in Nat \X Nat
    OBVIOUS
  <2>2. <<y, m>> \in R
    BY <1>1, <2>1 DEF OpToRel
  <2>. QED
    BY <1>3, <2>2
<1>. QED
  BY <1>3, <1>4 DEF Min

\* A set of numbers below a bound has a largest one.
LEMMA Largest ==
    ASSUME NEW n \in Nat, NEW S \in SUBSET (0 .. n), S # {}
    PROVE  Max(S) \in S /\ \A x \in S : x <= Max(S)
<1>. DEFINE T == {k \in 0 .. n : n - k \in S}
<1>1. T \in SUBSET Nat
  OBVIOUS
<1>2. T # {}
  <2>1. PICK x \in S : TRUE
    OBVIOUS
  <2>2. n - x \in 0 .. n /\ n - (n - x) = x
    OBVIOUS
  <2>3. n - x \in T
    BY <2>2
  <2>. QED
    BY <2>3
<1>3. PICK m : m = Min(T)
  OBVIOUS
<1>4. m \in T /\ \A k \in T : m <= k
  <2>. HIDE DEF T
  <2>. QED  BY <1>1, <1>2, <1>3, Smallest
<1>5. n - m \in S /\ m \in 0 .. n
  BY <1>4
<1>6. ASSUME NEW y \in S PROVE n - m >= y
  <2>1. n - y \in 0 .. n /\ n - (n - y) = y
    OBVIOUS
  <2>2. n - y \in T
    BY <2>1
  <2>3. m <= n - y
    BY <1>4, <2>2
  <2>. QED
    BY <1>5, <2>3
<1>7. \E x \in S : \A y \in S : x >= y
  BY <1>5, <1>6
<1>8. Max(S) \in S /\ \A y \in S : Max(S) >= y
  BY <1>7 DEF Max
<1>. QED
  BY <1>8

\* The pages that a batch is taken from, and those of them before p.
Pool(tr, pos) == {p \in DOMAIN tr : p >= pos /\ tr[p] # NoPage}
Before(tr, pos, p) == {q \in Pool(tr, pos) : q < p}

\* Both are finite.
LEMMA PoolFinite ==
    ASSUME NEW tr \in TreeType, NEW pos \in Nat
    PROVE  /\ Pool(tr, pos) \in SUBSET (0 .. Pages - 1)
           /\ Pool(tr, pos) = {p \in 0 .. Pages - 1 : p >= pos /\ tr[p] # NoPage}
           /\ \A S \in SUBSET Pool(tr, pos) : IsFiniteSet(S) /\ Cardinality(S) \in Nat
           /\ \A S \in SUBSET Pool(tr, pos) : \A T \in SUBSET S : Cardinality(T) <= Cardinality(S)
<1>1. Pool(tr, pos) = {p \in 0 .. Pages - 1 : p >= pos /\ tr[p] # NoPage}
  BY DEF Pool, TreeType
<1>2. IsFiniteSet(0 .. Pages - 1)
  <2>1. 0 \in Int /\ Pages - 1 \in Int
    BY Sizes
  <2>. QED
    BY <2>1, FS_Interval
<1>3. \A S \in SUBSET (0 .. Pages - 1) : IsFiniteSet(S) /\ Cardinality(S) \in Nat
  BY <1>2, FS_Subset, FS_CardinalityType
<1>4. \A S \in SUBSET (0 .. Pages - 1) : \A T \in SUBSET S : Cardinality(T) <= Cardinality(S)
  BY <1>3, FS_Subset
<1>5. Pool(tr, pos) \in SUBSET (0 .. Pages - 1)
  BY <1>1
<1>. QED
  BY <1>1, <1>3, <1>4, <1>5

\* The pages of a batch are the lowest ones: no page is passed over, and a
\* batch that is not full is all there is.
LEMMA BatchIsLowest ==
    ASSUME tree \in TreeType, NEW pos \in Nat
    PROVE  /\ Batch(pos) \in SUBSET (0 .. Pages - 1)
           /\ Batch(pos) \in SUBSET Pool(tree, pos)
           /\ Cardinality(Batch(pos)) \in Nat
           /\ \A p \in Pool(tree, pos), q \in Batch(pos) : p <= q => p \in Batch(pos)
           /\ Cardinality(Batch(pos)) # FreeBatch => Batch(pos) = Pool(tree, pos)
<1>. DEFINE P == Pool(tree, pos)
            B == Batch(pos)
<1>1. B = {p \in P : Cardinality(Before(tree, pos, p)) < FreeBatch}
  BY DEF Batch, Pool, Before
<1>2. /\ P \in SUBSET (0 .. Pages - 1)
      /\ \A S \in SUBSET P : IsFiniteSet(S) /\ Cardinality(S) \in Nat
      /\ \A S \in SUBSET P : \A T \in SUBSET S : Cardinality(T) <= Cardinality(S)
  BY PoolFinite
<1>3. B \in SUBSET P
  BY <1>1
<1>4. \A p \in P : Before(tree, pos, p) = {q \in P : q < p}
  BY DEF Before
<1>. HIDE DEF B, P
<1>8. \A x \in P : x \in Nat
  BY <1>2
<1>5. ASSUME NEW p \in P, NEW q \in B, p <= q
      PROVE  p \in B
  <2>1. /\ Before(tree, pos, p) \in SUBSET Before(tree, pos, q)
        /\ Before(tree, pos, q) \in SUBSET P /\ Before(tree, pos, p) \in SUBSET P
    <3>1. p \in Nat /\ q \in Nat /\ q \in P
      BY <1>3, <1>8
    <3>2. ASSUME NEW x \in P, x < p PROVE x < q
      <4>1. x \in Nat /\ x < p /\ p <= q
        BY <1>5, <1>8, <3>2
      <4>. QED
        BY <3>1, <4>1
    <3>3. /\ Before(tree, pos, p) = {x \in P : x < p}
          /\ Before(tree, pos, q) = {x \in P : x < q}
      BY <1>4, <3>1
    <3>. QED
      BY <3>2, <3>3
  <2>2. Cardinality(Before(tree, pos, p)) <= Cardinality(Before(tree, pos, q))
    BY <1>2, <2>1
  <2>3. Cardinality(Before(tree, pos, q)) < FreeBatch
    BY <1>1
  <2>4. Cardinality(Before(tree, pos, p)) \in Nat /\ Cardinality(Before(tree, pos, q)) \in Nat
    BY <1>2, <2>1
  <2>. QED
    BY <1>1, <2>2, <2>3, <2>4, Sizes
<1>6. ASSUME B # P
      PROVE  Cardinality(B) = FreeBatch
  <2>1. PICK p : p = Min(P \ B)
    OBVIOUS
  <2>2. p \in P \ B /\ \A x \in P \ B : p <= x
    <3>1. P \ B \in SUBSET Nat /\ P \ B # {}
      BY <1>3, <1>6, <1>8
    <3>. QED
      BY <2>1, <3>1, Smallest
  <2>3. B = Before(tree, pos, p)
    <3>1. ASSUME NEW x \in B PROVE x < p
      <4>1. x \in Nat /\ p \in Nat /\ x \in P
        BY <1>2, <1>3, <2>2
      <4>. QED
        BY <1>5, <2>2, <4>1
    <3>2. ASSUME NEW x \in P, x < p PROVE x \in B
      <4>1. x \in Nat /\ p \in Nat
        BY <1>2, <2>2
      <4>. QED
        BY <2>2, <3>2, <4>1
    <3>. QED
      BY <1>3, <1>4, <2>2, <3>1, <3>2
  <2>4. ~(Cardinality(B) < FreeBatch)
    BY <1>1, <2>2, <2>3
  <2>5. Cardinality(B) \in Nat /\ IsFiniteSet(B)
    BY <1>2, <1>3
  <2>6. B # {}
    BY <2>4, <2>5, FS_EmptySet, Sizes
  <2>7. PICK m : m = Max(B)
    OBVIOUS
  <2>8. m \in B /\ \A x \in B : x <= m
    <3>1. B \in SUBSET (0 .. Pages - 1) /\ Pages - 1 \in Nat
      BY <1>2, <1>3, Sizes
    <3>. QED
      BY <2>6, <2>7, <3>1, Largest
  <2>9. Before(tree, pos, m) = B \ {m}
    <3>1. \A x \in P : x \in Nat
      BY <1>2
    <3>2. m \in P /\ m \in Nat
      BY <1>3, <2>8, <3>1
    <3>3. ASSUME NEW x \in P PROVE x < m <=> x \in B /\ x # m
      BY <1>5, <2>8, <3>1, <3>2
    <3>. QED
      BY <1>3, <1>4, <3>2, <3>3
  <2>10. Cardinality(B \ {m}) < FreeBatch
    BY <1>1, <2>8, <2>9
  <2>11. Cardinality(B \ {m}) = Cardinality(B) - 1
    BY <2>5, <2>8, FS_RemoveElement
  <2>. QED
    BY <2>4, <2>5, <2>10, <2>11, Sizes
<1>7. B \in SUBSET (0 .. Pages - 1) /\ Cardinality(B) \in Nat
  BY <1>2, <1>3
<1>. QED
  BY <1>3, <1>5, <1>6, <1>7 DEF B, P

\* A read that has copied what lies on one page is still one.
LEMMA ReadGoesOn ==
    ASSUME NEW tr \in TreeType, NEW r, RequestOK(r), r.at = "copy", r.op = "read"
    PROVE  /\ RequestOK(ReadNext(tr, r)) /\ PagesThere(tr, ReadNext(tr, r))
           /\ ReadNext(tr, r).at # "idle" /\ ReadNext(tr, r).at \notin {"flush", "flushed"}
           /\ ReadNext(tr, r).op = "read" /\ ReadNext(tr, r).sector = r.sector + Copy1(r)
           /\ Sectors(ReadNext(tr, r).segs) = Sectors(r.segs) - Copy1(r)
           /\ ReadNext(tr, r).data = r.data
           /\ ReadNext(tr, r).got = r.got \o [i \in 1 .. Copy1(r) |->
                IF tr[PageOf(r.sector)] = NoPage THEN Zero ELSE OnPage(tr, r.sector + i - 1)]
<1>1. PICK n : n = Copy1(r)
  OBVIOUS
<1>2. PICK h : h = Head(r.segs)
  OBVIOUS
<1>3. PICK w : w = Advance(r, n)
  OBVIOUS
<1>4. /\ w \in IoRecord /\ w.op = r.op /\ w.data = r.data /\ w.got = r.got /\ w.part = 1
      /\ n \in Nat /\ n <= PageSectors - (r.sector % PageSectors)
      /\ n <= h /\ h \in 1 .. PageSectors
      /\ w.sector = r.sector + n /\ Sectors(w.segs) = Sectors(r.segs) - n
      /\ w.at \in {"copy", "done"}
  <2>1. /\ w \in IoRecord /\ w.op = r.op /\ w.data = r.data /\ w.got = r.got /\ w.part = 1
        /\ n \in Nat /\ n <= PageSectors - (r.sector % PageSectors)
        /\ n <= h /\ h \in 1 .. PageSectors
        /\ w.sector = r.sector + n /\ Sectors(w.segs) = Sectors(r.segs) - n
        /\ IF n < h THEN w.at = "copy"
           ELSE w.at = IF w.segs = <<>> THEN "done" ELSE FirstStep(r.op)
    BY <1>1, <1>2, <1>3, Advances
  <2>. QED
    BY <2>1, FirstSteps
<1>5. r \in IoRecord /\ Len(r.data) = 0
  BY DEF RequestOK
<1>6. PICK f : f = [i \in 1 .. n |-> IF tr[PageOf(r.sector)] = NoPage THEN Zero
                                     ELSE OnPage(tr, r.sector + i - 1)]
  OBVIOUS
<1>7. f \in Seq(Contents)
  <2>1. r.sector \in Nat /\ r.sector + h <= Capacity
    BY <1>2, Going DEF Onward
  <2>2. r.sector < Capacity
    BY <1>4, <2>1, Sizes
  <2>. QED
    BY <1>4, <1>6, <2>1, <2>2, ReadIsContents
<1>8. PICK g : g = r.got \o f
  OBVIOUS
<1>9. g \in Seq(Contents)
  <2>1. r.got \in Seq(Contents)
    BY <1>5 DEF IoRecord
  <2>. QED
    BY <1>7, <1>8, <2>1
<1>10. PICK q : q = [w EXCEPT !.got = g]
  OBVIOUS
<1>11. /\ q \in IoRecord /\ q.at = w.at /\ q.op = w.op /\ q.sector = w.sector /\ q.segs = w.segs
       /\ q.part = w.part /\ q.data = w.data /\ q.got = g
  BY <1>4, <1>9, <1>10 DEF IoRecord
<1>12. q = ReadNext(tr, r)
  <2>1. [w EXCEPT !.got = @ \o f] = [w EXCEPT !.got = g]
    BY <1>4, <1>8
  <2>. QED
    BY <1>1, <1>3, <1>6, <1>10, <2>1 DEF ReadNext
<1>13. RequestOK(q) /\ PagesThere(tr, q)
  <2>1. PagesThere(tr, r)
    <3>1. r.part # 2
      BY DEF RequestOK
    <3>. QED
      BY <3>1 DEF PagesThere
  <2>. QED
    BY <1>1, <1>3, <1>4, <1>5, <1>11, <2>1, CopyGoesOn
<1>. QED
  BY <1>1, <1>4, <1>6, <1>8, <1>11, <1>12, <1>13

\* A discard does whole pages.
LEMMA DiscardGoesOn ==
    ASSUME NEW tr, NEW r, RequestOK(r), r.at = "zero"
    PROVE  /\ RequestOK(DiscardNext(r)) /\ PagesThere(tr, DiscardNext(r))
           /\ DiscardNext(r).at \in {"zero", "done"}
           /\ DiscardNext(r).op = "discard" /\ DiscardNext(r).sector = r.sector + PageSectors
           /\ PageSectors <= Sectors(r.segs) /\ Sectors(r.segs) \in Nat
           /\ Sectors(DiscardNext(r).segs) = Sectors(r.segs) - PageSectors
           /\ DiscardNext(r).data = <<>> /\ DiscardNext(r).got = <<>> /\ r.data = <<>>
           /\ r.sector + PageSectors <= Capacity
<1>1. /\ r \in IoRecord /\ r.op = "discard" /\ r.segs # <<>> /\ r.sector % PageSectors = 0
      /\ Sectors(r.segs) % PageSectors = 0 /\ r.segs \in Seq(Nat \ {0}) /\ Len(r.data) = 0
      /\ r.got = <<>> /\ r.part # 2 /\ r.sector + Sectors(r.segs) <= Capacity
  BY DEF RequestOK
<1>2. r.sector \in Nat /\ r.data = <<>> /\ r.part = 1
  BY <1>1 DEF IoRecord
<1>3. Sectors(r.segs) \in Nat /\ Sectors(r.segs) # 0
  <2>1. PICK g \in Seq(Nat) : g = r.segs
    BY <1>1 DEF IoRecord
  <2>2. Head(g) # 0
    <3>1. PICK k \in Seq(Nat \ {0}) : k = r.segs
      BY <1>1
    <3>2. Head(k) \in Nat \ {0}
      BY <1>1, <3>1, HeadTailProperties
    <3>. QED
      BY <2>1, <3>1, <3>2
  <2>. QED
    BY <1>1, <2>1, <2>2, Segments
<1>4. PICK a \in Nat : a = Sectors(r.segs)
  BY <1>3
<1>5. PICK c \in Nat : a = PageSectors * c /\ c # 0
  <2>1. a \div PageSectors \in Nat /\ a = PageSectors * (a \div PageSectors) + (a % PageSectors)
        /\ a % PageSectors = 0
    BY <1>1, <1>4, Division, Sizes
  <2>2. PICK c \in Nat : c = a \div PageSectors
    BY <2>1
  <2>3. a = PageSectors * c + 0
    BY <2>1, <2>2
  <2>4. PageSectors * c \in Nat
    BY Sizes
  <2>5. a = PageSectors * c
    BY <2>3, <2>4
  <2>6. c # 0
    <3>1. PageSectors * 0 = 0
      BY Sizes
    <3>. QED
      BY <1>3, <1>4, <2>5, <3>1
  <2>. QED
    BY <2>5, <2>6
<1>6. /\ PageSectors <= a /\ (a - PageSectors) % PageSectors = 0
  <2>1. PICK b \in Nat : c = b + 1
    <3>1. c - 1 \in Nat /\ c = (c - 1) + 1
      BY <1>5
    <3>. QED
      BY <3>1
  <2>2. PageSectors * (b + 1) = PageSectors * b + PageSectors /\ PageSectors * b \in Nat
    BY Sizes
  <2>3. a - PageSectors = PageSectors * b + 0 /\ PageSectors <= a
    <3>1. a = PageSectors * b + PageSectors
      BY <1>5, <2>1, <2>2
    <3>. QED
      BY <2>2, <3>1, Sizes
  <2>4. 0 \in 0 .. PageSectors - 1
    BY Sizes
  <2>5. (PageSectors * b + 0) % PageSectors = 0
    BY <2>4, DivisionIsUnique, Sizes
  <2>. QED
    BY <2>3, <2>5
<1>7. PICK left \in Nat : left = a - PageSectors
  BY <1>6, Sizes
<1>8. (r.sector + PageSectors) % PageSectors = 0 /\ r.sector + PageSectors \in Nat
  <2>1. PageSectors - (r.sector % PageSectors) = PageSectors
    BY <1>1, Sizes
  <2>2. (r.sector + PageSectors) % PageSectors = 0
    BY <1>2, <2>1, NextPage
  <2>. QED
    BY <1>2, <2>2, Sizes
<1>9. PICK g : g = IF left = 0 THEN <<>> ELSE <<left>>
  OBVIOUS
<1>10. /\ g \in Seq(Nat) /\ Sectors(g) = left /\ g \in Seq(Nat \ {0}) /\ (left # 0 => g # <<>>)
  <2>1. CASE left = 0
    <3>1. g = <<>>
      BY <1>9, <2>1
    <3>2. <<>> \in Seq(Nat) /\ <<>> \in Seq(Nat \ {0})
      OBVIOUS
    <3>. QED
      BY <2>1, <3>1, <3>2, SectorsEmpty
  <2>2. CASE left # 0
    <3>1. g = <<left>>
      BY <1>9, <2>2
    <3>2. <<left>> \in Seq(Nat) /\ <<left>> \in Seq(Nat \ {0}) /\ <<left>> # <<>>
      BY <2>2
    <3>3. <<>> \in Seq(Nat)
      OBVIOUS
    <3>4. Sectors(<<left>>) = left
      BY <3>3, SectorsCons
    <3>. QED
      BY <3>1, <3>2, <3>4
  <2>. QED
    BY <2>1, <2>2
<1>11. PICK k \in Nat : k = r.sector + PageSectors
  BY <1>8
<1>12. PICK t \in {"done", "zero"} : t = IF left = 0 THEN "done" ELSE "zero"
  OBVIOUS
<1>13. PICK q : q = [r EXCEPT !.sector = k, !.segs = g, !.at = t]
  OBVIOUS
<1>14. q = DiscardNext(r)
  <2>1. r.sector + PageSectors = k /\ Sectors(r.segs) - PageSectors = left
    BY <1>4, <1>7, <1>11
  <2>2. DiscardNext(r) = [r EXCEPT !.sector = r.sector + PageSectors,
            !.segs = IF Sectors(r.segs) - PageSectors = 0 THEN <<>>
                     ELSE <<Sectors(r.segs) - PageSectors>>,
            !.at = IF Sectors(r.segs) - PageSectors = 0 THEN "done" ELSE "zero"]
    BY <1>1 DEF DiscardNext
  <2>. QED
    BY <1>9, <1>12, <1>13, <2>1, <2>2
<1>15. /\ q \in IoRecord /\ q.at = t /\ q.op = r.op /\ q.sector = k /\ q.segs = g
       /\ q.part = r.part /\ q.data = r.data /\ q.got = r.got
  <2>1. r \in IoRecord
    BY <1>1
  <2>2. g \in Seq(Nat)
    BY <1>10
  <2>. QED
    BY <1>13, <2>1, <2>2 DEF IoRecord
<1>16. q.sector + Sectors(q.segs) <= Capacity /\ k + left = r.sector + a
  BY <1>1, <1>2, <1>4, <1>7, <1>10, <1>11, <1>15, Sizes
<1>17. RequestOK(q)
  <2>1. /\ q.segs \in Seq(Nat \ {0}) /\ q.op = "discard" /\ q.got = <<>>
        /\ Len(q.data) = 0 /\ q.part # 2
    BY <1>1, <1>10, <1>15
  <2>2. q.at = "zero" => /\ q.segs # <<>> /\ q.sector % PageSectors = 0
                         /\ Sectors(q.segs) % PageSectors = 0
    BY <1>6, <1>7, <1>8, <1>10, <1>11, <1>12, <1>15
  <2>3. q.at = "done" => q.segs = <<>>
    BY <1>9, <1>12, <1>15
  <2>. QED
    BY <1>15, <1>16, <2>1, <2>2, <2>3 DEF RequestOK, Onward
<1>18. PagesThere(tr, q)
  BY <1>1, <1>15 DEF PagesThere
<1>19. r.sector + PageSectors <= Capacity
  BY <1>1, <1>2, <1>4, <1>6, Sizes
<1>. QED
  BY <1>1, <1>2, <1>4, <1>6, <1>7, <1>10, <1>11, <1>14, <1>15, <1>17, <1>18, <1>19

\* The sectors before a page are those of the pages before it.
LEMMA BeforePage ==
    ASSUME NEW s \in Nat, NEW p \in Nat
    PROVE  s < PageSectors * p <=> PageOf(s) < p
<1>1. /\ PageOf(s) \in Nat /\ s % PageSectors \in 0 .. PageSectors - 1
      /\ PageSectors * PageOf(s) \in Nat /\ s = PageSectors * PageOf(s) + (s % PageSectors)
      /\ PageSectors * p \in Nat
  BY PageAndPlace, Sizes
<1>2. PICK q \in Nat : q = PageOf(s)
  BY <1>1
<1>3. q < p => PageSectors * q + PageSectors <= PageSectors * p
  BY ProductGrows, Sizes
<1>4. p < q => PageSectors * p + PageSectors <= PageSectors * q
  BY ProductGrows, Sizes
<1>5. p = q => PageSectors * p = PageSectors * q
  OBVIOUS
<1>. QED
  BY <1>1, <1>2, <1>3, <1>4, <1>5, Sizes

\* Where brd_free_pages goes on after a batch, and what it leaves of a flush.
After(batch) ==
    IF Cardinality(batch) = FreeBatch THEN (Max(batch) + 1) * PageSectors ELSE Capacity
FlushNext(r, batch) ==
    [r EXCEPT !.sector = After(batch), !.segs = <<Capacity - After(batch)>>,
              !.at = IF Cardinality(batch) = FreeBatch THEN "flush" ELSE "flushed"]

\* A batch is of the pages from the one where the flush is up to the one where
\* it goes on, and those alone.
LEMMA BatchIsRun ==
    ASSUME tree \in TreeType, NEW s \in Nat, s <= Capacity, s % PageSectors = 0,
           NEW batch, batch = Batch(PageOf(s))
    PROVE  /\ After(batch) \in Nat /\ After(batch) <= Capacity /\ s <= After(batch)
           /\ After(batch) % PageSectors = 0
           /\ batch \in SUBSET (0 .. Pages - 1)
           /\ \A x \in 0 .. Capacity - 1 : tree[PageOf(x)] # NoPage =>
                (PageOf(x) \in batch <=> x \in s .. After(batch) - 1)
<1>1. PICK pos \in Nat : /\ pos = PageOf(s) /\ s = PageSectors * pos
  <2>1. PageOf(s) \in Nat /\ PageSectors * PageOf(s) \in Nat
        /\ s = PageSectors * PageOf(s) + (s % PageSectors)
    BY PageAndPlace
  <2>. QED
    BY <2>1
<1>2. PICK P : P = Pool(tree, pos)
  OBVIOUS
<1>3. /\ batch \in SUBSET (0 .. Pages - 1) /\ batch \in SUBSET P /\ Cardinality(batch) \in Nat
      /\ \A p \in P, q \in batch : p <= q => p \in batch
      /\ Cardinality(batch) # FreeBatch => batch = P
      /\ P = {p \in 0 .. Pages - 1 : p >= pos /\ tree[p] # NoPage}
  BY <1>1, <1>2, BatchIsLowest, PoolFinite
<1>4. ASSUME NEW x \in 0 .. Capacity - 1, tree[PageOf(x)] # NoPage
      PROVE  /\ x \in Nat /\ PageOf(x) \in 0 .. Pages - 1 /\ PageOf(x) \in Nat
             /\ s <= x <=> PageOf(x) \in P
  <2>1. x \in Nat /\ PageOf(x) \in 0 .. Pages - 1 /\ PageOf(x) \in Nat
    <3>1. x \in Nat /\ x < Capacity
      BY Sizes
    <3>2. PageOf(x) \in 0 .. Pages - 1
      BY <3>1, PageExists
    <3>3. PageOf(x) \in Nat
      BY <3>1, PageAndPlace
    <3>. QED
      BY <3>1, <3>2, <3>3
  <2>2. x < s <=> PageOf(x) < pos
    BY <1>1, <2>1, BeforePage
  <2>3. PageOf(x) \in P <=> PageOf(x) >= pos
    BY <1>3, <1>4, <2>1
  <2>. QED
    BY <2>1, <2>2, <2>3
<1>5. CASE Cardinality(batch) # FreeBatch
  <2>1. After(batch) = Capacity /\ batch = P
    BY <1>3, <1>5 DEF After
  <2>2. Capacity % PageSectors = 0
    <3>1. Pages \in Nat /\ Capacity = Pages * PageSectors
      BY Sizes DEF Capacity
    <3>. QED
      BY <3>1, FirstOfPage
  <2>3. ASSUME NEW x \in 0 .. Capacity - 1, tree[PageOf(x)] # NoPage
        PROVE  PageOf(x) \in batch <=> x \in s .. After(batch) - 1
    BY <1>4, <2>1, <2>3, Sizes
  <2>. QED
    BY <1>3, <2>1, <2>2, <2>3, Sizes
<1>6. CASE Cardinality(batch) = FreeBatch
  <2>1. batch # {}
    BY <1>6, FS_EmptySet, Sizes
  <2>2. PICK m : m = Max(batch)
    OBVIOUS
  <2>3. m \in batch /\ \A x \in batch : x <= m
    <3>1. Pages - 1 \in Nat
      BY Sizes
    <3>. QED
      BY <1>3, <2>1, <2>2, <3>1, Largest
  <2>4. m \in Nat /\ m \in 0 .. Pages - 1 /\ pos <= m /\ m + 1 \in Nat /\ m + 1 <= Pages
    BY <1>3, <2>3, Sizes
  <2>5. PICK n \in Nat : n = m + 1
    BY <2>4
  <2>6. /\ After(batch) = PageSectors * n /\ n * PageSectors \in Nat
        /\ n * PageSectors = PageSectors * n /\ (n * PageSectors) % PageSectors = 0
    BY <1>6, <2>2, <2>5, FirstOfPage DEF After
  <2>7. PageSectors * n <= Capacity
    <3>1. n < Pages => PageSectors * n + PageSectors <= PageSectors * Pages
      BY ProductGrows, Sizes
    <3>2. n = Pages => PageSectors * n = PageSectors * Pages
      OBVIOUS
    <3>. QED
      BY <2>4, <2>5, <2>6, <3>1, <3>2, Sizes, WholeDisk
  <2>8. s <= PageSectors * n
    <3>1. PageSectors * pos + PageSectors <= PageSectors * n
      BY <2>4, <2>5, ProductGrows, Sizes
    <3>. QED
      BY <1>1, <2>6, <3>1, Sizes
  <2>9. ASSUME NEW x \in 0 .. Capacity - 1, tree[PageOf(x)] # NoPage
        PROVE  PageOf(x) \in batch <=> x \in s .. After(batch) - 1
    <3>1. x \in Nat /\ PageOf(x) \in Nat /\ (s <= x <=> PageOf(x) \in P)
      BY <1>4, <2>9
    <3>2. x < PageSectors * n <=> PageOf(x) < n
      BY <3>1, BeforePage
    <3>3. PageOf(x) \in batch <=> PageOf(x) \in P /\ PageOf(x) <= m
      BY <1>3, <2>3
    <3>4. PageOf(x) < n <=> PageOf(x) <= m
      BY <2>4, <2>5, <3>1
    <3>5. x < After(batch) <=> PageOf(x) <= m
      BY <2>6, <3>2, <3>4
    <3>6. x \in s .. After(batch) - 1 <=> s <= x /\ x < After(batch)
      <4>1. PICK a \in Nat : a = After(batch)
        BY <2>6
      <4>. QED
        BY <3>1, <4>1
    <3>. QED
      BY <3>1, <3>3, <3>5, <3>6
  <2>. QED
    BY <1>3, <2>6, <2>7, <2>8, <2>9
<1>. QED
  BY <1>5, <1>6

\* A flush that has freed a batch of pages is still one.
LEMMA FlushGoesOn ==
    ASSUME tree \in TreeType, NEW tr, NEW r, RequestOK(r), r.at = "flush",
           NEW batch, batch = Batch(PageOf(r.sector))
    PROVE  /\ RequestOK(FlushNext(r, batch)) /\ PagesThere(tr, FlushNext(r, batch))
           /\ FlushNext(r, batch).at \in {"flush", "flushed"} /\ FlushNext(r, batch).op = "flush"
           /\ FlushNext(r, batch).sector = After(batch)
           /\ Sectors(FlushNext(r, batch).segs) = Capacity - After(batch)
           /\ FlushNext(r, batch).data = <<>> /\ FlushNext(r, batch).got = <<>>
           /\ r.data = <<>> /\ r.got = <<>> /\ r.op = "flush"
           /\ r.sector \in Nat /\ r.sector <= Capacity /\ r.sector % PageSectors = 0
           /\ Sectors(r.segs) = Capacity - r.sector
<1>1. /\ r \in IoRecord /\ r.op = "flush" /\ r.segs = <<Capacity - r.sector>>
      /\ r.sector % PageSectors = 0 /\ Len(r.data) = 0 /\ r.got = <<>> /\ r.part # 2
      /\ r.sector + Sectors(r.segs) <= Capacity
  BY DEF RequestOK
<1>2. r.sector \in Nat /\ r.data = <<>> /\ r.segs \in Seq(Nat)
  <2>1. r \in IoRecord
    BY <1>1
  <2>2. r.sector \in Nat /\ r.data \in Seq(Contents) /\ r.segs \in Seq(Nat)
    BY <2>1 DEF IoRecord
  <2>. QED
    BY <1>1, <2>2
<1>3. Sectors(r.segs) \in Nat
  BY <1>2, SectorsType
<1>4. r.sector <= Capacity /\ Capacity - r.sector \in Nat
  BY <1>1, <1>2, <1>3, Sizes
<1>5. PICK k \in Nat : k = After(batch)
  BY <1>1, <1>2, <1>4, BatchIsRun
<1>6. k <= Capacity /\ k % PageSectors = 0
  BY <1>1, <1>2, <1>4, <1>5, BatchIsRun
<1>7. PICK left \in Nat : left = Capacity - k
  BY <1>6, Sizes
<1>8. PICK g \in Seq(Nat) : g = <<left>>
  <2>1. <<left>> \in Seq(Nat)
    OBVIOUS
  <2>. QED
    BY <2>1
<1>9. Sectors(g) = left /\ \A x \in Nat : Sectors(<<x>>) = x
  <2>1. <<>> \in Seq(Nat)
    OBVIOUS
  <2>. QED
    BY <1>8, <2>1, SectorsCons
<1>10. PICK t \in {"flush", "flushed"} :
         t = IF Cardinality(batch) = FreeBatch THEN "flush" ELSE "flushed"
  OBVIOUS
<1>11. PICK q : q = [r EXCEPT !.sector = k, !.segs = g, !.at = t]
  OBVIOUS
<1>12. q = FlushNext(r, batch)
  BY <1>5, <1>7, <1>8, <1>10, <1>11 DEF FlushNext
<1>13. /\ q \in IoRecord /\ q.at = t /\ q.op = r.op /\ q.sector = k /\ q.segs = g
       /\ q.part = r.part /\ q.data = r.data /\ q.got = r.got
  <2>1. r \in IoRecord
    BY <1>1
  <2>. QED
    BY <1>11, <2>1 DEF IoRecord
<1>14. t = "flushed" => k = Capacity
  BY <1>5, <1>10 DEF After
<1>15. k + left <= Capacity
  BY <1>6, <1>7, Sizes
<1>16. RequestOK(q)
  <2>1. /\ q.op = "flush" /\ q.segs = <<Capacity - q.sector>> /\ q.sector % PageSectors = 0
        /\ Len(q.data) = 0 /\ q.got = <<>> /\ q.part # 2 /\ q.sector + Sectors(q.segs) <= Capacity
        /\ (q.at = "flushed" => q.sector = Capacity)
    BY <1>1, <1>6, <1>7, <1>8, <1>9, <1>13, <1>14, <1>15
  <2>. QED
    BY <1>13, <2>1 DEF RequestOK, Onward
<1>17. PagesThere(tr, q)
  BY <1>1, <1>13 DEF PagesThere
<1>. QED
  BY <1>1, <1>2, <1>4, <1>5, <1>7, <1>9, <1>12, <1>13, <1>16, <1>17

\* What a user asks of the device, and the request it becomes.
MadeRequest(op, s, segs, data) ==
    [NoIo EXCEPT !.at = FirstStep(op), !.op = op, !.sector = s, !.segs = segs, !.data = data]
FlushRequest == [NoIo EXCEPT !.at = "flush", !.op = "flush", !.segs = <<Capacity>>]

\* The block layer asks for reads and writes by the page, and for discards.
Askable(op, s, segs, data) ==
    /\ op \in {"read", "write", "discard"} /\ s \in Nat /\ segs # <<>>
    /\ op = "discard" => segs \in Seq(Nat \ {0})
    /\ op # "discard" => segs \in Seq(1 .. PageSectors)
    /\ data \in Seq(Contents) /\ Len(data) = IF op = "write" THEN Sectors(segs) ELSE 0

\* A sequence of larger or smaller members.
LEMMA SegmentsAreNumbers ==
    ASSUME NEW segs
    PROVE  segs \in Seq(1 .. PageSectors) \/ segs \in Seq(Nat \ {0}) => segs \in Seq(Nat)
<1>1. 1 .. PageSectors \subseteq Nat /\ Nat \ {0} \subseteq Nat
  BY Sizes
<1>2. \A S, T : S \subseteq T /\ segs \in Seq(S) => segs \in Seq(T)
  <2>. SUFFICES ASSUME NEW S, NEW T, S \subseteq T, segs \in Seq(S) PROVE segs \in Seq(T)
    OBVIOUS
  <2>1. Len(segs) \in Nat /\ segs \in [1 .. Len(segs) -> S]
    OBVIOUS
  <2>2. segs \in [1 .. Len(segs) -> T]
    BY <2>1
  <2>. QED
    BY <2>1, <2>2
<1>. QED
  BY <1>1, <1>2

\* Nobody's request.
LEMMA NoRequest ==
    /\ NoIo \in IoRecord /\ RequestOK(NoIo) /\ \A tr : PagesThere(tr, NoIo)
    /\ NoIo.at = "idle" /\ NoIo.op = "none" /\ NoIo.sector = 0 /\ NoIo.segs = <<>>
    /\ NoIo.part = 1 /\ NoIo.data = <<>> /\ NoIo.got = <<>> /\ Sectors(NoIo.segs) = 0
<1>1. /\ NoIo.at = "idle" /\ NoIo.op = "none" /\ NoIo.sector = 0 /\ NoIo.segs = <<>>
      /\ NoIo.part = 1 /\ NoIo.data = <<>> /\ NoIo.got = <<>>
  BY DEF NoIo
<1>2. Sectors(NoIo.segs) = 0
  BY <1>1, SectorsEmpty
<1>3. NoIo \in IoRecord
  BY DEF NoIo, IoRecord
<1>4. RequestOK(NoIo)
  BY <1>1, <1>2, <1>3, Sizes DEF RequestOK, Onward
<1>5. \A tr : PagesThere(tr, NoIo)
  BY <1>1 DEF PagesThere
<1>. QED
  BY <1>1, <1>2, <1>3, <1>4, <1>5

\* An accepted request is one.
LEMMA MadeRequestOK ==
    ASSUME NEW op, NEW s, NEW segs, NEW data, Askable(op, s, segs, data), Accepted(op, s, segs),
           NEW tr
    PROVE  LET q == MadeRequest(op, s, segs, data)
           IN  /\ RequestOK(q) /\ PagesThere(tr, q)
               /\ q.at \in {"setup", "copy", "zero"} /\ q.op = op /\ q.sector = s /\ q.segs = segs
               /\ q.data = data /\ q.got = <<>> /\ q.part = 1 /\ q.at = FirstStep(op)
<1>1. PICK t : t = FirstStep(op)
  OBVIOUS
<1>2. /\ t = IF op = "write" THEN "setup" ELSE IF op = "read" THEN "copy" ELSE "zero"
      /\ op \in {"read", "write", "discard"} /\ s \in Nat /\ segs # <<>> /\ data \in Seq(Contents)
      /\ segs \in Seq(Nat)
      /\ (op = "discard" => segs \in Seq(Nat \ {0}))
      /\ (op # "discard" => segs \in Seq(1 .. PageSectors))
      /\ Len(data) = IF op = "write" THEN Sectors(segs) ELSE 0
  BY <1>1, FirstSteps, SegmentsAreNumbers DEF Askable
<1>3. s + Sectors(segs) <= Capacity
      /\ (op = "discard" => s % PageSectors = 0 /\ Sectors(segs) % PageSectors = 0)
  BY DEF Accepted
<1>4. PICK q : q = [NoIo EXCEPT !.at = t, !.op = op, !.sector = s, !.segs = segs, !.data = data]
  OBVIOUS
<1>5. q = [at |-> t, op |-> op, sector |-> s, segs |-> segs, part |-> 1, data |-> data,
           got |-> <<>>]
  BY <1>4 DEF NoIo
<1>6. /\ q.at = t /\ q.op = op /\ q.sector = s /\ q.segs = segs /\ q.part = 1
      /\ q.data = data /\ q.got = <<>>
  BY <1>5
<1>7. q \in IoRecord
  <2>1. t \in {"idle", "setup", "insert", "copy", "zero", "flush", "flushed", "done"}
        /\ op \in {"none", "read", "write", "discard", "flush"}
    BY <1>2
  <2>2. s \in Nat /\ segs \in Seq(Nat) /\ data \in Seq(Contents) /\ <<>> \in Seq(Contents)
    BY <1>2
  <2>. QED
    BY <1>5, <2>1, <2>2 DEF IoRecord
<1>8. RequestOK(q)
  BY <1>2, <1>3, <1>6, <1>7 DEF RequestOK, Onward
<1>9. PagesThere(tr, q)
  BY <1>2, <1>6 DEF PagesThere
<1>10. q = MadeRequest(op, s, segs, data)
  BY <1>1, <1>4 DEF MadeRequest
<1>11. q.at \in {"setup", "copy", "zero"} /\ q.at = FirstStep(op)
  BY <1>1, <1>2, <1>6
<1>. QED
  BY <1>6, <1>8, <1>9, <1>10, <1>11

\* BLKFLSBUF is a request for the whole device.
LEMMA FlushRequestOK ==
    ASSUME NEW tr
    PROVE  /\ RequestOK(FlushRequest) /\ PagesThere(tr, FlushRequest)
           /\ FlushRequest.at = "flush" /\ FlushRequest.op = "flush" /\ FlushRequest.sector = 0
           /\ Sectors(FlushRequest.segs) = Capacity /\ FlushRequest.data = <<>>
           /\ FlushRequest.got = <<>> /\ FlushRequest.part = 1
<1>1. PICK g \in Seq(Nat) : g = <<Capacity>>
  <2>1. <<Capacity>> \in Seq(Nat)
    BY Sizes
  <2>. QED
    BY <2>1
<1>2. PICK q : q = [NoIo EXCEPT !.at = "flush", !.op = "flush", !.segs = g]
  OBVIOUS
<1>3. q = [at |-> "flush", op |-> "flush", sector |-> 0, segs |-> g, part |-> 1,
           data |-> <<>>, got |-> <<>>]
  BY <1>2 DEF NoIo
<1>4. /\ q.at = "flush" /\ q.op = "flush" /\ q.sector = 0 /\ q.segs = g /\ q.part = 1
      /\ q.data = <<>> /\ q.got = <<>>
  BY <1>3
<1>5. q \in IoRecord
  <2>1. <<>> \in Seq(Contents) /\ 0 \in Nat
    OBVIOUS
  <2>. QED
    BY <1>3, <2>1 DEF IoRecord
<1>6. Sectors(g) = Capacity
  <2>1. Capacity \in Nat /\ <<>> \in Seq(Nat)
    BY Sizes
  <2>. QED
    BY <1>1, <2>1, SectorsCons
<1>7. 0 % PageSectors = 0 /\ Capacity - 0 = Capacity /\ 0 + Capacity <= Capacity
  <2>1. 0 * PageSectors = 0 /\ (0 * PageSectors) % PageSectors = 0
    BY FirstOfPage, Sizes
  <2>. QED
    BY <2>1, Sizes
<1>8. RequestOK(q)
  <2>1. q.segs = <<Capacity - q.sector>> /\ q.sector % PageSectors = 0 /\ Len(q.data) = 0
        /\ q.sector + Sectors(q.segs) <= Capacity
    BY <1>1, <1>4, <1>6, <1>7
  <2>. QED
    BY <1>4, <1>5, <2>1 DEF RequestOK, Onward
<1>9. PagesThere(tr, q)
  BY <1>4 DEF PagesThere
<1>10. q = FlushRequest
  BY <1>1, <1>2 DEF FlushRequest
<1>. QED
  BY <1>4, <1>6, <1>8, <1>9, <1>10

-----------------------------------------------------------------------------
(* The invariant of the RAM disk.                                          *)

DiskShape ==
    /\ life \in {"unloaded", "allocating", "failed", "live", "going", "gone"}
    /\ opened \in [Users -> BOOLEAN]
    /\ tree \in TreeType
    /\ io \in [Users -> IoRecord]
    /\ ios \in [Users -> Nat] /\ \A u \in Users : ios[u] <= MaxIo[u]

\* The pages that requests have made sure of stay: what frees pages does so
\* while nobody else has the device open.
RequestsOK == \A u \in Users : RequestOK(io[u]) /\ PagesThere(tree, io[u])
OpenToUse == \A u \in Users : io[u].at # "idle" => opened[u]
FlushesAlone ==
    \A u \in Users : io[u].at \in {"flush", "flushed"} => \A v \in Users : opened[v] => v = u

\* Devices are made in their order, added when all are there, and used while
\* the module is loaded; a page belongs to a device.
LifeOK ==
    /\ added \subseteq devices /\ devices \subseteq 0 .. Amount
    /\ life \in {"unloaded", "failed", "gone"} => devices = {}
    /\ life = "allocating" =>
        \E k \in 0 .. Amount : devices = 0 .. k - 1 /\ (added # {} => k = Amount)
    /\ \A u \in Users : opened[u] => life \in {"allocating", "live"} /\ 0 \in added
    /\ \A p \in 0 .. Pages - 1 : There(tree, p) => 0 \in added

DiskInv == DiskShape /\ RequestsOK /\ OpenToUse /\ FlushesAlone /\ LifeOK

\* A module that is loading has as many devices as it counts.
LEMMA Allocated ==
    ASSUME DiskInv, life = "allocating"
    PROVE  /\ Cardinality(devices) \in 0 .. Amount /\ devices = 0 .. Cardinality(devices) - 1
           /\ added # {} => Cardinality(devices) = Amount
<1>1. PICK k \in 0 .. Amount : devices = 0 .. k - 1 /\ (added # {} => k = Amount)
  BY DEF DiskInv, LifeOK
<1>2. k \in Nat /\ 0 \in Int /\ k - 1 \in Int
  BY Sizes
<1>3. Cardinality(0 .. k - 1) = k
  <2>1. PICK m \in Int : m = k - 1
    BY <1>2
  <2>2. Cardinality(0 .. m) = IF 0 > m THEN 0 ELSE m - 0 + 1
    BY FS_Interval
  <2>. QED
    BY <1>2, <2>1, <2>2
<1>. QED
  BY <1>1, <1>3

\* Nobody uses a device that is not there.
LEMMA NobodyUses ==
    ASSUME DiskInv, life \notin {"allocating", "live"} \/ 0 \notin added
    PROVE  /\ \A u \in Users : ~opened[u] /\ io[u] = NoIo
           /\ 0 \notin added => \A p \in 0 .. Pages - 1 : tree[p] = NoPage
<1>1. \A u \in Users : ~opened[u]
  BY DEF DiskInv, LifeOK
<1>2. \A u \in Users : io[u] = NoIo
  BY <1>1 DEF DiskInv, OpenToUse, RequestsOK, RequestOK
<1>3. 0 \notin added => \A p \in 0 .. Pages - 1 : tree[p] = NoPage
  BY DEF DiskInv, LifeOK, There
<1>. QED
  BY <1>1, <1>2, <1>3

\* What only loads and unloads leaves the requests alone.
LEMMA LifecycleInv ==
    ASSUME DiskInv, Lifecycle \/ brd_probe(Amount) \/ Unload
    PROVE  DiskInv'
<1>1. ASSUME UNCHANGED ioVars, life' \in {"allocating", "failed", "live", "going", "gone"}, LifeOK'
      PROVE  DiskInv'
  BY <1>1 DEF DiskInv, DiskShape, RequestsOK, OpenToUse, FlushesAlone, ioVars
<1>2. /\ added \subseteq devices /\ devices \subseteq 0 .. Amount
      /\ life \in {"unloaded", "failed", "gone"} => devices = {}
      /\ \A u \in Users : opened[u] => life \in {"allocating", "live"} /\ 0 \in added
      /\ \A p \in 0 .. Pages - 1 : There(tree, p) => 0 \in added
  BY DEF DiskInv, LifeOK
<1>3. CASE register_blkdev
  <2>1. devices = {} /\ added = {}
    BY <1>2, <1>3 DEF register_blkdev
  <2>2. devices' = 0 .. 0 - 1 /\ added' = {} /\ 0 \in 0 .. Amount
    BY <1>3, <2>1, Sizes DEF register_blkdev
  <2>3. LifeOK'
    BY <1>2, <1>3, <2>1, <2>2 DEF LifeOK, register_blkdev, ioVars
  <2>. QED
    BY <1>1, <1>3, <2>3 DEF register_blkdev
<1>4. CASE brd_alloc
  <2>1. PICK k \in 0 .. Amount : k = Cardinality(devices) /\ devices = 0 .. k - 1 /\ added = {}
    BY <1>4, Allocated, Sizes DEF brd_alloc
  <2>2. k < Amount /\ devices' = devices \cup {k} /\ k \in Nat
    BY <1>4, <2>1, Sizes DEF brd_alloc
  <2>3. devices' = 0 .. (k + 1) - 1 /\ k + 1 \in 0 .. Amount
    <3>1. k \in Nat /\ (k + 1) - 1 = k
      BY <2>2
    <3>2. (0 .. k - 1) \cup {k} = 0 .. k
      BY <3>1
    <3>3. devices' = 0 .. (k + 1) - 1
      BY <2>1, <2>2, <3>1, <3>2
    <3>. QED
      BY <2>2, <3>3, Sizes
  <2>4. devices' \subseteq 0 .. Amount
    BY <2>3, Sizes
  <2>5. \A p \in 0 .. Pages - 1 : There(tree', p) => 0 \in added'
    BY <1>2, <1>4 DEF brd_alloc, ioVars
  <2>6. \A u \in Users : ~opened'[u]
    BY <1>2, <1>4, <2>1 DEF brd_alloc, ioVars
  <2>7. life' = "allocating" /\ added' = {}
    BY <1>4, <2>1 DEF brd_alloc
  <2>8. \E m \in 0 .. Amount : devices' = 0 .. m - 1 /\ (added' # {} => m = Amount)
    BY <2>3, <2>7
  <2>9. LifeOK'
    BY <2>4, <2>5, <2>6, <2>7, <2>8 DEF LifeOK
  <2>. QED
    BY <1>1, <1>4, <2>7, <2>9 DEF brd_alloc
<1>5. CASE OutFree
  <2>1. added = {}
    BY <1>5, Allocated, Sizes DEF OutFree
  <2>2. life' = "failed" /\ devices' = {} /\ added' = {} /\ UNCHANGED ioVars
    BY <1>5, <2>1 DEF OutFree
  <2>3. ~(\E u \in Users : opened[u])
    BY <1>2, <2>1
  <2>4. \A p \in 0 .. Pages - 1 : ~There(tree', p)
    <3>1. \A p \in 0 .. Pages - 1 : tree[p] = NoPage
      BY <2>1, NobodyUses
    <3>. QED
      BY <2>2, <3>1 DEF There, ioVars
  <2>5. LifeOK'
    BY <2>2, <2>3, <2>4 DEF LifeOK, ioVars
  <2>. QED
    BY <1>1, <2>2, <2>5
<1>6. CASE add_disk
  <2>1. /\ life = "allocating" /\ Cardinality(devices) = Amount /\ added # devices
        /\ added' = added \cup {Min(devices \ added)}
        /\ UNCHANGED <<life, devices, ioVars>>
    BY <1>6 DEF add_disk
  <2>2. Min(devices \ added) \in devices
    <3>1. devices \ added \in SUBSET Nat /\ devices \ added # {}
      <4>1. \A x \in devices : x \in Nat
        BY <1>2
      <4>. QED
        BY <1>2, <2>1, <4>1
    <3>. QED
      BY <3>1, Smallest
  <2>3. devices = 0 .. Amount - 1 /\ Amount \in 0 .. Amount
    BY <2>1, Allocated, Sizes
  <2>4. LifeOK'
    <3>1. added' \subseteq devices' /\ added \subseteq added' /\ devices' \subseteq 0 .. Amount
      BY <1>2, <2>1, <2>2
    <3>2. \E m \in 0 .. Amount : devices' = 0 .. m - 1 /\ (added' # {} => m = Amount)
      BY <2>1, <2>3
    <3>3. life' = "allocating" /\ opened' = opened /\ tree' = tree /\ devices' = devices
      BY <2>1 DEF ioVars
    <3>4. \A u \in Users : opened'[u] => 0 \in added'
      BY <1>2, <3>1, <3>3
    <3>5. \A p \in 0 .. Pages - 1 : There(tree', p) => 0 \in added'
      BY <1>2, <3>1, <3>3
    <3>. QED
      BY <3>1, <3>2, <3>3, <3>4, <3>5 DEF LifeOK
  <2>. QED
    BY <1>1, <2>1, <2>4
<1>7. CASE blk_register_region
  <2>1. life' = "live" /\ UNCHANGED <<devices, added, ioVars>>
    BY <1>7 DEF blk_register_region
  <2>2. LifeOK'
    BY <1>2, <2>1 DEF LifeOK, ioVars
  <2>. QED
    BY <1>1, <2>1, <2>2
<1>8. CASE brd_probe(Amount)
  <2>1. /\ life' = "live" /\ devices' = devices \cup {Amount} /\ added' = added \cup {Amount}
        /\ UNCHANGED ioVars
    BY <1>8 DEF brd_probe
  <2>2. Amount \in 0 .. Amount
    BY Sizes
  <2>3. LifeOK'
    BY <1>2, <2>1, <2>2 DEF LifeOK, ioVars
  <2>. QED
    BY <1>1, <2>1, <2>3
<1>9. CASE Unload
  <2>1. /\ life' = "going" /\ UNCHANGED <<devices, added, ioVars>> /\ \A u \in Users : ~opened[u]
    BY <1>9 DEF Unload
  <2>2. LifeOK'
    BY <1>2, <2>1 DEF LifeOK, ioVars
  <2>. QED
    BY <1>1, <2>1, <2>2
<1>10. CASE unregister_blkdev
  <2>1. life' = "gone" /\ devices = {} /\ UNCHANGED <<devices, added, ioVars>>
    BY <1>10 DEF unregister_blkdev
  <2>2. LifeOK'
    BY <1>2, <2>1 DEF LifeOK, ioVars
  <2>. QED
    BY <1>1, <2>1, <2>2
<1>11. CASE brd_del_one
  <2>1. PICK i : i = Min(devices)
    OBVIOUS
  <2>2. /\ life = "going" /\ life' = life /\ devices # {}
        /\ devices' = devices \ {i} /\ added' = added \ {i}
        /\ tree' = IF i = 0 THEN [p \in DOMAIN tree |-> NoPage] ELSE tree
        /\ UNCHANGED <<opened, io, ios>>
    BY <1>11, <2>1 DEF brd_del_one, BrdFree
  <2>3. \A u \in Users : ~opened[u] /\ io[u] = NoIo
    BY <2>2, NobodyUses
  <2>4. tree' \in TreeType
    BY <2>2 DEF DiskInv, DiskShape, TreeType
  <2>5. \A p \in 0 .. Pages - 1 : There(tree', p) => 0 \in added'
    <3>1. CASE i = 0
      <4>1. tree' = [p \in 0 .. Pages - 1 |-> NoPage]
        BY <2>2, <3>1 DEF DiskInv, DiskShape, TreeType
      <4>. QED
        BY <4>1 DEF There
    <3>2. CASE i # 0
      BY <1>2, <2>2, <3>2
    <3>. QED
      BY <3>1, <3>2
  <2>6. LifeOK'
    <3>1. added' \subseteq devices' /\ devices' \subseteq 0 .. Amount
      BY <1>2, <2>2
    <3>. QED
      BY <2>2, <2>3, <2>5, <3>1 DEF LifeOK
  <2>7. DiskShape'
    BY <2>2, <2>4 DEF DiskInv, DiskShape
  <2>8. RequestsOK'
    BY <2>2, <2>3, NoRequest DEF RequestsOK
  <2>9. OpenToUse' /\ FlushesAlone'
    BY <2>2 DEF DiskInv, OpenToUse, FlushesAlone
  <2>. QED
    BY <2>6, <2>7, <2>8, <2>9 DEF DiskInv
<1>. QED
  BY <1>3, <1>4, <1>5, <1>6, <1>7, <1>8, <1>9, <1>10, <1>11 DEF Lifecycle

\* Opening and closing leave the requests of the others alone.
LEMMA OpenCloseInv ==
    ASSUME DiskInv, NEW u \in Users, Open(u) \/ Close(u)
    PROVE  DiskInv'
<1>1. /\ UNCHANGED <<lifeVars, tree, io, ios>>
      /\ \E b \in BOOLEAN : opened' = [opened EXCEPT ![u] = b]
      /\ opened'[u] => life \in {"allocating", "live"} /\ 0 \in added
      /\ \A v \in Users : io[v].at \notin {"flush", "flushed"}
      /\ ~opened'[u] => io[u] = NoIo
  <2>1. opened \in [Users -> BOOLEAN]
    BY DEF DiskInv, DiskShape
  <2>. QED
    BY <2>1 DEF Open, Close, Flushing
<1>2. opened' \in [Users -> BOOLEAN] /\ \A v \in Users : v # u => opened'[v] = opened[v]
  BY <1>1 DEF DiskInv, DiskShape
<1>3. DiskShape' /\ RequestsOK'
  BY <1>1, <1>2 DEF DiskInv, DiskShape, RequestsOK, lifeVars
<1>4. OpenToUse'
  <2>. SUFFICES ASSUME NEW v \in Users, io[v].at # "idle" PROVE opened'[v]
    BY <1>1 DEF OpenToUse
  <2>1. CASE v = u
    BY <1>1, <2>1, NoRequest
  <2>2. CASE v # u
    BY <1>2, <2>2 DEF DiskInv, OpenToUse
  <2>. QED
    BY <2>1, <2>2
<1>5. FlushesAlone'
  BY <1>1 DEF FlushesAlone
<1>6. LifeOK'
  BY <1>1, <1>2 DEF DiskInv, LifeOK, lifeVars
<1>. QED
  BY <1>3, <1>4, <1>5, <1>6 DEF DiskInv

\* A user's request becomes q, and the pages change as they may.
LEMMA RequestMoves ==
    ASSUME DiskInv, NEW u \in Users, opened[u], NEW q,
           io' = [io EXCEPT ![u] = q], UNCHANGED <<lifeVars, opened>>,
           ios' = ios \/ (ios[u] < MaxIo[u] /\ ios' = [ios EXCEPT ![u] = @ + 1]),
           RequestOK(q), tree' \in TreeType, PagesThere(tree', q),
           \A v \in Users \ {u} : PagesThere(tree', io[v]),
           q.at \in {"flush", "flushed"} => \A v \in Users : opened[v] => v = u
    PROVE  DiskInv'
<1>1. /\ io \in [Users -> IoRecord] /\ opened \in [Users -> BOOLEAN] /\ ios \in [Users -> Nat]
      /\ q \in IoRecord
  BY DEF DiskInv, DiskShape, RequestOK
<1>2. io' \in [Users -> IoRecord] /\ io'[u] = q /\ \A v \in Users : v # u => io'[v] = io[v]
  BY <1>1
<1>3. ios' \in [Users -> Nat] /\ \A v \in Users : ios'[v] <= MaxIo[v]
  <2>1. \A v \in Users : MaxIo[v] \in Nat /\ ios[v] \in Nat /\ ios[v] <= MaxIo[v]
    BY <1>1, RamDiskAssumption DEF DiskInv, DiskShape
  <2>2. CASE ios' = ios
    BY <1>1, <2>1, <2>2
  <2>3. CASE ios[u] < MaxIo[u] /\ ios' = [ios EXCEPT ![u] = @ + 1]
    BY <1>1, <2>1, <2>3
  <2>. QED
    BY <2>2, <2>3
<1>4. DiskShape'
  BY <1>2, <1>3 DEF DiskInv, DiskShape, lifeVars
<1>5. RequestsOK'
  BY <1>2 DEF DiskInv, RequestsOK
<1>6. OpenToUse' /\ FlushesAlone'
  BY <1>2 DEF DiskInv, OpenToUse, FlushesAlone
<1>7. LifeOK'
  BY DEF DiskInv, LifeOK, lifeVars
<1>. QED
  BY <1>4, <1>5, <1>6, <1>7 DEF DiskInv

\* Pages that stay are there for those who rely on them.
LEMMA PagesStay ==
    ASSUME NEW tr, NEW tr2, NEW r, RequestOK(r), PagesThere(tr, r),
           \A p \in 0 .. Pages - 1 : There(tr, p) => There(tr2, p)
    PROVE  PagesThere(tr2, r)
<1>1. r.part = 2 \/ r.at = "copy" => Onward(r)
  BY DEF RequestOK, Onward
<1>2. Onward(r) => PageOf(r.sector) \in 0 .. Pages - 1
  BY PagesOfSegment
<1>3. Onward(r) => PageOf(r.sector + Head(r.segs) - 1) \in 0 .. Pages - 1
  BY PagesOfSegment
<1>. QED
  BY <1>1, <1>2, <1>3 DEF PagesThere

\* A new request.
LEMMA MakeInv ==
    ASSUME DiskInv, NEW u \in Users, NEW op, NEW s, NEW segs, NEW data,
           brd_make_request(u, op, s, segs, data), Askable(op, s, segs, data)
    PROVE  DiskInv' /\ io' = [io EXCEPT ![u] = MadeRequest(op, s, segs, data)]
<1>1. PICK q : q = MadeRequest(op, s, segs, data)
  OBVIOUS
<1>2. /\ opened[u] /\ Accepted(op, s, segs) /\ io' = [io EXCEPT ![u] = q]
      /\ ios[u] < MaxIo[u] /\ ios' = [ios EXCEPT ![u] = @ + 1]
      /\ UNCHANGED <<lifeVars, opened>> /\ tree' = tree
  BY <1>1 DEF brd_make_request, MadeRequest
<1>3. RequestOK(q) /\ PagesThere(tree, q) /\ q.at \notin {"flush", "flushed"}
  BY <1>1, <1>2, MadeRequestOK
<1>4. tree' \in TreeType /\ \A v \in Users : PagesThere(tree', io[v])
  BY <1>2 DEF DiskInv, DiskShape, RequestsOK
<1>5. PagesThere(tree', q)
  BY <1>2, <1>3
<1>6. DiskInv'
  BY <1>2, <1>3, <1>4, <1>5, RequestMoves
<1>. QED
  BY <1>1, <1>2, <1>6

\* Who has opened a device that one alone has open.
LEMMA OneOpener ==
    ASSUME Openers <= 1, NEW u \in Users, opened[u], NEW v \in Users, opened[v]
    PROVE  v = u
<1>. DEFINE S == {x \in Users : opened[x]}
<1>1. IsFiniteSet(S) /\ u \in S /\ v \in S
  <2>1. IsFiniteSet(Users) /\ S \in SUBSET Users
    BY RamDiskAssumption
  <2>2. IsFiniteSet(S)
    <3>. HIDE DEF S
    <3>. QED  BY <2>1, FS_Subset
  <2>. QED
    BY <2>2
<1>2. Cardinality(S) <= 1 /\ Cardinality(S) \in Nat
  BY <1>1, FS_CardinalityType DEF Openers
<1>. HIDE DEF S
<1>3. Cardinality(S) # 0
  BY <1>1, FS_EmptySet
<1>4. \E x : S = {x}
  BY <1>1, <1>2, <1>3, FS_Singleton
<1>. QED
  BY <1>1, <1>4

\* BLKFLSBUF begins for a user who is alone.
LEMMA FlushInv ==
    ASSUME DiskInv, NEW u \in Users, brd_ioctl(u)
    PROVE  DiskInv' /\ io' = [io EXCEPT ![u] = FlushRequest]
<1>1. PICK q : q = FlushRequest
  OBVIOUS
<1>2. /\ opened[u] /\ Openers <= 1 /\ io' = [io EXCEPT ![u] = q]
      /\ ios[u] < MaxIo[u] /\ ios' = [ios EXCEPT ![u] = @ + 1]
      /\ UNCHANGED <<lifeVars, opened>> /\ tree' = tree
  BY <1>1 DEF brd_ioctl, FlushRequest
<1>3. RequestOK(q) /\ PagesThere(tree, q)
  BY <1>1, FlushRequestOK
<1>4. tree' \in TreeType /\ \A v \in Users : PagesThere(tree', io[v])
  BY <1>2 DEF DiskInv, DiskShape, RequestsOK
<1>5. PagesThere(tree', q)
  BY <1>2, <1>3
<1>6. \A v \in Users : opened[v] => v = u
  BY <1>2, OneOpener
<1>7. DiskInv'
  BY <1>2, <1>3, <1>4, <1>5, <1>6, RequestMoves
<1>. QED
  BY <1>1, <1>2, <1>7

\* What an invariant says of a user and his request.
LEMMA OfUser ==
    ASSUME DiskInv, NEW u \in Users
    PROVE  /\ RequestOK(io[u]) /\ PagesThere(tree, io[u]) /\ io[u] \in IoRecord
           /\ io[u].at # "idle" => opened[u]
           /\ tree \in TreeType /\ DOMAIN tree = 0 .. Pages - 1
  BY DEF DiskInv, DiskShape, RequestsOK, OpenToUse, RequestOK, TreeType

\* Whatever a request does next with a page of its own keeps the invariant.
LEMMA WritePagesInv ==
    ASSUME DiskInv, NEW u \in Users, LookupForWrite(u) \/ AllocPageFails(u) \/ brd_insert_page(u)
    PROVE  /\ DiskInv'
           /\ \E q : /\ io' = [io EXCEPT ![u] = q] /\ io[u].op = "write"
                     /\ q = NoIo \/ (/\ q.op = io[u].op /\ q.sector = io[u].sector
                                     /\ q.segs = io[u].segs /\ q.data = io[u].data
                                     /\ q.got = io[u].got /\ q.at \in {"setup", "insert", "copy"})
           /\ \A p \in 0 .. Pages - 1 :
                  tree'[p] = tree[p] \/ (tree[p] = NoPage /\ tree'[p] = ZeroPage)
<1>1. PICK r : r = io[u]
  OBVIOUS
<1>2. /\ RequestOK(r) /\ PagesThere(tree, r) /\ r \in IoRecord /\ tree \in TreeType
      /\ DOMAIN tree = 0 .. Pages - 1 /\ (r.at # "idle" => opened[u])
  BY <1>1, OfUser
<1>3. /\ r.at \in {"setup", "insert"} /\ UNCHANGED <<lifeVars, opened, ios>>
      /\ DOMAIN tree' = 0 .. Pages - 1
  BY <1>1, <1>2 DEF LookupForWrite, AllocPageFails, brd_insert_page
<1>4. SetupPage(r) \in 0 .. Pages - 1 /\ opened[u] /\ r.op = "write"
  BY <1>2, <1>3, SetupPageExists DEF RequestOK
<1>5. ZeroPage \in [1 .. PageSectors -> Contents] /\ ZeroPage # NoPage
  BY RamDiskAssumption DEF ZeroPage
<1>6. ASSUME NEW q, io' = [io EXCEPT ![u] = q], RequestOK(q), PagesThere(tree', q),
             q = NoIo \/ (/\ q.op = r.op /\ q.sector = r.sector /\ q.segs = r.segs
                          /\ q.data = r.data
                          /\ q.got = r.got /\ q.at \in {"setup", "insert", "copy"}),
             \A p \in 0 .. Pages - 1 :
                    tree'[p] = tree[p] \/ (tree[p] = NoPage /\ tree'[p] = ZeroPage),
             tree' \in TreeType
      PROVE  /\ DiskInv'
             /\ \E z : /\ io' = [io EXCEPT ![u] = z] /\ io[u].op = "write"
                       /\ z = NoIo \/ (/\ z.op = io[u].op /\ z.sector = io[u].sector
                                       /\ z.segs = io[u].segs /\ z.data = io[u].data
                                       /\ z.got = io[u].got /\ z.at \in {"setup", "insert", "copy"})
             /\ \A p \in 0 .. Pages - 1 :
                  tree'[p] = tree[p] \/ (tree[p] = NoPage /\ tree'[p] = ZeroPage)
  <2>1. q.at \notin {"flush", "flushed"}
    BY <1>6, NoRequest
  <2>2. \A p \in 0 .. Pages - 1 : There(tree, p) => There(tree', p)
    BY <1>6 DEF There
  <2>3. \A v \in Users : PagesThere(tree', io[v])
    BY <2>2, PagesStay, OfUser
  <2>4. DiskInv'
    BY <1>3, <1>4, <1>6, <2>1, <2>3, RequestMoves
  <2>. QED
    BY <1>1, <1>4, <1>6, <2>4
<1>7. PICK n : n = NextSetup(r)
  OBVIOUS
<1>8. /\ n.op = r.op /\ n.sector = r.sector /\ n.segs = r.segs /\ n.data = r.data /\ n.got = r.got
      /\ n.at \in {"setup", "copy"}
  BY <1>2, <1>7 DEF NextSetup, IoRecord
<1>9. CASE LookupForWrite(u)
  <2>1. tree' = tree /\ r.at = "setup"
    BY <1>1, <1>9 DEF LookupForWrite
  <2>2. CASE tree[SetupPage(r)] # NoPage
    <3>1. io' = [io EXCEPT ![u] = n]
      BY <1>1, <1>7, <1>9, <2>2 DEF LookupForWrite
    <3>2. RequestOK(n) /\ PagesThere(tree, n)
      BY <1>2, <1>3, <1>7, <2>2, NextSetupOK DEF There
    <3>3. PagesThere(tree', n)
      BY <2>1, <3>2
    <3>. QED
      BY <1>2, <1>6, <1>8, <2>1, <3>1, <3>2, <3>3
  <2>3. CASE tree[SetupPage(r)] = NoPage
    <3>1. PICK q : q = [r EXCEPT !.at = "insert"]
      OBVIOUS
    <3>2. io' = [io EXCEPT ![u] = q]
      BY <1>1, <1>9, <2>3, <3>1 DEF LookupForWrite
    <3>3. /\ q.op = r.op /\ q.sector = r.sector /\ q.segs = r.segs /\ q.data = r.data
          /\ q.got = r.got /\ q.at = "insert" /\ q.part = r.part
      BY <1>2, <3>1 DEF IoRecord
    <3>4. PICK p \in {1, 2} : p = r.part
      BY <1>2 DEF IoRecord
    <3>5. q = [r EXCEPT !.at = "insert", !.part = p]
      BY <1>2, <3>1, <3>4 DEF IoRecord
    <3>6. RequestOK(q)
      <4>1. p = 2 => Spans(r)
        BY <1>2, <3>4 DEF RequestOK
      <4>2. \A a \in {"setup", "insert", "copy"} : (p = 2 => a # "copy" /\ Spans(r))
                => RequestOK([r EXCEPT !.at = a, !.part = p])
        BY <1>2, <1>3, PlacedOK
      <4>. QED
        BY <3>5, <4>1, <4>2
    <3>7. PagesThere(tree', q)
      BY <1>2, <2>1, <3>3 DEF PagesThere
    <3>. QED
      BY <1>2, <1>6, <2>1, <3>2, <3>3, <3>6, <3>7
  <2>. QED
    BY <2>2, <2>3
<1>10. CASE AllocPageFails(u)
  <2>1. tree' = tree /\ io' = [io EXCEPT ![u] = NoIo]
    BY <1>10 DEF AllocPageFails
  <2>2. RequestOK(NoIo) /\ PagesThere(tree', NoIo)
    BY NoRequest
  <2>. QED
    BY <1>2, <1>6, <2>1, <2>2
<1>11. CASE brd_insert_page(u)
  <2>1. /\ io' = [io EXCEPT ![u] = n]
        /\ tree' = [tree EXCEPT ![SetupPage(r)] = IF @ = NoPage THEN ZeroPage ELSE @]
    BY <1>1, <1>7, <1>11 DEF brd_insert_page
  <2>2. tree' \in TreeType
    BY <1>2, <1>4, <1>5, <2>1 DEF TreeType
  <2>3. \A p \in 0 .. Pages - 1 : tree'[p] = tree[p] \/ (tree[p] = NoPage /\ tree'[p] = ZeroPage)
    BY <1>2, <1>4, <2>1
  <2>4. tree'[SetupPage(r)] # NoPage
    BY <1>2, <1>4, <1>5, <2>1
  <2>5. PagesThere(tree', r)
    <3>1. \A p \in 0 .. Pages - 1 : There(tree, p) => There(tree', p)
      BY <1>5, <2>3 DEF There
    <3>. QED
      BY <1>2, <3>1, PagesStay
  <2>6. RequestOK(n) /\ PagesThere(tree', n)
    BY <1>2, <1>3, <1>7, <2>4, <2>5, NextSetupOK DEF There
  <2>. QED
    BY <1>6, <1>8, <2>1, <2>2, <2>3, <2>6
<1>. QED
  BY <1>9, <1>10, <1>11

\* A page that is written to.
CopiedPage(pg, o, n, data) ==
    [i \in 1 .. PageSectors |-> IF i \in o + 1 .. o + n THEN data[i - o] ELSE pg[i]]

\* A write copies to a page that is there.
LEMMA CopyToInv ==
    ASSUME DiskInv, NEW u \in Users, copy_to_brd(u)
    PROVE  /\ DiskInv' /\ io' = [io EXCEPT ![u] = WriteNext(io[u])]
           /\ tree[PageOf(io[u].sector)] \in [1 .. PageSectors -> Contents]
           /\ PageOf(io[u].sector) \in 0 .. Pages - 1
           /\ tree' = [tree EXCEPT ![PageOf(io[u].sector)] =
                CopiedPage(tree[PageOf(io[u].sector)], io[u].sector % PageSectors,
                           Copy1(io[u]), io[u].data)]
<1>1. PICK r : r = io[u]
  OBVIOUS
<1>2. /\ RequestOK(r) /\ PagesThere(tree, r) /\ r \in IoRecord /\ tree \in TreeType
      /\ DOMAIN tree = 0 .. Pages - 1 /\ (r.at # "idle" => opened[u])
  BY <1>1, OfUser
<1>3. PICK p : p = PageOf(r.sector)
  OBVIOUS
<1>4. PICK pg : pg = CopiedPage(tree[p], r.sector % PageSectors, Copy1(r), r.data)
  OBVIOUS
<1>5. PICK q : q = WriteNext(r)
  OBVIOUS
<1>6. /\ r.at = "copy" /\ r.op = "write" /\ UNCHANGED <<lifeVars, opened, ios>>
      /\ io' = [io EXCEPT ![u] = q]
  BY <1>1, <1>5 DEF copy_to_brd, WriteNext
<1>7. tree' = [tree EXCEPT ![p] = pg]
  BY <1>1, <1>3, <1>4 DEF copy_to_brd, CopiedPage
<1>8. Onward(r) /\ opened[u] /\ p \in 0 .. Pages - 1
  BY <1>2, <1>3, <1>6, PagesOfSegment DEF Onward
<1>9. tree[p] \in [1 .. PageSectors -> Contents]
  BY <1>2, <1>3, <1>6, <1>8 DEF PagesThere, There, TreeType
<1>10. pg \in [1 .. PageSectors -> Contents]
  <2>1. PICK n : n = Copy1(r)
    OBVIOUS
  <2>2. /\ n \in Nat /\ n <= Sectors(r.segs) /\ Sectors(r.segs) \in Nat
        /\ n <= PageSectors - (r.sector % PageSectors)
    <3>1. PICK h : h = Head(r.segs)
      OBVIOUS
    <3>2. PICK w : w = Advance(r, n)
      OBVIOUS
    <3>. QED
      BY <1>2, <1>6, <2>1, <3>1, <3>2, Advances
  <2>3. PICK o \in Nat : o = r.sector % PageSectors
    <3>1. r.sector \in Nat
      BY <1>2 DEF IoRecord
    <3>2. r.sector % PageSectors \in 0 .. PageSectors - 1
      BY <3>1, PageAndPlace
    <3>. QED
      BY <3>2
  <2>4. r.data \in Seq(Contents) /\ Len(r.data) = Sectors(r.segs)
    BY <1>2, <1>6 DEF RequestOK, IoRecord
  <2>5. \A j \in 1 .. n : r.data[j] \in Contents
    BY <2>2, <2>4
  <2>6. ASSUME NEW i \in 1 .. PageSectors
        PROVE  (IF i \in o + 1 .. o + n THEN r.data[i - o] ELSE tree[p][i]) \in Contents
    <3>1. i \in o + 1 .. o + n => i - o \in 1 .. n
      BY <2>2
    <3>. QED
      BY <1>9, <2>5, <3>1
  <2>. QED
    BY <1>4, <2>1, <2>3, <2>6 DEF CopiedPage
<1>11. tree' \in TreeType /\ \A x \in 0 .. Pages - 1 : There(tree, x) => There(tree', x)
  <2>1. pg # NoPage
    BY <1>10, RamDiskAssumption
  <2>. QED
    BY <1>2, <1>7, <1>8, <1>10, <2>1 DEF TreeType, There
<1>12. RequestOK(q) /\ q.at \notin {"flush", "flushed"} /\ PagesThere(tree, q)
  BY <1>2, <1>5, <1>6, WriteGoesOn
<1>13. PagesThere(tree', q) /\ \A v \in Users : PagesThere(tree', io[v])
  BY <1>11, <1>12, PagesStay, OfUser
<1>14. DiskInv'
  BY <1>6, <1>8, <1>11, <1>12, <1>13, RequestMoves
<1>. QED
  BY <1>1, <1>3, <1>4, <1>5, <1>6, <1>7, <1>8, <1>9, <1>14

\* A read changes nothing but itself.
LEMMA CopyFromInv ==
    ASSUME DiskInv, NEW u \in Users, copy_from_brd(u)
    PROVE  DiskInv' /\ io' = [io EXCEPT ![u] = ReadNext(tree, io[u])] /\ tree' = tree
<1>1. PICK r : r = io[u]
  OBVIOUS
<1>2. /\ RequestOK(r) /\ PagesThere(tree, r) /\ r \in IoRecord /\ tree \in TreeType
      /\ (r.at # "idle" => opened[u])
  BY <1>1, OfUser
<1>3. PICK q : q = ReadNext(tree, r)
  OBVIOUS
<1>4. /\ r.at = "copy" /\ r.op = "read" /\ UNCHANGED <<lifeVars, opened, ios>> /\ tree' = tree
      /\ io' = [io EXCEPT ![u] = q]
  BY <1>1, <1>3 DEF copy_from_brd, ReadNext
<1>5. RequestOK(q) /\ q.at \notin {"flush", "flushed"} /\ PagesThere(tree, q)
  BY <1>2, <1>3, <1>4, ReadGoesOn
<1>6. PagesThere(tree', q) /\ \A v \in Users : PagesThere(tree', io[v])
  BY <1>4, <1>5, OfUser
<1>7. DiskInv'
  BY <1>2, <1>4, <1>5, <1>6, RequestMoves
<1>. QED
  BY <1>1, <1>3, <1>4, <1>7

\* A discard clears a page and keeps it.
LEMMA ZeroInv ==
    ASSUME DiskInv, NEW u \in Users, brd_zero_page(u)
    PROVE  /\ DiskInv' /\ io' = [io EXCEPT ![u] = DiscardNext(io[u])]
           /\ PageOf(io[u].sector) \in 0 .. Pages - 1
           /\ tree' = [tree EXCEPT ![PageOf(io[u].sector)] =
                        IF @ = NoPage THEN NoPage ELSE ZeroPage]
<1>1. PICK r : r = io[u]
  OBVIOUS
<1>2. /\ RequestOK(r) /\ PagesThere(tree, r) /\ r \in IoRecord /\ tree \in TreeType
      /\ (r.at # "idle" => opened[u])
  BY <1>1, OfUser
<1>3. PICK q : q = DiscardNext(r)
  OBVIOUS
<1>4. PICK p : p = PageOf(r.sector)
  OBVIOUS
<1>5. /\ r.at = "zero" /\ UNCHANGED <<lifeVars, opened, ios>> /\ io' = [io EXCEPT ![u] = q]
      /\ tree' = [tree EXCEPT ![p] = IF @ = NoPage THEN NoPage ELSE ZeroPage]
  BY <1>1, <1>3, <1>4 DEF brd_zero_page
<1>6. RequestOK(q) /\ q.at \notin {"flush", "flushed"} /\ r.sector + PageSectors <= Capacity
  BY <1>2, <1>3, <1>5, DiscardGoesOn
<1>7. p \in 0 .. Pages - 1
  <2>1. r.sector \in Nat
    BY <1>2 DEF IoRecord
  <2>2. r.sector < Capacity
    BY <1>6, <2>1, Sizes
  <2>. QED
    BY <1>4, <2>1, <2>2, PageExists
<1>8. ZeroPage \in [1 .. PageSectors -> Contents] /\ ZeroPage # NoPage
  BY RamDiskAssumption DEF ZeroPage
<1>9. tree' \in TreeType /\ \A x \in 0 .. Pages - 1 : There(tree, x) => There(tree', x)
  BY <1>2, <1>5, <1>7, <1>8 DEF TreeType, There
<1>10. PagesThere(tree', q) /\ \A v \in Users : PagesThere(tree', io[v])
  <2>1. PagesThere(tree', q)
    BY <1>2, <1>3, <1>5, DiscardGoesOn
  <2>. QED
    BY <1>9, <2>1, PagesStay, OfUser
<1>11. DiskInv'
  BY <1>2, <1>5, <1>6, <1>9, <1>10, RequestMoves
<1>. QED
  BY <1>1, <1>3, <1>4, <1>5, <1>7, <1>11

\* A flush takes pages away from nobody.
LEMMA FreePagesInv ==
    ASSUME DiskInv, NEW u \in Users, brd_free_pages(u)
    PROVE  /\ DiskInv'
           /\ io' = [io EXCEPT ![u] = FlushNext(io[u], Batch(PageOf(io[u].sector)))]
           /\ tree' = [p \in 0 .. Pages - 1 |->
                        IF p \in Batch(PageOf(io[u].sector)) THEN NoPage ELSE tree[p]]
<1>1. PICK r : r = io[u]
  OBVIOUS
<1>2. /\ RequestOK(r) /\ PagesThere(tree, r) /\ r \in IoRecord /\ tree \in TreeType
      /\ (r.at # "idle" => opened[u]) /\ DOMAIN tree = 0 .. Pages - 1
  BY <1>1, OfUser
<1>3. PICK batch : batch = Batch(PageOf(r.sector))
  OBVIOUS
<1>4. PICK q : q = FlushNext(r, batch)
  OBVIOUS
<1>5. /\ r.at = "flush" /\ UNCHANGED <<lifeVars, opened, ios>> /\ io' = [io EXCEPT ![u] = q]
      /\ tree' = [p \in 0 .. Pages - 1 |-> IF p \in batch THEN NoPage ELSE tree[p]]
  BY <1>1, <1>2, <1>3, <1>4 DEF brd_free_pages, FlushNext, After
<1>6. RequestOK(q) /\ PagesThere(tree', q)
  BY <1>2, <1>3, <1>4, <1>5, FlushGoesOn
<1>7. \A v \in Users : opened[v] => v = u
  BY <1>1, <1>5 DEF DiskInv, FlushesAlone
<1>8. \A v \in Users \ {u} : PagesThere(tree', io[v])
  <2>. SUFFICES ASSUME NEW v \in Users, v # u PROVE PagesThere(tree', io[v])
    OBVIOUS
  <2>1. io[v].at = "idle" /\ RequestOK(io[v])
    BY <1>7, OfUser
  <2>2. io[v] = NoIo
    BY <2>1 DEF RequestOK
  <2>. QED
    BY <2>2, NoRequest
<1>9. tree' \in TreeType
  BY <1>2, <1>5 DEF TreeType
<1>10. DiskInv'
  BY <1>2, <1>5, <1>6, <1>7, <1>8, <1>9, RequestMoves
<1>. QED
  BY <1>1, <1>3, <1>4, <1>5, <1>10

\* The end of a request.
LEMMA EndInv ==
    ASSUME DiskInv, NEW u \in Users, bio_endio(u)
    PROVE  DiskInv' /\ io' = [io EXCEPT ![u] = NoIo] /\ tree' = tree
<1>1. /\ io[u].at # "idle" /\ UNCHANGED <<lifeVars, opened, ios>> /\ tree' = tree
      /\ io' = [io EXCEPT ![u] = NoIo]
  BY DEF bio_endio
<1>2. RequestOK(NoIo) /\ PagesThere(tree', NoIo) /\ NoIo.at \notin {"flush", "flushed"}
  BY NoRequest
<1>3. /\ opened[u] /\ tree' \in TreeType /\ \A v \in Users : PagesThere(tree', io[v])
  BY <1>1, OfUser
<1>4. DiskInv'
  BY <1>1, <1>2, <1>3, RequestMoves
<1>. QED
  BY <1>1, <1>4

\* Every step of a request keeps the invariant.
LEMMA IoStepInv ==
    ASSUME DiskInv, NEW u \in Users, IoStep(u)
    PROVE  DiskInv'
  BY WritePagesInv, CopyToInv, CopyFromInv, ZeroInv, FreePagesInv, EndInv DEF IoStep

-----------------------------------------------------------------------------
(* The invariant of the application, the page cache and the driver.        *)

AppShape ==
    /\ table \in Tables
    /\ app \in {"idle", "unopened", "engine", "devices", "close", "command"}
    /\ configs \in Seq(Contents) /\ sends \in 0 .. MaxSends
    /\ next \in Nat /\ next <= 3 * sends /\ Len(configs) <= 3 * sends
    /\ meddled \in BOOLEAN
CacheShape ==
    /\ cache \in TreeType /\ dirty \subseteq 0 .. Pages - 1
    /\ \A p \in dirty : cache[p] # NoPage
DriverShape ==
    /\ command \in BOOLEAN
    /\ driver \in {"idle", "get", "put", "lookup", "prepare", "destroy"}
    /\ sector \in 0 .. 3 /\ mapped \subseteq 0 .. 3
    /\ depth \in Int /\ rxData \in Seq(Contents)
    /\ configBytesAmount \in 0 .. 255 /\ payloadBytes \in 0 .. 255 /\ payloadReady \in BOOLEAN

ConfigInv == DiskInv /\ AppShape /\ CacheShape /\ DriverShape

\* The numbers of the sectors.
LEMMA SectorNumbers ==
    SECTOR_ENGINE = 0 /\ SECTOR_AMOUNT = 4 /\ 4 <= Capacity /\ Capacity \in Nat
  BY Sizes DEF SECTOR_ENGINE, SECTOR_AMOUNT

\* The devices' records are contents of sectors.
LEMMA DevicesAreContents ==
    /\ Devices \in Seq(Contents) /\ Len(Devices) = 3 /\ Zero \in Contents /\ "engine" \in Contents
    /\ Devices[1] = "BMI160_0" /\ Devices[2] = "BMI160_1" /\ Devices[3] = "ADXL345"
    /\ \A i \in 1 .. 3 : Devices[i] \in Contents \ {Zero} /\ Devices[i] # "engine"
    /\ "engine" # Zero
<1>1. "engine" \in Contents \ {Zero} /\ "BMI160_0" \in Contents \ {Zero}
      /\ "BMI160_1" \in Contents \ {Zero} /\ "ADXL345" \in Contents \ {Zero}
  BY ConfigAssumption
<1>2. Zero \in Contents
  BY RamDiskAssumption
<1>. QED
  BY <1>1, <1>2 DEF Devices

\* A page of the cache after a sector of it is written.
LEMMA PutKeepsCache ==
    ASSUME CacheShape, tree \in TreeType, NEW s \in Nat, s < Capacity, NEW c \in Contents,
           PutInCache(s, c)
    PROVE  /\ CacheShape' /\ PageOf(s) \in 0 .. Pages - 1
           /\ dirty' = dirty \cup {PageOf(s)}
           /\ \E old \in [1 .. PageSectors -> Contents] :
                /\ old = IF cache[PageOf(s)] # NoPage THEN cache[PageOf(s)]
                         ELSE IF tree[PageOf(s)] # NoPage THEN tree[PageOf(s)] ELSE ZeroPage
                /\ cache' = [cache EXCEPT ![PageOf(s)] = [old EXCEPT ![(s % PageSectors) + 1] = c]]
<1>1. PICK p \in 0 .. Pages - 1 : p = PageOf(s)
  BY PageExists
<1>2. s % PageSectors \in 0 .. PageSectors - 1
  BY PageAndPlace
<1>3. PICK o \in 1 .. PageSectors : o = (s % PageSectors) + 1
  <2>1. PICK i \in 0 .. PageSectors - 1 : i = s % PageSectors
    BY <1>2
  <2>2. i + 1 \in 1 .. PageSectors
    BY Sizes
  <2>. QED
    BY <2>1, <2>2
<1>4. ZeroPage \in [1 .. PageSectors -> Contents]
  BY RamDiskAssumption DEF ZeroPage
<1>5. PICK old : old = IF cache[p] # NoPage THEN cache[p]
                       ELSE IF tree[p] # NoPage THEN tree[p] ELSE ZeroPage
  OBVIOUS
<1>6. old \in [1 .. PageSectors -> Contents]
  BY <1>4, <1>5 DEF CacheShape, TreeType
<1>7. cache' = [cache EXCEPT ![p] = [old EXCEPT ![o] = c]] /\ dirty' = dirty \cup {p}
  BY <1>1, <1>3, <1>5 DEF PutInCache
<1>8. PICK new : new = [old EXCEPT ![o] = c]
  OBVIOUS
<1>9. new \in [1 .. PageSectors -> Contents] /\ new # NoPage
  <2>1. new \in [1 .. PageSectors -> Contents]
    BY <1>6, <1>8
  <2>. QED
    BY <2>1, RamDiskAssumption
<1>10. cache' \in TreeType /\ \A x \in dirty' : cache'[x] # NoPage
  BY <1>7, <1>8, <1>9 DEF CacheShape, TreeType
<1>11. CacheShape'
  BY <1>7, <1>10 DEF CacheShape
<1>. QED
  BY <1>1, <1>3, <1>5, <1>6, <1>7, <1>11

\* The cache goes with the last user, who has nothing left to write back.
LEMMA CloseKeepsCache ==
    ASSUME CacheShape, DiskInv, NEW u \in Users, CloseCached(u)
    PROVE  CacheShape' /\ DiskInv'
<1>1. DiskInv'
  BY OpenCloseInv DEF CloseCached
<1>2. /\ dirty' = dirty /\ (Openers = 1 => dirty = {})
      /\ cache' = IF Openers = 1 THEN [p \in DOMAIN cache |-> NoPage] ELSE cache
  BY DEF CloseCached
<1>3. cache \in TreeType /\ dirty \subseteq 0 .. Pages - 1 /\ \A p \in dirty : cache[p] # NoPage
  BY DEF CacheShape
<1>4. cache' \in TreeType
  BY <1>2, <1>3 DEF TreeType
<1>5. \A p \in dirty' : cache'[p] # NoPage
  BY <1>2, <1>3
<1>6. CacheShape'
  BY <1>2, <1>3, <1>4, <1>5 DEF CacheShape
<1>. QED
  BY <1>1, <1>6

\* A page of the cache is written back as a request for it.
LEMMA SyncMakesRequest ==
    ASSUME CacheShape, DiskInv, NEW u \in Users, SyncBeforeClose(u)
    PROVE  \E p \in dirty :
            /\ p = Min(dirty) /\ p \in 0 .. Pages - 1
            /\ brd_make_request(u, "write", p * PageSectors, <<PageSectors>>, cache[p])
            /\ Askable("write", p * PageSectors, <<PageSectors>>, cache[p])
            /\ dirty' = dirty \ {p} /\ cache' = cache /\ Openers = 1
<1>1. PICK p : p = Min(dirty)
  OBVIOUS
<1>2. p \in dirty /\ p \in 0 .. Pages - 1 /\ p \in Nat
  <2>1. dirty \in SUBSET Nat /\ dirty # {}
    <3>1. \A x \in 0 .. Pages - 1 : x \in Nat
      BY Sizes
    <3>. QED
      BY <3>1 DEF CacheShape, SyncBeforeClose
  <2>2. p \in dirty
    BY <1>1, <2>1, Smallest
  <2>. QED
    BY <2>1, <2>2 DEF CacheShape
<1>3. cache[p] \in [1 .. PageSectors -> Contents]
  BY <1>2 DEF CacheShape, TreeType
<1>4. cache[p] \in Seq(Contents) /\ Len(cache[p]) = PageSectors
  <2>1. PICK n \in Nat : n = PageSectors
    BY Sizes
  <2>2. \A f \in [1 .. n -> Contents] : f \in Seq(Contents) /\ Len(f) = n
    OBVIOUS
  <2>. QED
    BY <1>3, <2>1, <2>2
<1>5. Sectors(<<PageSectors>>) = PageSectors
  <2>1. <<>> \in Seq(Nat)
    OBVIOUS
  <2>. QED
    BY <2>1, Sizes, SectorsCons
<1>6. p * PageSectors \in Nat
  BY <1>2, FirstOfPage
<1>7. <<PageSectors>> \in Seq(1 .. PageSectors) /\ <<PageSectors>> # <<>>
  <2>1. PageSectors \in 1 .. PageSectors
    BY Sizes
  <2>. QED
    BY <2>1
<1>8. Askable("write", p * PageSectors, <<PageSectors>>, cache[p])
  BY <1>4, <1>5, <1>6, <1>7 DEF Askable
<1>9. /\ brd_make_request(u, "write", p * PageSectors, <<PageSectors>>, cache[p])
      /\ dirty' = dirty \ {p} /\ cache' = cache /\ Openers = 1
  BY <1>1 DEF SyncBeforeClose
<1>. QED
  BY <1>1, <1>2, <1>8, <1>9

\* Somebody else asks for what the block layer lets through.
LEMMA RequestsAskable ==
    ASSUME NEW r \in Requests
    PROVE  Askable(r.op, r.sector, r.segs, r.data)
  BY ConfigAssumption DEF Askable

\* What the length of a sector's record is read as.
LEMMA SizeByteType ==
    ASSUME table \in Tables, NEW c \in Contents
    PROVE  SizeByte(c) \in 0 .. 255
<1>1. CASE c \in {Zero, "engine"}
  BY <1>1, DevicesAreContents DEF SizeByte, HEADER_SIZE
<1>2. CASE c \notin {Zero, "engine"}
  <2>1. table[c] \in Nat
    BY <1>2, ConfigAssumption
  <2>2. SizeByte(c) = DeviceSize(table[c])
    BY <1>2 DEF SizeByte
  <2>3. PICK k \in Nat : k = 4 + 2 * table[c] + 1
    BY <2>1
  <2>4. k % 256 \in 0 .. 255
    OBVIOUS
  <2>. QED
    BY <2>2, <2>3, <2>4 DEF DeviceSize
<1>. QED
  BY <1>1, <1>2

\* What the driver reads at a sector.
LEMMA OnPageType ==
    ASSUME NEW tr \in TreeType, NEW s \in Nat, s < Capacity
    PROVE  (IF tr[PageOf(s)] = NoPage THEN Zero ELSE OnPage(tr, s)) \in Contents
<1>1. PICK o \in 1 .. PageSectors : o = (s % PageSectors) + 1
  <2>1. s % PageSectors \in 0 .. PageSectors - 1
    BY PageAndPlace
  <2>. QED
    BY <2>1, Sizes
<1>2. PageOf(s) \in 0 .. Pages - 1
  BY PageExists
<1>3. tr[PageOf(s)] # NoPage => tr[PageOf(s)][o] \in Contents
  BY <1>2 DEF TreeType
<1>. QED
  BY <1>1, <1>3, DevicesAreContents DEF OnPage

\* The application's steps keep the invariant.
LEMMA SendInv ==
    ASSUME ConfigInv,
           \/ SendOpen \/ SendUnopened \/ SendEngine \/ SendEngineFails \/ SendDevice
           \/ SendDeviceFails \/ SendAll \/ SendClose \/ SendCommand
    PROVE  ConfigInv'
<1>. USE DEF ConfigInv
<1>1. "app" \in Users
  BY ConfigAssumption
<1>2. tree \in TreeType
  BY DEF DiskInv, DiskShape
<1>3. ASSUME UNCHANGED brdVars PROVE DiskInv'
  BY <1>3 DEF brdVars, DiskInv, DiskShape, RequestsOK, OpenToUse, FlushesAlone, LifeOK
<1>4. ASSUME UNCHANGED driverVars PROVE DriverShape'
  BY <1>4 DEF driverVars, axisVars, DriverShape
<1>5. ASSUME UNCHANGED cacheVars PROVE CacheShape'
  BY <1>5 DEF cacheVars, CacheShape
<1>6. CASE SendOpen
  <2>1. /\ app' \in {"engine", "unopened"} /\ sends < MaxSends /\ sends' = sends + 1
        /\ configs' = configs \o Devices /\ next' = 0 /\ table' = table
        /\ UNCHANGED cacheVars /\ UNCHANGED driverVars
        /\ Open("app") \/ UNCHANGED brdVars
    BY <1>6 DEF SendOpen
  <2>2. meddled' \in BOOLEAN
    <3>1. opened["app"] \in BOOLEAN /\ opened["tool"] \in BOOLEAN
      BY ConfigAssumption DEF DiskInv, DiskShape
    <3>. QED
      BY <1>6, <3>1 DEF SendOpen
  <2>3. DiskInv'
    BY <1>1, <1>3, <2>1, OpenCloseInv
  <2>4. /\ configs' \in Seq(Contents) /\ Len(configs') = Len(configs) + 3
    <3>1. configs \in Seq(Contents) /\ Devices \in Seq(Contents) /\ Len(Devices) = 3
      BY DevicesAreContents DEF AppShape
    <3>2. \A s, d \in Seq(Contents) : s \o d \in Seq(Contents) /\ Len(s \o d) = Len(s) + Len(d)
      OBVIOUS
    <3>3. configs \o Devices \in Seq(Contents) /\ Len(configs \o Devices) = Len(configs) + 3
      BY <3>1, <3>2, Zenon
    <3>. QED
      BY <2>1, <3>3
  <2>5. sends' \in 0 .. MaxSends /\ Len(configs') <= 3 * sends' /\ next' <= 3 * sends'
    BY <2>1, <2>4, ConfigAssumption DEF AppShape
  <2>6. AppShape'
    BY <2>1, <2>2, <2>4, <2>5 DEF AppShape
  <2>. QED
    BY <1>4, <1>5, <2>1, <2>3, <2>6
<1>7. CASE SendUnopened \/ SendEngineFails \/ SendAll \/ SendDeviceFails
  <2>1. /\ UNCHANGED brdVars /\ UNCHANGED driverVars /\ UNCHANGED cacheVars
        /\ app' \in {"command", "close"} /\ UNCHANGED <<table, next, sends>>
        /\ configs' \in {configs, <<>>} /\ meddled' \in {meddled, TRUE}
    BY <1>7 DEF SendUnopened, SendEngineFails, SendAll, SendDeviceFails
  <2>2. AppShape'
    <3>1. configs' \in Seq(Contents) /\ Len(configs') <= 3 * sends
      <4>1. CASE configs' = configs
        BY <4>1 DEF AppShape
      <4>2. CASE configs' = <<>>
        <5>1. <<>> \in Seq(Contents) /\ Len(<<>>) = 0
          OBVIOUS
        <5>2. sends \in Nat
          BY ConfigAssumption DEF AppShape
        <5>. QED
          BY <4>2, <5>1, <5>2
      <4>. QED
        BY <2>1, <4>1, <4>2
    <3>. QED
      BY <2>1, <3>1 DEF AppShape
  <2>. QED
    BY <1>3, <1>4, <1>5, <2>1, <2>2
<1>8. CASE SendEngine
  <2>1. /\ UNCHANGED brdVars /\ UNCHANGED driverVars /\ app' = "devices"
        /\ PutInCache(0, "engine") /\ UNCHANGED <<table, configs, next, sends, meddled>>
    BY <1>8, SectorNumbers DEF SendEngine
  <2>2. CacheShape'
    <3>1. 0 < Capacity /\ "engine" \in Contents
      BY Sizes, DevicesAreContents
    <3>. QED
      BY <1>2, <2>1, <3>1, PutKeepsCache
  <2>3. AppShape'
    BY <2>1 DEF AppShape
  <2>. QED
    BY <1>3, <1>4, <2>1, <2>2, <2>3
<1>9. CASE SendDevice
  <2>1. /\ UNCHANGED brdVars /\ UNCHANGED driverVars /\ app' = app
        /\ PutInCache(next + 1, configs[next + 1]) /\ UNCHANGED <<table, configs, sends, meddled>>
        /\ next < Len(configs) /\ next + 1 < Capacity /\ next' = next + 1
    BY <1>9 DEF SendDevice, DeviceSector
  <2>2. next \in Nat /\ configs \in Seq(Contents) /\ next + 1 \in Nat
    BY DEF AppShape
  <2>3. configs[next + 1] \in Contents
    BY <2>1, <2>2
  <2>4. CacheShape'
    BY <1>2, <2>1, <2>2, <2>3, PutKeepsCache
  <2>5. AppShape'
    <3>1. next' \in Nat /\ next' <= 3 * sends
      BY <2>1, <2>2, ConfigAssumption DEF AppShape
    <3>. QED
      BY <2>1, <3>1 DEF AppShape
  <2>. QED
    BY <1>3, <1>4, <2>1, <2>4, <2>5
<1>10. CASE SendClose
  <2>1. /\ CloseCached("app") /\ app' = "command" /\ meddled' = (meddled \/ Openers > 1)
        /\ UNCHANGED <<table, configs, next, sends>> /\ UNCHANGED driverVars
    BY <1>10 DEF SendClose
  <2>2. AppShape'
    BY <2>1 DEF AppShape
  <2>3. CacheShape' /\ DiskInv'
    BY <1>1, <2>1, CloseKeepsCache
  <2>. QED
    BY <1>4, <2>1, <2>2, <2>3
<1>11. CASE SendCommand
  <2>1. /\ app' = "idle" /\ command' = TRUE /\ UNCHANGED brdVars /\ UNCHANGED cacheVars
        /\ UNCHANGED <<table, configs, next, sends, meddled>>
        /\ UNCHANGED <<driver, sector, mapped, depth, axisVars>>
    BY <1>11 DEF SendCommand
  <2>2. AppShape' /\ DriverShape'
    BY <2>1 DEF AppShape, DriverShape, axisVars
  <2>. QED
    BY <1>3, <1>5, <2>1, <2>2
<1>. QED
  BY <1>6, <1>7, <1>8, <1>9, <1>10, <1>11

\* Where the driver goes next.
LEMMA NextSectorType ==
    ASSUME DriverShape, NEW at, NEW then, NextSector(at, then)
    PROVE  sector' \in 0 .. 3 /\ driver' \in {at, then}
           /\ (sector < 3 => driver' = at /\ sector' = sector + 1)
           /\ (sector = 3 => driver' = then /\ sector' = 0)
  BY SectorNumbers DEF NextSector, ToDriver, DriverShape

\* The driver's steps keep the invariant.
LEMMA DriverInv ==
    ASSUME ConfigInv, Driver
    PROVE  ConfigInv'
<1>. USE DEF ConfigInv
<1>1. "driver" \in Users
  BY ConfigAssumption
<1>2. tree \in TreeType
  BY DEF DiskInv, DiskShape
<1>3. ASSUME UNCHANGED brdVars PROVE DiskInv'
  BY <1>3 DEF brdVars, DiskInv, DiskShape, RequestsOK, OpenToUse, FlushesAlone, LifeOK
<1>4. ASSUME UNCHANGED cacheVars PROVE CacheShape'
  BY <1>4 DEF cacheVars, CacheShape
<1>5. ASSUME UNCHANGED appVars, UNCHANGED meddled PROVE AppShape'
  BY <1>5 DEF appVars, AppShape
<1>6. CASE Prepare
  <2>1. /\ UNCHANGED brdVars /\ UNCHANGED appVars /\ UNCHANGED cacheVars /\ UNCHANGED meddled
        /\ UNCHANGED <<mapped, axisVars>> /\ command' = FALSE /\ driver' = "get" /\ sector' = 0
        /\ depth' = 0
    BY <1>6 DEF Prepare, ToDriver
  <2>5. command' \in BOOLEAN
    BY <2>1
  <2>6. sector' \in 0 .. 3
    BY <2>1
  <2>7. depth' \in Int
    BY <2>1
  <2>8. driver' \in {"idle", "get", "put", "lookup", "prepare", "destroy"}
    BY <2>1
  <2>4. /\ mapped' = mapped /\ rxData' = rxData /\ configBytesAmount' = configBytesAmount
        /\ payloadBytes' = payloadBytes /\ payloadReady' = payloadReady
    BY <2>1 DEF axisVars
  <2>2. DriverShape'
    BY <2>4, <2>5, <2>6, <2>7, <2>8 DEF DriverShape
  <2>. QED
    BY <1>3, <1>4, <1>5, <2>1, <2>2
<1>7. CASE GetDevice
  <2>1. /\ Open("driver") /\ UNCHANGED appVars /\ UNCHANGED cacheVars /\ UNCHANGED meddled
        /\ UNCHANGED <<command, mapped, depth, axisVars>> /\ driver' = "put" /\ sector' = sector
    BY <1>7 DEF GetDevice, ToDriver
  <2>2. DriverShape'
    BY <2>1 DEF DriverShape, axisVars
  <2>. QED
    BY <1>1, <1>4, <1>5, <2>1, <2>2, OpenCloseInv
<1>8. CASE PutDevice
  <2>1. /\ CloseCached("driver") /\ UNCHANGED appVars /\ UNCHANGED meddled
        /\ UNCHANGED <<command, mapped, depth, axisVars>> /\ driver' = "lookup" /\ sector' = sector
    BY <1>8 DEF PutDevice, ToDriver
  <2>2. DriverShape'
    BY <2>1 DEF DriverShape, axisVars
  <2>. QED
    BY <1>1, <1>5, <2>1, <2>2, CloseKeepsCache
<1>9. CASE ramDiskGetPointer
  <2>1. /\ UNCHANGED brdVars /\ UNCHANGED appVars /\ UNCHANGED cacheVars /\ UNCHANGED meddled
        /\ UNCHANGED <<command, axisVars>> /\ NextSector("get", "prepare")
        /\ mapped' \in {mapped \cup {sector}, mapped \ {sector}} /\ depth' \in {depth + 1, depth}
    BY <1>9 DEF ramDiskGetPointer
  <2>2. sector' \in 0 .. 3 /\ driver' \in {"get", "prepare"}
    BY <2>1, NextSectorType
  <2>3. mapped' \subseteq 0 .. 3 /\ depth' \in Int
    BY <2>1 DEF DriverShape
  <2>4. DriverShape'
    BY <2>1, <2>2, <2>3 DEF DriverShape, axisVars
  <2>. QED
    BY <1>3, <1>4, <1>5, <2>1, <2>4
<1>10. CASE prepareTransfer
  <2>1. /\ UNCHANGED brdVars /\ UNCHANGED appVars /\ UNCHANGED cacheVars /\ UNCHANGED meddled
        /\ UNCHANGED <<command, mapped, depth>> /\ NextSector("prepare", "destroy")
    BY <1>10 DEF prepareTransfer
  <2>2. sector' \in 0 .. 3 /\ driver' \in {"prepare", "destroy"}
    BY <2>1, NextSectorType
  <2>3. /\ configBytesAmount' \in 0 .. 255 /\ payloadBytes' \in 0 .. 255
        /\ payloadReady' \in BOOLEAN /\ rxData' \in Seq(Contents)
    <3>1. CASE sector \notin mapped
      BY <1>10, <3>1 DEF prepareTransfer, axisVars, DriverShape
    <3>2. CASE sector \in mapped
      <4>1. PICK c : c = IF tree[PageOf(sector)] = NoPage THEN Zero ELSE OnPage(tree, sector)
        OBVIOUS
      <4>2. c \in Contents
        <5>1. sector \in Nat /\ sector < Capacity
          BY SectorNumbers DEF DriverShape
        <5>. QED
          BY <1>2, <4>1, <5>1, OnPageType
      <4>3. PICK bytes : bytes = (BytesBefore + SizeByte(c)) % 256
        OBVIOUS
      <4>4. bytes \in 0 .. 255
        <5>1. SizeByte(c) \in 0 .. 255
          BY <4>2, SizeByteType DEF AppShape
        <5>2. BytesBefore \in 0 .. 255
          BY DEF BytesBefore, DriverShape
        <5>3. PICK k \in Nat : k = BytesBefore + SizeByte(c)
          BY <5>1, <5>2
        <5>4. k % 256 \in 0 .. 255
          OBVIOUS
        <5>. QED
          BY <4>3, <5>3, <5>4
      <4>5. /\ configBytesAmount' = bytes
            /\ rxData' = (IF BytesBefore = 0 THEN <<>> ELSE rxData)
                            \o (IF c = Zero THEN <<>> ELSE <<c>>)
            /\ payloadBytes' = IF sector = SECTOR_AMOUNT - 1 THEN Payload(payloadBytes + bytes)
                               ELSE IF sector = SECTOR_ENGINE THEN 0 ELSE payloadBytes
            /\ payloadReady' = (sector = SECTOR_AMOUNT - 1
                                \/ (sector # SECTOR_ENGINE /\ payloadReady))
        BY <1>10, <3>2, <4>1, <4>3 DEF prepareTransfer
      <4>6. Payload(payloadBytes + bytes) \in 0 .. 255
        <5>1. PICK k \in Int : k = (payloadBytes + bytes) - 4 - 5 * (SECTOR_AMOUNT - 1)
          BY <4>4, SectorNumbers DEF DriverShape
        <5>2. k % 256 \in 0 .. 255
          OBVIOUS
        <5>. QED
          BY <5>1, <5>2 DEF Payload
      <4>7. payloadBytes' \in 0 .. 255 /\ payloadReady' \in BOOLEAN
        BY <4>5, <4>6 DEF DriverShape
      <4>8. rxData' \in Seq(Contents)
        <5>1. PICK a \in Seq(Contents) : a = IF BytesBefore = 0 THEN <<>> ELSE rxData
          <6>1. rxData \in Seq(Contents) /\ <<>> \in Seq(Contents)
            BY DEF DriverShape
          <6>. QED
            BY <6>1
        <5>2. PICK b \in Seq(Contents) : b = IF c = Zero THEN <<>> ELSE <<c>>
          <6>1. <<c>> \in Seq(Contents) /\ <<>> \in Seq(Contents)
            BY <4>2
          <6>. QED
            BY <6>1
        <5>. QED
          BY <4>5, <5>1, <5>2
      <4>. QED
        BY <4>4, <4>5, <4>7, <4>8
    <3>. QED
      BY <3>1, <3>2
  <2>4. DriverShape'
    BY <2>1, <2>2, <2>3 DEF DriverShape
  <2>. QED
    BY <1>3, <1>4, <1>5, <2>1, <2>4
<1>11. CASE destroyTransfer
  <2>1. /\ UNCHANGED brdVars /\ UNCHANGED appVars /\ UNCHANGED cacheVars /\ UNCHANGED meddled
        /\ UNCHANGED <<command, mapped, axisVars>> /\ NextSector("destroy", "idle")
        /\ depth' = depth - 1
    BY <1>11 DEF destroyTransfer, Released
  <2>2. sector' \in 0 .. 3 /\ driver' \in {"destroy", "idle"}
    BY <2>1, NextSectorType
  <2>3. DriverShape'
    BY <2>1, <2>2 DEF DriverShape, axisVars
  <2>. QED
    BY <1>3, <1>4, <1>5, <2>1, <2>3
<1>. QED
  BY <1>6, <1>7, <1>8, <1>9, <1>10, <1>11 DEF Driver

\* What others do with the device keeps the invariant.
LEMMA UseInv ==
    ASSUME ConfigInv,
           \/ (Lifecycle \/ brd_probe(Amount) \/ Unload) /\ Rest
           \/ Meddle /\ UNCHANGED <<appVars, driverVars>>
           \/ \E u \in Users : RequestStep(u) \/ SyncBeforeClose(u)
    PROVE  ConfigInv'
<1>. USE DEF ConfigInv
<1>1. "tool" \in Users
  BY ConfigAssumption
<1>2. ASSUME UNCHANGED driverVars PROVE DriverShape'
  BY <1>2 DEF driverVars, axisVars, DriverShape
<1>3. ASSUME UNCHANGED cacheVars PROVE CacheShape'
  BY <1>3 DEF cacheVars, CacheShape
<1>4. ASSUME UNCHANGED appVars, meddled' \in BOOLEAN PROVE AppShape'
  BY <1>4 DEF appVars, AppShape
<1>5. meddled \in BOOLEAN
  BY DEF AppShape
<1>6. CASE (Lifecycle \/ brd_probe(Amount) \/ Unload) /\ Rest
  <2>1. UNCHANGED appVars /\ UNCHANGED cacheVars /\ UNCHANGED driverVars /\ meddled' = meddled
    BY <1>6 DEF Rest
  <2>2. DiskInv'
    BY <1>6, LifecycleInv
  <2>. QED
    BY <1>2, <1>3, <1>4, <1>5, <2>1, <2>2
<1>7. CASE Meddle /\ UNCHANGED <<appVars, driverVars>>
  <2>1. UNCHANGED appVars /\ UNCHANGED driverVars
    BY <1>7
  <2>2. CASE Open("tool") /\ UNCHANGED <<cacheVars, meddled>>
    BY <1>1, <1>2, <1>3, <1>4, <1>5, <2>1, <2>2, OpenCloseInv
  <2>3. CASE CloseCached("tool") /\ UNCHANGED meddled
    BY <1>1, <1>2, <1>4, <1>5, <2>1, <2>3, CloseKeepsCache
  <2>4. ASSUME NEW r \in Requests, brd_make_request("tool", r.op, r.sector, r.segs, r.data),
               meddled' = (meddled \/ r.op # "read"), UNCHANGED cacheVars
        PROVE  ConfigInv'
    <3>1. DiskInv'
      BY <1>1, <2>4, MakeInv, RequestsAskable
    <3>2. meddled' \in BOOLEAN
      BY <1>5, <2>4
    <3>. QED
      BY <1>2, <1>3, <1>4, <2>1, <2>4, <3>1, <3>2
  <2>5. CASE /\ brd_ioctl("tool") /\ cache' = [p \in DOMAIN cache |-> NoPage] /\ dirty' = {}
             /\ meddled' = TRUE
    <3>1. DiskInv'
      BY <1>1, <2>5, FlushInv
    <3>2. CacheShape'
      BY <2>5 DEF CacheShape, TreeType
    <3>. QED
      BY <1>2, <1>4, <2>1, <2>5, <3>1, <3>2
  <2>. QED
    BY <1>7, <2>2, <2>3, <2>4, <2>5 DEF Meddle
<1>8. ASSUME NEW u \in Users, RequestStep(u) PROVE ConfigInv'
  <2>1. IoStep(u) /\ UNCHANGED appVars /\ UNCHANGED cacheVars /\ UNCHANGED driverVars
    BY <1>8 DEF RequestStep
  <2>2. meddled' \in BOOLEAN
    BY <1>5, <1>8 DEF RequestStep
  <2>. QED
    BY <1>2, <1>3, <1>4, <2>1, <2>2, IoStepInv
<1>9. ASSUME NEW u \in Users, SyncBeforeClose(u) PROVE ConfigInv'
  <2>1. UNCHANGED appVars /\ UNCHANGED driverVars /\ meddled' = meddled
    BY <1>9 DEF SyncBeforeClose
  <2>2. PICK p \in dirty :
          /\ brd_make_request(u, "write", p * PageSectors, <<PageSectors>>, cache[p])
          /\ Askable("write", p * PageSectors, <<PageSectors>>, cache[p])
          /\ dirty' = dirty \ {p} /\ cache' = cache
    BY <1>9, SyncMakesRequest
  <2>3. DiskInv'
    BY <2>2, MakeInv
  <2>4. CacheShape'
    BY <2>2 DEF CacheShape
  <2>. QED
    BY <1>2, <1>4, <1>5, <2>1, <2>3, <2>4
<1>. QED
  BY <1>6, <1>7, <1>8, <1>9

\* Every step keeps the invariant.
LEMMA NextInv ==
    ASSUME ConfigInv, [Next]_vars
    PROVE  ConfigInv'
<1>1. CASE UNCHANGED vars
  <2>1. /\ UNCHANGED brdVars /\ UNCHANGED appVars /\ UNCHANGED cacheVars /\ UNCHANGED driverVars
        /\ meddled' = meddled
    BY <1>1 DEF vars
  <2>2. DiskInv'
    BY <2>1 DEF ConfigInv, brdVars, DiskInv, DiskShape, RequestsOK, OpenToUse, FlushesAlone, LifeOK
  <2>3. AppShape' /\ CacheShape' /\ DriverShape'
    BY <2>1 DEF ConfigInv, appVars, cacheVars, driverVars, axisVars, AppShape, CacheShape,
                DriverShape
  <2>. QED
    BY <2>2, <2>3 DEF ConfigInv
<1>2. CASE Next
  BY <1>2, SendInv, DriverInv, UseInv DEF Next
<1>. QED
  BY <1>1, <1>2

\* It holds at first.
LEMMA InitInv == Init => ConfigInv
<1>. SUFFICES ASSUME Init PROVE ConfigInv
  OBVIOUS
<1>1. DiskShape
  <2>1. \A u \in Users : MaxIo[u] \in Nat /\ 0 <= MaxIo[u]
    BY RamDiskAssumption
  <2>. QED
    BY <2>1, NoRequest DEF Init, BrdInit, DiskShape, TreeType
<1>2. RequestsOK /\ OpenToUse /\ FlushesAlone
  BY NoRequest DEF Init, BrdInit, RequestsOK, OpenToUse, FlushesAlone
<1>3. LifeOK
  BY DEF Init, BrdInit, LifeOK, There
<1>4. AppShape
  <2>1. sends \in 0 .. MaxSends /\ next \in Nat /\ next <= 3 * sends
    BY ConfigAssumption DEF Init
  <2>2. configs \in Seq(Contents) /\ Len(configs) = 0 /\ Len(configs) <= 3 * sends
    BY DEF Init
  <2>3. table \in Tables /\ app = "idle"
    BY DEF Init
  <2>4. meddled \in BOOLEAN
    BY DEF Init
  <2>. QED
    BY <2>1, <2>2, <2>3, <2>4 DEF AppShape
<1>5. CacheShape
  BY DEF Init, CacheShape, TreeType
<1>6. DriverShape
  <2>1. command \in BOOLEAN /\ payloadReady \in BOOLEAN
    BY DEF Init
  <2>2. driver = "idle" /\ mapped = {}
    BY DEF Init
  <2>3. sector \in 0 .. 3 /\ configBytesAmount \in 0 .. 255 /\ payloadBytes \in 0 .. 255
    BY DEF Init
  <2>4. depth \in Int
    BY DEF Init
  <2>5. rxData \in Seq(Contents)
    BY DEF Init
  <2>. QED
    BY <2>1, <2>2, <2>3, <2>4, <2>5 DEF DriverShape
<1>. QED
  BY <1>1, <1>2, <1>3, <1>4, <1>5, <1>6 DEF ConfigInv, DiskInv

\* The invariant of the path, for every size of disk and every use of it.
LEMMA Invariance == Spec => []ConfigInv
<1>1. Init => ConfigInv
  BY InitInv
<1>2. ConfigInv /\ [Next]_vars => ConfigInv'
  BY NextInv
<1>. QED
  BY <1>1, <1>2, PTL DEF Spec

\* TypeOK: every variable of the application, the page cache, the RAM disk and
\* the driver keeps its type.
THEOREM TypeCorrect == Spec => []TypeOK
<1>1. ConfigInv => TypeOK
  <2>. SUFFICES ASSUME ConfigInv PROVE TypeOK
    OBVIOUS
  <2>. USE DEF ConfigInv
  <2>1. \A u \in Users :
          /\ io[u].at \in {"idle", "setup", "insert", "copy", "zero", "flush", "flushed", "done"}
          /\ io[u].sector \in 0 .. Capacity
          /\ io[u].at # "idle" => opened[u]
    <3>. SUFFICES ASSUME NEW u \in Users
         PROVE /\ io[u].at \in {"idle", "setup", "insert", "copy", "zero", "flush", "flushed",
                                "done"}
               /\ io[u].sector \in 0 .. Capacity
               /\ io[u].at # "idle" => opened[u]
      OBVIOUS
    <3>1. io[u] \in IoRecord /\ io[u].sector + Sectors(io[u].segs) <= Capacity
          /\ (io[u].at # "idle" => opened[u])
      BY OfUser DEF RequestOK
    <3>2. /\ io[u].at \in {"idle", "setup", "insert", "copy", "zero", "flush", "flushed", "done"}
          /\ io[u].sector \in Nat /\ io[u].segs \in Seq(Nat)
      BY <3>1 DEF IoRecord
    <3>3. Sectors(io[u].segs) \in Nat
      BY <3>2, SectorsType
    <3>4. io[u].sector \in 0 .. Capacity
      BY <3>1, <3>2, <3>3, Sizes
    <3>. QED
      BY <3>1, <3>2, <3>4
  <2>2. devices \subseteq Nat
    <3>1. \A x \in 0 .. Amount : x \in Nat
      BY Sizes
    <3>. QED
      BY <3>1 DEF DiskInv, LifeOK
  <2>3. \A u \in Users : ios[u] \in 0 .. MaxIo[u]
    BY RamDiskAssumption DEF DiskInv, DiskShape
  <2>4. BrdTypeOK
    BY <2>1, <2>2, <2>3 DEF BrdTypeOK, DiskInv, DiskShape, LifeOK, TreeType
  <2>5. sends \in Nat
    BY ConfigAssumption DEF AppShape
  <2>6. next \in 0 .. Len(Devices) * sends
    BY <2>5, DevicesAreContents DEF AppShape
  <2>7. sector \in 0 .. SECTOR_AMOUNT - 1 /\ mapped \subseteq 0 .. SECTOR_AMOUNT - 1
    BY SectorNumbers DEF DriverShape
  <2>. QED
    BY <2>4, <2>6, <2>7 DEF TypeOK, AppShape, CacheShape, DriverShape, TreeType
<1>. QED
  BY <1>1, Invariance, PTL

\* NoBugOn: copy_to_brd never meets BUG_ON(!page), because the pages that a
\* write has made sure of stay until it is done: they are freed only with the
\* device, or by a BLKFLSBUF of a user who is alone.
THEOREM PagesStayForWrites == Spec => []NoBugOn
<1>1. ConfigInv => NoBugOn
  <2>. SUFFICES ASSUME ConfigInv, NEW u \in Users, NEW r, r = io[u], r.at = "copy", r.op = "write",
                       NEW s \in r.sector .. r.sector + Head(r.segs) - 1
       PROVE tree[PageOf(s)] # NoPage
    BY DEF NoBugOn
  <2>1. RequestOK(r) /\ PagesThere(tree, r) /\ Onward(r)
    BY OfUser DEF ConfigInv, Onward
  <2>2. r.sector \in Nat /\ Head(r.segs) \in 1 .. PageSectors
    BY <2>1, Going
  <2>3. PICK last \in Nat : last = r.sector + Head(r.segs) - 1
    BY <2>2, Sizes
  <2>4. s \in Nat /\ r.sector <= s /\ s <= last
    BY <2>2, <2>3
  <2>5. PageOf(r.sector) <= PageOf(s) /\ PageOf(s) <= PageOf(last)
    BY <2>2, <2>4, PagesInOrder
  <2>6. PageOf(last) \in {PageOf(r.sector), PageOf(r.sector) + 1}
    BY <2>1, <2>3, PagesOfSegment
  <2>7. PageOf(r.sector) \in Nat /\ PageOf(s) \in Nat /\ PageOf(last) \in Nat
    BY <2>2, <2>4, PageAndPlace
  <2>8. PageOf(s) \in {PageOf(r.sector), PageOf(last)}
    BY <2>5, <2>6, <2>7
  <2>. QED
    BY <2>1, <2>3, <2>8 DEF PagesThere, There
<1>. QED
  BY <1>1, Invariance, PTL

\* NothingLeaks: a module that is gone, or whose loading has failed, leaves no
\* device, no page, no open file and no request.
THEOREM LeavesNothing == Spec => []NothingLeaks
<1>1. ConfigInv => NothingLeaks
  <2>. SUFFICES ASSUME ConfigInv, life \in {"gone", "failed"}
       PROVE  /\ devices = {} /\ added = {}
              /\ \A p \in DOMAIN tree : tree[p] = NoPage
              /\ \A u \in Users : ~opened[u] /\ io[u] = NoIo
    BY DEF NothingLeaks
  <2>1. devices = {} /\ added = {} /\ DOMAIN tree = 0 .. Pages - 1
    BY DEF ConfigInv, DiskInv, DiskShape, LifeOK, TreeType
  <2>2. /\ \A p \in 0 .. Pages - 1 : tree[p] = NoPage
        /\ \A u \in Users : ~opened[u] /\ io[u] = NoIo
    BY <2>1, NobodyUses DEF ConfigInv
  <2>. QED
    BY <2>1, <2>2
<1>. QED
  BY <1>1, Invariance, PTL

-----------------------------------------------------------------------------
(* The RAM disk implements an array of sectors.                            *)

\* The array and the requests as SectorStore sees them.
DiskMap ==
    [s \in 0 .. Capacity - 1 |-> IF tree[PageOf(s)] = NoPage THEN Zero ELSE OnPage(tree, s)]
TaskOf(r) ==
    [op |-> r.op, next |-> r.sector, todo |-> Sectors(r.segs), data |-> r.data, got |-> r.got]
TaskMap ==
    [u \in Users |-> [op |-> io[u].op, next |-> io[u].sector, todo |-> Sectors(io[u].segs),
                      data |-> io[u].data, got |-> io[u].got]]

\* A read moves on.
LEMMA StoreRead ==
    ASSUME NEW u \in Users, NEW k \in Nat, NEW t, t = TaskMap[u], t.op = "read", k <= t.todo,
           NEW q, q.op = t.op, q.next = t.next + k, q.todo = t.todo - k,
           q.data = <<>>, q.got = t.got \o [i \in 1 .. k |-> DiskMap[t.next + i - 1]],
           q = [op |-> q.op, next |-> q.next, todo |-> q.todo, data |-> q.data, got |-> q.got],
           DiskMap' = DiskMap,
           TaskMap' = [TaskMap EXCEPT ![u] = q]
    PROVE  Store!Move(u, k)
<1>1. PICK s : s = [t EXCEPT !.next = t.next + k, !.todo = t.todo - k, !.data = <<>>, !.got = q.got]
  OBVIOUS
<1>2. s = q
  <2>1. t = [op |-> t.op, next |-> t.next, todo |-> t.todo, data |-> t.data, got |-> t.got]
    BY DEF TaskMap
  <2>2. DOMAIN t = {"op", "next", "todo", "data", "got"} /\ DOMAIN s = DOMAIN t
    BY <1>1, <2>1
  <2>3. s.op = t.op /\ s.next = t.next + k /\ s.todo = t.todo - k
    BY <1>1, <2>1
  <2>4. s.data = <<>> /\ s.got = q.got
    BY <1>1, <2>1
  <2>5. s = [x \in {"op", "next", "todo", "data", "got"} |-> s[x]]
    BY <1>1, <2>1, <2>2
  <2>6. s = [op |-> s.op, next |-> s.next, todo |-> s.todo, data |-> s.data, got |-> s.got]
    BY <2>5
  <2>. QED
    BY <2>3, <2>4, <2>6
<1>3. /\ k <= TaskMap[u].todo /\ TaskMap[u].op = "read" /\ TaskMap[u].op # "write"
      /\ DiskMap' = DiskMap
  OBVIOUS
<1>4. s = [TaskMap[u] EXCEPT !.next = TaskMap[u].next + k, !.todo = TaskMap[u].todo - k,
            !.data = IF TaskMap[u].op = "write"
                     THEN SubSeq(TaskMap[u].data, k + 1, TaskMap[u].todo) ELSE <<>>,
            !.got = IF TaskMap[u].op = "read"
                    THEN TaskMap[u].got \o [i \in 1 .. k |-> DiskMap[TaskMap[u].next + i - 1]]
                    ELSE <<>>]
  BY <1>1, <1>3
<1>5. TaskMap' = [TaskMap EXCEPT ![u] =
        [TaskMap[u] EXCEPT !.next = TaskMap[u].next + k, !.todo = TaskMap[u].todo - k,
            !.data = IF TaskMap[u].op = "write"
                     THEN SubSeq(TaskMap[u].data, k + 1, TaskMap[u].todo) ELSE <<>>,
            !.got = IF TaskMap[u].op = "read"
                    THEN TaskMap[u].got \o [i \in 1 .. k |-> DiskMap[TaskMap[u].next + i - 1]]
                    ELSE <<>>]]
  BY <1>2, <1>4
<1>. QED
  BY <1>3, <1>5 DEF Store!Move, DiskMap, TaskMap

\* A write moves on.
LEMMA StoreWrite ==
    ASSUME NEW u \in Users, NEW k \in Nat, NEW t, t = TaskMap[u], t.op = "write", k <= t.todo,
           NEW q, q.op = t.op, q.next = t.next + k, q.todo = t.todo - k,
           q.data = SubSeq(t.data, k + 1, t.todo), q.got = <<>>,
           q = [op |-> q.op, next |-> q.next, todo |-> q.todo, data |-> q.data, got |-> q.got],
           DiskMap' = [s \in DOMAIN DiskMap |->
                IF s \in t.next .. t.next + k - 1 THEN t.data[s - t.next + 1] ELSE DiskMap[s]],
           TaskMap' = [TaskMap EXCEPT ![u] = q]
    PROVE  Store!Move(u, k)
<1>1. PICK s : s = [t EXCEPT !.next = t.next + k, !.todo = t.todo - k,
                             !.data = q.data, !.got = <<>>]
  OBVIOUS
<1>2. s = q
  <2>1. t = [op |-> t.op, next |-> t.next, todo |-> t.todo, data |-> t.data, got |-> t.got]
    BY DEF TaskMap
  <2>2. DOMAIN t = {"op", "next", "todo", "data", "got"} /\ DOMAIN s = DOMAIN t
    BY <1>1, <2>1
  <2>3. s.op = t.op /\ s.next = t.next + k /\ s.todo = t.todo - k
    BY <1>1, <2>1
  <2>4. s.data = q.data /\ s.got = <<>>
    BY <1>1, <2>1
  <2>5. s = [x \in {"op", "next", "todo", "data", "got"} |-> s[x]]
    BY <1>1, <2>1, <2>2
  <2>6. s = [op |-> s.op, next |-> s.next, todo |-> s.todo, data |-> s.data, got |-> s.got]
    BY <2>5
  <2>. QED
    BY <2>3, <2>4, <2>6
<1>. QED
  BY <1>1, <1>2 DEF Store!Move, DiskMap, TaskMap

\* A discard or a flush moves on.
LEMMA StoreZero ==
    ASSUME NEW u \in Users, NEW k \in Nat, NEW t, t = TaskMap[u],
           t.op \in {"discard", "flush"}, k <= t.todo,
           NEW q, q.op = t.op, q.next = t.next + k, q.todo = t.todo - k,
           q.data = <<>>, q.got = <<>>,
           q = [op |-> q.op, next |-> q.next, todo |-> q.todo, data |-> q.data, got |-> q.got],
           DiskMap' = [s \in DOMAIN DiskMap |->
                IF s \in t.next .. t.next + k - 1 THEN Zero ELSE DiskMap[s]],
           TaskMap' = [TaskMap EXCEPT ![u] = q]
    PROVE  Store!Move(u, k)
<1>1. PICK s : s = [t EXCEPT !.next = t.next + k, !.todo = t.todo - k, !.data = <<>>, !.got = <<>>]
  OBVIOUS
<1>2. s = q
  <2>1. t = [op |-> t.op, next |-> t.next, todo |-> t.todo, data |-> t.data, got |-> t.got]
    BY DEF TaskMap
  <2>2. DOMAIN t = {"op", "next", "todo", "data", "got"} /\ DOMAIN s = DOMAIN t
    BY <1>1, <2>1
  <2>3. s.op = t.op /\ s.next = t.next + k /\ s.todo = t.todo - k
    BY <1>1, <2>1
  <2>4. s.data = <<>> /\ s.got = <<>>
    BY <1>1, <2>1
  <2>5. s = [x \in {"op", "next", "todo", "data", "got"} |-> s[x]]
    BY <1>1, <2>1, <2>2
  <2>6. s = [op |-> s.op, next |-> s.next, todo |-> s.todo, data |-> s.data, got |-> s.got]
    BY <2>5
  <2>. QED
    BY <2>3, <2>4, <2>6
<1>. QED
  BY <1>1, <1>2 DEF Store!Move, DiskMap, TaskMap

\* A request begins.
LEMMA StoreBegin ==
    ASSUME NEW u \in Users, NEW t, TaskMap[u] = Store!NoTask,
           t.op \in {"read", "write", "discard", "flush"}, t.next + t.todo <= Capacity,
           t.op = "flush" => t.next = 0 /\ t.todo = Capacity,
           t.op = "write" => Len(t.data) = t.todo, t.got = <<>>,
           TaskMap' = [TaskMap EXCEPT ![u] = t], DiskMap' = DiskMap
    PROVE  Store!Begin(u)
  BY DEF Store!Begin, DiskMap, TaskMap

\* A request ends.
LEMMA StoreEnd ==
    ASSUME NEW u \in Users, TaskMap[u] # Store!NoTask,
           TaskMap[u].op # "write" => TaskMap[u].todo = 0,
           TaskMap' = [TaskMap EXCEPT ![u] = Store!NoTask], DiskMap' = DiskMap
    PROVE  Store!End(u)
  BY DEF Store!End, DiskMap, TaskMap

\* The device goes.
LEMMA StoreRemove ==
    ASSUME \A u \in Users : TaskMap[u] = Store!NoTask, TaskMap' = TaskMap,
           DiskMap' = [s \in DOMAIN DiskMap |-> Zero]
    PROVE  Store!Remove
  BY DEF Store!Remove, DiskMap, TaskMap

\* Which steps are steps of the array.
LEMMA StoreSteps ==
    /\ Store!Remove => [Store!Next]_(Store!vars)
    /\ \A u \in Users : Store!Begin(u) \/ Store!End(u) => [Store!Next]_(Store!vars)
    /\ \A u \in Users : \A k \in 1 .. Capacity : Store!Move(u, k) => [Store!Next]_(Store!vars)
    /\ DiskMap' = DiskMap /\ TaskMap' = TaskMap => [Store!Next]_(Store!vars)
<1>1. Store!Remove => Store!Next
  BY DEF Store!Next
<1>2. \A u \in Users : Store!Begin(u) \/ Store!End(u) => Store!Next
  BY DEF Store!Next
<1>3. \A u \in Users : \A k \in 1 .. Capacity : Store!Move(u, k) => Store!Next
  BY DEF Store!Next
<1>4. DiskMap' = DiskMap /\ TaskMap' = TaskMap => UNCHANGED Store!vars
  BY DEF Store!vars, DiskMap, TaskMap
<1>. QED
  BY <1>1, <1>2, <1>3, <1>4

\* The array and the requests change with the pages and the requests alone.
LEMMA Unmapped ==
    ASSUME UNCHANGED <<tree, io>>
    PROVE  DiskMap' = DiskMap /\ TaskMap' = TaskMap
  BY DEF DiskMap, TaskMap, OnPage, PageOf

\* One user's request changes.
LEMMA TaskChanges ==
    ASSUME DiskInv, NEW u \in Users, NEW q, io' = [io EXCEPT ![u] = q]
    PROVE  /\ TaskMap' = [TaskMap EXCEPT ![u] = TaskOf(q)]
           /\ TaskMap[u] = TaskOf(io[u])
           /\ TaskOf(q) = TaskOf(io[u]) => TaskMap' = TaskMap
<1>1. io \in [Users -> IoRecord]
  BY DEF DiskInv, DiskShape
<1>2. \A v \in Users : io'[v] = IF v = u THEN q ELSE io[v]
  BY <1>1
<1>3. \A v \in Users : TaskMap[v] = TaskOf(io[v]) /\ TaskMap'[v] = TaskOf(io'[v])
  BY DEF TaskMap, TaskOf
<1>4. TaskMap = [v \in Users |-> TaskOf(io[v])] /\ TaskMap' = [v \in Users |-> TaskOf(io'[v])]
  BY DEF TaskMap, TaskOf
<1>5. TaskMap' = [TaskMap EXCEPT ![u] = TaskOf(q)]
  BY <1>2, <1>4
<1>6. TaskOf(q) = TaskOf(io[u]) => TaskMap' = TaskMap
  BY <1>2, <1>4
<1>. QED
  BY <1>3, <1>5, <1>6

\* Nobody's request is no task.
LEMMA NoTaskIs == TaskOf(NoIo) = Store!NoTask
  BY NoRequest DEF TaskOf, Store!NoTask

\* The fields of a task.
LEMMA TaskFields ==
    ASSUME NEW r
    PROVE  /\ TaskOf(r).op = r.op /\ TaskOf(r).next = r.sector /\ TaskOf(r).todo = Sectors(r.segs)
           /\ TaskOf(r).data = r.data /\ TaskOf(r).got = r.got
           /\ TaskOf(r) = [op |-> TaskOf(r).op, next |-> TaskOf(r).next,
                           todo |-> TaskOf(r).todo, data |-> TaskOf(r).data,
                           got |-> TaskOf(r).got]
  BY DEF TaskOf

\* The contents of the array, before and after a step.
LEMMA DiskAt ==
    /\ DOMAIN DiskMap = 0 .. Capacity - 1
    /\ \A s \in 0 .. Capacity - 1 :
        DiskMap[s] = IF tree[PageOf(s)] = NoPage THEN Zero
                     ELSE tree[PageOf(s)][(s % PageSectors) + 1]
    /\ \A s \in 0 .. Capacity - 1 :
        DiskMap'[s] = IF tree'[PageOf(s)] = NoPage THEN Zero
                      ELSE tree'[PageOf(s)][(s % PageSectors) + 1]
    /\ \A f : (\A s \in 0 .. Capacity - 1 : DiskMap'[s] = f[s])
                => DiskMap' = [s \in 0 .. Capacity - 1 |-> f[s]]
    /\ (\A s \in 0 .. Capacity - 1 : DiskMap'[s] = DiskMap[s]) => DiskMap' = DiskMap
  BY DEF DiskMap, OnPage, PageOf

\* The page of a sector exists.
LEMMA PageOfSector ==
    ASSUME NEW s \in 0 .. Capacity - 1
    PROVE  /\ s \in Nat /\ PageOf(s) \in 0 .. Pages - 1 /\ PageOf(s) \in Nat
           /\ s % PageSectors \in 0 .. PageSectors - 1 /\ (s % PageSectors) + 1 \in 1 .. PageSectors
           /\ PageSectors * PageOf(s) \in Nat /\ s = PageSectors * PageOf(s) + (s % PageSectors)
<1>1. s \in Nat /\ s < Capacity
  BY Sizes
<1>2. PageOf(s) \in 0 .. Pages - 1
  BY <1>1, PageExists
<1>3. /\ PageOf(s) \in Nat /\ s % PageSectors \in 0 .. PageSectors - 1
      /\ PageSectors * PageOf(s) \in Nat /\ s = PageSectors * PageOf(s) + (s % PageSectors)
  BY <1>1, PageAndPlace
<1>. QED
  BY <1>1, <1>2, <1>3, Sizes

\* A run of sectors on one page.
LEMMA RunOnPage ==
    ASSUME NEW a \in Nat, NEW n \in Nat, n <= PageSectors - (a % PageSectors), NEW s \in Nat
    PROVE  /\ s \in a .. a + n - 1 <=>
                /\ PageOf(s) = PageOf(a)
                /\ s % PageSectors \in a % PageSectors .. (a % PageSectors) + n - 1
           /\ PageOf(s) = PageOf(a) => s - a = (s % PageSectors) - (a % PageSectors)
<1>1. PICK b \in Nat : b = PageSectors * PageOf(a)
  BY PageAndPlace
<1>2. PICK o \in Nat : o = a % PageSectors
  BY PageAndPlace, Sizes
<1>3. PICK i \in Nat : i = s % PageSectors
  BY PageAndPlace, Sizes
<1>4. a = b + o /\ (PageOf(s) = PageOf(a) => s = b + i)
  BY <1>1, <1>2, <1>3, PageAndPlace
<1>5. ASSUME s \in a .. a + n - 1 PROVE PageOf(s) = PageOf(a)
  <2>1. s - a \in Nat /\ o + (s - a) < PageSectors /\ a + (s - a) = s
    BY <1>2, <1>5, Sizes
  <2>2. PICK k \in Nat : k = s - a
    BY <2>1
  <2>3. PageOf(a + k) = PageOf(a)
    BY <1>2, <2>1, <2>2, SamePage
  <2>. QED
    BY <2>1, <2>2, <2>3
<1>. QED
  BY <1>2, <1>3, <1>4, <1>5

\* The requests that touch no page with something on it.
LEMMA SetupRefines ==
    ASSUME DiskInv, NEW u \in Users, LookupForWrite(u) \/ AllocPageFails(u) \/ brd_insert_page(u)
    PROVE  [Store!Next]_(Store!vars)
<1>1. PICK q : /\ io' = [io EXCEPT ![u] = q] /\ io[u].op = "write"
               /\ q = NoIo \/ (/\ q.op = io[u].op /\ q.sector = io[u].sector
                               /\ q.segs = io[u].segs /\ q.data = io[u].data
                               /\ q.got = io[u].got /\ q.at \in {"setup", "insert", "copy"})
  BY WritePagesInv
<1>2. \A p \in 0 .. Pages - 1 : tree'[p] = tree[p] \/ (tree[p] = NoPage /\ tree'[p] = ZeroPage)
  BY WritePagesInv
<1>3. DiskMap' = DiskMap
  <2>. SUFFICES ASSUME NEW s \in 0 .. Capacity - 1 PROVE DiskMap'[s] = DiskMap[s]
    BY DiskAt
  <2>1. PageOf(s) \in 0 .. Pages - 1 /\ (s % PageSectors) + 1 \in 1 .. PageSectors
    BY PageOfSector
  <2>2. ZeroPage[(s % PageSectors) + 1] = Zero
    BY <2>1 DEF ZeroPage
  <2>. QED
    BY <1>2, <2>1, <2>2, DiskAt
<1>4. CASE q = NoIo
  <2>1. TaskMap' = [TaskMap EXCEPT ![u] = Store!NoTask]
    BY <1>1, <1>4, TaskChanges, NoTaskIs
  <2>2. TaskMap[u] = TaskOf(io[u]) /\ TaskMap[u].op = "write"
    BY <1>1, TaskChanges, TaskFields
  <2>3. TaskMap[u] # Store!NoTask
    BY <2>2 DEF Store!NoTask
  <2>. QED
    BY <1>3, <2>1, <2>2, <2>3, StoreEnd, StoreSteps
<1>5. CASE q # NoIo
  <2>1. TaskOf(q) = TaskOf(io[u])
    BY <1>1, <1>5 DEF TaskOf
  <2>2. TaskMap' = TaskMap
    BY <1>1, <2>1, TaskChanges
  <2>. QED
    BY <1>3, <2>2, StoreSteps
<1>. QED
  BY <1>4, <1>5

\* One memcpy of a write is a run of the array.
LEMMA CopyToRefines ==
    ASSUME DiskInv, NEW u \in Users, copy_to_brd(u)
    PROVE  [Store!Next]_(Store!vars)
<1>1. PICK r : r = io[u]
  OBVIOUS
<1>2. /\ RequestOK(r) /\ PagesThere(tree, r) /\ r \in IoRecord
      /\ r.at = "copy" /\ r.op = "write" /\ DOMAIN tree = 0 .. Pages - 1
  BY <1>1, OfUser DEF copy_to_brd
<1>3. PICK n \in Nat : /\ n = Copy1(r) /\ n \in 1 .. PageSectors /\ n <= Sectors(r.segs)
                       /\ n <= PageSectors - (r.sector % PageSectors)
  <2>1. PICK n : n = Copy1(r)
    OBVIOUS
  <2>2. PICK h : h = Head(r.segs)
    OBVIOUS
  <2>3. PICK w : w = Advance(r, n)
    OBVIOUS
  <2>. QED
    BY <1>2, <2>1, <2>2, <2>3, Advances
<1>4. PICK a \in Nat : a = r.sector
  BY <1>2 DEF IoRecord
<1>5. PICK o \in Nat : o = a % PageSectors
  BY PageAndPlace, Sizes
<1>6. PICK p \in 0 .. Pages - 1 : p = PageOf(a) /\ tree[p] \in [1 .. PageSectors -> Contents]
  BY <1>1, <1>4, CopyToInv
<1>7. PICK pg : pg = CopiedPage(tree[p], o, n, r.data)
  OBVIOUS
<1>8. /\ io' = [io EXCEPT ![u] = WriteNext(r)] /\ tree' = [tree EXCEPT ![p] = pg]
  BY <1>1, <1>3, <1>4, <1>5, <1>6, <1>7, CopyToInv
<1>9. pg = [i \in 1 .. PageSectors |-> IF i \in o + 1 .. o + n THEN r.data[i - o] ELSE tree[p][i]]
  BY <1>7 DEF CopiedPage
<1>10. pg # NoPage /\ tree[p] # NoPage
  <2>2. tree[p] # NoPage
    BY <1>6, RamDiskAssumption
  <2>6. pg \in [1 .. PageSectors -> Contents]
    <3>1. \A j \in 1 .. n : r.data[j] \in Contents
      <4>1. r.data \in Seq(Contents) /\ Len(r.data) = Sectors(r.segs) /\ Sectors(r.segs) \in Nat
        <5>1. r.data \in Seq(Contents) /\ r.segs \in Seq(Nat)
          BY <1>2 DEF IoRecord
        <5>. QED
          BY <1>2, <5>1, SectorsType DEF RequestOK
      <4>. QED
        BY <1>3, <4>1
    <3>2. ASSUME NEW i \in 1 .. PageSectors
          PROVE  (IF i \in o + 1 .. o + n THEN r.data[i - o] ELSE tree[p][i]) \in Contents
      <4>1. i \in o + 1 .. o + n => i - o \in 1 .. n
        OBVIOUS
      <4>. QED
        BY <1>6, <3>1, <4>1
    <3>. QED
      BY <1>9, <3>2
  <2>. QED
    BY <2>2, <2>6, RamDiskAssumption
<1>11. DiskMap' = [s \in DOMAIN DiskMap |->
            IF s \in a .. a + n - 1 THEN r.data[s - a + 1] ELSE DiskMap[s]]
  <2>1. ASSUME NEW s \in 0 .. Capacity - 1
        PROVE  DiskMap'[s] = IF s \in a .. a + n - 1 THEN r.data[s - a + 1] ELSE DiskMap[s]
    <3>1. PICK i \in Nat : i = s % PageSectors
      BY PageOfSector, Sizes
    <3>2. s \in Nat /\ PageOf(s) \in 0 .. Pages - 1 /\ i + 1 \in 1 .. PageSectors
      BY <3>1, PageOfSector
    <3>3. /\ s \in a .. a + n - 1 <=> PageOf(s) = p /\ i \in o .. o + n - 1
          /\ PageOf(s) = p => s - a = i - o
      BY <1>3, <1>4, <1>5, <1>6, <3>1, <3>2, RunOnPage
    <3>4. CASE PageOf(s) = p
      <4>1. DiskMap'[s] = pg[i + 1] /\ DiskMap[s] = tree[p][i + 1]
        BY <1>2, <1>8, <1>10, <3>1, <3>4, DiskAt
      <4>2. pg[i + 1] = IF i + 1 \in o + 1 .. o + n THEN r.data[(i + 1) - o] ELSE tree[p][i + 1]
        BY <1>9, <3>2
      <4>3. (i + 1) - o = s - a + 1 /\ (i + 1 \in o + 1 .. o + n <=> s \in a .. a + n - 1)
        BY <3>2, <3>3, <3>4
      <4>. QED
        BY <4>1, <4>2, <4>3
    <3>5. CASE PageOf(s) # p
      <4>1. tree'[PageOf(s)] = tree[PageOf(s)]
        BY <1>2, <1>8, <3>2, <3>5
      <4>. QED
        BY <3>3, <3>5, <4>1, DiskAt
    <3>. QED
      BY <3>4, <3>5
  <2>2. DiskMap' = [s \in 0 .. Capacity - 1 |->
            IF s \in a .. a + n - 1 THEN r.data[s - a + 1] ELSE DiskMap[s]]
    BY <2>1 DEF DiskMap
  <2>. QED
    BY <2>2, DiskAt
<1>12. PICK t : t = TaskMap[u]
  OBVIOUS
<1>13. /\ t = TaskOf(r) /\ t.op = "write" /\ t.next = a
       /\ t.todo = Sectors(r.segs) /\ t.data = r.data
  BY <1>1, <1>2, <1>4, <1>8, <1>12, TaskChanges, TaskFields
<1>14. PICK q : q = WriteNext(r)
  OBVIOUS
<1>15. PICK v : v = TaskOf(q)
  OBVIOUS
<1>16. Store!Move(u, n)
  <2>1. /\ q.op = r.op /\ q.sector = r.sector + n /\ Sectors(q.segs) = Sectors(r.segs) - n
        /\ q.data = SubSeq(r.data, n + 1, Len(r.data)) /\ q.got = r.got
    BY <1>2, <1>3, <1>14, WriteGoesOn
  <2>2. Len(r.data) = Sectors(r.segs) /\ r.got = <<>>
    BY <1>2 DEF RequestOK
  <2>3. /\ v.op = t.op /\ v.next = t.next + n /\ v.todo = t.todo - n /\ v.got = <<>>
        /\ v = [op |-> v.op, next |-> v.next, todo |-> v.todo, data |-> v.data, got |-> v.got]
    BY <1>2, <1>4, <1>13, <1>15, <2>1, <2>2, TaskFields
  <2>4. v.data = SubSeq(t.data, n + 1, t.todo)
    BY <1>13, <1>15, <2>1, <2>2, TaskFields
  <2>5. TaskMap' = [TaskMap EXCEPT ![u] = v]
    BY <1>8, <1>14, <1>15, TaskChanges
  <2>6. DiskMap' = [s \in DOMAIN DiskMap |->
            IF s \in t.next .. t.next + n - 1 THEN t.data[s - t.next + 1] ELSE DiskMap[s]]
    BY <1>11, <1>13
  <2>7. n <= t.todo
    BY <1>3, <1>13
  <2>. QED
    BY <1>12, <1>13, <2>3, <2>4, <2>5, <2>6, <2>7, StoreWrite
<1>17. n \in 1 .. Capacity
  <2>1. r.sector + Sectors(r.segs) <= Capacity /\ r.segs \in Seq(Nat)
    BY <1>2 DEF RequestOK, IoRecord
  <2>2. Sectors(r.segs) \in Nat
    BY <2>1, SectorsType
  <2>. QED
    BY <1>3, <1>4, <2>1, <2>2, Sizes
<1>. QED
  BY <1>16, <1>17, StoreSteps

\* One memcpy of a read is a run of the array.
LEMMA CopyFromRefines ==
    ASSUME DiskInv, NEW u \in Users, copy_from_brd(u)
    PROVE  [Store!Next]_(Store!vars)
<1>1. PICK r : r = io[u]
  OBVIOUS
<1>2. /\ RequestOK(r) /\ r \in IoRecord /\ r.at = "copy" /\ r.op = "read" /\ tree \in TreeType
  BY <1>1, OfUser DEF copy_from_brd
<1>3. PICK n \in Nat : /\ n = Copy1(r) /\ n \in 1 .. PageSectors /\ n <= Sectors(r.segs)
                       /\ n <= PageSectors - (r.sector % PageSectors)
  <2>1. PICK n : n = Copy1(r)
    OBVIOUS
  <2>2. PICK h : h = Head(r.segs)
    OBVIOUS
  <2>3. PICK w : w = Advance(r, n)
    OBVIOUS
  <2>. QED
    BY <1>2, <2>1, <2>2, <2>3, Advances
<1>4. PICK a \in Nat : a = r.sector
  BY <1>2 DEF IoRecord
<1>5. a + Sectors(r.segs) <= Capacity /\ Sectors(r.segs) \in Nat /\ r.data = <<>>
  <2>1. r.segs \in Seq(Nat)
    BY <1>2 DEF IoRecord
  <2>2. Sectors(r.segs) \in Nat
    BY <2>1, SectorsType
  <2>. QED
    BY <1>2, <1>4, <2>2 DEF RequestOK
<1>6. io' = [io EXCEPT ![u] = ReadNext(tree, r)] /\ tree' = tree
  BY <1>1, CopyFromInv
<1>7. DiskMap' = DiskMap
  BY <1>6, DiskAt
<1>8. PICK t : t = TaskMap[u]
  OBVIOUS
<1>10. PICK q : q = ReadNext(tree, r)
  OBVIOUS
<1>9. /\ t = TaskOf(r) /\ t.op = "read" /\ t.next = a /\ t.todo = Sectors(r.segs) /\ t.got = r.got
  <2>1. io' = [io EXCEPT ![u] = q]
    BY <1>6, <1>10
  <2>2. t = TaskOf(r)
    BY <1>1, <1>8, <2>1, TaskChanges
  <2>. QED
    BY <1>2, <1>4, <2>2, TaskFields
<1>11. PICK v : v = TaskOf(q)
  OBVIOUS
<1>12. /\ q.op = r.op /\ q.sector = r.sector + n /\ Sectors(q.segs) = Sectors(r.segs) - n
       /\ q.data = r.data
       /\ q.got = r.got \o [i \in 1 .. n |->
                IF tree[PageOf(r.sector)] = NoPage THEN Zero ELSE OnPage(tree, r.sector + i - 1)]
  BY <1>2, <1>3, <1>10, ReadGoesOn
<1>13. [i \in 1 .. n |->
                IF tree[PageOf(r.sector)] = NoPage THEN Zero ELSE OnPage(tree, r.sector + i - 1)]
            = [i \in 1 .. n |-> DiskMap[t.next + i - 1]]
  <2>. SUFFICES ASSUME NEW i \in 1 .. n
                PROVE  (IF tree[PageOf(a)] = NoPage THEN Zero ELSE OnPage(tree, a + i - 1))
                            = DiskMap[a + i - 1]
    BY <1>4, <1>9
  <2>1. PICK s \in Nat : s = a + i - 1
    BY <1>4
  <2>2. s \in 0 .. Capacity - 1 /\ s \in a .. a + n - 1
    <3>1. i \in Nat /\ 1 <= i /\ i <= n
      OBVIOUS
    <3>2. PICK m \in Nat : m = Sectors(r.segs)
      BY <1>5
    <3>3. a + m <= Capacity /\ n <= m
      BY <1>3, <1>5, <3>2
    <3>. QED
      BY <2>1, <3>1, <3>3, Sizes
  <2>3. PageOf(s) = PageOf(a)
    BY <1>3, <1>4, <2>2, RunOnPage
  <2>. QED
    BY <2>1, <2>2, <2>3 DEF DiskMap
<1>14. v.got = t.got \o [i \in 1 .. n |-> DiskMap[t.next + i - 1]]
  <2>1. PICK g : g = [i \in 1 .. n |->
                IF tree[PageOf(r.sector)] = NoPage THEN Zero ELSE OnPage(tree, r.sector + i - 1)]
    OBVIOUS
  <2>2. q.got = r.got \o g
    BY <1>12, <2>1
  <2>3. v.got = t.got \o g
    BY <1>9, <1>11, <2>2, TaskFields
  <2>. QED
    BY <1>13, <2>1, <2>3
<1>15. /\ v.op = t.op /\ v.next = t.next + n /\ v.todo = t.todo - n /\ v.data = <<>>
       /\ v = [op |-> v.op, next |-> v.next, todo |-> v.todo, data |-> v.data, got |-> v.got]
  <2>1. /\ q.op = r.op /\ q.sector = r.sector + n /\ Sectors(q.segs) = Sectors(r.segs) - n
        /\ q.data = r.data
    BY <1>12
  <2>. QED
    BY <1>2, <1>4, <1>5, <1>9, <1>11, <2>1, TaskFields
<1>16. TaskMap' = [TaskMap EXCEPT ![u] = v]
  BY <1>6, <1>10, <1>11, TaskChanges
<1>17. Store!Move(u, n)
  <2>1. n <= t.todo
    BY <1>3, <1>9
  <2>. QED
    BY <1>7, <1>8, <1>9, <1>14, <1>15, <1>16, <2>1, StoreRead
<1>18. n \in 1 .. Capacity
  BY <1>3, <1>4, <1>5, Sizes
<1>. QED
  BY <1>17, <1>18, StoreSteps

\* A page cleared by a discard is a run of the array.
LEMMA ZeroRefines ==
    ASSUME DiskInv, NEW u \in Users, brd_zero_page(u)
    PROVE  [Store!Next]_(Store!vars)
<1>1. PICK r : r = io[u]
  OBVIOUS
<1>2. /\ RequestOK(r) /\ r \in IoRecord /\ r.at = "zero" /\ tree \in TreeType
  BY <1>1, OfUser DEF brd_zero_page
<1>3. PICK q : q = DiscardNext(r)
  OBVIOUS
<1>4. /\ q.op = "discard" /\ q.sector = r.sector + PageSectors
      /\ PageSectors <= Sectors(r.segs) /\ Sectors(r.segs) \in Nat
      /\ Sectors(q.segs) = Sectors(r.segs) - PageSectors
      /\ q.data = <<>> /\ q.got = <<>> /\ r.data = <<>> /\ r.sector + PageSectors <= Capacity
  BY <1>2, <1>3, DiscardGoesOn
<1>5. r.op = "discard" /\ r.sector % PageSectors = 0
  BY <1>2 DEF RequestOK
<1>6. PICK a \in Nat : a = r.sector
  BY <1>2 DEF IoRecord
<1>7. PICK p \in 0 .. Pages - 1 : p = PageOf(a)
  BY <1>1, <1>6, ZeroInv
<1>8. /\ io' = [io EXCEPT ![u] = q]
      /\ tree' = [tree EXCEPT ![p] = IF @ = NoPage THEN NoPage ELSE ZeroPage]
  BY <1>1, <1>3, <1>6, <1>7, ZeroInv
<1>9. PICK k \in Nat : k = PageSectors /\ k > 0
  BY Sizes
<1>10. DiskMap' = [s \in DOMAIN DiskMap |-> IF s \in a .. a + k - 1 THEN Zero ELSE DiskMap[s]]
  <2>1. ASSUME NEW s \in 0 .. Capacity - 1
        PROVE  DiskMap'[s] = IF s \in a .. a + k - 1 THEN Zero ELSE DiskMap[s]
    <3>1. PICK i \in Nat : i = s % PageSectors
      BY PageOfSector, Sizes
    <3>2. /\ s \in Nat /\ PageOf(s) \in 0 .. Pages - 1 /\ i + 1 \in 1 .. PageSectors
          /\ i \in 0 .. PageSectors - 1
      BY <3>1, PageOfSector
    <3>3. s \in a .. a + k - 1 <=> PageOf(s) = p
      <4>1. /\ s \in a .. a + k - 1 <=> PageOf(s) = PageOf(a)
                    /\ s % PageSectors \in a % PageSectors .. (a % PageSectors) + k - 1
        <5>1. k <= PageSectors - (a % PageSectors)
          BY <1>5, <1>6, <1>9
        <5>. QED
          BY <3>2, <5>1, RunOnPage
      <4>2. s % PageSectors \in a % PageSectors .. (a % PageSectors) + k - 1
        BY <1>5, <1>6, <1>9, <3>1, <3>2
      <4>. QED
        BY <1>7, <4>1, <4>2
    <3>4. CASE PageOf(s) = p
      <4>1. tree'[p] = IF tree[p] = NoPage THEN NoPage ELSE ZeroPage
        BY <1>2, <1>8 DEF TreeType
      <4>2. ZeroPage[i + 1] = Zero
        BY <3>2 DEF ZeroPage
      <4>3. DiskMap'[s] = Zero
        BY <3>1, <3>4, <4>1, <4>2, DiskAt
      <4>. QED
        BY <3>3, <3>4, <4>3
    <3>5. CASE PageOf(s) # p
      <4>1. tree'[PageOf(s)] = tree[PageOf(s)]
        BY <1>2, <1>8, <3>2, <3>5 DEF TreeType
      <4>. QED
        BY <3>3, <3>5, <4>1, DiskAt
    <3>. QED
      BY <3>4, <3>5
  <2>2. DiskMap' = [s \in 0 .. Capacity - 1 |-> IF s \in a .. a + k - 1 THEN Zero ELSE DiskMap[s]]
    BY <2>1 DEF DiskMap
  <2>. QED
    BY <2>2, DiskAt
<1>11. PICK t : t = TaskMap[u]
  OBVIOUS
<1>12. PICK v : v = TaskOf(q)
  OBVIOUS
<1>13. /\ t = TaskOf(r) /\ t.op = "discard" /\ t.next = a /\ t.todo = Sectors(r.segs)
       /\ TaskMap' = [TaskMap EXCEPT ![u] = v]
  BY <1>1, <1>5, <1>6, <1>8, <1>11, <1>12, TaskChanges, TaskFields
<1>14. /\ v.op = t.op /\ v.next = t.next + k /\ v.todo = t.todo - k /\ v.data = <<>> /\ v.got = <<>>
       /\ v = [op |-> v.op, next |-> v.next, todo |-> v.todo, data |-> v.data, got |-> v.got]
  BY <1>4, <1>6, <1>9, <1>12, <1>13, TaskFields
<1>15. Store!Move(u, k)
  <2>1. DiskMap' = [s \in DOMAIN DiskMap |->
            IF s \in t.next .. t.next + k - 1 THEN Zero ELSE DiskMap[s]]
    BY <1>10, <1>13
  <2>2. k <= t.todo /\ t.op \in {"discard", "flush"}
    BY <1>4, <1>9, <1>13
  <2>. QED
    BY <1>11, <1>13, <1>14, <2>1, <2>2, StoreZero
<1>16. k \in 1 .. Capacity
  BY <1>4, <1>6, <1>9, Sizes
<1>. QED
  BY <1>15, <1>16, StoreSteps

\* A batch of pages freed is a run of the array: the slots between them hold nothing.
LEMMA FreePagesRefines ==
    ASSUME DiskInv, NEW u \in Users, brd_free_pages(u)
    PROVE  [Store!Next]_(Store!vars)
<1>1. PICK r : r = io[u]
  OBVIOUS
<1>2. /\ RequestOK(r) /\ r \in IoRecord /\ r.at = "flush" /\ tree \in TreeType
  BY <1>1, OfUser DEF brd_free_pages
<1>3. PICK batch : batch = Batch(PageOf(r.sector))
  OBVIOUS
<1>4. PICK q : q = FlushNext(r, batch)
  OBVIOUS
<1>5. /\ q.op = "flush" /\ q.sector = After(batch) /\ Sectors(q.segs) = Capacity - After(batch)
      /\ q.data = <<>> /\ q.got = <<>> /\ r.data = <<>> /\ r.got = <<>> /\ r.op = "flush"
      /\ r.sector \in Nat /\ r.sector <= Capacity /\ r.sector % PageSectors = 0
      /\ Sectors(r.segs) = Capacity - r.sector
  BY <1>2, <1>3, <1>4, FlushGoesOn
<1>6. PICK a \in Nat : a = r.sector
  BY <1>5
<1>7. PICK k : k = After(batch) - a
  OBVIOUS
<1>8. /\ After(batch) \in Nat /\ After(batch) <= Capacity /\ a <= After(batch)
      /\ \A x \in 0 .. Capacity - 1 : tree[PageOf(x)] # NoPage =>
            (PageOf(x) \in batch <=> x \in a .. After(batch) - 1)
  BY <1>2, <1>3, <1>5, <1>6, BatchIsRun
<1>9. k \in Nat /\ a + k = After(batch) /\ a + k <= Capacity /\ k <= Capacity - a
  BY <1>6, <1>7, <1>8, Sizes
<1>10. /\ io' = [io EXCEPT ![u] = q]
       /\ tree' = [p \in 0 .. Pages - 1 |-> IF p \in batch THEN NoPage ELSE tree[p]]
  BY <1>1, <1>3, <1>4, FreePagesInv
<1>11. DiskMap' = [s \in DOMAIN DiskMap |-> IF s \in a .. a + k - 1 THEN Zero ELSE DiskMap[s]]
  <2>1. ASSUME NEW s \in 0 .. Capacity - 1
        PROVE  DiskMap'[s] = IF s \in a .. a + k - 1 THEN Zero ELSE DiskMap[s]
    <3>1. PageOf(s) \in 0 .. Pages - 1
      BY PageOfSector
    <3>2. tree'[PageOf(s)] = IF PageOf(s) \in batch THEN NoPage ELSE tree[PageOf(s)]
      BY <1>10, <3>1
    <3>3. CASE tree[PageOf(s)] = NoPage
      <4>1. DiskMap[s] = Zero /\ DiskMap'[s] = Zero
        BY <3>2, <3>3, DiskAt
      <4>. QED
        BY <4>1
    <3>4. CASE tree[PageOf(s)] # NoPage
      <4>1. PageOf(s) \in batch <=> s \in a .. a + k - 1
        BY <1>8, <1>9, <3>4
      <4>. QED
        BY <3>2, <4>1, DiskAt
    <3>. QED
      BY <3>3, <3>4
  <2>2. DiskMap' = [s \in 0 .. Capacity - 1 |-> IF s \in a .. a + k - 1 THEN Zero ELSE DiskMap[s]]
    BY <2>1 DEF DiskMap
  <2>. QED
    BY <2>2, DiskAt
<1>12. PICK t : t = TaskMap[u]
  OBVIOUS
<1>13. PICK v : v = TaskOf(q)
  OBVIOUS
<1>14. /\ t = TaskOf(r) /\ t.op = "flush" /\ t.next = a /\ t.todo = Capacity - a
       /\ TaskMap' = [TaskMap EXCEPT ![u] = v]
  <2>1. t = TaskOf(r) /\ TaskMap' = [TaskMap EXCEPT ![u] = v]
    BY <1>1, <1>10, <1>12, <1>13, TaskChanges
  <2>2. t.op = "flush" /\ t.next = a
    BY <1>5, <1>6, <2>1, TaskFields
  <2>3. t.todo = Capacity - a
    BY <1>5, <1>6, <2>1, TaskFields
  <2>. QED
    BY <2>1, <2>2, <2>3
<1>15. CASE k = 0
  <2>1. Sectors(q.segs) = Sectors(r.segs) /\ q.sector = r.sector
    BY <1>5, <1>6, <1>9, <1>15
  <2>2. TaskOf(q) = TaskOf(r)
    BY <1>5, <2>1 DEF TaskOf
  <2>3. TaskMap' = TaskMap
    BY <1>1, <1>10, <2>2, TaskChanges
  <2>4. \A s \in 0 .. Capacity - 1 : DiskMap'[s] = DiskMap[s]
    BY <1>11, <1>15, DiskAt, Sizes
  <2>. QED
    BY <2>3, <2>4, DiskAt, StoreSteps
<1>16. CASE k # 0
  <2>1. /\ v.op = t.op /\ v.next = t.next + k /\ v.todo = t.todo - k
        /\ v.data = <<>> /\ v.got = <<>>
        /\ v = [op |-> v.op, next |-> v.next, todo |-> v.todo, data |-> v.data, got |-> v.got]
    <3>1. v.op = "flush" /\ v.next = After(batch) /\ v.todo = Capacity - After(batch)
      BY <1>5, <1>13, TaskFields
    <3>2. Capacity - After(batch) = (Capacity - a) - k
      BY <1>6, <1>8, <1>9, Sizes
    <3>3. /\ v.data = <<>> /\ v.got = <<>>
          /\ v = [op |-> v.op, next |-> v.next, todo |-> v.todo, data |-> v.data, got |-> v.got]
      BY <1>5, <1>13, TaskFields
    <3>. QED
      BY <1>9, <1>14, <3>1, <3>2, <3>3
  <2>2. DiskMap' = [s \in DOMAIN DiskMap |->
            IF s \in t.next .. t.next + k - 1 THEN Zero ELSE DiskMap[s]]
    BY <1>11, <1>14
  <2>3. k <= t.todo /\ t.op \in {"discard", "flush"} /\ k \in Nat
    BY <1>9, <1>14
  <2>4. Store!Move(u, k)
    BY <1>12, <1>14, <2>1, <2>2, <2>3, StoreZero
  <2>5. k \in 1 .. Capacity
    BY <1>6, <1>9, <1>16, Sizes
  <2>. QED
    BY <2>4, <2>5, StoreSteps
<1>. QED
  BY <1>15, <1>16

\* The end of a request: nothing of it is left.
LEMMA EndRefines ==
    ASSUME DiskInv, NEW u \in Users, bio_endio(u)
    PROVE  [Store!Next]_(Store!vars)
<1>1. PICK r : r = io[u]
  OBVIOUS
<1>2. RequestOK(r) /\ r.at \in {"done", "flushed"} /\ r \in IoRecord
  BY <1>1, OfUser DEF bio_endio
<1>3. io' = [io EXCEPT ![u] = NoIo] /\ tree' = tree
  BY EndInv
<1>4. DiskMap' = DiskMap
  BY <1>3, DiskAt
<1>5. Sectors(r.segs) = 0
  <2>1. CASE r.at = "done"
    BY <1>2, <2>1, SectorsEmpty DEF RequestOK
  <2>2. CASE r.at = "flushed"
    <3>1. r.segs = <<Capacity - r.sector>> /\ r.sector = Capacity
      BY <1>2, <2>2 DEF RequestOK
    <3>2. r.segs = <<0>>
      BY <3>1, Sizes
    <3>3. <<>> \in Seq(Nat) /\ 0 \in Nat
      OBVIOUS
    <3>4. Sectors(<<0>>) = 0
      BY <3>3, SectorsCons
    <3>. QED
      BY <3>2, <3>4
  <2>. QED
    BY <1>2, <2>1, <2>2
<1>6. r.op # "none"
  BY <1>2, NoRequest DEF RequestOK
<1>7. TaskMap[u] = TaskOf(r) /\ TaskMap' = [TaskMap EXCEPT ![u] = Store!NoTask]
  BY <1>1, <1>3, TaskChanges, NoTaskIs
<1>8. TaskMap[u].todo = 0 /\ TaskMap[u].op # "none"
  BY <1>5, <1>6, <1>7, TaskFields
<1>9. TaskMap[u] # Store!NoTask
  BY <1>8 DEF Store!NoTask
<1>. QED
  BY <1>4, <1>7, <1>8, <1>9, StoreEnd, StoreSteps

\* Whatever a request under way does next is a step of the array or none.
LEMMA IoStepRefines ==
    ASSUME DiskInv, NEW u \in Users, IoStep(u)
    PROVE  [Store!Next]_(Store!vars)
<1>1. CASE LookupForWrite(u) \/ AllocPageFails(u) \/ brd_insert_page(u)
  BY <1>1, SetupRefines
<1>2. CASE copy_to_brd(u)
  BY <1>2, CopyToRefines
<1>3. CASE copy_from_brd(u)
  BY <1>3, CopyFromRefines
<1>4. CASE brd_zero_page(u)
  BY <1>4, ZeroRefines
<1>5. CASE brd_free_pages(u)
  BY <1>5, FreePagesRefines
<1>6. CASE bio_endio(u)
  BY <1>6, EndRefines
<1>. QED
  BY <1>1, <1>2, <1>3, <1>4, <1>5, <1>6 DEF IoStep

\* Steps that leave the pages and the requests alone.
LEMMA OthersRefine ==
    ASSUME UNCHANGED <<tree, io>>
    PROVE  [Store!Next]_(Store!vars)
  BY Unmapped, StoreSteps

\* A request of a user who has none begins one of the array.
LEMMA BeginRefines ==
    ASSUME DiskInv, NEW u \in Users, io[u] = NoIo, NEW q, io' = [io EXCEPT ![u] = q], tree' = tree,
           q.op \in {"read", "write", "discard", "flush"},
           NEW k, k = Sectors(q.segs), q.sector + k <= Capacity,
           q.op = "flush" => q.sector = 0 /\ k = Capacity,
           q.op = "write" => Len(q.data) = k, q.got = <<>>
    PROVE  [Store!Next]_(Store!vars)
<1>1. PICK v : v = TaskOf(q)
  OBVIOUS
<1>2. DiskMap' = DiskMap
  BY DiskAt
<1>3. TaskMap[u] = Store!NoTask /\ TaskMap' = [TaskMap EXCEPT ![u] = v]
  BY <1>1, TaskChanges, NoTaskIs
<1>4. v.op = q.op /\ v.next = q.sector /\ v.todo = k /\ v.data = q.data /\ v.got = <<>>
  BY <1>1, TaskFields
<1>5. Store!Begin(u)
  BY <1>2, <1>3, <1>4, StoreBegin
<1>. QED
  BY <1>5, StoreSteps

\* What a user asks of the device is such a request.
LEMMA MakeRefines ==
    ASSUME DiskInv, NEW u \in Users, NEW op, NEW s, NEW segs, NEW data,
           brd_make_request(u, op, s, segs, data), Askable(op, s, segs, data)
    PROVE  [Store!Next]_(Store!vars)
<1>1. PICK q : q = MadeRequest(op, s, segs, data)
  OBVIOUS
<1>2. Accepted(op, s, segs) /\ io[u] = NoIo /\ tree' = tree
  BY DEF brd_make_request
<1>3. io' = [io EXCEPT ![u] = q]
  BY <1>1, MakeInv
<1>4. /\ q.op = op /\ q.sector = s /\ q.segs = segs /\ q.data = data /\ q.got = <<>>
  BY <1>1, <1>2, MadeRequestOK
<1>5. PICK k : k = Sectors(q.segs)
  OBVIOUS
<1>6. s + k <= Capacity /\ op \in {"read", "write", "discard"} /\ (op = "write" => Len(data) = k)
  BY <1>2, <1>4, <1>5 DEF Accepted, Askable
<1>. QED
  BY <1>2, <1>3, <1>4, <1>5, <1>6, BeginRefines

\* A flush is a request for the whole array.
LEMMA FlushBegins ==
    ASSUME DiskInv, NEW u \in Users, brd_ioctl(u)
    PROVE  [Store!Next]_(Store!vars)
<1>1. PICK q : q = FlushRequest
  OBVIOUS
<1>2. io[u] = NoIo /\ tree' = tree
  BY DEF brd_ioctl
<1>3. io' = [io EXCEPT ![u] = q]
  BY <1>1, FlushInv
<1>4. PICK k : k = Sectors(q.segs)
  OBVIOUS
<1>5. q.op = "flush" /\ q.sector = 0 /\ k = Capacity /\ q.got = <<>>
  BY <1>1, <1>4, FlushRequestOK
<1>6. q.sector + k <= Capacity
  BY <1>5, Sizes
<1>. QED
  BY <1>2, <1>3, <1>4, <1>5, <1>6, BeginRefines

\* A device that goes, goes with what it holds, and nobody uses it then.
LEMMA LifecycleRefines ==
    ASSUME DiskInv, Lifecycle \/ brd_probe(Amount) \/ Unload
    PROVE  [Store!Next]_(Store!vars)
<1>1. CASE brd_del_one
  <2>1. life = "going" /\ io' = io
    BY <1>1 DEF brd_del_one
  <2>2. \A u \in Users : io[u] = NoIo
    BY <2>1, NobodyUses
  <2>3. \A u \in Users : TaskMap[u] = Store!NoTask
    <3>1. \A u \in Users : TaskMap[u] = TaskOf(io[u])
      BY DEF TaskMap, TaskOf
    <3>. QED
      BY <2>2, <3>1, NoTaskIs
  <2>4. TaskMap' = TaskMap
    BY <2>1 DEF TaskMap
  <2>5. DOMAIN tree = 0 .. Pages - 1
    BY DEF DiskInv, DiskShape, TreeType
  <2>6. CASE tree' = tree
    BY <2>1, <2>6, OthersRefine
  <2>7. CASE tree' = [p \in DOMAIN tree |-> NoPage]
    <3>1. \A s \in 0 .. Capacity - 1 : DiskMap'[s] = Zero
      BY <2>5, <2>7, DiskAt, PageOfSector
    <3>2. DiskMap' = [s \in 0 .. Capacity - 1 |-> Zero]
      BY <3>1 DEF DiskMap
    <3>3. DiskMap' = [s \in DOMAIN DiskMap |-> Zero]
      BY <3>2, DiskAt
    <3>. QED
      BY <2>3, <2>4, <3>3, StoreRemove, StoreSteps
  <2>8. tree' = tree \/ tree' = [p \in DOMAIN tree |-> NoPage]
    BY <1>1 DEF brd_del_one, BrdFree
  <2>. QED
    BY <2>6, <2>7, <2>8
<1>2. CASE Unload \/ brd_probe(Amount)
  BY <1>2, OthersRefine DEF Unload, brd_probe, ioVars
<1>3. CASE register_blkdev \/ brd_alloc \/ OutFree
  BY <1>3, OthersRefine DEF register_blkdev, brd_alloc, OutFree, ioVars
<1>4. CASE add_disk \/ blk_register_region \/ unregister_blkdev
  BY <1>4, OthersRefine DEF add_disk, blk_register_region, unregister_blkdev, ioVars
<1>. QED
  BY <1>1, <1>2, <1>3, <1>4 DEF Lifecycle

\* Opening and closing moves nothing.
LEMMA OpenCloseRefines ==
    ASSUME NEW u \in Users, Open(u) \/ CloseCached(u)
    PROVE  [Store!Next]_(Store!vars)
<1>1. UNCHANGED <<tree, io>>
  BY DEF Open, CloseCached, Close
<1>. QED
  BY <1>1, OthersRefine

\* What the application and the driver do leaves the pages and the requests
\* alone: their sectors come and go with the page cache.
LEMMA ActorsRefine ==
    ASSUME \/ SendOpen \/ SendUnopened \/ SendEngine \/ SendEngineFails \/ SendDevice
           \/ SendDeviceFails \/ SendAll \/ SendClose \/ SendCommand \/ Driver
    PROVE  UNCHANGED <<tree, io>>
<1>1. CASE SendOpen \/ SendUnopened \/ SendEngine \/ SendEngineFails
  BY <1>1 DEF SendOpen, SendUnopened, SendEngine, SendEngineFails, Open, brdVars
<1>2. CASE SendDevice \/ SendDeviceFails \/ SendAll \/ SendClose \/ SendCommand
  BY <1>2 DEF SendDevice, SendDeviceFails, SendAll, SendClose, SendCommand, CloseCached, Close,
              brdVars
<1>3. CASE Prepare \/ GetDevice \/ PutDevice
  BY <1>3 DEF Prepare, GetDevice, PutDevice, Open, CloseCached, Close, brdVars
<1>4. CASE ramDiskGetPointer \/ prepareTransfer \/ destroyTransfer
  BY <1>4 DEF ramDiskGetPointer, prepareTransfer, destroyTransfer, brdVars
<1>. QED
  BY <1>1, <1>2, <1>3, <1>4 DEF Driver

\* Every step of the path is a step of the array or leaves it alone.
LEMMA StepRefines ==
    ASSUME ConfigInv, [Next]_vars
    PROVE  [Store!Next]_(Store!vars)
<1>1. DiskInv /\ CacheShape /\ "tool" \in Users
  BY ConfigAssumption DEF ConfigInv
<1>2. CASE UNCHANGED vars
  BY <1>2, OthersRefine DEF vars, brdVars
<1>3. CASE Lifecycle \/ brd_probe(Amount) \/ Unload
  BY <1>1, <1>3, LifecycleRefines
<1>4. CASE \/ SendOpen \/ SendUnopened \/ SendEngine \/ SendEngineFails \/ SendDevice
           \/ SendDeviceFails \/ SendAll \/ SendClose \/ SendCommand \/ Driver
  BY <1>4, ActorsRefine, OthersRefine
<1>5. CASE Meddle
  <2>1. CASE Open("tool") \/ CloseCached("tool")
    BY <1>1, <2>1, OpenCloseRefines
  <2>2. ASSUME NEW r \in Requests, brd_make_request("tool", r.op, r.sector, r.segs, r.data)
        PROVE  [Store!Next]_(Store!vars)
    BY <1>1, <2>2, MakeRefines, RequestsAskable
  <2>3. CASE brd_ioctl("tool")
    BY <1>1, <2>3, FlushBegins
  <2>. QED
    BY <1>5, <2>1, <2>2, <2>3 DEF Meddle
<1>6. ASSUME NEW u \in Users, RequestStep(u) \/ SyncBeforeClose(u)
      PROVE  [Store!Next]_(Store!vars)
  <2>1. CASE RequestStep(u)
    BY <1>1, <2>1, IoStepRefines DEF RequestStep
  <2>2. CASE SyncBeforeClose(u)
    <3>1. PICK p \in dirty :
            /\ brd_make_request(u, "write", p * PageSectors, <<PageSectors>>, cache[p])
            /\ Askable("write", p * PageSectors, <<PageSectors>>, cache[p])
      BY <1>1, <2>2, SyncMakesRequest
    <3>. QED
      BY <1>1, <3>1, MakeRefines
  <2>. QED
    BY <1>6, <2>1, <2>2
<1>. QED
  BY <1>2, <1>3, <1>4, <1>5, <1>6 DEF Next

\* The array is empty at first.
LEMMA InitRefines == Init => Store!Init
<1>. SUFFICES ASSUME Init PROVE Store!Init
  OBVIOUS
<1>1. DiskMap = [s \in 0 .. Capacity - 1 |-> Zero]
  <2>1. \A s \in 0 .. Capacity - 1 : tree[PageOf(s)] = NoPage
    BY PageOfSector DEF Init, BrdInit
  <2>. QED
    BY <2>1 DEF DiskMap
<1>2. TaskMap = [u \in Users |-> Store!NoTask]
  <2>1. \A u \in Users : io[u] = NoIo
    BY DEF Init, BrdInit
  <2>2. TaskMap = [u \in Users |-> TaskOf(io[u])]
    BY DEF TaskMap, TaskOf
  <2>. QED
    BY <2>1, <2>2, NoTaskIs
<1>. QED
  BY <1>1, <1>2 DEF Store!Init, DiskMap, TaskMap

\* ImplementsSectorStore: whatever its users, the application and the driver do
\* with it, the RAM disk is an array of sectors: a request handles its sectors
\* from the first to the last, a read returns what they hold, and pages that
\* come and go, freed in batches or not there yet, are not seen.
THEOREM DiskIsArray == Spec => ImplementsSectorStore
<1>1. Init => Store!Init
  BY InitRefines
<1>2. ConfigInv /\ [Next]_vars => [Store!Next]_(Store!vars)
  BY StepRefines
<1>. QED
  BY <1>1, <1>2, Invariance, PTL DEF Spec, ImplementsSectorStore, Store!Spec

-----------------------------------------------------------------------------
(* A configuration arrives: the records travel from the application through *)
(* the cache and the pages of the disk to the buffer of the transfer.       *)

Record(s) == IF s = 0 THEN "engine" ELSE Devices[s]
Holds(tr, s) == LET p == PageOf(s) IN tr[p] # NoPage /\ tr[p][(s % PageSectors) + 1] = Record(s)
Harmless(u) == io[u].op \in {"none", "read"}

\* The records the application assembles come first of those it has.
ConfigsOK ==
    /\ configs # <<>> => Len(configs) >= 3 /\ \A i \in 1 .. 3 : configs[i] = Devices[i]
    /\ app \in {"engine", "devices"} => configs # <<>> /\ next <= Len(configs)
    /\ app = "engine" => next = 0

\* Who has the device open, and what is still as it was before the first time.
ActorsOK ==
    /\ app \in {"engine", "devices", "close"} <=> opened["app"]
    /\ driver # "idle" => life = "live"
    /\ app = "unopened" => meddled
    /\ sends > 0 => life # "unloaded"
    /\ sends = 0 =>
        /\ app = "idle" /\ ~command /\ driver = "idle" /\ ~payloadReady
        /\ dirty = {} /\ cache = [p \in 0 .. Pages - 1 |-> NoPage]

\* The application's only requests write a page of the cache back.
Copying(r, p) == r.op = "write" /\ r.at # "done" /\ PageOf(r.sector) = p
AppWrites ==
    LET r == io["app"]
    IN  /\ r.op \in {"none", "write"}
        /\ r.op = "write" /\ r.at # "done" => r.segs = <<PageSectors>> /\ r.sector % PageSectors = 0

\* What the application has written is in the cache, and when its page is no
\* longer dirty it is on its way to the disk or there.
Written == CASE app = "devices" -> 0 .. next [] app = "close" -> 0 .. 3 [] OTHER -> {}
Sent ==
    ~meddled => \A s \in Written \cap (0 .. 3) :
        /\ Holds(cache, s)
        /\ PageOf(s) \notin dirty =>
            /\ \A u \in Users \ {"app"} : Harmless(u)
            /\ IF Copying(io["app"], PageOf(s))
               THEN io["app"].data[(s % PageSectors) + 1] = Record(s) ELSE Holds(tree, s)

\* When the application has closed the disk, the records are there.
Stored ==
    sends > 0 /\ app \in {"command", "idle"} /\ ~meddled =>
        /\ dirty = {} /\ \A u \in Users : Harmless(u)
        /\ life \in {"allocating", "live"} => \A s \in 0 .. 3 : Holds(tree, s)

\* What the driver has put together after k sectors.
Records(k) ==
    CASE k = 1 -> <<"engine">>
      [] k = 2 -> <<"engine", "BMI160_0">>
      [] k = 3 -> <<"engine", "BMI160_0", "BMI160_1">>
      [] k = 4 -> <<"engine", "BMI160_0", "BMI160_1", "ADXL345">>
Bytes(k) ==
    CASE k = 1 -> 4
      [] k = 2 -> 9 + 2 * table.BMI160_0
      [] k = 3 -> 14 + 2 * (table.BMI160_0 + table.BMI160_1)
      [] k = 4 -> 19 + 2 * Registers
Assembled(k) == rxData = Records(k) /\ configBytesAmount = Bytes(k)
Whole == Assembled(4) /\ payloadBytes = 2 * Registers
Transferred ==
    app = "idle" /\ ~meddled /\ ~command /\ sends > 0 =>
        /\ driver \in {"get", "put", "lookup"} => 0 .. sector - 1 \subseteq mapped /\ depth = sector
        /\ driver = "prepare" =>
            /\ mapped = 0 .. 3 /\ depth = 4
            /\ sector > 0 => Assembled(sector) /\ payloadBytes = 0
        /\ driver = "destroy" => Whole /\ depth = 4 - sector
        /\ driver = "idle" => Whole /\ depth = 0

ArriveInv == ConfigsOK /\ ActorsOK /\ AppWrites /\ Sent /\ Stored /\ Transferred

\* The four records and where they go.
LEMMA RecordPlaces ==
    /\ Record(0) = "engine" /\ Record(1) = "BMI160_0" /\ Record(2) = "BMI160_1"
    /\ Record(3) = "ADXL345"
    /\ \A s \in 0 .. 3 :
        /\ s \in Nat /\ s < Capacity /\ Record(s) \in Contents /\ Record(s) # Zero
        /\ PageOf(s) \in 0 .. Pages - 1 /\ (s % PageSectors) + 1 \in 1 .. PageSectors
<1>1. \A s \in 0 .. 3 : s \in Nat /\ s < Capacity /\ s \in 0 .. Capacity - 1
  BY Sizes
<1>2. \A s \in 0 .. 3 : PageOf(s) \in 0 .. Pages - 1 /\ (s % PageSectors) + 1 \in 1 .. PageSectors
  BY <1>1, PageOfSector
<1>3. /\ Record(0) = "engine" /\ Record(1) = "BMI160_0" /\ Record(2) = "BMI160_1"
      /\ Record(3) = "ADXL345"
  BY DevicesAreContents DEF Record
<1>4. \A s \in 0 .. 3 : Record(s) \in Contents /\ Record(s) # Zero
  BY DevicesAreContents DEF Record
<1>. QED
  BY <1>1, <1>2, <1>3, <1>4

\* Two sectors do not share a place.
LEMMA PlacesDiffer ==
    ASSUME NEW s \in Nat, NEW t \in Nat, PageOf(s) = PageOf(t), s % PageSectors = t % PageSectors
    PROVE  s = t
  BY PageAndPlace

\* A user who is not one of several is alone.
LEMMA Alone ==
    ASSUME NEW u \in Users, opened[u], ~(Openers > 1) \/ Openers = 1
    PROVE  Openers = 1 /\ \A v \in Users : opened[v] => v = u
<1>1. IsFiniteSet({v \in Users : opened[v]}) /\ u \in {v \in Users : opened[v]}
  BY RamDiskAssumption, FS_Subset
<1>2. Openers \in Nat /\ Openers # 0
  BY <1>1, FS_CardinalityType, FS_EmptySet DEF Openers
<1>3. Openers <= 1
  BY <1>2
<1>4. \A v \in Users : opened[v] => v = u
  BY <1>3, OneOpener
<1>. QED
  BY <1>2, <1>3, <1>4

\* Who closes the disk while the application has it open leaves the cache to it.
LEMMA CloseLeavesCache ==
    ASSUME NEW u \in Users, u # "app", opened["app"], CloseCached(u)
    PROVE  cache' = cache /\ dirty' = dirty
<1>1. "app" \in Users /\ opened[u]
  BY ConfigAssumption DEF CloseCached, Close
<1>2. Openers # 1
  BY <1>1, Alone
<1>. QED
  BY <1>2 DEF CloseCached

\* A request under way has a user who has the disk open.
LEMMA NotOpenIsIdle ==
    ASSUME DiskInv, NEW u \in Users, ~opened[u]
    PROVE  io[u] = NoIo /\ Harmless(u)
<1>1. io[u] = NoIo
  BY OfUser DEF RequestOK
<1>. QED
  BY <1>1, NoRequest DEF Harmless

\* What is neither written nor read again stays as it was sent.
LEMMA SentStays ==
    ASSUME Sent, UNCHANGED <<cache, dirty, tree, io>>, ~meddled' => ~meddled,
           Written' \subseteq Written
    PROVE  Sent'
  BY DEF Sent, Holds, Harmless, Copying, PageOf, Record

\* Loading and unloading.
LEMMA LifeArrives ==
    ASSUME ConfigInv, ArriveInv, \/ (Lifecycle \/ brd_probe(Amount)) /\ Rest
                                 \/ Unload /\ driver = "idle" /\ Rest
    PROVE  ArriveInv'
<1>. USE DEF ArriveInv
<1>0. DiskInv /\ "app" \in Users
  BY ConfigAssumption DEF ConfigInv
<1>1. /\ UNCHANGED appVars /\ UNCHANGED cacheVars /\ UNCHANGED driverVars /\ meddled' = meddled
      /\ io' = io /\ opened' = opened
  BY DEF Rest, Lifecycle, register_blkdev, brd_alloc, OutFree, add_disk, blk_register_region,
         brd_del_one, unregister_blkdev, brd_probe, Unload, ioVars
<1>2. /\ life' # "unloaded" /\ (life' \in {"allocating", "live"} => tree' = tree)
      /\ life = "live" /\ driver # "idle" => life' = "live"
      /\ life' \in {"allocating", "live"} => life \in {"unloaded", "allocating", "live"}
      /\ tree' = tree \/ life = "going"
  BY DEF Lifecycle, register_blkdev, brd_alloc, OutFree, add_disk, blk_register_region,
         brd_del_one, unregister_blkdev, brd_probe, Unload, ioVars
<1>3. ConfigsOK'
  BY <1>1 DEF ConfigsOK, appVars
<1>4. ActorsOK'
  BY <1>1, <1>2 DEF ActorsOK, appVars, cacheVars, driverVars, axisVars, Harmless
<1>5. AppWrites'
  BY <1>1 DEF AppWrites
<1>6. Sent'
  <2>1. CASE tree' = tree
    <3>1. UNCHANGED <<cache, dirty, tree, io>> /\ meddled' = meddled
      BY <1>1, <2>1 DEF cacheVars
    <3>2. Written' = Written
      BY <1>1 DEF Written, appVars
    <3>. QED
      BY <3>1, <3>2, SentStays
  <2>2. CASE life = "going"
    <3>1. ~opened["app"]
      BY <1>0, <2>2, NobodyUses
    <3>2. Written' = {}
      BY <1>1, <3>1 DEF Written, ActorsOK, appVars
    <3>. QED
      BY <3>2 DEF Sent
  <2>. QED
    BY <1>2, <2>1, <2>2
<1>7. Stored'
  BY <1>1, <1>2 DEF Stored, ActorsOK, appVars, cacheVars, Harmless, Holds, PageOf, Record
<1>8. Transferred'
  BY <1>1 DEF Transferred, appVars, driverVars, axisVars, Whole, Assembled, Records, Bytes,
              Registers
<1>. QED
  BY <1>3, <1>4, <1>5, <1>6, <1>7, <1>8

\* What is put in the cache is there, and the records before it still are.
LEMMA PutHolds ==
    ASSUME ConfigInv, NEW t \in Nat, t < Capacity, NEW c \in Contents, PutInCache(t, c)
    PROVE  /\ dirty' = dirty \cup {PageOf(t)}
           /\ t \in 0 .. 3 /\ c = Record(t) => Holds(cache, t)'
           /\ \A s \in 0 .. 3 : s # t /\ Holds(cache, s) => Holds(cache, s)'
<1>0. t \in 0 .. Capacity - 1
  BY Sizes
<1>1. PICK p \in 0 .. Pages - 1 : p = PageOf(t)
  BY <1>0, PageOfSector
<1>2. PICK o \in 1 .. PageSectors : o = (t % PageSectors) + 1
  BY <1>0, PageOfSector
<1>4. PICK old \in [1 .. PageSectors -> Contents] :
        /\ cache' = [cache EXCEPT ![p] = [old EXCEPT ![o] = c]]
        /\ old = IF cache[p] # NoPage THEN cache[p]
                 ELSE IF tree[p] # NoPage THEN tree[p] ELSE ZeroPage
        /\ dirty' = dirty \cup {p}
  <2>1. tree \in TreeType /\ CacheShape
    BY DEF ConfigInv, DiskInv, DiskShape, TreeType
  <2>2. /\ dirty' = dirty \cup {PageOf(t)}
        /\ \E old \in [1 .. PageSectors -> Contents] :
                /\ old = IF cache[PageOf(t)] # NoPage THEN cache[PageOf(t)]
                         ELSE IF tree[PageOf(t)] # NoPage THEN tree[PageOf(t)] ELSE ZeroPage
                /\ cache' = [cache EXCEPT ![PageOf(t)] = [old EXCEPT ![(t % PageSectors) + 1] = c]]
    BY <2>1, PutKeepsCache
  <2>. QED
    BY <1>1, <1>2, <2>2
<1>5. PICK pg \in [1 .. PageSectors -> Contents] : pg = [old EXCEPT ![o] = c]
  BY <1>2
<1>6. pg # NoPage /\ pg[o] = c /\ \A i \in 1 .. PageSectors : i # o => pg[i] = old[i]
  BY <1>5, RamDiskAssumption
<1>7. cache'[p] = pg /\ \A x \in 0 .. Pages - 1 : x # p => cache'[x] = cache[x]
  BY <1>4, <1>5 DEF ConfigInv, CacheShape, TreeType
<1>8. t \in 0 .. 3 /\ c = Record(t) => Holds(cache, t)'
  BY <1>1, <1>2, <1>6, <1>7 DEF Holds, PageOf, Record
<1>9. ASSUME NEW s \in 0 .. 3, s # t, Holds(cache, s) PROVE Holds(cache, s)'
  <2>1. PICK x \in 0 .. Pages - 1 : x = PageOf(s)
    BY RecordPlaces
  <2>2. PICK i \in 1 .. PageSectors : i = (s % PageSectors) + 1
    BY RecordPlaces
  <2>3. cache[x] # NoPage /\ cache[x][i] = Record(s)
    BY <1>9, <2>1, <2>2 DEF Holds
  <2>4. x # p \/ i # o
    <3>1. s \in Nat /\ s % PageSectors \in Nat /\ t % PageSectors \in Nat
      <4>1. s \in Nat /\ t \in Nat
        OBVIOUS
      <4>. QED
        BY <4>1, PageAndPlace, Sizes
    <3>2. PICK a \in Nat : a = s % PageSectors
      BY <3>1
    <3>3. PICK b \in Nat : b = t % PageSectors
      BY <3>1
    <3>4. i = o => a = b
      BY <1>2, <2>2, <3>2, <3>3
    <3>. QED
      BY <1>1, <1>9, <2>1, <3>1, <3>2, <3>3, <3>4, PlacesDiffer
  <2>5. cache'[x] # NoPage /\ cache'[x][i] = Record(s)
    BY <1>4, <1>6, <1>7, <2>3, <2>4
  <2>. QED
    BY <2>1, <2>2, <2>5 DEF Holds, PageOf, Record
<1>. QED
  BY <1>1, <1>4, <1>8, <1>9

\* The application assembles and opens: nothing is written yet.
LEMMA SendOpenArrives ==
    ASSUME ConfigInv, ArriveInv, SendOpen
    PROVE  ArriveInv'
<1>. USE DEF ArriveInv
<1>0. DiskInv /\ "app" \in Users /\ "tool" \in Users /\ sends \in Nat /\ configs \in Seq(Contents)
  BY ConfigAssumption DEF ConfigInv, AppShape
<1>1. /\ app = "idle" /\ life \in {"live", "allocating"} /\ life' = life
      /\ configs' = configs \o Devices
      /\ sends' = sends + 1 /\ next' = 0 /\ tree' = tree /\ io' = io /\ driver' = driver
      /\ \/ /\ app' = "engine" /\ meddled' = opened["tool"]
            /\ opened' = [opened EXCEPT !["app"] = TRUE]
         \/ app' = "unopened" /\ meddled' = TRUE /\ opened' = opened
  BY DEF SendOpen, Open, brdVars, lifeVars, driverVars
<1>2. ConfigsOK'
  <2>1. Len(configs') = Len(configs) + 3 /\ Len(configs) \in Nat
    <3>1. Len(configs \o Devices) = Len(configs) + Len(Devices)
      BY <1>0, DevicesAreContents, ConcatProperties
    <3>. QED
      BY <1>0, <1>1, <3>1, DevicesAreContents
  <2>2. \A i \in 1 .. 3 : configs'[i] = Devices[i]
    <3>1. CASE configs = <<>>
      BY <1>1, <3>1, DevicesAreContents
    <3>2. CASE configs # <<>>
      <4>1. Len(configs) >= 3 /\ \A i \in 1 .. 3 : configs[i] = Devices[i]
        BY <3>2 DEF ConfigsOK
      <4>2. \A i \in 1 .. 3 : configs'[i] = configs[i]
        BY <1>0, <1>1, <4>1, DevicesAreContents
      <4>. QED
        BY <4>1, <4>2
    <3>. QED
      BY <3>1, <3>2
  <2>3. configs' # <<>>
    BY <1>0, <1>1, <2>1
  <2>. QED
    BY <1>1, <2>1, <2>2, <2>3 DEF ConfigsOK
<1>3. sends' # 0 /\ sends' > 0
  BY <1>0, <1>1
<1>4. opened' = opened \/ opened' = [opened EXCEPT !["app"] = TRUE]
  BY <1>1
<1>5. ActorsOK'
  <2>1. opened \in [Users -> BOOLEAN]
    BY <1>0 DEF DiskInv, DiskShape
  <2>3. app' \in {"engine", "devices", "close"} <=> opened'["app"]
    BY <1>0, <1>1, <2>1 DEF ActorsOK
  <2>. QED
    BY <1>1, <1>3, <2>3 DEF ActorsOK
<1>6. AppWrites'
  BY <1>1 DEF AppWrites
<1>7. Sent' /\ Stored' /\ Transferred'
  BY <1>1 DEF Sent, Written, Stored, Transferred
<1>. QED
  BY <1>2, <1>5, <1>6, <1>7

\* The application writes: what fails is marked.
LEMMA SendArrives ==
    ASSUME ConfigInv, ArriveInv,
           \/ SendUnopened \/ SendEngine \/ SendEngineFails
           \/ SendDevice \/ SendDeviceFails \/ SendAll
    PROVE  ArriveInv'
<1>. USE DEF ArriveInv
<1>0. DiskInv /\ "app" \in Users /\ sends \in Nat /\ configs \in Seq(Contents) /\ next \in Nat
  BY ConfigAssumption DEF ConfigInv, AppShape
<1>1. /\ UNCHANGED brdVars /\ UNCHANGED driverVars /\ sends' = sends
      /\ app' # "idle" /\ app' # "unopened" /\ app # "idle"
      /\ app' \in {"engine", "devices", "close"} <=> app \in {"engine", "devices", "close"}
      /\ meddled => meddled'
  BY DEF SendUnopened, SendEngine, SendEngineFails, SendDevice, SendDeviceFails, SendAll
<1>2. /\ life' = life /\ opened' = opened /\ tree' = tree /\ io' = io /\ driver' = driver
  BY <1>1 DEF brdVars, driverVars
<1>3. sends # 0
  BY <1>1 DEF ActorsOK
<1>4. ActorsOK'
  BY <1>1, <1>2, <1>3 DEF ActorsOK, Harmless
<1>5. AppWrites'
  BY <1>2 DEF AppWrites
<1>6. Transferred'
  BY <1>1 DEF Transferred
<1>7. Len(configs) \in Nat /\ (configs # <<>> => Len(configs) >= 3)
  BY <1>0 DEF ConfigsOK
<1>8. ConfigsOK' /\ Sent' /\ Stored'
  <2>1. CASE SendUnopened
    BY <2>1 DEF SendUnopened, ActorsOK, ConfigsOK, Sent, Stored
  <2>2. CASE SendEngine
    <3>1. /\ app = "engine" /\ app' = "devices" /\ PutInCache(0, Record(0)) /\ next' = next
          /\ configs' = configs /\ next = 0 /\ configs # <<>>
      BY <2>2, SectorNumbers, RecordPlaces DEF SendEngine, ConfigsOK
    <3>2. Written' = {0}
      BY <3>1 DEF Written
    <3>3. Holds(cache, 0)' /\ PageOf(0) \in dirty'
      BY <3>1, PutHolds, RecordPlaces
    <3>4. Sent'
      BY <3>2, <3>3 DEF Sent, PageOf
    <3>. QED
      BY <1>7, <3>1, <3>4 DEF ConfigsOK, Stored
  <2>3. CASE SendEngineFails \/ SendDeviceFails
    <3>1. meddled' /\ app' = "close" /\ (configs' = configs \/ configs' = <<>>)
      BY <2>3 DEF SendEngineFails, SendDeviceFails
    <3>. QED
      BY <3>1 DEF ConfigsOK, Sent, Stored
  <2>4. CASE SendDevice
    <3>1. /\ app = "devices" /\ app' = "devices" /\ next < Len(configs) /\ next' = next + 1
          /\ configs' = configs /\ meddled' = meddled
          /\ PutInCache(next + 1, configs[next + 1]) /\ next + 1 < Capacity
      BY <2>4 DEF SendDevice, DeviceSector
    <3>2. ConfigsOK'
      BY <1>0, <1>7, <3>1 DEF ConfigsOK
    <3>3. Written = 0 .. next /\ Written' = 0 .. next + 1
      BY <3>1 DEF Written
    <3>4. PICK n \in Nat : n = next + 1 /\ n < Capacity
      BY <1>0, <3>1
    <3>5. PICK c \in Contents : c = configs[n] /\ (n \in 0 .. 3 => c = Record(n))
      <4>1. n \in 1 .. Len(configs)
        BY <1>0, <1>7, <3>1, <3>4
      <4>2. configs[n] \in Contents
        BY <1>0, <4>1
      <4>3. n \in 0 .. 3 => configs[n] = Record(n)
        BY <1>7, <4>1 DEF ConfigsOK, Record
      <4>. QED
        BY <4>2, <4>3
    <3>6. PutInCache(n, c)
      BY <3>1, <3>4, <3>5
    <3>7. /\ dirty' = dirty \cup {PageOf(n)}
          /\ n \in 0 .. 3 => Holds(cache, n)'
          /\ \A s \in 0 .. 3 : s # n /\ Holds(cache, s) => Holds(cache, s)'
      BY <3>4, <3>5, <3>6, PutHolds
    <3>8. ASSUME ~meddled, NEW s \in Written' \cap (0 .. 3)
          PROVE  /\ Holds(cache, s)'
                 /\ PageOf(s) \notin dirty' =>
                      /\ \A u \in Users \ {"app"} : Harmless(u)
                      /\ IF Copying(io["app"], PageOf(s))
                         THEN io["app"].data[(s % PageSectors) + 1] = Record(s) ELSE Holds(tree, s)
      <4>1. CASE s = n
        BY <3>7, <4>1
      <4>2. CASE s # n
        <5>1. s \in Written \cap (0 .. 3)
          BY <1>0, <3>3, <3>4, <4>2
        <5>. QED
          BY <3>7, <3>8, <4>2, <5>1 DEF Sent
      <4>. QED
        BY <4>1, <4>2
    <3>9. Sent'
      BY <1>2, <3>1, <3>8 DEF Sent, Holds, Harmless, Copying, PageOf, Record
    <3>. QED
      BY <3>1, <3>2, <3>9 DEF Stored
  <2>5. CASE SendAll
    <3>1. /\ app = "devices" /\ app' = "close" /\ next = Len(configs) /\ configs' = <<>>
          /\ UNCHANGED cacheVars /\ meddled' = meddled
      BY <2>5 DEF SendAll
    <3>2. next >= 3
      BY <1>0, <1>7, <3>1 DEF ConfigsOK
    <3>3. Written' \subseteq Written
      BY <1>0, <3>1, <3>2 DEF Written
    <3>4. Sent'
      BY <1>2, <3>1, <3>3, SentStays DEF cacheVars
    <3>. QED
      BY <3>1, <3>4 DEF ConfigsOK, Stored
  <2>. QED
    BY <2>1, <2>2, <2>3, <2>4, <2>5
<1>. QED
  BY <1>4, <1>5, <1>6, <1>8

\* The application closes the disk when all is written back, and asks the driver.
LEMMA CloseArrives ==
    ASSUME ConfigInv, ArriveInv, SendClose \/ SendCommand
    PROVE  ArriveInv'
<1>. USE DEF ArriveInv
<1>0. DiskInv /\ "app" \in Users /\ sends \in Nat /\ opened \in [Users -> BOOLEAN]
  BY ConfigAssumption DEF ConfigInv, AppShape, DiskInv, DiskShape
<1>1. sends # 0 /\ app \in {"close", "command"}
  BY DEF ActorsOK, SendClose, SendCommand
<1>2. CASE SendClose
  <2>1. /\ app = "close" /\ app' = "command" /\ CloseCached("app")
        /\ meddled' = (meddled \/ Openers > 1) /\ configs' = configs /\ next' = next
        /\ sends' = sends /\ UNCHANGED driverVars
    BY <1>2 DEF SendClose
  <2>2. /\ opened["app"] /\ io["app"] = NoIo /\ opened' = [opened EXCEPT !["app"] = FALSE]
        /\ UNCHANGED <<life, tree, io>> /\ dirty' = dirty /\ (Openers = 1 => dirty = {})
    BY <2>1 DEF CloseCached, Close, lifeVars
  <2>3. ConfigsOK'
    BY <2>1 DEF ConfigsOK
  <2>4. ActorsOK'
    BY <1>0, <1>1, <2>1, <2>2 DEF ActorsOK, driverVars
  <2>5. AppWrites'
    BY <2>2 DEF AppWrites
  <2>6. Sent' /\ Transferred'
    BY <2>1 DEF Sent, Written, Transferred
  <2>7. Stored'
    <3>. SUFFICES ASSUME ~meddled'
                  PROVE  /\ dirty' = {} /\ \A u \in Users : Harmless(u)'
                         /\ \A s \in 0 .. 3 : Holds(tree, s)'
      BY DEF Stored
    <3>1. ~meddled /\ ~(Openers > 1)
      BY <2>1
    <3>2. Openers = 1 /\ \A v \in Users : opened[v] => v = "app"
      BY <1>0, <2>2, <3>1, Alone
    <3>3. dirty = {}
      BY <2>2, <3>2
    <3>4. \A u \in Users : Harmless(u)
      <4>1. io["app"].op = "none"
        BY <2>2, NoRequest
      <4>2. Harmless("app")
        BY <4>1 DEF Harmless
      <4>3. \A u \in Users : ~opened[u] => Harmless(u)
        BY <1>0, NotOpenIsIdle
      <4>. QED
        BY <3>2, <4>2, <4>3
    <3>5. \A s \in 0 .. 3 : Holds(tree, s)
      <4>1. Written = 0 .. 3
        BY <2>1 DEF Written
      <4>2. \A p : ~Copying(io["app"], p)
        BY <2>2, NoRequest DEF Copying
      <4>3. \A s \in Written \cap (0 .. 3) : Holds(tree, s)
        BY <3>1, <3>3, <4>2 DEF Sent
      <4>. QED
        BY <4>1, <4>3
    <3>. QED
      BY <2>2, <3>3, <3>4, <3>5 DEF Harmless, Holds, PageOf, Record
  <2>. QED
    BY <2>3, <2>4, <2>5, <2>6, <2>7
<1>3. CASE SendCommand
  <2>1. /\ app = "command" /\ app' = "idle" /\ command' = TRUE /\ UNCHANGED brdVars
        /\ UNCHANGED cacheVars /\ driver' = driver /\ meddled' = meddled
        /\ configs' = configs /\ next' = next /\ sends' = sends
    BY <1>3 DEF SendCommand
  <2>2. /\ UNCHANGED <<life, tree, io, opened>> /\ dirty' = dirty
    BY <2>1 DEF brdVars, cacheVars
  <2>3. ConfigsOK'
    BY <2>1 DEF ConfigsOK
  <2>4. ActorsOK'
    BY <1>0, <1>1, <2>1, <2>2 DEF ActorsOK
  <2>5. AppWrites'
    BY <2>2 DEF AppWrites
  <2>6. Sent' /\ Transferred'
    BY <2>1 DEF Sent, Written, Transferred
  <2>7. Stored'
    BY <2>1, <2>2 DEF Stored, Harmless, Holds, PageOf, Record
  <2>. QED
    BY <2>3, <2>4, <2>5, <2>6, <2>7
<1>. QED
  BY <1>2, <1>3

\* Whoever closes last writes the cache back: the application, unless it failed.
LEMMA SyncArrives ==
    ASSUME ConfigInv, ArriveInv, NEW u \in Users, SyncBeforeClose(u)
    PROVE  ArriveInv'
<1>. USE DEF ArriveInv
<1>0. DiskInv /\ CacheShape /\ "app" \in Users /\ sends \in Nat
  BY ConfigAssumption DEF ConfigInv, AppShape
<1>1. PICK p \in dirty :
        /\ p \in 0 .. Pages - 1
        /\ brd_make_request(u, "write", p * PageSectors, <<PageSectors>>, cache[p])
        /\ Askable("write", p * PageSectors, <<PageSectors>>, cache[p])
        /\ dirty' = dirty \ {p} /\ cache' = cache /\ Openers = 1
  BY <1>0, SyncMakesRequest
<1>2. PICK q : q = MadeRequest("write", p * PageSectors, <<PageSectors>>, cache[p])
  OBVIOUS
<1>3. /\ io' = [io EXCEPT ![u] = q] /\ io \in [Users -> IoRecord]
  BY <1>0, <1>1, <1>2, MakeInv DEF DiskInv, DiskShape
<1>4. /\ q.op = "write" /\ q.at = "setup" /\ q.sector = p * PageSectors
      /\ q.segs = <<PageSectors>> /\ q.data = cache[p]
  BY <1>2, FirstSteps DEF MadeRequest, NoIo
<1>5. PageOf(q.sector) = p /\ q.sector % PageSectors = 0
  <2>1. p \in Nat
    BY <1>1
  <2>. QED
    BY <1>4, <2>1, FirstOfPage
<1>6. /\ opened[u] /\ io[u] = NoIo /\ UNCHANGED <<life, opened, tree>>
  BY <1>1 DEF brd_make_request, lifeVars
<1>7. UNCHANGED appVars /\ UNCHANGED driverVars /\ meddled' = meddled
  BY DEF SyncBeforeClose
<1>8. /\ app' = app /\ configs' = configs /\ next' = next /\ sends' = sends /\ table' = table
      /\ driver' = driver
  BY <1>7 DEF appVars, driverVars
<1>9. \A v \in Users : opened[v] => v = u
  BY <1>1, <1>6, Alone
<1>10. sends # 0
  BY <1>1 DEF ActorsOK
<1>11. ConfigsOK'
  BY <1>8 DEF ConfigsOK
<1>12. ActorsOK'
  BY <1>6, <1>7, <1>8, <1>10 DEF ActorsOK
<1>13. AppWrites'
  <2>1. CASE u = "app"
    BY <1>3, <1>4, <1>5, <2>1 DEF AppWrites
  <2>2. CASE u # "app"
    BY <1>0, <1>3, <2>2 DEF AppWrites
  <2>. QED
    BY <2>1, <2>2
<1>14. Written' = Written
  BY <1>8 DEF Written
<1>15. Sent'
  <2>1. CASE u = "app"
    <3>1. \A v \in Users \ {"app"} : Harmless(v)'
      <4>1. \A v \in Users \ {"app"} : Harmless(v)
        BY <1>0, <1>9, <2>1, NotOpenIsIdle
      <4>. QED
        BY <1>3, <2>1, <4>1 DEF Harmless
    <3>2. ASSUME ~meddled, NEW s \in Written \cap (0 .. 3)
          PROVE  /\ Holds(cache, s)
                 /\ PageOf(s) # p /\ PageOf(s) \notin dirty => Holds(tree, s)
      <4>1. \A x : ~Copying(io["app"], x)
        BY <1>6, <2>1, NoRequest DEF Copying
      <4>. QED
        BY <3>2, <4>1 DEF Sent
    <3>3. io'["app"] = q
      BY <1>0, <1>3, <2>1
    <3>4. ASSUME ~meddled, NEW s \in Written \cap (0 .. 3), PageOf(s) \notin dirty'
          PROVE  IF Copying(q, PageOf(s)) THEN q.data[(s % PageSectors) + 1] = Record(s)
                 ELSE Holds(tree, s)
      <4>1. Copying(q, PageOf(s)) <=> PageOf(s) = p
        BY <1>4, <1>5 DEF Copying
      <4>2. CASE PageOf(s) = p
        BY <1>4, <3>2, <3>4, <4>1, <4>2 DEF Holds
      <4>3. CASE PageOf(s) # p
        BY <1>1, <3>2, <3>4, <4>1, <4>3
      <4>. QED
        BY <4>2, <4>3
    <3>5. \A s \in 0 .. 3 : /\ Holds(cache, s) => Holds(cache, s)'
                            /\ Holds(tree, s) => Holds(tree, s)'
                            /\ PageOf(s)' = PageOf(s) /\ Record(s)' = Record(s)
                            /\ Copying(io["app"], PageOf(s))' = Copying(q, PageOf(s))
      BY <1>1, <1>6, <3>3 DEF Holds, PageOf, Record, Copying
    <3>. SUFFICES ASSUME ~meddled', NEW s \in Written' \cap (0 .. 3)
                  PROVE  /\ Holds(cache, s)'
                         /\ (PageOf(s) \notin dirty)' =>
                            /\ \A v \in Users \ {"app"} : Harmless(v)'
                            /\ IF Copying(io["app"], PageOf(s))'
                               THEN io'["app"].data[(s % PageSectors) + 1] = Record(s)'
                               ELSE Holds(tree, s)'
      BY DEF Sent
    <3>6. ~meddled /\ s \in Written \cap (0 .. 3)
      BY <1>7, <1>14
    <3>. QED
      BY <3>1, <3>2, <3>3, <3>4, <3>5, <3>6
  <2>2. CASE u # "app"
    <3>1. ~opened["app"]
      BY <1>0, <1>9, <2>2
    <3>2. Written' = {}
      BY <1>14, <3>1 DEF Written, ActorsOK
    <3>. QED
      BY <3>2 DEF Sent
  <2>. QED
    BY <2>1, <2>2
<1>16. Stored'
  BY <1>1, <1>7, <1>8 DEF Stored
<1>17. Transferred'
  BY <1>7, <1>8 DEF Transferred, driverVars, axisVars, Whole, Assembled, Records, Bytes, Registers
<1>. QED
  BY <1>11, <1>12, <1>13, <1>15, <1>16, <1>17

\* What a step of a request leaves alone.
LEMMA StepKeeps ==
    ASSUME DiskInv, NEW u \in Users, IoStep(u)
    PROVE  /\ \E q : io' = [io EXCEPT ![u] = q] /\ (Harmless(u) => q.op \in {"none", "read"})
           /\ UNCHANGED <<life, opened>> /\ (Harmless(u) => tree' = tree)
<1>1. CASE LookupForWrite(u) \/ AllocPageFails(u) \/ brd_insert_page(u)
  <2>1. UNCHANGED <<life, opened>>
    BY <1>1 DEF LookupForWrite, AllocPageFails, brd_insert_page, lifeVars
  <2>2. PICK q : io' = [io EXCEPT ![u] = q] /\ io[u].op = "write"
    BY <1>1, WritePagesInv
  <2>. QED
    BY <2>1, <2>2 DEF Harmless
<1>2. CASE copy_to_brd(u)
  <2>1. UNCHANGED <<life, opened>> /\ io[u].op = "write"
    BY <1>2 DEF copy_to_brd, lifeVars
  <2>2. io' = [io EXCEPT ![u] = WriteNext(io[u])]
    BY <1>2, CopyToInv
  <2>. QED
    BY <2>1, <2>2 DEF Harmless
<1>3. CASE copy_from_brd(u)
  <2>1. UNCHANGED <<life, opened>> /\ io[u].op = "read"
    BY <1>3 DEF copy_from_brd, lifeVars
  <2>2. io' = [io EXCEPT ![u] = ReadNext(tree, io[u])] /\ tree' = tree
    BY <1>3, CopyFromInv
  <2>3. PICK r \in IoRecord : r = io[u]
    BY OfUser
  <2>4. ReadNext(tree, r).op = r.op
    BY <2>3 DEF ReadNext, Advance, IoRecord
  <2>. QED
    BY <2>1, <2>2, <2>3, <2>4
<1>4. CASE brd_zero_page(u)
  <2>1. UNCHANGED <<life, opened>> /\ io[u].op = "discard"
    BY <1>4, OfUser DEF brd_zero_page, lifeVars, RequestOK
  <2>2. io' = [io EXCEPT ![u] = DiscardNext(io[u])]
    BY <1>4, ZeroInv
  <2>. QED
    BY <2>1, <2>2 DEF Harmless
<1>5. CASE brd_free_pages(u)
  <2>1. UNCHANGED <<life, opened>> /\ io[u].op = "flush"
    BY <1>5, OfUser DEF brd_free_pages, lifeVars, RequestOK
  <2>2. io' = [io EXCEPT ![u] = FlushNext(io[u], Batch(PageOf(io[u].sector)))]
    BY <1>5, FreePagesInv
  <2>. QED
    BY <2>1, <2>2 DEF Harmless
<1>6. CASE bio_endio(u)
  <2>1. UNCHANGED <<life, opened>>
    BY <1>6 DEF bio_endio, lifeVars
  <2>2. io' = [io EXCEPT ![u] = NoIo] /\ tree' = tree
    BY <1>6, EndInv
  <2>. QED
    BY <2>1, <2>2, NoRequest
<1>. QED
  BY <1>1, <1>2, <1>3, <1>4, <1>5, <1>6 DEF IoStep

\* A page that the application writes back is written in one piece.
LEMMA AppSteps ==
    ASSUME DiskInv, AppWrites, IoStep("app"), NEW r, r = io["app"]
    PROVE  \E q :
            /\ io' = [io EXCEPT !["app"] = q] /\ r.op = "write"
            /\ \/ q = NoIo /\ tree' = tree /\ r.at = "done"
               \/ q = NoIo /\ r.at # "done"
               \/ /\ q.op = "write" /\ q.at # "done" /\ r.at # "done" /\ q.sector = r.sector
                  /\ q.segs = r.segs /\ q.data = r.data
                  /\ \A p \in 0 .. Pages - 1 : tree[p] # NoPage => tree'[p] = tree[p]
               \/ /\ q.op = "write" /\ q.at = "done" /\ r.at # "done"
                  /\ \E pg \in [1 .. PageSectors -> Contents] :
                        /\ tree' = [tree EXCEPT ![PageOf(r.sector)] = pg]
                        /\ \A i \in 1 .. PageSectors : pg[i] = r.data[i]
<1>0. "app" \in Users
  BY ConfigAssumption
<1>1. RequestOK(r) /\ r \in IoRecord /\ tree \in TreeType
  BY <1>0, OfUser
<1>2. /\ r.op \in {"none", "write"}
      /\ r.at = "idle" \/ r.op = "none" => r.at = "idle" /\ r.op = "none"
  BY <1>1, NoRequest DEF RequestOK, AppWrites
<1>3. CASE LookupForWrite("app") \/ AllocPageFails("app") \/ brd_insert_page("app")
  <2>1. r.at \in {"setup", "insert"}
    BY <1>3 DEF LookupForWrite, AllocPageFails, brd_insert_page
  <2>2. PICK q : /\ io' = [io EXCEPT !["app"] = q] /\ r.op = "write"
                 /\ q = NoIo \/ (/\ q.op = r.op /\ q.sector = r.sector
                                 /\ q.segs = r.segs /\ q.data = r.data
                                 /\ q.got = r.got /\ q.at \in {"setup", "insert", "copy"})
    BY <1>0, <1>3, WritePagesInv
  <2>3. \A p \in 0 .. Pages - 1 : tree'[p] = tree[p] \/ (tree[p] = NoPage /\ tree'[p] = ZeroPage)
    BY <1>0, <1>3, WritePagesInv
  <2>. QED
    BY <2>1, <2>2, <2>3
<1>4. CASE copy_to_brd("app")
  <2>1. r.at = "copy" /\ r.op = "write"
    BY <1>4 DEF copy_to_brd
  <2>2. r.segs = <<PageSectors>> /\ r.sector % PageSectors = 0
    BY <2>1 DEF AppWrites
  <2>3. PICK n \in Nat : n = PageSectors
    BY Sizes
  <2>4. Copy1(r) = n
    <3>1. Head(r.segs) = n /\ PageSectors - (r.sector % PageSectors) = n
      BY <2>2, <2>3
    <3>2. Copy1(r) = Min({n, n})
      BY <3>1 DEF Copy1
    <3>3. Min({n, n}) = n
      BY DEF Min
    <3>. QED
      BY <3>2, <3>3
  <2>5. PICK q : q = WriteNext(r)
    OBVIOUS
  <2>6. io' = [io EXCEPT !["app"] = q]
    BY <1>0, <1>4, <2>5, CopyToInv
  <2>7. q.op = "write" /\ q.at = "done"
    <3>1. PICK w : w = Advance(r, n)
      OBVIOUS
    <3>2. w.op = "write" /\ w.at = "done" /\ w \in IoRecord
      <4>1. PICK h : h = Head(r.segs)
        OBVIOUS
      <4>2. h = n /\ Tail(r.segs) = <<>>
        BY <2>2, <2>3, <4>1
      <4>3. /\ w.op = r.op /\ w \in IoRecord
            /\ IF n < h
               THEN /\ w.at = "copy" /\ w.segs # <<>> /\ Head(w.segs) = h - n
                    /\ n = PageSectors - (r.sector % PageSectors)
               ELSE /\ w.segs = Tail(r.segs)
                    /\ w.at = IF w.segs = <<>> THEN "done" ELSE FirstStep(r.op)
        BY <1>1, <2>1, <2>4, <3>1, <4>1, Advances
      <4>4. ~(n < h)
        BY <2>3, <4>2
      <4>5. w.segs = <<>> /\ w.at = IF w.segs = <<>> THEN "done" ELSE FirstStep(r.op)
        BY <4>2, <4>3, <4>4
      <4>. QED
        BY <2>1, <4>3, <4>5
    <3>3. q = [w EXCEPT !.data = SubSeq(@, n + 1, Len(@))]
      BY <2>4, <2>5, <3>1 DEF WriteNext
    <3>. QED
      BY <3>2, <3>3 DEF IoRecord
  <2>8. PICK pg : pg = CopiedPage(tree[PageOf(r.sector)], r.sector % PageSectors, Copy1(r), r.data)
    OBVIOUS
  <2>9. tree' = [tree EXCEPT ![PageOf(r.sector)] = pg]
    BY <1>0, <1>4, <2>8, CopyToInv
  <2>10. pg = [i \in 1 .. PageSectors |-> r.data[i]]
    <3>1. \A i \in 1 .. PageSectors : i \in 0 + 1 .. 0 + n /\ i - 0 = i
      BY <2>3
    <3>2. pg = CopiedPage(tree[PageOf(r.sector)], 0, n, r.data)
      BY <2>2, <2>4, <2>8
    <3>. QED
      BY <3>1, <3>2 DEF CopiedPage
  <2>11. pg \in [1 .. PageSectors -> Contents]
    <3>1. r.data \in Seq(Contents) /\ Len(r.data) = Sectors(r.segs)
      BY <1>1, <2>1 DEF RequestOK, IoRecord
    <3>2. Sectors(r.segs) = n
      <4>1. <<>> \in Seq(Nat)
        OBVIOUS
      <4>. QED
        BY <2>2, <2>3, <4>1, SectorsCons
    <3>3. \A i \in 1 .. n : r.data[i] \in Contents
      BY <3>1, <3>2
    <3>. QED
      BY <2>3, <2>10, <3>3
  <2>. QED
    BY <2>1, <2>6, <2>7, <2>9, <2>10, <2>11
<1>5. ~copy_from_brd("app") /\ ~brd_zero_page("app") /\ ~brd_free_pages("app")
  BY <1>1, <1>2 DEF copy_from_brd, brd_zero_page, brd_free_pages, RequestOK
<1>6. CASE bio_endio("app")
  <2>1. r.at \in {"done", "flushed"} /\ r.op = "write" /\ r.at # "flushed"
    BY <1>1, <1>2, <1>6 DEF bio_endio, RequestOK
  <2>2. io' = [io EXCEPT !["app"] = NoIo] /\ tree' = tree
    BY <1>0, <1>6, EndInv
  <2>. QED
    BY <2>1, <2>2
<1>. QED
  BY <1>3, <1>4, <1>5, <1>6 DEF IoStep

\* A page written back is on its way until it is on the disk.
LEMMA WriteArrives ==
    ASSUME ConfigInv, ArriveInv, RequestStep("app")
    PROVE  AppWrites' /\ Sent'
<1>. USE DEF ArriveInv
<1>0. DiskInv /\ "app" \in Users /\ io \in [Users -> IoRecord] /\ tree \in TreeType
  BY ConfigAssumption DEF ConfigInv, DiskInv, DiskShape
<1>1. PICK r : r = io["app"]
  OBVIOUS
<1>2. PICK q :
        /\ io' = [io EXCEPT !["app"] = q] /\ r.op = "write"
        /\ \/ q = NoIo /\ tree' = tree /\ r.at = "done"
           \/ q = NoIo /\ r.at # "done"
           \/ /\ q.op = "write" /\ q.at # "done" /\ r.at # "done" /\ q.sector = r.sector
              /\ q.segs = r.segs /\ q.data = r.data
              /\ \A p \in 0 .. Pages - 1 : tree[p] # NoPage => tree'[p] = tree[p]
           \/ /\ q.op = "write" /\ q.at = "done" /\ r.at # "done"
              /\ \E pg \in [1 .. PageSectors -> Contents] :
                    /\ tree' = [tree EXCEPT ![PageOf(r.sector)] = pg]
                    /\ \A i \in 1 .. PageSectors : pg[i] = r.data[i]
  BY <1>0, <1>1, AppSteps DEF RequestStep
<1>3. io'["app"] = q /\ \A v \in Users \ {"app"} : io'[v] = io[v]
  BY <1>0, <1>2
<1>4. /\ cache' = cache /\ dirty' = dirty /\ Written' = Written
      /\ meddled' = (meddled \/ (r.op = "write" /\ q = NoIo /\ r.at # "done"))
  BY <1>1, <1>3 DEF RequestStep, appVars, cacheVars, Written
<1>5. AppWrites'
  <2>1. q.op \in {"none", "write"}
    BY <1>2, NoRequest
  <2>2. q.op = "write" /\ q.at # "done" => q.segs = <<PageSectors>> /\ q.sector % PageSectors = 0
    BY <1>1, <1>2, NoRequest DEF AppWrites
  <2>. QED
    BY <1>3, <2>1, <2>2 DEF AppWrites
<1>6. ASSUME ~meddled', NEW s \in Written \cap (0 .. 3), PageOf(s) \notin dirty
      PROVE  IF Copying(q, PageOf(s)) THEN q.data[(s % PageSectors) + 1] = Record(s)
             ELSE Holds(tree, s)'
  <2>1. PICK x \in 0 .. Pages - 1 : x = PageOf(s)
    BY RecordPlaces
  <2>2. PICK i \in 1 .. PageSectors : i = (s % PageSectors) + 1
    BY RecordPlaces
  <2>3. IF Copying(r, x) THEN r.data[i] = Record(s)
        ELSE tree[x] # NoPage /\ tree[x][i] = Record(s)
    BY <1>1, <1>4, <1>6, <2>1, <2>2 DEF Sent, Holds
  <2>4. ASSUME tree'[x] # NoPage /\ tree'[x][i] = Record(s) PROVE Holds(tree, s)'
    BY <2>1, <2>2, <2>4 DEF Holds, PageOf, Record
  <2>5. CASE q = NoIo /\ tree' = tree /\ r.at = "done"
    <3>1. ~Copying(r, x) /\ ~Copying(q, PageOf(s))
      BY <2>5, NoRequest DEF Copying
    <3>. QED
      BY <2>3, <2>4, <2>5, <3>1
  <2>6. CASE q = NoIo /\ r.at # "done"
    BY <1>2, <1>4, <1>6, <2>6
  <2>7. CASE /\ q.op = "write" /\ q.at # "done" /\ r.at # "done" /\ q.sector = r.sector
             /\ q.segs = r.segs /\ q.data = r.data
             /\ \A p \in 0 .. Pages - 1 : tree[p] # NoPage => tree'[p] = tree[p]
    <3>1. Copying(q, x) <=> Copying(r, x)
      BY <1>2, <2>7 DEF Copying
    <3>2. CASE Copying(r, x)
      BY <2>1, <2>2, <2>3, <2>7, <3>1, <3>2
    <3>3. CASE ~Copying(r, x)
      BY <2>1, <2>3, <2>4, <2>7, <3>1, <3>3
    <3>. QED
      BY <3>2, <3>3
  <2>8. CASE /\ q.op = "write" /\ q.at = "done" /\ r.at # "done"
             /\ \E pg \in [1 .. PageSectors -> Contents] :
                    /\ tree' = [tree EXCEPT ![PageOf(r.sector)] = pg]
                    /\ \A j \in 1 .. PageSectors : pg[j] = r.data[j]
    <3>1. PICK pg \in [1 .. PageSectors -> Contents] :
            /\ tree' = [tree EXCEPT ![PageOf(r.sector)] = pg]
            /\ \A j \in 1 .. PageSectors : pg[j] = r.data[j]
      BY <2>8
    <3>2. ~Copying(q, PageOf(s))
      BY <2>8 DEF Copying
    <3>3. Copying(r, x) <=> PageOf(r.sector) = x
      BY <1>2, <2>8 DEF Copying
    <3>4. pg # NoPage
      BY <3>1, RamDiskAssumption
    <3>5. tree'[x] = IF PageOf(r.sector) = x THEN pg ELSE tree[x]
      BY <1>0, <3>1 DEF TreeType
    <3>6. tree'[x] # NoPage /\ tree'[x][i] = Record(s)
      BY <2>3, <3>1, <3>3, <3>4, <3>5
    <3>. QED
      BY <2>4, <3>2, <3>6
  <2>. QED
    BY <1>2, <2>5, <2>6, <2>7, <2>8
<1>7. Sent'
  <2>. SUFFICES ASSUME ~meddled', NEW s \in Written' \cap (0 .. 3)
                PROVE  /\ Holds(cache, s)'
                       /\ (PageOf(s) \notin dirty)' =>
                            /\ \A v \in Users \ {"app"} : Harmless(v)'
                            /\ IF Copying(io["app"], PageOf(s))'
                               THEN io'["app"].data[(s % PageSectors) + 1] = Record(s)'
                               ELSE Holds(tree, s)'
    BY DEF Sent
  <2>1. ~meddled /\ s \in Written \cap (0 .. 3)
    BY <1>4
  <2>2. Holds(cache, s) /\ (PageOf(s) \notin dirty => \A v \in Users \ {"app"} : Harmless(v))
    BY <2>1 DEF Sent
  <2>3. /\ Holds(cache, s)' <=> Holds(cache, s)
        /\ PageOf(s)' = PageOf(s) /\ Record(s)' = Record(s)
        /\ Copying(io["app"], PageOf(s))' = Copying(q, PageOf(s))
    BY <1>3, <1>4 DEF Holds, PageOf, Record, Copying
  <2>4. \A v \in Users \ {"app"} : Harmless(v)' <=> Harmless(v)
    BY <1>3 DEF Harmless
  <2>. QED
    BY <1>3, <1>4, <1>6, <2>1, <2>2, <2>3, <2>4
<1>. QED
  BY <1>5, <1>7

\* The requests of all go on.
LEMMA RequestArrives ==
    ASSUME ConfigInv, ArriveInv, NEW u \in Users, RequestStep(u)
    PROVE  ArriveInv'
<1>. USE DEF ArriveInv
<1>0. DiskInv /\ "app" \in Users /\ io \in [Users -> IoRecord]
  BY ConfigAssumption DEF ConfigInv, DiskInv, DiskShape
<1>1. /\ UNCHANGED appVars /\ UNCHANGED cacheVars /\ UNCHANGED driverVars /\ (meddled => meddled')
      /\ IoStep(u)
  BY DEF RequestStep
<1>2. PICK q : io' = [io EXCEPT ![u] = q] /\ (Harmless(u) => q.op \in {"none", "read"})
  BY <1>0, <1>1, StepKeeps
<1>3. UNCHANGED <<life, opened>> /\ (Harmless(u) => tree' = tree)
  BY <1>0, <1>1, StepKeeps
<1>4. io'[u] = q /\ \A v \in Users \ {u} : io'[v] = io[v]
  BY <1>0, <1>2
<1>5. \A v \in Users : Harmless(v) => Harmless(v)'
  BY <1>2, <1>4 DEF Harmless
<1>6. ConfigsOK'
  BY <1>1 DEF ConfigsOK, appVars
<1>7. ActorsOK'
  BY <1>1, <1>3 DEF ActorsOK, appVars, cacheVars, driverVars, axisVars
<1>8. Stored'
  BY <1>1, <1>3, <1>5 DEF Stored, appVars, cacheVars, Holds, PageOf, Record
<1>9. Transferred'
  BY <1>1 DEF Transferred, appVars, driverVars, axisVars, Whole, Assembled, Records, Bytes,
              Registers
<1>10. AppWrites' /\ Sent'
  <2>1. CASE u = "app"
    BY <2>1, WriteArrives
  <2>2. CASE u # "app"
    <3>1. io'["app"] = io["app"] /\ cache' = cache /\ dirty' = dirty /\ Written' = Written
      BY <1>0, <1>1, <1>4, <2>2 DEF appVars, cacheVars, Written
    <3>2. AppWrites'
      BY <3>1 DEF AppWrites
    <3>3. Sent'
      BY <1>1, <1>3, <1>5, <2>2, <3>1 DEF Sent, Holds, Copying, PageOf, Record
    <3>. QED
      BY <3>2, <3>3
  <2>. QED
    BY <2>1, <2>2
<1>. QED
  BY <1>6, <1>7, <1>8, <1>9, <1>10

\* Whoever meddles is seen to.
LEMMA MeddleArrives ==
    ASSUME ConfigInv, ArriveInv, Meddle, UNCHANGED <<appVars, driverVars>>
    PROVE  ArriveInv'
<1>. USE DEF ArriveInv
<1>0. /\ DiskInv /\ "app" \in Users /\ "tool" \in Users /\ opened \in [Users -> BOOLEAN]
      /\ io \in [Users -> IoRecord] /\ cache \in TreeType
  BY ConfigAssumption DEF ConfigInv, DiskInv, DiskShape, CacheShape
<1>1. /\ UNCHANGED appVars /\ UNCHANGED driverVars
      /\ app' = app /\ sends' = sends /\ next' = next /\ configs' = configs /\ driver' = driver
      /\ Written' = Written
  BY DEF appVars, driverVars, Written
<1>2. ConfigsOK'
  BY <1>1 DEF ConfigsOK
<1>3. ASSUME meddled => meddled' PROVE Transferred'
  <2>1. /\ app' = app /\ sends' = sends /\ table' = table /\ command' = command /\ driver' = driver
        /\ sector' = sector /\ mapped' = mapped /\ depth' = depth /\ rxData' = rxData
        /\ configBytesAmount' = configBytesAmount /\ payloadBytes' = payloadBytes
    BY <1>1 DEF appVars, driverVars, axisVars
  <2>. QED
    BY <1>3, <2>1 DEF Transferred, Whole, Assembled, Records, Bytes, Registers
<1>4. CASE \/ Open("tool") /\ UNCHANGED <<cacheVars, meddled>>
           \/ CloseCached("tool") /\ UNCHANGED meddled
  <2>1. /\ UNCHANGED <<life, tree, io>> /\ dirty' = dirty /\ meddled' = meddled
        /\ \E b \in BOOLEAN : opened' = [opened EXCEPT !["tool"] = b]
        /\ cache' = cache \/ (cache' = [p \in DOMAIN cache |-> NoPage] /\ CloseCached("tool"))
    BY <1>4 DEF Open, CloseCached, Close, lifeVars, cacheVars
  <2>2. opened'["app"] = opened["app"]
    BY <1>0, <2>1
  <2>3. ActorsOK'
    <3>1. sends = 0 => cache' = [p \in 0 .. Pages - 1 |-> NoPage]
      BY <1>0, <2>1 DEF ActorsOK, TreeType
    <3>. QED
      BY <1>1, <2>1, <2>2, <3>1 DEF ActorsOK, driverVars, axisVars
  <2>4. AppWrites'
    BY <2>1 DEF AppWrites
  <2>5. Sent'
    <3>1. CASE opened["app"]
      <4>1. cache' = cache
        BY <1>0, <2>1, <3>1, CloseLeavesCache
      <4>. QED
        BY <1>1, <2>1, <4>1, SentStays
    <3>2. CASE ~opened["app"]
      <4>1. Written' = {}
        BY <1>1, <3>2 DEF Written, ActorsOK
      <4>. QED
        BY <4>1 DEF Sent
    <3>. QED
      BY <3>1, <3>2
  <2>6. Stored'
    BY <1>1, <2>1 DEF Stored, Harmless, Holds, PageOf, Record
  <2>. QED
    BY <1>2, <1>3, <2>1, <2>3, <2>4, <2>5, <2>6
<1>5. ASSUME NEW r \in Requests, brd_make_request("tool", r.op, r.sector, r.segs, r.data),
             meddled' = (meddled \/ r.op # "read"), UNCHANGED cacheVars
      PROVE  ArriveInv'
  <2>1. PICK q : q = MadeRequest(r.op, r.sector, r.segs, r.data)
    OBVIOUS
  <2>2. io' = [io EXCEPT !["tool"] = q]
    BY <1>0, <1>5, <2>1, RequestsAskable, MakeInv
  <2>3. UNCHANGED <<life, opened, tree>> /\ cache' = cache /\ dirty' = dirty
    BY <1>5 DEF brd_make_request, lifeVars, cacheVars
  <2>4. q.op = r.op
    BY <2>1 DEF MadeRequest, NoIo
  <2>5. io'["app"] = io["app"] /\ \A v \in Users : ~meddled' /\ Harmless(v) => Harmless(v)'
    BY <1>0, <1>5, <2>2, <2>4 DEF Harmless
  <2>6. ActorsOK'
    <3>1. meddled => meddled'
      BY <1>5
    <3>. QED
      BY <1>1, <2>3, <3>1 DEF ActorsOK, driverVars, axisVars
  <2>7. AppWrites'
    BY <2>5 DEF AppWrites
  <2>8. Sent'
    BY <1>1, <1>5, <2>3, <2>5 DEF Sent, Holds, Copying, PageOf, Record
  <2>9. Stored'
    BY <1>1, <1>5, <2>3, <2>5 DEF Stored, Holds, PageOf, Record
  <2>. QED
    BY <1>2, <1>3, <1>5, <2>6, <2>7, <2>8, <2>9
<1>6. CASE /\ brd_ioctl("tool") /\ cache' = [p \in DOMAIN cache |-> NoPage] /\ dirty' = {}
           /\ meddled' = TRUE
  <2>1. io' = [io EXCEPT !["tool"] = FlushRequest]
    BY <1>0, <1>6, FlushInv
  <2>2. UNCHANGED <<life, opened, tree>>
    BY <1>6 DEF brd_ioctl, lifeVars
  <2>3. ActorsOK'
    BY <1>0, <1>1, <1>6, <2>2 DEF ActorsOK, driverVars, axisVars, TreeType
  <2>4. AppWrites'
    BY <1>0, <2>1 DEF AppWrites
  <2>5. Sent' /\ Stored'
    BY <1>6 DEF Sent, Stored
  <2>. QED
    BY <1>2, <1>3, <1>6, <2>3, <2>4, <2>5
<1>. QED
  BY <1>4, <1>5, <1>6 DEF Meddle

\* How long the records are: all of them fit a byte, and the buffer.
LEMMA RecordSizes ==
    ASSUME table \in Tables
    PROVE  \E a \in Nat, b \in Nat, c \in Nat :
            /\ table.BMI160_0 = a /\ table.BMI160_1 = b /\ table.ADXL345 = c
            /\ 19 + 2 * (a + b + c) <= 128
            /\ SizeByte("engine") = 4 /\ SizeByte("BMI160_0") = 5 + 2 * a
            /\ SizeByte("BMI160_1") = 5 + 2 * b /\ SizeByte("ADXL345") = 5 + 2 * c
<1>1. /\ "BMI160_0" \in Contents \ {Zero, "engine"} /\ "BMI160_1" \in Contents \ {Zero, "engine"}
      /\ "ADXL345" \in Contents \ {Zero, "engine"} /\ "engine" # Zero
  BY DevicesAreContents
<1>2. /\ table \in [Contents \ {Zero, "engine"} -> Nat]
      /\ 4 + 3 * 5 + 2 * (table.BMI160_0 + table.BMI160_1 + table.ADXL345) <= 128
  BY ConfigAssumption DEF DMA_BUFFER_ALLOCATION_SIZE
<1>3. PICK a \in Nat : a = table["BMI160_0"]
  BY <1>1, <1>2
<1>4. PICK b \in Nat : b = table["BMI160_1"]
  BY <1>1, <1>2
<1>5. PICK c \in Nat : c = table["ADXL345"]
  BY <1>1, <1>2
<1>6. table.BMI160_0 = a /\ table.BMI160_1 = b /\ table.ADXL345 = c
  BY <1>3, <1>4, <1>5
<1>7. 19 + 2 * (a + b + c) <= 128
  BY <1>2, <1>6
<1>8. \A k \in Nat : 2 * k <= 128 => DeviceSize(k) = 5 + 2 * k
  <2>1. \A m \in Nat : m < 256 => m % 256 = m
    OBVIOUS
  <2>2. ASSUME NEW k \in Nat, 2 * k <= 128 PROVE DeviceSize(k) = 5 + 2 * k
    <3>1. PICK m \in Nat : m = 4 + 2 * k + 1
      OBVIOUS
    <3>2. m < 256 /\ m = 5 + 2 * k
      BY <2>2, <3>1
    <3>. QED
      BY <2>1, <3>1, <3>2 DEF DeviceSize
  <2>. QED
    BY <2>2
<1>9. 2 * a <= 128 /\ 2 * b <= 128 /\ 2 * c <= 128
  BY <1>7
<1>10. SizeByte("engine") = 4
  BY <1>1 DEF SizeByte, HEADER_SIZE
<1>11. /\ SizeByte("BMI160_0") = DeviceSize(a) /\ SizeByte("BMI160_1") = DeviceSize(b)
       /\ SizeByte("ADXL345") = DeviceSize(c)
  BY <1>1, <1>3, <1>4, <1>5 DEF SizeByte
<1>. QED
  BY <1>6, <1>7, <1>8, <1>9, <1>10, <1>11

\* One more at the end.
LEMMA Appended ==
    ASSUME NEW S, NEW a \in S, NEW b \in S, NEW c \in S, NEW d \in S
    PROVE  /\ <<>> \o <<a>> = <<a>> /\ <<a>> \o <<b>> = <<a, b>>
           /\ <<a, b>> \o <<c>> = <<a, b, c>> /\ <<a, b, c>> \o <<d>> = <<a, b, c, d>>
           /\ <<a>> \o <<b, c, d>> = <<a, b, c, d>>
<1>1. <<>> \o <<a>> = <<a>>
  BY ConcatEmptySeq, <<a>> \in Seq(S)
<1>2. <<a>> \o <<b>> = <<a, b>>
  <2>0. <<a>> \in Seq(S) /\ <<b>> \in Seq(S) /\ <<a, b>> \in Seq(S)
    OBVIOUS
  <2>1. PICK s \in Seq(S) : s = <<a>>
    BY <2>0
  <2>2. PICK e \in Seq(S) : e = <<b>>
    BY <2>0
  <2>3. PICK t \in Seq(S) : t = <<a, b>>
    BY <2>0
  <2>4. /\ s \o e \in Seq(S) /\ Len(s \o e) = Len(s) + Len(e)
        /\ \A i \in 1 .. Len(s) + Len(e) : (s \o e)[i] = IF i <= Len(s) THEN s[i] ELSE e[i - Len(s)]
    BY ConcatProperties
  <2>5. PICK q \in Seq(S) : q = s \o e
    BY <2>4
  <2>6. Len(s) = 1 /\ Len(e) = 1 /\ Len(t) = 2
    BY <2>1, <2>2, <2>3
  <2>7. \A i \in 1 .. 2 : q[i] = IF i <= 1 THEN s[i] ELSE e[i - 1]
    BY <2>4, <2>5, <2>6
  <2>8. q[1] = a /\ q[2] = b
    BY <2>1, <2>2, <2>7
  <2>9. t[1] = a /\ t[2] = b
    BY <2>3
  <2>10. \A i \in 1 .. 2 : q[i] = t[i]
    BY <2>8, <2>9
  <2>11. Len(q) = 2
    BY <2>4, <2>5, <2>6
  <2>12. q = t
    BY <2>6, <2>10, <2>11, SeqEqual
  <2>. QED
    BY <2>1, <2>2, <2>3, <2>5, <2>12
<1>3. <<a, b>> \o <<c>> = <<a, b, c>>
  <2>0. <<a, b>> \in Seq(S) /\ <<c>> \in Seq(S) /\ <<a, b, c>> \in Seq(S)
    OBVIOUS
  <2>1. PICK s \in Seq(S) : s = <<a, b>>
    BY <2>0
  <2>2. PICK e \in Seq(S) : e = <<c>>
    BY <2>0
  <2>3. PICK t \in Seq(S) : t = <<a, b, c>>
    BY <2>0
  <2>4. /\ s \o e \in Seq(S) /\ Len(s \o e) = Len(s) + Len(e)
        /\ \A i \in 1 .. Len(s) + Len(e) : (s \o e)[i] = IF i <= Len(s) THEN s[i] ELSE e[i - Len(s)]
    BY ConcatProperties
  <2>5. PICK q \in Seq(S) : q = s \o e
    BY <2>4
  <2>6. Len(s) = 2 /\ Len(e) = 1 /\ Len(t) = 3
    BY <2>1, <2>2, <2>3
  <2>7. \A i \in 1 .. 3 : q[i] = IF i <= 2 THEN s[i] ELSE e[i - 2]
    BY <2>4, <2>5, <2>6
  <2>8. q[1] = a /\ q[2] = b /\ q[3] = c
    BY <2>1, <2>2, <2>7
  <2>9. t[1] = a /\ t[2] = b /\ t[3] = c
    BY <2>3
  <2>10. \A i \in 1 .. 3 : q[i] = t[i]
    BY <2>8, <2>9
  <2>11. Len(q) = 3
    BY <2>4, <2>5, <2>6
  <2>12. q = t
    BY <2>6, <2>10, <2>11, SeqEqual
  <2>. QED
    BY <2>1, <2>2, <2>3, <2>5, <2>12
<1>4. <<a, b, c>> \o <<d>> = <<a, b, c, d>>
  <2>0. <<a, b, c>> \in Seq(S) /\ <<d>> \in Seq(S) /\ <<a, b, c, d>> \in Seq(S)
    OBVIOUS
  <2>1. PICK s \in Seq(S) : s = <<a, b, c>>
    BY <2>0
  <2>2. PICK e \in Seq(S) : e = <<d>>
    BY <2>0
  <2>3. PICK t \in Seq(S) : t = <<a, b, c, d>>
    BY <2>0
  <2>4. /\ s \o e \in Seq(S) /\ Len(s \o e) = Len(s) + Len(e)
        /\ \A i \in 1 .. Len(s) + Len(e) : (s \o e)[i] = IF i <= Len(s) THEN s[i] ELSE e[i - Len(s)]
    BY ConcatProperties
  <2>5. PICK q \in Seq(S) : q = s \o e
    BY <2>4
  <2>6. Len(s) = 3 /\ Len(e) = 1 /\ Len(t) = 4
    BY <2>1, <2>2, <2>3
  <2>7. \A i \in 1 .. 4 : q[i] = IF i <= 3 THEN s[i] ELSE e[i - 3]
    BY <2>4, <2>5, <2>6
  <2>8. q[1] = a /\ q[2] = b /\ q[3] = c /\ q[4] = d
    BY <2>1, <2>2, <2>7
  <2>9. t[1] = a /\ t[2] = b /\ t[3] = c /\ t[4] = d
    BY <2>3
  <2>10. \A i \in 1 .. 4 : q[i] = t[i]
    BY <2>8, <2>9
  <2>11. Len(q) = 4
    BY <2>4, <2>5, <2>6
  <2>12. q = t
    BY <2>6, <2>10, <2>11, SeqEqual
  <2>. QED
    BY <2>1, <2>2, <2>3, <2>5, <2>12
<1>5. <<a>> \o <<b, c, d>> = <<a, b, c, d>>
  <2>0. <<a>> \in Seq(S) /\ <<b, c, d>> \in Seq(S) /\ <<a, b, c, d>> \in Seq(S)
    OBVIOUS
  <2>1. PICK s \in Seq(S) : s = <<a>>
    BY <2>0
  <2>2. PICK e \in Seq(S) : e = <<b, c, d>>
    BY <2>0
  <2>3. PICK t \in Seq(S) : t = <<a, b, c, d>>
    BY <2>0
  <2>4. /\ s \o e \in Seq(S) /\ Len(s \o e) = Len(s) + Len(e)
        /\ \A i \in 1 .. Len(s) + Len(e) : (s \o e)[i] = IF i <= Len(s) THEN s[i] ELSE e[i - Len(s)]
    BY ConcatProperties
  <2>5. PICK q \in Seq(S) : q = s \o e
    BY <2>4
  <2>6. Len(s) = 1 /\ Len(e) = 3 /\ Len(t) = 4
    BY <2>1, <2>2, <2>3
  <2>7. \A i \in 1 .. 4 : q[i] = IF i <= 1 THEN s[i] ELSE e[i - 1]
    BY <2>4, <2>5, <2>6
  <2>8. q[1] = a /\ q[2] = b /\ q[3] = c /\ q[4] = d
    BY <2>1, <2>2, <2>7
  <2>9. t[1] = a /\ t[2] = b /\ t[3] = c /\ t[4] = d
    BY <2>3
  <2>10. \A i \in 1 .. 4 : q[i] = t[i]
    BY <2>8, <2>9
  <2>11. Len(q) = 4
    BY <2>4, <2>5, <2>6
  <2>12. q = t
    BY <2>6, <2>10, <2>11, SeqEqual
  <2>. QED
    BY <2>1, <2>2, <2>3, <2>5, <2>12
<1>. QED
  BY <1>1, <1>2, <1>3, <1>4, <1>5

\* The records one after another.
LEMMA RecordsAppended ==
    /\ <<>> \o <<"engine">> = <<"engine">>
    /\ <<"engine">> \o <<"BMI160_0">> = <<"engine", "BMI160_0">>
    /\ <<"engine", "BMI160_0">> \o <<"BMI160_1">> = <<"engine", "BMI160_0", "BMI160_1">>
    /\ <<"engine", "BMI160_0", "BMI160_1">> \o <<"ADXL345">>
            = <<"engine", "BMI160_0", "BMI160_1", "ADXL345">>
    /\ <<"engine">> \o Devices = <<"engine", "BMI160_0", "BMI160_1", "ADXL345">>
<1>1. PICK a \in Contents : a = "engine"
  BY DevicesAreContents
<1>2. PICK b \in Contents : b = "BMI160_0"
  BY DevicesAreContents
<1>3. PICK c \in Contents : c = "BMI160_1"
  BY DevicesAreContents
<1>4. PICK d \in Contents : d = "ADXL345"
  BY DevicesAreContents
<1>5. /\ <<>> \o <<a>> = <<a>> /\ <<a>> \o <<b>> = <<a, b>>
      /\ <<a, b>> \o <<c>> = <<a, b, c>> /\ <<a, b, c>> \o <<d>> = <<a, b, c, d>>
      /\ <<a>> \o <<b, c, d>> = <<a, b, c, d>>
  BY Appended
<1>6. Devices = <<b, c, d>>
  BY <1>2, <1>3, <1>4 DEF Devices
<1>. QED
  BY <1>1, <1>2, <1>3, <1>4, <1>5, <1>6

\* One sector more in the buffer of the transfer.
LEMMA SectorPrepared ==
    ASSUME table \in Tables, DriverShape, prepareTransfer, sector \in mapped,
           Holds(tree, sector), payloadBytes = 0 \/ sector = 0,
           sector > 0 => Assembled(sector)
    PROVE  /\ rxData' = Records(sector + 1) /\ configBytesAmount' = Bytes(sector + 1)
           /\ payloadBytes' = IF sector = 3 THEN 2 * Registers ELSE 0
<1>1. PICK a \in Nat, b \in Nat, c \in Nat :
            /\ table.BMI160_0 = a /\ table.BMI160_1 = b /\ table.ADXL345 = c
            /\ 19 + 2 * (a + b + c) <= 128
            /\ SizeByte("engine") = 4 /\ SizeByte("BMI160_0") = 5 + 2 * a
            /\ SizeByte("BMI160_1") = 5 + 2 * b /\ SizeByte("ADXL345") = 5 + 2 * c
  BY RecordSizes
<1>2. sector \in 0 .. 3
  BY DEF DriverShape
<1>3. PICK x : x = Record(sector) /\ x # Zero
  BY <1>2, RecordPlaces
<1>4. (IF tree[PageOf(sector)] = NoPage THEN Zero ELSE OnPage(tree, sector)) = x
  BY <1>3 DEF Holds, OnPage
<1>5. PICK bytes : bytes = (BytesBefore + SizeByte(x)) % 256
  OBVIOUS
<1>6. /\ configBytesAmount' = bytes
      /\ rxData' = (IF BytesBefore = 0 THEN <<>> ELSE rxData) \o <<x>>
      /\ payloadBytes' = IF sector = 3 THEN Payload(payloadBytes + bytes)
                         ELSE IF sector = 0 THEN 0 ELSE payloadBytes
  <2>1. PICK content :
          content = IF tree[PageOf(sector)] = NoPage THEN Zero ELSE OnPage(tree, sector)
    OBVIOUS
  <2>2. content = x
    BY <1>4, <2>1
  <2>3. PICK sum : sum = (BytesBefore + SizeByte(content)) % 256
    OBVIOUS
  <2>4. sum = bytes
    BY <1>5, <2>2, <2>3
  <2>5. /\ configBytesAmount' = sum
        /\ rxData' = (IF BytesBefore = 0 THEN <<>> ELSE rxData)
                            \o (IF content = Zero THEN <<>> ELSE <<content>>)
        /\ payloadBytes' = IF sector = SECTOR_AMOUNT - 1 THEN Payload(payloadBytes + sum)
                           ELSE IF sector = SECTOR_ENGINE THEN 0 ELSE payloadBytes
    BY <2>1, <2>3 DEF prepareTransfer
  <2>6. sector = SECTOR_AMOUNT - 1 <=> sector = 3
    BY SectorNumbers
  <2>7. sector = SECTOR_ENGINE <=> sector = 0
    BY SectorNumbers
  <2>. QED
    BY <1>3, <2>2, <2>4, <2>5, <2>6, <2>7
<1>7. /\ <<>> \o <<"engine">> = <<"engine">>
       /\ <<"engine">> \o <<"BMI160_0">> = <<"engine", "BMI160_0">>
       /\ <<"engine", "BMI160_0">> \o <<"BMI160_1">> = <<"engine", "BMI160_0", "BMI160_1">>
       /\ <<"engine", "BMI160_0", "BMI160_1">> \o <<"ADXL345">>
            = <<"engine", "BMI160_0", "BMI160_1", "ADXL345">>
  BY RecordsAppended
<1>8. \A m \in Nat : m < 256 => m % 256 = m
  OBVIOUS
<1>9. CASE sector = 0
  <2>1. BytesBefore = 0 /\ x = "engine"
    BY <1>3, <1>9, RecordPlaces, SectorNumbers DEF BytesBefore
  <2>2. bytes = 4
    BY <1>1, <1>5, <1>8, <2>1
  <2>3. rxData' = <<"engine">>
    BY <1>6, <1>7, <2>1
  <2>4. Records(sector + 1) = <<"engine">> /\ Bytes(sector + 1) = 4
    BY <1>9 DEF Records, Bytes
  <2>. QED
    BY <1>6, <1>9, <2>2, <2>3, <2>4
<1>10. CASE sector = 1
  <2>1. BytesBefore = 4 /\ x = "BMI160_0" /\ rxData = <<"engine">>
    BY <1>3, <1>10, RecordPlaces, SectorNumbers DEF BytesBefore, Assembled, Records, Bytes
  <2>2. bytes = 9 + 2 * a
    <3>1. PICK m \in Nat : m = 4 + (5 + 2 * a) /\ m < 256
      BY <1>1
    <3>. QED
      BY <1>1, <1>5, <1>8, <2>1, <3>1
  <2>3. rxData' = <<"engine", "BMI160_0">>
    <3>1. (IF BytesBefore = 0 THEN <<>> ELSE rxData) = <<"engine">>
      BY <2>1
    <3>. QED
      BY <1>6, <1>7, <2>1, <3>1
  <2>4. Records(sector + 1) = <<"engine", "BMI160_0">> /\ Bytes(sector + 1) = 9 + 2 * a
    BY <1>1, <1>10 DEF Records, Bytes
  <2>. QED
    BY <1>6, <1>10, <2>2, <2>3, <2>4
<1>11. CASE sector = 2
  <2>1. BytesBefore = 9 + 2 * a /\ x = "BMI160_1" /\ rxData = <<"engine", "BMI160_0">>
    BY <1>1, <1>3, <1>11, RecordPlaces, SectorNumbers DEF BytesBefore, Assembled, Records, Bytes
  <2>2. bytes = 14 + 2 * (a + b)
    <3>1. PICK m \in Nat : m = (9 + 2 * a) + (5 + 2 * b) /\ m < 256 /\ m = 14 + 2 * (a + b)
      BY <1>1
    <3>. QED
      BY <1>1, <1>5, <1>8, <2>1, <3>1
  <2>3. rxData' = <<"engine", "BMI160_0", "BMI160_1">>
    <3>1. BytesBefore # 0
      BY <1>1, <2>1
    <3>2. (IF BytesBefore = 0 THEN <<>> ELSE rxData) = <<"engine", "BMI160_0">>
      BY <2>1, <3>1
    <3>. QED
      BY <1>6, <1>7, <2>1, <3>2
  <2>4. /\ Records(sector + 1) = <<"engine", "BMI160_0", "BMI160_1">>
        /\ Bytes(sector + 1) = 14 + 2 * (a + b)
    BY <1>1, <1>11 DEF Records, Bytes
  <2>. QED
    BY <1>6, <1>11, <2>2, <2>3, <2>4
<1>12. CASE sector = 3
  <2>1. /\ BytesBefore = 14 + 2 * (a + b) /\ x = "ADXL345"
        /\ rxData = <<"engine", "BMI160_0", "BMI160_1">>
    BY <1>1, <1>3, <1>12, RecordPlaces, SectorNumbers DEF BytesBefore, Assembled, Records, Bytes
  <2>2. bytes = 19 + 2 * (a + b + c)
    <3>1. PICK m \in Nat : /\ m = (14 + 2 * (a + b)) + (5 + 2 * c) /\ m < 256
                           /\ m = 19 + 2 * (a + b + c)
      BY <1>1
    <3>. QED
      BY <1>1, <1>5, <1>8, <2>1, <3>1
  <2>3. rxData' = <<"engine", "BMI160_0", "BMI160_1", "ADXL345">>
    <3>1. BytesBefore # 0
      BY <1>1, <2>1
    <3>2. (IF BytesBefore = 0 THEN <<>> ELSE rxData) = <<"engine", "BMI160_0", "BMI160_1">>
      BY <2>1, <3>1
    <3>. QED
      BY <1>6, <1>7, <2>1, <3>2
  <2>4. Registers = a + b + c
    BY <1>1 DEF Registers
  <2>5. /\ Records(sector + 1) = <<"engine", "BMI160_0", "BMI160_1", "ADXL345">>
        /\ Bytes(sector + 1) = 19 + 2 * (a + b + c)
    BY <1>12, <2>4 DEF Records, Bytes
  <2>6. Payload(payloadBytes + bytes) = 2 * (a + b + c)
    <3>1. PICK m \in Nat : m = 2 * (a + b + c) /\ m < 256
      BY <1>1
    <3>2. payloadBytes = 0
      BY <1>12
    <3>3. PICK k \in Nat : k = bytes /\ k = 19 + m
      BY <2>2, <3>1
    <3>4. ((0 + k) - 4) - 5 * (4 - 1) = m
      BY <3>3
    <3>5. Payload(payloadBytes + bytes) = (((0 + k) - 4) - 5 * (4 - 1)) % 256
      BY <3>2, <3>3, SectorNumbers DEF Payload
    <3>. QED
      BY <1>8, <3>1, <3>4, <3>5
  <2>. QED
    BY <1>6, <1>12, <2>2, <2>3, <2>4, <2>5, <2>6
<1>. QED
  BY <1>2, <1>9, <1>10, <1>11, <1>12

\* The driver finds all records on the disk, and puts them together in their order.
LEMMA DriverArrives ==
    ASSUME ConfigInv, ArriveInv, Driver
    PROVE  ArriveInv'
<1>. USE DEF ArriveInv
<1>0. /\ DiskInv /\ AppShape /\ DriverShape /\ "app" \in Users /\ "driver" \in Users
      /\ opened \in [Users -> BOOLEAN] /\ table \in Tables /\ sector \in 0 .. 3
  BY ConfigAssumption DEF ConfigInv, DiskInv, DiskShape, AppShape, DriverShape
<1>1. sends # 0
  BY DEF ActorsOK, Driver, Prepare, GetDevice, PutDevice, ramDiskGetPointer, prepareTransfer,
         destroyTransfer
<1>2. /\ UNCHANGED appVars /\ UNCHANGED <<life, tree, io, dirty, meddled>>
      /\ opened'["app"] = opened["app"]
      /\ cache' = cache \/ CloseCached("driver")
      /\ driver' # "idle" => life = "live"
      /\ (command' => command) /\ (driver = "idle" => Prepare)
  <2>1. CASE Prepare
    BY <2>1 DEF Prepare, brdVars, cacheVars, ToDriver
  <2>2. CASE GetDevice
    <3>1. Open("driver") /\ UNCHANGED <<appVars, cacheVars, command, meddled>> /\ driver = "get"
      BY <2>2 DEF GetDevice
    <3>2. UNCHANGED <<life, tree, io>> /\ opened' = [opened EXCEPT !["driver"] = TRUE]
      BY <3>1 DEF Open, lifeVars
    <3>3. opened'["app"] = opened["app"]
      BY <1>0, <3>2
    <3>. QED
      BY <3>1, <3>2, <3>3 DEF cacheVars, ActorsOK
  <2>3. CASE PutDevice
    <3>1. /\ CloseCached("driver") /\ UNCHANGED <<appVars, dirty, command, meddled>>
          /\ driver = "put"
      BY <2>3 DEF PutDevice, CloseCached
    <3>2. UNCHANGED <<life, tree, io>> /\ opened' = [opened EXCEPT !["driver"] = FALSE]
      BY <3>1 DEF CloseCached, Close, lifeVars
    <3>3. opened'["app"] = opened["app"]
      BY <1>0, <3>2
    <3>. QED
      BY <3>1, <3>2, <3>3 DEF ActorsOK
  <2>4. CASE ramDiskGetPointer
    BY <2>4 DEF ramDiskGetPointer, brdVars, cacheVars, ActorsOK
  <2>5. CASE prepareTransfer
    BY <2>5 DEF prepareTransfer, brdVars, cacheVars, ActorsOK
  <2>6. CASE destroyTransfer
    BY <2>6 DEF destroyTransfer, brdVars, cacheVars, ActorsOK
  <2>. QED
    BY <2>1, <2>2, <2>3, <2>4, <2>5, <2>6 DEF Driver
<1>3. /\ app' = app /\ sends' = sends /\ next' = next /\ configs' = configs /\ table' = table
      /\ Written' = Written
  BY <1>2 DEF appVars, Written
<1>4. ConfigsOK'
  BY <1>3 DEF ConfigsOK
<1>5. ActorsOK'
  BY <1>1, <1>2, <1>3 DEF ActorsOK
<1>6. AppWrites'
  BY <1>2 DEF AppWrites
<1>7. Sent'
  <2>1. CASE opened["app"]
    <3>1. UNCHANGED <<cache, dirty, tree, io>>
      BY <1>0, <1>2, <2>1, CloseLeavesCache
    <3>. QED
      BY <1>2, <1>3, <3>1, SentStays
  <2>2. CASE ~opened["app"]
    <3>1. Written' = {}
      BY <1>3, <2>2 DEF Written, ActorsOK
    <3>. QED
      BY <3>1 DEF Sent
  <2>. QED
    BY <2>1, <2>2
<1>8. Stored'
  BY <1>2, <1>3 DEF Stored, Harmless, Holds, PageOf, Record
<1>9. Transferred'
  <2>. SUFFICES ASSUME app = "idle", ~meddled, ~command', sends > 0
                PROVE  /\ driver' \in {"get", "put", "lookup"} =>
                            0 .. sector' - 1 \subseteq mapped' /\ depth' = sector'
                       /\ driver' = "prepare" =>
                            /\ mapped' = 0 .. 3 /\ depth' = 4
                            /\ sector' > 0 => /\ rxData' = Records(sector')
                                              /\ configBytesAmount' = Bytes(sector')
                                              /\ payloadBytes' = 0
                       /\ driver' = "destroy" => Whole' /\ depth' = 4 - sector'
                       /\ driver' = "idle" => Whole' /\ depth' = 0
    BY <1>2, <1>3 DEF Transferred, Assembled, Records, Bytes, Registers
  <2>1. CASE Prepare
    <3>1. driver' = "get" /\ sector' = 0 /\ depth' = 0
      BY <2>1 DEF Prepare, ToDriver
    <3>2. 0 .. sector' - 1 = {}
      BY <3>1
    <3>. QED
      BY <3>1, <3>2
  <2>2. CASE ~Prepare
    <3>1. command' = command /\ driver # "idle" /\ life = "live"
      BY <1>2, <2>2 DEF ActorsOK, Driver, GetDevice, PutDevice, ramDiskGetPointer, prepareTransfer,
                        destroyTransfer
    <3>2. /\ driver \in {"get", "put", "lookup"} =>
                0 .. sector - 1 \subseteq mapped /\ depth = sector
          /\ driver = "prepare" =>
                /\ mapped = 0 .. 3 /\ depth = 4
                /\ sector > 0 => Assembled(sector) /\ payloadBytes = 0
          /\ driver = "destroy" => Whole /\ depth = 4 - sector
      BY <3>1 DEF Transferred
    <3>3. Holds(tree, sector)
      BY <1>0, <3>1 DEF Stored
    <3>4. CASE GetDevice \/ PutDevice
      <4>1. /\ driver \in {"get", "put"} /\ driver' \in {"put", "lookup"} /\ sector' = sector
            /\ depth' = depth /\ mapped' = mapped
        BY <3>4 DEF GetDevice, PutDevice, ToDriver
      <4>. QED
        BY <3>2, <4>1
    <3>5. CASE ramDiskGetPointer
      <4>1. driver = "lookup" /\ mapped' = mapped \cup {sector} /\ depth' = depth + 1
            /\ NextSector("get", "prepare")
        BY <3>3, <3>5 DEF ramDiskGetPointer, Holds
      <4>2. 0 .. sector - 1 \subseteq mapped /\ depth = sector /\ mapped \subseteq 0 .. 3
        BY <1>0, <3>2, <4>1 DEF DriverShape
      <4>3. CASE sector < 3
        <5>1. driver' = "get" /\ sector' = sector + 1
          BY <1>0, <4>1, <4>3, NextSectorType
        <5>2. depth' = sector'
          BY <4>1, <4>2, <5>1
        <5>3. 0 .. sector' - 1 \subseteq mapped'
          <6>1. \A i \in 0 .. sector' - 1 : i \in 0 .. sector - 1 \/ i = sector
            BY <1>0, <5>1
          <6>. QED
            BY <4>1, <4>2, <6>1
        <5>. QED
          BY <5>1, <5>2, <5>3
      <4>4. CASE sector = 3
        <5>1. driver' = "prepare" /\ sector' = 0
          BY <1>0, <4>1, <4>4, NextSectorType
        <5>2. depth' = 4
          BY <4>1, <4>2, <4>4
        <5>3. mapped' = 0 .. 3
          <6>1. \A i \in 0 .. 3 : i \in 0 .. sector - 1 \/ i = sector
            BY <4>4
          <6>. QED
            BY <1>0, <4>1, <4>2, <6>1
        <5>. QED
          BY <5>1, <5>2, <5>3
      <4>. QED
        BY <1>0, <4>3, <4>4
    <3>6. CASE prepareTransfer
      <4>1. /\ driver = "prepare" /\ mapped' = mapped /\ depth' = depth
            /\ NextSector("prepare", "destroy")
        BY <3>6 DEF prepareTransfer
      <4>2. mapped = 0 .. 3 /\ depth = 4 /\ (sector > 0 => Assembled(sector) /\ payloadBytes = 0)
        BY <3>2, <4>1
      <4>3. sector \in mapped /\ (payloadBytes = 0 \/ sector = 0)
        BY <1>0, <4>2
      <4>4. /\ rxData' = Records(sector + 1) /\ configBytesAmount' = Bytes(sector + 1)
            /\ payloadBytes' = IF sector = 3 THEN 2 * Registers ELSE 0
        BY <1>0, <3>3, <3>6, <4>2, <4>3, SectorPrepared
      <4>5. CASE sector < 3
        <5>1. driver' = "prepare" /\ sector' = sector + 1
          BY <1>0, <4>1, <4>5, NextSectorType
        <5>. QED
          BY <4>1, <4>2, <4>4, <4>5, <5>1
      <4>6. CASE sector = 3
        <5>1. driver' = "destroy" /\ sector' = 0
          BY <1>0, <4>1, <4>6, NextSectorType
        <5>2. Whole'
          BY <1>3, <4>4, <4>6 DEF Whole, Assembled, Records, Bytes, Registers
        <5>. QED
          BY <4>1, <4>2, <5>1, <5>2
      <4>. QED
        BY <1>0, <4>5, <4>6
    <3>7. CASE destroyTransfer
      <4>1. /\ driver = "destroy" /\ depth' = depth - 1 /\ UNCHANGED axisVars
            /\ NextSector("destroy", "idle")
        BY <3>7 DEF destroyTransfer, Released
      <4>2. Whole /\ depth = 4 - sector
        BY <3>2, <4>1
      <4>3. Whole'
        BY <1>3, <4>1, <4>2 DEF Whole, Assembled, Records, Bytes, Registers, axisVars
      <4>4. CASE sector < 3
        <5>1. driver' = "destroy" /\ sector' = sector + 1
          BY <1>0, <4>1, <4>4, NextSectorType
        <5>2. depth' = 4 - sector'
          BY <1>0, <4>1, <4>2, <5>1
        <5>. QED
          BY <4>3, <5>1, <5>2
      <4>5. CASE sector = 3
        <5>1. driver' = "idle" /\ sector' = 0
          BY <1>0, <4>1, <4>5, NextSectorType
        <5>2. depth' = 0
          BY <4>1, <4>2, <4>5
        <5>. QED
          BY <4>3, <5>1, <5>2
      <4>. QED
        BY <1>0, <4>4, <4>5
    <3>. QED
      BY <2>2, <3>4, <3>5, <3>6, <3>7 DEF Driver
  <2>. QED
    BY <2>1, <2>2
<1>. QED
  BY <1>4, <1>5, <1>6, <1>7, <1>8, <1>9

\* Every step keeps it.
LEMMA ArriveStep ==
    ASSUME ConfigInv, ArriveInv, [Next]_vars
    PROVE  ArriveInv'
<1>1. CASE UNCHANGED vars
  <2>1. /\ UNCHANGED brdVars /\ UNCHANGED appVars /\ UNCHANGED cacheVars /\ UNCHANGED driverVars
        /\ meddled' = meddled
    BY <1>1 DEF vars
  <2>2. UNCHANGED <<life, opened, tree, io, cache, dirty>> /\ Written' = Written
    BY <2>1 DEF brdVars, appVars, cacheVars, Written
  <2>3. ConfigsOK' /\ AppWrites'
    BY <2>1, <2>2 DEF ArriveInv, ConfigsOK, AppWrites, appVars
  <2>4. ActorsOK'
    BY <2>1, <2>2 DEF ArriveInv, ActorsOK, appVars, driverVars, axisVars
  <2>5. Sent'
    BY <2>1, <2>2, SentStays DEF ArriveInv
  <2>6. Stored'
    BY <2>1, <2>2 DEF ArriveInv, Stored, appVars, Harmless, Holds, PageOf, Record
  <2>7. Transferred'
    BY <2>1 DEF ArriveInv, Transferred, appVars, driverVars, axisVars, Whole, Assembled, Records,
                Bytes, Registers
  <2>. QED
    BY <2>3, <2>4, <2>5, <2>6, <2>7 DEF ArriveInv
<1>2. CASE (Lifecycle \/ brd_probe(Amount)) /\ Rest
  BY <1>2, LifeArrives
<1>3. CASE Unload /\ driver = "idle" /\ Rest
  BY <1>3, LifeArrives
<1>4. CASE SendOpen
  BY <1>4, SendOpenArrives
<1>5. CASE SendUnopened \/ SendEngine \/ SendEngineFails \/ SendDevice \/ SendDeviceFails \/ SendAll
  BY <1>5, SendArrives
<1>6. CASE SendClose \/ SendCommand
  BY <1>6, CloseArrives
<1>7. CASE Driver
  BY <1>7, DriverArrives
<1>8. CASE Meddle /\ UNCHANGED <<appVars, driverVars>>
  BY <1>8, MeddleArrives
<1>9. ASSUME NEW u \in Users, RequestStep(u) \/ SyncBeforeClose(u) PROVE ArriveInv'
  BY <1>9, RequestArrives, SyncArrives
<1>. QED
  BY <1>1, <1>2, <1>3, <1>4, <1>5, <1>6, <1>7, <1>8, <1>9 DEF Next

\* It holds at first.
LEMMA ArriveInit == Init => ArriveInv
<1>. SUFFICES ASSUME Init PROVE ArriveInv
  OBVIOUS
<1>0. "app" \in Users
  BY ConfigAssumption
<1>1. /\ configs = <<>> /\ app = "idle" /\ next = 0 /\ sends = 0 /\ driver = "idle"
      /\ ~command /\ ~payloadReady /\ dirty = {} /\ cache = [p \in 0 .. Pages - 1 |-> NoPage]
      /\ ~opened["app"] /\ io["app"] = NoIo
  BY <1>0 DEF Init, BrdInit
<1>2. ConfigsOK /\ ActorsOK
  BY <1>1 DEF ConfigsOK, ActorsOK
<1>3. AppWrites
  BY <1>1, NoRequest DEF AppWrites
<1>4. Sent /\ Stored /\ Transferred
  BY <1>1 DEF Sent, Written, Stored, Transferred
<1>. QED
  BY <1>2, <1>3, <1>4 DEF ArriveInv

\* The configuration that was sent undisturbed is the one that the driver
\* transfers, whole and in its order, and the pages it mapped are given back.
THEOREM ConfigurationArrives == Spec => []ConfigArrives
<1>1. ConfigInv /\ ArriveInv => ConfigArrives
  <2>. SUFFICES ASSUME ConfigInv, ArriveInv, driver = "idle", payloadReady, ~command, app = "idle",
                       ~meddled
                PROVE  /\ rxData = <<"engine">> \o Devices
                       /\ configBytesAmount = 4 + 2 * Registers + 3 * 5
                       /\ payloadBytes = 2 * Registers /\ depth = 0
    BY DEF ConfigArrives
  <2>1. sends > 0
    BY DEF ArriveInv, ActorsOK, ConfigInv, AppShape
  <2>2. Whole /\ depth = 0
    BY <2>1 DEF ArriveInv, Transferred
  <2>3. rxData = <<"engine", "BMI160_0", "BMI160_1", "ADXL345">>
    BY <2>2 DEF Whole, Assembled, Records
  <2>4. <<"engine">> \o Devices = <<"engine", "BMI160_0", "BMI160_1", "ADXL345">>
    BY RecordsAppended
  <2>5. configBytesAmount = 19 + 2 * Registers
    BY <2>2 DEF Whole, Assembled, Bytes
  <2>6. PICK k \in Nat : k = Registers
    BY RecordSizes DEF ConfigInv, AppShape, Registers
  <2>7. configBytesAmount = 4 + 2 * Registers + 3 * 5
    BY <2>5, <2>6
  <2>. QED
    BY <2>2, <2>3, <2>4, <2>7 DEF Whole
<1>2. Init => ArriveInv
  BY ArriveInit
<1>3. ConfigInv /\ ArriveInv /\ [Next]_vars => ArriveInv'
  BY ArriveStep
<1>4. Spec => []ConfigInv
  BY Invariance
<1>. QED
  BY <1>1, <1>2, <1>3, <1>4, PTL DEF Spec
=============================================================================
