-------------------------- MODULE MarketPrice_proofs --------------------------
(***************************************************************************)
(* What the price server knows, proved for all markets, klines and faults. *)
(***************************************************************************)
EXTENDS MarketPrice, FiniteSetTheorems, SequenceTheorems, TLAPS

(* Numbers.                                                                *)

LEMMA ProductNat == \A x, y \in Nat : x * y \in Nat
  OBVIOUS

LEMMA ProductMonotone ==
  ASSUME NEW u \in Nat, NEW x \in Int, NEW y \in Int, x <= y
  PROVE  x * u <= y * u
  <1>1. PICK d \in Nat : y = x + d
    <2>1. y - x \in Nat /\ y = x + (y - x)
      OBVIOUS
    <2>2. QED
      BY <2>1
  <1>2. y * u = x * u + d * u
    BY <1>1
  <1>3. d * u \in Nat /\ x * u \in Int
    BY ProductNat
  <1>4. QED
    BY <1>2, <1>3

(* What Down takes away is less than a unit.                               *)
LEMMA DownBounds ==
  ASSUME NEW x \in Int, NEW u \in Nat \ {0}
  PROVE  /\ x \div u \in Int /\ Down(x, u) \in Int
         /\ Down(x, u) <= x /\ x < Down(x, u) + u
         /\ x \in Nat => Down(x, u) \in Nat
  <1>1. x \div u \in Int /\ x = u * (x \div u) + (x % u) /\ 0 <= x % u /\ x % u < u
    OBVIOUS
  <1>2. Down(x, u) = u * (x \div u)
    BY <1>1 DEF Down
  <1>3. x \in Nat => x \div u \in Nat
    OBVIOUS
  <1>4. QED
    BY <1>1, <1>2, <1>3, ProductNat

(* The unit that x is in begins where Down says, and nowhere else.         *)
LEMMA DownIs ==
  ASSUME NEW x \in Int, NEW u \in Nat \ {0}, NEW n \in Int
  PROVE  n * u <= x /\ x < n * u + u <=> Down(x, u) = n * u
  <1> DEFINE q == x \div u
  <1>1. q \in Int /\ Down(x, u) = q * u /\ q * u <= x /\ x < q * u + u
    BY DownBounds DEF Down
  <1> HIDE DEF q
  <1>2. ASSUME n * u <= x, x < n * u + u
        PROVE  n = q
    <2>1. ~(n < q)
      <3>1. SUFFICES ASSUME n < q PROVE FALSE
        OBVIOUS
      <3>2. (n + 1) * u <= q * u
        BY <1>1, <3>1, ProductMonotone
      <3>3. (n + 1) * u = n * u + u
        OBVIOUS
      <3>4. n * u \in Int /\ q * u \in Int
        BY <1>1
      <3>5. QED
        BY <1>1, <1>2, <3>2, <3>3, <3>4
    <2>2. ~(q < n)
      <3>1. SUFFICES ASSUME q < n PROVE FALSE
        OBVIOUS
      <3>2. (q + 1) * u <= n * u
        BY <1>1, <3>1, ProductMonotone
      <3>3. (q + 1) * u = q * u + u
        BY <1>1
      <3>4. n * u \in Int /\ q * u \in Int
        BY <1>1
      <3>5. QED
        BY <1>1, <1>2, <3>2, <3>3, <3>4
    <2>3. QED
      BY <1>1, <2>1, <2>2
  <1>3. QED
    BY <1>1, <1>2

LEMMA DownMonotone ==
  ASSUME NEW u \in Nat \ {0}, NEW x \in Int, NEW y \in Int, x <= y
  PROVE  Down(x, u) <= Down(y, u)
  <1>1. x \div u \in Int /\ y \div u \in Int /\ Down(x, u) <= x /\ y < Down(y, u) + u
    BY DownBounds
  <1>2. SUFFICES ASSUME y \div u < x \div u PROVE FALSE
    <2>1. (x \div u) <= (y \div u) => (x \div u) * u <= (y \div u) * u
      BY <1>1, ProductMonotone
    <2>2. QED
      BY <1>1, <1>2, <2>1 DEF Down
  <1>3. ((y \div u) + 1) * u <= (x \div u) * u
    BY <1>1, <1>2, ProductMonotone
  <1>4. ((y \div u) + 1) * u = Down(y, u) + u /\ (x \div u) * u = Down(x, u)
    BY <1>1 DEF Down
  <1>5. Down(x, u) \in Int /\ Down(y, u) \in Int
    BY DownBounds
  <1>6. QED
    BY <1>1, <1>3, <1>4, <1>5

LEMMA MinMaxOfTwo ==
  ASSUME NEW a \in Int, NEW b \in Int
  PROVE  /\ Min({a, b}) = IF a <= b THEN a ELSE b
         /\ Max({a, b}) = IF a <= b THEN b ELSE a
  BY DEF Min, Max

LEMMA MinMaxIs ==
  ASSUME NEW S, S \subseteq Int, NEW a \in S
  PROVE  /\ (\A x \in S : a <= x) => Min(S) = a
         /\ (\A x \in S : x <= a) => Max(S) = a
  <1>1. ASSUME \A x \in S : a <= x PROVE Min(S) = a
    <2>1. PICK b \in S : b = Min(S) /\ \A x \in S : b <= x
      BY <1>1 DEF Min
    <2>2. a <= b /\ b <= a /\ a \in Int /\ b \in Int
      BY <1>1, <2>1
    <2>3. QED
      BY <2>1, <2>2
  <1>2. ASSUME \A x \in S : x <= a PROVE Max(S) = a
    <2>1. PICK b \in S : b = Max(S) /\ \A x \in S : b >= x
      BY <1>2 DEF Max
    <2>2. a <= b /\ b <= a /\ a \in Int /\ b \in Int
      BY <1>2, <2>1
    <2>3. QED
      BY <2>1, <2>2
  <1>3. QED
    BY <1>1, <1>2

LEMMA UnitNat == \A type \in {"sec", "min", "hour", "day"} : Unit(type) \in Nat \ {0}
  BY KlinesAssumption DEF Unit

LEMMA TypesOf == Types \subseteq {"sec", "min", "hour", "day"}
  BY PriceAssumption

--------------------------------------------------------------------------------
(* Sums.                                                                   *)

(* The units that SumOf counts: those of one argument, and all of them.    *)
UnitsOf(f, x) == {x} \X (1..f[x])
Units(f) == UNION {UnitsOf(f, x) : x \in DOMAIN f}

(* One argument has as many units as its value.                            *)
LEMMA UnitsOfCount ==
  ASSUME NEW f, NEW x, f[x] \in Nat
  PROVE  IsFiniteSet(UnitsOf(f, x)) /\ Cardinality(UnitsOf(f, x)) = f[x]
  <1> DEFINE g == [k \in 1..f[x] |-> <<x, k>>]
  <1>1. g \in Bijection(1..f[x], UnitsOf(f, x))
    BY DEF Bijection, Injection, Surjection, IsInjective, UnitsOf
  <1>2. ExistsBijection(1..f[x], UnitsOf(f, x))
    BY <1>1 DEF ExistsBijection
  <1>3. IsFiniteSet(1..f[x]) /\ Cardinality(1..f[x]) = f[x]
    <2>1. /\ IsFiniteSet(1..f[x])
          /\ Cardinality(1..f[x]) = IF 1 > f[x] THEN 0 ELSE f[x] - 1 + 1
      BY FS_Interval
    <2>2. QED
      BY <2>1
  <1>4. QED
    BY <1>2, <1>3, FS_Bijection

(* There are finitely many units, so a sum is a number.                    *)
LEMMA SumNat ==
  ASSUME NEW S, IsFiniteSet(S), NEW f \in [S -> Nat]
  PROVE  IsFiniteSet(Units(f)) /\ SumOf(f) \in Nat
  <1> DEFINE F == {UnitsOf(f, x) : x \in S}
             g == [x \in S |-> UnitsOf(f, x)]
  <1>1. IsFiniteSet(F)
    <2>1. g \in Surjection(S, F)
      BY DEF Surjection
    <2>2. QED
      BY <2>1, FS_Surjection
  <1>2. \A T \in F : IsFiniteSet(T)
    BY UnitsOfCount
  <1>3. IsFiniteSet(UNION F)
    <2> HIDE DEF F
    <2>1. QED
      BY <1>1, <1>2, FS_UNION
  <1>4. UNION F = Units(f)
    BY DEF Units
  <1>5. SumOf(f) = Cardinality(Units(f))
    BY DEF SumOf, Units, UnitsOf
  <1>6. QED
    BY <1>3, <1>4, <1>5, FS_CardinalityType

(* What f has at x, and f without it.                                      *)
At(f, x) == IF x \in DOMAIN f THEN f[x] ELSE 0
Except(f, x) == [y \in DOMAIN f \ {x} |-> f[y]]

(* A sum is one of its values and the sum of the others.                   *)
LEMMA SumSplit ==
  ASSUME NEW S, IsFiniteSet(S), NEW f \in [S -> Nat], NEW x
  PROVE  /\ SumOf(f) = At(f, x) + SumOf(Except(f, x))
         /\ SumOf(f) \in Nat /\ SumOf(Except(f, x)) \in Nat /\ At(f, x) \in Nat
  <1> DEFINE r == Except(f, x)
             R == S \ {x}
  <1>1. IsFiniteSet(R) /\ r \in [R -> Nat]
    BY FS_Subset DEF Except
  <1>2. /\ IsFiniteSet(Units(f)) /\ SumOf(f) \in Nat
        /\ IsFiniteSet(Units(r)) /\ SumOf(r) \in Nat
    <2> HIDE DEF r, R
    <2>1. QED
      BY <1>1, SumNat
  <1>3. /\ SumOf(f) = Cardinality(Units(f)) /\ SumOf(r) = Cardinality(Units(r))
    BY DEF SumOf, Units, UnitsOf
  <1>4. CASE x \in S
    <2>1. IsFiniteSet(UnitsOf(f, x)) /\ Cardinality(UnitsOf(f, x)) = f[x]
      BY <1>4, UnitsOfCount
    <2>2. Units(f) = UnitsOf(f, x) \cup Units(r)
      <3>1. \A y \in R : UnitsOf(r, y) = UnitsOf(f, y)
        BY DEF Except, UnitsOf
      <3>2. DOMAIN f = S /\ DOMAIN r = R
        BY DEF Except
      <3> HIDE DEF r
      <3>3. Units(r) = UNION {UnitsOf(f, y) : y \in R}
        BY <3>1, <3>2 DEF Units
      <3>4. QED
        BY <1>4, <3>2, <3>3 DEF Units
    <2>3. UnitsOf(f, x) \cap Units(r) = {}
      BY DEF Units, UnitsOf, Except
    <2>4. Cardinality(UnitsOf(f, x) \cap Units(r)) = 0
      BY <2>3, FS_EmptySet
    <2>5. Cardinality(Units(f)) = f[x] + Cardinality(Units(r)) - 0
      <3> HIDE DEF r
      <3>1. QED
        BY <1>2, <2>1, <2>2, <2>4, FS_Union
    <2>6. QED
      BY <1>2, <1>3, <1>4, <2>5 DEF At
  <1>5. CASE x \notin S
    <2>1. r = f
      BY <1>5 DEF Except
    <2>2. QED
      BY <1>2, <1>5, <2>1 DEF At
  <1>6. QED
    BY <1>4, <1>5

(* Nothing adds up to nothing.                                             *)
LEMMA SumEmpty ==
  ASSUME NEW f, DOMAIN f = {}
  PROVE  SumOf(f) = 0
  <1>1. UNION {{x} \X (1..f[x]) : x \in DOMAIN f} = {}
    OBVIOUS
  <1>2. QED
    BY <1>1, FS_EmptySet DEF SumOf

--------------------------------------------------------------------------------
(* Klines.                                                                 *)

MessageSet == [market : Markets, time : Nat, price : Nat, amount : Nat, id : Nat]
KlineSet == [open : Nat, close : Nat, high : Nat, low : Nat, volume : Nat, deal : Nat]

(* D is a finite set of offsets of messages of s.                          *)
Offsets(s, D) == IsFiniteSet(D) /\ D \subseteq Nat /\ \A o \in D : s[o + 1] \in MessageSet

VolumeOf(s, D) == SumOf([o \in D |-> s[o + 1].amount])
WorthOf(s, D) == SumOf([o \in D |-> s[o + 1].amount * s[o + 1].price])

(* No deal of D is missing from k; k has nothing but the deals of D.       *)
AtLeast(s, k, D) ==
    /\ k.volume >= VolumeOf(s, D) /\ k.deal >= WorthOf(s, D)
    /\ \A o \in D : k.low <= s[o + 1].price /\ s[o + 1].price <= k.high

Opens(s, k, D) == \E o \in D : k.open = s[o + 1].price /\ \A p \in D : o <= p
Closes(s, k, D) == \E o \in D : k.close = s[o + 1].price /\ \A p \in D : p <= o
Bounds(s, k, D) ==
    /\ \E o \in D : k.high = s[o + 1].price
    /\ \E o \in D : k.low = s[o + 1].price
    /\ \A o \in D : k.low <= s[o + 1].price /\ s[o + 1].price <= k.high
IsKline(s, k, D) ==
    /\ Opens(s, k, D) /\ Closes(s, k, D) /\ Bounds(s, k, D)
    /\ k.volume = VolumeOf(s, D) /\ k.deal = WorthOf(s, D)

(* Sums over deals are numbers, one more deal adds to them, and none is 0. *)
LEMMA DealSums ==
  ASSUME NEW s, NEW D, Offsets(s, D)
  PROVE  VolumeOf(s, D) \in Nat /\ WorthOf(s, D) \in Nat
  <1>1. [o \in D |-> s[o + 1].amount] \in [D -> Nat]
    BY DEF Offsets, MessageSet
  <1>2. [o \in D |-> s[o + 1].amount * s[o + 1].price] \in [D -> Nat]
    BY ProductNat DEF Offsets, MessageSet
  <1>3. IsFiniteSet(D)
    BY DEF Offsets
  <1>4. QED
    BY <1>1, <1>2, <1>3, SumNat DEF VolumeOf, WorthOf

LEMMA NoDealSums == \A s : VolumeOf(s, {}) = 0 /\ WorthOf(s, {}) = 0
  BY SumEmpty DEF VolumeOf, WorthOf

LEMMA DealAdds ==
  ASSUME NEW s, NEW D, NEW o, o \notin D, Offsets(s, D \cup {o})
  PROVE  /\ VolumeOf(s, D \cup {o}) = VolumeOf(s, D) + s[o + 1].amount
         /\ WorthOf(s, D \cup {o}) = WorthOf(s, D) + s[o + 1].amount * s[o + 1].price
         /\ VolumeOf(s, D) \in Nat /\ WorthOf(s, D) \in Nat
  <1> DEFINE E == D \cup {o}
             f == [x \in E |-> s[x + 1].amount]
             g == [x \in E |-> s[x + 1].amount * s[x + 1].price]
  <1>1. f \in [E -> Nat] /\ g \in [E -> Nat] /\ IsFiniteSet(E)
    BY ProductNat DEF Offsets, MessageSet
  <1>2. /\ SumOf(f) = At(f, o) + SumOf(Except(f, o)) /\ SumOf(Except(f, o)) \in Nat
        /\ SumOf(g) = At(g, o) + SumOf(Except(g, o)) /\ SumOf(Except(g, o)) \in Nat
    <2> HIDE DEF f, g, E
    <2>1. QED
      BY <1>1, SumSplit
  <1>3. E \ {o} = D
    OBVIOUS
  <1>4. /\ Except(f, o) = [x \in D |-> s[x + 1].amount]
        /\ Except(g, o) = [x \in D |-> s[x + 1].amount * s[x + 1].price]
    BY <1>3 DEF Except
  <1>5. At(f, o) = s[o + 1].amount /\ At(g, o) = s[o + 1].amount * s[o + 1].price
    BY DEF At
  <1>6. At(f, o) \in Nat /\ At(g, o) \in Nat
    BY <1>1, <1>5
  <1>7. SumOf(Except(f, o)) = VolumeOf(s, D) /\ SumOf(Except(g, o)) = WorthOf(s, D)
    BY <1>4 DEF VolumeOf, WorthOf
  <1>8. SumOf(f) = VolumeOf(s, E) /\ SumOf(g) = WorthOf(s, E)
    BY DEF VolumeOf, WorthOf
  <1> HIDE DEF f, g
  <1>9. QED
    BY <1>2, <1>5, <1>6, <1>7, <1>8

(* Fewer deals have no greater sums.                                       *)
LEMMA FewerDeals ==
  ASSUME NEW s, NEW D, NEW E, D \subseteq E, Offsets(s, E)
  PROVE  /\ Offsets(s, D)
         /\ VolumeOf(s, D) <= VolumeOf(s, E) /\ WorthOf(s, D) <= WorthOf(s, E)
  <1> DEFINE f == [x \in E |-> s[x + 1].amount]
             g == [x \in E |-> s[x + 1].amount * s[x + 1].price]
             f1 == [x \in D |-> s[x + 1].amount]
             g1 == [x \in D |-> s[x + 1].amount * s[x + 1].price]
  <1>1. Offsets(s, D)
    BY FS_Subset DEF Offsets
  <1>2. /\ f \in [E -> Nat] /\ g \in [E -> Nat] /\ f1 \in [D -> Nat] /\ g1 \in [D -> Nat]
        /\ IsFiniteSet(D) /\ IsFiniteSet(E)
    BY <1>1, ProductNat DEF Offsets, MessageSet
  <1>3. Units(f1) \subseteq Units(f) /\ Units(g1) \subseteq Units(g)
    BY DEF Units, UnitsOf
  <1>4. /\ SumOf(f) = Cardinality(Units(f)) /\ SumOf(g) = Cardinality(Units(g))
        /\ SumOf(f1) = Cardinality(Units(f1)) /\ SumOf(g1) = Cardinality(Units(g1))
    BY DEF SumOf, Units, UnitsOf
  <1>5. IsFiniteSet(Units(f)) /\ IsFiniteSet(Units(g))
    <2> HIDE DEF f, g
    <2>1. QED
      BY <1>2, SumNat
  <1>6. /\ Cardinality(Units(f1)) <= Cardinality(Units(f))
        /\ Cardinality(Units(g1)) <= Cardinality(Units(g))
    <2> HIDE DEF f, g, f1, g1
    <2>1. QED
      BY <1>3, <1>5, FS_Subset
  <1>7. SumOf(f1) <= SumOf(f) /\ SumOf(g1) <= SumOf(g)
    BY <1>4, <1>6
  <1>8. QED
    BY <1>1, <1>7 DEF VolumeOf, WorthOf

LEMMA FewerAtLeast ==
  ASSUME NEW s, NEW D, NEW E, D \subseteq E, Offsets(s, E), NEW k \in KlineSet, AtLeast(s, k, E)
  PROVE  AtLeast(s, k, D)
  <1>1. VolumeOf(s, D) <= VolumeOf(s, E) /\ WorthOf(s, D) <= WorthOf(s, E) /\ Offsets(s, D)
    BY FewerDeals
  <1>2. /\ VolumeOf(s, D) \in Nat /\ WorthOf(s, D) \in Nat
        /\ VolumeOf(s, E) \in Nat /\ WorthOf(s, E) \in Nat
    BY <1>1, DealSums
  <1>3. k.volume \in Nat /\ k.deal \in Nat
    BY DEF KlineSet
  <1>4. QED
    BY <1>1, <1>2, <1>3 DEF AtLeast

(* A deal counted in a kline.                                              *)
LEMMA UpdateType ==
  ASSUME NEW k \in KlineSet, NEW d \in MessageSet
  PROVE  LET u == kline_info_update(k, d)
         IN /\ kline_info_new(d.price) \in KlineSet /\ u \in KlineSet
            /\ u.open = k.open /\ u.close = d.price
            /\ u.volume = k.volume + d.amount /\ u.deal = k.deal + d.amount * d.price
            /\ u.high \in {k.high, d.price} /\ u.high >= k.high /\ u.high >= d.price
            /\ u.low \in {k.low, d.price} /\ u.low <= k.low /\ u.low <= d.price
  <1> DEFINE u == kline_info_update(k, d)
             high == Max({k.high, d.price})
             low == Min({k.low, d.price})
             volume == k.volume + d.amount
             deal == k.deal + d.price * d.amount
  <1>1. /\ d.price \in Nat /\ d.amount \in Nat
        /\ k.high \in Nat /\ k.low \in Nat /\ k.volume \in Nat /\ k.deal \in Nat
    BY DEF KlineSet, MessageSet
  <1>2. kline_info_new(d.price) \in KlineSet
    BY <1>1 DEF kline_info_new, KlineSet
  <1>3. u = [k EXCEPT !.close = d.price, !.volume = volume, !.deal = deal,
                      !.high = high, !.low = low]
    BY DEF kline_info_update
  <1>4. /\ high = IF k.high <= d.price THEN d.price ELSE k.high
        /\ low = IF k.low <= d.price THEN k.low ELSE d.price
    <2>1. PICK p \in Nat : p = d.price
      BY <1>1
    <2>2. PICK h \in Nat : h = k.high
      BY <1>1
    <2>3. PICK l \in Nat : l = k.low
      BY <1>1
    <2>4. /\ Min({l, p}) = IF l <= p THEN l ELSE p
          /\ Max({h, p}) = IF h <= p THEN p ELSE h
      BY MinMaxOfTwo
    <2>5. QED
      BY <2>1, <2>2, <2>3, <2>4
  <1>5. deal = k.deal + d.amount * d.price
    BY <1>1
  <1>6. volume \in Nat /\ deal \in Nat /\ high \in Nat /\ low \in Nat
    <2>1. d.price * d.amount \in Nat
      BY <1>1, ProductNat
    <2>2. high \in Nat /\ low \in Nat
      <3> HIDE DEF high, low
      <3>1. QED
        BY <1>1, <1>4
    <2>3. volume \in Nat
      BY <1>1
    <2>4. deal \in Nat
      <3>1. PICK x \in Nat, y \in Nat : x = k.deal /\ y = d.price * d.amount
        BY <1>1, <2>1
      <3>2. QED
        BY <3>1
    <2>5. QED
      BY <2>2, <2>3, <2>4
  <1> HIDE DEF u, high, low, volume, deal
  <1>7. u \in KlineSet
    BY <1>1, <1>3, <1>6 DEF KlineSet
  <1>8. /\ u.open = k.open /\ u.close = d.price /\ u.volume = volume /\ u.deal = deal
        /\ u.high = high /\ u.low = low
    BY <1>3 DEF KlineSet
  <1>9. /\ u.high \in {k.high, d.price} /\ u.high >= k.high /\ u.high >= d.price
        /\ u.low \in {k.low, d.price} /\ u.low <= k.low /\ u.low <= d.price
    BY <1>1, <1>4, <1>8
  <1>10. QED
    BY <1>2, <1>5, <1>7, <1>8, <1>9 DEF u, volume

LEMMA UpdateAtLeast ==
  ASSUME NEW s, NEW D, NEW o, o \notin D, Offsets(s, D \cup {o}),
         NEW k \in KlineSet, D # {} => AtLeast(s, k, D)
  PROVE  AtLeast(s, kline_info_update(k, s[o + 1]), D \cup {o})
  <1> DEFINE d == s[o + 1]
             u == kline_info_update(k, d)
  <1>1. d \in MessageSet /\ \A p \in D : s[p + 1] \in MessageSet
    BY DEF Offsets
  <1>2. /\ VolumeOf(s, D \cup {o}) = VolumeOf(s, D) + d.amount
        /\ WorthOf(s, D \cup {o}) = WorthOf(s, D) + d.amount * d.price
        /\ VolumeOf(s, D) \in Nat /\ WorthOf(s, D) \in Nat
    BY DealAdds
  <1>3. /\ d.price \in Nat /\ d.amount \in Nat /\ d.amount * d.price \in Nat
        /\ k.high \in Nat /\ k.low \in Nat /\ k.volume \in Nat /\ k.deal \in Nat
    BY <1>1, ProductNat DEF KlineSet, MessageSet
  <1> HIDE DEF d
  <1>4. /\ u \in KlineSet /\ u.volume = k.volume + d.amount /\ u.deal = k.deal + d.amount * d.price
        /\ u.high >= k.high /\ u.high >= d.price /\ u.low <= k.low /\ u.low <= d.price
    BY <1>1, UpdateType
  <1> HIDE DEF u
  <1>5. u.high \in Nat /\ u.low \in Nat
    BY <1>4 DEF KlineSet
  <1>6. /\ k.volume >= VolumeOf(s, D) /\ k.deal >= WorthOf(s, D)
        /\ \A p \in D : k.low <= s[p + 1].price /\ s[p + 1].price <= k.high
    <2>1. CASE D = {}
      BY <1>3, <2>1, NoDealSums
    <2>2. CASE D # {}
      BY <2>2 DEF AtLeast
    <2>3. QED
      BY <2>1, <2>2
  <1>7. u.volume >= VolumeOf(s, D \cup {o}) /\ u.deal >= WorthOf(s, D \cup {o})
    BY <1>2, <1>3, <1>4, <1>6
  <1>8. ASSUME NEW p \in D PROVE u.low <= s[p + 1].price /\ s[p + 1].price <= u.high
    <2>1. s[p + 1].price \in Nat
      BY <1>1 DEF MessageSet
    <2>2. QED
      BY <1>3, <1>4, <1>5, <1>6, <2>1
  <1>9. AtLeast(s, u, D \cup {o})
    BY <1>4, <1>7, <1>8 DEF AtLeast, d
  <1>10. QED
    BY <1>9 DEF u, d

LEMMA UpdateIsKline ==
  ASSUME NEW s, NEW D, NEW o, Offsets(s, D \cup {o}), \A p \in D : p < o,
         NEW k \in KlineSet,
         IF D = {} THEN k = kline_info_new(s[o + 1].price) ELSE IsKline(s, k, D)
  PROVE  IsKline(s, kline_info_update(k, s[o + 1]), D \cup {o})
  <1> DEFINE d == s[o + 1]
             u == kline_info_update(k, d)
             E == D \cup {o}
  <1>1. /\ d \in MessageSet /\ \A p \in D : s[p + 1] \in MessageSet
        /\ o \in Nat /\ D \subseteq Nat /\ o \notin D
    BY DEF Offsets
  <1>2. /\ VolumeOf(s, D \cup {o}) = VolumeOf(s, D) + d.amount
        /\ WorthOf(s, D \cup {o}) = WorthOf(s, D) + d.amount * d.price
        /\ VolumeOf(s, D) \in Nat /\ WorthOf(s, D) \in Nat
    BY <1>1, DealAdds
  <1>3. /\ d.price \in Nat /\ d.amount \in Nat /\ d.amount * d.price \in Nat
        /\ k.high \in Nat /\ k.low \in Nat /\ k.volume \in Nat /\ k.deal \in Nat
        /\ \A p \in D : s[p + 1].price \in Nat
    BY <1>1, ProductNat DEF KlineSet, MessageSet
  <1>4. IF D = {} THEN k = kline_info_new(d.price) ELSE IsKline(s, k, D)
    OBVIOUS
  <1> HIDE DEF d
  <1>5. /\ u \in KlineSet /\ u.open = k.open /\ u.close = d.price
        /\ u.volume = k.volume + d.amount /\ u.deal = k.deal + d.amount * d.price
        /\ u.high \in {k.high, d.price} /\ u.high >= k.high /\ u.high >= d.price
        /\ u.low \in {k.low, d.price} /\ u.low <= k.low /\ u.low <= d.price
    BY <1>1, UpdateType
  <1> HIDE DEF u
  <1>6. u.high \in Nat /\ u.low \in Nat
    BY <1>5 DEF KlineSet
  <1>7. Closes(s, u, E)
    BY <1>1, <1>5 DEF Closes, d
  <1>8. CASE D = {}
    <2>1. E = {o} /\ k = kline_info_new(d.price)
      BY <1>8, <1>4
    <2>2. k.open = d.price /\ k.high = d.price /\ k.low = d.price /\ k.volume = 0 /\ k.deal = 0
      BY <2>1 DEF kline_info_new
    <2>3. Opens(s, u, E) /\ Bounds(s, u, E)
      BY <1>1, <1>3, <1>5, <2>1, <2>2 DEF Opens, Bounds, d
    <2>4. u.volume = VolumeOf(s, E) /\ u.deal = WorthOf(s, E)
      BY <1>2, <1>3, <1>5, <1>8, <2>2, NoDealSums
    <2>5. QED
      BY <1>7, <2>3, <2>4 DEF IsKline, u, d
  <1>9. CASE D # {}
    <2>1. /\ Opens(s, k, D) /\ Bounds(s, k, D)
          /\ k.volume = VolumeOf(s, D) /\ k.deal = WorthOf(s, D)
      BY <1>9, <1>4 DEF IsKline
    <2>2. Opens(s, u, E)
      <3>1. PICK first \in D : k.open = s[first + 1].price /\ \A p \in D : first <= p
        BY <2>1 DEF Opens
      <3>2. first <= o
        BY <1>1
      <3>3. QED
        BY <1>5, <3>1, <3>2 DEF Opens
    <2>3. Bounds(s, u, E)
      <3>1. PICK a \in D : k.high = s[a + 1].price
        BY <2>1 DEF Bounds
      <3>2. PICK b \in D : k.low = s[b + 1].price
        BY <2>1 DEF Bounds
      <3>3. \E p \in E : u.high = s[p + 1].price
        BY <1>5, <3>1 DEF d
      <3>4. \E p \in E : u.low = s[p + 1].price
        BY <1>5, <3>2 DEF d
      <3>5. ASSUME NEW p \in E PROVE u.low <= s[p + 1].price /\ s[p + 1].price <= u.high
        <4>1. CASE p \in D
          BY <1>3, <1>5, <1>6, <2>1, <4>1 DEF Bounds
        <4>2. CASE p = o
          BY <1>5, <4>2 DEF d
        <4>3. QED
          BY <4>1, <4>2
      <3>6. QED
        BY <3>3, <3>4, <3>5 DEF Bounds
    <2>4. u.volume = VolumeOf(s, E) /\ u.deal = WorthOf(s, E)
      BY <1>2, <1>3, <1>5, <2>1
    <2>5. QED
      BY <1>7, <2>2, <2>3, <2>4 DEF IsKline, u, d
  <1>10. QED
    BY <1>8, <1>9

(* It is the kline the deals make.                                         *)
LEMMA KlineIsKlineOf ==
  ASSUME NEW D, Offsets(topic, D), NEW k \in KlineSet, IsKline(topic, k, D)
  PROVE  k = KlineOf(D)
  <1> DEFINE P == PricesOf(D)
  <1>1. PICK a \in D : k.open = topic[a + 1].price /\ \A p \in D : a <= p
    BY DEF IsKline, Opens
  <1>2. PICK b \in D : k.close = topic[b + 1].price /\ \A p \in D : p <= b
    BY DEF IsKline, Closes
  <1>3. /\ \E o \in D : k.high = topic[o + 1].price
        /\ \E o \in D : k.low = topic[o + 1].price
        /\ \A o \in D : k.low <= topic[o + 1].price /\ topic[o + 1].price <= k.high
    BY DEF IsKline, Bounds
  <1>4. D \subseteq Int /\ P \subseteq Int
    BY DEF Offsets, PricesOf, MessageAt, MessageSet
  <1>5. k.high \in P /\ k.low \in P /\ \A p \in P : k.low <= p /\ p <= k.high
    BY <1>3 DEF PricesOf, MessageAt
  <1> HIDE DEF P
  <1>6. Min(D) = a
    BY <1>1, <1>4, MinMaxIs
  <1>7. Max(D) = b
    BY <1>2, <1>4, MinMaxIs
  <1>8. Max(P) = k.high
    BY <1>4, <1>5, MinMaxIs
  <1>9. Min(P) = k.low
    BY <1>4, <1>5, MinMaxIs
  <1>10. k.volume = Volume(D) /\ k.deal = Worth(D)
    BY DEF IsKline, VolumeOf, WorthOf, Volume, Worth, MessageAt
  <1>11. k = [open |-> k.open, close |-> k.close, high |-> k.high, low |-> k.low,
              volume |-> k.volume, deal |-> k.deal]
    BY DEF KlineSet
  <1>12. QED
    BY <1>1, <1>2, <1>6, <1>7, <1>8, <1>9, <1>10, <1>11 DEF KlineOf, MessageAt, P

--------------------------------------------------------------------------------
(* Deals by market and by the time their kline begins.                     *)

DealsIn(s, m, first, last) == {o \in first..last : s[o + 1].market = m /\ s[o + 1].id # 0}
Bucket(s, m, type, t, first, last) ==
    {o \in DealsIn(s, m, first, last) : Down(s[o + 1].time, Unit(type)) = t}

LEMMA BucketOffsets ==
  ASSUME NEW s \in Seq(MessageSet), NEW first \in Nat, NEW last \in Int, last < Len(s),
         NEW m, NEW type, NEW t
  PROVE  /\ Offsets(s, DealsIn(s, m, first, last))
         /\ Offsets(s, Bucket(s, m, type, t, first, last))
  <1>1. IsFiniteSet(first..last)
    BY FS_Interval
  <1>2. ASSUME NEW o \in first..last PROVE o \in Nat /\ s[o + 1] \in MessageSet
    <2>1. o \in Nat /\ o + 1 \in 1..Len(s)
      BY LenProperties
    <2>2. QED
      BY <2>1, ElementOfSeq
  <1>3. ASSUME NEW D, D \subseteq first..last PROVE Offsets(s, D)
    BY <1>1, <1>2, <1>3, FS_Subset DEF Offsets
  <1>4. QED
    BY <1>3 DEF DealsIn, Bucket

(* What the next deal changes; messages between are none.                  *)
LEMMA BucketNext ==
  ASSUME NEW s, NEW first \in Nat, NEW last \in Int, NEW o \in Nat,
         last < o, first <= last + 1, s[o + 1].id # 0,
         \A p \in (last + 1)..(o - 1) : s[p + 1].id = 0,
         NEW m
  PROVE  /\ DealsIn(s, m, first, o) = IF s[o + 1].market = m
                                      THEN DealsIn(s, m, first, last) \cup {o}
                                      ELSE DealsIn(s, m, first, last)
         /\ \A p \in DealsIn(s, m, first, last) : p < o
         /\ \A type, t :
              /\ Bucket(s, m, type, t, first, o) =
                   IF s[o + 1].market = m /\ Down(s[o + 1].time, Unit(type)) = t
                   THEN Bucket(s, m, type, t, first, last) \cup {o}
                   ELSE Bucket(s, m, type, t, first, last)
              /\ \A p \in Bucket(s, m, type, t, first, last) : p < o
  <1>1. /\ DealsIn(s, m, first, last) \subseteq DealsIn(s, m, first, o)
        /\ \A p \in DealsIn(s, m, first, last) : p < o
    BY DEF DealsIn
  <1>2. ASSUME NEW p \in DealsIn(s, m, first, o), p # o
        PROVE  p \in DealsIn(s, m, first, last)
    <2>1. p \in first..o /\ s[p + 1].id # 0 /\ s[p + 1].market = m
      BY DEF DealsIn
    <2>2. p \notin (last + 1)..(o - 1)
      BY <2>1
    <2>3. p \in first..last
      BY <1>2, <2>1, <2>2
    <2>4. QED
      BY <2>1, <2>3 DEF DealsIn
  <1>3. o \in DealsIn(s, m, first, o) <=> s[o + 1].market = m
    BY DEF DealsIn
  <1>4. DealsIn(s, m, first, o) = IF s[o + 1].market = m
                                  THEN DealsIn(s, m, first, last) \cup {o}
                                  ELSE DealsIn(s, m, first, last)
    BY <1>1, <1>2, <1>3
  <1>5. ASSUME NEW type, NEW t
        PROVE  /\ Bucket(s, m, type, t, first, o) =
                   IF s[o + 1].market = m /\ Down(s[o + 1].time, Unit(type)) = t
                   THEN Bucket(s, m, type, t, first, last) \cup {o}
                   ELSE Bucket(s, m, type, t, first, last)
               /\ \A p \in Bucket(s, m, type, t, first, last) : p < o
    BY <1>1, <1>4 DEF Bucket
  <1>6. QED
    BY <1>1, <1>4, <1>5

(* Without messages there are no deals.                                    *)
LEMMA NoBucket ==
  ASSUME NEW s, NEW first \in Int, NEW last \in Int, last < first, NEW m
  PROVE  /\ DealsIn(s, m, first, last) = {}
         /\ \A type, t : Bucket(s, m, type, t, first, last) = {}
  BY DEF DealsIn, Bucket

(* Fewer messages, fewer deals.                                            *)
LEMMA FewerInBucket ==
  ASSUME NEW s, NEW first \in Int, NEW last \in Int, NEW end \in Int, last <= end,
         NEW m, NEW type, NEW t
  PROVE  Bucket(s, m, type, t, first, last) \subseteq Bucket(s, m, type, t, first, end)
  BY DEF DealsIn, Bucket

(* They are the deals of the properties.                                   *)
LEMMA BucketWithin ==
  ASSUME NEW m, NEW type \in Types, NEW n \in Int, NEW first \in Nat, NEW last \in Int,
         topic \in Seq(MessageSet), last < Len(topic)
  PROVE  /\ DealsOf(m, first, last) = DealsIn(topic, m, first, last)
         /\ Within(DealsOf(m, first, last), n * Unit(type), n * Unit(type) + Unit(type))
              = Bucket(topic, m, type, n * Unit(type), first, last)
  <1>1. DealsOf(m, first, last) = DealsIn(topic, m, first, last)
    BY DEF DealsOf, DealsIn, MessageAt
  <1>2. Offsets(topic, DealsIn(topic, m, first, last))
    BY BucketOffsets
  <1>3. PICK u \in Nat \ {0} : u = Unit(type)
    BY UnitNat, TypesOf
  <1>4. ASSUME NEW o \in DealsIn(topic, m, first, last)
        PROVE  n * u <= topic[o + 1].time /\ topic[o + 1].time < n * u + u
                 <=> Down(topic[o + 1].time, u) = n * u
    <2>1. PICK x \in Int : x = topic[o + 1].time
      BY <1>2 DEF Offsets, MessageSet
    <2>2. QED
      BY <2>1, DownIs
  <1>5. QED
    BY <1>1, <1>3, <1>4 DEF Within, Bucket, MessageAt

--------------------------------------------------------------------------------
(* Dicts of klines.                                                        *)

DictSet == UNION {[S -> KlineSet] : S \in SUBSET Nat}

LEMMA DictIs ==
  /\ \A d \in DictSet : /\ DOMAIN d \subseteq Nat
                        /\ d = [t \in DOMAIN d |-> d[t]]
                        /\ \A t \in DOMAIN d : d[t] \in KlineSet
  /\ \A S \in SUBSET Nat : \A d \in [S -> KlineSet] : d \in DictSet
  BY DEF DictSet

LEMMA NoKlines == <<>> \in DictSet
  <1>1. <<>> \in [{} -> KlineSet]
    OBVIOUS
  <1>2. QED
    BY <1>1 DEF DictSet

LEMMA WithIs ==
  ASSUME NEW dict \in DictSet, NEW t \in Nat, NEW k \in KlineSet
  PROVE  /\ With(dict, t, k) \in DictSet
         /\ DOMAIN With(dict, t, k) = DOMAIN dict \cup {t}
         /\ With(dict, t, k)[t] = k
         /\ \A x \in DOMAIN dict : x # t => With(dict, t, k)[x] = dict[x]
  <1>1. DOMAIN dict \subseteq Nat /\ \A x \in DOMAIN dict : dict[x] \in KlineSet
    BY DictIs
  <1>2. With(dict, t, k) \in [DOMAIN dict \cup {t} -> KlineSet]
    BY <1>1 DEF With
  <1>3. With(dict, t, k) \in DictSet
    BY <1>1, <1>2, DictIs
  <1>4. QED
    BY <1>3 DEF With

LEMMA FromIs ==
  ASSUME NEW dict \in DictSet, NEW h
  PROVE  /\ From(dict, h) \in DictSet
         /\ DOMAIN From(dict, h) = {s \in DOMAIN dict : s >= h}
         /\ \A x \in DOMAIN dict : x >= h => From(dict, h)[x] = dict[x]
  <1>1. DOMAIN dict \subseteq Nat /\ \A x \in DOMAIN dict : dict[x] \in KlineSet
    BY DictIs
  <1>2. From(dict, h) \in [{s \in DOMAIN dict : s >= h} -> KlineSet]
    BY <1>1 DEF From
  <1>3. From(dict, h) \in DictSet
    BY <1>1, <1>2, DictIs
  <1>4. QED
    BY <1>3 DEF From

LEMMA WithoutIs ==
  ASSUME NEW dict \in DictSet, NEW t
  PROVE  [s \in DOMAIN dict \ {t} |-> dict[s]] \in DictSet
  <1>1. DOMAIN dict \subseteq Nat /\ \A x \in DOMAIN dict : dict[x] \in KlineSet
    BY DictIs
  <1>2. [s \in DOMAIN dict \ {t} |-> dict[s]] \in [DOMAIN dict \ {t} -> KlineSet]
    BY <1>1
  <1>3. QED
    BY <1>1, <1>2, DictIs

(* What was at t, or the kline a deal there begins with.                   *)
Basis(dict, t, d) == IF t \in DOMAIN dict THEN dict[t] ELSE kline_info_new(d.price)

LEMMA CountedIs ==
  ASSUME NEW dict \in DictSet, NEW t \in Nat, NEW d \in MessageSet
  PROVE  /\ Counted(dict, t, d) \in DictSet
         /\ t \in DOMAIN Counted(dict, t, d)
         /\ Counted(dict, t, d)[t] = kline_info_update(Basis(dict, t, d), d)
  <1> DEFINE k == Basis(dict, t, d)
             u == kline_info_update(k, d)
  <1>1. ASSUME NEW l \in KlineSet
        PROVE  kline_info_new(d.price) \in KlineSet /\ kline_info_update(l, d) \in KlineSet
    BY UpdateType
  <1>2. KlineSet # {}
    <2>1. [open |-> 0, close |-> 0, high |-> 0, low |-> 0, volume |-> 0, deal |-> 0] \in KlineSet
      BY DEF KlineSet
    <2>2. QED
      BY <2>1
  <1>3. k \in KlineSet
    BY <1>1, <1>2, DictIs DEF Basis
  <1> HIDE DEF k
  <1>4. u \in KlineSet
    BY <1>1, <1>3
  <1>5. Counted(dict, t, d) = With(dict, t, u)
    BY DEF Counted, k, Basis
  <1> HIDE DEF u
  <1>6. /\ With(dict, t, u) \in DictSet
        /\ DOMAIN With(dict, t, u) = DOMAIN dict \cup {t}
        /\ With(dict, t, u)[t] = u
    BY <1>4, WithIs
  <1>7. QED
    BY <1>5, <1>6 DEF u, k

(* What a dict has at t, compared with the deals D.                        *)
Covers(s, dict, t, D) == D # {} => t \in DOMAIN dict /\ AtLeast(s, dict[t], D)
Exactly(s, dict, t, D) ==
    IF D = {} THEN t \notin DOMAIN dict ELSE t \in DOMAIN dict /\ IsKline(s, dict[t], D)
Agree(one, other, t) ==
    /\ t \in DOMAIN one <=> t \in DOMAIN other
    /\ t \in DOMAIN one => one[t] = other[t]

LEMMA AgreeSame ==
  ASSUME NEW s, NEW one, NEW other, NEW t, NEW D, Agree(one, other, t)
  PROVE  /\ Covers(s, one, t, D) <=> Covers(s, other, t, D)
         /\ Exactly(s, one, t, D) <=> Exactly(s, other, t, D)
  BY DEF Agree, Covers, Exactly

LEMMA CountedCovers ==
  ASSUME NEW s, NEW D, NEW o, Offsets(s, D \cup {o}), \A p \in D : p < o,
         NEW dict \in DictSet, NEW t \in Nat
  PROVE  /\ Covers(s, dict, t, D) => Covers(s, Counted(dict, t, s[o + 1]), t, D \cup {o})
         /\ Exactly(s, dict, t, D) => Exactly(s, Counted(dict, t, s[o + 1]), t, D \cup {o})
  <1> DEFINE d == s[o + 1]
             k == IF t \in DOMAIN dict THEN dict[t] ELSE kline_info_new(d.price)
             c == Counted(dict, t, d)
  <1>1. d \in MessageSet /\ o \in Nat /\ o \notin D
    BY DEF Offsets
  <1>2. k \in KlineSet
    <2>1. KlineSet # {}
      <3>1. [open |-> 0, close |-> 0, high |-> 0, low |-> 0, volume |-> 0, deal |-> 0] \in KlineSet
        BY DEF KlineSet
      <3>2. QED
        BY <3>1
    <2>2. kline_info_new(d.price) \in KlineSet
      BY <1>1, <2>1, UpdateType
    <2>3. t \in DOMAIN dict => dict[t] \in KlineSet
      BY DictIs
    <2>4. QED
      BY <2>2, <2>3
  <1>3. t \in DOMAIN c /\ c[t] = kline_info_update(k, d)
    <2>1. PICK e \in MessageSet : e = d
      BY <1>1
    <2>2. /\ t \in DOMAIN Counted(dict, t, e)
          /\ Counted(dict, t, e)[t] = kline_info_update(Basis(dict, t, e), e)
      BY CountedIs
    <2> HIDE DEF d
    <2>3. QED
      BY <2>1, <2>2 DEF Basis
  <1>4. ASSUME Covers(s, dict, t, D) PROVE Covers(s, c, t, D \cup {o})
    <2>1. D # {} => AtLeast(s, k, D)
      BY <1>4 DEF Covers
    <2> HIDE DEF k
    <2>2. AtLeast(s, kline_info_update(k, s[o + 1]), D \cup {o})
      BY <1>1, <1>2, <2>1, UpdateAtLeast
    <2>3. QED
      BY <1>3, <2>2 DEF Covers
  <1>5. ASSUME Exactly(s, dict, t, D) PROVE Exactly(s, c, t, D \cup {o})
    <2>1. IF D = {} THEN k = kline_info_new(s[o + 1].price) ELSE IsKline(s, k, D)
      BY <1>5 DEF Exactly
    <2> HIDE DEF k
    <2>2. IsKline(s, kline_info_update(k, s[o + 1]), D \cup {o})
      BY <1>2, <2>1, UpdateIsKline
    <2>3. QED
      BY <1>3, <2>2 DEF Exactly
  <1>6. QED
    BY <1>4, <1>5

--------------------------------------------------------------------------------
(* Messages only join the topic.                                           *)

(* last is the price of the last deal of D.                                *)
LastIs(s, last, D) ==
    IF D = {} THEN last = 0 ELSE \E o \in D : last = s[o + 1].price /\ \A p \in D : p <= o
Ids(s, D) == {s[o + 1].id : o \in D}

LEMMA SameMessages ==
  ASSUME NEW s, NEW r, NEW first \in Nat, NEW last \in Int,
         \A o \in first..last : s[o + 1] = r[o + 1], NEW m
  PROVE  /\ DealsIn(s, m, first, last) = DealsIn(r, m, first, last)
         /\ LET D == DealsIn(s, m, first, last)
            IN Ids(s, D) = Ids(r, D) /\ \A x : LastIs(s, x, D) <=> LastIs(r, x, D)
         /\ \A type, t :
              /\ Bucket(s, m, type, t, first, last) = Bucket(r, m, type, t, first, last)
              /\ \A dict :
                   LET D == Bucket(s, m, type, t, first, last)
                   IN /\ Covers(s, dict, t, D) <=> Covers(r, dict, t, D)
                      /\ Exactly(s, dict, t, D) <=> Exactly(r, dict, t, D)
  <1>1. DealsIn(s, m, first, last) = DealsIn(r, m, first, last)
    BY DEF DealsIn
  <1>2. ASSUME NEW type, NEW t
        PROVE  Bucket(s, m, type, t, first, last) = Bucket(r, m, type, t, first, last)
    <2>1. \A o \in DealsIn(s, m, first, last) : s[o + 1] = r[o + 1]
      BY DEF DealsIn
    <2>2. QED
      BY <1>1, <2>1 DEF Bucket
  <1>3. LET D == DealsIn(s, m, first, last)
        IN Ids(s, D) = Ids(r, D) /\ \A x : LastIs(s, x, D) <=> LastIs(r, x, D)
    <2> DEFINE D == DealsIn(s, m, first, last)
    <2>1. \A o \in D : s[o + 1] = r[o + 1]
      BY DEF DealsIn
    <2> HIDE DEF D
    <2>2. Ids(s, D) = Ids(r, D)
      BY <2>1 DEF Ids
    <2>3. ASSUME NEW x PROVE LastIs(s, x, D) <=> LastIs(r, x, D)
      BY <2>1 DEF LastIs
    <2>4. QED
      BY <2>2, <2>3 DEF D
  <1>4. ASSUME NEW type, NEW t, NEW dict
        PROVE  LET D == Bucket(s, m, type, t, first, last)
               IN /\ Covers(s, dict, t, D) <=> Covers(r, dict, t, D)
                  /\ Exactly(s, dict, t, D) <=> Exactly(r, dict, t, D)
    <2> DEFINE D == Bucket(s, m, type, t, first, last)
    <2>1. \A o \in D : s[o + 1] = r[o + 1]
      BY DEF DealsIn, Bucket
    <2> HIDE DEF D
    <2>2. /\ [o \in D |-> s[o + 1].amount] = [o \in D |-> r[o + 1].amount]
          /\ [o \in D |-> s[o + 1].amount * s[o + 1].price]
               = [o \in D |-> r[o + 1].amount * r[o + 1].price]
      BY <2>1
    <2>3. VolumeOf(s, D) = VolumeOf(r, D) /\ WorthOf(s, D) = WorthOf(r, D)
      BY <2>2 DEF VolumeOf, WorthOf
    <2>4. ASSUME NEW k
          PROVE  /\ AtLeast(s, k, D) <=> AtLeast(r, k, D)
                 /\ IsKline(s, k, D) <=> IsKline(r, k, D)
      <3>1. AtLeast(s, k, D) <=> AtLeast(r, k, D)
        BY <2>1, <2>3 DEF AtLeast
      <3>2. Opens(s, k, D) <=> Opens(r, k, D)
        BY <2>1 DEF Opens
      <3>3. Closes(s, k, D) <=> Closes(r, k, D)
        BY <2>1 DEF Closes
      <3>4. Bounds(s, k, D) <=> Bounds(r, k, D)
        BY <2>1 DEF Bounds
      <3>5. QED
        BY <2>3, <3>1, <3>2, <3>3, <3>4 DEF IsKline
    <2>5. /\ Covers(s, dict, t, D) <=> Covers(r, dict, t, D)
          /\ Exactly(s, dict, t, D) <=> Exactly(r, dict, t, D)
      BY <2>4 DEF Covers, Exactly
    <2>6. QED
      BY <2>5 DEF D
  <1>5. QED
    BY <1>1, <1>2, <1>3, <1>4

--------------------------------------------------------------------------------
(* The list of the newest deals.                                           *)

LEMMA FirstOfIs ==
  ASSUME NEW s \in Seq(Nat), NEW n \in Nat
  PROVE  LET f == FirstOf(s, n)
         IN /\ f \in Seq(Nat) /\ Len(f) = (IF n <= Len(s) THEN n ELSE Len(s))
            /\ \A i \in 1..Len(f) : f[i] = s[i]
            /\ Len(s) <= n => f = s
  <1> DEFINE f == FirstOf(s, n)
  <1>1. PICK l \in Nat : l = Len(s)
    BY LenProperties
  <1>2. Min({n, l}) = IF n <= l THEN n ELSE l
    BY MinMaxOfTwo
  <1>3. PICK k \in Nat : k = Min({n, Len(s)}) /\ k = (IF n <= l THEN n ELSE l)
    BY <1>1, <1>2
  <1>4. f = SubSeq(s, 1, k)
    BY <1>3 DEF FirstOf
  <1>5. \A i \in 1..k : s[i] \in Nat
    <2>1. \A i \in 1..Len(s) : s[i] \in Nat
      BY ElementOfSeq
    <2>2. QED
      BY <1>1, <1>3, <2>1
  <1>6. /\ SubSeq(s, 1, k) \in Seq(Nat)
        /\ Len(SubSeq(s, 1, k)) = IF 1 <= k THEN k - 1 + 1 ELSE 0
        /\ \A i \in 1..(k - 1 + 1) : SubSeq(s, 1, k)[i] = s[1 + i - 1]
    BY <1>5, SubSeqProperties
  <1> HIDE DEF f
  <1>7. f \in Seq(Nat) /\ Len(f) = k /\ \A i \in 1..k : f[i] = s[i]
    BY <1>4, <1>6
  <1>8. Len(s) <= n => f = s
    <2>1. SUFFICES ASSUME Len(s) <= n PROVE f = s
      OBVIOUS
    <2>2. l <= n
      BY <1>1, <2>1
    <2>3. k = l
      BY <1>3, <2>2
    <2>4. Len(f) = Len(s) /\ \A i \in 1..Len(f) : f[i] = s[i]
      BY <1>1, <1>7, <2>3
    <2>5. QED
      BY <1>7, <2>4, SeqEqual
  <1>9. QED
    BY <1>1, <1>3, <1>7, <1>8 DEF f

Pushed(new, old, n) == FirstOf(Reverse(new) \o old, n)

LEMMA PushedIs ==
  ASSUME NEW new \in Seq(Nat), NEW old \in Seq(Nat), NEW n \in Nat
  PROVE  LET p == Pushed(new, old, n)
         IN /\ p \in Seq(Nat)
            /\ Len(p) = (IF n <= Len(new) + Len(old) THEN n ELSE Len(new) + Len(old))
            /\ \A i \in 1..Len(p) :
                 p[i] = IF i <= Len(new) THEN new[Len(new) - i + 1] ELSE old[i - Len(new)]
  <1>1. Len(new) \in Nat /\ Len(old) \in Nat /\ new \in [1..Len(new) -> Nat]
    BY LenProperties
  <1>2. Reverse(new) \in [1..Len(new) -> Nat]
    <2>1. \A i \in 1..Len(new) : (Len(new) - i) + 1 \in 1..Len(new)
      BY <1>1
    <2>2. QED
      BY <1>1, <2>1 DEF Reverse
  <1>3. PICK r \in Seq(Nat) : r = Reverse(new)
    BY <1>1, <1>2, SeqDef
  <1>4. Len(r) = Len(new)
    <2>1. PICK a \in Nat : a = Len(r) /\ DOMAIN r = 1..a
      BY LenProperties
    <2>2. PICK b \in Nat : b = Len(new) /\ DOMAIN r = 1..b
      BY <1>1, <1>2, <1>3
    <2>3. a = b
      <3>1. ~(a < b)
        <4>1. a < b => b \in 1..b /\ b \notin 1..a
          OBVIOUS
        <4>2. QED
          BY <2>1, <2>2, <4>1
      <3>2. ~(b < a)
        <4>1. b < a => a \in 1..a /\ a \notin 1..b
          OBVIOUS
        <4>2. QED
          BY <2>1, <2>2, <4>1
      <3>3. QED
        BY <3>1, <3>2
    <2>4. QED
      BY <2>1, <2>2, <2>3
  <1> DEFINE c == r \o old
  <1>5. /\ c \in Seq(Nat) /\ Len(c) = Len(new) + Len(old)
        /\ \A i \in 1..(Len(new) + Len(old)) :
             c[i] = IF i <= Len(new) THEN r[i] ELSE old[i - Len(new)]
    <2>1. /\ c \in Seq(Nat) /\ Len(c) = Len(r) + Len(old)
          /\ \A i \in 1..(Len(r) + Len(old)) :
               c[i] = IF i <= Len(r) THEN r[i] ELSE old[i - Len(r)]
      BY ConcatProperties
    <2> HIDE DEF c
    <2>2. QED
      BY <1>4, <2>1
  <1>6. \A i \in 1..Len(new) : r[i] = new[Len(new) - i + 1]
    BY <1>3 DEF Reverse
  <1>7. Pushed(new, old, n) = FirstOf(c, n)
    BY <1>3 DEF Pushed
  <1> HIDE DEF c
  <1>8. LET f == FirstOf(c, n)
        IN /\ f \in Seq(Nat) /\ Len(f) = (IF n <= Len(c) THEN n ELSE Len(c))
           /\ \A i \in 1..Len(f) : f[i] = c[i]
    BY <1>5, FirstOfIs
  <1> DEFINE f == FirstOf(c, n)
  <1>9. /\ f \in Seq(Nat) /\ Len(f) = (IF n <= Len(c) THEN n ELSE Len(c))
        /\ \A i \in 1..Len(f) : f[i] = c[i]
    BY <1>8
  <1> HIDE DEF f
  <1>10. ASSUME NEW i \in 1..Len(f)
         PROVE  f[i] = IF i <= Len(new) THEN new[Len(new) - i + 1] ELSE old[i - Len(new)]
    <2>1. i \in 1..(Len(new) + Len(old))
      BY <1>1, <1>5, <1>9
    <2>2. f[i] = IF i <= Len(new) THEN r[i] ELSE old[i - Len(new)]
      BY <1>5, <1>9, <2>1
    <2>3. i <= Len(new) => i \in 1..Len(new)
      BY <2>1
    <2>4. QED
      BY <1>6, <2>2, <2>3
  <1>11. QED
    BY <1>5, <1>7, <1>9, <1>10 DEF f

LEMMA PushedNothing ==
  ASSUME NEW old \in Seq(Nat), NEW n \in Nat
  PROVE  Pushed(<<>>, old, n) = FirstOf(old, n)
  <1>1. Reverse(<<>>) = <<>>
    <2>1. <<>> \in Seq(Nat) /\ Len(<<>>) = 0
      BY EmptySeq
    <2>2. Reverse(<<>>) \in [1..0 -> Nat] /\ 1..0 = {}
      BY <2>1 DEF Reverse
    <2>3. Reverse(<<>>) = [i \in {} |-> i] /\ <<>> = [i \in {} |-> i]
      BY <2>2
    <2>4. QED
      BY <2>3
  <1>2. <<>> \o old = old
    BY ConcatEmptySeq
  <1>3. QED
    BY <1>1, <1>2 DEF Pushed

(* One more deal at the end of the new ones is one more in front.          *)
LEMMA PushedMore ==
  ASSUME NEW new \in Seq(Nat), NEW old \in Seq(Nat), NEW n \in Nat, NEW x \in Nat
  PROVE  Pushed(Append(new, x), old, n) = FirstOf(<<x>> \o Pushed(new, old, n), n)
  <1> DEFINE p == Pushed(new, old, n)
             q == Pushed(Append(new, x), old, n)
             c == <<x>> \o p
             f == FirstOf(c, n)
             a == Append(new, x)
  <1>1. Len(new) \in Nat /\ Len(old) \in Nat
    BY LenProperties
  <1>2. /\ a \in Seq(Nat) /\ Len(a) = Len(new) + 1
        /\ \A i \in 1..Len(new) : a[i] = new[i]
        /\ a[Len(new) + 1] = x
    BY AppendProperties
  <1>3. /\ p \in Seq(Nat)
        /\ Len(p) = (IF n <= Len(new) + Len(old) THEN n ELSE Len(new) + Len(old))
        /\ \A i \in 1..Len(p) :
             p[i] = IF i <= Len(new) THEN new[Len(new) - i + 1] ELSE old[i - Len(new)]
    BY PushedIs
  <1> HIDE DEF a
  <1>4. /\ q \in Seq(Nat)
        /\ Len(q) = (IF n <= Len(a) + Len(old) THEN n ELSE Len(a) + Len(old))
        /\ \A i \in 1..Len(q) :
             q[i] = IF i <= Len(a) THEN a[Len(a) - i + 1] ELSE old[i - Len(a)]
    <2>1. q = Pushed(a, old, n)
      BY DEF a
    <2> HIDE DEF q
    <2>2. PICK b \in Seq(Nat) : b = a
      BY <1>2
    <2>3. LET z == Pushed(b, old, n)
          IN /\ z \in Seq(Nat)
             /\ Len(z) = (IF n <= Len(b) + Len(old) THEN n ELSE Len(b) + Len(old))
             /\ \A i \in 1..Len(z) :
                  z[i] = IF i <= Len(b) THEN b[Len(b) - i + 1] ELSE old[i - Len(b)]
      BY PushedIs
    <2>4. QED
      BY <2>1, <2>2, <2>3
  <1> HIDE DEF p, q
  <1>5. <<x>> \in Seq(Nat) /\ Len(<<x>>) = 1 /\ <<x>>[1] = x
    OBVIOUS
  <1>6. /\ c \in Seq(Nat) /\ Len(c) = 1 + Len(p)
        /\ \A i \in 1..(1 + Len(p)) : c[i] = IF i <= 1 THEN x ELSE p[i - 1]
    <2>1. /\ c \in Seq(Nat) /\ Len(c) = Len(<<x>>) + Len(p)
          /\ \A i \in 1..(Len(<<x>>) + Len(p)) :
               c[i] = IF i <= Len(<<x>>) THEN <<x>>[i] ELSE p[i - Len(<<x>>)]
      BY <1>3, <1>5, ConcatProperties
    <2> HIDE DEF c
    <2>2. Len(p) \in Nat
      BY <1>1, <1>3
    <2>3. ASSUME NEW i \in 1..(1 + Len(p))
          PROVE  c[i] = IF i <= 1 THEN x ELSE p[i - 1]
      BY <1>5, <2>1, <2>2
    <2>4. QED
      BY <1>5, <2>1, <2>3
  <1> HIDE DEF c
  <1>7. /\ f \in Seq(Nat) /\ Len(f) = (IF n <= Len(c) THEN n ELSE Len(c))
        /\ \A i \in 1..Len(f) : f[i] = c[i]
    BY <1>6, FirstOfIs
  <1> HIDE DEF f
  <1>8. PICK N \in Nat : N = Len(new) /\ Len(a) = N + 1
    BY <1>1, <1>2
  <1>9. PICK P \in Nat : P = Len(p) /\ Len(c) = P + 1
    <2>1. Len(p) \in Nat
      BY <1>3, LenProperties
    <2>2. QED
      BY <1>6, <2>1
  <1>10. PICK Q \in Nat : Q = Len(q)
    BY <1>4, LenProperties
  <1>11. PICK O \in Nat : O = Len(old)
    BY <1>1
  <1>12. /\ P = (IF n <= N + O THEN n ELSE N + O)
         /\ Q = (IF n <= N + 1 + O THEN n ELSE N + 1 + O)
         /\ Len(f) = (IF n <= P + 1 THEN n ELSE P + 1)
    BY <1>3, <1>4, <1>7, <1>8, <1>9, <1>10, <1>11
  <1>13. Len(f) = Q /\ Q <= P + 1
    BY <1>12
  <1>14. ASSUME NEW i \in 1..Q PROVE q[i] = f[i]
    <2>1. i \in 1..(P + 1) /\ f[i] = c[i]
      BY <1>7, <1>13
    <2>2. q[i] = IF i <= N + 1 THEN a[N + 1 - i + 1] ELSE old[i - (N + 1)]
      BY <1>4, <1>8, <1>10
    <2>3. c[i] = IF i <= 1 THEN x ELSE p[i - 1]
      <3>1. 1 + P = P + 1
        OBVIOUS
      <3>2. QED
        BY <1>6, <1>9, <2>1, <3>1
    <2>4. CASE i = 1
      <3>1. N + 1 - i + 1 = N + 1 /\ i <= N + 1
        BY <2>4
      <3>2. QED
        BY <1>2, <1>8, <2>1, <2>2, <2>3, <2>4, <3>1
    <2>5. CASE i # 1
      <3>1. PICK h \in 1..P : h = i - 1
        BY <2>1, <2>5
      <3>2. f[i] = p[h] /\ i = h + 1
        BY <2>1, <2>3, <3>1
      <3>3. p[h] = IF h <= N THEN new[N - h + 1] ELSE old[h - N]
        BY <1>3, <1>8, <1>9
      <3>4. CASE h <= N
        <4>1. PICK j \in 1..N : j = N - h + 1
          BY <3>4
        <4>2. N + 1 - i + 1 = j /\ i <= N + 1
          BY <3>2, <3>4, <4>1
        <4>3. a[j] = new[j]
          BY <1>2, <1>8
        <4>4. QED
          BY <2>2, <3>2, <3>3, <3>4, <4>1, <4>2, <4>3
      <3>5. CASE ~(h <= N)
        <4>1. i - (N + 1) = h - N /\ ~(i <= N + 1)
          BY <3>2, <3>5
        <4>2. QED
          BY <2>2, <3>2, <3>3, <3>5, <4>1
      <3>6. QED
        BY <3>4, <3>5
    <2>6. QED
      BY <2>4, <2>5
  <1>15. q = f
    BY <1>4, <1>7, <1>13, <1>14, <1>10, SeqEqual
  <1>16. QED
    BY <1>15 DEF q, f, c, p, a

(* A newer deal in front.                                                  *)
LEMMA NewestMore ==
  ASSUME NEW s \in Seq(Nat), NEW ids, ids \subseteq Nat, NEW n \in Nat, NEW x \in Nat,
         \A id \in ids : id < x, Newest(s, ids, n)
  PROVE  Newest(FirstOf(<<x>> \o s, n), ids \cup {x}, n)
  <1> DEFINE c == <<x>> \o s
             f == FirstOf(c, n)
  <1>1. Len(s) \in Nat /\ DOMAIN s = 1..Len(s) /\ \A i \in 1..Len(s) : s[i] \in Nat
    BY LenProperties, ElementOfSeq
  <1>2. <<x>> \in Seq(Nat) /\ Len(<<x>>) = 1 /\ <<x>>[1] = x
    OBVIOUS
  <1>3. /\ c \in Seq(Nat) /\ Len(c) = 1 + Len(s)
        /\ \A i \in 1..(1 + Len(s)) : c[i] = IF i <= 1 THEN x ELSE s[i - 1]
    <2>1. /\ c \in Seq(Nat) /\ Len(c) = Len(<<x>>) + Len(s)
          /\ \A i \in 1..(Len(<<x>>) + Len(s)) :
               c[i] = IF i <= Len(<<x>>) THEN <<x>>[i] ELSE s[i - Len(<<x>>)]
      BY <1>2, ConcatProperties
    <2> HIDE DEF c
    <2>2. ASSUME NEW i \in 1..(1 + Len(s))
          PROVE  c[i] = IF i <= 1 THEN x ELSE s[i - 1]
      BY <1>1, <1>2, <2>1
    <2>3. QED
      BY <1>2, <2>1, <2>2
  <1> HIDE DEF c
  <1>4. /\ f \in Seq(Nat) /\ Len(f) = (IF n <= Len(c) THEN n ELSE Len(c))
        /\ \A i \in 1..Len(f) : f[i] = c[i]
    BY <1>3, FirstOfIs
  <1> HIDE DEF f
  <1>5. DOMAIN f = 1..Len(f) /\ Len(f) \in Nat /\ Len(f) <= n /\ Len(f) <= 1 + Len(s)
    <2>1. DOMAIN f = 1..Len(f) /\ Len(f) \in Nat
      BY <1>4, LenProperties
    <2>2. QED
      BY <1>1, <1>3, <1>4, <2>1
  <1>6. \A i \in 1..Len(f) : f[i] = IF i = 1 THEN x ELSE s[i - 1]
    <2>1. ASSUME NEW i \in 1..Len(f) PROVE f[i] = IF i = 1 THEN x ELSE s[i - 1]
      BY <1>1, <1>3, <1>4, <1>5
    <2>2. QED
      BY <2>1
  <1>7. PICK l \in Nat : l = Len(s)
    BY <1>1
  <1>8. PICK k \in Nat : k = Len(f) /\ k <= n /\ k <= 1 + l /\ (k = n \/ k = 1 + l)
    <2>1. Len(f) = IF n <= 1 + l THEN n ELSE 1 + l
      BY <1>3, <1>4, <1>7
    <2>2. QED
      BY <1>5, <2>1
  <1>9. /\ \A i \in 1..l : s[i] \in ids /\ s[i] \in Nat
        /\ \A i, j \in 1..l : i < j => s[i] > s[j]
        /\ l <= n
        /\ \A id \in ids : (\A i \in 1..l : s[i] # id) => l = n /\ \A i \in 1..l : s[i] > id
    BY <1>1, <1>7 DEF Newest, ToSet
  <1>10. ASSUME NEW i \in 1..k
         PROVE  \/ i = 1 /\ f[i] = x
                \/ \E h \in 1..l : i = h + 1 /\ f[i] = s[h]
    <2>1. f[i] = IF i = 1 THEN x ELSE s[i - 1]
      BY <1>6, <1>8
    <2>2. CASE i = 1
      BY <2>1, <2>2
    <2>3. CASE i # 1
      <3>1. PICK h \in 1..l : h = i - 1
        BY <1>8, <2>3
      <3>2. i = h + 1
        BY <3>1
      <3>3. QED
        BY <2>1, <2>3, <3>1, <3>2
    <2>4. QED
      BY <2>2, <2>3
  <1>11. \A i \in 1..k : f[i] \in ids \cup {x}
    BY <1>9, <1>10
  <1>12. ASSUME NEW i \in 1..k, NEW j \in 1..k, i < j PROVE f[i] > f[j]
    <2>1. PICK h \in 1..l : j = h + 1 /\ f[j] = s[h]
      BY <1>12, <1>10
    <2>2. CASE i = 1
      <3>1. s[h] < x /\ s[h] \in Nat
        BY <1>9
      <3>2. f[i] = x
        BY <1>10, <2>2
      <3>3. QED
        BY <2>1, <3>1, <3>2
    <2>3. CASE i # 1
      <3>1. PICK g \in 1..l : i = g + 1 /\ f[i] = s[g]
        BY <1>10, <2>3
      <3>2. g < h
        BY <1>12, <2>1, <3>1
      <3>3. QED
        BY <1>9, <2>1, <3>1, <3>2
    <2>4. QED
      BY <2>2, <2>3
  <1>13. ASSUME NEW id \in ids \cup {x}, \A i \in 1..k : f[i] # id
         PROVE  k = n /\ \A i \in 1..k : f[i] > id
    <2>1. CASE k = 0
      BY <1>8, <2>1
    <2>2. CASE k # 0
      <3>1. 1 \in 1..k
        BY <2>2
      <3>2. id # x /\ id \in ids /\ id \in Nat /\ x > id
        BY <1>10, <1>13, <3>1
      <3>3. CASE \E i \in 1..l : s[i] = id
        <4>1. PICK i \in 1..l : s[i] = id
          BY <3>3
        <4>2. ~(i + 1 \in 1..k)
          <5>1. SUFFICES ASSUME i + 1 \in 1..k PROVE FALSE
            OBVIOUS
          <5>2. PICK h \in 1..l : i + 1 = h + 1 /\ f[i + 1] = s[h]
            <6>1. i + 1 # 1
              OBVIOUS
            <6>2. QED
              BY <1>10, <5>1, <6>1
          <5>3. h = i
            BY <5>2
          <5>4. QED
            BY <1>13, <4>1, <5>1, <5>2, <5>3
        <4>3. k <= i /\ k = n
          BY <1>8, <4>2
        <4>4. ASSUME NEW j \in 1..k PROVE f[j] > id
          <5>1. CASE f[j] = x
            BY <3>2, <5>1
          <5>2. CASE \E h \in 1..l : j = h + 1 /\ f[j] = s[h]
            <6>1. PICK h \in 1..l : j = h + 1 /\ f[j] = s[h]
              BY <5>2
            <6>2. h < i
              BY <4>3, <6>1
            <6>3. QED
              BY <1>9, <4>1, <6>1, <6>2
          <5>3. QED
            BY <1>10, <5>1, <5>2
        <4>5. QED
          BY <4>3, <4>4
      <3>4. CASE \A i \in 1..l : s[i] # id
        <4>1. l = n /\ \A i \in 1..l : s[i] > id
          BY <1>9, <3>2, <3>4
        <4>2. k = n
          BY <1>8, <4>1
        <4>3. ASSUME NEW j \in 1..k PROVE f[j] > id
          BY <1>10, <3>2, <4>1
        <4>4. QED
          BY <4>2, <4>3
      <3>5. QED
        BY <3>3, <3>4
    <2>3. QED
      BY <2>1, <2>2
  <1>14. Newest(f, ids \cup {x}, n)
    BY <1>5, <1>8, <1>11, <1>12, <1>13 DEF Newest, ToSet
  <1>15. QED
    BY <1>14 DEF f, c

--------------------------------------------------------------------------------
(* The invariant.                                                          *)

InfoSet ==
    [kline : [Types -> DictSet], update : SUBSET (Types \X Nat), deals : Seq(Nat),
     deals_json : Seq(Nat), last : Nat, touched : BOOLEAN]
RedisSet ==
    [kline : [Markets -> [Types -> DictSet]], deals : [Markets -> Seq(Nat)],
     last : [Markets -> Nat], offset : Seq(Nat)]

TypeOK ==
    /\ now \in Nat
    /\ topic \in Seq(MessageSet) /\ \A i \in 1..Len(topic) : topic[i].id \in {0, i}
    /\ mem \in [Markets -> InfoSet]
    /\ redis \in RedisSet /\ \A m \in Markets : Len(redis.deals[m]) <= MARKET_DEALS_MAX
    /\ last_offset \in Nat
    /\ at \in {"loop", "next", "update", "deals"}
    /\ markets \subseteq Markets /\ market \in Markets
    /\ ahead \in BOOLEAN /\ tainted \in BOOLEAN

(* The list has what was consumed last; the thread has seen room for one   *)
(* more, and what is in the list has been told.                            *)
ConsumerInv ==
    /\ position \in Nat /\ position <= Len(topic)
    /\ list \in Seq(Nat) /\ Len(list) <= position /\ Len(list) <= limit
    /\ consuming => Len(list) < limit
    /\ list # <<>> => pipe \/ taking
    /\ \A i \in 1..Len(list) : list[i] = position - Len(list) + i - 1

next_offset == position - Len(list)

(* What was counted, from begun to upto, and what of it was saved; what is *)
(* between the last message counted and the next one was no deal.  There   *)
(* is an offset of 0 before there is a message with it.                    *)
OffsetsInv ==
    /\ begun \in Nat /\ upto \in Int /\ saved \in Int
    /\ -1 <= saved /\ saved <= upto /\ upto < next_offset
    /\ begun <= upto + 1 /\ (saved >= 0 => begun <= saved + 1)
    /\ \A o \in (upto + 1)..(next_offset - 1) : topic[o + 1].id = 0
    /\ last_offset = IF upto = -1 THEN 0 ELSE upto
    /\ get_message_offset = IF saved = -1 THEN 0 ELSE saved

MemBucket(m, type, t) == Bucket(topic, m, type, t, begun, upto)
RedisBucket(m, type, t) == Bucket(topic, m, type, t, begun, saved)

(* What memory and Redis may not miss.                                     *)
MemCovers ==
    \A m \in Markets, type \in Types, t \in Nat :
        t >= Horizon(type) /\ <<m, type, t>> \notin gone =>
            Covers(topic, mem[m].kline[type], t, MemBucket(m, type, t))
RedisCovers ==
    \A m \in Markets, type \in Types, t \in Nat :
        t >= Horizon(type) /\ <<m, type, t>> \notin gone /\ <<m, type, t>> \notin lost =>
            Covers(topic, redis.kline[m][type], t, RedisBucket(m, type, t))

(* Redis has what memory has, but for what is noted or lost; what is noted *)
(* is there, unless it is too old.                                         *)
Synced ==
    \A m \in Markets, type \in Types, t \in Nat :
        /\ t >= Horizon(type) /\ <<type, t>> \notin mem[m].update /\ <<m, type, t>> \notin lost =>
             Agree(redis.kline[m][type], mem[m].kline[type], t)
        /\ t >= Horizon(type) /\ <<type, t>> \in mem[m].update =>
             t \in DOMAIN mem[m].kline[type]
DealsSynced ==
    \A m \in Markets : <<m, "deals", 0>> \notin lost =>
        mem[m].deals_json = Pushed(mem[m].deals, redis.deals[m], MARKET_DEALS_MAX)

(* The markets that a flush is done with, or passes over.                  *)
Done(m) == at # "loop" /\ m \notin markets /\ (at = "next" \/ m # market)
Flushed ==
    /\ \A m \in Markets : ~mem[m].touched \/ Done(m) =>
         mem[m].update = {} /\ mem[m].deals = <<>> /\ redis.last[m] = mem[m].last
    /\ at = "deals" => mem[market].update = {} /\ redis.last[market] = mem[market].last

(* Everything is as the deals make it.                                     *)
MemExact ==
    ~tainted => \A m \in Markets :
        /\ \A type \in Types, t \in Nat : t >= Horizon(type) =>
             Exactly(topic, mem[m].kline[type], t, MemBucket(m, type, t))
        /\ LastIs(topic, mem[m].last, DealsIn(topic, m, begun, upto))
        /\ Newest(mem[m].deals_json, Ids(topic, DealsIn(topic, m, begun, upto)), MARKET_DEALS_MAX)
RedisExact ==
    ~tainted /\ ~ahead /\ lost = {} => \A m \in Markets :
        /\ \A type \in Types, t \in Nat : t >= Horizon(type) =>
             Exactly(topic, redis.kline[m][type], t, RedisBucket(m, type, t))
        /\ LastIs(topic, redis.last[m], DealsIn(topic, m, begun, saved))
        /\ Newest(redis.deals[m], Ids(topic, DealsIn(topic, m, begun, saved)), MARKET_DEALS_MAX)

DataInv ==
    /\ MemCovers /\ RedisCovers /\ Synced /\ DealsSynced /\ Flushed
    /\ MemExact /\ RedisExact

PriceInv == TypeOK /\ ConsumerInv /\ OffsetsInv /\ DataInv
--------------------------------------------------------------------------------
(* Types.                                                                  *)

LEMMA HorizonInt == \A type \in Types : now \in Nat => Horizon(type) \in Int
  <1>1. SUFFICES ASSUME NEW type \in Types, now \in Nat PROVE Horizon(type) \in Int
    OBVIOUS
  <1>2. /\ MIN \in Nat \ {0} /\ HOUR \in Nat \ {0} /\ sec_max \in Nat
        /\ min_max \in Nat /\ hour_max \in Nat
    BY KlinesAssumption
  <1>3. PICK n \in Nat : n = now
    BY <1>1
  <1>4. Down(n, MIN) \in Int /\ Down(n, HOUR) \in Int
    BY <1>2, DownBounds
  <1>5. min_max * MIN \in Int /\ hour_max * HOUR \in Int
    BY <1>2
  <1>6. type \in {"sec", "min", "hour", "day"}
    BY TypesOf
  <1>7. QED
    BY <1>2, <1>3, <1>4, <1>5, <1>6 DEF Horizon

LEMMA MarketUpdateIs ==
  ASSUME NEW info \in InfoSet, NEW d \in MessageSet
  PROVE  LET u == market_update(info, d)
         IN /\ u \in InfoSet
            /\ \A type \in Types :
                 u.kline[type] = Counted(info.kline[type], Down(d.time, Unit(type)), d)
            /\ u.update = info.update \cup {<<type, Down(d.time, Unit(type))>> : type \in Types}
            /\ u.last = d.price /\ u.deals = Append(info.deals, d.id)
            /\ u.deals_json = FirstOf(<<d.id>> \o info.deals_json, MARKET_DEALS_MAX)
            /\ u.touched = TRUE
  <1> DEFINE u == market_update(info, d)
             t == [type \in Types |-> Down(d.time, Unit(type))]
             kline == [type \in Types |-> Counted(info.kline[type], t[type], d)]
             update == info.update \cup {<<type, t[type]>> : type \in Types}
             deals == Append(info.deals, d.id)
             json == FirstOf(<<d.id>> \o info.deals_json, MARKET_DEALS_MAX)
  <1>1. u = [info EXCEPT !.kline = kline, !.update = update, !.last = d.price,
                         !.deals = deals, !.deals_json = json, !.touched = TRUE]
    BY DEF market_update
  <1>2. /\ d.time \in Nat /\ d.price \in Nat /\ d.id \in Nat
        /\ info.kline \in [Types -> DictSet] /\ info.update \subseteq Types \X Nat
        /\ info.deals \in Seq(Nat) /\ info.deals_json \in Seq(Nat)
    BY DEF InfoSet, MessageSet
  <1>3. \A type \in Types : t[type] \in Nat
    <2>1. ASSUME NEW type \in Types PROVE Down(d.time, Unit(type)) \in Nat
      <3>1. PICK x \in Nat : x = d.time
        BY <1>2
      <3>2. PICK v \in Nat \ {0} : v = Unit(type)
        BY UnitNat, TypesOf
      <3>3. Down(x, v) \in Nat
        BY DownBounds
      <3>4. QED
        BY <3>1, <3>2, <3>3
    <2>2. QED
      BY <2>1
  <1> HIDE DEF t
  <1>4. kline \in [Types -> DictSet]
    <2>1. ASSUME NEW type \in Types PROVE Counted(info.kline[type], t[type], d) \in DictSet
      <3>1. PICK dict \in DictSet : dict = info.kline[type]
        BY <1>2
      <3>2. PICK x \in Nat : x = t[type]
        BY <1>3
      <3>3. Counted(dict, x, d) \in DictSet
        BY CountedIs
      <3>4. QED
        BY <3>1, <3>2, <3>3
    <2>2. QED
      BY <2>1
  <1>5. update \in SUBSET (Types \X Nat)
    BY <1>2, <1>3
  <1>6. deals \in Seq(Nat)
    BY <1>2, AppendProperties
  <1>7. json \in Seq(Nat)
    <2>1. <<d.id>> \in Seq(Nat)
      BY <1>2
    <2>2. PICK c \in Seq(Nat) : c = <<d.id>> \o info.deals_json
      BY <1>2, <2>1, ConcatProperties
    <2>3. FirstOf(c, MARKET_DEALS_MAX) \in Seq(Nat)
      BY PriceAssumption, FirstOfIs
    <2>4. QED
      BY <2>2, <2>3
  <1> HIDE DEF u, kline, update, deals, json
  <1>8. u \in InfoSet
    BY <1>1, <1>2, <1>4, <1>5, <1>6, <1>7 DEF InfoSet
  <1>9. /\ u.kline = kline /\ u.update = update /\ u.last = d.price
        /\ u.deals = deals /\ u.deals_json = json /\ u.touched = TRUE
    BY <1>1 DEF InfoSet
  <1>10. QED
    BY <1>8, <1>9 DEF u, kline, update, deals, json, t

LEMMA LoadMarketIs ==
  ASSUME TypeOK, NEW m \in Markets
  PROVE  LET i == load_market(m)
         IN /\ i \in InfoSet
            /\ \A type \in Types : i.kline[type] = From(redis.kline[m][type], Horizon(type))
            /\ i.update = {} /\ i.deals = <<>> /\ i.touched = TRUE
            /\ i.last = redis.last[m]
            /\ i.deals_json = redis.deals[m]
  <1> DEFINE i == load_market(m)
             kline == [type \in Types |-> From(redis.kline[m][type], Horizon(type))]
             json == FirstOf(redis.deals[m], MARKET_DEALS_MAX)
  <1>1. i = [create_market(m) EXCEPT !.kline = kline, !.deals_json = json,
                                     !.last = redis.last[m]]
    BY DEF load_market
  <1>2. /\ redis.kline[m] \in [Types -> DictSet]
        /\ redis.last[m] \in Nat /\ redis.deals[m] \in Seq(Nat)
        /\ Len(redis.deals[m]) <= MARKET_DEALS_MAX
    BY DEF TypeOK, RedisSet
  <1>3. kline \in [Types -> DictSet]
    <2>1. ASSUME NEW type \in Types PROVE From(redis.kline[m][type], Horizon(type)) \in DictSet
      <3>1. PICK dict \in DictSet : dict = redis.kline[m][type]
        BY <1>2
      <3>2. PICK h : h = Horizon(type)
        OBVIOUS
      <3>3. From(dict, h) \in DictSet
        BY FromIs
      <3>4. QED
        BY <3>1, <3>2, <3>3
    <2>2. QED
      BY <2>1
  <1>4. json \in Seq(Nat) /\ json = redis.deals[m]
    <2>1. PICK s \in Seq(Nat) : s = redis.deals[m] /\ Len(s) <= MARKET_DEALS_MAX
      BY <1>2
    <2>2. FirstOf(s, MARKET_DEALS_MAX) = s
      BY <2>1, PriceAssumption, FirstOfIs
    <2>3. QED
      BY <2>1, <2>2
  <1> HIDE DEF i, kline, json
  <1>5. create_market(m) \in InfoSet
    <2>1. [type \in Types |-> <<>>] \in [Types -> DictSet]
      BY NoKlines
    <2>2. <<>> \in Seq(Nat)
      OBVIOUS
    <2>3. QED
      BY <2>1, <2>2 DEF create_market, InfoSet
  <1>6. i \in InfoSet
    BY <1>1, <1>2, <1>3, <1>4, <1>5 DEF InfoSet
  <1>7. /\ i.kline = kline /\ i.deals_json = json /\ i.last = redis.last[m]
        /\ i.update = {} /\ i.deals = <<>> /\ i.touched = TRUE
    BY <1>1 DEF create_market
  <1>8. QED
    BY <1>4, <1>6, <1>7 DEF i, kline, json

(* Changes to one part of memory or of Redis.                              *)

LEMMA MemUpdateIs ==
  ASSUME NEW f \in [Markets -> InfoSet], NEW m \in Markets, NEW U \in SUBSET (Types \X Nat)
  PROVE  LET g == [f EXCEPT ![m].update = U]
         IN /\ g \in [Markets -> InfoSet] /\ g[m].update = U
            /\ \A n \in Markets :
                 /\ g[n].kline = f[n].kline /\ g[n].deals = f[n].deals
                 /\ g[n].deals_json = f[n].deals_json /\ g[n].last = f[n].last
                 /\ g[n].touched = f[n].touched
                 /\ n # m => g[n].update = f[n].update
  <1> DEFINE i == [f[m] EXCEPT !.update = U]
             g == [f EXCEPT ![m].update = U]
  <1>1. /\ i \in InfoSet /\ i.update = U /\ i.kline = f[m].kline /\ i.deals = f[m].deals
        /\ i.deals_json = f[m].deals_json /\ i.last = f[m].last /\ i.touched = f[m].touched
    <2>1. PICK j \in InfoSet : j = f[m]
      OBVIOUS
    <2>2. [j EXCEPT !.update = U] \in InfoSet
      BY DEF InfoSet
    <2>3. /\ [j EXCEPT !.update = U].update = U /\ [j EXCEPT !.update = U].kline = j.kline
          /\ [j EXCEPT !.update = U].deals = j.deals
          /\ [j EXCEPT !.update = U].deals_json = j.deals_json
          /\ [j EXCEPT !.update = U].last = j.last
          /\ [j EXCEPT !.update = U].touched = j.touched
      BY DEF InfoSet
    <2>4. QED
      BY <2>1, <2>2, <2>3
  <1>2. g = [f EXCEPT ![m] = i]
    OBVIOUS
  <1> HIDE DEF i, g
  <1>3. g \in [Markets -> InfoSet] /\ g[m] = i /\ \A n \in Markets : n # m => g[n] = f[n]
    BY <1>1, <1>2
  <1>4. QED
    BY <1>1, <1>3 DEF g

LEMMA MemDealsIs ==
  ASSUME NEW f \in [Markets -> InfoSet], NEW m \in Markets, NEW D \in Seq(Nat)
  PROVE  LET g == [f EXCEPT ![m].deals = D]
         IN /\ g \in [Markets -> InfoSet] /\ g[m].deals = D
            /\ \A n \in Markets :
                 /\ g[n].kline = f[n].kline /\ g[n].update = f[n].update
                 /\ g[n].deals_json = f[n].deals_json /\ g[n].last = f[n].last
                 /\ g[n].touched = f[n].touched
                 /\ n # m => g[n].deals = f[n].deals
  <1> DEFINE i == [f[m] EXCEPT !.deals = D]
             g == [f EXCEPT ![m].deals = D]
  <1>1. /\ i \in InfoSet /\ i.deals = D /\ i.kline = f[m].kline /\ i.update = f[m].update
        /\ i.deals_json = f[m].deals_json /\ i.last = f[m].last /\ i.touched = f[m].touched
    <2>1. PICK j \in InfoSet : j = f[m]
      OBVIOUS
    <2>2. [j EXCEPT !.deals = D] \in InfoSet
      BY DEF InfoSet
    <2>3. /\ [j EXCEPT !.deals = D].deals = D /\ [j EXCEPT !.deals = D].kline = j.kline
          /\ [j EXCEPT !.deals = D].update = j.update
          /\ [j EXCEPT !.deals = D].deals_json = j.deals_json
          /\ [j EXCEPT !.deals = D].last = j.last
          /\ [j EXCEPT !.deals = D].touched = j.touched
      BY DEF InfoSet
    <2>4. QED
      BY <2>1, <2>2, <2>3
  <1>2. g = [f EXCEPT ![m] = i]
    OBVIOUS
  <1> HIDE DEF i, g
  <1>3. g \in [Markets -> InfoSet] /\ g[m] = i /\ \A n \in Markets : n # m => g[n] = f[n]
    BY <1>1, <1>2
  <1>4. QED
    BY <1>1, <1>3 DEF g

LEMMA MemTouchedIs ==
  ASSUME NEW f \in [Markets -> InfoSet]
  PROVE  LET g == [n \in Markets |-> [f[n] EXCEPT !.touched = FALSE]]
         IN /\ g \in [Markets -> InfoSet]
            /\ \A n \in Markets :
                 /\ g[n].kline = f[n].kline /\ g[n].update = f[n].update
                 /\ g[n].deals_json = f[n].deals_json /\ g[n].last = f[n].last
                 /\ g[n].deals = f[n].deals /\ g[n].touched = FALSE
  <1>1. ASSUME NEW n \in Markets
        PROVE  LET i == [f[n] EXCEPT !.touched = FALSE]
               IN /\ i \in InfoSet /\ i.kline = f[n].kline /\ i.update = f[n].update
                  /\ i.deals_json = f[n].deals_json /\ i.last = f[n].last
                  /\ i.deals = f[n].deals /\ i.touched = FALSE
    <2>1. PICK j \in InfoSet : j = f[n]
      OBVIOUS
    <2>2. [j EXCEPT !.touched = FALSE] \in InfoSet
      BY DEF InfoSet
    <2>3. /\ [j EXCEPT !.touched = FALSE].kline = j.kline
          /\ [j EXCEPT !.touched = FALSE].update = j.update
          /\ [j EXCEPT !.touched = FALSE].deals_json = j.deals_json
          /\ [j EXCEPT !.touched = FALSE].last = j.last
          /\ [j EXCEPT !.touched = FALSE].deals = j.deals
          /\ [j EXCEPT !.touched = FALSE].touched = FALSE
      BY DEF InfoSet
    <2>4. QED
      BY <2>1, <2>2, <2>3
  <1>2. QED
    BY <1>1

LEMMA MemFromIs ==
  ASSUME NEW f \in [Markets -> InfoSet], NEW h \in [Types -> Int]
  PROVE  LET g == [n \in Markets |-> [f[n] EXCEPT
                     !.kline = [type \in Types |-> From(@[type], h[type])]]]
         IN /\ g \in [Markets -> InfoSet]
            /\ \A n \in Markets :
                 /\ \A type \in Types : g[n].kline[type] = From(f[n].kline[type], h[type])
                 /\ g[n].update = f[n].update /\ g[n].deals = f[n].deals
                 /\ g[n].deals_json = f[n].deals_json /\ g[n].last = f[n].last
                 /\ g[n].touched = f[n].touched
  <1>1. ASSUME NEW n \in Markets
        PROVE  LET i == [f[n] EXCEPT !.kline = [type \in Types |-> From(@[type], h[type])]]
               IN /\ i \in InfoSet
                  /\ \A type \in Types : i.kline[type] = From(f[n].kline[type], h[type])
                  /\ i.update = f[n].update /\ i.deals = f[n].deals
                  /\ i.deals_json = f[n].deals_json /\ i.last = f[n].last
                  /\ i.touched = f[n].touched
    <2>1. PICK j \in InfoSet : j = f[n]
      OBVIOUS
    <2> DEFINE k == [type \in Types |-> From(j.kline[type], h[type])]
               i == [j EXCEPT !.kline = k]
    <2>2. k \in [Types -> DictSet]
      <3>1. ASSUME NEW type \in Types PROVE From(j.kline[type], h[type]) \in DictSet
        <4>1. PICK dict \in DictSet : dict = j.kline[type]
          BY DEF InfoSet
        <4>2. From(dict, h[type]) \in DictSet
          BY FromIs
        <4>3. QED
          BY <4>1, <4>2
      <3>2. QED
        BY <3>1
    <2>3. \A type \in Types : k[type] = From(j.kline[type], h[type])
      OBVIOUS
    <2>4. [f[n] EXCEPT !.kline = [type \in Types |-> From(@[type], h[type])]] = i
      BY <2>1
    <2> HIDE DEF k
    <2>5. i \in InfoSet
      BY <2>2 DEF InfoSet
    <2>6. /\ i.kline = k /\ i.update = j.update /\ i.deals = j.deals
          /\ i.deals_json = j.deals_json /\ i.last = j.last /\ i.touched = j.touched
      BY DEF InfoSet
    <2> HIDE DEF i
    <2>7. QED
      BY <2>1, <2>3, <2>4, <2>5, <2>6
  <1>2. QED
    BY <1>1

LEMMA RedisKlineIs ==
  ASSUME NEW r \in RedisSet, NEW m \in Markets, NEW type \in Types, NEW w \in DictSet
  PROVE  LET q == [r EXCEPT !.kline[m][type] = w]
         IN /\ q \in RedisSet /\ q.kline[m][type] = w
            /\ q.deals = r.deals /\ q.last = r.last /\ q.offset = r.offset
            /\ \A n \in Markets, y \in Types :
                 n # m \/ y # type => q.kline[n][y] = r.kline[n][y]
  <1> DEFINE q == [r EXCEPT !.kline[m][type] = w]
             k == [r.kline EXCEPT ![m][type] = w]
  <1>1. r.kline \in [Markets -> [Types -> DictSet]]
    BY DEF RedisSet
  <1>2. /\ k \in [Markets -> [Types -> DictSet]] /\ k[m][type] = w
        /\ \A n \in Markets, y \in Types : n # m \/ y # type => k[n][y] = r.kline[n][y]
    <2>1. PICK g \in [Markets -> [Types -> DictSet]] : g = r.kline
      BY <1>1
    <2>2. PICK v \in [Types -> DictSet] : v = [g[m] EXCEPT ![type] = w]
      OBVIOUS
    <2>3. v[type] = w /\ \A y \in Types : y # type => v[y] = g[m][y]
      BY <2>2
    <2>4. [g EXCEPT ![m][type] = w] = [g EXCEPT ![m] = v]
      BY <2>2
    <2>5. /\ [g EXCEPT ![m] = v] \in [Markets -> [Types -> DictSet]]
          /\ [g EXCEPT ![m] = v][m] = v
          /\ \A n \in Markets : n # m => [g EXCEPT ![m] = v][n] = g[n]
      OBVIOUS
    <2>6. QED
      BY <2>1, <2>3, <2>4, <2>5
  <1>3. q = [r EXCEPT !.kline = k]
    OBVIOUS
  <1> HIDE DEF q, k
  <1>4. q \in RedisSet
    BY <1>2, <1>3 DEF RedisSet
  <1>5. q.kline = k /\ q.deals = r.deals /\ q.last = r.last /\ q.offset = r.offset
    BY <1>3 DEF RedisSet
  <1>6. QED
    BY <1>2, <1>4, <1>5 DEF q

LEMMA RedisRestIs ==
  ASSUME NEW r \in RedisSet, NEW m \in Markets
  PROVE  /\ \A x \in Nat :
              LET q == [r EXCEPT !.last[m] = x]
              IN /\ q \in RedisSet /\ q.last[m] = x
                 /\ q.kline = r.kline /\ q.deals = r.deals /\ q.offset = r.offset
                 /\ \A n \in Markets : n # m => q.last[n] = r.last[n]
         /\ \A d \in Seq(Nat) :
              LET q == [r EXCEPT !.deals[m] = d]
              IN /\ q \in RedisSet /\ q.deals[m] = d
                 /\ q.kline = r.kline /\ q.last = r.last /\ q.offset = r.offset
                 /\ \A n \in Markets : n # m => q.deals[n] = r.deals[n]
         /\ \A x \in Nat :
              LET q == [r EXCEPT !.offset = <<x>>]
              IN /\ q \in RedisSet /\ q.offset # <<>> /\ q.offset[1] = x
                 /\ q.kline = r.kline /\ q.deals = r.deals /\ q.last = r.last
  <1>1. ASSUME NEW x \in Nat
        PROVE  LET q == [r EXCEPT !.last[m] = x]
               IN /\ q \in RedisSet /\ q.last[m] = x
                  /\ q.kline = r.kline /\ q.deals = r.deals /\ q.offset = r.offset
                  /\ \A n \in Markets : n # m => q.last[n] = r.last[n]
    <2> DEFINE l == [r.last EXCEPT ![m] = x]
               q == [r EXCEPT !.last = l]
    <2>1. [r EXCEPT !.last[m] = x] = q
      OBVIOUS
    <2>2. r.last \in [Markets -> Nat]
      BY DEF RedisSet
    <2>3. /\ l \in [Markets -> Nat] /\ l[m] = x
          /\ \A n \in Markets : n # m => l[n] = r.last[n]
      BY <2>2
    <2> HIDE DEF l
    <2>4. q \in RedisSet
      BY <2>3 DEF RedisSet
    <2>5. q.last = l /\ q.kline = r.kline /\ q.deals = r.deals /\ q.offset = r.offset
      BY DEF RedisSet
    <2> HIDE DEF q
    <2>6. QED
      BY <2>1, <2>3, <2>4, <2>5
  <1>2. ASSUME NEW d \in Seq(Nat)
        PROVE  LET q == [r EXCEPT !.deals[m] = d]
               IN /\ q \in RedisSet /\ q.deals[m] = d
                  /\ q.kline = r.kline /\ q.last = r.last /\ q.offset = r.offset
                  /\ \A n \in Markets : n # m => q.deals[n] = r.deals[n]
    <2> DEFINE l == [r.deals EXCEPT ![m] = d]
               q == [r EXCEPT !.deals = l]
    <2>1. [r EXCEPT !.deals[m] = d] = q
      OBVIOUS
    <2>2. r.deals \in [Markets -> Seq(Nat)]
      BY DEF RedisSet
    <2>3. /\ l \in [Markets -> Seq(Nat)] /\ l[m] = d
          /\ \A n \in Markets : n # m => l[n] = r.deals[n]
      BY <2>2
    <2> HIDE DEF l
    <2>4. q \in RedisSet
      BY <2>3 DEF RedisSet
    <2>5. q.deals = l /\ q.kline = r.kline /\ q.last = r.last /\ q.offset = r.offset
      BY DEF RedisSet
    <2> HIDE DEF q
    <2>6. QED
      BY <2>1, <2>3, <2>4, <2>5
  <1>3. ASSUME NEW x \in Nat
        PROVE  LET q == [r EXCEPT !.offset = <<x>>]
               IN /\ q \in RedisSet /\ q.offset # <<>> /\ q.offset[1] = x
                  /\ q.kline = r.kline /\ q.deals = r.deals /\ q.last = r.last
    <2>1. PICK o \in Seq(Nat) : o = <<x>>
      <3>1. <<x>> \in Seq(Nat)
        OBVIOUS
      <3>2. QED
        BY <3>1
    <2>2. o # <<>> /\ o[1] = x
      <3>1. Len(<<x>>) = 1 /\ <<x>>[1] = x
        OBVIOUS
      <3>2. QED
        BY <2>1, <3>1, EmptySeq
    <2>3. [r EXCEPT !.offset = o] \in RedisSet
      BY DEF RedisSet
    <2>4. LET q == [r EXCEPT !.offset = o]
          IN q.offset = o /\ q.kline = r.kline /\ q.deals = r.deals /\ q.last = r.last
      BY DEF RedisSet
    <2>5. QED
      BY <2>1, <2>2, <2>3, <2>4
  <1>4. QED
    BY <1>1, <1>2, <1>3

--------------------------------------------------------------------------------
(* What the actions do, in terms of klines at a time.                      *)

LEMMA AgreeSelf == \A one, t : Agree(one, one, t)
  BY DEF Agree

LEMMA AgreeTrans ==
  \A one, other, third, t : Agree(one, other, t) /\ Agree(other, third, t) => Agree(one, third, t)
  BY DEF Agree

LEMMA WithAgrees ==
  ASSUME NEW dict \in DictSet, NEW other \in DictSet, NEW t \in DOMAIN other
  PROVE  /\ With(dict, t, other[t]) \in DictSet
         /\ Agree(With(dict, t, other[t]), other, t)
         /\ \A x : x # t => Agree(With(dict, t, other[t]), dict, x)
  <1>1. t \in Nat /\ other[t] \in KlineSet
    BY DictIs
  <1>2. PICK k \in KlineSet : k = other[t]
    BY <1>1
  <1>3. /\ With(dict, t, k) \in DictSet
        /\ DOMAIN With(dict, t, k) = DOMAIN dict \cup {t}
        /\ With(dict, t, k)[t] = k
        /\ \A x \in DOMAIN dict : x # t => With(dict, t, k)[x] = dict[x]
    BY <1>1, WithIs
  <1>4. QED
    BY <1>2, <1>3 DEF Agree

LEMMA CountedAgrees ==
  ASSUME NEW dict \in DictSet, NEW t \in Nat, NEW d \in MessageSet
  PROVE  /\ t \in DOMAIN Counted(dict, t, d)
         /\ \A x : x # t => Agree(Counted(dict, t, d), dict, x)
  <1>1. PICK k : k = kline_info_update(IF t \in DOMAIN dict THEN dict[t]
                                       ELSE kline_info_new(d.price), d)
    OBVIOUS
  <1>2. Counted(dict, t, d) = With(dict, t, k)
    BY <1>1 DEF Counted
  <1>3. QED
    BY <1>2 DEF With, Agree

LEMMA FromAgrees ==
  ASSUME NEW dict \in DictSet, NEW h
  PROVE  From(dict, h) \in DictSet /\ \A x : x >= h => Agree(From(dict, h), dict, x)
  BY FromIs DEF Agree

LEMMA WithoutAgrees ==
  ASSUME NEW dict \in DictSet, NEW t
  PROVE  /\ [s \in DOMAIN dict \ {t} |-> dict[s]] \in DictSet
         /\ \A x : x # t => Agree([s \in DOMAIN dict \ {t} |-> dict[s]], dict, x)
  BY WithoutIs DEF Agree

LEMMA TakeIs ==
  ASSUME TypeOK, ConsumerInv, OffsetsInv, Take(on_deals_message)
  PROVE  \E o \in Nat, d \in MessageSet :
           /\ o = next_offset /\ d = topic[o + 1] /\ o + 1 \in 1..Len(topic) /\ d.id \in {0, o + 1}
           /\ upto < o
           /\ taking /\ UNCHANGED <<position, consuming, pipe, taking>>
           /\ list' \in Seq(Nat) /\ Len(list') = Len(list) - 1
           /\ \A i \in 1..Len(list') : list'[i] = list[i + 1]
           /\ d.id = 0 => UNCHANGED <<mem, last_offset, upto>>
           /\ d.id # 0 => /\ mem' = [mem EXCEPT ![d.market] = market_update(mem[d.market], d)]
                          /\ last_offset' = o /\ upto' = o
  <1>1. /\ taking /\ list # <<>> /\ on_deals_message(Head(list)) /\ list' = Tail(list)
        /\ UNCHANGED <<position, consuming, pipe, taking>>
    BY DEF Take
  <1>2. PICK n \in Nat : n = Len(list)
    BY DEF ConsumerInv
  <1>3. /\ n # 0 /\ Head(list) = list[1] /\ list' \in Seq(Nat) /\ Len(list') = n - 1
        /\ \A i \in 1..Len(list') : list'[i] = list[i + 1]
    BY <1>1, <1>2, HeadTailProperties, EmptySeq DEF ConsumerInv
  <1>4. PICK o \in Nat : o = next_offset
    BY <1>2 DEF ConsumerInv, next_offset
  <1>5. Head(list) = o
    BY <1>2, <1>3, <1>4 DEF ConsumerInv, next_offset
  <1>6. o + 1 \in 1..Len(topic)
    BY <1>2, <1>3, <1>4 DEF ConsumerInv, next_offset, TypeOK
  <1>7. PICK d \in MessageSet : d = topic[o + 1]
    BY <1>6 DEF TypeOK
  <1>8. d.id \in {0, o + 1}
    BY <1>6, <1>7 DEF TypeOK
  <1>9. upto < o
    BY <1>4 DEF OffsetsInv
  <1>10. /\ d.id = 0 => UNCHANGED <<mem, last_offset, upto>>
         /\ d.id # 0 => /\ mem' = [mem EXCEPT ![d.market] = market_update(mem[d.market], d)]
                        /\ last_offset' = o /\ upto' = o
    BY <1>1, <1>5, <1>7 DEF on_deals_message
  <1>11. Len(list') = Len(list) - 1
    BY <1>2, <1>3
  <1>12. QED
    BY <1>1, <1>3, <1>4, <1>6, <1>7, <1>8, <1>9, <1>10, <1>11

(* A deal is counted in a kline of each type, and nothing else changes.    *)
LEMMA CountIs ==
  ASSUME NEW f \in [Markets -> InfoSet], NEW d \in MessageSet
  PROVE  LET m == d.market
             g == [f EXCEPT ![m] = market_update(f[m], d)]
             at_d(type) == Down(d.time, Unit(type))
         IN /\ m \in Markets /\ g \in [Markets -> InfoSet]
            /\ \A n \in Markets : n # m => g[n] = f[n]
            /\ \A type \in Types :
                 /\ at_d(type) \in Nat
                 /\ g[m].kline[type] = Counted(f[m].kline[type], at_d(type), d)
                 /\ \A t \in Nat : t # at_d(type) => Agree(g[m].kline[type], f[m].kline[type], t)
                 /\ at_d(type) \in DOMAIN g[m].kline[type]
                 /\ \A t \in Nat : <<type, t>> \in g[m].update <=>
                                      <<type, t>> \in f[m].update \/ t = at_d(type)
            /\ g[m].last = d.price /\ g[m].deals = Append(f[m].deals, d.id)
            /\ g[m].deals_json = FirstOf(<<d.id>> \o f[m].deals_json, MARKET_DEALS_MAX)
            /\ g[m].touched = TRUE
  <1>1. PICK m \in Markets : m = d.market
    BY DEF MessageSet
  <1>2. PICK info \in InfoSet : info = f[m]
    OBVIOUS
  <1> DEFINE u == market_update(info, d)
             g == [f EXCEPT ![m] = u]
  <1>3. /\ u \in InfoSet
        /\ \A type \in Types :
             u.kline[type] = Counted(info.kline[type], Down(d.time, Unit(type)), d)
        /\ u.update = info.update \cup {<<type, Down(d.time, Unit(type))>> : type \in Types}
        /\ u.last = d.price /\ u.deals = Append(info.deals, d.id)
        /\ u.deals_json = FirstOf(<<d.id>> \o info.deals_json, MARKET_DEALS_MAX)
        /\ u.touched = TRUE
    BY MarketUpdateIs
  <1>4. [f EXCEPT ![d.market] = market_update(f[d.market], d)] = g
    BY <1>1, <1>2
  <1> HIDE DEF u
  <1>5. g \in [Markets -> InfoSet] /\ g[m] = u /\ \A n \in Markets : n # m => g[n] = f[n]
    BY <1>3
  <1> HIDE DEF g
  <1>6. ASSUME NEW type \in Types
        PROVE  /\ Down(d.time, Unit(type)) \in Nat
               /\ Down(d.time, Unit(type)) \in DOMAIN u.kline[type]
               /\ \A t \in Nat : t # Down(d.time, Unit(type)) =>
                    Agree(u.kline[type], info.kline[type], t)
               /\ \A t \in Nat : <<type, t>> \in u.update <=>
                    <<type, t>> \in info.update \/ t = Down(d.time, Unit(type))
    <2>1. PICK x \in Nat : x = d.time
      BY DEF MessageSet
    <2>2. PICK v \in Nat \ {0} : v = Unit(type)
      BY UnitNat, TypesOf
    <2>3. PICK s \in Nat : s = Down(d.time, Unit(type))
      <3>1. Down(x, v) \in Nat
        BY DownBounds
      <3>2. QED
        BY <2>1, <2>2, <3>1
    <2>4. PICK dict \in DictSet : dict = info.kline[type]
      <3>1. info.kline \in [Types -> DictSet]
        BY DEF InfoSet
      <3>2. info.kline[type] \in DictSet
        BY <3>1
      <3>3. QED
        BY <3>2
    <2>5. /\ s \in DOMAIN Counted(dict, s, d)
          /\ \A y : y # s => Agree(Counted(dict, s, d), dict, y)
      BY CountedAgrees
    <2>6. u.kline[type] = Counted(dict, s, d)
      BY <1>3, <2>3, <2>4
    <2>7. \A t \in Nat : t # s => Agree(u.kline[type], info.kline[type], t)
      BY <2>4, <2>5, <2>6
    <2>8. ASSUME NEW t \in Nat
          PROVE  <<type, t>> \in u.update <=> <<type, t>> \in info.update \/ t = s
      BY <1>3, <2>3
    <2>9. QED
      BY <2>3, <2>5, <2>6, <2>7, <2>8
  <1>7. QED
    BY <1>1, <1>2, <1>3, <1>4, <1>5, <1>6

(* What a kline's command comes to.                                        *)
LEMMA FlushKlineIs ==
  ASSUME TypeOK, flush_kline
  PROVE  /\ at = "update"
         /\ UNCHANGED <<consumer, now, topic, at, markets, market, last_offset,
                        begun, upto, saved, gone, tainted>>
         /\ mem' \in [Markets -> InfoSet] /\ redis' \in RedisSet /\ ahead' \in BOOLEAN
         /\ redis'.deals = redis.deals /\ redis'.last = redis.last /\ redis'.offset = redis.offset
         /\ \A n \in Markets :
              /\ mem'[n].kline = mem[n].kline /\ mem'[n].deals = mem[n].deals
              /\ mem'[n].deals_json = mem[n].deals_json /\ mem'[n].last = mem[n].last
              /\ mem'[n].touched = mem[n].touched
              /\ n # market => mem'[n].update = mem[n].update
         /\ \E type \in Types, t \in Nat :
              /\ <<type, t>> \in mem[market].update
              /\ mem'[market].update = mem[market].update \ {<<type, t>>}
              /\ \A n \in Markets, y \in Types, x \in Nat : <<n, y, x>> # <<market, type, t>> =>
                   Agree(redis'.kline[n][y], redis.kline[n][y], x)
              /\ \/ /\ t \notin DOMAIN mem[market].kline[type]
                    /\ UNCHANGED <<redis, ahead, lost>>
                 \/ /\ lost' = lost \cup {<<market, type, t>>}
                    /\ UNCHANGED <<redis, ahead>>
                 \/ /\ lost' = lost \ {<<market, type, t>>} /\ ahead' = TRUE
                    /\ Agree(redis'.kline[market][type], mem[market].kline[type], t)
  <1>1. PICK f \in [Markets -> InfoSet] : f = mem
    BY DEF TypeOK
  <1>2. PICK r \in RedisSet : r = redis
    BY DEF TypeOK
  <1>3. PICK m \in Markets : m = market
    BY DEF TypeOK
  <1>4. f[m].update \in SUBSET (Types \X Nat) /\ f[m].kline \in [Types -> DictSet]
        /\ r.kline \in [Markets -> [Types -> DictSet]]
    BY DEF InfoSet, RedisSet
  <1>5. PICK key \in f[m].update :
          /\ mem' = [f EXCEPT ![m].update = f[m].update \ {key}]
          /\ \/ /\ key[2] \notin DOMAIN f[m].kline[key[1]]
                /\ UNCHANGED <<consumer, environment, last_offset, broken, redis, history>>
             \/ /\ key[2] \in DOMAIN f[m].kline[key[1]]
                /\ \E outcome \in Outcomes :
                     /\ Command(outcome)
                     /\ IF Executed(outcome)
                        THEN /\ redis' = [r EXCEPT !.kline[m][key[1]] =
                                   With(@, key[2], f[m].kline[key[1]][key[2]])]
                             /\ ahead' = TRUE /\ lost' = lost \ {<<m, key[1], key[2]>>}
                        ELSE UNCHANGED <<redis, ahead>> /\ lost' = lost \cup {<<m, key[1], key[2]>>}
    BY <1>1, <1>2, <1>3 DEF flush_kline
  <1>6. PICK type \in Types, t \in Nat : key = <<type, t>> /\ key[1] = type /\ key[2] = t
    BY <1>4, <1>5
  <1>7. PICK dict \in DictSet : dict = f[m].kline[type]
    BY <1>4
  <1>8. PICK old \in DictSet : old = r.kline[m][type]
    <2>1. r.kline[m] \in [Types -> DictSet]
      BY <1>4
    <2>2. r.kline[m][type] \in DictSet
      BY <2>1
    <2>3. QED
      BY <2>2
  <1>9. /\ at = "update"
        /\ UNCHANGED <<consumer, now, topic, at, markets, market, last_offset,
                       begun, upto, saved, gone, tainted>>
    <2>1. at = "update" /\ UNCHANGED <<at, markets, market, saved>>
      BY DEF flush_kline
    <2>2. UNCHANGED <<consumer, now, topic, last_offset, begun, upto, gone, tainted>>
      BY <1>5 DEF Command, environment, history
    <2>3. QED
      BY <2>1, <2>2
  <1>10. PICK U \in SUBSET (Types \X Nat) : U = f[m].update \ {<<type, t>>}
    BY <1>4
  <1>11. /\ mem' \in [Markets -> InfoSet] /\ mem'[m].update = U
         /\ \A n \in Markets :
              /\ mem'[n].kline = f[n].kline /\ mem'[n].deals = f[n].deals
              /\ mem'[n].deals_json = f[n].deals_json /\ mem'[n].last = f[n].last
              /\ mem'[n].touched = f[n].touched
              /\ n # m => mem'[n].update = f[n].update
    <2>1. mem' = [f EXCEPT ![m].update = U]
      BY <1>5, <1>6, <1>10
    <2>2. LET g == [f EXCEPT ![m].update = U]
          IN /\ g \in [Markets -> InfoSet] /\ g[m].update = U
             /\ \A n \in Markets :
                  /\ g[n].kline = f[n].kline /\ g[n].deals = f[n].deals
                  /\ g[n].deals_json = f[n].deals_json /\ g[n].last = f[n].last
                  /\ g[n].touched = f[n].touched
                  /\ n # m => g[n].update = f[n].update
      BY MemUpdateIs
    <2>3. QED
      BY <2>1, <2>2
  <1> DEFINE RedisIs(new) ==
               /\ new \in RedisSet
               /\ new.deals = r.deals /\ new.last = r.last /\ new.offset = r.offset
               /\ \A n \in Markets, y \in Types, x \in Nat : <<n, y, x>> # <<m, type, t>> =>
                    Agree(new.kline[n][y], r.kline[n][y], x)
             Came == \/ t \notin DOMAIN dict /\ UNCHANGED <<redis, ahead, lost>>
                     \/ lost' = lost \cup {<<m, type, t>>} /\ UNCHANGED <<redis, ahead>>
                     \/ /\ lost' = lost \ {<<m, type, t>>} /\ ahead' = TRUE
                        /\ Agree(redis'.kline[m][type], dict, t)
  <1>12. ASSUME t \notin DOMAIN dict, UNCHANGED <<redis, ahead, lost>>
         PROVE  RedisIs(redis') /\ Came
    BY <1>2, <1>12, AgreeSelf
  <1>13. ASSUME lost' = lost \cup {<<m, type, t>>}, UNCHANGED <<redis, ahead>>
         PROVE  RedisIs(redis') /\ Came
    BY <1>2, <1>13, AgreeSelf
  <1>14. ASSUME t \in DOMAIN dict, lost' = lost \ {<<m, type, t>>}, ahead' = TRUE,
                redis' = [r EXCEPT !.kline[m][type] = With(@, t, dict[t])]
         PROVE  RedisIs(redis') /\ Came
    <2>1. PICK w \in DictSet : w = With(old, t, dict[t])
      <3>1. With(old, t, dict[t]) \in DictSet
        BY <1>14, WithAgrees
      <3>2. QED
        BY <3>1
    <2>2. redis' = [r EXCEPT !.kline[m][type] = w]
      BY <1>8, <1>14, <2>1
    <2>3. Agree(w, dict, t) /\ \A x : x # t => Agree(w, old, x)
      BY <1>14, <2>1, WithAgrees
    <2>4. LET q == [r EXCEPT !.kline[m][type] = w]
          IN /\ q \in RedisSet /\ q.kline[m][type] = w
             /\ q.deals = r.deals /\ q.last = r.last /\ q.offset = r.offset
             /\ \A n \in Markets, y \in Types :
                  n # m \/ y # type => q.kline[n][y] = r.kline[n][y]
      BY RedisKlineIs
    <2>5. ASSUME NEW n \in Markets, NEW y \in Types, NEW x \in Nat, <<n, y, x>> # <<m, type, t>>
          PROVE  Agree(redis'.kline[n][y], r.kline[n][y], x)
      <3>1. CASE n # m \/ y # type
        BY <2>2, <2>4, <3>1, AgreeSelf
      <3>2. CASE n = m /\ y = type
        BY <1>8, <2>2, <2>3, <2>4, <2>5, <3>2
      <3>3. QED
        BY <3>1, <3>2
    <2>6. RedisIs(redis')
      BY <2>2, <2>4, <2>5
    <2>7. Agree(redis'.kline[m][type], dict, t)
      BY <2>2, <2>3, <2>4
    <2>8. QED
      BY <1>14, <2>6, <2>7
  <1>15. RedisIs(redis') /\ Came
    <2>1. CASE t \notin DOMAIN dict
      BY <1>5, <1>6, <1>7, <1>12, <1>13, <1>14, <2>1 DEF history
    <2>2. CASE t \in DOMAIN dict
      <3>1. PICK outcome \in Outcomes :
                 IF Executed(outcome)
                 THEN /\ redis' = [r EXCEPT !.kline[m][type] = With(@, t, dict[t])]
                      /\ ahead' = TRUE /\ lost' = lost \ {<<m, type, t>>}
                 ELSE UNCHANGED <<redis, ahead>> /\ lost' = lost \cup {<<m, type, t>>}
        BY <1>5, <1>6, <1>7, <2>2
      <3>2. QED
        BY <1>13, <1>14, <2>2, <3>1
    <2>3. QED
      BY <2>1, <2>2
  <1>16. ahead' \in BOOLEAN
    BY <1>15 DEF TypeOK
  <1>17. <<type, t>> \in f[m].update
    BY <1>5, <1>6
  <1>18. QED
    <2>1. \A n \in Markets, y \in Types, x \in Nat : <<n, y, x>> # <<market, type, t>> =>
            Agree(redis'.kline[n][y], redis.kline[n][y], x)
      BY <1>2, <1>3, <1>15
    <2>2. mem'[market].update = mem[market].update \ {<<type, t>>}
      BY <1>1, <1>3, <1>10, <1>11
    <2>3. \/ t \notin DOMAIN mem[market].kline[type] /\ UNCHANGED <<redis, ahead, lost>>
          \/ lost' = lost \cup {<<market, type, t>>} /\ UNCHANGED <<redis, ahead>>
          \/ /\ lost' = lost \ {<<market, type, t>>} /\ ahead' = TRUE
             /\ Agree(redis'.kline[market][type], mem[market].kline[type], t)
      BY <1>1, <1>3, <1>7, <1>15
    <2>4. redis' \in RedisSet /\ redis'.deals = redis.deals /\ redis'.last = redis.last
          /\ redis'.offset = redis.offset
      BY <1>2, <1>15
    <2> HIDE DEF RedisIs, Came
    <2>5. <<type, t>> \in mem[market].update
      BY <1>1, <1>3, <1>17
    <2>6. /\ mem' \in [Markets -> InfoSet]
          /\ \A n \in Markets :
              /\ mem'[n].kline = mem[n].kline /\ mem'[n].deals = mem[n].deals
              /\ mem'[n].deals_json = mem[n].deals_json /\ mem'[n].last = mem[n].last
              /\ mem'[n].touched = mem[n].touched
              /\ n # market => mem'[n].update = mem[n].update
      BY <1>1, <1>3, <1>11
    <2>7. QED
      BY <1>9, <1>16, <2>1, <2>2, <2>3, <2>4, <2>5, <2>6

(* Of the last price's.                                                    *)
LEMMA FlushLastIs ==
  ASSUME TypeOK, flush_last
  PROVE  /\ at = "update" /\ mem[market].update = {}
         /\ UNCHANGED <<consumer, now, topic, mem, markets, market, last_offset,
                        begun, upto, saved, lost, gone, tainted>>
         /\ redis' \in RedisSet /\ ahead' \in BOOLEAN
         /\ redis'.kline = redis.kline /\ redis'.deals = redis.deals
         /\ redis'.offset = redis.offset
         /\ \A n \in Markets : n # market => redis'.last[n] = redis.last[n]
         /\ redis'.last[market] \in {redis.last[market], mem[market].last}
         /\ ahead' = TRUE \/ UNCHANGED <<redis, ahead>>
         /\ at' \in {"loop", "next", "deals"}
         /\ at' # "loop" => redis'.last[market] = mem[market].last
         /\ at' = "next" => mem[market].deals = <<>>
  <1>1. PICK outcome \in Outcomes :
          /\ Command(outcome)
          /\ redis' = IF Executed(outcome) THEN [redis EXCEPT !.last[market] = mem[market].last]
                      ELSE redis
          /\ ahead' = (ahead \/ redis' # redis)
          /\ at' = IF outcome # "done" THEN "loop"
                   ELSE IF mem[market].deals = <<>> THEN "next" ELSE "deals"
    BY DEF flush_last
  <1>2. PICK r \in RedisSet : r = redis
    BY DEF TypeOK
  <1>3. PICK m \in Markets : m = market
    BY DEF TypeOK
  <1>4. PICK x \in Nat : x = mem[market].last
    BY DEF TypeOK, InfoSet
  <1>5. /\ at = "update" /\ mem[market].update = {}
        /\ UNCHANGED <<consumer, now, topic, mem, markets, market, last_offset,
                       begun, upto, saved, lost, gone, tainted>>
    BY <1>1 DEF flush_last, Command
  <1>6. LET q == [r EXCEPT !.last[m] = x]
        IN /\ q \in RedisSet /\ q.last[m] = x
           /\ q.kline = r.kline /\ q.deals = r.deals /\ q.offset = r.offset
           /\ \A n \in Markets : n # m => q.last[n] = r.last[n]
    BY RedisRestIs
  <1>7. PICK q \in RedisSet :
           /\ q = [r EXCEPT !.last[m] = x] /\ q.last[m] = x
           /\ q.kline = r.kline /\ q.deals = r.deals /\ q.offset = r.offset
           /\ \A n \in Markets : n # m => q.last[n] = r.last[n]
    BY <1>6
  <1>8. redis' = IF Executed(outcome) THEN q ELSE r
    BY <1>1, <1>2, <1>3, <1>4, <1>7
  <1>9. /\ redis' \in RedisSet
        /\ redis'.kline = r.kline /\ redis'.deals = r.deals /\ redis'.offset = r.offset
        /\ \A n \in Markets : n # m => redis'.last[n] = r.last[n]
        /\ redis'.last[m] \in {r.last[m], x}
    BY <1>7, <1>8
  <1>10. ahead' \in BOOLEAN /\ (ahead' = TRUE \/ UNCHANGED <<redis, ahead>>)
    <2>1. ahead \in BOOLEAN
      BY DEF TypeOK
    <2>2. CASE redis' = redis
      BY <1>1, <2>1, <2>2
    <2>3. CASE redis' # redis
      BY <1>1, <2>3
    <2>4. QED
      BY <2>2, <2>3
  <1>11. /\ at' \in {"loop", "next", "deals"}
         /\ at' = "next" => mem[market].deals = <<>>
         /\ at' # "loop" => outcome = "done"
    BY <1>1
  <1>12. at' # "loop" => redis'.last[m] = x
    BY <1>7, <1>8, <1>11 DEF Executed
  <1>13. QED
    BY <1>2, <1>3, <1>4, <1>5, <1>9, <1>10, <1>11, <1>12

(* Of the deals'.                                                          *)
LEMMA FlushDealsIs ==
  ASSUME TypeOK, flush_deals
  PROVE  /\ at = "deals"
         /\ UNCHANGED <<consumer, now, topic, markets, market, last_offset,
                        begun, upto, saved, gone, tainted>>
         /\ mem' \in [Markets -> InfoSet] /\ redis' \in RedisSet /\ ahead' \in BOOLEAN
         /\ \A n \in Markets :
              /\ mem'[n].kline = mem[n].kline /\ mem'[n].update = mem[n].update
              /\ mem'[n].deals_json = mem[n].deals_json /\ mem'[n].last = mem[n].last
              /\ mem'[n].touched = mem[n].touched
              /\ n # market => mem'[n].deals = mem[n].deals
              /\ n # market => redis'.deals[n] = redis.deals[n]
              /\ Len(redis'.deals[n]) <= MARKET_DEALS_MAX
         /\ redis'.kline = redis.kline /\ redis'.last = redis.last /\ redis'.offset = redis.offset
         /\ at' \in {"next", "loop"}
         /\ at' = "next" => mem'[market].deals = <<>>
         /\ at' = "loop" => UNCHANGED mem
         /\ lost' = lost \/ lost' = lost \cup {<<market, "deals", 0>>}
         /\ \/ <<market, "deals", 0>> \in lost'
            \/ /\ redis'.deals[market] =
                    Pushed(mem[market].deals, redis.deals[market], MARKET_DEALS_MAX)
               /\ mem'[market].deals = <<>>
            \/ UNCHANGED <<redis, mem>>
         /\ ahead' = TRUE \/ lost' # {} \/ UNCHANGED <<redis, ahead, lost>>
  <1>1. PICK outcome \in Outcomes :
          /\ Command(outcome)
          /\ redis' = IF Executed(outcome)
                      THEN [redis EXCEPT !.deals[market] =
                              FirstOf(Reverse(mem[market].deals) \o @, MARKET_DEALS_MAX)]
                      ELSE redis
          /\ ahead' = (ahead \/ Executed(outcome))
          /\ lost' = IF outcome \in {"refused", "unanswered"}
                     THEN lost \cup {<<market, "deals", 0>>} ELSE lost
          /\ IF outcome \in {"done", "refused"}
             THEN at' = "next" /\ mem' = [mem EXCEPT ![market].deals = <<>>]
             ELSE at' = "loop" /\ mem' = mem
    BY DEF flush_deals
  <1>2. PICK r \in RedisSet : r = redis
    BY DEF TypeOK
  <1>3. PICK m \in Markets : m = market
    BY DEF TypeOK
  <1>4. PICK f \in [Markets -> InfoSet] : f = mem
    BY DEF TypeOK
  <1>5. PICK g \in [Markets -> InfoSet] :
           /\ g = [f EXCEPT ![m].deals = <<>>] /\ g[m].deals = <<>>
           /\ \A n \in Markets :
                /\ g[n].kline = f[n].kline /\ g[n].update = f[n].update
                /\ g[n].deals_json = f[n].deals_json /\ g[n].last = f[n].last
                /\ g[n].touched = f[n].touched
                /\ n # m => g[n].deals = f[n].deals
    <2>1. PICK e \in Seq(Nat) : e = <<>>
      <3>1. <<>> \in Seq(Nat)
        OBVIOUS
      <3>2. QED
        BY <3>1
    <2>2. LET h == [f EXCEPT ![m].deals = e]
          IN /\ h \in [Markets -> InfoSet] /\ h[m].deals = e
             /\ \A n \in Markets :
                /\ h[n].kline = f[n].kline /\ h[n].update = f[n].update
                /\ h[n].deals_json = f[n].deals_json /\ h[n].last = f[n].last
                /\ h[n].touched = f[n].touched
                /\ n # m => h[n].deals = f[n].deals
      BY MemDealsIs
    <2>3. QED
      BY <2>1, <2>2
  <1>6. r.deals \in [Markets -> Seq(Nat)] /\ f[m].deals \in Seq(Nat)
    BY DEF RedisSet, InfoSet
  <1>7. PICK old \in Seq(Nat) : old = r.deals[m]
    BY <1>6
  <1>8. PICK new \in Seq(Nat) : new = f[m].deals
    BY <1>6
  <1>9. PICK p \in Seq(Nat) : p = Pushed(new, old, MARKET_DEALS_MAX) /\ Len(p) <= MARKET_DEALS_MAX
    <2>1. PICK k \in Nat : k = MARKET_DEALS_MAX
      BY PriceAssumption
    <2>2. /\ Pushed(new, old, k) \in Seq(Nat)
          /\ Len(Pushed(new, old, k)) = (IF k <= Len(new) + Len(old) THEN k ELSE Len(new) + Len(old))
      BY PushedIs
    <2>3. Len(Pushed(new, old, k)) <= k
      BY <2>2
    <2>4. QED
      BY <2>1, <2>2, <2>3
  <1>10. PICK q \in RedisSet :
           /\ q = [r EXCEPT !.deals[m] = p] /\ q.deals[m] = p
           /\ q.kline = r.kline /\ q.last = r.last /\ q.offset = r.offset
           /\ \A n \in Markets : n # m => q.deals[n] = r.deals[n]
    <2>1. LET q == [r EXCEPT !.deals[m] = p]
          IN /\ q \in RedisSet /\ q.deals[m] = p
             /\ q.kline = r.kline /\ q.last = r.last /\ q.offset = r.offset
             /\ \A n \in Markets : n # m => q.deals[n] = r.deals[n]
      BY RedisRestIs
    <2>2. QED
      BY <2>1
  <1>11. redis' = IF Executed(outcome) THEN q ELSE r
    <2>1. [redis EXCEPT !.deals[market] =
             FirstOf(Reverse(mem[market].deals) \o @, MARKET_DEALS_MAX)] = [r EXCEPT !.deals[m] = p]
      BY <1>2, <1>3, <1>4, <1>7, <1>8, <1>9 DEF Pushed
    <2>2. QED
      BY <1>1, <1>2, <1>10, <2>1
  <1>12. mem' = IF outcome \in {"done", "refused"} THEN g ELSE f
    BY <1>1, <1>3, <1>4, <1>5
  <1>13. outcome \in {"done", "refused", "failed", "unanswered"}
    BY <1>1 DEF Outcomes
  <1>14. /\ at = "deals"
         /\ UNCHANGED <<consumer, now, topic, markets, market, last_offset,
                        begun, upto, saved, gone, tainted>>
    BY <1>1 DEF flush_deals, Command
  <1>15. /\ redis' \in RedisSet
         /\ redis'.kline = r.kline /\ redis'.last = r.last /\ redis'.offset = r.offset
         /\ \A n \in Markets : n # m => redis'.deals[n] = r.deals[n]
         /\ Executed(outcome) => redis'.deals[m] = p
         /\ ~Executed(outcome) => redis' = r
    BY <1>10, <1>11
  <1>16. /\ mem' \in [Markets -> InfoSet]
         /\ \A n \in Markets :
                /\ mem'[n].kline = f[n].kline /\ mem'[n].update = f[n].update
                /\ mem'[n].deals_json = f[n].deals_json /\ mem'[n].last = f[n].last
                /\ mem'[n].touched = f[n].touched
                /\ n # m => mem'[n].deals = f[n].deals
         /\ outcome \in {"done", "refused"} => mem'[m].deals = <<>>
         /\ outcome \notin {"done", "refused"} => mem' = f
    BY <1>5, <1>12
  <1>17. ASSUME NEW n \in Markets PROVE Len(redis'.deals[n]) <= MARKET_DEALS_MAX
    <2>1. Len(r.deals[n]) <= MARKET_DEALS_MAX
      BY <1>2 DEF TypeOK
    <2>2. redis'.deals[n] = p \/ redis'.deals[n] = r.deals[n]
      BY <1>15
    <2>3. QED
      BY <1>9, <2>1, <2>2
  <1>18. /\ at' \in {"next", "loop"}
         /\ at' = "next" => outcome \in {"done", "refused"}
         /\ at' = "loop" => UNCHANGED mem
         /\ lost' = lost \/ lost' = lost \cup {<<m, "deals", 0>>}
         /\ outcome \in {"refused", "unanswered"} => <<m, "deals", 0>> \in lost'
         /\ outcome \notin {"refused", "unanswered"} => lost' = lost
    BY <1>1, <1>3
  <1>19. ahead' \in BOOLEAN /\ (ahead' = TRUE \/ lost' # {} \/ UNCHANGED <<redis, ahead, lost>>)
    <2>1. ahead \in BOOLEAN
      BY DEF TypeOK
    <2>2. CASE Executed(outcome)
      BY <1>1, <2>2
    <2>3. CASE ~Executed(outcome)
      <3>1. ahead' = ahead /\ redis' = redis
        BY <1>1, <2>1, <2>3
      <3>2. QED
        BY <1>18, <2>1, <3>1
    <2>4. QED
      BY <2>2, <2>3
  <1>20. \/ <<m, "deals", 0>> \in lost'
         \/ redis'.deals[m] = p /\ mem'[m].deals = <<>>
         \/ redis' = r /\ mem' = f
    BY <1>13, <1>15, <1>16, <1>18 DEF Executed
  <1>21. QED
    BY <1>2, <1>3, <1>4, <1>7, <1>8, <1>9, <1>14, <1>15, <1>16, <1>17, <1>18, <1>19, <1>20

(* Of the offset's.                                                        *)
LEMMA FlushOffsetIs ==
  ASSUME TypeOK, flush_offset
  PROVE  /\ at = "next" /\ markets = {} /\ at' = "loop"
         /\ UNCHANGED <<consumer, now, topic, markets, market, last_offset,
                        begun, upto, lost, gone, tainted>>
         /\ mem' \in [Markets -> InfoSet] /\ redis' \in RedisSet /\ ahead' \in BOOLEAN
         /\ \A n \in Markets :
              /\ mem'[n].kline = mem[n].kline /\ mem'[n].update = mem[n].update
              /\ mem'[n].deals_json = mem[n].deals_json /\ mem'[n].last = mem[n].last
              /\ mem'[n].deals = mem[n].deals
         /\ redis'.kline = redis.kline /\ redis'.last = redis.last /\ redis'.deals = redis.deals
         /\ \/ UNCHANGED <<redis, ahead, saved>>
            \/ redis'.offset # <<>> /\ redis'.offset[1] = last_offset /\ saved' = upto
  <1>1. PICK outcome \in Outcomes :
          /\ Command(outcome)
          /\ redis' = IF Executed(outcome) THEN [redis EXCEPT !.offset = <<last_offset>>]
                      ELSE redis
          /\ ahead' = (ahead /\ ~Executed(outcome))
          /\ saved' = IF Executed(outcome) THEN upto ELSE saved
          /\ mem' = IF outcome = "done" THEN [m \in Markets |-> [mem[m] EXCEPT !.touched = FALSE]]
                    ELSE mem
    BY DEF flush_offset
  <1>2. PICK f \in [Markets -> InfoSet] : f = mem
    BY DEF TypeOK
  <1>3. LET g == [n \in Markets |-> [f[n] EXCEPT !.touched = FALSE]]
        IN /\ g \in [Markets -> InfoSet]
           /\ \A n \in Markets :
                /\ g[n].kline = f[n].kline /\ g[n].update = f[n].update
                /\ g[n].deals_json = f[n].deals_json /\ g[n].last = f[n].last
                /\ g[n].deals = f[n].deals /\ g[n].touched = FALSE
    BY MemTouchedIs
  <1>4. mem' = f \/ mem' = [n \in Markets |-> [f[n] EXCEPT !.touched = FALSE]]
    BY <1>1, <1>2
  <1>5. /\ mem' \in [Markets -> InfoSet]
        /\ \A n \in Markets :
             /\ mem'[n].kline = f[n].kline /\ mem'[n].update = f[n].update
             /\ mem'[n].deals_json = f[n].deals_json /\ mem'[n].last = f[n].last
             /\ mem'[n].deals = f[n].deals
    BY <1>3, <1>4
  <1>6. PICK r \in RedisSet : r = redis
    BY DEF TypeOK
  <1>7. PICK x \in Nat : x = last_offset
    BY DEF TypeOK
  <1>8. PICK m \in Markets : m = market
    BY DEF TypeOK
  <1>9. LET q == [r EXCEPT !.offset = <<x>>]
        IN /\ q \in RedisSet /\ q.offset # <<>> /\ q.offset[1] = x
           /\ q.kline = r.kline /\ q.deals = r.deals /\ q.last = r.last
    BY RedisRestIs
  <1>10. redis' = IF Executed(outcome) THEN [r EXCEPT !.offset = <<x>>] ELSE r
    BY <1>1, <1>6, <1>7
  <1>11. /\ redis' \in RedisSet
         /\ redis'.kline = r.kline /\ redis'.deals = r.deals /\ redis'.last = r.last
         /\ Executed(outcome) => redis'.offset # <<>> /\ redis'.offset[1] = x
         /\ ~Executed(outcome) => redis' = r
    BY <1>9, <1>10
  <1>12. ahead' \in BOOLEAN /\ (~Executed(outcome) => ahead' = ahead)
    BY <1>1 DEF TypeOK
  <1>13. /\ at = "next" /\ markets = {} /\ at' = "loop"
         /\ UNCHANGED <<consumer, now, topic, markets, market, last_offset,
                        begun, upto, lost, gone, tainted>>
    BY <1>1 DEF flush_offset, Command
  <1>14. \/ UNCHANGED <<redis, ahead, saved>>
         \/ redis'.offset # <<>> /\ redis'.offset[1] = last_offset /\ saved' = upto
    BY <1>1, <1>6, <1>7, <1>11, <1>12
  <1>15. QED
    BY <1>2, <1>5, <1>6, <1>11, <1>12, <1>13, <1>14

LEMMA ClearKlineIs ==
  ASSUME TypeOK, clear_kline
  PROVE  /\ at = "loop"
         /\ UNCHANGED <<consumer, environment, last_offset, flushing, redis, history>>
         /\ mem' \in [Markets -> InfoSet]
         /\ \A n \in Markets :
              /\ mem'[n].update = mem[n].update /\ mem'[n].deals = mem[n].deals
              /\ mem'[n].deals_json = mem[n].deals_json /\ mem'[n].last = mem[n].last
              /\ mem'[n].touched = mem[n].touched
              /\ \A type \in Types, t \in Nat : t >= Horizon(type) =>
                   Agree(mem'[n].kline[type], mem[n].kline[type], t)
  <1>1. PICK f \in [Markets -> InfoSet] : f = mem
    BY DEF TypeOK
  <1>2. [type \in Types |-> Horizon(type)] \in [Types -> Int]
    BY HorizonInt DEF TypeOK
  <1>3. PICK h \in [Types -> Int] : h = [type \in Types |-> Horizon(type)]
    BY <1>2
  <1>4. LET g == [n \in Markets |-> [f[n] EXCEPT
                     !.kline = [type \in Types |-> From(@[type], h[type])]]]
        IN /\ g \in [Markets -> InfoSet]
           /\ \A n \in Markets :
                /\ \A type \in Types : g[n].kline[type] = From(f[n].kline[type], h[type])
                /\ g[n].update = f[n].update /\ g[n].deals = f[n].deals
                /\ g[n].deals_json = f[n].deals_json /\ g[n].last = f[n].last
                /\ g[n].touched = f[n].touched
    BY MemFromIs
  <1>5. mem' = [n \in Markets |-> [f[n] EXCEPT
                  !.kline = [type \in Types |-> From(@[type], h[type])]]]
    BY <1>1, <1>3 DEF clear_kline
  <1>6. ASSUME NEW n \in Markets, NEW type \in Types, NEW t \in Nat, t >= h[type]
        PROVE  Agree(mem'[n].kline[type], f[n].kline[type], t)
    <2>1. PICK dict \in DictSet : dict = f[n].kline[type]
      <3>1. f[n].kline \in [Types -> DictSet]
        BY DEF InfoSet
      <3>2. f[n].kline[type] \in DictSet
        BY <3>1
      <3>3. QED
        BY <3>2
    <2>2. PICK x : x = h[type]
      OBVIOUS
    <2>3. \A y : y >= x => Agree(From(dict, x), dict, y)
      BY FromAgrees
    <2>4. mem'[n].kline[type] = From(dict, x)
      BY <1>4, <1>5, <2>1, <2>2
    <2>5. QED
      BY <1>6, <2>1, <2>2, <2>3, <2>4
  <1>7. \A type \in Types : h[type] = Horizon(type)
    BY <1>3
  <1>8. /\ mem' \in [Markets -> InfoSet]
        /\ \A n \in Markets :
             /\ mem'[n].update = f[n].update /\ mem'[n].deals = f[n].deals
             /\ mem'[n].deals_json = f[n].deals_json /\ mem'[n].last = f[n].last
             /\ mem'[n].touched = f[n].touched
    BY <1>4, <1>5
  <1>9. /\ at = "loop"
        /\ UNCHANGED <<consumer, environment, last_offset, flushing, redis, history>>
    BY DEF clear_kline
  <1>10. QED
    BY <1>1, <1>6, <1>7, <1>8, <1>9

LEMMA ClearRedisIs ==
  ASSUME TypeOK, clear_redis
  PROVE  /\ UNCHANGED <<consumer, environment, mem, last_offset, flushing, history>>
         /\ redis' \in RedisSet
         /\ redis'.deals = redis.deals /\ redis'.last = redis.last /\ redis'.offset = redis.offset
         /\ \A n \in Markets, y \in Types, x \in Nat : x >= Horizon(y) =>
              Agree(redis'.kline[n][y], redis.kline[n][y], x)
  <1>1. PICK r \in RedisSet : r = redis
    BY DEF TypeOK
  <1>2. PICK m \in Markets, type \in Types : \E t \in DOMAIN redis.kline[m][type] :
          /\ t < Horizon(type)
          /\ redis' = [redis EXCEPT !.kline[m][type] = [s \in DOMAIN @ \ {t} |-> @[s]]]
    BY DEF clear_redis
  <1>3. PICK t \in DOMAIN redis.kline[m][type] :
          /\ t < Horizon(type)
          /\ redis' = [redis EXCEPT !.kline[m][type] = [s \in DOMAIN @ \ {t} |-> @[s]]]
    BY <1>2
  <1>4. redis' = [r EXCEPT !.kline[m][type] = [s \in DOMAIN @ \ {t} |-> @[s]]]
    BY <1>1, <1>3
  <1>5. PICK old \in DictSet : old = r.kline[m][type]
    <2>1. r.kline \in [Markets -> [Types -> DictSet]]
      BY DEF RedisSet
    <2>2. r.kline[m] \in [Types -> DictSet]
      BY <2>1
    <2>3. r.kline[m][type] \in DictSet
      BY <2>2
    <2>4. QED
      BY <2>3
  <1>6. PICK w \in DictSet : w = [s \in DOMAIN old \ {t} |-> old[s]]
    BY WithoutIs
  <1>7. \A x : x # t => Agree(w, old, x)
    BY <1>6, WithoutAgrees
  <1>8. LET q == [r EXCEPT !.kline[m][type] = w]
        IN /\ q \in RedisSet /\ q.kline[m][type] = w
           /\ q.deals = r.deals /\ q.last = r.last /\ q.offset = r.offset
           /\ \A n \in Markets, y \in Types :
                n # m \/ y # type => q.kline[n][y] = r.kline[n][y]
    BY RedisKlineIs
  <1>9. redis' = [r EXCEPT !.kline[m][type] = w]
    BY <1>5, <1>6, <1>4
  <1>10. ASSUME NEW n \in Markets, NEW y \in Types, NEW x \in Nat, x >= Horizon(y)
        PROVE  Agree(redis'.kline[n][y], r.kline[n][y], x)
    <2>1. CASE n # m \/ y # type
      BY <1>8, <1>9, <2>1, AgreeSelf
    <2>2. CASE n = m /\ y = type
      <3>1. x # t
        <4>1. t \in Nat
          BY <1>1, <1>5, <1>3, DictIs
        <4>2. Horizon(type) \in Int
          BY HorizonInt DEF TypeOK
        <4>3. QED
          BY <1>10, <1>3, <2>2, <4>1, <4>2
      <3>2. Agree(w, old, x)
        BY <1>7, <3>1
      <3>3. QED
        BY <1>5, <1>8, <1>9, <2>2, <3>2
    <2>3. QED
      BY <2>1, <2>2
  <1>11. UNCHANGED <<consumer, environment, mem, last_offset, flushing, history>>
    BY DEF clear_redis
  <1>12. QED
    BY <1>1, <1>8, <1>9, <1>10, <1>11

(* A restart takes what Redis has.                                         *)
LEMMA CrashIs ==
  ASSUME TypeOK, Crash
  PROVE  /\ mem' \in [Markets -> InfoSet]
         /\ \A n \in Markets :
              /\ mem'[n].update = {} /\ mem'[n].deals = <<>> /\ mem'[n].touched = TRUE
              /\ mem'[n].deals_json = redis.deals[n] /\ mem'[n].last = redis.last[n]
              /\ \A type \in Types, t \in Nat : t >= Horizon(type) =>
                   Agree(mem'[n].kline[type], redis.kline[n][type], t)
         /\ last_offset' = get_message_offset
         /\ Recreated(ConsumeStart(get_message_offset + 1))
         /\ at' = "loop" /\ markets' = {} /\ market' = market
         /\ begun' = IF position' > saved + 1 THEN position' ELSE begun
         /\ upto' = position' - 1
         /\ gone' = gone \cup lost /\ lost' = {}
         /\ tainted' = (tainted \/ ahead \/ lost # {})
         /\ UNCHANGED <<now, topic, redis, saved, ahead>>
  <1>1. mem' = [m \in Markets |-> load_market(m)]
    BY DEF Crash, init_message
  <1>2. ASSUME NEW n \in Markets
        PROVE  /\ mem'[n] \in InfoSet
               /\ mem'[n].update = {} /\ mem'[n].deals = <<>> /\ mem'[n].touched = TRUE
               /\ mem'[n].deals_json = redis.deals[n] /\ mem'[n].last = redis.last[n]
               /\ \A type \in Types, t \in Nat : t >= Horizon(type) =>
                    Agree(mem'[n].kline[type], redis.kline[n][type], t)
    <2>1. LET i == load_market(n)
          IN /\ i \in InfoSet
             /\ \A type \in Types : i.kline[type] = From(redis.kline[n][type], Horizon(type))
             /\ i.update = {} /\ i.deals = <<>> /\ i.touched = TRUE
             /\ i.last = redis.last[n]
             /\ i.deals_json = redis.deals[n]
      BY LoadMarketIs
    <2>2. mem'[n] = load_market(n)
      BY <1>1
    <2>3. ASSUME NEW type \in Types, NEW t \in Nat, t >= Horizon(type)
          PROVE  Agree(mem'[n].kline[type], redis.kline[n][type], t)
      <3>1. PICK dict \in DictSet : dict = redis.kline[n][type]
        <4>1. redis.kline[n][type] \in DictSet
          BY DEF TypeOK, RedisSet
        <4>2. QED
          BY <4>1
      <3>2. PICK x : x = Horizon(type)
        OBVIOUS
      <3>3. \A y : y >= x => Agree(From(dict, x), dict, y)
        BY FromAgrees
      <3>4. mem'[n].kline[type] = From(dict, x)
        BY <2>1, <2>2, <3>1, <3>2
      <3>5. QED
        BY <2>3, <3>1, <3>2, <3>3, <3>4
    <2>4. QED
      BY <2>1, <2>2, <2>3
  <1>3. mem' \in [Markets -> InfoSet]
    BY <1>1, <1>2
  <1>4. QED
    BY <1>2, <1>3 DEF Crash, init_message

LEMMA DealIs ==
  ASSUME TypeOK, Deal
  PROVE  /\ UNCHANGED <<consumer, now, mem, last_offset, flushing, redis, history>>
         /\ topic' \in Seq(MessageSet) /\ Len(topic') = Len(topic) + 1
         /\ \A i \in 1..Len(topic) : topic'[i] = topic[i]
         /\ \A i \in 1..Len(topic') : topic'[i].id \in {0, i}
  <1>1. PICK s \in Seq(MessageSet) : s = topic
    BY DEF TypeOK
  <1>2. PICK l \in Nat : l = Len(s)
    BY <1>1
  <1>3. PICK m \in Markets, p \in Prices, a \in Amounts, id \in {0, l + 1} :
          topic' = Append(s, Message(m, p, a, id))
    BY <1>1, <1>2 DEF Deal
  <1>4. now \in Nat /\ p \in Nat /\ a \in Nat /\ id \in Nat
    BY <1>2, PriceAssumption DEF TypeOK
  <1>5. PICK d \in MessageSet : d = Message(m, p, a, id) /\ d.id = id
    <2>1. Message(m, p, a, id) \in MessageSet /\ Message(m, p, a, id).id = id
      BY <1>4 DEF Message, MessageSet
    <2>2. QED
      BY <2>1
  <1>6. /\ topic' \in Seq(MessageSet) /\ Len(topic') = l + 1
        /\ \A i \in 1..l : topic'[i] = s[i]
        /\ topic'[l + 1] = d
    BY <1>2, <1>3, <1>5, AppendProperties
  <1>7. ASSUME NEW i \in 1..Len(topic') PROVE topic'[i].id \in {0, i}
    <2>1. CASE i = l + 1
      BY <1>3, <1>5, <1>6, <2>1
    <2>2. CASE i \in 1..l
      BY <1>1, <1>2, <1>6, <2>2 DEF TypeOK
    <2>3. QED
      BY <1>2, <1>6, <2>1, <2>2
  <1>8. UNCHANGED <<consumer, now, mem, last_offset, flushing, redis, history>>
    BY DEF Deal
  <1>9. QED
    BY <1>1, <1>2, <1>6, <1>7, <1>8

(* Time only moves what is kept forward.                                   *)
LEMMA TickIs ==
  ASSUME TypeOK, Tick
  PROVE  /\ UNCHANGED <<consumer, topic, mem, last_offset, flushing, redis, history>>
         /\ now' \in Nat
         /\ \A type \in Types : Horizon(type)' \in Int /\ Horizon(type) <= Horizon(type)'
  <1>1. PICK n \in Nat : n = now
    BY DEF TypeOK
  <1>2. PICK k \in Nat : k = now' /\ n <= k
    <2>1. PICK step \in Steps : now' = now + step
      BY DEF Tick
    <2>2. step \in Nat
      BY PriceAssumption
    <2>3. QED
      BY <1>1, <2>1, <2>2
  <1>3. ASSUME NEW u \in Nat \ {0}
        PROVE  Down(n, u) <= Down(k, u) /\ Down(n, u) \in Int /\ Down(k, u) \in Int
    <2>1. n \in Int /\ k \in Int
      OBVIOUS
    <2>2. Down(n, u) <= Down(k, u)
      BY <1>2, <2>1, DownMonotone
    <2>3. Down(n, u) \in Int /\ Down(k, u) \in Int
      BY <2>1, DownBounds
    <2>4. QED
      BY <2>2, <2>3
  <1>4. /\ MIN \in Nat \ {0} /\ HOUR \in Nat \ {0} /\ sec_max \in Int
        /\ min_max * MIN \in Int /\ hour_max * HOUR \in Int
    BY KlinesAssumption
  <1>5. ASSUME NEW type \in Types
        PROVE  Horizon(type)' \in Int /\ Horizon(type) <= Horizon(type)'
    <2>1. CASE type = "sec"
      BY <1>1, <1>2, <1>4, <2>1 DEF Horizon
    <2>2. CASE type = "min"
      <3>1. Horizon(type) = Down(n, MIN) - min_max * MIN /\ Horizon(type)' = Down(k, MIN) - min_max * MIN
        BY <1>1, <1>2, <2>2 DEF Horizon
      <3>2. QED
        BY <1>3, <1>4, <3>1
    <2>3. CASE type = "hour"
      <3>1. Horizon(type) = Down(n, HOUR) - hour_max * HOUR /\ Horizon(type)' = Down(k, HOUR) - hour_max * HOUR
        BY <1>1, <1>2, <2>3 DEF Horizon
      <3>2. QED
        BY <1>3, <1>4, <3>1
    <2>4. CASE type = "day"
      BY <2>4 DEF Horizon
    <2>5. QED
      BY <2>1, <2>2, <2>3, <2>4, TypesOf
  <1>6. UNCHANGED <<consumer, topic, mem, last_offset, flushing, redis, history>>
    BY DEF Tick
  <1>7. QED
    BY <1>2, <1>5, <1>6
--------------------------------------------------------------------------------
(* The steps keep the types.                                               *)

LEMMA TypeNext ==
  ASSUME TypeOK, ConsumerInv, OffsetsInv, [Next]_vars
  PROVE  TypeOK'
  <1>1. ASSUME UNCHANGED <<now, topic, mem, redis, last_offset, at, markets, market, ahead, tainted>>
        PROVE  TypeOK'
    BY <1>1 DEF TypeOK
  <1>2. CASE Thread \/ UNCHANGED vars
    BY <1>1, <1>2 DEF Thread, vars, flushing, environment, history
  <1>3. CASE on_can_read
    <2>1. CASE UNCHANGED <<mem, last_offset>>
      BY <1>1, <1>3, <2>1 DEF on_can_read, flushing, environment
    <2>2. CASE Take(on_deals_message)
      <3>1. PICK o \in Nat, d \in MessageSet :
              /\ d.id = 0 => UNCHANGED <<mem, last_offset, upto>>
              /\ d.id # 0 => /\ mem' = [mem EXCEPT ![d.market] = market_update(mem[d.market], d)]
                             /\ last_offset' = o /\ upto' = o
        BY <2>2, TakeIs
      <3>2. PICK f \in [Markets -> InfoSet] : f = mem
        BY DEF TypeOK
      <3>3. d.id # 0 => mem' \in [Markets -> InfoSet]
        <4>1. [f EXCEPT ![d.market] = market_update(f[d.market], d)] \in [Markets -> InfoSet]
          BY CountIs
        <4>2. QED
          BY <3>1, <3>2, <4>1
      <3>4. mem' \in [Markets -> InfoSet] /\ last_offset' \in Nat
        BY <3>1, <3>3 DEF TypeOK
      <3>5. UNCHANGED <<now, topic, redis, at, markets, market, ahead, tainted>>
        BY <1>3 DEF on_can_read, flushing, environment
      <3>6. QED
        BY <3>4, <3>5 DEF TypeOK
    <2>3. QED
      BY <1>3, <2>1, <2>2 DEF on_can_read
  <1>4. CASE on_market_timer
    <2>1. at' = "next" /\ markets' \subseteq Markets
      BY <1>4 DEF on_market_timer
    <2>2. UNCHANGED <<now, topic, mem, redis, last_offset, market, ahead, tainted>>
      BY <1>4 DEF on_market_timer, environment, history
    <2>3. QED
      BY <2>1, <2>2 DEF TypeOK
  <1>5. CASE NextMarket
    <2>1. at' = "update" /\ markets' \subseteq Markets /\ market' \in Markets
      BY <1>5 DEF NextMarket, TypeOK
    <2>2. UNCHANGED <<now, topic, mem, redis, last_offset, ahead, tainted>>
      BY <1>5 DEF NextMarket, environment, history
    <2>3. QED
      BY <2>1, <2>2 DEF TypeOK
  <1>6. CASE flush_kline
    <2>1. /\ UNCHANGED <<now, topic, at, markets, market, last_offset, tainted>>
          /\ mem' \in [Markets -> InfoSet] /\ redis' \in RedisSet /\ ahead' \in BOOLEAN
          /\ redis'.deals = redis.deals
      BY <1>6, FlushKlineIs
    <2>2. QED
      BY <2>1 DEF TypeOK
  <1>7. CASE flush_last
    <2>1. /\ UNCHANGED <<now, topic, mem, markets, market, last_offset, tainted>>
          /\ redis' \in RedisSet /\ ahead' \in BOOLEAN
          /\ redis'.deals = redis.deals /\ at' \in {"loop", "next", "deals"}
      BY <1>7, FlushLastIs
    <2>2. QED
      BY <2>1 DEF TypeOK
  <1>8. CASE flush_deals
    <2>1. /\ UNCHANGED <<now, topic, markets, market, last_offset, tainted>>
          /\ mem' \in [Markets -> InfoSet] /\ redis' \in RedisSet /\ ahead' \in BOOLEAN
          /\ \A n \in Markets : Len(redis'.deals[n]) <= MARKET_DEALS_MAX
          /\ at' \in {"next", "loop"}
      BY <1>8, FlushDealsIs
    <2>2. QED
      BY <2>1 DEF TypeOK
  <1>9. CASE flush_offset
    <2>1. /\ UNCHANGED <<now, topic, markets, market, last_offset, tainted>>
          /\ mem' \in [Markets -> InfoSet] /\ redis' \in RedisSet /\ ahead' \in BOOLEAN
          /\ redis'.deals = redis.deals /\ at' = "loop"
      BY <1>9, FlushOffsetIs
    <2>2. QED
      BY <2>1 DEF TypeOK
  <1>10. CASE clear_kline
    <2>1. /\ UNCHANGED <<now, topic, redis, last_offset, at, markets, market, ahead, tainted>>
          /\ mem' \in [Markets -> InfoSet]
      BY <1>10, ClearKlineIs DEF flushing, environment, history
    <2>2. QED
      BY <2>1 DEF TypeOK
  <1>11. CASE clear_redis
    <2>1. /\ UNCHANGED <<now, topic, mem, last_offset, at, markets, market, ahead, tainted>>
          /\ redis' \in RedisSet /\ redis'.deals = redis.deals
      BY <1>11, ClearRedisIs DEF flushing, environment, history
    <2>2. QED
      BY <2>1 DEF TypeOK
  <1>12. CASE Crash
    <2>1. /\ UNCHANGED <<now, topic, redis, ahead, market>> /\ mem' \in [Markets -> InfoSet]
          /\ at' = "loop" /\ markets' = {} /\ last_offset' = get_message_offset
          /\ tainted' = (tainted \/ ahead \/ lost # {})
      BY <1>12, CrashIs
    <2>2. last_offset' \in Nat
      <3>1. get_message_offset = IF saved = -1 THEN 0 ELSE saved
        BY DEF OffsetsInv
      <3>2. saved \in Int /\ -1 <= saved
        BY DEF OffsetsInv
      <3>3. QED
        BY <2>1, <3>1, <3>2
    <2>3. tainted' \in BOOLEAN
      BY <2>1 DEF TypeOK
    <2>4. QED
      BY <2>1, <2>2, <2>3 DEF TypeOK
  <1>13. CASE Deal
    <2>1. /\ UNCHANGED <<now, mem, redis, last_offset, at, markets, market, ahead, tainted>>
          /\ topic' \in Seq(MessageSet)
          /\ \A i \in 1..Len(topic') : topic'[i].id \in {0, i}
      BY <1>13, DealIs DEF flushing, history
    <2>2. QED
      BY <2>1 DEF TypeOK
  <1>14. CASE Tick
    <2>1. /\ UNCHANGED <<topic, mem, redis, last_offset, at, markets, market, ahead, tainted>>
          /\ now' \in Nat
      BY <1>14, TickIs DEF flushing, history
    <2>2. QED
      BY <2>1 DEF TypeOK
  <1>15. QED
    BY <1>2, <1>3, <1>4, <1>5, <1>6, <1>7, <1>8, <1>9, <1>10, <1>11, <1>12, <1>13, <1>14
       DEF Next, Flush

(* And the list in the order of the topic.                                 *)

LEMMA ThreadConsumer ==
  ASSUME TypeOK, ConsumerInv, SeeRoom \/ Consume(Len(topic)), UNCHANGED topic
  PROVE  ConsumerInv' /\ next_offset' = next_offset
  <1>1. limit \in Nat
    BY PriceAssumption
  <1>2. PICK l \in Nat : l = Len(list)
    BY DEF ConsumerInv
  <1>3. CASE SeeRoom
    BY <1>3 DEF SeeRoom, ConsumerInv, next_offset
  <1>4. CASE Consume(Len(topic)) /\ UNCHANGED <<list, pipe, position>>
    BY <1>4 DEF Consume, ConsumerInv, next_offset
  <1>5. CASE Consume(Len(topic)) /\ ~UNCHANGED <<list, pipe, position>>
    <2>1. /\ consuming /\ consuming' = FALSE /\ position < Len(topic)
          /\ list' = Append(list, position) /\ pipe' = TRUE /\ position' = position + 1
          /\ UNCHANGED taking
      BY <1>5 DEF Consume
    <2>2. PICK s \in Seq(Nat) : s = list
      BY DEF ConsumerInv
    <2>3. PICK p \in Nat : p = position
      BY DEF ConsumerInv
    <2>4. /\ list' \in Seq(Nat) /\ Len(list') = l + 1 /\ list'[l + 1] = p
          /\ \A i \in 1..l : list'[i] = s[i]
      BY <1>2, <2>1, <2>2, <2>3, AppendProperties
    <2>5. ASSUME NEW i \in 1..(l + 1) PROVE list'[i] = position' - Len(list') + i - 1
      <3>1. CASE i = l + 1
        BY <1>2, <2>1, <2>3, <2>4, <3>1
      <3>2. CASE i \in 1..l
        <4>1. s[i] = p - l + i - 1
          BY <1>2, <2>2, <2>3, <3>2 DEF ConsumerInv
        <4>2. QED
          BY <1>2, <2>1, <2>3, <2>4, <3>2, <4>1
      <3>3. QED
        BY <3>1, <3>2
    <2>6. l <= p /\ l < limit /\ p + 1 <= Len(topic) /\ Len(topic) \in Nat
      BY <1>1, <1>2, <2>1, <2>3 DEF ConsumerInv, TypeOK
    <2>7. ConsumerInv'
      BY <1>1, <2>1, <2>3, <2>4, <2>5, <2>6 DEF ConsumerInv
    <2>8. QED
      BY <1>2, <2>1, <2>3, <2>4, <2>7 DEF next_offset
  <1>6. QED
    BY <1>3, <1>4, <1>5

LEMMA MainConsumer ==
  ASSUME TypeOK, ConsumerInv, Wake \/ Emptied, UNCHANGED topic
  PROVE  ConsumerInv' /\ next_offset' = next_offset
  BY DEF Wake, Emptied, ConsumerInv, next_offset

LEMMA TakeConsumer ==
  ASSUME TypeOK, ConsumerInv, OffsetsInv, Take(on_deals_message), UNCHANGED topic
  PROVE  ConsumerInv' /\ next_offset' = next_offset + 1
  <1>1. PICK l \in Nat : l = Len(list)
    BY DEF ConsumerInv
  <1>2. /\ taking /\ UNCHANGED <<position, consuming, pipe, taking>>
        /\ list' \in Seq(Nat) /\ Len(list') = l - 1
        /\ \A i \in 1..Len(list') : list'[i] = list[i + 1]
    BY <1>1, TakeIs
  <1>3. PICK p \in Nat : p = position
    BY DEF ConsumerInv
  <1>4. limit \in Nat /\ l >= 1
    <2>1. Len(list') \in Nat
      BY <1>2
    <2>2. QED
      BY <1>2, <2>1, PriceAssumption
  <1>5. ASSUME NEW i \in 1..(l - 1) PROVE list'[i] = position' - Len(list') + i - 1
    <2>1. i + 1 \in 1..l
      OBVIOUS
    <2>2. list[i + 1] = p - l + (i + 1) - 1
      BY <1>1, <1>3, <2>1 DEF ConsumerInv
    <2>3. QED
      BY <1>2, <1>3, <2>2
  <1>6. l <= p /\ l <= limit /\ p <= Len(topic) /\ (consuming => l < limit)
    BY <1>1, <1>3 DEF ConsumerInv
  <1>7. ConsumerInv'
    BY <1>1, <1>2, <1>3, <1>4, <1>5, <1>6 DEF ConsumerInv
  <1>8. QED
    BY <1>1, <1>2, <1>3, <1>7 DEF next_offset

(* Where a restart goes on.                                                *)
LEMMA CrashConsumer ==
  ASSUME TypeOK, ConsumerInv, OffsetsInv, Crash
  PROVE  /\ ConsumerInv' /\ next_offset' = position' /\ position' \in Nat
         /\ IF saved >= 0 THEN position' = saved + 1
            ELSE saved = -1 /\ position' = IF Len(topic) = 0 THEN 0 ELSE 1
  <1>1. PICK l \in Nat : l = Len(topic)
    BY DEF TypeOK
  <1>2. PICK s \in Int : s = saved
    BY DEF OffsetsInv
  <1>3. PICK g \in Nat : g = get_message_offset /\ g = IF s = -1 THEN 0 ELSE s
    BY <1>2 DEF OffsetsInv
  <1>4. -1 <= s /\ s < l
    <2>1. PICK p \in Nat : p = position
      BY DEF ConsumerInv
    <2>2. PICK k \in Nat : k = Len(list)
      BY DEF ConsumerInv
    <2>3. PICK u \in Int : u = upto
      BY DEF OffsetsInv
    <2>4. p <= l
      BY <1>1, <2>1 DEF ConsumerInv
    <2>5. -1 <= s /\ s <= u /\ u < p - k
      BY <1>2, <2>1, <2>2, <2>3 DEF OffsetsInv, next_offset
    <2>6. QED
      BY <2>4, <2>5
  <1>5. Recreated(ConsumeStart(get_message_offset + 1)) /\ UNCHANGED topic
    BY CrashIs
  <1>6. position' = IF g + 1 <= l THEN g + 1 ELSE l
    <2>1. Min({g + 1, l}) = IF g + 1 <= l THEN g + 1 ELSE l
      BY MinMaxOfTwo
    <2>2. QED
      BY <1>1, <1>3, <1>5, <2>1 DEF Recreated, ConsumeStart
  <1>7. list' = <<>> /\ consuming' = FALSE
    BY <1>5 DEF Recreated
  <1>8. list' \in Seq(Nat) /\ Len(list') = 0
    BY <1>7
  <1>9. position' \in Nat /\ position' <= l
    BY <1>6
  <1>10. ConsumerInv'
    <2>1. limit \in Nat
      BY PriceAssumption
    <2>2. position' \in Nat /\ position' <= Len(topic')
      BY <1>1, <1>5, <1>9
    <2>3. Len(list') <= position' /\ Len(list') <= limit
      BY <1>8, <1>9, <2>1
    <2>4. \A i \in 1..Len(list') : list'[i] = position' - Len(list') + i - 1
      <3>1. \A i \in 1..Len(list') : FALSE
        BY <1>8
      <3>2. QED
        BY <3>1
    <2>5. (list' # <<>> => pipe' \/ taking') /\ (consuming' => Len(list') < limit)
      BY <1>7
    <2>6. QED
      BY <1>8, <2>2, <2>3, <2>4, <2>5 DEF ConsumerInv
  <1>11. next_offset' = position'
    <2>1. next_offset' = position' - Len(list')
      BY DEF next_offset
    <2>2. PICK p \in Nat : p = position'
      BY <1>9
    <2>3. p - 0 = p
      OBVIOUS
    <2>4. QED
      BY <1>8, <2>1, <2>2, <2>3
  <1>12. QED
    BY <1>1, <1>2, <1>3, <1>4, <1>6, <1>9, <1>10, <1>11

LEMMA ConsumerNext ==
  ASSUME TypeOK, ConsumerInv, OffsetsInv, [Next]_vars
  PROVE  ConsumerInv'
  <1>1. ASSUME UNCHANGED <<consumer, topic>> PROVE ConsumerInv'
    BY <1>1 DEF ConsumerInv, consumer
  <1>2. CASE Thread
    BY <1>2, ThreadConsumer DEF Thread, environment
  <1>3. CASE on_can_read
    BY <1>3, MainConsumer, TakeConsumer DEF on_can_read, environment
  <1>4. CASE on_market_timer \/ NextMarket
    BY <1>1, <1>4 DEF on_market_timer, NextMarket, environment
  <1>5. CASE flush_kline
    BY <1>1, <1>5, FlushKlineIs
  <1>6. CASE flush_last
    BY <1>1, <1>6, FlushLastIs
  <1>7. CASE flush_deals
    BY <1>1, <1>7, FlushDealsIs
  <1>8. CASE flush_offset
    BY <1>1, <1>8, FlushOffsetIs
  <1>9. CASE clear_kline \/ clear_redis
    BY <1>1, <1>9 DEF clear_kline, clear_redis, environment
  <1>10. CASE Crash
    BY <1>10, CrashConsumer
  <1>11. CASE Deal
    <2>1. UNCHANGED consumer /\ Len(topic') = Len(topic) + 1
      BY <1>11, DealIs
    <2>2. Len(topic) \in Nat
      BY DEF TypeOK
    <2>3. position' <= Len(topic')
      BY <2>1, <2>2 DEF ConsumerInv, consumer
    <2>4. QED
      BY <2>1, <2>3 DEF ConsumerInv, consumer
  <1>12. CASE Tick \/ UNCHANGED vars
    BY <1>1, <1>12 DEF Tick, vars, environment
  <1>13. QED
    BY <1>2, <1>3, <1>4, <1>5, <1>6, <1>7, <1>8, <1>9, <1>10, <1>11, <1>12 DEF Next, Flush

(* And what was counted and saved.                                         *)

LEMMA OffsetsSame ==
  ASSUME OffsetsInv, UNCHANGED <<begun, upto, saved, last_offset>>,
         redis'.offset = redis.offset, next_offset' = next_offset,
         \A o \in (upto + 1)..(next_offset - 1) : topic'[o + 1] = topic[o + 1]
  PROVE  OffsetsInv'
  <1>1. get_message_offset' = get_message_offset
    BY DEF get_message_offset
  <1>2. \A o \in (upto' + 1)..(next_offset' - 1) : topic'[o + 1].id = 0
    BY DEF OffsetsInv
  <1> HIDE DEF next_offset, get_message_offset
  <1>3. QED
    BY <1>1, <1>2 DEF OffsetsInv

LEMMA OffsetsTake ==
  ASSUME TypeOK, ConsumerInv, OffsetsInv, Take(on_deals_message),
         UNCHANGED <<topic, redis, begun, saved>>
  PROVE  OffsetsInv'
  <1>1. PICK o \in Nat, d \in MessageSet :
           /\ o = next_offset /\ d = topic[o + 1]
           /\ upto < o
           /\ d.id = 0 => UNCHANGED <<mem, last_offset, upto>>
           /\ d.id # 0 => last_offset' = o /\ upto' = o
    BY TakeIs
  <1>2. next_offset' = o + 1
    BY <1>1, TakeConsumer
  <1>3. get_message_offset' = get_message_offset
    BY DEF get_message_offset
  <1>4. PICK u \in Int : u = upto
    BY DEF OffsetsInv
  <1>5. PICK s \in Int : s = saved
    BY DEF OffsetsInv
  <1>6. PICK b \in Nat : b = begun
    BY DEF OffsetsInv
  <1>7. /\ -1 <= s /\ s <= u /\ u < o /\ b <= u + 1 /\ (s >= 0 => b <= s + 1)
        /\ \A p \in (u + 1)..(o - 1) : topic[p + 1].id = 0
        /\ last_offset = IF u = -1 THEN 0 ELSE u
        /\ get_message_offset = IF s = -1 THEN 0 ELSE s
    BY <1>1, <1>4, <1>5, <1>6 DEF OffsetsInv
  <1> HIDE DEF next_offset, get_message_offset
  <1>8. CASE d.id = 0
    <2>1. ASSUME NEW p \in (u + 1)..o PROVE topic[p + 1].id = 0
      BY <1>1, <1>7, <1>8
    <2>2. \A p \in (upto' + 1)..(next_offset' - 1) : topic'[p + 1].id = 0
      BY <1>1, <1>2, <1>4, <1>8, <2>1
    <2>3. QED
      BY <1>1, <1>2, <1>3, <1>4, <1>5, <1>6, <1>7, <1>8, <2>2 DEF OffsetsInv
  <1>9. CASE d.id # 0
    <2>1. \A p \in (upto' + 1)..(next_offset' - 1) : FALSE
      BY <1>1, <1>2, <1>9
    <2>2. QED
      BY <1>1, <1>2, <1>3, <1>4, <1>5, <1>6, <1>7, <1>9, <2>1 DEF OffsetsInv
  <1>10. QED
    BY <1>8, <1>9

LEMMA OffsetsSaved ==
  ASSUME TypeOK, OffsetsInv, flush_offset
  PROVE  OffsetsInv'
  <1>1. /\ UNCHANGED <<consumer, topic, last_offset, begun, upto>>
        /\ \/ UNCHANGED <<redis, ahead, saved>>
           \/ redis'.offset # <<>> /\ redis'.offset[1] = last_offset /\ saved' = upto
    BY FlushOffsetIs
  <1>2. next_offset' = next_offset
    BY <1>1 DEF next_offset, consumer
  <1>3. CASE UNCHANGED saved /\ UNCHANGED redis
    BY <1>1, <1>2, <1>3, OffsetsSame
  <1>4. CASE redis'.offset # <<>> /\ redis'.offset[1] = last_offset /\ saved' = upto
    <2>1. get_message_offset' = last_offset
      BY <1>4 DEF get_message_offset
    <2>2. PICK u \in Int : u = upto
      BY DEF OffsetsInv
    <2>3. \A o \in (upto' + 1)..(next_offset' - 1) : topic'[o + 1].id = 0
      BY <1>1, <1>2 DEF OffsetsInv
    <2> HIDE DEF next_offset, get_message_offset
    <2>4. QED
      BY <1>1, <1>2, <1>4, <2>1, <2>2, <2>3 DEF OffsetsInv
  <1>5. QED
    BY <1>1, <1>3, <1>4

LEMMA OffsetsCrash ==
  ASSUME TypeOK, ConsumerInv, OffsetsInv, Crash
  PROVE  /\ OffsetsInv'
         /\ IF saved >= 0 THEN begun' = begun /\ upto' = saved ELSE saved = -1 /\ upto' < begun'
  <1>1. /\ next_offset' = position' /\ position' \in Nat
        /\ IF saved >= 0 THEN position' = saved + 1
           ELSE saved = -1 /\ position' = IF Len(topic) = 0 THEN 0 ELSE 1
    BY CrashConsumer
  <1>2. /\ last_offset' = get_message_offset
        /\ begun' = IF position' > saved + 1 THEN position' ELSE begun
        /\ upto' = position' - 1 /\ UNCHANGED <<topic, redis, saved>>
    BY CrashIs
  <1>3. get_message_offset' = get_message_offset
    BY <1>2 DEF get_message_offset
  <1>4. PICK s \in Int : s = saved /\ -1 <= s
    BY DEF OffsetsInv
  <1>5. PICK p \in Nat : p = position'
    BY <1>1
  <1>6. PICK b \in Nat : b = begun /\ (s >= 0 => b <= s + 1)
    BY <1>4 DEF OffsetsInv
  <1>7. get_message_offset = IF s = -1 THEN 0 ELSE s
    BY <1>4 DEF OffsetsInv
  <1>8. p = 0 => b = 0
    <2>1. SUFFICES ASSUME p = 0 PROVE b = 0
      OBVIOUS
    <2>2. Len(topic) = 0
      BY <1>1, <1>4, <1>5, <2>1
    <2>3. position = 0
      BY <2>2 DEF ConsumerInv
    <2>4. Len(list) \in Nat /\ upto \in Int /\ -1 <= upto /\ upto < position - Len(list)
      BY DEF OffsetsInv, ConsumerInv, next_offset
    <2>5. upto = -1
      BY <2>3, <2>4
    <2>6. QED
      BY <1>6, <2>5 DEF OffsetsInv
  <1>9. IF s >= 0 THEN begun' = b /\ upto' = s /\ p = s + 1
        ELSE s = -1 /\ upto' = p - 1 /\ begun' = p
    <2>1. begun' = IF p > s + 1 THEN p ELSE b
      BY <1>2, <1>4, <1>5, <1>6
    <2>2. upto' = p - 1
      BY <1>2, <1>5
    <2>3. CASE s >= 0
      <3>1. p = s + 1
        BY <1>1, <1>4, <1>5, <2>3
      <3>2. QED
        BY <2>1, <2>2, <2>3, <3>1
    <2>4. CASE s = -1
      <3>1. begun' = p
        BY <1>8, <2>1, <2>4
      <3>2. QED
        BY <2>2, <2>4, <3>1
    <2>5. QED
      BY <1>4, <2>3, <2>4
  <1>10. begun' \in Nat /\ upto' \in Int
    BY <1>4, <1>9
  <1>11. \A o \in (upto' + 1)..(next_offset' - 1) : FALSE
    <2>1. upto' = p - 1 /\ next_offset' = p
      BY <1>1, <1>2, <1>5
    <2>2. PICK u \in Int : u = upto' /\ u + 1 = p
      BY <2>1
    <2>3. QED
      BY <2>1, <2>2
  <1>12. upto' < next_offset'
    <2>1. upto' = p - 1 /\ next_offset' = p
      BY <1>1, <1>2, <1>5
    <2>2. QED
      BY <2>1
  <1>13. last_offset' = IF upto' = -1 THEN 0 ELSE upto'
    <2>1. CASE s >= 0
      <3>1. last_offset' = s /\ upto' = s
        BY <1>2, <1>7, <1>9, <2>1
      <3>2. QED
        BY <2>1, <3>1
    <2>2. CASE s = -1
      <3>1. p \in {0, 1}
        <4>1. saved = -1
          BY <1>4, <2>2
        <4>2. position' = IF Len(topic) = 0 THEN 0 ELSE 1
          BY <1>1, <4>1
        <4>3. QED
          BY <1>5, <4>2
      <3>2. last_offset' = 0
        BY <1>2, <1>7, <2>2
      <3>3. upto' = -1 \/ upto' = 0
        BY <1>9, <2>2, <3>1
      <3>4. QED
        BY <3>2, <3>3
    <2>3. QED
      BY <1>4, <2>1, <2>2
  <1>14. get_message_offset' = IF saved' = -1 THEN 0 ELSE saved'
    BY <1>2, <1>3, <1>4, <1>7
  <1> HIDE DEF next_offset, get_message_offset
  <1>15. /\ saved' \in Int /\ -1 <= saved' /\ saved' <= upto' /\ begun' <= upto' + 1
         /\ saved' >= 0 => begun' <= saved' + 1
    BY <1>2, <1>4, <1>6, <1>9
  <1>16. OffsetsInv'
    BY <1>10, <1>11, <1>12, <1>13, <1>14, <1>15 DEF OffsetsInv
  <1>17. QED
    BY <1>4, <1>6, <1>9, <1>16

LEMMA OffsetsNext ==
  ASSUME TypeOK, ConsumerInv, OffsetsInv, [Next]_vars
  PROVE  OffsetsInv'
  <1>1. ASSUME UNCHANGED <<consumer, topic, begun, upto, saved, last_offset>>,
               redis'.offset = redis.offset
        PROVE  OffsetsInv'
    <2>1. next_offset' = next_offset
      BY <1>1 DEF next_offset, consumer
    <2>2. QED
      BY <1>1, <2>1, OffsetsSame
  <1>2. CASE Thread
    <2>1. next_offset' = next_offset
      BY <1>2, ThreadConsumer DEF Thread, environment
    <2>2. UNCHANGED <<topic, redis, begun, upto, saved, last_offset>>
      BY <1>2 DEF Thread, environment, history
    <2>3. QED
      BY <2>1, <2>2, OffsetsSame
  <1>3. CASE on_can_read
    <2>1. UNCHANGED <<topic, redis, begun, saved>>
      BY <1>3 DEF on_can_read, environment
    <2>2. CASE (Wake \/ Emptied) /\ UNCHANGED <<mem, last_offset, upto>>
      <3>1. next_offset' = next_offset
        BY <2>1, <2>2, MainConsumer
      <3>2. QED
        BY <2>1, <2>2, <3>1, OffsetsSame
    <2>3. CASE Take(on_deals_message)
      BY <2>1, <2>3, OffsetsTake
    <2>4. QED
      BY <1>3, <2>2, <2>3 DEF on_can_read
  <1>4. CASE on_market_timer \/ NextMarket
    BY <1>1, <1>4 DEF on_market_timer, NextMarket, environment, history
  <1>5. CASE flush_kline
    BY <1>1, <1>5, FlushKlineIs
  <1>6. CASE flush_last
    BY <1>1, <1>6, FlushLastIs
  <1>7. CASE flush_deals
    BY <1>1, <1>7, FlushDealsIs
  <1>8. CASE flush_offset
    BY <1>8, OffsetsSaved
  <1>9. CASE clear_kline
    BY <1>1, <1>9 DEF clear_kline, environment, history
  <1>10. CASE clear_redis
    BY <1>1, <1>10, ClearRedisIs DEF environment, history
  <1>11. CASE Crash
    BY <1>11, OffsetsCrash
  <1>12. CASE Deal
    <2>1. /\ UNCHANGED <<consumer, redis, begun, upto, saved, last_offset>>
          /\ \A i \in 1..Len(topic) : topic'[i] = topic[i]
      BY <1>12, DealIs DEF history
    <2>2. next_offset' = next_offset
      BY <2>1 DEF next_offset, consumer
    <2>3. ASSUME NEW o \in (upto + 1)..(next_offset - 1) PROVE topic'[o + 1] = topic[o + 1]
      <3>1. o + 1 \in 1..Len(topic)
        <4>1. Len(topic) \in Nat /\ Len(list) \in Nat /\ position \in Nat /\ position <= Len(topic)
          BY DEF TypeOK, ConsumerInv
        <4>2. upto \in Int /\ -1 <= upto
          BY DEF OffsetsInv
        <4>3. next_offset \in Int /\ next_offset <= Len(topic)
          BY <4>1 DEF next_offset
        <4>4. QED
          BY <4>1, <4>2, <4>3
      <3>2. QED
        BY <2>1, <3>1
    <2>4. QED
      BY <2>1, <2>2, <2>3, OffsetsSame
  <1>13. CASE Tick \/ UNCHANGED vars
    BY <1>1, <1>13 DEF Tick, vars, environment, history
  <1>14. QED
    BY <1>2, <1>3, <1>4, <1>5, <1>6, <1>7, <1>8, <1>9, <1>10, <1>11, <1>12, <1>13 DEF Next, Flush

--------------------------------------------------------------------------------
(* What a step must do to keep what memory and Redis have: nothing becomes *)
(* young again, the messages counted stay, and memory keeps its klines;    *)
(* Redis keeps its own or gets memory's, or the loss is noted.             *)

Later == \A type \in Types : Horizon(type)' \in Int /\ Horizon(type) <= Horizon(type)'

SameDeals ==
    /\ UNCHANGED <<begun, upto, gone, tainted>>
    /\ \A o \in begun..upto : topic'[o + 1] = topic[o + 1]

MemKept ==
    \A m \in Markets :
        /\ mem'[m].last = mem[m].last /\ mem'[m].deals_json = mem[m].deals_json
        /\ \A type \in Types, t \in Nat : t >= Horizon(type)' =>
             Agree(mem'[m].kline[type], mem[m].kline[type], t)

RedisKept ==
    \A m \in Markets, type \in Types, t \in Nat : t >= Horizon(type)' =>
        /\ <<type, t>> \in mem'[m].update => <<type, t>> \in mem[m].update
        /\ \/ <<m, type, t>> \in lost'
           \/ Agree(redis'.kline[m][type], mem[m].kline[type], t)
           \/ /\ Agree(redis'.kline[m][type], redis.kline[m][type], t)
              /\ <<m, type, t>> \in lost => <<m, type, t>> \in lost'
              /\ <<type, t>> \in mem[m].update => <<type, t>> \in mem'[m].update

RedisSame ==
    \/ ahead' = TRUE
    \/ lost' # {}
    \/ /\ UNCHANGED <<ahead, lost>> /\ redis'.last = redis.last /\ redis'.deals = redis.deals
       /\ \A m \in Markets, type \in Types, t \in Nat : t >= Horizon(type)' =>
            Agree(redis'.kline[m][type], redis.kline[m][type], t)

LEMMA SameBuckets ==
  ASSUME OffsetsInv, SameDeals, NEW m \in Markets, NEW x \in Int, x <= upto
  PROVE  LET D == DealsIn(topic, m, begun, x)
             E == DealsIn(topic', m, begun', x)
         IN /\ \A p : LastIs(topic', p, E) <=> LastIs(topic, p, D)
            /\ Ids(topic', E) = Ids(topic, D)
            /\ \A type, t :
                 LET B == Bucket(topic, m, type, t, begun, x)
                 IN /\ Bucket(topic', m, type, t, begun', x) = B
                    /\ \A dict : /\ Covers(topic', dict, t, B) <=> Covers(topic, dict, t, B)
                                 /\ Exactly(topic', dict, t, B) <=> Exactly(topic, dict, t, B)
  <1>1. PICK b \in Nat : b = begun
    BY DEF OffsetsInv
  <1>2. PICK s : s = topic
    OBVIOUS
  <1>3. PICK r : r = topic'
    OBVIOUS
  <1>4. \A o \in b..x : s[o + 1] = r[o + 1]
    <2>1. upto \in Int
      BY DEF OffsetsInv
    <2>2. \A o \in b..x : o \in begun..upto
      BY <1>1, <2>1
    <2>3. QED
      BY <1>2, <1>3, <2>2 DEF SameDeals
  <1>5. /\ DealsIn(s, m, b, x) = DealsIn(r, m, b, x)
        /\ LET D == DealsIn(s, m, b, x)
           IN Ids(s, D) = Ids(r, D) /\ \A p : LastIs(s, p, D) <=> LastIs(r, p, D)
        /\ \A type, t :
             /\ Bucket(s, m, type, t, b, x) = Bucket(r, m, type, t, b, x)
             /\ \A dict :
                  LET D == Bucket(s, m, type, t, b, x)
                  IN /\ Covers(s, dict, t, D) <=> Covers(r, dict, t, D)
                     /\ Exactly(s, dict, t, D) <=> Exactly(r, dict, t, D)
    BY <1>4, SameMessages
  <1>6. begun' = b
    BY <1>1 DEF SameDeals
  <1>7. QED
    BY <1>1, <1>2, <1>3, <1>5, <1>6

LEMMA Older ==
  ASSUME TypeOK, TypeOK', Later, NEW type \in Types, NEW t \in Nat, t >= Horizon(type)'
  PROVE  t >= Horizon(type)
  <1>1. PICK h \in Int : h = Horizon(type)
    BY HorizonInt DEF TypeOK
  <1>2. PICK k \in Int : k = Horizon(type)'
    BY DEF Later
  <1>3. k = Horizon(type)'
    BY <1>2
  <1>4. h <= k
    BY <1>1, <1>3 DEF Later
  <1>5. QED
    BY <1>1, <1>3, <1>4

LEMMA MemStep ==
  ASSUME TypeOK, TypeOK', OffsetsInv, Later, SameDeals, MemKept, MemCovers, MemExact
  PROVE  MemCovers' /\ MemExact'
  <1>1. PICK u \in Int : u = upto /\ u <= upto /\ u = upto'
    BY DEF OffsetsInv, SameDeals
  <1>2. ASSUME NEW m \in Markets, NEW type \in Types, NEW t \in Nat, t >= Horizon(type)'
        PROVE  /\ t >= Horizon(type)
               /\ Agree(mem'[m].kline[type], mem[m].kline[type], t)
               /\ Bucket(topic', m, type, t, begun', u) = Bucket(topic, m, type, t, begun, u)
               /\ \A dict : LET B == Bucket(topic, m, type, t, begun, u)
                            IN /\ Covers(topic', dict, t, B) <=> Covers(topic, dict, t, B)
                               /\ Exactly(topic', dict, t, B) <=> Exactly(topic, dict, t, B)
    <2>1. t >= Horizon(type)
      BY <1>2, Older
    <2>2. Agree(mem'[m].kline[type], mem[m].kline[type], t)
      BY <1>2 DEF MemKept
    <2>3. QED
      BY <1>1, <2>1, <2>2, SameBuckets
  <1>3. MemCovers'
    <2>1. ASSUME NEW m \in Markets, NEW type \in Types, NEW t \in Nat, t >= Horizon(type)',
                 <<m, type, t>> \notin gone'
          PROVE  Covers(topic', mem'[m].kline[type], t, Bucket(topic', m, type, t, begun', u))
      <3>1. Covers(topic, mem[m].kline[type], t, Bucket(topic, m, type, t, begun, u))
        BY <1>1, <1>2, <2>1 DEF MemCovers, MemBucket, SameDeals
      <3>2. Covers(topic, mem'[m].kline[type], t, Bucket(topic, m, type, t, begun, u))
        BY <1>2, <2>1, <3>1, AgreeSame
      <3>3. QED
        BY <1>2, <2>1, <3>2
    <2>2. QED
      BY <1>1, <2>1 DEF MemCovers, MemBucket
  <1>4. MemExact'
    <2>1. ASSUME ~tainted', NEW m \in Markets, NEW type \in Types, NEW t \in Nat,
                 t >= Horizon(type)'
          PROVE  Exactly(topic', mem'[m].kline[type], t, Bucket(topic', m, type, t, begun', u))
      <3>1. Exactly(topic, mem[m].kline[type], t, Bucket(topic, m, type, t, begun, u))
        BY <1>1, <1>2, <2>1 DEF MemExact, MemBucket, SameDeals
      <3>2. Exactly(topic, mem'[m].kline[type], t, Bucket(topic, m, type, t, begun, u))
        BY <1>2, <2>1, <3>1, AgreeSame
      <3>3. QED
        BY <1>2, <2>1, <3>2
    <2>2. ASSUME ~tainted', NEW m \in Markets
          PROVE  /\ LastIs(topic', mem'[m].last, DealsIn(topic', m, begun', u))
                 /\ Newest(mem'[m].deals_json, Ids(topic', DealsIn(topic', m, begun', u)),
                           MARKET_DEALS_MAX)
      <3>1. /\ LastIs(topic, mem[m].last, DealsIn(topic, m, begun, u))
            /\ Newest(mem[m].deals_json, Ids(topic, DealsIn(topic, m, begun, u)), MARKET_DEALS_MAX)
        BY <1>1, <2>2 DEF MemExact, SameDeals
      <3>2. mem'[m].last = mem[m].last /\ mem'[m].deals_json = mem[m].deals_json
        BY DEF MemKept
      <3>3. /\ \A p : LastIs(topic', p, DealsIn(topic', m, begun', u)) <=>
                        LastIs(topic, p, DealsIn(topic, m, begun, u))
            /\ Ids(topic', DealsIn(topic', m, begun', u)) = Ids(topic, DealsIn(topic, m, begun, u))
        BY <1>1, SameBuckets
      <3>4. QED
        BY <3>1, <3>2, <3>3
    <2>3. QED
      BY <1>1, <2>1, <2>2 DEF MemExact, MemBucket
  <1>5. QED
    BY <1>3, <1>4

LEMMA SyncedStep ==
  ASSUME TypeOK, TypeOK', Later, MemKept, RedisKept, Synced
  PROVE  Synced'
  <1>1. ASSUME NEW m \in Markets, NEW type \in Types, NEW t \in Nat, t >= Horizon(type)'
        PROVE  /\ <<type, t>> \notin mem'[m].update /\ <<m, type, t>> \notin lost' =>
                    Agree(redis'.kline[m][type], mem'[m].kline[type], t)
               /\ <<type, t>> \in mem'[m].update => t \in DOMAIN mem'[m].kline[type]
    <2>1. t >= Horizon(type)
      BY <1>1, Older
    <2>2. Agree(mem'[m].kline[type], mem[m].kline[type], t)
      BY <1>1 DEF MemKept
    <2>3. /\ <<type, t>> \notin mem[m].update /\ <<m, type, t>> \notin lost =>
               Agree(redis.kline[m][type], mem[m].kline[type], t)
          /\ <<type, t>> \in mem[m].update => t \in DOMAIN mem[m].kline[type]
      BY <2>1 DEF Synced
    <2>4. Agree(mem[m].kline[type], mem'[m].kline[type], t)
      BY <2>2 DEF Agree
    <2>5. <<type, t>> \in mem'[m].update => t \in DOMAIN mem'[m].kline[type]
      BY <1>1, <2>2, <2>3 DEF Agree, RedisKept
    <2>6. CASE <<m, type, t>> \in lost'
      BY <2>5, <2>6
    <2>7. CASE Agree(redis'.kline[m][type], mem[m].kline[type], t)
      BY <2>4, <2>5, <2>7, AgreeTrans
    <2>8. CASE /\ Agree(redis'.kline[m][type], redis.kline[m][type], t)
               /\ <<m, type, t>> \in lost => <<m, type, t>> \in lost'
               /\ <<type, t>> \in mem[m].update => <<type, t>> \in mem'[m].update
      BY <2>3, <2>4, <2>5, <2>8, AgreeTrans
    <2>9. QED
      BY <1>1, <2>6, <2>7, <2>8 DEF RedisKept
  <1>2. QED
    BY <1>1 DEF Synced

LEMMA CountedOffsets ==
  ASSUME TypeOK, ConsumerInv, OffsetsInv
  PROVE  upto < Len(topic)
  <1>1. Len(topic) \in Nat /\ position \in Nat /\ position <= Len(topic) /\ Len(list) \in Nat
    BY DEF TypeOK, ConsumerInv
  <1>2. upto \in Int /\ upto < position - Len(list)
    BY DEF OffsetsInv, next_offset
  <1>3. QED
    BY <1>1, <1>2

LEMMA CoversFewer ==
  ASSUME NEW s, NEW D, NEW E, D \subseteq E, Offsets(s, E), NEW dict \in DictSet, NEW t,
         Covers(s, dict, t, E)
  PROVE  Covers(s, dict, t, D)
  <1>1. SUFFICES ASSUME D # {} PROVE t \in DOMAIN dict /\ AtLeast(s, dict[t], D)
    BY DEF Covers
  <1>2. t \in DOMAIN dict /\ AtLeast(s, dict[t], E)
    BY <1>1 DEF Covers
  <1>3. PICK k \in KlineSet : k = dict[t]
    BY <1>2, DictIs
  <1>4. AtLeast(s, k, D)
    BY <1>2, <1>3, FewerAtLeast
  <1>5. QED
    BY <1>2, <1>3, <1>4

(* What memory may not miss is more than what Redis may not.               *)
LEMMA MemCoversSaved ==
  ASSUME TypeOK, ConsumerInv, OffsetsInv, NEW m \in Markets, NEW type \in Types, NEW t \in Nat,
         Covers(topic, mem[m].kline[type], t, MemBucket(m, type, t))
  PROVE  Covers(topic, mem[m].kline[type], t, RedisBucket(m, type, t))
  <1>1. PICK s \in Seq(MessageSet) : s = topic
    BY DEF TypeOK
  <1>2. PICK b \in Nat : b = begun
    BY DEF OffsetsInv
  <1>3. PICK u \in Int : u = upto /\ u < Len(s)
    BY <1>1, CountedOffsets DEF OffsetsInv
  <1>4. PICK v \in Int : v = saved /\ v <= u
    BY <1>3 DEF OffsetsInv
  <1>5. PICK dict \in DictSet : dict = mem[m].kline[type]
    <2>1. mem[m] \in InfoSet
      BY DEF TypeOK
    <2>2. mem[m].kline \in [Types -> DictSet]
      BY <2>1 DEF InfoSet
    <2>3. mem[m].kline[type] \in DictSet
      BY <2>2
    <2>4. QED
      BY <2>3
  <1>6. Offsets(s, Bucket(s, m, type, t, b, u))
    BY <1>3, BucketOffsets
  <1>7. Bucket(s, m, type, t, b, v) \subseteq Bucket(s, m, type, t, b, u)
    <2>1. b \in Int
      OBVIOUS
    <2>2. QED
      BY <1>4, <2>1, FewerInBucket
  <1>8. Covers(s, dict, t, Bucket(s, m, type, t, b, u))
    BY <1>1, <1>2, <1>3, <1>5 DEF MemBucket
  <1>9. Covers(s, dict, t, Bucket(s, m, type, t, b, v))
    BY <1>6, <1>7, <1>8, CoversFewer
  <1>10. QED
    BY <1>1, <1>2, <1>4, <1>5, <1>9 DEF RedisBucket

LEMMA RedisCoversStep ==
  ASSUME TypeOK, TypeOK', ConsumerInv, OffsetsInv, Later, SameDeals, RedisKept, UNCHANGED saved,
         MemCovers, RedisCovers
  PROVE  RedisCovers'
  <1>1. PICK v \in Int : v = saved /\ v <= upto /\ v = saved'
    BY DEF OffsetsInv
  <1>2. ASSUME NEW m \in Markets, NEW type \in Types, NEW t \in Nat, t >= Horizon(type)',
               <<m, type, t>> \notin gone', <<m, type, t>> \notin lost'
        PROVE  Covers(topic', redis'.kline[m][type], t, Bucket(topic', m, type, t, begun', v))
    <2>1. t >= Horizon(type) /\ <<m, type, t>> \notin gone
      BY <1>2, Older DEF SameDeals
    <2>2. CASE Agree(redis'.kline[m][type], mem[m].kline[type], t)
      <3>1. Covers(topic, mem[m].kline[type], t, MemBucket(m, type, t))
        BY <2>1 DEF MemCovers
      <3>2. Covers(topic, mem[m].kline[type], t, Bucket(topic, m, type, t, begun, v))
        BY <1>1, <3>1, MemCoversSaved DEF RedisBucket
      <3>3. Covers(topic, redis'.kline[m][type], t, Bucket(topic, m, type, t, begun, v))
        BY <2>2, <3>2, AgreeSame
      <3>4. QED
        BY <1>1, <3>3, SameBuckets
    <2>3. CASE /\ Agree(redis'.kline[m][type], redis.kline[m][type], t)
               /\ <<m, type, t>> \in lost => <<m, type, t>> \in lost'
      <3>1. Covers(topic, redis.kline[m][type], t, Bucket(topic, m, type, t, begun, v))
        BY <1>1, <1>2, <2>1, <2>3 DEF RedisCovers, RedisBucket
      <3>2. Covers(topic, redis'.kline[m][type], t, Bucket(topic, m, type, t, begun, v))
        BY <2>3, <3>1, AgreeSame
      <3>3. QED
        BY <1>1, <3>2, SameBuckets
    <2>4. QED
      BY <1>2, <2>2, <2>3 DEF RedisKept
  <1>3. QED
    BY <1>1, <1>2 DEF RedisCovers, RedisBucket

LEMMA RedisExactStep ==
  ASSUME TypeOK, TypeOK', OffsetsInv, Later, SameDeals, RedisSame, UNCHANGED saved, RedisExact
  PROVE  RedisExact'
  <1>1. PICK v \in Int : v = saved /\ v <= upto /\ v = saved'
    BY DEF OffsetsInv
  <1>2. SUFFICES ASSUME ~tainted', ~ahead', lost' = {} PROVE RedisExact'
    BY DEF RedisExact
  <1>3. /\ UNCHANGED <<ahead, lost>> /\ redis'.last = redis.last /\ redis'.deals = redis.deals
        /\ \A m \in Markets, type \in Types, t \in Nat : t >= Horizon(type)' =>
             Agree(redis'.kline[m][type], redis.kline[m][type], t)
    BY <1>2 DEF RedisSame
  <1>4. ~tainted /\ ~ahead /\ lost = {}
    BY <1>2, <1>3 DEF SameDeals
  <1>5. ASSUME NEW m \in Markets, NEW type \in Types, NEW t \in Nat, t >= Horizon(type)'
        PROVE  Exactly(topic', redis'.kline[m][type], t, Bucket(topic', m, type, t, begun', v))
    <2>1. t >= Horizon(type)
      BY <1>5, Older
    <2>2. Exactly(topic, redis.kline[m][type], t, Bucket(topic, m, type, t, begun, v))
      BY <1>1, <1>4, <2>1 DEF RedisExact, RedisBucket
    <2>3. Agree(redis'.kline[m][type], redis.kline[m][type], t)
      BY <1>3, <1>5
    <2>4. Exactly(topic, redis'.kline[m][type], t, Bucket(topic, m, type, t, begun, v))
      BY <2>2, <2>3, AgreeSame
    <2>5. QED
      BY <1>1, <2>4, SameBuckets
  <1>6. ASSUME NEW m \in Markets
        PROVE  /\ LastIs(topic', redis'.last[m], DealsIn(topic', m, begun', v))
               /\ Newest(redis'.deals[m], Ids(topic', DealsIn(topic', m, begun', v)),
                         MARKET_DEALS_MAX)
    <2>1. /\ LastIs(topic, redis.last[m], DealsIn(topic, m, begun, v))
          /\ Newest(redis.deals[m], Ids(topic, DealsIn(topic, m, begun, v)), MARKET_DEALS_MAX)
      BY <1>1, <1>4 DEF RedisExact
    <2>2. /\ \A p : LastIs(topic', p, DealsIn(topic', m, begun', v)) <=>
                      LastIs(topic, p, DealsIn(topic, m, begun, v))
          /\ Ids(topic', DealsIn(topic', m, begun', v)) = Ids(topic, DealsIn(topic, m, begun, v))
      BY <1>1, SameBuckets
    <2>3. QED
      BY <1>3, <2>1, <2>2
  <1>7. QED
    BY <1>1, <1>5, <1>6 DEF RedisExact, RedisBucket

LEMMA NowLater ==
  ASSUME TypeOK, UNCHANGED now
  PROVE  Later
  <1>1. \A type \in Types : Horizon(type)' = Horizon(type)
    BY DEF Horizon
  <1>2. ASSUME NEW type \in Types PROVE Horizon(type)' \in Int /\ Horizon(type) <= Horizon(type)'
    <2>1. PICK h \in Int : h = Horizon(type)
      BY HorizonInt DEF TypeOK
    <2>2. Horizon(type)' = h
      BY <1>1, <2>1
    <2>3. QED
      BY <2>1, <2>2
  <1>3. QED
    BY <1>2 DEF Later

LEMMA KeptStep ==
  ASSUME TypeOK, TypeOK', ConsumerInv, OffsetsInv, DataInv,
         Later, SameDeals, MemKept, RedisKept, RedisSame, UNCHANGED saved
  PROVE  MemCovers' /\ RedisCovers' /\ Synced' /\ MemExact' /\ RedisExact'
  BY MemStep, SyncedStep, RedisCoversStep, RedisExactStep DEF DataInv
--------------------------------------------------------------------------------
(* The steps.                                                              *)

LEMMA QuietData ==
  ASSUME TypeOK, TypeOK', DataInv, UNCHANGED <<now, topic, mem, redis, history>>, Flushed'
  PROVE  DataInv'
  <1>1. \A type \in Types : Horizon(type)' = Horizon(type)
    BY DEF Horizon
  <1>2. UNCHANGED <<topic, mem, redis, begun, upto, saved, ahead, lost, gone, tainted>>
    BY DEF history
  <1>3. MemCovers'
    BY <1>1, <1>2 DEF DataInv, MemCovers, MemBucket
  <1>4. RedisCovers'
    BY <1>1, <1>2 DEF DataInv, RedisCovers, RedisBucket
  <1>5. Synced'
    BY <1>1, <1>2 DEF DataInv, Synced
  <1>6. DealsSynced'
    BY <1>2 DEF DataInv, DealsSynced
  <1>7. MemExact'
    BY <1>1, <1>2 DEF DataInv, MemExact, MemBucket
  <1>8. RedisExact'
    BY <1>1, <1>2 DEF DataInv, RedisExact, RedisBucket
  <1>9. QED
    BY <1>3, <1>4, <1>5, <1>6, <1>7, <1>8 DEF DataInv

LEMMA FlushKlineData ==
  ASSUME TypeOK, TypeOK', ConsumerInv, OffsetsInv, DataInv, flush_kline
  PROVE  DataInv'
  <1>1. /\ at = "update"
        /\ UNCHANGED <<now, topic, at, markets, market, begun, upto, saved, gone, tainted>>
        /\ redis'.deals = redis.deals /\ redis'.last = redis.last
        /\ \A n \in Markets :
             /\ mem'[n].kline = mem[n].kline /\ mem'[n].deals = mem[n].deals
             /\ mem'[n].deals_json = mem[n].deals_json /\ mem'[n].last = mem[n].last
             /\ mem'[n].touched = mem[n].touched
             /\ n # market => mem'[n].update = mem[n].update
    BY FlushKlineIs
  <1>2. PICK type \in Types, t \in Nat :
           /\ <<type, t>> \in mem[market].update
           /\ mem'[market].update = mem[market].update \ {<<type, t>>}
           /\ \A n \in Markets, y \in Types, x \in Nat : <<n, y, x>> # <<market, type, t>> =>
                Agree(redis'.kline[n][y], redis.kline[n][y], x)
           /\ \/ /\ t \notin DOMAIN mem[market].kline[type]
                 /\ UNCHANGED <<redis, ahead, lost>>
              \/ /\ lost' = lost \cup {<<market, type, t>>}
                 /\ UNCHANGED <<redis, ahead>>
              \/ /\ lost' = lost \ {<<market, type, t>>} /\ ahead' = TRUE
                 /\ Agree(redis'.kline[market][type], mem[market].kline[type], t)
    BY FlushKlineIs
  <1>3. market \in Markets
    BY DEF TypeOK
  <1>4. Later
    BY <1>1, NowLater
  <1>5. SameDeals
    BY <1>1 DEF SameDeals
  <1>6. MemKept
    BY <1>1, AgreeSelf DEF MemKept
  <1>7. RedisKept
    <2>1. ASSUME NEW m \in Markets, NEW y \in Types, NEW x \in Nat, x >= Horizon(y)'
          PROVE  /\ <<y, x>> \in mem'[m].update => <<y, x>> \in mem[m].update
                 /\ \/ <<m, y, x>> \in lost'
                    \/ Agree(redis'.kline[m][y], mem[m].kline[y], x)
                    \/ /\ Agree(redis'.kline[m][y], redis.kline[m][y], x)
                       /\ <<m, y, x>> \in lost => <<m, y, x>> \in lost'
                       /\ <<y, x>> \in mem[m].update => <<y, x>> \in mem'[m].update
      <3>1. <<y, x>> \in mem'[m].update => <<y, x>> \in mem[m].update
        BY <1>1, <1>2
      <3>2. CASE <<m, y, x>> = <<market, type, t>>
        <4>1. m = market /\ y = type /\ x = t
          BY <3>2
        <4>2. t >= Horizon(type)
          BY <1>4, <2>1, <4>1, Older
        <4>3. t \in DOMAIN mem[market].kline[type]
          BY <1>2, <1>3, <4>2 DEF DataInv, Synced
        <4>4. QED
          BY <1>2, <3>1, <4>1, <4>3
      <3>3. CASE <<m, y, x>> # <<market, type, t>>
        <4>1. Agree(redis'.kline[m][y], redis.kline[m][y], x)
          BY <1>2, <3>3
        <4>2. <<m, y, x>> \in lost => <<m, y, x>> \in lost'
          BY <1>2, <3>3
        <4>3. <<y, x>> \in mem[m].update => <<y, x>> \in mem'[m].update
          BY <1>1, <1>2, <3>3
        <4>4. QED
          BY <3>1, <4>1, <4>2, <4>3
      <3>4. QED
        BY <3>2, <3>3
    <2>2. QED
      BY <2>1 DEF RedisKept
  <1>8. RedisSame
    <2>1. CASE UNCHANGED <<redis, ahead, lost>>
      BY <2>1, AgreeSelf DEF RedisSame
    <2>2. CASE ahead' = TRUE \/ lost' = lost \cup {<<market, type, t>>}
      BY <2>2 DEF RedisSame
    <2>3. QED
      BY <1>2, <2>1, <2>2
  <1>9. DealsSynced'
    <2>1. "deals" \notin Types
      BY TypesOf
    <2>2. \A m : <<m, "deals", 0>> \in lost <=> <<m, "deals", 0>> \in lost'
      BY <1>2, <2>1
    <2>3. QED
      BY <1>1, <2>2 DEF DataInv, DealsSynced
  <1>10. Flushed'
    <2>1. ASSUME NEW m \in Markets, ~mem'[m].touched \/ Done(m)'
          PROVE  mem'[m].update = {} /\ mem'[m].deals = <<>> /\ redis'.last[m] = mem'[m].last
      <3>1. ~mem[m].touched \/ Done(m)
        BY <1>1, <2>1 DEF Done
      <3>2. mem[m].update = {} /\ mem[m].deals = <<>> /\ redis.last[m] = mem[m].last
        BY <3>1 DEF DataInv, Flushed
      <3>3. m # market
        BY <1>2, <3>2
      <3>4. QED
        BY <1>1, <3>2, <3>3
    <2>2. at' # "deals"
      BY <1>1
    <2>3. QED
      BY <2>1, <2>2 DEF Flushed
  <1>11. UNCHANGED saved
    BY <1>1
  <1>12. QED
    BY <1>4, <1>5, <1>6, <1>7, <1>8, <1>9, <1>10, <1>11, KeptStep DEF DataInv

(* Nothing is lost, no key is taken, and the klines are the same.          *)
LEMMA SameKlines ==
  ASSUME Later, \A m \in Markets : mem'[m].update = mem[m].update,
         \A m \in Markets, type \in Types, t \in Nat : t >= Horizon(type)' =>
            Agree(redis'.kline[m][type], redis.kline[m][type], t),
         lost \subseteq lost'
  PROVE  RedisKept
  BY DEF RedisKept

LEMMA FlushLastData ==
  ASSUME TypeOK, TypeOK', ConsumerInv, OffsetsInv, DataInv, flush_last
  PROVE  DataInv'
  <1>1. /\ at = "update" /\ mem[market].update = {}
        /\ UNCHANGED <<now, topic, mem, markets, market, begun, upto, saved, lost, gone, tainted>>
        /\ redis'.kline = redis.kline /\ redis'.deals = redis.deals
        /\ \A n \in Markets : n # market => redis'.last[n] = redis.last[n]
        /\ redis'.last[market] \in {redis.last[market], mem[market].last}
        /\ ahead' = TRUE \/ UNCHANGED <<redis, ahead>>
        /\ at' \in {"loop", "next", "deals"}
        /\ at' # "loop" => redis'.last[market] = mem[market].last
        /\ at' = "next" => mem[market].deals = <<>>
    BY FlushLastIs
  <1>2. market \in Markets
    BY DEF TypeOK
  <1>3. Later
    BY <1>1, NowLater
  <1>4. SameDeals
    BY <1>1 DEF SameDeals
  <1>5. MemKept
    BY <1>1, AgreeSelf DEF MemKept
  <1>6. RedisKept
    BY <1>1, <1>3, AgreeSelf, SameKlines
  <1>7. RedisSame
    BY <1>1, AgreeSelf DEF RedisSame
  <1>8. DealsSynced'
    BY <1>1 DEF DataInv, DealsSynced
  <1>9. Flushed'
    <2>1. ASSUME NEW m \in Markets, ~mem'[m].touched \/ Done(m)'
          PROVE  mem'[m].update = {} /\ mem'[m].deals = <<>> /\ redis'.last[m] = mem'[m].last
      <3>1. CASE ~mem[m].touched \/ Done(m)
        <4>1. mem[m].update = {} /\ mem[m].deals = <<>> /\ redis.last[m] = mem[m].last
          BY <3>1 DEF DataInv, Flushed
        <4>2. QED
          BY <1>1, <4>1
      <3>2. CASE m = market /\ Done(m)'
        <4>1. at' = "next"
          BY <1>1, <3>2 DEF Done
        <4>2. QED
          BY <1>1, <3>2, <4>1
      <3>3. CASE m # market /\ Done(m)'
        <4>1. Done(m)
          BY <1>1, <3>3 DEF Done
        <4>2. QED
          BY <3>1, <4>1
      <3>4. QED
        BY <1>1, <2>1, <3>1, <3>2, <3>3
    <2>2. at' = "deals" => mem'[market'].update = {} /\ redis'.last[market'] = mem'[market'].last
      BY <1>1
    <2>3. QED
      BY <2>1, <2>2 DEF Flushed
  <1>10. UNCHANGED saved
    BY <1>1
  <1>11. QED
    BY <1>3, <1>4, <1>5, <1>6, <1>7, <1>8, <1>9, <1>10, KeptStep DEF DataInv

LEMMA FlushDealsData ==
  ASSUME TypeOK, TypeOK', ConsumerInv, OffsetsInv, DataInv, flush_deals
  PROVE  DataInv'
  <1>1. /\ at = "deals"
        /\ UNCHANGED <<now, topic, markets, market, begun, upto, saved, gone, tainted>>
        /\ \A n \in Markets :
             /\ mem'[n].kline = mem[n].kline /\ mem'[n].update = mem[n].update
             /\ mem'[n].deals_json = mem[n].deals_json /\ mem'[n].last = mem[n].last
             /\ mem'[n].touched = mem[n].touched
             /\ n # market => mem'[n].deals = mem[n].deals
             /\ n # market => redis'.deals[n] = redis.deals[n]
             /\ Len(redis'.deals[n]) <= MARKET_DEALS_MAX
        /\ redis'.kline = redis.kline /\ redis'.last = redis.last
        /\ at' \in {"next", "loop"}
        /\ at' = "next" => mem'[market].deals = <<>>
        /\ at' = "loop" => UNCHANGED mem
        /\ lost' = lost \/ lost' = lost \cup {<<market, "deals", 0>>}
        /\ \/ <<market, "deals", 0>> \in lost'
           \/ /\ redis'.deals[market] =
                   Pushed(mem[market].deals, redis.deals[market], MARKET_DEALS_MAX)
              /\ mem'[market].deals = <<>>
           \/ UNCHANGED <<redis, mem>>
        /\ ahead' = TRUE \/ lost' # {} \/ UNCHANGED <<redis, ahead, lost>>
    BY FlushDealsIs
  <1>2. market \in Markets
    BY DEF TypeOK
  <1>3. Later
    BY <1>1, NowLater
  <1>4. SameDeals
    BY <1>1 DEF SameDeals
  <1>5. MemKept
    BY <1>1, AgreeSelf DEF MemKept
  <1>6. RedisKept
    BY <1>1, <1>3, AgreeSelf, SameKlines
  <1>7. RedisSame
    BY <1>1, AgreeSelf DEF RedisSame
  <1>8. DealsSynced'
    <2>1. ASSUME NEW m \in Markets, <<m, "deals", 0>> \notin lost'
          PROVE  mem'[m].deals_json = Pushed(mem'[m].deals, redis'.deals[m], MARKET_DEALS_MAX)
      <3>1. mem[m].deals_json = Pushed(mem[m].deals, redis.deals[m], MARKET_DEALS_MAX)
        BY <1>1, <2>1 DEF DataInv, DealsSynced
      <3>2. CASE m # market
        BY <1>1, <3>1, <3>2
      <3>3. CASE UNCHANGED <<redis, mem>>
        BY <3>1, <3>3
      <3>4. CASE /\ m = market
                 /\ redis'.deals[m] = Pushed(mem[m].deals, redis.deals[m], MARKET_DEALS_MAX)
                 /\ mem'[m].deals = <<>>
        <4>1. PICK s \in Seq(Nat) : s = redis'.deals[m] /\ Len(s) <= MARKET_DEALS_MAX
          BY <1>1 DEF TypeOK, RedisSet
        <4>2. PICK k \in Nat : k = MARKET_DEALS_MAX
          BY PriceAssumption
        <4>3. Pushed(<<>>, s, k) = FirstOf(s, k)
          BY PushedNothing
        <4>4. FirstOf(s, k) = s
          BY <4>1, <4>2, FirstOfIs
        <4>5. QED
          BY <1>1, <3>1, <3>4, <4>1, <4>2, <4>3, <4>4
      <3>5. QED
        BY <1>1, <2>1, <3>2, <3>3, <3>4
    <2>2. QED
      BY <2>1 DEF DealsSynced
  <1>9. Flushed'
    <2>1. mem[market].update = {} /\ redis.last[market] = mem[market].last
      BY <1>1 DEF DataInv, Flushed
    <2>2. ASSUME NEW m \in Markets, ~mem'[m].touched \/ Done(m)'
          PROVE  mem'[m].update = {} /\ mem'[m].deals = <<>> /\ redis'.last[m] = mem'[m].last
      <3>1. CASE ~mem[m].touched \/ Done(m)
        <4>1. mem[m].update = {} /\ mem[m].deals = <<>> /\ redis.last[m] = mem[m].last
          BY <3>1 DEF DataInv, Flushed
        <4>2. mem'[m].deals = <<>>
          BY <1>1, <4>1
        <4>3. QED
          BY <1>1, <4>1, <4>2
      <3>2. CASE m = market /\ Done(m)'
        <4>1. at' = "next"
          BY <1>1, <3>2 DEF Done
        <4>2. QED
          BY <1>1, <2>1, <3>2, <4>1
      <3>3. CASE m # market /\ Done(m)'
        <4>1. Done(m)
          BY <1>1, <3>3 DEF Done
        <4>2. QED
          BY <3>1, <4>1
      <3>4. QED
        BY <1>1, <2>2, <3>1, <3>2, <3>3
    <2>3. at' # "deals"
      BY <1>1
    <2>4. QED
      BY <2>2, <2>3 DEF Flushed
  <1>10. UNCHANGED saved
    BY <1>1
  <1>11. QED
    BY <1>3, <1>4, <1>5, <1>6, <1>7, <1>8, <1>9, <1>10, KeptStep DEF DataInv

LEMMA FlushOffsetData ==
  ASSUME TypeOK, TypeOK', ConsumerInv, OffsetsInv, DataInv, flush_offset
  PROVE  DataInv'
  <1>1. /\ at = "next" /\ markets = {} /\ at' = "loop"
        /\ UNCHANGED <<now, topic, markets, market, begun, upto, lost, gone, tainted>>
        /\ \A n \in Markets :
             /\ mem'[n].kline = mem[n].kline /\ mem'[n].update = mem[n].update
             /\ mem'[n].deals_json = mem[n].deals_json /\ mem'[n].last = mem[n].last
             /\ mem'[n].deals = mem[n].deals
        /\ redis'.kline = redis.kline /\ redis'.last = redis.last /\ redis'.deals = redis.deals
        /\ \/ UNCHANGED <<redis, ahead, saved>>
           \/ saved' = upto
    BY FlushOffsetIs
  <1>2. Later
    BY <1>1, NowLater
  <1>3. SameDeals
    BY <1>1 DEF SameDeals
  <1>4. MemKept
    BY <1>1, AgreeSelf DEF MemKept
  <1>5. RedisKept
    BY <1>1, <1>2, AgreeSelf, SameKlines
  <1>6. MemCovers' /\ MemExact' /\ Synced'
    BY <1>2, <1>3, <1>4, <1>5, MemStep, SyncedStep DEF DataInv
  <1>7. DealsSynced'
    BY <1>1 DEF DataInv, DealsSynced
  <1>8. \A m \in Markets : mem[m].update = {} /\ mem[m].deals = <<>> /\ redis.last[m] = mem[m].last
    BY <1>1 DEF DataInv, Flushed, Done
  <1>9. Flushed'
    BY <1>1, <1>8 DEF Flushed
  <1>10. CASE UNCHANGED <<redis, ahead, saved>>
    <2>1. RedisSame
      BY <1>1, <1>10, AgreeSelf DEF RedisSame
    <2>2. RedisCovers' /\ RedisExact'
      BY <1>2, <1>3, <1>5, <1>10, <2>1, RedisCoversStep, RedisExactStep DEF DataInv
    <2>3. QED
      BY <1>6, <1>7, <1>9, <2>2 DEF DataInv
  <1>11. CASE saved' = upto
    <2>1. \A type \in Types : Horizon(type)' = Horizon(type)
      BY <1>1 DEF Horizon
    <2>2. ASSUME NEW m \in Markets, NEW type \in Types, NEW t \in Nat, t >= Horizon(type),
                 <<m, type, t>> \notin lost
          PROVE  Agree(mem[m].kline[type], redis'.kline[m][type], t)
      <3>1. Agree(redis.kline[m][type], mem[m].kline[type], t)
        BY <1>8, <2>2 DEF DataInv, Synced
      <3>2. QED
        BY <1>1, <3>1 DEF Agree
    <2>3. RedisCovers'
      <3>1. ASSUME NEW m \in Markets, NEW type \in Types, NEW t \in Nat, t >= Horizon(type),
                   <<m, type, t>> \notin gone, <<m, type, t>> \notin lost
            PROVE  Covers(topic, redis'.kline[m][type], t, MemBucket(m, type, t))
        BY <2>2, <3>1, AgreeSame DEF DataInv, MemCovers
      <3>2. QED
        BY <1>1, <1>11, <2>1, <3>1 DEF RedisCovers, RedisBucket, MemBucket
    <2>4. RedisExact'
      <3>1. SUFFICES ASSUME ~tainted', ~ahead', lost' = {} PROVE RedisExact'
        BY DEF RedisExact
      <3>2. ~tainted /\ lost = {}
        BY <1>1, <3>1
      <3>3. ASSUME NEW m \in Markets, NEW type \in Types, NEW t \in Nat, t >= Horizon(type)
            PROVE  Exactly(topic, redis'.kline[m][type], t, MemBucket(m, type, t))
        BY <2>2, <3>2, <3>3, AgreeSame DEF DataInv, MemExact
      <3>4. ASSUME NEW m \in Markets
            PROVE  /\ LastIs(topic, redis'.last[m], DealsIn(topic, m, begun, upto))
                   /\ Newest(redis'.deals[m], Ids(topic, DealsIn(topic, m, begun, upto)),
                             MARKET_DEALS_MAX)
        <4>1. /\ LastIs(topic, mem[m].last, DealsIn(topic, m, begun, upto))
              /\ Newest(mem[m].deals_json, Ids(topic, DealsIn(topic, m, begun, upto)),
                        MARKET_DEALS_MAX)
          BY <3>2 DEF DataInv, MemExact
        <4>2. mem[m].deals_json = Pushed(<<>>, redis.deals[m], MARKET_DEALS_MAX)
          BY <1>8, <3>2 DEF DataInv, DealsSynced
        <4>3. PICK s \in Seq(Nat) : s = redis.deals[m] /\ Len(s) <= MARKET_DEALS_MAX
          BY DEF TypeOK, RedisSet
        <4>4. PICK k \in Nat : k = MARKET_DEALS_MAX
          BY PriceAssumption
        <4>5. Pushed(<<>>, s, k) = FirstOf(s, k)
          BY PushedNothing
        <4>6. FirstOf(s, k) = s
          BY <4>3, <4>4, FirstOfIs
        <4>7. mem[m].deals_json = redis'.deals[m]
          BY <1>1, <4>2, <4>3, <4>4, <4>5, <4>6
        <4>8. mem[m].last = redis'.last[m]
          BY <1>1, <1>8
        <4>9. QED
          BY <4>1, <4>7, <4>8
      <3>5. QED
        BY <1>1, <1>11, <2>1, <3>3, <3>4 DEF RedisExact, RedisBucket, MemBucket
    <2>5. QED
      BY <1>6, <1>7, <1>9, <2>3, <2>4 DEF DataInv
  <1>12. QED
    BY <1>1, <1>10, <1>11

LEMMA ClearKlineData ==
  ASSUME TypeOK, TypeOK', ConsumerInv, OffsetsInv, DataInv, clear_kline
  PROVE  DataInv'
  <1>1. /\ UNCHANGED <<now, topic, redis, begun, upto, saved, ahead, lost, gone, tainted,
                       at, markets, market>>
        /\ \A n \in Markets :
             /\ mem'[n].update = mem[n].update /\ mem'[n].deals = mem[n].deals
             /\ mem'[n].deals_json = mem[n].deals_json /\ mem'[n].last = mem[n].last
             /\ mem'[n].touched = mem[n].touched
             /\ \A type \in Types, t \in Nat : t >= Horizon(type) =>
                  Agree(mem'[n].kline[type], mem[n].kline[type], t)
    BY ClearKlineIs DEF environment, flushing, history
  <1>2. Later
    BY <1>1, NowLater
  <1>3. SameDeals
    BY <1>1 DEF SameDeals
  <1>4. MemKept
    <2>1. \A type \in Types : Horizon(type)' = Horizon(type)
      BY <1>1 DEF Horizon
    <2>2. QED
      BY <1>1, <2>1 DEF MemKept
  <1>5. RedisKept
    BY <1>1, <1>2, AgreeSelf, SameKlines
  <1>6. RedisSame
    BY <1>1, AgreeSelf DEF RedisSame
  <1>7. DealsSynced'
    BY <1>1 DEF DataInv, DealsSynced
  <1>8. Flushed'
    <2>1. ASSUME NEW m \in Markets, ~mem'[m].touched \/ Done(m)'
          PROVE  mem'[m].update = {} /\ mem'[m].deals = <<>> /\ redis'.last[m] = mem'[m].last
      <3>1. ~mem[m].touched \/ Done(m)
        BY <1>1, <2>1 DEF Done
      <3>2. QED
        BY <1>1, <3>1 DEF DataInv, Flushed
    <2>2. at' = "deals" => mem'[market'].update = {} /\ redis'.last[market'] = mem'[market'].last
      BY <1>1 DEF DataInv, Flushed, TypeOK
    <2>3. QED
      BY <2>1, <2>2 DEF Flushed
  <1>9. UNCHANGED saved
    BY <1>1
  <1>10. QED
    BY <1>2, <1>3, <1>4, <1>5, <1>6, <1>7, <1>8, <1>9, KeptStep DEF DataInv

LEMMA ClearRedisData ==
  ASSUME TypeOK, TypeOK', ConsumerInv, OffsetsInv, DataInv, clear_redis
  PROVE  DataInv'
  <1>1. /\ UNCHANGED <<now, topic, mem, begun, upto, saved, ahead, lost, gone, tainted,
                       at, markets, market>>
        /\ redis'.deals = redis.deals /\ redis'.last = redis.last
        /\ \A n \in Markets, y \in Types, x \in Nat : x >= Horizon(y) =>
             Agree(redis'.kline[n][y], redis.kline[n][y], x)
    BY ClearRedisIs DEF environment, flushing, history
  <1>2. Later
    BY <1>1, NowLater
  <1>3. SameDeals
    BY <1>1 DEF SameDeals
  <1>4. MemKept
    BY <1>1, AgreeSelf DEF MemKept
  <1>5. \A m \in Markets, type \in Types, t \in Nat : t >= Horizon(type)' =>
          Agree(redis'.kline[m][type], redis.kline[m][type], t)
    <2>1. \A type \in Types : Horizon(type)' = Horizon(type)
      BY <1>1 DEF Horizon
    <2>2. QED
      BY <1>1, <2>1
  <1>6. RedisKept
    BY <1>1, <1>2, <1>5, SameKlines
  <1>7. RedisSame
    BY <1>1, <1>5 DEF RedisSame
  <1>8. DealsSynced'
    BY <1>1 DEF DataInv, DealsSynced
  <1>9. Flushed'
    BY <1>1 DEF DataInv, Flushed, Done
  <1>10. UNCHANGED saved
    BY <1>1
  <1>11. QED
    BY <1>2, <1>3, <1>4, <1>6, <1>7, <1>8, <1>9, <1>10, KeptStep DEF DataInv

LEMMA OutsideData ==
  ASSUME TypeOK, TypeOK', ConsumerInv, OffsetsInv, DataInv, Deal \/ Tick
  PROVE  DataInv'
  <1>1. UNCHANGED <<mem, redis, begun, upto, saved, ahead, lost, gone, tainted,
                    at, markets, market>>
    <2>1. UNCHANGED <<mem, flushing, redis, history>>
      BY DealIs, TickIs
    <2>2. QED
      BY <2>1 DEF flushing, history
  <1>2. Later
    BY DealIs, TickIs, NowLater DEF Later
  <1>3. SameDeals
    <2>1. CASE Deal
      <3>1. \A i \in 1..Len(topic) : topic'[i] = topic[i]
        BY <2>1, DealIs
      <3>2. ASSUME NEW o \in begun..upto PROVE topic'[o + 1] = topic[o + 1]
        <4>1. begun \in Nat /\ upto \in Int /\ upto < Len(topic) /\ Len(topic) \in Nat
          BY CountedOffsets DEF OffsetsInv, TypeOK
        <4>2. o + 1 \in 1..Len(topic)
          BY <4>1
        <4>3. QED
          BY <3>1, <4>2
      <3>3. QED
        BY <1>1, <3>2 DEF SameDeals
    <2>2. CASE Tick
      BY <1>1, <2>2, TickIs DEF SameDeals
    <2>3. QED
      BY <2>1, <2>2
  <1>4. MemKept
    BY <1>1, AgreeSelf DEF MemKept
  <1>5. RedisKept
    BY <1>1, <1>2, AgreeSelf, SameKlines
  <1>6. RedisSame
    BY <1>1, AgreeSelf DEF RedisSame
  <1>7. DealsSynced'
    BY <1>1 DEF DataInv, DealsSynced
  <1>8. Flushed'
    BY <1>1 DEF DataInv, Flushed, Done
  <1>9. UNCHANGED saved
    BY <1>1
  <1>10. QED
    BY <1>2, <1>3, <1>4, <1>5, <1>6, <1>7, <1>8, <1>9, KeptStep DEF DataInv

LEMMA TimerData ==
  ASSUME TypeOK, TypeOK', DataInv, on_market_timer \/ NextMarket
  PROVE  DataInv'
  <1>1. UNCHANGED <<now, topic, mem, redis, history>>
    BY DEF on_market_timer, NextMarket, environment
  <1>2. Flushed'
    <2>1. at' # "deals"
      BY DEF on_market_timer, NextMarket
    <2>2. ASSUME NEW m \in Markets, ~mem'[m].touched \/ Done(m)' PROVE ~mem[m].touched \/ Done(m)
      <3>1. CASE on_market_timer
        BY <1>1, <2>2, <3>1 DEF on_market_timer, Done
      <3>2. CASE NextMarket
        BY <1>1, <2>2, <3>2 DEF NextMarket, Done
      <3>3. QED
        BY <3>1, <3>2
    <2>3. QED
      BY <1>1, <2>1, <2>2 DEF DataInv, Flushed
  <1>3. QED
    BY <1>1, <1>2, QuietData

LEMMA CrashData ==
  ASSUME TypeOK, TypeOK', ConsumerInv, OffsetsInv, DataInv, Crash
  PROVE  DataInv'
  <1>1. /\ \A n \in Markets :
             /\ mem'[n].update = {} /\ mem'[n].deals = <<>> /\ mem'[n].touched = TRUE
             /\ mem'[n].deals_json = redis.deals[n] /\ mem'[n].last = redis.last[n]
             /\ \A type \in Types, t \in Nat : t >= Horizon(type) =>
                  Agree(mem'[n].kline[type], redis.kline[n][type], t)
        /\ at' = "loop"
        /\ gone' = gone \cup lost /\ lost' = {}
        /\ tainted' = (tainted \/ ahead \/ lost # {})
        /\ UNCHANGED <<now, topic, redis, saved, ahead>>
    BY CrashIs
  <1>2. \A type \in Types : Horizon(type)' = Horizon(type)
    BY <1>1 DEF Horizon
  <1>3. PICK v \in Int : v = saved
    BY DEF OffsetsInv
  <1>4. PICK b \in Nat : b = begun
    BY DEF OffsetsInv
  <1>5. PICK c \in Nat : c = begun'
    <2>1. OffsetsInv'
      BY OffsetsCrash
    <2>2. QED
      BY <2>1 DEF OffsetsInv
  <1>6. PICK u \in Int : u = upto'
    <2>1. OffsetsInv'
      BY OffsetsCrash
    <2>2. QED
      BY <2>1 DEF OffsetsInv
  <1>7. \A m : /\ DealsIn(topic, m, c, u) = DealsIn(topic, m, b, v)
               /\ DealsIn(topic, m, c, v) = DealsIn(topic, m, b, v)
               /\ \A type, t :
                    /\ Bucket(topic, m, type, t, c, u) = Bucket(topic, m, type, t, b, v)
                    /\ Bucket(topic, m, type, t, c, v) = Bucket(topic, m, type, t, b, v)
    <2>1. CASE v >= 0
      <3>1. c = b /\ u = v
        BY <1>3, <1>4, <1>5, <1>6, <2>1, OffsetsCrash
      <3>2. QED
        BY <3>1
    <2>2. CASE v < 0
      <3>1. u < c /\ v < b /\ v < c
        BY <1>3, <1>4, <1>5, <1>6, <2>2, OffsetsCrash
      <3>2. c \in Int /\ b \in Int
        OBVIOUS
      <3>3. ASSUME NEW m
            PROVE  /\ DealsIn(topic, m, c, u) = {} /\ DealsIn(topic, m, b, v) = {}
                   /\ DealsIn(topic, m, c, v) = {}
                   /\ \A type, t :
                        /\ Bucket(topic, m, type, t, c, u) = {}
                        /\ Bucket(topic, m, type, t, b, v) = {}
                        /\ Bucket(topic, m, type, t, c, v) = {}
        BY <3>1, <3>2, NoBucket
      <3>4. QED
        BY <3>3
    <2>3. QED
      BY <2>1, <2>2
  <1>8. MemCovers'
    <2>1. ASSUME NEW m \in Markets, NEW type \in Types, NEW t \in Nat, t >= Horizon(type),
                 <<m, type, t>> \notin gone'
          PROVE  Covers(topic, mem'[m].kline[type], t, Bucket(topic, m, type, t, c, u))
      <3>1. Covers(topic, redis.kline[m][type], t, Bucket(topic, m, type, t, b, v))
        BY <1>1, <1>3, <1>4, <2>1 DEF DataInv, RedisCovers, RedisBucket
      <3>2. Covers(topic, mem'[m].kline[type], t, Bucket(topic, m, type, t, b, v))
        BY <1>1, <2>1, <3>1, AgreeSame
      <3>3. QED
        BY <1>7, <3>2
    <2>2. QED
      BY <1>1, <1>2, <1>5, <1>6, <2>1 DEF MemCovers, MemBucket
  <1>9. RedisCovers'
    <2>1. ASSUME NEW m \in Markets, NEW type \in Types, NEW t \in Nat, t >= Horizon(type),
                 <<m, type, t>> \notin gone'
          PROVE  Covers(topic, redis.kline[m][type], t, Bucket(topic, m, type, t, c, v))
      <3>1. Covers(topic, redis.kline[m][type], t, Bucket(topic, m, type, t, b, v))
        BY <1>1, <1>3, <1>4, <2>1 DEF DataInv, RedisCovers, RedisBucket
      <3>2. QED
        BY <1>7, <3>1
    <2>2. QED
      BY <1>1, <1>2, <1>3, <1>5, <2>1 DEF RedisCovers, RedisBucket
  <1>10. Synced'
    <2>1. ASSUME NEW m \in Markets, NEW type \in Types, NEW t \in Nat, t >= Horizon(type)
          PROVE  Agree(redis'.kline[m][type], mem'[m].kline[type], t)
      BY <1>1, <2>1 DEF Agree
    <2>2. QED
      BY <1>1, <1>2, <2>1 DEF Synced
  <1>11. DealsSynced'
    <2>1. ASSUME NEW m \in Markets
          PROVE  mem'[m].deals_json = Pushed(mem'[m].deals, redis'.deals[m], MARKET_DEALS_MAX)
      <3>1. PICK s \in Seq(Nat) : s = redis.deals[m] /\ Len(s) <= MARKET_DEALS_MAX
        BY DEF TypeOK, RedisSet
      <3>2. PICK k \in Nat : k = MARKET_DEALS_MAX
        BY PriceAssumption
      <3>3. Pushed(<<>>, s, k) = FirstOf(s, k)
        BY PushedNothing
      <3>4. FirstOf(s, k) = s
        BY <3>1, <3>2, FirstOfIs
      <3>5. QED
        BY <1>1, <3>1, <3>2, <3>3, <3>4
    <2>2. QED
      BY <2>1 DEF DealsSynced
  <1>12. Flushed'
    BY <1>1 DEF Flushed, Done
  <1>13. ASSUME ~tainted, ~ahead, lost = {}, NEW m \in Markets
         PROVE  /\ \A type \in Types, t \in Nat : t >= Horizon(type) =>
                     Exactly(topic, redis.kline[m][type], t, Bucket(topic, m, type, t, b, v))
                /\ LastIs(topic, redis.last[m], DealsIn(topic, m, b, v))
                /\ Newest(redis.deals[m], Ids(topic, DealsIn(topic, m, b, v)), MARKET_DEALS_MAX)
    BY <1>3, <1>4, <1>13 DEF DataInv, RedisExact, RedisBucket
  <1>14. MemExact'
    <2>1. SUFFICES ASSUME ~tainted' PROVE MemExact'
      BY DEF MemExact
    <2>2. ~tainted /\ ~ahead /\ lost = {}
      BY <1>1, <2>1
    <2>3. ASSUME NEW m \in Markets, NEW type \in Types, NEW t \in Nat, t >= Horizon(type)
          PROVE  Exactly(topic, mem'[m].kline[type], t, Bucket(topic, m, type, t, c, u))
      <3>1. Exactly(topic, redis.kline[m][type], t, Bucket(topic, m, type, t, b, v))
        BY <1>13, <2>2, <2>3
      <3>2. Exactly(topic, mem'[m].kline[type], t, Bucket(topic, m, type, t, b, v))
        BY <1>1, <2>3, <3>1, AgreeSame
      <3>3. QED
        BY <1>7, <3>2
    <2>4. ASSUME NEW m \in Markets
          PROVE  /\ LastIs(topic, mem'[m].last, DealsIn(topic, m, c, u))
                 /\ Newest(mem'[m].deals_json, Ids(topic, DealsIn(topic, m, c, u)),
                           MARKET_DEALS_MAX)
      BY <1>1, <1>7, <1>13, <2>2
    <2>5. QED
      BY <1>1, <1>2, <1>5, <1>6, <2>3, <2>4 DEF MemExact, MemBucket
  <1>15. RedisExact'
    <2>1. SUFFICES ASSUME ~tainted' PROVE RedisExact'
      BY DEF RedisExact
    <2>2. ~tainted /\ ~ahead /\ lost = {}
      BY <1>1, <2>1
    <2>3. ASSUME NEW m \in Markets, NEW type \in Types, NEW t \in Nat, t >= Horizon(type)
          PROVE  Exactly(topic, redis.kline[m][type], t, Bucket(topic, m, type, t, c, v))
      BY <1>7, <1>13, <2>2, <2>3
    <2>4. ASSUME NEW m \in Markets
          PROVE  /\ LastIs(topic, redis.last[m], DealsIn(topic, m, c, v))
                 /\ Newest(redis.deals[m], Ids(topic, DealsIn(topic, m, c, v)), MARKET_DEALS_MAX)
      BY <1>7, <1>13, <2>2
    <2>5. QED
      BY <1>1, <1>2, <1>3, <1>5, <2>3, <2>4 DEF RedisExact, RedisBucket
  <1>16. QED
    BY <1>8, <1>9, <1>10, <1>11, <1>12, <1>14, <1>15 DEF DataInv

LEMMA TakeData ==
  ASSUME TypeOK, TypeOK', ConsumerInv, OffsetsInv, DataInv, at = "loop",
         Take(on_deals_message),
         UNCHANGED <<environment, flushing, redis, begun, saved, ahead, lost, gone, tainted>>
  PROVE  DataInv'
  <1>1. PICK o \in Nat, d \in MessageSet :
           /\ o = next_offset /\ d = topic[o + 1] /\ o + 1 \in 1..Len(topic) /\ d.id \in {0, o + 1}
           /\ upto < o
           /\ d.id = 0 => UNCHANGED <<mem, last_offset, upto>>
           /\ d.id # 0 => /\ mem' = [mem EXCEPT ![d.market] = market_update(mem[d.market], d)]
                          /\ last_offset' = o /\ upto' = o
    BY TakeIs
  <1>2. UNCHANGED <<now, topic, redis, begun, saved, ahead, lost, gone, tainted, at, markets, market>>
    BY DEF environment, flushing
  <1>3. \A type \in Types : Horizon(type)' = Horizon(type)
    BY <1>2 DEF Horizon
  <1>4. CASE d.id = 0
    <2>1. Flushed'
      BY <1>1, <1>2, <1>4 DEF DataInv, Flushed, Done
    <2>2. UNCHANGED <<now, topic, mem, redis, history>>
      BY <1>1, <1>2, <1>4 DEF history
    <2>3. QED
      BY <2>1, <2>2, QuietData
  <1>5. CASE d.id # 0
    <2>1. PICK s \in Seq(MessageSet) : s = topic
      BY DEF TypeOK
    <2>2. PICK b \in Nat : b = begun
      BY DEF OffsetsInv
    <2>3. PICK u \in Int : u = upto /\ u < o /\ b <= u + 1
      BY <1>1, <2>2 DEF OffsetsInv
    <2>4. PICK f \in [Markets -> InfoSet] : f = mem
      BY DEF TypeOK
    <2>5. d = s[o + 1] /\ o < Len(s) /\ d.id = o + 1 /\ s[o + 1].id # 0
      BY <1>1, <1>5, <2>1
    <2>6. \A p \in (u + 1)..(o - 1) : s[p + 1].id = 0
      BY <1>1, <2>1, <2>3 DEF OffsetsInv
    <2> DEFINE at_d(type) == Down(d.time, Unit(type))
               g == [f EXCEPT ![d.market] = market_update(f[d.market], d)]
    <2>7. /\ d.market \in Markets /\ g \in [Markets -> InfoSet]
          /\ \A n \in Markets : n # d.market => g[n] = f[n]
          /\ \A type \in Types :
               /\ at_d(type) \in Nat
               /\ g[d.market].kline[type] = Counted(f[d.market].kline[type], at_d(type), d)
               /\ \A t \in Nat : t # at_d(type) =>
                    Agree(g[d.market].kline[type], f[d.market].kline[type], t)
               /\ at_d(type) \in DOMAIN g[d.market].kline[type]
               /\ \A t \in Nat : <<type, t>> \in g[d.market].update <=>
                    <<type, t>> \in f[d.market].update \/ t = at_d(type)
          /\ g[d.market].last = d.price /\ g[d.market].deals = Append(f[d.market].deals, d.id)
          /\ g[d.market].deals_json = FirstOf(<<d.id>> \o f[d.market].deals_json, MARKET_DEALS_MAX)
          /\ g[d.market].touched = TRUE
      BY CountIs
    <2>8. mem' = g /\ upto' = o
      BY <1>1, <1>5, <2>4
    <2> HIDE DEF g
    <2>9. ASSUME NEW m
          PROVE  /\ DealsIn(s, m, b, o) = IF s[o + 1].market = m
                                          THEN DealsIn(s, m, b, u) \cup {o}
                                          ELSE DealsIn(s, m, b, u)
                 /\ \A p \in DealsIn(s, m, b, u) : p < o
                 /\ \A type, t :
                      /\ Bucket(s, m, type, t, b, o) =
                           IF s[o + 1].market = m /\ Down(s[o + 1].time, Unit(type)) = t
                           THEN Bucket(s, m, type, t, b, u) \cup {o}
                           ELSE Bucket(s, m, type, t, b, u)
                      /\ \A p \in Bucket(s, m, type, t, b, u) : p < o
      <3>1. u \in Int /\ u < o /\ b <= u + 1 /\ s[o + 1].id # 0
        BY <2>3, <2>5
      <3>2. QED
        BY ONLY <2>6, <3>1, BucketNext, b \in Nat, o \in Nat
    <2>10. ASSUME NEW m \in Markets, NEW type \in Types, NEW t \in Nat
           PROVE  /\ Covers(s, f[m].kline[type], t, Bucket(s, m, type, t, b, u)) =>
                       Covers(s, g[m].kline[type], t, Bucket(s, m, type, t, b, o))
                  /\ Exactly(s, f[m].kline[type], t, Bucket(s, m, type, t, b, u)) =>
                       Exactly(s, g[m].kline[type], t, Bucket(s, m, type, t, b, o))
      <3>1. CASE m = d.market /\ t = at_d(type)
        <4>1. PICK D : D = Bucket(s, m, type, t, b, u)
          OBVIOUS
        <4>2. Bucket(s, m, type, t, b, o) = D \cup {o} /\ \A p \in D : p < o
          BY <2>5, <2>9, <3>1, <4>1
        <4>3. Offsets(s, Bucket(s, m, type, t, b, o))
          <5>1. o \in Int
            OBVIOUS
          <5>2. QED
            BY <2>5, <5>1, BucketOffsets
        <4>4. Offsets(s, D \cup {o})
          BY <4>2, <4>3
        <4>5. PICK dict \in DictSet : dict = f[m].kline[type]
          <5>1. f[m].kline \in [Types -> DictSet]
            BY DEF InfoSet
          <5>2. f[m].kline[type] \in DictSet
            BY <5>1
          <5>3. QED
            BY <5>2
        <4>6. /\ Covers(s, dict, t, D) => Covers(s, Counted(dict, t, s[o + 1]), t, D \cup {o})
              /\ Exactly(s, dict, t, D) => Exactly(s, Counted(dict, t, s[o + 1]), t, D \cup {o})
          BY <4>2, <4>4, CountedCovers
        <4>7. g[m].kline[type] = Counted(dict, t, s[o + 1])
          BY <2>5, <2>7, <3>1, <4>5
        <4>8. QED
          BY <4>1, <4>2, <4>5, <4>6, <4>7
      <3>2. CASE ~(m = d.market /\ t = at_d(type))
        <4>1. Bucket(s, m, type, t, b, o) = Bucket(s, m, type, t, b, u)
          BY <2>5, <2>9, <3>2
        <4>2. Agree(g[m].kline[type], f[m].kline[type], t)
          BY <2>7, <3>2, AgreeSelf
        <4>3. QED
          BY <4>1, <4>2, AgreeSame
      <3>3. QED
        BY <3>1, <3>2
    <2>11. MemCovers'
      <3>1. ASSUME NEW m \in Markets, NEW type \in Types, NEW t \in Nat, t >= Horizon(type),
                   <<m, type, t>> \notin gone
            PROVE  Covers(s, g[m].kline[type], t, Bucket(s, m, type, t, b, o))
        BY <2>1, <2>2, <2>3, <2>4, <2>10, <3>1 DEF DataInv, MemCovers, MemBucket
      <3>2. QED
        BY <1>2, <1>3, <2>1, <2>2, <2>8, <3>1 DEF MemCovers, MemBucket
    <2>12. RedisCovers' /\ RedisExact'
      BY <1>2, <1>3 DEF DataInv, RedisCovers, RedisExact, RedisBucket
    <2>13. Synced'
      <3>1. ASSUME NEW m \in Markets, NEW type \in Types, NEW t \in Nat, t >= Horizon(type)
            PROVE  /\ <<type, t>> \notin g[m].update /\ <<m, type, t>> \notin lost =>
                        Agree(redis.kline[m][type], g[m].kline[type], t)
                   /\ <<type, t>> \in g[m].update => t \in DOMAIN g[m].kline[type]
        <4>1. /\ <<type, t>> \notin f[m].update /\ <<m, type, t>> \notin lost =>
                   Agree(redis.kline[m][type], f[m].kline[type], t)
              /\ <<type, t>> \in f[m].update => t \in DOMAIN f[m].kline[type]
          BY <2>4, <3>1 DEF DataInv, Synced
        <4>2. CASE m = d.market /\ t = at_d(type)
          BY <2>7, <4>2
        <4>3. CASE m = d.market /\ t # at_d(type)
          <5>1. <<type, t>> \in g[m].update <=> <<type, t>> \in f[m].update
            BY <2>7, <4>3
          <5>2. Agree(g[m].kline[type], f[m].kline[type], t)
            BY <2>7, <4>3
          <5>3. QED
            BY <4>1, <5>1, <5>2 DEF Agree
        <4>4. CASE m # d.market
          BY <2>7, <4>1, <4>4
        <4>5. QED
          BY <4>2, <4>3, <4>4
      <3>2. QED
        BY <1>2, <1>3, <2>8, <3>1 DEF Synced
    <2>14. DealsSynced'
      <3>1. ASSUME NEW m \in Markets, <<m, "deals", 0>> \notin lost
            PROVE  g[m].deals_json = Pushed(g[m].deals, redis.deals[m], MARKET_DEALS_MAX)
        <4>1. f[m].deals_json = Pushed(f[m].deals, redis.deals[m], MARKET_DEALS_MAX)
          BY <2>4, <3>1 DEF DataInv, DealsSynced
        <4>2. CASE m = d.market
          <5>1. PICK new \in Seq(Nat) : new = f[m].deals
            BY DEF InfoSet
          <5>2. PICK old \in Seq(Nat) : old = redis.deals[m]
            BY DEF TypeOK, RedisSet
          <5>3. PICK k \in Nat : k = MARKET_DEALS_MAX
            BY PriceAssumption
          <5>4. PICK x \in Nat : x = d.id
            BY DEF MessageSet
          <5>5. Pushed(Append(new, x), old, k) = FirstOf(<<x>> \o Pushed(new, old, k), k)
            BY PushedMore
          <5>6. QED
            BY <2>7, <4>1, <4>2, <5>1, <5>2, <5>3, <5>4, <5>5
        <4>3. CASE m # d.market
          BY <2>7, <4>1, <4>3
        <4>4. QED
          BY <4>2, <4>3
      <3>2. QED
        BY <1>2, <2>8, <3>1 DEF DealsSynced
    <2>15. Flushed'
      <3>1. ASSUME NEW m \in Markets, ~g[m].touched \/ Done(m)'
            PROVE  g[m].update = {} /\ g[m].deals = <<>> /\ redis.last[m] = g[m].last
        <4>1. ~Done(m)'
          BY <1>2 DEF Done
        <4>2. m # d.market
          BY <2>7, <3>1, <4>1
        <4>3. QED
          BY <2>4, <2>7, <3>1, <4>1, <4>2 DEF DataInv, Flushed
      <3>2. at' # "deals"
        BY <1>2
      <3>3. QED
        BY <1>2, <2>8, <3>1, <3>2 DEF Flushed
    <2>16. MemExact'
      <3>1. SUFFICES ASSUME ~tainted' PROVE MemExact'
        BY DEF MemExact
      <3>2. ~tainted
        BY <1>2, <3>1
      <3>3. ASSUME NEW m \in Markets, NEW type \in Types, NEW t \in Nat, t >= Horizon(type)
            PROVE  Exactly(s, g[m].kline[type], t, Bucket(s, m, type, t, b, o))
        BY <2>1, <2>2, <2>3, <2>4, <2>10, <3>2, <3>3 DEF DataInv, MemExact, MemBucket
      <3>4. ASSUME NEW m \in Markets
            PROVE  /\ LastIs(s, g[m].last, DealsIn(s, m, b, o))
                   /\ Newest(g[m].deals_json, Ids(s, DealsIn(s, m, b, o)), MARKET_DEALS_MAX)
        <4>1. PICK D : D = DealsIn(s, m, b, u)
          OBVIOUS
        <4>2. /\ LastIs(s, f[m].last, D)
              /\ Newest(f[m].deals_json, Ids(s, D), MARKET_DEALS_MAX)
          BY <2>1, <2>2, <2>3, <2>4, <3>2, <4>1 DEF DataInv, MemExact
        <4>3. CASE m # d.market
          <5>1. DealsIn(s, m, b, o) = D
            BY <2>5, <2>9, <4>1, <4>3
          <5>2. QED
            BY <2>7, <4>2, <4>3, <5>1
        <4>4. CASE m = d.market
          <5>1. DealsIn(s, m, b, o) = D \cup {o} /\ \A p \in D : p < o
            BY <2>5, <2>9, <4>1, <4>4
          <5>2. D \subseteq Int
            BY <2>3, <4>1 DEF DealsIn
          <5>3. LastIs(s, g[m].last, D \cup {o})
            <6>1. g[m].last = s[o + 1].price
              BY <2>5, <2>7, <4>4
            <6>2. \A p \in D \cup {o} : p <= o
              BY <5>1, <5>2
            <6>3. QED
              BY <6>1, <6>2 DEF LastIs
          <5>4. Ids(s, D \cup {o}) = Ids(s, D) \cup {d.id}
            BY <2>5 DEF Ids
          <5>5. PICK x \in Nat : x = d.id
            BY DEF MessageSet
          <5>6. Ids(s, D) \subseteq Nat /\ \A id \in Ids(s, D) : id < x
            <6>1. ASSUME NEW p \in D PROVE s[p + 1].id \in Nat /\ s[p + 1].id < x
              <7>1. p \in Nat /\ p < o
                BY <2>3, <4>1, <5>1 DEF DealsIn
              <7>2. p + 1 \in 1..Len(s)
                BY <2>5, <7>1
              <7>3. s[p + 1].id \in {0, p + 1}
                BY <2>1, <7>2 DEF TypeOK
              <7>4. QED
                BY <2>5, <5>5, <7>1, <7>3
            <6>2. QED
              BY <6>1 DEF Ids
          <5>7. PICK ids : ids = Ids(s, D)
            OBVIOUS
          <5>8. PICK k \in Nat : k = MARKET_DEALS_MAX
            BY PriceAssumption
          <5>9. PICK json \in Seq(Nat) : json = f[m].deals_json
            BY DEF InfoSet
          <5>10. Newest(FirstOf(<<x>> \o json, k), ids \cup {x}, k)
            BY <4>2, <5>6, <5>7, <5>8, <5>9, NewestMore
          <5>11. QED
            BY <2>7, <4>4, <5>1, <5>3, <5>4, <5>5, <5>7, <5>8, <5>9, <5>10
        <4>5. QED
          BY <4>3, <4>4
      <3>5. QED
        BY <1>2, <1>3, <2>1, <2>2, <2>8, <3>3, <3>4 DEF MemExact, MemBucket
    <2>17. QED
      BY <2>11, <2>12, <2>13, <2>14, <2>15, <2>16 DEF DataInv
  <1>6. QED
    BY <1>4, <1>5

LEMMA DataNext ==
  ASSUME TypeOK, TypeOK', ConsumerInv, OffsetsInv, DataInv, [Next]_vars
  PROVE  DataInv'
  <1>1. ASSUME UNCHANGED <<now, topic, mem, redis, history>>, UNCHANGED <<at, markets, market>>
        PROVE  DataInv'
    <2>1. Flushed'
      BY <1>1 DEF DataInv, Flushed, Done
    <2>2. QED
      BY <1>1, <2>1, QuietData
  <1>2. CASE Thread \/ UNCHANGED vars
    BY <1>1, <1>2 DEF Thread, vars, environment, flushing
  <1>3. CASE on_can_read
    <2>1. /\ at = "loop"
          /\ UNCHANGED <<environment, flushing, redis, begun, saved, ahead, lost, gone, tainted>>
      BY <1>3 DEF on_can_read
    <2>2. CASE UNCHANGED <<mem, last_offset, upto>>
      BY <1>1, <2>1, <2>2 DEF environment, flushing, history
    <2>3. CASE Take(on_deals_message)
      BY <2>1, <2>3, TakeData
    <2>4. QED
      BY <1>3, <2>2, <2>3 DEF on_can_read
  <1>4. CASE on_market_timer \/ NextMarket
    BY <1>4, TimerData
  <1>5. CASE flush_kline
    BY <1>5, FlushKlineData
  <1>6. CASE flush_last
    BY <1>6, FlushLastData
  <1>7. CASE flush_deals
    BY <1>7, FlushDealsData
  <1>8. CASE flush_offset
    BY <1>8, FlushOffsetData
  <1>9. CASE clear_kline
    BY <1>9, ClearKlineData
  <1>10. CASE clear_redis
    BY <1>10, ClearRedisData
  <1>11. CASE Crash
    BY <1>11, CrashData
  <1>12. CASE Deal \/ Tick
    BY <1>12, OutsideData
  <1>13. QED
    BY <1>2, <1>3, <1>4, <1>5, <1>6, <1>7, <1>8, <1>9, <1>10, <1>11, <1>12 DEF Next, Flush

--------------------------------------------------------------------------------
(* The beginning.                                                          *)

LEMMA TopicInit ==
  ASSUME Init
  PROVE  /\ topic \in Seq(MessageSet) /\ Len(topic) \in {0, 1}
         /\ \A i \in 1..Len(topic) : topic[i].id \in {0, i}
         /\ ConsumeStart(1) = Len(topic)
  <1>1. PICK m \in Markets, p \in Prices, a \in Amounts :
          topic \in {<<>>, <<Message(m, p, a, 1)>>}
    BY DEF Init
  <1>2. now \in Nat /\ p \in Nat /\ a \in Nat
    BY PriceAssumption DEF Init
  <1>3. PICK d \in MessageSet : d = Message(m, p, a, 1) /\ d.id = 1
    <2>1. Message(m, p, a, 1) \in MessageSet /\ Message(m, p, a, 1).id = 1
      BY <1>2 DEF Message, MessageSet
    <2>2. QED
      BY <2>1
  <1>4. topic = <<>> \/ topic = <<d>>
    BY <1>1, <1>3
  <1>5. /\ topic \in Seq(MessageSet) /\ Len(topic) \in {0, 1}
        /\ \A i \in 1..Len(topic) : topic[i].id \in {0, i}
    <2>1. CASE topic = <<>>
      BY <2>1
    <2>2. CASE topic = <<d>>
      BY <1>3, <2>2
    <2>3. QED
      BY <1>4, <2>1, <2>2
  <1>6. ConsumeStart(1) = Len(topic)
    <2>1. PICK l \in Int : l = Len(topic) /\ l \in {0, 1}
      BY <1>5
    <2>2. Min({1, l}) = IF 1 <= l THEN 1 ELSE l
      BY MinMaxOfTwo
    <2>3. QED
      BY <2>1, <2>2 DEF ConsumeStart
  <1>7. QED
    BY <1>5, <1>6

LEMMA MemInit ==
  ASSUME Init, NEW m \in Markets
  PROVE  /\ mem[m] \in InfoSet
         /\ mem[m].update = {} /\ mem[m].deals = <<>> /\ mem[m].deals_json = <<>>
         /\ mem[m].last = 0 /\ mem[m].touched = TRUE
         /\ \A type \in Types : mem[m].kline[type] = <<>>
         /\ redis.deals[m] = <<>> /\ redis.last[m] = 0
         /\ \A type \in Types : redis.kline[m][type] = <<>>
  <1>1. mem[m] = create_market(m)
    BY DEF Init
  <1>2. create_market(m) \in InfoSet
    <2>1. [type \in Types |-> <<>>] \in [Types -> DictSet]
      BY NoKlines
    <2>2. <<>> \in Seq(Nat)
      OBVIOUS
    <2>3. QED
      BY <2>1, <2>2 DEF create_market, InfoSet
  <1>3. /\ redis.deals[m] = <<>> /\ redis.last[m] = 0
        /\ \A type \in Types : redis.kline[m][type] = <<>>
    BY DEF Init, NothingSaved
  <1>4. QED
    BY <1>1, <1>2, <1>3 DEF create_market

LEMMA PriceInit ==
  ASSUME Init
  PROVE  PriceInv
  <1>1. /\ topic \in Seq(MessageSet) /\ Len(topic) \in {0, 1}
        /\ \A i \in 1..Len(topic) : topic[i].id \in {0, i}
        /\ ConsumeStart(1) = Len(topic)
    BY TopicInit
  <1>2. PICK c \in Nat : c = Len(topic) /\ c \in {0, 1}
    BY <1>1
  <1>3. /\ position = c /\ begun = c /\ upto = c - 1 /\ saved = c - 1 /\ last_offset = 0
        /\ list = <<>> /\ consuming = FALSE /\ redis.offset = <<>>
        /\ at = "loop" /\ markets = {} /\ market \in Markets
        /\ ahead = FALSE /\ tainted = FALSE
    BY <1>1, <1>2 DEF Init, kafka_consumer_create, NothingSaved
  <1>4. TypeOK
    <2>1. now \in Nat
      BY PriceAssumption DEF Init
    <2>2. mem \in [Markets -> InfoSet]
      <3>1. mem = [m \in Markets |-> create_market(m)]
        BY DEF Init
      <3>2. \A m \in Markets : mem[m] \in InfoSet
        BY MemInit
      <3>3. QED
        BY <3>1, <3>2
    <2>3. redis \in RedisSet /\ \A m \in Markets : Len(redis.deals[m]) <= MARKET_DEALS_MAX
      <3>1. [m \in Markets |-> [type \in Types |-> <<>>]] \in [Markets -> [Types -> DictSet]]
        BY NoKlines
      <3>2. <<>> \in Seq(Nat) /\ Len(<<>>) = 0
        OBVIOUS
      <3>3. redis \in RedisSet
        BY <3>1, <3>2 DEF Init, NothingSaved, RedisSet
      <3>4. \A m \in Markets : redis.deals[m] = <<>>
        BY MemInit
      <3>5. 0 <= MARKET_DEALS_MAX
        BY PriceAssumption
      <3>6. QED
        BY <3>2, <3>3, <3>4, <3>5
    <2>4. QED
      BY <1>1, <1>3, <2>1, <2>2, <2>3 DEF TypeOK
  <1>5. ConsumerInv
    BY <1>2, <1>3, PriceAssumption DEF ConsumerInv
  <1>6. OffsetsInv
    <2>1. next_offset = c
      BY <1>2, <1>3 DEF next_offset
    <2>2. get_message_offset = 0
      BY <1>3 DEF get_message_offset
    <2>3. PICK u \in Int : u = c - 1 /\ u + 1 = c /\ u \in {-1, 0}
      BY <1>2
    <2>4. QED
      BY <1>2, <1>3, <2>1, <2>2, <2>3 DEF OffsetsInv
  <1>7. ASSUME NEW m
        PROVE  /\ DealsIn(topic, m, begun, upto) = {} /\ DealsIn(topic, m, begun, saved) = {}
               /\ \A type, t : /\ Bucket(topic, m, type, t, begun, upto) = {}
                               /\ Bucket(topic, m, type, t, begun, saved) = {}
    <2>1. PICK a \in Int, u \in Int : a = begun /\ u = upto /\ u = saved /\ u < a
      BY <1>2, <1>3
    <2>2. /\ DealsIn(topic, m, a, u) = {}
          /\ \A type, t : Bucket(topic, m, type, t, a, u) = {}
      BY <2>1, NoBucket
    <2>3. QED
      BY <2>1, <2>2
  <1>8. MemCovers /\ RedisCovers
    BY <1>7 DEF MemCovers, RedisCovers, MemBucket, RedisBucket, Covers
  <1>9. Synced
    BY MemInit DEF Synced, Agree
  <1>10. DealsSynced
    <2>1. PICK k \in Nat : k = MARKET_DEALS_MAX
      BY PriceAssumption
    <2>2. ASSUME NEW s \in Seq(Nat), Len(s) <= k PROVE Pushed(<<>>, s, k) = s
      <3>1. Pushed(<<>>, s, k) = FirstOf(s, k)
        BY PushedNothing
      <3>2. FirstOf(s, k) = s
        BY <2>2, FirstOfIs
      <3>3. QED
        BY <3>1, <3>2
    <2>3. <<>> \in Seq(Nat) /\ Len(<<>>) <= k
      OBVIOUS
    <2>4. Pushed(<<>>, <<>>, MARKET_DEALS_MAX) = <<>>
      BY <2>1, <2>2, <2>3
    <2>5. QED
      BY <2>4, MemInit DEF DealsSynced
  <1>11. Flushed
    BY <1>3, MemInit DEF Flushed, Done
  <1>12. ASSUME NEW m
         PROVE  LastIs(topic, 0, {}) /\ Newest(<<>>, Ids(topic, {}), MARKET_DEALS_MAX)
    BY PriceAssumption DEF LastIs, Newest, Ids, ToSet
  <1>13. DOMAIN <<>> = {}
    OBVIOUS
  <1>14. MemExact /\ RedisExact
    <2>1. ASSUME NEW m \in Markets, NEW type \in Types, NEW t \in Nat
          PROVE  /\ Exactly(topic, mem[m].kline[type], t, {})
                 /\ Exactly(topic, redis.kline[m][type], t, {})
      BY <1>13, MemInit DEF Exactly
    <2>2. ASSUME NEW m \in Markets
          PROVE  /\ mem[m].last = 0 /\ mem[m].deals_json = <<>>
                 /\ redis.last[m] = 0 /\ redis.deals[m] = <<>>
      BY MemInit
    <2>3. MemExact
      BY <1>7, <1>12, <2>1, <2>2 DEF MemExact, MemBucket
    <2>4. RedisExact
      BY <1>7, <1>12, <2>1, <2>2 DEF RedisExact, RedisBucket
    <2>5. QED
      BY <2>3, <2>4
  <1>15. QED
    BY <1>4, <1>5, <1>6, <1>8, <1>9, <1>10, <1>11, <1>14 DEF PriceInv, DataInv

--------------------------------------------------------------------------------
(* What the invariant says of the klines that are kept.                    *)

LEMMA HorizonMultiple ==
  ASSUME TypeOK, NEW type \in Types
  PROVE  \E k \in Int : Horizon(type) = k * Unit(type)
  <1>1. now \in Nat /\ type \in {"sec", "min", "hour", "day"}
    BY TypesOf DEF TypeOK
  <1>2. /\ MIN \in Nat \ {0} /\ HOUR \in Nat \ {0}
        /\ sec_max \in Nat /\ min_max \in Nat /\ hour_max \in Nat
    BY KlinesAssumption
  <1>3. ASSUME NEW u \in Nat \ {0}, NEW x \in Nat
        PROVE  \E k \in Int : Down(now, u) - x * u = k * u
    <2>1. now \div u \in Int /\ Down(now, u) = (now \div u) * u
      BY <1>1, DownBounds DEF Down
    <2>2. PICK q \in Int : q = now \div u
      BY <2>1
    <2>3. q - x \in Int /\ q * u - x * u = (q - x) * u
      OBVIOUS
    <2>4. QED
      BY <2>1, <2>2, <2>3
  <1>4. CASE type = "sec"
    <2>1. now - sec_max \in Int /\ now - sec_max = (now - sec_max) * 1
      BY <1>1, <1>2
    <2>2. QED
      BY <1>4, <2>1 DEF Horizon, Unit
  <1>5. CASE type = "min"
    BY <1>2, <1>3, <1>5 DEF Horizon, Unit
  <1>6. CASE type = "hour"
    BY <1>2, <1>3, <1>6 DEF Horizon, Unit
  <1>7. CASE type = "day"
    <2>1. DAY \in Nat /\ 0 = 0 * DAY
      BY KlinesAssumption
    <2>2. QED
      BY <1>7, <2>1 DEF Horizon, Unit
  <1>8. QED
    BY <1>1, <1>4, <1>5, <1>6, <1>7

LEMMA KeptIs ==
  ASSUME TypeOK, NEW type \in Types, NEW t \in Kept(type)
  PROVE  \E n \in Int : t = n * Unit(type) /\ t >= Horizon(type)
  <1>1. PICK u \in Nat \ {0} : u = Unit(type)
    BY TypesOf, UnitNat
  <1>2. PICK k \in Int : Horizon(type) = k * u
    BY <1>1, HorizonMultiple
  <1>3. PICK h \in Int : h = k * u
    OBVIOUS
  <1>4. Down(h, u) = k * u
    BY <1>1, <1>3, DownIs
  <1>5. PICK q \in Int : q = h \div u
    BY <1>3, DownBounds
  <1>6. q * u = h
    BY <1>3, <1>4, <1>5 DEF Down
  <1>7. PICK e : e = now \div u
    OBVIOUS
  <1>8. PICK n \in q..e : t = n * u
    BY <1>1, <1>2, <1>3, <1>5, <1>7 DEF Kept
  <1>9. n \in Int /\ q <= n
    <2>1. e \in Int
      BY <1>1, <1>7, DownBounds DEF TypeOK
    <2>2. QED
      BY <1>8, <2>1
  <1>10. q * u <= n * u
    BY <1>1, <1>9, ProductMonotone
  <1>11. n * u \in Int
    BY <1>9
  <1>12. QED
    BY <1>1, <1>2, <1>3, <1>6, <1>8, <1>9, <1>10, <1>11

LEMMA KeptBucket ==
  ASSUME PriceInv, NEW m \in Markets, NEW type \in Types, NEW t \in Kept(type)
  PROVE  /\ t \in Int /\ t >= Horizon(type)
         /\ Within(DealsOf(m, begun, upto), t, t + Unit(type)) = MemBucket(m, type, t)
         /\ Offsets(topic, MemBucket(m, type, t))
         /\ t \notin Nat => MemBucket(m, type, t) = {}
         /\ mem[m].kline[type] \in DictSet
  <1>1. TypeOK /\ ConsumerInv /\ OffsetsInv
    BY DEF PriceInv
  <1>2. PICK u \in Nat \ {0} : u = Unit(type)
    BY TypesOf, UnitNat
  <1>3. PICK n \in Int : t = n * u /\ t >= Horizon(type)
    BY <1>1, <1>2, KeptIs
  <1>4. t \in Int
    BY <1>2, <1>3
  <1>5. PICK first \in Nat, last \in Int : first = begun /\ last = upto /\ last < Len(topic)
    BY <1>1, CountedOffsets DEF OffsetsInv
  <1>6. topic \in Seq(MessageSet)
    BY <1>1 DEF TypeOK
  <1>7. Within(DealsOf(m, first, last), n * Unit(type), n * Unit(type) + Unit(type))
          = Bucket(topic, m, type, n * Unit(type), first, last)
    BY <1>5, <1>6, BucketWithin
  <1>8. Offsets(topic, MemBucket(m, type, t))
    <2>1. PICK s \in Seq(MessageSet) : s = topic
      BY <1>6
    <2>2. Offsets(s, Bucket(s, m, type, t, first, last))
      BY <1>5, <2>1, BucketOffsets
    <2>3. QED
      BY <1>5, <2>1, <2>2 DEF MemBucket
  <1>9. ASSUME t \notin Nat PROVE MemBucket(m, type, t) = {}
    <2>1. ASSUME NEW o \in MemBucket(m, type, t) PROVE FALSE
      <3>1. topic[o + 1] \in MessageSet
        BY <1>8, <2>1 DEF Offsets
      <3>2. PICK x \in Nat : x = topic[o + 1].time
        BY <3>1 DEF MessageSet
      <3>3. Down(x, u) \in Nat
        BY DownBounds
      <3>4. Down(x, u) = t
        BY <1>2, <2>1, <3>2 DEF MemBucket, Bucket
      <3>5. QED
        BY <1>9, <3>3, <3>4
    <2>2. QED
      BY <2>1
  <1>10. mem[m].kline[type] \in DictSet
    <2>1. mem[m].kline \in [Types -> DictSet]
      BY <1>1 DEF TypeOK, InfoSet
    <2>2. QED
      BY <2>1
  <1>11. QED
    BY <1>2, <1>3, <1>4, <1>5, <1>7, <1>8, <1>9, <1>10 DEF MemBucket

LEMMA MissedNothing ==
  ASSUME PriceInv
  PROVE  NothingMissed
  <1>1. SUFFICES ASSUME NEW m \in Markets, NEW type \in Types, NEW t \in Kept(type),
                        Within(DealsOf(m, begun, upto), t, t + Unit(type)) # {},
                        <<m, type, t>> \notin gone
                 PROVE  LET deals == Within(DealsOf(m, begun, upto), t, t + Unit(type))
                            dict == mem[m].kline[type]
                        IN /\ t \in DOMAIN dict
                           /\ dict[t].volume >= Volume(deals) /\ dict[t].deal >= Worth(deals)
                           /\ \A p \in PricesOf(deals) : dict[t].low <= p /\ p <= dict[t].high
    BY DEF NothingMissed
  <1>2. PICK D : D = MemBucket(m, type, t)
    OBVIOUS
  <1>3. /\ t >= Horizon(type) /\ Within(DealsOf(m, begun, upto), t, t + Unit(type)) = D
        /\ t \in Nat /\ D # {}
    BY <1>1, <1>2, KeptBucket
  <1>4. Covers(topic, mem[m].kline[type], t, D)
    BY <1>1, <1>2, <1>3 DEF PriceInv, DataInv, MemCovers
  <1>5. t \in DOMAIN mem[m].kline[type] /\ AtLeast(topic, mem[m].kline[type][t], D)
    BY <1>3, <1>4 DEF Covers
  <1>6. VolumeOf(topic, D) = Volume(D) /\ WorthOf(topic, D) = Worth(D)
    BY DEF VolumeOf, WorthOf, Volume, Worth, MessageAt
  <1>7. QED
    BY <1>3, <1>5, <1>6 DEF AtLeast, PricesOf, MessageAt

LEMMA ExactlyKept ==
  ASSUME PriceInv, ~tainted, NEW m \in Markets, NEW type \in Types, NEW t \in Kept(type)
  PROVE  LET deals == Within(DealsOf(m, begun, upto), t, t + Unit(type))
             dict == mem[m].kline[type]
         IN IF deals = {} THEN t \notin DOMAIN dict
            ELSE t \in DOMAIN dict /\ dict[t] = KlineOf(deals)
  <1>1. PICK D : D = MemBucket(m, type, t)
    OBVIOUS
  <1>2. /\ t >= Horizon(type) /\ Within(DealsOf(m, begun, upto), t, t + Unit(type)) = D
        /\ Offsets(topic, D) /\ (t \notin Nat => D = {})
    BY <1>1, KeptBucket
  <1>3. PICK dict \in DictSet : dict = mem[m].kline[type]
    <2>1. mem[m].kline[type] \in DictSet
      BY KeptBucket
    <2>2. QED
      BY <2>1
  <1>4. DOMAIN dict \subseteq Nat /\ \A x \in DOMAIN dict : dict[x] \in KlineSet
    BY DictIs
  <1>5. CASE t \notin Nat
    BY <1>2, <1>3, <1>4, <1>5
  <1>6. CASE t \in Nat
    <2>1. Exactly(topic, dict, t, D)
      BY <1>1, <1>2, <1>3, <1>6 DEF PriceInv, DataInv, MemExact
    <2>2. CASE D = {}
      BY <1>2, <1>3, <2>1, <2>2 DEF Exactly
    <2>3. CASE D # {}
      <3>1. t \in DOMAIN dict /\ IsKline(topic, dict[t], D)
        BY <2>1, <2>3 DEF Exactly
      <3>2. PICK k \in KlineSet : k = dict[t] /\ IsKline(topic, k, D)
        BY <1>4, <3>1
      <3>3. k = KlineOf(D)
        BY <1>2, <3>2, KlineIsKlineOf
      <3>4. QED
        BY <1>2, <1>3, <2>3, <3>1, <3>2, <3>3
    <2>4. QED
      BY <2>2, <2>3
  <1>7. QED
    BY <1>5, <1>6

LEMMA ExactlyUninterrupted ==
  ASSUME PriceInv
  PROVE  ExactUnlessInterrupted
  <1>1. SUFFICES ASSUME ~tainted, NEW m \in Markets
                 PROVE  /\ mem[m].last = LastPrice(DealsOf(m, begun, upto))
                        /\ Newest(mem[m].deals_json,
                                  {MessageAt(o).id : o \in DealsOf(m, begun, upto)},
                                  MARKET_DEALS_MAX)
    BY ExactlyKept DEF ExactUnlessInterrupted
  <1>2. PICK D : D = DealsOf(m, begun, upto)
    OBVIOUS
  <1>3. D = DealsIn(topic, m, begun, upto) /\ D \subseteq Int
    BY <1>2 DEF DealsOf, DealsIn, MessageAt, PriceInv, OffsetsInv
  <1>4. /\ LastIs(topic, mem[m].last, D)
        /\ Newest(mem[m].deals_json, Ids(topic, D), MARKET_DEALS_MAX)
    BY <1>1, <1>3 DEF PriceInv, DataInv, MemExact
  <1>5. mem[m].last = LastPrice(D)
    <2>1. CASE D = {}
      BY <1>4, <2>1 DEF LastIs, LastPrice
    <2>2. CASE D # {}
      <3>1. PICK o \in D : mem[m].last = topic[o + 1].price /\ \A p \in D : p <= o
        BY <1>4, <2>2 DEF LastIs
      <3>2. Max(D) = o
        BY <1>3, <3>1, MinMaxIs
      <3>3. QED
        BY <2>2, <3>1, <3>2 DEF LastPrice, MessageAt
    <2>3. QED
      BY <2>1, <2>2
  <1>6. Newest(mem[m].deals_json, {MessageAt(o).id : o \in D}, MARKET_DEALS_MAX)
    BY <1>4 DEF Ids, MessageAt
  <1>7. QED
    BY <1>2, <1>5, <1>6

--------------------------------------------------------------------------------
(* What memory has misses nothing that was counted, what Redis has misses  *)
(* nothing that was saved, and both differ by what is noted or was lost:   *)
(* that is what a flush, which dies anywhere, and a restart rely on.       *)
THEOREM PriceInvariant == Spec => []PriceInv
  <1>1. Init => PriceInv
    BY PriceInit
  <1>2. PriceInv /\ [Next]_vars => PriceInv'
    <2>1. SUFFICES ASSUME PriceInv, [Next]_vars PROVE PriceInv'
      OBVIOUS
    <2>2. TypeOK /\ ConsumerInv /\ OffsetsInv /\ DataInv
      BY <2>1 DEF PriceInv
    <2>3. TypeOK' /\ ConsumerInv' /\ OffsetsInv'
      BY <2>1, <2>2, TypeNext, ConsumerNext, OffsetsNext
    <2>4. DataInv'
      BY <2>1, <2>2, <2>3, DataNext
    <2>5. QED
      BY <2>3, <2>4 DEF PriceInv
  <1>3. QED
    BY <1>1, <1>2, PTL DEF Spec

(* No message is left in the consumer's list with nothing to wake the main *)
(* thread, and the list is never longer than it may be (on_can_read,       *)
(* thread_routine).                                                        *)
THEOREM ConsumerAlwaysWoken == Spec => []ConsumerWoken
  <1>1. PriceInv => ConsumerWoken
    <2>1. SUFFICES ASSUME ConsumerInv PROVE ConsumerWoken
      BY DEF PriceInv
    <2>2. DOMAIN list = 1..Len(list)
      BY <2>1 DEF ConsumerInv
    <2>3. list # <<>> => pipe \/ taking
      BY <2>1, Zenon DEF ConsumerInv
    <2>4. Len(list) <= limit /\ \A i \in DOMAIN list : list[i] = position - Len(list) + i - 1
      BY <2>1, <2>2 DEF ConsumerInv
    <2>5. QED
      BY <2>3, <2>4, Zenon DEF ConsumerWoken
  <1>2. QED
    BY <1>1, PriceInvariant, PTL

(* Whatever fails and wherever the process dies, no deal is missing from a *)
(* kline that is kept, unless its write was lost (flush_market,            *)
(* flush_offset, init_message).                                            *)
THEOREM NoneMissed == Spec => []NothingMissed
  BY MissedNothing, PriceInvariant, PTL

(* Unless the process died between a flush's first write and its offset,   *)
(* every kline, the last price and the newest deals are what the messages  *)
(* make them (market_update, load_market).                                 *)
THEOREM ExactIfUninterrupted == Spec => []ExactUnlessInterrupted
  BY ExactlyUninterrupted, PriceInvariant, PTL

================================================================================
