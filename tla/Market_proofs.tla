----------------------------- MODULE Market_proofs -----------------------------
(***************************************************************************)
(* The invariants of the market that hold for every set of users, amounts, *)
(* prices and fee rates, whatever balance call is refused.  They are       *)
(* proved together, as MarketInv: a fill keeps an order's accounting only  *)
(* because prices are positive, the book stays uncrossed only because what *)
(* rests still has something left, and so on.                              *)
(* First what the balance calls preserve, the arithmetic of a deal and the *)
(* order of the two lists; then the funds; at the end, what a new listing  *)
(* and a start keep of the orders.                                         *)
(***************************************************************************)
EXTENDS MarketProperties, Listing, FiniteSetTheorems, WellFoundedInduction, TLAPS

-------------------------------------------------------------------------------
(* Arithmetic.                                                             *)

(* The products of the engine's amounts, prices and rates are amounts. *)
LEMMA ProductNat == \A x, y \in Nat : x * y \in Nat
  BY SMT

(* A product grows with its factor. *)
LEMMA ProductMonotone ==
  ASSUME NEW x \in Nat, NEW y \in Nat, NEW z \in Nat, x <= y
  PROVE  z * x <= z * y /\ x * z <= y * z
  BY SMT

(* What is frozen for a part of an order is the part of what is frozen. *)
LEMMA ProductMinus ==
  ASSUME NEW p \in Nat, NEW x \in Nat, NEW y \in Nat
  PROVE  p * (x - y) = p * x - p * y /\ p * (x + y) = p * x + p * y
  BY SMT

(* The amount a market bid affords costs no more than what it has left     *)
(* (the rounding of execute_market_bid_order).                             *)
LEMMA Affordable ==
  ASSUME NEW l \in Nat, NEW p \in Nat \ {0}
  PROVE  l \div p \in Nat /\ p * (l \div p) <= l
  BY SMT

LEMMA CeilDivNat ==
  ASSUME NEW x \in Nat, NEW d \in Nat \ {0}
  PROVE  CeilDiv(x, d) \in Nat
  BY SMT DEF CeilDiv

-------------------------------------------------------------------------------
(* Every operation of me_balance.c leaves a table of naturals: no balance  *)
(* is ever negative, whether the call was refused or not.                  *)

LEMMA BalanceOpsType ==
  ASSUME NEW b \in Balances, NEW u \in Users, NEW t \in BalanceTypes,
         NEW a \in Assets, NEW x \in Nat
  PROVE  /\ balance_add(b, <<u, t, a>>, x) \in Balances
         /\ balance_sub(b, <<u, t, a>>, x) \in Balances
         /\ balance_freeze(b, u, a, x) \in Balances
         /\ balance_unfreeze(b, u, a, x) \in Balances
  <1>1. <<u, t, a>> \in BalanceKey
    BY DEF BalanceKey
  <1>2. /\ <<u, "available", a>> \in BalanceKey
        /\ <<u, "freeze", a>> \in BalanceKey
    BY DEF BalanceKey, BalanceTypes
  <1>3. b \in [BalanceKey -> Nat]
    BY DEF Balances
  <1>4. balance_add(b, <<u, t, a>>, x) \in Balances
    BY <1>1, <1>3 DEF balance_add, Balances
  <1>5. balance_sub(b, <<u, t, a>>, x) \in Balances
    BY <1>1, <1>3 DEF balance_sub, Balances, Covers
  <1>6. balance_freeze(b, u, a, x) \in Balances
    BY <1>2, <1>3 DEF balance_freeze, Balances, Covers
  <1>7. balance_unfreeze(b, u, a, x) \in Balances
    BY <1>2, <1>3 DEF balance_unfreeze, Balances, Covers
  <1>8. QED
    BY <1>4, <1>5, <1>6, <1>7

(* One side of a deal. *)
LEMMA SettleType ==
  ASSUME NEW b \in Balances, NEW o \in Order, NEW from \in BalanceTypes,
         NEW role \in {"taker", "maker"}, NEW amount \in Nat, NEW deal \in Nat,
         NEW rate \in Nat, NEW bidFeeIn \in Assets
  PROVE  LET s == Settle(b, o, from, role, amount, deal, rate, bidFeeIn)
         IN /\ s.balance \in Balances
            /\ s.feeIn \in Assets
            /\ s.fee \in Nat
            /\ s.ignored \subseteq Refusals
  <1> DEFINE feeIn == IF o.side = "ask" THEN "money" ELSE bidFeeIn
             pay   == IF o.side = "ask" THEN StockUnits(amount) ELSE deal
             get   == IF o.side = "ask" THEN deal ELSE StockUnits(amount)
             fee   == ChargedFee(feeIn, amount, deal, rate)
             payFrom == <<o.user, from, Gives(o.side)>>
             feeFrom == <<o.user, "available", feeIn>>
             paid  == balance_sub(b, payFrom, pay)
             got   == balance_add(paid, <<o.user, "available", Gets(o.side)>>, get)
  <1>1. /\ o.user \in Users
        /\ feeIn \in Assets
        /\ Gives(o.side) \in Assets
        /\ Gets(o.side) \in Assets
        /\ "available" \in BalanceTypes
    BY DEF Order, Assets, Gives, Gets, BalanceTypes
  <1>2. FeeDen \in Nat \ {0}
    BY MarketAssumption
  <1>3. StockUnits(amount) \in Nat
    BY <1>2, ProductNat DEF StockUnits
  <1>4. fee \in Nat
    BY <1>2, ProductNat, CeilDivNat DEF ChargedFee
  <1>5. paid \in Balances
    BY <1>1, <1>3, BalanceOpsType
  <1>6. got \in Balances
    BY <1>1, <1>3, <1>5, BalanceOpsType
  <1>7. balance_sub(got, feeFrom, fee) \in Balances
    BY <1>1, <1>4, <1>6, BalanceOpsType
  <1>8. {<<role, "pay">>, <<role, "fee">>} \subseteq Refusals
    BY DEF Refusals
  <1> HIDE DEF feeIn, pay, get, fee, payFrom, feeFrom, paid, got
  <1>9. Settle(b, o, from, role, amount, deal, rate, bidFeeIn) =
          [balance |-> balance_sub(got, feeFrom, fee),
           feeIn   |-> feeIn,
           fee     |-> IF Covers(got, feeFrom, fee) THEN fee ELSE 0,
           ignored |-> (IF Covers(b, payFrom, pay) THEN {} ELSE {<<role, "pay">>})
                       \cup (IF Covers(got, feeFrom, fee) THEN {}
                             ELSE {<<role, "fee">>})]
    BY DEF Settle, feeIn, pay, get, fee, payFrom, feeFrom, paid, got
  <1>10. QED
    BY <1>1, <1>4, <1>7, <1>8, <1>9

-------------------------------------------------------------------------------
(* The lists of one side have a first order as long as they have any: the  *)
(* iterator of a matching loop starts at the best price and oldest id.     *)

(* The shape of a list: orders of the book, all of one side. *)
IsList(list) ==
    /\ list \subseteq DOMAIN orders
    /\ DOMAIN orders \subseteq OrderId
    /\ \A i \in list : orders[i].price \in Nat
    /\ \A i, j \in list : orders[i].side = orders[j].side
    /\ \A i \in list : orders[i].side \in Sides

LEMMA ListFirst ==
  ASSUME NEW list, IsList(list), list # {}
  PROVE  \E i \in list : IsFirst(i, list)
  <1> DEFINE upTo(n) == {i \in list : i <= n}
             T == {n \in Nat : upTo(n) # {} /\ ~\E i \in upTo(n) : IsFirst(i, upTo(n))}
  <1>1. /\ MaxOrderId \in Nat
        /\ \A i \in list : i \in Nat /\ 1 <= i /\ i <= MaxOrderId
    BY MarketAssumption DEF IsList, OrderId
  <1>2. upTo(MaxOrderId) = list
    <2>1. \A i : i \in upTo(MaxOrderId) <=> i \in list
      BY <1>1
    <2>2. QED
      BY <2>1
  <1>3. ASSUME T # {}
        PROVE  FALSE
    <2>1. PICK n \in T : \A k \in T : ~ (<<k, n>> \in OpToRel(<, Nat))
      <3>1. T \subseteq Nat
        OBVIOUS
      <3> HIDE DEF T
      <3>2. QED
        BY <1>3, <3>1, WFMin, NatLessThanWellFounded
    <2>2. \A k \in T : ~ (k < n)
      BY <2>1 DEF OpToRel
    <2>3. n \in Nat /\ upTo(n) # {} /\ ~\E i \in upTo(n) : IsFirst(i, upTo(n))
      OBVIOUS
    <2>4. n # 0
      BY <1>1, <2>3
    <2>5. n - 1 \in Nat /\ n - 1 < n /\ n - 1 \notin T
      BY <2>2, <2>3, <2>4
    <2>6. CASE n \notin list
      <3>1. upTo(n) = upTo(n - 1)
        BY <1>1, <2>3, <2>6
      <3> HIDE DEF upTo
      <3>2. QED
        BY <2>3, <2>5, <3>1
    <2>7. CASE n \in list
      <3>1. upTo(n) = upTo(n - 1) \cup {n} /\ n \notin upTo(n - 1)
        <4> HIDE DEF T
        <4>0. \A i \in list : i <= n <=> (i <= n - 1 \/ i = n)
          BY <1>1, <2>3
        <4>1. \A i : i \in upTo(n) <=> i \in upTo(n - 1) \cup {n}
          BY <1>1, <2>3, <2>7, <4>0
        <4>2. n \notin upTo(n - 1)
          BY <2>3
        <4>3. QED
          BY <4>1, <4>2
      <3>2. CASE upTo(n - 1) = {}
        <4>1. IsFirst(n, upTo(n))
          BY <3>1, <3>2 DEF IsFirst
        <4>2. QED
          BY <2>3, <3>1, <4>1
      <3>3. CASE upTo(n - 1) # {}
        <4>1. PICK i \in upTo(n - 1) : IsFirst(i, upTo(n - 1))
          <5> HIDE DEF upTo
          <5>1. QED
            BY <2>5, <3>3
        <4>2. i \in list /\ i \in Nat /\ i < n
          BY <1>1, <2>3
        <4>3. CASE order_match_before(i, n)
          <5>1. IsFirst(i, upTo(n))
            BY <3>1, <4>1, <4>3 DEF IsFirst
          <5>2. QED
            BY <2>3, <3>1, <5>1
        <4>4. CASE ~order_match_before(i, n)
          <5>1. \A j \in upTo(n - 1) : order_match_before(n, j)
            <6> TAKE j \in upTo(n - 1)
            <6>1. j \in list /\ j \in Nat /\ j < n
              BY <1>1, <2>3
            <6>2. /\ orders[i].price \in Nat /\ orders[j].price \in Nat
                  /\ orders[n].price \in Nat
                  /\ orders[i].side = orders[n].side
                  /\ orders[j].side = orders[n].side
                  /\ orders[n].side \in Sides
              BY <2>7, <4>2, <6>1 DEF IsList
            <6>3. j = i \/ order_match_before(i, j)
              BY <4>1 DEF IsFirst
            <6>4. QED
              BY <4>2, <4>4, <6>1, <6>2, <6>3, <2>3 DEF order_match_before, Sides
          <5>2. IsFirst(n, upTo(n))
            BY <3>1, <5>1 DEF IsFirst
          <5>3. QED
            BY <2>3, <3>1, <5>2
        <4>5. QED
          BY <4>3, <4>4
      <3>4. QED
        BY <3>2, <3>3
    <2>8. QED
      BY <2>6, <2>7
  <1>4. QED
    BY <1>1, <1>2, <1>3

-------------------------------------------------------------------------------
(* Sums.                                                                   *)

(* The units that SumOf counts: those of one argument, and all of them.    *)
UnitsOf(f, x) == {x} \X (1..f[x])
Units(f) == UNION {UnitsOf(f, x) : x \in DOMAIN f}

(* One argument has as many units as its value.                            *)
LEMMA UnitsOfCount ==
  ASSUME NEW f, NEW x, f[x] \in Nat
  PROVE  IsFiniteSet(UnitsOf(f, x)) /\ Cardinality(UnitsOf(f, x)) = f[x]
  <1> DEFINE g == [k \in 1..f[x] |-> <<x, k>>]
  <1>1. g \in Bijection(1..f[x], UnitsOf(f, x))
    BY DEF Bijection, Injection, Surjection, IsInjective, UnitsOf
  <1>2. ExistsBijection(1..f[x], UnitsOf(f, x))
    BY <1>1 DEF ExistsBijection
  <1>3. IsFiniteSet(1..f[x]) /\ Cardinality(1..f[x]) = f[x]
    <2>1. /\ IsFiniteSet(1..f[x])
          /\ Cardinality(1..f[x]) = IF 1 > f[x] THEN 0 ELSE f[x] - 1 + 1
      BY FS_Interval
    <2>2. QED
      BY <2>1
  <1>4. QED
    BY <1>2, <1>3, FS_Bijection

(* There are finitely many units, so a sum is a number.                    *)
LEMMA SumNat ==
  ASSUME NEW S, IsFiniteSet(S), NEW f \in [S -> Nat]
  PROVE  IsFiniteSet(Units(f)) /\ SumOf(f) \in Nat
  <1> DEFINE F == {UnitsOf(f, x) : x \in S}
             g == [x \in S |-> UnitsOf(f, x)]
  <1>1. IsFiniteSet(F)
    <2>1. g \in Surjection(S, F)
      BY DEF Surjection
    <2>2. QED
      BY <2>1, FS_Surjection
  <1>2. \A T \in F : IsFiniteSet(T)
    BY UnitsOfCount
  <1>3. IsFiniteSet(UNION F)
    <2> HIDE DEF F
    <2>1. QED
      BY <1>1, <1>2, FS_UNION
  <1>4. UNION F = Units(f)
    BY DEF Units
  <1>5. SumOf(f) = Cardinality(Units(f))
    BY DEF SumOf, Units, UnitsOf
  <1>6. QED
    BY <1>3, <1>4, <1>5, FS_CardinalityType

(* What f has at x, and f without it.                                      *)
At(f, x) == IF x \in DOMAIN f THEN f[x] ELSE 0
Except(f, x) == [y \in DOMAIN f \ {x} |-> f[y]]

(* A sum is one of its values and the sum of the others.                   *)
LEMMA SumSplit ==
  ASSUME NEW S, IsFiniteSet(S), NEW f \in [S -> Nat], NEW x
  PROVE  /\ SumOf(f) = At(f, x) + SumOf(Except(f, x))
         /\ SumOf(f) \in Nat /\ SumOf(Except(f, x)) \in Nat /\ At(f, x) \in Nat
  <1> DEFINE r == Except(f, x)
             R == S \ {x}
  <1>1. IsFiniteSet(R) /\ r \in [R -> Nat]
    BY FS_Subset DEF Except
  <1>2. /\ IsFiniteSet(Units(f)) /\ SumOf(f) \in Nat
        /\ IsFiniteSet(Units(r)) /\ SumOf(r) \in Nat
    <2> HIDE DEF r, R
    <2>1. QED
      BY <1>1, SumNat
  <1>3. /\ SumOf(f) = Cardinality(Units(f)) /\ SumOf(r) = Cardinality(Units(r))
    BY DEF SumOf, Units, UnitsOf
  <1>4. CASE x \in S
    <2>1. IsFiniteSet(UnitsOf(f, x)) /\ Cardinality(UnitsOf(f, x)) = f[x]
      BY <1>4, UnitsOfCount
    <2>2. Units(f) = UnitsOf(f, x) \cup Units(r)
      <3>1. \A y \in R : UnitsOf(r, y) = UnitsOf(f, y)
        BY DEF Except, UnitsOf
      <3>2. DOMAIN f = S /\ DOMAIN r = R
        BY DEF Except
      <3> HIDE DEF r
      <3>3. Units(r) = UNION {UnitsOf(f, y) : y \in R}
        BY <3>1, <3>2 DEF Units
      <3>4. QED
        BY <1>4, <3>2, <3>3 DEF Units
    <2>3. UnitsOf(f, x) \cap Units(r) = {}
      BY DEF Units, UnitsOf, Except
    <2>4. Cardinality(UnitsOf(f, x) \cap Units(r)) = 0
      BY <2>3, FS_EmptySet
    <2>5. Cardinality(Units(f)) = f[x] + Cardinality(Units(r)) - 0
      <3> HIDE DEF r
      <3>1. QED
        BY <1>2, <2>1, <2>2, <2>4, FS_Union
    <2>6. QED
      BY <1>2, <1>3, <1>4, <2>5 DEF At
  <1>5. CASE x \notin S
    <2>1. r = f
      BY <1>5 DEF Except
    <2>2. QED
      BY <1>2, <1>5, <2>1 DEF At
  <1>6. QED
    BY <1>4, <1>5

(* Where two functions differ at one argument, their sums differ by that.  *)
LEMMA SumChange ==
  ASSUME NEW S, IsFiniteSet(S), NEW f \in [S -> Nat],
         NEW T, IsFiniteSet(T), NEW g \in [T -> Nat],
         NEW x, S \ {x} = T \ {x}, \A y \in S \ {x} : f[y] = g[y]
  PROVE  /\ SumOf(g) = SumOf(f) - At(f, x) + At(g, x)
         /\ SumOf(f) \in Nat /\ SumOf(g) \in Nat
         /\ At(f, x) \in Nat /\ At(f, x) <= SumOf(f)
  <1>1. Except(f, x) = Except(g, x)
    BY DEF Except
  <1>2. /\ SumOf(f) = At(f, x) + SumOf(Except(f, x))
        /\ SumOf(f) \in Nat /\ SumOf(Except(f, x)) \in Nat /\ At(f, x) \in Nat
    BY SumSplit
  <1>3. /\ SumOf(g) = At(g, x) + SumOf(Except(g, x))
        /\ SumOf(g) \in Nat /\ At(g, x) \in Nat
    BY SumSplit
  <1>4. QED
    BY <1>1, <1>2, <1>3

(* Nothing adds up to nothing.                                             *)
LEMMA SumEmpty ==
  ASSUME NEW f, DOMAIN f = {}
  PROVE  SumOf(f) = 0
  <1>1. UNION {{x} \X (1..f[x]) : x \in DOMAIN f} = {}
    OBVIOUS
  <1>2. QED
    BY <1>1, FS_EmptySet DEF SumOf

-------------------------------------------------------------------------------
(* What a handler does to the book apart from adding a taker to it: one    *)
(* order is replaced by o or forgotten, and the lists only shrink.         *)

BookStep(o) ==
    /\ \A i \in DOMAIN orders' :
          i \in DOMAIN orders /\ orders'[i] = IF i = o.id THEN o ELSE orders[i]
    /\ asks' \subseteq asks /\ bids' \subseteq bids
    /\ asks' \subseteq DOMAIN orders' /\ bids' \subseteq DOMAIN orders'
    /\ o.id \in asks' \cup bids' => o.left > 0
    /\ users' \in [Users -> SUBSET OrderId]
    /\ \A u \in Users :
          users'[u] = {i \in DOMAIN orders' : orders'[i].user = u}
    /\ \/ order_history' = order_history
       \/ order_history' = order_history \cup {o} /\ o.id \notin DOMAIN orders'

(* o is a version of a resting order: only its fills differ. *)
VersionOf(o, i) ==
    /\ o \in Order
    /\ i \in DOMAIN orders
    /\ o.id = i
    /\ o.type = orders[i].type /\ o.side = orders[i].side
    /\ o.user = orders[i].user /\ o.price = orders[i].price
    /\ RespectsLimit(o)
    /\ i \in asks \cup bids /\ o.left > 0 => Accounted(o)

(* order_finish is such a step, also when it returns early because the     *)
(* unfreeze is refused.                                                    *)
LEMMA FinishIsBookStep ==
  ASSUME MarketInv, NEW b \in Balances, NEW o, NEW i, VersionOf(o, i),
         order_finish(b, o)
  PROVE  BookStep(o) /\ balance' \in Balances
  <1> USE DEF VersionOf
  <1>1. /\ TypeOK /\ IndexesAgree
        /\ o \in Order /\ i \in DOMAIN orders /\ o.id = i
        /\ o.user = orders[i].user
    BY DEF MarketInv
  <1>2. o.user \in Users /\ Gives(o.side) \in Assets /\ FrozenUnits(o) \in Nat
    <2>1. o.user \in Users /\ o.freeze \in Nat /\ FeeDen \in Nat
      BY <1>1, MarketAssumption DEF Order
    <2>2. QED
      BY <2>1, ProductNat DEF Gives, Assets, FrozenUnits, StockUnits
  <1>3. balance' \in Balances
    BY <1>2, BalanceOpsType DEF order_finish, BalanceTypes
  <1>4. /\ asks' = asks \ {i} /\ bids' = bids \ {i}
    BY <1>1 DEF order_finish
  <1>5. CASE Releases(b, o)
    <2>1. /\ orders' = Without(orders, i)
          /\ users' = [users EXCEPT ![o.user] = @ \ {i}]
          /\ order_history' = Reported(o)
      BY <1>1, <1>5 DEF order_finish, Unlisted
    <2>2. /\ DOMAIN orders' = DOMAIN orders \ {i}
          /\ \A j \in DOMAIN orders' : orders'[j] = orders[j]
      BY <2>1 DEF Without
    <2>3. users' \in [Users -> SUBSET OrderId]
      BY <1>1, <1>2, <2>1 DEF TypeOK
    <2>4. \A u \in Users : users'[u] = {j \in DOMAIN orders' : orders'[j].user = u}
      <3> TAKE u \in Users
      <3>1. users[u] = {j \in DOMAIN orders : orders[j].user = u}
        BY <1>1 DEF IndexesAgree
      <3>2. users'[u] = IF u = o.user THEN users[u] \ {i} ELSE users[u]
        BY <1>1, <1>2, <2>1 DEF TypeOK
      <3>3. QED
        BY <1>1, <2>2, <3>1, <3>2
    <2>5. \/ order_history' = order_history
          \/ order_history' = order_history \cup {o} /\ o.id \notin DOMAIN orders'
      BY <1>1, <2>1, <2>2 DEF Reported
    <2>6. QED
      BY <1>1, <1>3, <1>4, <2>2, <2>3, <2>4, <2>5 DEF BookStep, TypeOK
  <1>6. CASE ~Releases(b, o)
    <2>1. /\ orders' = With(orders, i, o)
          /\ UNCHANGED <<users, order_history>>
      BY <1>1, <1>6 DEF order_finish
    <2>2. /\ DOMAIN orders' = DOMAIN orders
          /\ \A j \in DOMAIN orders' :
                orders'[j] = IF j = i THEN o ELSE orders[j]
      BY <1>1, <2>1 DEF With
    <2>3. \A u \in Users : users'[u] = {j \in DOMAIN orders' : orders'[j].user = u}
      <3> TAKE u \in Users
      <3>1. users[u] = {j \in DOMAIN orders : orders[j].user = u}
        BY <1>1 DEF IndexesAgree
      <3>2. \A j \in DOMAIN orders : orders'[j].user = orders[j].user
        BY <1>1, <2>2
      <3>3. QED
        BY <2>1, <2>2, <3>1, <3>2
    <2>4. QED
      BY <1>1, <1>3, <1>4, <2>1, <2>2, <2>3 DEF BookStep, TypeOK
  <1>7. QED
    BY <1>5, <1>6

(* Such a step preserves all that MarketInv says of the book alone. *)
LEMMA BookStepPreserves ==
  ASSUME MarketInv, NEW o, NEW i, VersionOf(o, i), BookStep(o)
  PROVE  /\ DOMAIN orders' \subseteq OrderId
         /\ \A j \in DOMAIN orders' : /\ orders'[j] \in Order
                                      /\ orders'[j].id = j
                                      /\ orders'[j].price > 0
                                      /\ j <= order_id_start
                                      /\ j # taker.id
                                      /\ RespectsLimit(orders'[j])
         /\ order_history' \subseteq Order
         /\ \A p \in order_history' : /\ p.id \notin DOMAIN orders'
                                      /\ p.id <= order_id_start
                                      /\ p.id # taker.id
                                      /\ RespectsLimit(p)
         /\ \A p, q \in order_history' : p.id = q.id => p = q
         /\ IndexesAgree'
         /\ \A j \in asks' \cup bids' : Accounted(orders'[j])
         /\ BookNotCrossed'
         /\ \A d \in deals : \A j \in IF d.by = "ask" THEN bids' ELSE asks' :
               j < Taker(d) => ~BetterThanMaker(j, d)'
  <1> USE DEF VersionOf
  <1>1. /\ TypeOK /\ IdsGrow /\ PricesPositive /\ IndexesAgree /\ OrderAccounting
        /\ BookNotCrossed /\ HistoryOnce /\ LimitRespected /\ NoOvertaking
        /\ o \in Order /\ i \in DOMAIN orders /\ o.id = i
    BY DEF MarketInv
  <1>2. \A j \in DOMAIN orders' :
          /\ j \in DOMAIN orders
          /\ orders'[j] = IF j = i THEN o ELSE orders[j]
          /\ orders'[j].type = orders[j].type /\ orders'[j].side = orders[j].side
          /\ orders'[j].user = orders[j].user /\ orders'[j].price = orders[j].price
    BY <1>1 DEF BookStep
  <1>3. \A j \in DOMAIN orders : RespectsLimit(orders[j])
    BY <1>1 DEF LimitRespected, LiveOrders
  <1>4. DOMAIN orders' \subseteq OrderId
    BY <1>1, <1>2 DEF TypeOK
  <1>5. \A j \in DOMAIN orders' : /\ orders'[j] \in Order
                                  /\ orders'[j].id = j
                                  /\ orders'[j].price > 0
                                  /\ j <= order_id_start
                                  /\ j # taker.id
                                  /\ RespectsLimit(orders'[j])
    <2> TAKE j \in DOMAIN orders'
    <2>1. /\ j \in DOMAIN orders
          /\ orders'[j] = IF j = i THEN o ELSE orders[j]
          /\ orders'[j].price = orders[j].price
      BY <1>2
    <2>2. /\ orders[j] \in Order /\ orders[j].id = j
          /\ orders[j].price > 0 /\ j <= order_id_start /\ j # taker.id
      BY <1>1, <2>1 DEF TypeOK, PricesPositive, IdsGrow, HistoryOnce
    <2>3. RespectsLimit(orders'[j])
      BY <1>3, <2>1
    <2>4. QED
      BY <1>1, <2>1, <2>2, <2>3
  <1>6. \A p \in order_history' :
            p \in order_history \/ (p = o /\ i \notin DOMAIN orders')
    <2>1. \/ order_history' = order_history
          \/ order_history' = order_history \cup {o} /\ i \notin DOMAIN orders'
      BY <1>1 DEF BookStep
    <2>2. QED
      BY <2>1
  <1>7. \A p \in order_history : /\ p \in Order /\ p.id \notin DOMAIN orders
                                 /\ p.id <= order_id_start /\ p.id # taker.id
                                 /\ RespectsLimit(p)
    BY <1>1 DEF TypeOK, HistoryOnce, IdsGrow, LimitRespected
  <1>8. i <= order_id_start /\ i # taker.id
    BY <1>1 DEF IdsGrow, HistoryOnce
  <1>9. \A p \in order_history' : /\ p \in Order
                                  /\ p.id \notin DOMAIN orders'
                                  /\ p.id <= order_id_start
                                  /\ p.id # taker.id
                                  /\ RespectsLimit(p)
    BY <1>1, <1>2, <1>6, <1>7, <1>8
  <1>10. \A p, q \in order_history' : p.id = q.id => p = q
    BY <1>1, <1>6, <1>7 DEF HistoryOnce
  <1>11. IndexesAgree'
    <2>1. \A j \in DOMAIN orders' : /\ orders'[j].type = "limit"
                                    /\ j \in asks' => orders'[j].side = "ask"
                                    /\ j \in bids' => orders'[j].side = "bid"
      BY <1>1, <1>2 DEF IndexesAgree, BookStep
    <2>2. QED
      BY <2>1 DEF IndexesAgree, BookStep
  <1>12. \A j \in asks' \cup bids' : Accounted(orders'[j])
    <2> TAKE j \in asks' \cup bids'
    <2>1. j \in asks \cup bids /\ j \in DOMAIN orders'
      BY DEF BookStep
    <2>2. CASE j = i
      <3>1. orders'[j] = o /\ o.left > 0
        BY <1>1, <1>2, <2>1, <2>2 DEF BookStep
      <3>2. QED
        BY <2>1, <2>2, <3>1
    <2>3. CASE j # i
      BY <1>1, <1>2, <2>1, <2>3 DEF OrderAccounting
    <2>4. QED
      BY <2>2, <2>3
  <1>13. BookNotCrossed'
    BY <1>1, <1>2 DEF BookNotCrossed, BookStep
  <1>14. \A d \in deals : \A j \in IF d.by = "ask" THEN bids' ELSE asks' :
            j < Taker(d) => ~BetterThanMaker(j, d)'
    <2> TAKE d \in deals
    <2> TAKE j \in IF d.by = "ask" THEN bids' ELSE asks'
    <2>1. j \in IF d.by = "ask" THEN bids ELSE asks
      BY DEF BookStep
    <2>2. orders'[j].price = orders[j].price
      BY <1>2 DEF BookStep
    <2>3. j < Taker(d) => ~BetterThanMaker(j, d)
      BY <1>1, <2>1 DEF NoOvertaking
    <2>4. QED
      BY <2>2, <2>3 DEF BetterThanMaker, Maker
  <1>15. QED
    BY <1>4, <1>5, <1>9, <1>10, <1>11, <1>12, <1>13, <1>14

-------------------------------------------------------------------------------
(* One round of a matching loop, whatever the loop: the taker deals an     *)
(* amount that neither order exceeds with the first order of the other     *)
(* side, at a price its limit allows.                                      *)

DealAllowed(m, amount) ==
    /\ ~Idle
    /\ IsFirst(m, Opposite(taker.side))
    /\ amount \in Nat \ {0}
    /\ amount <= orders[m].left
    /\ IF taker.type = "market" /\ taker.side = "bid"
       THEN orders[m].price * amount <= taker.left
       ELSE amount <= taker.left
    /\ taker.type = "limit" =>
         IF taker.side = "ask" THEN taker.price <= orders[m].price
                               ELSE taker.price >= orders[m].price

FilledMaker(m, amount, fee) ==
    LET maker == orders[m]
        deal == maker.price * amount
    IN Filled(maker, amount, deal, fee, amount,
              IF maker.side = "bid" THEN deal ELSE amount)

FilledTaker(m, amount, fee) ==
    LET deal == orders[m].price * amount
    IN Filled(taker, amount, deal, fee,
              IF taker.type = "market" /\ taker.side = "bid" THEN deal ELSE amount,
              0)

(* The maker after a deal is a version of itself that is still accounted   *)
(* for: its frozen funds shrink by exactly what it pays.                   *)
LEMMA FilledMakerVersion ==
  ASSUME MarketInv, NEW m, NEW amount, NEW fee \in Nat, DealAllowed(m, amount)
  PROVE  VersionOf(FilledMaker(m, amount, fee), m)
  <1> DEFINE maker == orders[m]
             deal == maker.price * amount
             o == FilledMaker(m, amount, fee)
  <1>1. /\ TypeOK /\ PricesPositive /\ IndexesAgree /\ OrderAccounting
        /\ LimitRespected
        /\ m \in asks \cup bids /\ m \in DOMAIN orders
    BY DEF MarketInv, DealAllowed, IsFirst, Opposite, TypeOK
  <1>2. /\ maker \in Order /\ maker.id = m /\ maker.type = "limit"
        /\ Accounted(maker) /\ RespectsLimit(maker)
        /\ amount \in Nat \ {0} /\ amount <= maker.left
    BY <1>1 DEF TypeOK, IndexesAgree, OrderAccounting, LimitRespected,
                LiveOrders, DealAllowed
  <1>3. /\ maker.price \in Nat /\ maker.left \in Nat /\ maker.freeze \in Nat
        /\ maker.amount \in Nat
        /\ maker.deal_stock \in Nat /\ maker.deal_money \in Nat
        /\ maker.deal_fee \in Nat /\ maker.side \in Sides
    BY <1>2 DEF Order
  <1>4. /\ deal \in Nat
        /\ deal <= maker.price * maker.left
        /\ maker.price * (maker.left - amount) = maker.price * maker.left - deal
        /\ maker.price * (maker.deal_stock + amount) =
             maker.price * maker.deal_stock + deal
        /\ maker.price * maker.left \in Nat
        /\ maker.price * maker.deal_stock \in Nat
    BY <1>2, <1>3, ProductNat, ProductMonotone, ProductMinus
  <1>5. o = [maker EXCEPT !.left = @ - amount,
                          !.freeze = @ - (IF maker.side = "bid" THEN deal ELSE amount),
                          !.deal_stock = @ + amount,
                          !.deal_money = @ + deal,
                          !.deal_fee = @ + fee]
    BY DEF FilledMaker, Filled
  <1> HIDE DEF deal
  <1>6. /\ maker.left - amount \in Nat
        /\ maker.freeze - (IF maker.side = "bid" THEN deal ELSE amount) \in Nat
        /\ maker.deal_stock + amount \in Nat
        /\ maker.deal_money + deal \in Nat
        /\ maker.deal_fee + fee \in Nat
    BY <1>2, <1>3, <1>4 DEF Accounted, Sides
  <1>7. /\ o \in Order
        /\ o.id = m /\ o.type = maker.type /\ o.side = maker.side
        /\ o.user = maker.user /\ o.price = maker.price
        /\ o.amount = maker.amount
        /\ o.left = maker.left - amount
        /\ o.freeze = maker.freeze - (IF maker.side = "bid" THEN deal ELSE amount)
        /\ o.deal_stock = maker.deal_stock + amount
        /\ o.deal_money = maker.deal_money + deal
    BY ZenonT(60), <1>2, <1>5, <1>6 DEF Order
  <1>8. RespectsLimit(o)
    BY <1>2, <1>3, <1>4, <1>7 DEF RespectsLimit, Sides
  <1>9. o.left > 0 => Accounted(o)
    BY <1>2, <1>3, <1>4, <1>6, <1>7 DEF Accounted, Sides
  <1>10. QED
    BY <1>1, <1>7, <1>8, <1>9 DEF VersionOf

(* So is the taker, which keeps within its limit or, for a market bid,     *)
(* within the money it was given.                                          *)
LEMMA FilledTakerType ==
  ASSUME MarketInv, NEW m, NEW amount, NEW fee \in Nat, DealAllowed(m, amount)
  PROVE  LET o == FilledTaker(m, amount, fee)
         IN /\ o \in Order
            /\ o.id = taker.id /\ o.type = taker.type /\ o.side = taker.side
            /\ o.price = taker.price
            /\ RespectsLimit(o)
            /\ o.left + (IF o.type = "market" /\ o.side = "bid"
                         THEN o.deal_money ELSE o.deal_stock) = o.amount
  <1> DEFINE price == orders[m].price
             deal == price * amount
             used == IF taker.type = "market" /\ taker.side = "bid"
                     THEN deal ELSE amount
             o == FilledTaker(m, amount, fee)
  <1>1. /\ TypeOK /\ IndexesAgree /\ OrderAccounting /\ LimitRespected
        /\ m \in asks \cup bids /\ m \in DOMAIN orders
        /\ ~Idle
    BY DEF MarketInv, DealAllowed, IsFirst, Opposite, TypeOK
  <1>2. /\ taker \in Order /\ RespectsLimit(taker) /\ orders[m] \in Order
        /\ amount \in Nat \ {0} /\ used <= taker.left
    BY <1>1 DEF TypeOK, NoTaker, Idle, LimitRespected, LiveOrders, DealAllowed
  <1>3. taker.left + (IF taker.type = "market" /\ taker.side = "bid"
                      THEN taker.deal_money ELSE taker.deal_stock) = taker.amount
    BY <1>1 DEF OrderAccounting
  <1>4. /\ price \in Nat /\ taker.price \in Nat /\ taker.left \in Nat
        /\ taker.freeze \in Nat /\ taker.amount \in Nat \ {0}
        /\ taker.deal_stock \in Nat /\ taker.deal_money \in Nat
        /\ taker.deal_fee \in Nat /\ taker.side \in Sides
        /\ taker.type \in {"limit", "market"}
    BY <1>2 DEF Order
  <1>5. /\ deal \in Nat
        /\ taker.price * (taker.deal_stock + amount) =
             taker.price * taker.deal_stock + taker.price * amount
        /\ taker.price * taker.deal_stock \in Nat
        /\ taker.price * amount \in Nat
        /\ taker.price <= price => taker.price * amount <= deal
        /\ price <= taker.price => deal <= taker.price * amount
    BY <1>2, <1>4, ProductNat, ProductMonotone, ProductMinus
  <1>6. o = [taker EXCEPT !.left = @ - used,
                          !.freeze = @ - 0,
                          !.deal_stock = @ + amount,
                          !.deal_money = @ + deal,
                          !.deal_fee = @ + fee]
    BY DEF FilledTaker, Filled
  <1>7. taker.type = "limit" => IF taker.side = "ask" THEN taker.price <= price
                                                     ELSE taker.price >= price
    BY DEF DealAllowed
  <1> HIDE DEF deal, price
  <1>8. used \in Nat
    BY <1>2, <1>5
  <1>9. /\ taker.left - used \in Nat
        /\ taker.freeze - 0 \in Nat
        /\ taker.deal_stock + amount \in Nat
        /\ taker.deal_money + deal \in Nat
        /\ taker.deal_fee + fee \in Nat
    BY <1>2, <1>4, <1>5, <1>8
  <1>10. /\ o \in Order
         /\ o.id = taker.id /\ o.type = taker.type /\ o.side = taker.side
         /\ o.price = taker.price /\ o.amount = taker.amount
         /\ o.left = taker.left - used
         /\ o.deal_stock = taker.deal_stock + amount
         /\ o.deal_money = taker.deal_money + deal
    BY ZenonT(60), <1>2, <1>6, <1>9 DEF Order
  <1>11. o.left + (IF o.type = "market" /\ o.side = "bid"
                   THEN o.deal_money ELSE o.deal_stock) = o.amount
    BY <1>2, <1>3, <1>4, <1>5, <1>8, <1>10
  <1>12. RespectsLimit(o)
    <2>1. CASE taker.type = "limit"
      BY <1>2, <1>4, <1>5, <1>7, <1>10, <2>1 DEF RespectsLimit, Sides
    <2>2. CASE taker.type = "market"
      BY <1>2, <1>4, <1>5, <1>9, <1>10, <1>11, <2>2 DEF RespectsLimit, Sides
    <2>3. QED
      BY <1>4, <2>1, <2>2
  <1>13. QED
    BY <1>10, <1>11, <1>12

(* A deal as a whole: what its parts are, and what it does to the orders.  *)
DealRow(m, amount) ==
    [id |-> deals_id_start + 1,
     ask |-> IF taker.side = "ask" THEN taker.id ELSE m,
     bid |-> IF taker.side = "bid" THEN taker.id ELSE m,
     price |-> orders[m].price, amount |-> amount,
     by |-> taker.side]
TakerSettled(m, amount, bidFeeIn) ==
    Settle(balance, taker, "available", "taker",
           amount, orders[m].price * amount, taker.taker_fee, bidFeeIn)
MakerSettled(m, amount, bidFeeIn) ==
    Settle(TakerSettled(m, amount, bidFeeIn).balance, orders[m], "freeze", "maker",
           amount, orders[m].price * amount, orders[m].maker_fee, bidFeeIn)
TypedSettlement(s) ==
    /\ s.balance \in Balances /\ s.feeIn \in Assets
    /\ s.fee \in Nat /\ s.ignored \subseteq Refusals
DealMakes(t, s, filled, tfee, m, amount) ==
    /\ deals_id_start' = deals_id_start + 1
    /\ deals' = deals \cup {DealRow(m, amount)}
    /\ taker' = FilledTaker(m, amount, tfee)
    /\ IF filled.left = 0
       THEN order_finish(s.balance, filled)
       ELSE /\ orders' = [orders EXCEPT ![m] = filled]
            /\ balance' = s.balance
            /\ UNCHANGED <<users, asks, bids, order_history>>
    /\ ignored' = ignored \cup t.ignored \cup s.ignored
                  \cup (IF filled.left = 0
                        THEN FinishRefusal(s.balance, filled) ELSE {})
    /\ collected' = [a \in Assets |->
          collected[a] + (IF t.feeIn = a THEN t.fee ELSE 0)
                       + (IF s.feeIn = a THEN s.fee ELSE 0)]
    /\ UNCHANGED <<order_id_start, dict_update>>

(* The maker is replaced by its next version or leaves.                    *)
LEMMA MakeDealIs ==
  ASSUME MarketInv, NEW m, NEW amount, NEW bidFeeIn \in Assets,
         DealAllowed(m, amount), MakeDeal(m, amount, bidFeeIn)
  PROVE  LET t == TakerSettled(m, amount, bidFeeIn)
             s == MakerSettled(m, amount, bidFeeIn)
         IN  \E tfee, mfee \in Nat :
                /\ DealMakes(t, s, FilledMaker(m, amount, mfee), tfee, m, amount)
                /\ TypedSettlement(t) /\ TypedSettlement(s)
                /\ VersionOf(FilledMaker(m, amount, mfee), m)
                /\ BookStep(FilledMaker(m, amount, mfee)) /\ balance' \in Balances
  <1> DEFINE maker == orders[m]
             deal == maker.price * amount
             t == TakerSettled(m, amount, bidFeeIn)
             s == MakerSettled(m, amount, bidFeeIn)
             tfee == RecordedFee(t.feeIn, amount, deal, taker.taker_fee)
             mfee == RecordedFee(s.feeIn, amount, deal, maker.maker_fee)
             filled == FilledMaker(m, amount, mfee)
  <1>1. /\ TypeOK /\ IndexesAgree
        /\ ~Idle /\ IsFirst(m, Opposite(taker.side))
        /\ amount \in Nat \ {0}
    BY DEF MarketInv, DealAllowed
  <1>2. /\ m \in asks \cup bids /\ m \in DOMAIN orders
        /\ maker \in Order /\ maker.id = m /\ taker \in Order
    BY <1>1 DEF IsFirst, Opposite, TypeOK, NoTaker, Idle
  <1>3. /\ maker.price \in Nat /\ maker.maker_fee \in Nat
        /\ taker.taker_fee \in Nat /\ deal \in Nat
        /\ balance \in Balances /\ amount \in Nat
    BY <1>1, <1>2, ProductNat DEF Order, TypeOK
  <1>4. TypedSettlement(t)
    BY <1>2, <1>3, SettleType DEF BalanceTypes, TakerSettled, TypedSettlement
  <1>5. TypedSettlement(s)
    <2>1. s = Settle(t.balance, maker, "freeze", "maker", amount, deal,
                     maker.maker_fee, bidFeeIn)
      BY DEF MakerSettled
    <2> HIDE DEF t, s
    <2>2. QED
      BY <1>2, <1>3, <1>4, <2>1, SettleType DEF BalanceTypes, TypedSettlement
  <1>6. tfee \in Nat /\ mfee \in Nat
    BY <1>3, ProductNat DEF RecordedFee
  <1>7. VersionOf(filled, m)
    BY <1>6, FilledMakerVersion
  <1>8. filled.id = m
    BY <1>7 DEF VersionOf
  <1>9. DealMakes(t, s, filled, tfee, m, amount)
    BY DEF MakeDeal, FilledMaker, FilledTaker, DealMakes, DealRow, TakerSettled,
           MakerSettled
  <1> HIDE DEF t, s, tfee, mfee, filled
  <1>10. BookStep(filled) /\ balance' \in Balances
    <2>1. CASE filled.left = 0
      BY <1>5, <1>7, <1>9, <2>1, FinishIsBookStep DEF DealMakes, TypedSettlement
    <2>2. CASE filled.left # 0
      <3>1. /\ orders' = [orders EXCEPT ![m] = filled]
            /\ balance' = s.balance
            /\ UNCHANGED <<users, asks, bids, order_history>>
        BY <1>9, <2>2 DEF DealMakes
      <3>2. /\ DOMAIN orders' = DOMAIN orders
            /\ \A i \in DOMAIN orders' :
                  orders'[i] = IF i = filled.id THEN filled ELSE orders[i]
        BY <1>2, <1>8, <3>1
      <3>3. filled.left > 0 /\ filled.user = maker.user
        BY <1>7, <2>2 DEF VersionOf, Order
      <3>4. \A u \in Users :
               users'[u] = {i \in DOMAIN orders' : orders'[i].user = u}
        <4> TAKE u \in Users
        <4>1. users[u] = {i \in DOMAIN orders : orders[i].user = u}
          BY <1>1 DEF IndexesAgree
        <4>2. \A i \in DOMAIN orders : orders'[i].user = orders[i].user
          BY <1>8, <3>2, <3>3
        <4>3. QED
          BY <3>1, <3>2, <4>1, <4>2
      <3>5. QED
        BY <1>1, <1>5, <3>1, <3>2, <3>3, <3>4 DEF BookStep, TypeOK, TypedSettlement
    <2>3. QED
      BY <2>1, <2>2
  <1>11. QED
    BY <1>4, <1>5, <1>6, <1>7, <1>9, <1>10 DEF tfee, mfee, filled, t, s

(* A deal preserves the invariant: the maker it takes is the best of its   *)
(* list, so nothing that still rests was passed over.                      *)
LEMMA MakeDealPreserves ==
  ASSUME MarketInv, NEW m, NEW amount, NEW bidFeeIn \in Assets,
         DealAllowed(m, amount), MakeDeal(m, amount, bidFeeIn)
  PROVE  MarketInv'
  <1> DEFINE maker == orders[m]
             t == TakerSettled(m, amount, bidFeeIn)
             s == MakerSettled(m, amount, bidFeeIn)
             d == DealRow(m, amount)
  <1>1. /\ TypeOK /\ IdsGrow /\ PricesPositive /\ IndexesAgree /\ OrderAccounting
        /\ BookNotCrossed /\ HistoryOnce /\ LimitRespected /\ NoOvertaking
        /\ ~Idle /\ IsFirst(m, Opposite(taker.side))
        /\ amount \in Nat \ {0}
    BY DEF MarketInv, DealAllowed
  <1>2. /\ m \in asks \cup bids /\ m \in DOMAIN orders
        /\ maker \in Order /\ maker.id = m /\ taker \in Order
    BY <1>1 DEF IsFirst, Opposite, TypeOK, NoTaker, Idle
  <1>3. /\ maker.price \in Nat
        /\ taker.side \in Sides
        /\ taker.id \in OrderId /\ m \in OrderId
        /\ balance \in Balances /\ amount \in Nat
    BY <1>1, <1>2 DEF Order, TypeOK
  <1>4. PICK tfee \in Nat, mfee \in Nat :
           /\ DealMakes(t, s, FilledMaker(m, amount, mfee), tfee, m, amount)
           /\ TypedSettlement(t) /\ TypedSettlement(s)
           /\ VersionOf(FilledMaker(m, amount, mfee), m)
           /\ BookStep(FilledMaker(m, amount, mfee)) /\ balance' \in Balances
    BY MakeDealIs
  <1> DEFINE filled == FilledMaker(m, amount, mfee)
  <1> HIDE DEF t, s, filled
  <1>5. /\ s.feeIn \in Assets /\ s.fee \in Nat /\ s.ignored \subseteq Refusals
        /\ t.feeIn \in Assets /\ t.fee \in Nat /\ t.ignored \subseteq Refusals
    BY <1>4 DEF TypedSettlement
  <1>7. VersionOf(filled, m)
    BY <1>4 DEF filled
  <1>8. filled.id = m
    BY <1>7 DEF VersionOf
  <1>9. DealMakes(t, s, filled, tfee, m, amount)
    BY <1>4 DEF filled
  <1> USE DEF DealMakes
  <1>10. BookStep(filled) /\ balance' \in Balances
    BY <1>4 DEF filled
  <1>11. /\ DOMAIN orders' \subseteq OrderId
         /\ \A j \in DOMAIN orders' : /\ orders'[j] \in Order
                                      /\ orders'[j].id = j
                                      /\ orders'[j].price > 0
                                      /\ j <= order_id_start
                                      /\ j # taker.id
                                      /\ RespectsLimit(orders'[j])
         /\ order_history' \subseteq Order
         /\ \A p \in order_history' : /\ p.id \notin DOMAIN orders'
                                      /\ p.id <= order_id_start
                                      /\ p.id # taker.id
                                      /\ RespectsLimit(p)
         /\ \A p, q \in order_history' : p.id = q.id => p = q
         /\ IndexesAgree'
         /\ \A j \in asks' \cup bids' : Accounted(orders'[j])
         /\ BookNotCrossed'
         /\ \A e \in deals : \A j \in IF e.by = "ask" THEN bids' ELSE asks' :
               j < Taker(e) => ~BetterThanMaker(j, e)'
    BY <1>7, <1>10, BookStepPreserves
  <1>12. /\ taker' \in Order
         /\ taker'.id = taker.id /\ taker'.type = taker.type
         /\ taker'.side = taker.side /\ taker'.price = taker.price
         /\ RespectsLimit(taker')
         /\ taker'.left + (IF taker'.type = "market" /\ taker'.side = "bid"
                           THEN taker'.deal_money ELSE taker'.deal_stock)
            = taker'.amount
    BY <1>9, FilledTakerType
  <1>13. ~Idle' /\ order_id_start' = order_id_start
    BY <1>1, <1>9, <1>12 DEF Idle
  <1>14. TypeOK'
    <2>1. d \in Deal
      BY <1>1, <1>3 DEF Deal, DealRow, TypeOK, Sides
    <2>2. deals' \subseteq Deal /\ deals_id_start' \in Nat
      BY <1>1, <1>9, <2>1 DEF TypeOK
    <2>3. ignored' \subseteq Refusals
      <3>1. FinishRefusal(s.balance, filled) \subseteq Refusals
        BY DEF FinishRefusal, Refusals
      <3>2. QED
        BY <1>1, <1>5, <1>9, <3>1 DEF TypeOK
    <2>4. collected' \in [Assets -> Nat]
      BY <1>1, <1>5, <1>9 DEF TypeOK
    <2>5. /\ users' \in [Users -> SUBSET OrderId]
          /\ asks' \subseteq DOMAIN orders' /\ bids' \subseteq DOMAIN orders'
      BY <1>10 DEF BookStep
    <2>6. /\ order_id_start' \in 0..MaxOrderId
          /\ dict_update' \subseteq (Users \X Assets \X Nat \X Paddings)
      BY <1>1, <1>9 DEF TypeOK
    <2>7. QED
      BY <1>10, <1>11, <1>12, <2>2, <2>3, <2>4, <2>5, <2>6 DEF TypeOK
  <1>15. d.by = taker.side /\ Taker(d) = taker.id /\ Maker(d) = m /\ d.price = maker.price
    BY <1>3 DEF DealRow, Taker, Maker, Sides
  <1>16. IdsGrow'
    <2>1. Taker(d) <= order_id_start
      BY <1>1, <1>3, <1>15 DEF IdsGrow, OrderId, TypeOK
    <2>2. \A e \in deals' : Taker(e) <= order_id_start
      BY <1>1, <1>9, <2>1 DEF IdsGrow
    <2>3. QED
      BY <1>1, <1>11, <1>12, <1>13, <2>2 DEF IdsGrow, Taker
  <1>17. PricesPositive'
    BY <1>1, <1>11, <1>12, <1>13 DEF PricesPositive
  <1>18. OrderAccounting'
    BY <1>11, <1>12 DEF OrderAccounting, Accounted
  <1>19. HistoryOnce'
    BY <1>11, <1>12 DEF HistoryOnce
  <1>20. LimitRespected'
    BY <1>11, <1>12 DEF LimitRespected, LiveOrders, RespectsLimit
  <1>21. NoOvertaking'
    <2>1. ASSUME NEW e, e = d,
                 NEW j \in IF e.by = "ask" THEN bids' ELSE asks'
          PROVE  ~BetterThanMaker(j, e)'
      <3>0. e.by = taker.side /\ Maker(e) = m /\ e.price = maker.price
        BY <1>15, <2>1
      <3>1. j \in Opposite(taker.side)
        BY <1>3, <1>10, <2>1, <3>0 DEF BookStep, Opposite, Sides
      <3>2. j = m \/ order_match_before(m, j)
        BY <1>1, <3>1 DEF IsFirst
      <3>3. /\ j \in DOMAIN orders /\ orders[j] \in Order /\ j \in OrderId
            /\ orders[j].side = (IF taker.side = "ask" THEN "bid" ELSE "ask")
            /\ maker.side = (IF taker.side = "ask" THEN "bid" ELSE "ask")
        BY <1>1, <1>2, <1>3, <3>1 DEF IndexesAgree, Opposite, TypeOK, IsFirst, Sides
      <3>4. orders'[j].price = orders[j].price
        <4>1. j \in DOMAIN orders'
          BY <1>10, <3>1 DEF BookStep
        <4>2. orders'[j] = IF j = m THEN filled ELSE orders[j]
          BY <1>8, <1>10, <4>1 DEF BookStep
        <4>3. filled.price = orders[m].price
          BY <1>7 DEF VersionOf
        <4>4. QED
          BY <4>2, <4>3
      <3>5. /\ orders[j].price \in Nat /\ j \in Nat /\ m \in Nat
        BY <1>3, <3>3 DEF Order, OrderId
      <3>6. ~ \/ taker.side = "ask" /\ orders'[j].price > maker.price
              \/ taker.side = "bid" /\ orders'[j].price < maker.price
              \/ orders'[j].price = maker.price /\ j < m
        BY <1>3, <3>2, <3>3, <3>4, <3>5 DEF order_match_before, Sides
      <3>7. QED
        BY <3>0, <3>6 DEF BetterThanMaker, Maker
    <2> HIDE DEF d
    <2>2. \A e \in deals' : \A j \in IF e.by = "ask" THEN bids' ELSE asks' :
             j < Taker(e) => ~BetterThanMaker(j, e)'
      <3> TAKE e \in deals'
      <3>1. e \in deals \/ e = d
        BY <1>9 DEF d
      <3>2. QED
        BY <1>11, <2>1, <3>1
    <2>3. QED
      BY <2>2 DEF NoOvertaking, Taker
  <1>22. QED
    BY <1>11, <1>14, <1>16, <1>17, <1>18, <1>19, <1>20, <1>21 DEF MarketInv

-------------------------------------------------------------------------------
(* The other steps.                                                        *)

LEMMA UpdatePreserves ==
  ASSUME MarketInv, NEW r \in UpdateRequests, NEW padding \in Paddings,
         UpdateBalance(r, padding)
  PROVE  MarketInv'
  <1>1. TypeOK
    BY DEF MarketInv
  <1>2. /\ r.user \in Users /\ r.asset \in Assets /\ r.business_id \in Nat
        /\ r.change \in Int
    BY MarketAssumption
  <1>3. balance' \in Balances
    <2>1. "available" \in BalanceTypes /\ balance \in Balances
      BY <1>1 DEF BalanceTypes, TypeOK
    <2>2. CASE r.change >= 0
      BY <1>2, <2>1, <2>2, BalanceOpsType DEF UpdateBalance
    <2>3. CASE r.change < 0
      <3>1. -r.change \in Nat
        BY <1>2, <2>3
      <3>2. balance' = balance_sub(balance, <<r.user, "available", r.asset>>, -r.change)
        BY <1>2, <2>3 DEF UpdateBalance
      <3>3. QED
        BY <1>2, <2>1, <3>1, <3>2, BalanceOpsType
    <2>4. QED
      BY <1>2, <2>2, <2>3
  <1>4. dict_update' \subseteq (Users \X Assets \X Nat \X Paddings)
    BY <1>1, <1>2 DEF UpdateBalance, TypeOK
  <1>5. UNCHANGED <<orders, users, asks, bids, taker, order_id_start,
                    deals_id_start, deals, order_history, ignored, collected>>
    BY DEF UpdateBalance, book, counters, history, ghosts
  <1>6. TypeOK'
    BY <1>1, <1>3, <1>4, <1>5 DEF TypeOK
  <1>7. QED
    BY <1>5, <1>6 DEF MarketInv, IdsGrow, PricesPositive, IndexesAgree,
         OrderAccounting, BookNotCrossed, HistoryOnce, LimitRespected, NoOvertaking,
         LiveOrders, Idle, BetterThanMaker

(* A new taker is younger than every order and every deal. *)
LEMMA ReceivePreserves ==
  ASSUME MarketInv, Idle, order_id_start < MaxOrderId,
         NEW type \in {"limit", "market"}, NEW side \in Sides, NEW u \in Users,
         NEW price \in Nat, type = "limit" => price > 0,
         NEW amount \in Nat \ {0}, NEW tfee \in Nat, NEW mfee \in Nat,
         Receive(NewOrder(type, side, u, price, amount, tfee, mfee))
  PROVE  MarketInv'
  <1> DEFINE o == NewOrder(type, side, u, price, amount, tfee, mfee)
  <1>1. /\ TypeOK /\ IdsGrow /\ PricesPositive /\ IndexesAgree /\ OrderAccounting
        /\ BookNotCrossed /\ HistoryOnce /\ LimitRespected /\ NoOvertaking
    BY DEF MarketInv
  <1>2. /\ taker' = o /\ order_id_start' = o.id
        /\ UNCHANGED <<balance, dict_update, orders, users, asks, bids,
                       deals_id_start, deals, order_history, ignored, collected>>
    BY DEF Receive, funds, book, history, ghosts
  <1>3. /\ order_id_start \in 0..MaxOrderId /\ MaxOrderId \in Nat
    BY <1>1, MarketAssumption DEF TypeOK
  <1>4. /\ o.id = order_id_start + 1 /\ o.id \in OrderId
        /\ o.type = type /\ o.side = side /\ o.price = price
        /\ o.left = amount /\ o.amount = amount
        /\ o.deal_stock = 0 /\ o.deal_money = 0
    BY <1>3 DEF NewOrder, OrderId
  <1>5. o \in Order
    BY <1>3, <1>4 DEF NewOrder, Order
  <1> HIDE DEF o
  <1>6. ~Idle'
    BY <1>2, <1>3, <1>4 DEF Idle
  <1>7. TypeOK'
    BY <1>1, <1>2, <1>3, <1>4, <1>5 DEF TypeOK, OrderId
  <1>8. IdsGrow'
    <2>1. \A i \in DOMAIN orders : i <= order_id_start'
      BY <1>1, <1>2, <1>3, <1>4 DEF IdsGrow, TypeOK, OrderId
    <2>2. \A p \in order_history : p.id <= order_id_start'
      BY <1>1, <1>2, <1>3, <1>4 DEF IdsGrow, TypeOK, OrderId, Order
    <2>3. \A d \in deals : Taker(d) <= order_id_start'
      BY <1>1, <1>2, <1>3, <1>4 DEF IdsGrow, TypeOK, OrderId, Deal, Taker
    <2>4. QED
      BY <1>2, <2>1, <2>2, <2>3 DEF IdsGrow, Taker
  <1>9. PricesPositive'
    BY <1>1, <1>2, <1>4 DEF PricesPositive
  <1>10. OrderAccounting'
    BY <1>1, <1>2, <1>4 DEF OrderAccounting, Accounted
  <1>11. HistoryOnce'
    <2>1. \A p \in order_history : p.id # o.id
      BY <1>1, <1>3, <1>4 DEF IdsGrow, TypeOK, Order, OrderId
    <2>2. o.id \notin DOMAIN orders
      BY <1>1, <1>3, <1>4 DEF IdsGrow, TypeOK, OrderId
    <2>3. QED
      BY <1>1, <1>2, <2>1, <2>2 DEF HistoryOnce
  <1>12. LimitRespected'
    <2>1. RespectsLimit(o)
      BY <1>4 DEF RespectsLimit
    <2>2. QED
      BY <1>1, <1>2, <1>6, <2>1 DEF LimitRespected, LiveOrders, RespectsLimit
  <1>13. NoOvertaking'
    BY <1>1, <1>2 DEF NoOvertaking, BetterThanMaker, Taker, Maker
  <1>14. IndexesAgree' /\ BookNotCrossed'
    BY <1>1, <1>2 DEF IndexesAgree, BookNotCrossed
  <1>15. QED
    BY <1>7, <1>8, <1>9, <1>10, <1>11, <1>12, <1>13, <1>14 DEF MarketInv

LEMMA CancelPreserves ==
  ASSUME MarketInv, NEW u \in Users, NEW i \in DOMAIN orders, CancelOrder(u, i)
  PROVE  MarketInv'
  <1>1. /\ TypeOK /\ IdsGrow /\ PricesPositive /\ OrderAccounting
        /\ LimitRespected /\ NoOvertaking
    BY DEF MarketInv
  <1>2. VersionOf(orders[i], i)
    BY <1>1 DEF VersionOf, TypeOK, LimitRespected, LiveOrders, OrderAccounting
  <1>3. /\ order_finish(balance, orders[i])
        /\ ignored' = ignored \cup FinishRefusal(balance, orders[i])
        /\ UNCHANGED <<taker, order_id_start, deals_id_start, deals,
                       dict_update, collected>>
        /\ balance \in Balances
    BY <1>1 DEF CancelOrder, counters, TypeOK
  <1>4. BookStep(orders[i]) /\ balance' \in Balances
    BY <1>2, <1>3, FinishIsBookStep
  <1>5. /\ DOMAIN orders' \subseteq OrderId
        /\ \A j \in DOMAIN orders' : /\ orders'[j] \in Order
                                     /\ orders'[j].id = j
                                     /\ orders'[j].price > 0
                                     /\ j <= order_id_start
                                     /\ j # taker.id
                                     /\ RespectsLimit(orders'[j])
        /\ order_history' \subseteq Order
        /\ \A p \in order_history' : /\ p.id \notin DOMAIN orders'
                                     /\ p.id <= order_id_start
                                     /\ p.id # taker.id
                                     /\ RespectsLimit(p)
        /\ \A p, q \in order_history' : p.id = q.id => p = q
        /\ IndexesAgree'
        /\ \A j \in asks' \cup bids' : Accounted(orders'[j])
        /\ BookNotCrossed'
        /\ \A d \in deals : \A j \in IF d.by = "ask" THEN bids' ELSE asks' :
              j < Taker(d) => ~BetterThanMaker(j, d)'
    BY <1>2, <1>4, BookStepPreserves
  <1>6. TypeOK'
    <2>1. ignored' \subseteq Refusals
      BY <1>1, <1>3 DEF TypeOK, FinishRefusal, Refusals
    <2>2. QED
      BY <1>1, <1>3, <1>4, <1>5, <2>1 DEF TypeOK, BookStep
  <1>7. IdsGrow' /\ PricesPositive' /\ OrderAccounting' /\ HistoryOnce'
    BY <1>1, <1>3, <1>5 DEF IdsGrow, PricesPositive, OrderAccounting, Accounted,
                            HistoryOnce, Idle, Taker
  <1>8. LimitRespected'
    BY <1>1, <1>3, <1>5 DEF LimitRespected, LiveOrders, RespectsLimit, Idle
  <1>9. NoOvertaking'
    BY <1>3, <1>5 DEF NoOvertaking, Taker
  <1>10. QED
    BY <1>5, <1>6, <1>7, <1>8, <1>9 DEF MarketInv

LEMMA FinishTakerPreserves ==
  ASSUME MarketInv, FinishTaker
  PROVE  MarketInv'
  <1>1. /\ TypeOK /\ IdsGrow /\ PricesPositive /\ IndexesAgree /\ OrderAccounting
        /\ BookNotCrossed /\ HistoryOnce /\ LimitRespected /\ NoOvertaking
        /\ ~Idle
    BY DEF MarketInv, FinishTaker
  <1>2. /\ order_history' = order_history \cup {taker} /\ taker' = NoTaker
        /\ UNCHANGED <<balance, dict_update, orders, users, asks, bids,
                       order_id_start, deals_id_start, deals, ignored, collected>>
    BY DEF FinishTaker, funds, book, counters, ghosts
  <1>3. taker \in Order /\ Idle' /\ taker.id = order_id_start /\ RespectsLimit(taker)
    BY <1>1, <1>2 DEF TypeOK, NoTaker, Idle, IdsGrow, LimitRespected, LiveOrders
  <1>4. TypeOK'
    BY <1>1, <1>2, <1>3 DEF TypeOK
  <1>5. IdsGrow'
    <2>1. \A o \in order_history' : o.id <= order_id_start
      BY <1>1, <1>2, <1>3 DEF IdsGrow, TypeOK
    <2>2. QED
      BY <1>1, <1>2, <1>3, <2>1 DEF IdsGrow, Taker
  <1>6. PricesPositive' /\ IndexesAgree' /\ OrderAccounting' /\ BookNotCrossed'
    BY <1>1, <1>2, <1>3 DEF PricesPositive, IndexesAgree, OrderAccounting,
                            Accounted, BookNotCrossed
  <1>7. HistoryOnce'
    <2>1. 0 \notin DOMAIN orders /\ \A o \in order_history' : o.id # 0
      BY <1>1, <1>2, <1>3 DEF TypeOK, OrderId, Order
    <2>2. QED
      BY <1>1, <1>2, <1>3, <2>1 DEF HistoryOnce, NoTaker
  <1>8. LimitRespected'
    BY <1>1, <1>2, <1>3 DEF LimitRespected, LiveOrders, RespectsLimit
  <1>9. NoOvertaking'
    BY <1>1, <1>2 DEF NoOvertaking, BetterThanMaker, Taker, Maker
  <1>10. QED
    BY <1>4, <1>5, <1>6, <1>7, <1>8, <1>9 DEF MarketInv

(* When the loop ends with something left of a limit order, the best order *)
(* of the other side is out of its reach, and so are the others.           *)
LEMMA RestDoesNotCross ==
  ASSUME MarketInv, RestLimitOrder
  PROVE  \A m \in Opposite(taker.side) :
            IF taker.side = "ask" THEN taker.price > orders[m].price
                                  ELSE taker.price < orders[m].price
  <1> DEFINE list == Opposite(taker.side)
  <1>1. /\ TypeOK /\ IndexesAgree /\ OrderAccounting
        /\ ~Idle /\ LoopEnds /\ taker.type = "limit" /\ taker.left > 0
    BY DEF MarketInv, RestLimitOrder
  <1>2. taker \in Order /\ taker.side \in Sides /\ taker.price \in Nat /\ taker.left \in Nat
    BY <1>1 DEF TypeOK, NoTaker, Idle, Order
  <1>3. /\ list \subseteq DOMAIN orders /\ DOMAIN orders \subseteq OrderId
        /\ \A m \in list : /\ orders[m] \in Order
                           /\ orders[m].side = (IF taker.side = "ask" THEN "bid" ELSE "ask")
                           /\ orders[m].left > 0
    BY <1>1, <1>2 DEF TypeOK, IndexesAgree, OrderAccounting, Accounted, Opposite, Sides
  <1>4. \A m \in list : /\ orders[m].price \in Nat /\ orders[m].left \in Nat
                        /\ orders[m].side \in Sides
    BY <1>3 DEF Order
  <1>5. IsList(list)
    <2> HIDE DEF list
    <2>1. QED
      BY <1>3, <1>4 DEF IsList
  <1> SUFFICES ASSUME NEW m \in list
               PROVE  IF taker.side = "ask" THEN taker.price > orders[m].price
                                            ELSE taker.price < orders[m].price
    OBVIOUS
  <1>6. PICK f \in list : IsFirst(f, list)
    <2> HIDE DEF list
    <2>1. QED
      BY <1>5, ListFirst
  <1>7. ~CanDeal(f)
    <2>1. Dealable(f) # 0
      BY <1>1, <1>2, <1>3, <1>4 DEF Dealable, Least
    <2>2. QED
      BY <1>1, <2>1 DEF LoopEnds
  <1>8. IF taker.side = "ask" THEN taker.price > orders[f].price
                              ELSE taker.price < orders[f].price
    BY <1>1, <1>2, <1>4, <1>6, <1>7 DEF CanDeal, Sides
  <1>9. m = f \/ order_match_before(f, m)
    BY <1>6 DEF IsFirst
  <1> HIDE DEF list
  <1>10. QED
    BY <1>2, <1>3, <1>4, <1>8, <1>9 DEF order_match_before, Sides

LEMMA RestPreserves ==
  ASSUME MarketInv, RestLimitOrder
  PROVE  MarketInv'
  <1> DEFINE o == [taker EXCEPT !.freeze = ToFreeze(taker)]
  <1>1. /\ TypeOK /\ IdsGrow /\ PricesPositive /\ IndexesAgree /\ OrderAccounting
        /\ BookNotCrossed /\ HistoryOnce /\ LimitRespected /\ NoOvertaking
        /\ ~Idle /\ taker.type = "limit" /\ taker.left > 0
    BY DEF MarketInv, RestLimitOrder
  <1>2. /\ orders' = With(orders, o.id, o)
        /\ users' = Listed(o)
        /\ asks' = IF o.side = "ask" THEN asks \cup {o.id} ELSE asks
        /\ bids' = IF o.side = "bid" THEN bids \cup {o.id} ELSE bids
        /\ balance' = balance_freeze(balance, o.user, Gives(o.side), FrozenUnits(o))
        /\ ignored' = IF Covers(balance, <<o.user, "available", Gives(o.side)>>,
                                FrozenUnits(o))
                      THEN ignored
                      ELSE ignored \cup {<<"order_put", "freeze">>}
        /\ taker' = NoTaker
        /\ UNCHANGED <<dict_update, order_id_start, deals_id_start, deals,
                       order_history, collected>>
    BY DEF RestLimitOrder, counters, history
  <1>3. /\ taker \in Order /\ taker.side \in Sides /\ taker.price \in Nat
        /\ taker.left \in Nat /\ taker.user \in Users
        /\ taker.id = order_id_start /\ RespectsLimit(taker)
    BY <1>1 DEF TypeOK, NoTaker, Idle, Order, IdsGrow, LimitRespected, LiveOrders
  <1>4. ToFreeze(taker) \in Nat
    BY <1>3, ProductNat DEF ToFreeze
  <1>5. /\ o \in Order /\ o.id = taker.id /\ o.type = "limit"
        /\ o.side = taker.side /\ o.user = taker.user /\ o.price = taker.price
        /\ o.left = taker.left /\ o.freeze = ToFreeze(taker)
        /\ o.amount = taker.amount
        /\ o.deal_stock = taker.deal_stock /\ o.deal_money = taker.deal_money
    BY <1>1, <1>3, <1>4 DEF Order
  <1>6. RespectsLimit(o) /\ Accounted(o)
    BY <1>1, <1>3, <1>5 DEF RespectsLimit, Accounted, OrderAccounting, ToFreeze, Sides
  <1> HIDE DEF o
  <1>7. /\ DOMAIN orders' = DOMAIN orders \cup {o.id}
        /\ \A i \in DOMAIN orders' : orders'[i] = IF i = o.id THEN o ELSE orders[i]
        /\ o.id \notin DOMAIN orders /\ o.id \in OrderId
    BY <1>1, <1>2, <1>5 DEF With, HistoryOnce, Order
  <1>8. Idle'
    BY <1>2 DEF Idle, NoTaker
  <1>9. users' = [users EXCEPT ![o.user] = @ \cup {o.id}]
    BY <1>2 DEF Listed
  <1>10. TypeOK'
    <2>1. FrozenUnits(o) \in Nat
      <3>1. o.freeze \in Nat /\ FeeDen \in Nat
        BY <1>5, MarketAssumption DEF Order
      <3>2. QED
        BY <3>1, ProductNat DEF FrozenUnits, StockUnits
    <2>2. balance' \in Balances
      <3>1. balance \in Balances /\ o.user \in Users /\ Gives(o.side) \in Assets
            /\ "available" \in BalanceTypes
        BY <1>1, <1>3, <1>5 DEF TypeOK, Gives, Assets, BalanceTypes
      <3>2. QED
        BY <1>2, <2>1, <3>1, BalanceOpsType
    <2>3. ignored' \subseteq Refusals
      BY <1>1, <1>2 DEF TypeOK, Refusals
    <2>4. users' \in [Users -> SUBSET OrderId]
      BY <1>1, <1>7, <1>9 DEF TypeOK
    <2>5. /\ asks' \subseteq DOMAIN orders' /\ bids' \subseteq DOMAIN orders'
          /\ DOMAIN orders' \subseteq OrderId
      BY <1>1, <1>2, <1>7 DEF TypeOK
    <2>6. \A i \in DOMAIN orders' : orders'[i] \in Order /\ orders'[i].id = i
      BY <1>1, <1>5, <1>7 DEF TypeOK
    <2>7. QED
      BY <1>1, <1>2, <2>2, <2>3, <2>4, <2>5, <2>6 DEF TypeOK
  <1>11. IdsGrow'
    BY <1>1, <1>2, <1>3, <1>5, <1>7, <1>8 DEF IdsGrow, TypeOK, Taker
  <1>12. PricesPositive'
    BY <1>1, <1>5, <1>7, <1>8 DEF PricesPositive
  <1>13. IndexesAgree'
    <2>1. \A i \in DOMAIN orders' : /\ orders'[i].type = "limit"
                                    /\ i \in asks' => orders'[i].side = "ask"
                                    /\ i \in bids' => orders'[i].side = "bid"
      BY <1>1, <1>2, <1>5, <1>7 DEF IndexesAgree, TypeOK
    <2>2. \A u \in Users : users'[u] = {i \in DOMAIN orders' : orders'[i].user = u}
      <3> TAKE u \in Users
      <3>1. users[u] = {i \in DOMAIN orders : orders[i].user = u}
        BY <1>1 DEF IndexesAgree
      <3>2. users'[u] = IF u = o.user THEN users[u] \cup {o.id} ELSE users[u]
        BY <1>1, <1>9 DEF TypeOK
      <3>3. QED
        BY <1>7, <3>1, <3>2
    <2>3. QED
      BY <2>1, <2>2 DEF IndexesAgree
  <1>14. OrderAccounting'
    <2>1. \A i \in asks' \cup bids' : Accounted(orders'[i])
      <3> TAKE i \in asks' \cup bids'
      <3>1. CASE i = o.id
        BY <1>6, <1>7, <3>1
      <3>2. CASE i # o.id
        <4>1. i \in asks \cup bids /\ i \in DOMAIN orders
          BY <1>1, <1>2, <3>2 DEF TypeOK
        <4>2. QED
          BY <1>1, <1>7, <3>2, <4>1 DEF OrderAccounting
      <3>3. QED
        BY <3>1, <3>2
    <2>2. QED
      BY <1>8, <2>1 DEF OrderAccounting, Accounted
  <1>15. BookNotCrossed'
    <2>1. \A m \in Opposite(taker.side) :
             IF taker.side = "ask" THEN taker.price > orders[m].price
                                   ELSE taker.price < orders[m].price
      BY RestDoesNotCross
    <2>2. /\ asks \subseteq DOMAIN orders /\ bids \subseteq DOMAIN orders
          /\ \A i \in DOMAIN orders : orders[i].price \in Nat
      BY <1>1 DEF TypeOK, Order
    <2>3. ASSUME NEW i \in asks', NEW j \in bids'
          PROVE  orders'[i].price > orders'[j].price
      <3>1. CASE taker.side = "ask"
        <4>1. bids' = bids /\ asks' = asks \cup {o.id} /\ Opposite(taker.side) = bids
          BY <1>2, <1>5, <3>1 DEF Opposite
        <4>2. j # o.id /\ orders'[j] = orders[j] /\ taker.price > orders[j].price
          BY <1>7, <2>1, <2>2, <2>3, <3>1, <4>1
        <4>3. CASE i = o.id
          BY <1>5, <1>7, <4>2, <4>3
        <4>4. CASE i # o.id
          <5>1. i \in asks /\ orders'[i] = orders[i]
            BY <1>7, <2>2, <2>3, <4>1, <4>4
          <5>2. QED
            BY <1>1, <2>3, <4>1, <4>2, <5>1 DEF BookNotCrossed
        <4>5. QED
          BY <4>3, <4>4
      <3>2. CASE taker.side = "bid"
        <4>1. asks' = asks /\ bids' = bids \cup {o.id} /\ Opposite(taker.side) = asks
          BY <1>2, <1>5, <3>2 DEF Opposite
        <4>2. i # o.id /\ orders'[i] = orders[i] /\ taker.price < orders[i].price
          BY <1>7, <2>1, <2>2, <2>3, <3>2, <4>1
        <4>3. CASE j = o.id
          BY <1>3, <1>5, <1>7, <2>2, <2>3, <4>1, <4>2, <4>3
        <4>4. CASE j # o.id
          <5>1. j \in bids /\ orders'[j] = orders[j]
            BY <1>7, <2>2, <2>3, <4>1, <4>4
          <5>2. QED
            BY <1>1, <2>3, <4>1, <4>2, <5>1 DEF BookNotCrossed
        <4>5. QED
          BY <4>3, <4>4
      <3>3. QED
        BY <1>3, <3>1, <3>2 DEF Sides
    <2>4. QED
      BY <2>3 DEF BookNotCrossed
  <1>16. HistoryOnce'
    <2>1. \A p \in order_history : p.id # o.id /\ p.id # 0
      BY <1>1, <1>5 DEF HistoryOnce, TypeOK, Order, OrderId
    <2>2. 0 \notin DOMAIN orders'
      BY <1>1, <1>7 DEF TypeOK, OrderId
    <2>3. QED
      BY <1>1, <1>2, <1>7, <2>1, <2>2 DEF HistoryOnce, NoTaker
  <1>17. LimitRespected'
    <2>1. \A i \in DOMAIN orders : RespectsLimit(orders[i])
      BY <1>1 DEF LimitRespected, LiveOrders
    <2>2. \A i \in DOMAIN orders' : RespectsLimit(orders'[i])
      BY <1>6, <1>7, <2>1
    <2>3. QED
      BY <1>1, <1>2, <1>8, <2>2 DEF LimitRespected, LiveOrders, RespectsLimit
  <1>18. NoOvertaking'
    <2>1. \A d \in deals : Taker(d) <= o.id
      BY <1>1, <1>3, <1>5 DEF IdsGrow
    <2>2. ASSUME NEW d \in deals, NEW i \in IF d.by = "ask" THEN bids' ELSE asks',
                 i < Taker(d)
          PROVE  ~BetterThanMaker(i, d)'
      <3>1. i # o.id
        BY <1>7, <2>1, <2>2, <1>1 DEF OrderId, Taker, TypeOK, Deal
      <3>2. i \in (IF d.by = "ask" THEN bids ELSE asks) /\ i \in DOMAIN orders
        BY <1>1, <1>2, <2>2, <3>1 DEF TypeOK
      <3>3. orders'[i] = orders[i]
        BY <1>7, <3>1, <3>2
      <3>4. ~BetterThanMaker(i, d)
        BY <1>1, <2>2, <3>2 DEF NoOvertaking
      <3>5. QED
        BY <3>3, <3>4 DEF BetterThanMaker, Maker
    <2>3. QED
      BY <1>2, <2>2 DEF NoOvertaking, Taker
  <1>19. QED
    BY <1>10, <1>11, <1>12, <1>13, <1>14, <1>15, <1>16, <1>17, <1>18 DEF MarketInv

-------------------------------------------------------------------------------
(* The matching loops make allowed deals only. *)
LEMMA LoopsAllowed ==
  ASSUME MarketInv, ~Idle, NEW m \in DOMAIN orders, CanDeal(m),
         taker.type = "market" /\ taker.side = "bid" => Dealable(m) > 0
  PROVE  DealAllowed(m, Dealable(m))
  <1>1. /\ TypeOK /\ OrderAccounting /\ PricesPositive
        /\ IsFirst(m, Opposite(taker.side)) /\ taker.left > 0
    BY DEF MarketInv, CanDeal
  <1>2. /\ taker \in Order /\ orders[m] \in Order
        /\ m \in asks \cup bids /\ orders[m].left > 0 /\ orders[m].price > 0
    BY <1>1 DEF TypeOK, NoTaker, Idle, IsFirst, Opposite, OrderAccounting,
                Accounted, PricesPositive
  <1>3. /\ taker.left \in Nat /\ orders[m].left \in Nat
        /\ orders[m].price \in Nat \ {0}
    BY <1>2 DEF Order
  <1>4. /\ Dealable(m) \in Nat \ {0} /\ Dealable(m) <= orders[m].left
        /\ IF taker.type = "market" /\ taker.side = "bid"
           THEN orders[m].price * Dealable(m) <= taker.left
           ELSE Dealable(m) <= taker.left
    <2>1. CASE taker.type = "market" /\ taker.side = "bid"
      <3> DEFINE most == taker.left \div orders[m].price
      <3>1. most \in Nat /\ orders[m].price * most <= taker.left
        BY <1>3, Affordable
      <3>2. Dealable(m) = Least(most, orders[m].left)
        BY <2>1 DEF Dealable
      <3> HIDE DEF most
      <3>3. Dealable(m) \in Nat /\ Dealable(m) <= most /\ Dealable(m) <= orders[m].left
        BY <1>3, <3>1, <3>2 DEF Least
      <3>4. orders[m].price * Dealable(m) <= orders[m].price * most
        BY <1>3, <3>1, <3>3, ProductMonotone
      <3>5. orders[m].price * Dealable(m) \in Nat /\ orders[m].price * most \in Nat
        BY <1>3, <3>1, <3>3, ProductNat
      <3>6. QED
        BY <1>3, <2>1, <3>1, <3>3, <3>4, <3>5
    <2>2. CASE ~(taker.type = "market" /\ taker.side = "bid")
      BY <1>1, <1>2, <1>3, <2>2 DEF Dealable, Least
    <2>3. QED
      BY <2>1, <2>2
  <1>5. taker.type = "limit" =>
          IF taker.side = "ask" THEN taker.price <= orders[m].price
                                ELSE taker.price >= orders[m].price
    BY DEF CanDeal
  <1>6. QED
    BY <1>1, <1>4, <1>5 DEF DealAllowed

(* What a put handler has checked of the order it makes the taker.         *)
ReceiveAllowed(type, side, u, price, amount, tfee, mfee) ==
    /\ Idle /\ order_id_start < MaxOrderId
    /\ type = "limit" => price > 0
    /\ mfee < FeeDen
    /\ Covers(balance, <<u, "available", Gives(side)>>,
              IF side = "ask" THEN StockUnits(amount)
              ELSE IF type = "limit" THEN price * amount ELSE amount)
    /\ Receive(NewOrder(type, side, u, price, amount, tfee, mfee))

(* The kinds of steps a proof has to look at.                              *)
LEMMA StepKinds ==
  ASSUME MarketInv, [Next]_vars
  PROVE  \/ \E r \in UpdateRequests, padding \in Paddings : UpdateBalance(r, padding)
         \/ \E type \in {"limit", "market"}, side \in Sides, u \in Users,
               price \in Nat, amount \in Nat \ {0}, tfee \in Nat, mfee \in Nat :
                  ReceiveAllowed(type, side, u, price, amount, tfee, mfee)
         \/ \E u \in Users, i \in DOMAIN orders : CancelOrder(u, i)
         \/ \E m \in DOMAIN orders, amount \in Nat, bidFeeIn \in Assets :
               DealAllowed(m, amount) /\ MakeDeal(m, amount, bidFeeIn)
         \/ FinishTaker
         \/ RestLimitOrder
         \/ UNCHANGED vars
  <1> DEFINE Receives ==
               \E type \in {"limit", "market"}, side \in Sides, u \in Users,
                  price \in Nat, amount \in Nat \ {0}, tfee \in Nat, mfee \in Nat :
                     ReceiveAllowed(type, side, u, price, amount, tfee, mfee)
             Deals ==
               \E m \in DOMAIN orders, amount \in Nat, bidFeeIn \in Assets :
                  DealAllowed(m, amount) /\ MakeDeal(m, amount, bidFeeIn)
  <1>1. ASSUME NEW u \in Users, NEW side \in Sides, NEW amount \in Amounts,
               NEW price \in Prices, NEW tfee \in TakerRates, NEW mfee \in MakerRates,
               PutLimitOrder(u, side, amount, price, tfee, mfee)
        PROVE  Receives
    <2>1. /\ amount \in Nat \ {0} /\ price \in Nat /\ price > 0
          /\ tfee \in Nat /\ mfee \in Nat /\ mfee < FeeDen
      BY MarketAssumption
    <2>2. amount * price = price * amount
      BY <2>1
    <2>3. ReceiveAllowed("limit", side, u, price, amount, tfee, mfee)
      BY <1>1, <2>1, <2>2 DEF PutLimitOrder, ReceiveAllowed
    <2>4. QED
      BY <2>1, <2>3
  <1>2. ASSUME NEW u \in Users, NEW amount \in Amounts, NEW tfee \in TakerRates,
               PutMarketAsk(u, amount, tfee)
        PROVE  Receives
    <2>1. /\ amount \in Nat \ {0} /\ tfee \in Nat /\ "ask" \in Sides /\ 0 < FeeDen
      BY MarketAssumption DEF Sides
    <2>2. ReceiveAllowed("market", "ask", u, 0, amount, tfee, 0)
      BY <1>2, <2>1 DEF PutMarketAsk, ReceiveAllowed, Gives
    <2>3. QED
      BY <2>1, <2>2
  <1>3. ASSUME NEW u \in Users, NEW amount \in Budgets, NEW tfee \in TakerRates,
               PutMarketBid(u, amount, tfee)
        PROVE  Receives
    <2>1. /\ amount \in Nat \ {0} /\ tfee \in Nat /\ "bid" \in Sides /\ 0 < FeeDen
      BY MarketAssumption DEF Sides
    <2>2. ReceiveAllowed("market", "bid", u, 0, amount, tfee, 0)
      BY <1>3, <2>1 DEF PutMarketBid, ReceiveAllowed, Gives
    <2>3. QED
      BY <2>1, <2>2
  <1>4. ASSUME NEW m \in DOMAIN orders,
               ExecuteLimitAsk(m) \/ ExecuteLimitBid(m)
        PROVE  Deals
    <2>1. /\ ~Idle /\ taker.type = "limit" /\ CanDeal(m)
          /\ MakeDeal(m, Dealable(m), "money") /\ "money" \in Assets
      BY <1>4 DEF ExecuteLimitAsk, ExecuteLimitBid, Assets
    <2>2. DealAllowed(m, Dealable(m)) /\ Dealable(m) \in Nat
      BY <2>1, LoopsAllowed DEF DealAllowed
    <2>3. QED
      BY <2>1, <2>2
  <1>5. ASSUME NEW m \in DOMAIN orders,
               ExecuteMarketAsk(m) \/ ExecuteMarketBid(m)
        PROVE  Deals
    <2>1. /\ ~Idle /\ CanDeal(m) /\ MakeDeal(m, Dealable(m), "stock")
          /\ taker.type = "market" /\ taker.side = "bid" => Dealable(m) > 0
          /\ "stock" \in Assets
      BY <1>5 DEF ExecuteMarketAsk, ExecuteMarketBid, Assets
    <2>2. DealAllowed(m, Dealable(m)) /\ Dealable(m) \in Nat
      BY <2>1, LoopsAllowed DEF DealAllowed
    <2>3. QED
      BY <2>1, <2>2
  <1> HIDE DEF Receives, Deals
  <1>6. \/ \E r \in UpdateRequests, padding \in Paddings : UpdateBalance(r, padding)
        \/ Receives
        \/ \E u \in Users, i \in DOMAIN orders : CancelOrder(u, i)
        \/ Deals
        \/ FinishTaker
        \/ RestLimitOrder
        \/ UNCHANGED vars
    BY <1>1, <1>2, <1>3, <1>4, <1>5 DEF Next, HandlerStep
  <1>7. QED
    BY <1>6 DEF Receives, Deals

LEMMA InitInv == Init => MarketInv
  <1> SUFFICES ASSUME Init PROVE MarketInv
    OBVIOUS
  <1>1. /\ DOMAIN orders = {} /\ asks = {} /\ bids = {} /\ deals = {}
        /\ order_history = {} /\ Idle /\ taker = NoTaker
    BY DEF Init, Idle, NoTaker
  <1>2. TypeOK
    <2>1. balance \in Balances
      BY DEF Init, EmptyBalances, Balances
    <2>2. order_id_start \in 0..MaxOrderId
      BY MarketAssumption DEF Init
    <2>3. QED
      BY <1>1, <2>1, <2>2 DEF Init, TypeOK
  <1>3. IndexesAgree
    BY <1>1 DEF Init, IndexesAgree
  <1>4. HistoryOnce
    BY <1>1 DEF HistoryOnce
  <1>5. LimitRespected
    BY <1>1 DEF LimitRespected, LiveOrders
  <1>6. QED
    BY <1>1, <1>2, <1>3, <1>4, <1>5 DEF MarketInv, IdsGrow, PricesPositive,
         OrderAccounting, BookNotCrossed, NoOvertaking

(* Every step of the market preserves MarketInv. *)
LEMMA NextInv == MarketInv /\ [Next]_vars => MarketInv'
  <1> SUFFICES ASSUME MarketInv, [Next]_vars
               PROVE  MarketInv'
    OBVIOUS
  <1>1. ASSUME NEW r \in UpdateRequests, NEW padding \in Paddings,
               UpdateBalance(r, padding)
        PROVE  MarketInv'
    BY <1>1, UpdatePreserves
  <1>2. ASSUME NEW type \in {"limit", "market"}, NEW side \in Sides, NEW u \in Users,
               NEW price \in Nat, NEW amount \in Nat \ {0}, NEW tfee \in Nat,
               NEW mfee \in Nat,
               ReceiveAllowed(type, side, u, price, amount, tfee, mfee)
        PROVE  MarketInv'
    BY <1>2, ReceivePreserves DEF ReceiveAllowed
  <1>3. ASSUME NEW u \in Users, NEW i \in DOMAIN orders, CancelOrder(u, i)
        PROVE  MarketInv'
    BY <1>3, CancelPreserves
  <1>4. ASSUME NEW m, NEW amount, NEW bidFeeIn \in Assets,
               DealAllowed(m, amount), MakeDeal(m, amount, bidFeeIn)
        PROVE  MarketInv'
    BY <1>4, MakeDealPreserves
  <1>5. ASSUME FinishTaker PROVE MarketInv'
    BY <1>5, FinishTakerPreserves
  <1>6. ASSUME RestLimitOrder PROVE MarketInv'
    BY <1>6, RestPreserves
  <1>7. ASSUME UNCHANGED vars PROVE MarketInv'
    BY <1>7 DEF vars, funds, book, counters, history, ghosts, MarketInv, TypeOK,
         IdsGrow, PricesPositive, IndexesAgree, OrderAccounting, Accounted,
         BookNotCrossed, HistoryOnce, LimitRespected, LiveOrders, NoOvertaking,
         BetterThanMaker, Idle
  <1>8. QED
    BY <1>1, <1>2, <1>3, <1>4, <1>5, <1>6, <1>7, StepKinds

-------------------------------------------------------------------------------
(* The inductive invariant holds of the market. *)
THEOREM MarketInvariant == Spec => []MarketInv
  <1>1. QED
    BY InitInv, NextInv, PTL DEF Spec

(* No balance is ever negative, and every order, deal and list holds what  *)
(* its type says, whatever the fees and whatever is refused.               *)
THEOREM TypeCorrect == Spec => []TypeOK
  <1>1. MarketInv => TypeOK
    BY DEF MarketInv
  <1>2. QED
    BY <1>1, MarketInvariant, PTL

(* No bid rests at or above a resting ask.                                 *)
THEOREM BookNeverCrossed == Spec => []BookNotCrossed
  <1>1. MarketInv => BookNotCrossed
    BY DEF MarketInv
  <1>2. QED
    BY <1>1, MarketInvariant, PTL

(* What is left of an order and what was dealt add up to its amount, and   *)
(* what it has frozen is what it still may have to pay.                    *)
THEOREM OrdersAccounted == Spec => []OrderAccounting
  <1>1. MarketInv => OrderAccounting
    BY DEF MarketInv
  <1>2. QED
    BY <1>1, MarketInvariant, PTL

(* m->orders, m->users and the two lists name the same orders.             *)
THEOREM IndexesAlwaysAgree == Spec => []IndexesAgree
  <1>1. MarketInv => IndexesAgree
    BY DEF MarketInv
  <1>2. QED
    BY <1>1, MarketInvariant, PTL

(* An order is reported once and never comes back.                         *)
THEOREM ReportedOnce == Spec => []HistoryOnce
  <1>1. MarketInv => HistoryOnce
    BY DEF MarketInv
  <1>2. QED
    BY <1>1, MarketInvariant, PTL

(* No order trades at a worse average price than its limit.                *)
THEOREM LimitsRespected == Spec => []LimitRespected
  <1>1. MarketInv => LimitRespected
    BY DEF MarketInv
  <1>2. QED
    BY <1>1, MarketInvariant, PTL

(* No deal passes over a better order that still rests.                    *)
THEOREM PriceTimePriority == Spec => []NoOvertaking
  <1>1. MarketInv => NoOvertaking
    BY DEF MarketInv
  <1>2. QED
    BY <1>1, MarketInvariant, PTL

-------------------------------------------------------------------------------
(* The ends of the matching loops.                                         *)

(* The money a market bid keeps does not buy a unit at the price. *)
LEMMA Remainder ==
  ASSUME NEW l \in Nat, NEW p \in Nat \ {0}
  PROVE  l - p * (l \div p) < p
  BY SMT

LEMMA LessThanOne ==
  ASSUME NEW l \in Nat, NEW p \in Nat, l < p
  PROVE  l \div p = 0
  BY SMT

LEMMA RoundEnds ==
  ASSUME MarketInv, ~Idle, NEW m \in DOMAIN orders, NEW bidFeeIn \in Assets,
         CanDeal(m), taker.type = "market" /\ taker.side = "bid" => Dealable(m) > 0,
         MakeDeal(m, Dealable(m), bidFeeIn)
  PROVE  /\ taker'.left < taker.left
         /\ LoopEnds' \/ ~(asks \cup bids \subseteq asks' \cup bids')
  <1> DEFINE amount == Dealable(m)
             price == orders[m].price
             marketBid == taker.type = "market" /\ taker.side = "bid"
             used == IF marketBid THEN price * amount ELSE amount
             filled(fee) == FilledMaker(m, amount, fee)
  <1>1. DealAllowed(m, amount)
    BY LoopsAllowed
  <1>2. PICK tfee, mfee \in Nat :
           /\ DealMakes(TakerSettled(m, amount, bidFeeIn),
                        MakerSettled(m, amount, bidFeeIn), filled(mfee), tfee,
                        m, amount)
           /\ VersionOf(filled(mfee), m)
    BY <1>1, MakeDealIs
  <1>3. /\ TypeOK /\ IsFirst(m, Opposite(taker.side)) /\ m \in asks \cup bids
        /\ taker \in Order /\ orders[m] \in Order /\ price > 0
        /\ amount \in Nat \ {0} /\ amount <= orders[m].left /\ used <= taker.left
    BY <1>1 DEF MarketInv, DealAllowed, IsFirst, Opposite, TypeOK, NoTaker, Idle,
                PricesPositive
  <1>4. /\ price \in Nat \ {0} /\ taker.left \in Nat /\ orders[m].left \in Nat
    BY <1>3 DEF Order
  <1>5. /\ taker' = FilledTaker(m, amount, tfee)
        /\ taker'.type = taker.type /\ taker'.side = taker.side
        /\ taker'.left = taker.left - used
    BY <1>2, <1>3 DEF DealMakes, FilledTaker, Filled, Order
  <1>6. filled(mfee).left = orders[m].left - amount /\ filled(mfee).id = m
    BY <1>2, <1>3 DEF FilledMaker, Filled, Order, VersionOf
  <1>7. amount = Least(IF marketBid THEN taker.left \div price ELSE taker.left,
                       orders[m].left)
    BY DEF Dealable
  <1>8. used \in Nat \ {0} /\ taker'.left \in Nat
    <2>1. price * amount \in Nat \ {0}
      <3> HIDE DEF amount, price
      <3>1. QED
        BY <1>3, <1>4, SMT
    <2>2. QED
      BY <1>3, <1>4, <1>5, <2>1
  <1>9. taker'.left < taker.left
    BY <1>4, <1>5, <1>8
  <1> HIDE DEF amount, price, filled
  <1>10. CASE filled(mfee).left = 0
    <2>1. asks' = asks \ {m} /\ bids' = bids \ {m}
      BY <1>2, <1>6, <1>10 DEF DealMakes, order_finish
    <2>2. QED
      BY <1>3, <1>9, <2>1
  <1>11. CASE filled(mfee).left # 0
    <2>1. /\ asks' = asks /\ bids' = bids
          /\ orders' = [orders EXCEPT ![m] = filled(mfee)]
      BY <1>2, <1>11 DEF DealMakes
    <2>2. /\ amount # orders[m].left
          /\ amount = IF marketBid THEN taker.left \div price ELSE taker.left
      BY <1>4, <1>6, <1>7, <1>11 DEF Least
    <2>3. CASE ~marketBid
      <3>1. taker'.left = 0
        BY <1>4, <1>5, <2>2, <2>3
      <3>2. QED
        BY <1>9, <3>1 DEF LoopEnds, CanDeal
    <2>4. CASE marketBid
      <3>1. taker'.left < price
        BY <1>4, <1>5, <2>2, <2>4, Remainder
      <3>2. \A i \in DOMAIN orders :
               orders'[i].price = orders[i].price /\ orders'[i].side = orders[i].side
        BY <1>2, <2>1 DEF VersionOf
      <3>3. ASSUME NEW i \in asks, CanDeal(i)' PROVE i = m
        <4>1. m \in asks /\ \A j \in asks \ {m} : order_match_before(m, j)
          BY <1>3, <2>4 DEF IsFirst, Opposite
        <4>2. \A j \in asks \ {i} : order_match_before(i, j)'
          BY <1>5, <2>1, <2>4, <3>3 DEF CanDeal, IsFirst, Opposite
        <4>3. \A j \in asks : /\ j \in DOMAIN orders /\ j \in Nat
                              /\ orders[j].price \in Nat /\ orders[j].side = "ask"
          BY <1>3 DEF MarketInv, TypeOK, IndexesAgree, OrderId, Order
        <4>4. SUFFICES ASSUME i # m PROVE FALSE
          OBVIOUS
        <4>5. order_match_before(m, i) /\ order_match_before(i, m)'
          BY <4>1, <4>2, <4>4, <3>3
        <4>6. \/ orders[m].price < orders[i].price
              \/ orders[m].price = orders[i].price /\ m < i
          BY <4>1, <4>3, <4>5, <3>3 DEF order_match_before
        <4>7. \/ orders[i].price < orders[m].price
              \/ orders[i].price = orders[m].price /\ i < m
          BY <4>1, <4>3, <4>5, <3>2, <3>3 DEF order_match_before
        <4>8. QED
          BY <4>1, <4>3, <4>6, <4>7, <3>3
      <3>4. Dealable(m)' = 0
        <4>1. orders'[m] = filled(mfee) /\ orders'[m].price = price
          BY <2>1, <3>2 DEF price
        <4>2. Dealable(m)' = Least(taker'.left \div price, orders'[m].left)
          BY <1>5, <2>4, <4>1 DEF Dealable
        <4>3. taker'.left \div price = 0
          BY <1>4, <1>8, <3>1, LessThanOne
        <4>4. orders'[m].left \in Nat \ {0}
          BY <1>2, <1>11, <4>1 DEF VersionOf, Order
        <4>5. QED
          BY <4>2, <4>3, <4>4 DEF Least
      <3>5. LoopEnds'
        BY <1>5, <2>1, <2>4, <3>3, <3>4 DEF LoopEnds, Opposite
      <3>6. QED
        BY <1>9, <3>5
    <2>5. QED
      BY <2>3, <2>4
  <1>12. QED
    BY <1>10, <1>11

(* No put handler runs for ever: every round of the four matching loops    *)
(* leaves less to match, and ends its maker or is the last one, so that    *)
(* there are no more rounds than makers.                                   *)
THEOREM HandlersReturn == Spec => HandlerReturns
  <1> DEFINE Ends == /\ taker'.left < taker.left
                     /\ LoopEnds' \/ ~(asks \cup bids \subseteq asks' \cup bids')
  <1>1. ASSUME MarketInv, [Next]_vars, ~Idle, ~Idle', vars' # vars
        PROVE  Ends
    <2>1. ASSUME NEW m \in DOMAIN orders, ExecuteLimitAsk(m) \/ ExecuteLimitBid(m)
          PROVE  Ends
      <3>1. /\ taker.type = "limit" /\ CanDeal(m)
            /\ MakeDeal(m, Dealable(m), "money") /\ "money" \in Assets
        BY <2>1 DEF ExecuteLimitAsk, ExecuteLimitBid, Assets
      <3>2. QED
        BY <1>1, <3>1, RoundEnds
    <2>2. ASSUME NEW m \in DOMAIN orders, ExecuteMarketAsk(m) \/ ExecuteMarketBid(m)
          PROVE  Ends
      <3>1. /\ taker.type = "market" /\ taker.side = "bid" => Dealable(m) > 0
            /\ CanDeal(m) /\ MakeDeal(m, Dealable(m), "stock") /\ "stock" \in Assets
        BY <2>2 DEF ExecuteMarketAsk, ExecuteMarketBid, Assets
      <3>2. QED
        BY <1>1, <3>1, RoundEnds
    <2>3. ~FinishTaker /\ ~RestLimitOrder
      BY <1>1 DEF FinishTaker, RestLimitOrder, Idle, NoTaker
    <2>4. QED
      BY <1>1, <2>1, <2>2, <2>3 DEF Next, HandlerStep, UpdateBalance, PutLimitOrder,
           PutMarketAsk, PutMarketBid, CancelOrder
  <1>2. MarketInv /\ [Next]_vars => [~Idle /\ ~Idle' => Ends]_vars
    BY <1>1
  <1>3. QED
    BY MarketInvariant, <1>2, PTL DEF Spec, HandlerReturns

-------------------------------------------------------------------------------
(* Every fill is explained by the deal history, and the deal history by    *)
(* the orders it names.  A deal has a number of its own, so its row is new *)
(* and adds itself to the sums of exactly two orders, the two that         *)
(* execute_*_order fills; an order that has dealt is never forgotten, only *)
(* reported.                                                               *)

(* The orders there is a trace of. *)
Known == LiveOrders \cup order_history

-------------------------------------------------------------------------------
(* The sums over the rows of an order are sums of naturals.                *)
LEMMA DealSums ==
  ASSUME TypeOK, IsFiniteSet(deals), NEW i
  PROVE  /\ IsFiniteSet(DealsOf(i))
         /\ DealStock(i) \in [DealsOf(i) -> Nat]
         /\ DealMoney(i) \in [DealsOf(i) -> Nat]
  <1>1. IsFiniteSet(DealsOf(i))
    <2>1. DealsOf(i) \subseteq deals
      BY DEF DealsOf
    <2>2. QED
      BY <2>1, FS_Subset
  <1>2. \A d \in DealsOf(i) : d.amount \in Nat /\ d.price \in Nat
    BY DEF DealsOf, TypeOK, Deal
  <1>3. \A d \in DealsOf(i) : d.amount * d.price \in Nat
    BY <1>2, ProductNat
  <1>4. QED
    BY <1>1, <1>2, <1>3 DEF DealStock, DealMoney

(* An order that a row names has dealt something.                          *)
LEMMA NamedHasDealt ==
  ASSUME TypeOK, DealsInv, NEW d \in deals, NEW o \in Known,
         o.id \in {d.ask, d.bid}
  PROVE  o.deal_stock > 0
  <1>1. o.deal_stock = SumOf(DealStock(o.id))
    BY DEF DealsInv, DealsExplainOrders, Known
  <1>2. d \in DealsOf(o.id)
    BY DEF DealsOf
  <1>3. /\ IsFiniteSet(DealsOf(o.id))
        /\ DealStock(o.id) \in [DealsOf(o.id) -> Nat]
    BY DealSums DEF DealsInv
  <1>4. /\ SumOf(DealStock(o.id)) =
             At(DealStock(o.id), d) + SumOf(Except(DealStock(o.id), d))
        /\ SumOf(Except(DealStock(o.id), d)) \in Nat
    BY <1>3, SumSplit
  <1>5. At(DealStock(o.id), d) = d.amount
    BY <1>2, <1>3 DEF At, DealStock
  <1>6. d.amount \in Nat /\ d.amount > 0
    BY DEF DealsInv, TypeOK, Deal
  <1>7. QED
    BY <1>1, <1>4, <1>5, <1>6

(* A row names orders that were known, so none that is still to come.      *)
LEMMA NamedNotNew ==
  ASSUME TypeOK, IdsGrow, DealsInv, NEW d \in deals
  PROVE  d.ask <= order_id_start /\ d.bid <= order_id_start
  <1>1. \A o \in Known : o.id <= order_id_start
    BY DEF Known, LiveOrders, IdsGrow, TypeOK, Idle, NoTaker, Order, OrderId
  <1>2. QED
    BY <1>1 DEF DealsInv, DealsExplainOrders, Known

(* Without a deal the rows go on explaining the orders, as long as no      *)
(* order changes its fills, a new one has none, and those that have some   *)
(* stay known.                                                             *)
LEMMA DealsStand ==
  ASSUME TypeOK, DealsInv, UNCHANGED <<deals, deals_id_start>>,
         \A o \in Known' :
            \/ \E p \in Known : /\ p.id = o.id
                                /\ p.deal_stock = o.deal_stock
                                /\ p.deal_money = o.deal_money
            \/ /\ o.deal_stock = 0 /\ o.deal_money = 0
               /\ DealsOf(o.id) = {},
         \A p \in Known : p.deal_stock > 0 =>
            \E o \in Known' : o.id = p.id /\ o.side = p.side
  PROVE  DealsInv'
  <1>1. \A i : DealStock(i)' = DealStock(i) /\ DealMoney(i)' = DealMoney(i)
    BY DEF DealStock, DealMoney, DealsOf
  <1>2. ASSUME NEW o \in Known'
        PROVE  /\ o.deal_stock = SumOf(DealStock(o.id))
               /\ o.deal_money = SumOf(DealMoney(o.id))
    <2>1. CASE \E p \in Known : /\ p.id = o.id
                                /\ p.deal_stock = o.deal_stock
                                /\ p.deal_money = o.deal_money
      BY <2>1 DEF DealsInv, DealsExplainOrders, Known
    <2>2. CASE /\ o.deal_stock = 0 /\ o.deal_money = 0
               /\ DealsOf(o.id) = {}
      <3>1. DOMAIN DealStock(o.id) = {} /\ DOMAIN DealMoney(o.id) = {}
        BY <2>2 DEF DealStock, DealMoney
      <3>2. QED
        BY <2>2, <3>1, SumEmpty
    <2>3. QED
      BY <2>1, <2>2
  <1>3. ASSUME NEW d \in deals
        PROVE  \E a, b \in Known' : /\ a.id = d.ask /\ a.side = "ask"
                                    /\ b.id = d.bid /\ b.side = "bid"
    <2>1. PICK a, b \in Known : /\ a.id = d.ask /\ a.side = "ask"
                                /\ b.id = d.bid /\ b.side = "bid"
      BY DEF DealsInv, DealsExplainOrders, Known
    <2>2. a.deal_stock > 0 /\ b.deal_stock > 0
      BY <2>1, NamedHasDealt
    <2>3. QED
      BY <2>1, <2>2
  <1>4. DealsExplainOrders'
    BY <1>1, <1>2, <1>3 DEF DealsExplainOrders, Known
  <1>5. QED
    BY <1>4 DEF DealsInv

-------------------------------------------------------------------------------
(* The steps that are not deals.                                           *)

(* order_finish forgets no order that has dealt, and no other order.       *)
LEMMA FinishForgetsNothing ==
  ASSUME NEW b, NEW o, o.id \in DOMAIN orders, order_finish(b, o)
  PROVE  /\ \A j \in DOMAIN orders \ {o.id} :
               j \in DOMAIN orders' /\ orders'[j] = orders[j]
         /\ \A j \in DOMAIN orders' :
               orders'[j] = o \/ (j \in DOMAIN orders \ {o.id})
         /\ order_history \subseteq order_history'
         /\ \A p \in order_history' : p \in order_history \/ p = o
         /\ o.deal_stock > 0 =>
               o \in order_history' \cup {orders'[j] : j \in DOMAIN orders'}
  <1>1. CASE Releases(b, o)
    BY <1>1 DEF order_finish, Without, Reported
  <1>2. CASE ~Releases(b, o)
    BY <1>2 DEF order_finish, With
  <1>3. QED
    BY <1>1, <1>2

LEMMA ReceiveDeals ==
  ASSUME MarketInv, DealsInv, Idle, NEW o, Receive(o),
         o.id = order_id_start + 1, o.deal_stock = 0, o.deal_money = 0
  PROVE  DealsInv'
  <1>1. /\ TypeOK /\ IdsGrow /\ order_id_start \in Nat
    BY DEF MarketInv, TypeOK
  <1>2. /\ taker' = o
        /\ UNCHANGED <<orders, deals, deals_id_start, order_history>>
    BY DEF Receive, book, history
  <1>3. ~Idle'
    BY <1>1, <1>2 DEF Idle
  <1>4. DealsOf(o.id) = {}
    <2>1. \A d \in deals : d.ask # o.id /\ d.bid # o.id
      <3> TAKE d \in deals
      <3>1. d.ask <= order_id_start /\ d.bid <= order_id_start
        BY <1>1, NamedNotNew
      <3>2. d.ask \in Nat /\ d.bid \in Nat
        BY <1>1 DEF TypeOK, Deal, OrderId
      <3>3. QED
        BY <1>1, <3>1, <3>2
    <2>2. QED
      BY <2>1 DEF DealsOf
  <1>5. Known' = Known \cup {o}
    BY <1>2, <1>3 DEF Known, LiveOrders
  <1>6. QED
    BY <1>1, <1>2, <1>4, <1>5, DealsStand

(* A cancelled order that has dealt is reported; another one is forgotten. *)
LEMMA CancelKnown ==
  ASSUME MarketInv, NEW u \in Users, NEW i \in DOMAIN orders, CancelOrder(u, i)
  PROVE  /\ Known' \subseteq Known
         /\ \A p \in Known : p.deal_stock > 0 => p \in Known'
  <1>1. /\ TypeOK /\ orders[i].id = i
        /\ order_finish(balance, orders[i])
        /\ UNCHANGED taker
    BY DEF MarketInv, TypeOK, CancelOrder
  <1>2. /\ \A j \in DOMAIN orders \ {i} :
              j \in DOMAIN orders' /\ orders'[j] = orders[j]
        /\ \A j \in DOMAIN orders' :
              orders'[j] = orders[i] \/ (j \in DOMAIN orders \ {i})
        /\ order_history \subseteq order_history'
        /\ \A p \in order_history' : p \in order_history \/ p = orders[i]
        /\ orders[i].deal_stock > 0 =>
              orders[i] \in order_history' \cup {orders'[j] : j \in DOMAIN orders'}
    BY <1>1, FinishForgetsNothing
  <1>3. Known' \subseteq Known
    BY <1>1, <1>2 DEF Known, LiveOrders, Idle
  <1>4. \A p \in Known : p.deal_stock > 0 => p \in Known'
    <2> TAKE p \in Known
    <2>1. CASE p \in order_history \/ (~Idle /\ p = taker)
      BY <1>1, <1>2, <2>1 DEF Known, LiveOrders, Idle
    <2>2. CASE p \in {orders[j] : j \in DOMAIN orders}
      BY <1>2, <2>2 DEF Known, LiveOrders
    <2>3. QED
      BY <2>1, <2>2 DEF Known, LiveOrders
  <1>5. QED
    BY <1>3, <1>4

LEMMA CancelDeals ==
  ASSUME MarketInv, DealsInv, NEW u \in Users, NEW i \in DOMAIN orders,
         CancelOrder(u, i)
  PROVE  DealsInv'
  <1>1. TypeOK /\ UNCHANGED <<deals, deals_id_start>>
    BY DEF MarketInv, CancelOrder, counters
  <1>2. QED
    BY <1>1, CancelKnown, DealsStand

LEMMA FinishTakerDeals ==
  ASSUME MarketInv, DealsInv, FinishTaker
  PROVE  DealsInv'
  <1>1. /\ TypeOK /\ ~Idle /\ taker' = NoTaker
        /\ order_history' = order_history \cup {taker}
        /\ UNCHANGED <<orders, deals, deals_id_start>>
    BY DEF MarketInv, FinishTaker, book, counters
  <1>2. Known' = Known
    BY <1>1 DEF Known, LiveOrders, Idle, NoTaker
  <1>3. QED
    BY <1>1, <1>2, DealsStand

(* An order that comes to rest is the taker with something frozen.         *)
LEMMA RestKnown ==
  ASSUME MarketInv, RestLimitOrder
  PROVE  \E o \in Known' :
            /\ o.id = taker.id /\ o.side = taker.side
            /\ o.deal_stock = taker.deal_stock /\ o.deal_money = taker.deal_money
            /\ o.taker_fee = taker.taker_fee
            /\ taker \in Known
            /\ Known \subseteq Known' \cup {taker}
            /\ Known' \subseteq Known \cup {o}
  <1> DEFINE o == [taker EXCEPT !.freeze = ToFreeze(taker)]
  <1>1. /\ TypeOK /\ HistoryOnce /\ ~Idle /\ taker' = NoTaker
        /\ orders' = With(orders, o.id, o)
        /\ UNCHANGED order_history
    BY DEF MarketInv, RestLimitOrder, history
  <1>2. taker \in Order
    BY <1>1 DEF TypeOK, Idle, NoTaker
  <1>3. /\ o.id = taker.id /\ o.side = taker.side
        /\ o.deal_stock = taker.deal_stock /\ o.deal_money = taker.deal_money
        /\ o.taker_fee = taker.taker_fee
    BY <1>2 DEF Order
  <1> HIDE DEF o
  <1>4. /\ DOMAIN orders' = DOMAIN orders \cup {o.id} /\ orders'[o.id] = o
        /\ o.id \notin DOMAIN orders
        /\ \A j \in DOMAIN orders : orders'[j] = orders[j]
    BY <1>1, <1>3 DEF With, HistoryOnce
  <1>5. /\ Known = {orders[j] : j \in DOMAIN orders} \cup order_history \cup {taker}
        /\ Known' = {orders[j] : j \in DOMAIN orders} \cup order_history \cup {o}
    BY <1>1, <1>4 DEF Known, LiveOrders, Idle, NoTaker
  <1>6. QED
    BY <1>3, <1>5

LEMMA RestDeals ==
  ASSUME MarketInv, DealsInv, RestLimitOrder
  PROVE  DealsInv'
  <1>1. TypeOK /\ UNCHANGED <<deals, deals_id_start>>
    BY DEF MarketInv, RestLimitOrder, counters, history
  <1>2. PICK o \in Known' :
           /\ o.id = taker.id /\ o.side = taker.side
           /\ o.deal_stock = taker.deal_stock /\ o.deal_money = taker.deal_money
           /\ taker \in Known
           /\ Known \subseteq Known' \cup {taker}
           /\ Known' \subseteq Known \cup {o}
    BY RestKnown
  <1>3. QED
    BY <1>1, <1>2, DealsStand

-------------------------------------------------------------------------------
(* A deal.                                                                 *)

(* The row of a deal is new, and adds its amount and its money to the sums *)
(* of the two orders it names; those of the other orders stay.             *)
LEMMA NewRow ==
  ASSUME MarketInv, DealsInv, NEW d \in Deal, d.id = deals_id_start + 1,
         deals' = deals \cup {d}, NEW i
  PROVE  /\ IsFiniteSet(deals')
         /\ i \notin {d.ask, d.bid} =>
              /\ SumOf(DealStock(i))' = SumOf(DealStock(i))
              /\ SumOf(DealMoney(i))' = SumOf(DealMoney(i))
         /\ i \in {d.ask, d.bid} =>
              /\ SumOf(DealStock(i))' = SumOf(DealStock(i)) + d.amount
              /\ SumOf(DealMoney(i))' = SumOf(DealMoney(i)) + d.amount * d.price
  <1>1. /\ TypeOK /\ IsFiniteSet(deals)
        /\ \A e \in deals : e.id <= deals_id_start
    BY DEF MarketInv, DealsInv
  <1>2. d \notin deals
    BY <1>1 DEF TypeOK
  <1>3. IsFiniteSet(deals')
    BY <1>1, FS_AddElement
  <1> DEFINE stock == [e \in DealsOf(i)' |-> e.amount]
             money == [e \in DealsOf(i)' |-> e.amount * e.price]
  <1>4. DealStock(i)' = stock /\ DealMoney(i)' = money
    BY DEF DealStock, DealMoney
  <1>5. DealsOf(i)' = IF i \in {d.ask, d.bid} THEN DealsOf(i) \cup {d} ELSE DealsOf(i)
    BY DEF DealsOf
  <1>6. CASE i \notin {d.ask, d.bid}
    BY <1>3, <1>4, <1>5, <1>6 DEF DealStock, DealMoney
  <1>7. CASE i \in {d.ask, d.bid}
    <2>1. /\ IsFiniteSet(DealsOf(i))
          /\ DealStock(i) \in [DealsOf(i) -> Nat]
          /\ DealMoney(i) \in [DealsOf(i) -> Nat]
      BY <1>1, DealSums
    <2>2. DealsOf(i)' = DealsOf(i) \cup {d} /\ d \notin DealsOf(i)
      BY <1>2, <1>5, <1>7 DEF DealsOf
    <2>3. IsFiniteSet(DealsOf(i)')
      BY <2>1, <2>2, FS_AddElement
    <2>4. /\ stock \in [DealsOf(i)' -> Nat] /\ money \in [DealsOf(i)' -> Nat]
          /\ d.amount \in Nat /\ d.amount * d.price \in Nat
      <3>1. \A e \in DealsOf(i)' : e.amount \in Nat /\ e.price \in Nat
        BY <1>1, <2>2 DEF DealsOf, TypeOK, Deal
      <3>2. \A e \in DealsOf(i)' : e.amount * e.price \in Nat
        BY <3>1, ProductNat
      <3>3. QED
        BY <2>2, <3>1, <3>2
    <2>5. /\ \A e \in DealsOf(i) \ {d} : DealStock(i)[e] = stock[e]
          /\ \A e \in DealsOf(i) \ {d} : DealMoney(i)[e] = money[e]
          /\ DealsOf(i) \ {d} = DealsOf(i)' \ {d}
      BY <2>2 DEF DealStock, DealMoney
    <2>6. /\ At(DealStock(i), d) = 0 /\ At(DealMoney(i), d) = 0
          /\ At(stock, d) = d.amount /\ At(money, d) = d.amount * d.price
      BY <2>1, <2>2 DEF At
    <2>7. /\ SumOf(DealStock(i)) \in Nat /\ SumOf(DealMoney(i)) \in Nat
          /\ SumOf(stock) = SumOf(DealStock(i)) + d.amount
          /\ SumOf(money) = SumOf(DealMoney(i)) + d.amount * d.price
      <3> HIDE DEF stock, money
      <3>1. /\ SumOf(stock) = SumOf(DealStock(i)) - At(DealStock(i), d) + At(stock, d)
            /\ SumOf(DealStock(i)) \in Nat
        BY <2>1, <2>3, <2>4, <2>5, SumChange
      <3>2. /\ SumOf(money) = SumOf(DealMoney(i)) - At(DealMoney(i), d) + At(money, d)
            /\ SumOf(DealMoney(i)) \in Nat
        BY <2>1, <2>3, <2>4, <2>5, SumChange
      <3>3. QED
        BY <2>4, <2>6, <3>1, <3>2
    <2>8. SumOf(DealStock(i))' = SumOf(stock) /\ SumOf(DealMoney(i))' = SumOf(money)
      BY <1>4
    <2>9. QED
      BY <1>3, <1>7, <2>7, <2>8
  <1>8. QED
    BY <1>6, <1>7

(* A deal fills the two orders it names, by its amount and its money, and  *)
(* leaves the others.                                                      *)
LEMMA DealFills ==
  ASSUME MarketInv, NEW m, NEW amount, NEW bidFeeIn \in Assets,
         DealAllowed(m, amount), MakeDeal(m, amount, bidFeeIn)
  PROVE  \E a, b \in Known' :
            LET deal == orders[m].price * amount
            IN /\ a.id = taker.id /\ a.side = taker.side
               /\ a.deal_stock = taker.deal_stock + amount
               /\ a.deal_money = taker.deal_money + deal
               /\ a.taker_fee = taker.taker_fee
               /\ b.id = m /\ b.side = orders[m].side
               /\ b.deal_stock = orders[m].deal_stock + amount
               /\ b.deal_money = orders[m].deal_money + deal
               /\ b.taker_fee = orders[m].taker_fee
               /\ \A o \in Known' :
                     o = a \/ o = b \/ (o \in Known /\ o.id \notin {taker.id, m})
               /\ \A p \in Known : p.id \notin {taker.id, m} => p \in Known'
  <1>1. /\ TypeOK /\ HistoryOnce /\ ~Idle /\ amount \in Nat \ {0}
        /\ IsFirst(m, Opposite(taker.side))
    BY DEF MarketInv, DealAllowed
  <1>2. /\ m \in DOMAIN orders /\ orders[m] \in Order /\ orders[m].id = m
        /\ taker \in Order /\ m # taker.id
    BY <1>1 DEF IsFirst, Opposite, TypeOK, NoTaker, Idle, HistoryOnce
  <1> DEFINE t == TakerSettled(m, amount, bidFeeIn)
             s == MakerSettled(m, amount, bidFeeIn)
             deal == orders[m].price * amount
  <1>3. PICK tfee \in Nat, mfee \in Nat :
           /\ DealMakes(t, s, FilledMaker(m, amount, mfee), tfee, m, amount)
           /\ VersionOf(FilledMaker(m, amount, mfee), m)
    BY MakeDealIs
  <1> DEFINE a == FilledTaker(m, amount, tfee)
             b == FilledMaker(m, amount, mfee)
  <1>4. /\ a.id = taker.id /\ a.side = taker.side
        /\ a.deal_stock = taker.deal_stock + amount
        /\ a.deal_money = taker.deal_money + deal
        /\ a.taker_fee = taker.taker_fee
    BY <1>2 DEF FilledTaker, Filled, Order
  <1>5. /\ b.id = m /\ b.side = orders[m].side
        /\ b.deal_stock = orders[m].deal_stock + amount
        /\ b.deal_money = orders[m].deal_money + deal
        /\ b.taker_fee = orders[m].taker_fee
    BY <1>2 DEF FilledMaker, Filled, Order
  <1>6. b.deal_stock > 0
    BY <1>1, <1>2, <1>5 DEF Order
  <1>7. DealMakes(t, s, b, tfee, m, amount)
    BY <1>3
  <1> HIDE DEF t, s, b, deal
  <1>8. taker' = a /\ ~Idle'
    BY <1>1, <1>4, <1>7 DEF DealMakes, Idle
  <1> HIDE DEF a
  <1>9. /\ \A j \in DOMAIN orders \ {m} :
              j \in DOMAIN orders' /\ orders'[j] = orders[j]
        /\ \A j \in DOMAIN orders' : orders'[j] = b \/ (j \in DOMAIN orders \ {m})
        /\ order_history \subseteq order_history'
        /\ \A p \in order_history' : p \in order_history \/ p = b
        /\ b \in order_history' \cup {orders'[j] : j \in DOMAIN orders'}
    <2>1. CASE b.left = 0
      BY <1>2, <1>5, <1>6, <1>7, <2>1, FinishForgetsNothing DEF DealMakes
    <2>2. CASE b.left # 0
      <3>1. /\ orders' = [orders EXCEPT ![m] = b]
            /\ order_history' = order_history
        BY <1>7, <2>2 DEF DealMakes
      <3>2. QED
        BY <1>2, <3>1
    <2>3. QED
      BY <2>1, <2>2
  <1>10. /\ a \in Known' /\ b \in Known'
    BY <1>8, <1>9 DEF Known, LiveOrders
  <1>11. \A o \in Known' :
            o = a \/ o = b \/ (o \in Known /\ o.id \notin {taker.id, m})
    <2> TAKE o \in Known'
    <2>1. CASE o \in order_history'
      BY <1>1, <1>2, <1>9, <2>1 DEF Known, HistoryOnce
    <2>2. CASE o \in {orders'[j] : j \in DOMAIN orders'}
      <3>1. PICK j \in DOMAIN orders' : o = orders'[j]
        BY <2>2
      <3>2. CASE j \in DOMAIN orders \ {m}
        <4>1. o = orders[j] /\ o.id = j /\ j # taker.id
          BY <1>1, <1>9, <3>1, <3>2 DEF TypeOK, HistoryOnce
        <4>2. QED
          BY <3>2, <4>1 DEF Known, LiveOrders
      <3>3. QED
        BY <1>9, <3>1, <3>2
    <2>3. CASE o = taker'
      BY <1>8, <2>3
    <2>4. QED
      BY <1>8, <2>1, <2>2, <2>3 DEF Known, LiveOrders
  <1>12. \A p \in Known : p.id \notin {taker.id, m} => p \in Known'
    <2> SUFFICES ASSUME NEW p \in Known, p.id \notin {taker.id, m}
                 PROVE  p \in Known'
      OBVIOUS
    <2>1. CASE p \in order_history
      BY <1>9, <2>1 DEF Known
    <2>2. CASE p \in {orders[j] : j \in DOMAIN orders}
      <3>1. PICK j \in DOMAIN orders : p = orders[j]
        BY <2>2
      <3>2. j # m /\ j \in DOMAIN orders' /\ orders'[j] = p
        BY <1>1, <1>9, <3>1 DEF TypeOK
      <3>3. QED
        BY <3>2 DEF Known, LiveOrders
    <2>3. QED
      BY <2>1, <2>2 DEF Known, LiveOrders
  <1>13. QED
    BY <1>4, <1>5, <1>10, <1>11, <1>12 DEF deal

LEMMA MakeDealDeals ==
  ASSUME MarketInv, DealsInv, NEW m, NEW amount, NEW bidFeeIn \in Assets,
         DealAllowed(m, amount), MakeDeal(m, amount, bidFeeIn)
  PROVE  DealsInv'
  <1> DEFINE d == DealRow(m, amount)
             deal == orders[m].price * amount
  <1>1. /\ TypeOK /\ IndexesAgree /\ ~Idle /\ amount \in Nat /\ amount > 0
        /\ IsFirst(m, Opposite(taker.side))
    BY DEF MarketInv, DealAllowed
  <1>2. /\ m \in DOMAIN orders /\ orders[m] \in Order /\ orders[m].id = m
        /\ taker \in Order /\ m \in OrderId /\ taker.id \in OrderId
        /\ taker.side \in Sides /\ orders[m].price \in Nat
        /\ orders[m].side = (IF taker.side = "ask" THEN "bid" ELSE "ask")
    BY <1>1 DEF IsFirst, Opposite, TypeOK, NoTaker, Idle, IndexesAgree, Order, Sides
  <1>3. /\ deals' = deals \cup {d} /\ deals_id_start' = deals_id_start + 1
    BY DEF MakeDeal, DealRow
  <1>4. /\ d \in Deal /\ d.id = deals_id_start + 1
        /\ d.amount = amount /\ d.amount * d.price = deal
        /\ d.ask = (IF taker.side = "ask" THEN taker.id ELSE m)
        /\ d.bid = (IF taker.side = "bid" THEN taker.id ELSE m)
        /\ {d.ask, d.bid} = {taker.id, m}
    BY <1>1, <1>2 DEF DealRow, Deal, TypeOK, Sides
  <1>5. /\ IsFiniteSet(deals')
        /\ \A i : i \notin {taker.id, m} =>
              /\ SumOf(DealStock(i))' = SumOf(DealStock(i))
              /\ SumOf(DealMoney(i))' = SumOf(DealMoney(i))
        /\ \A i \in {taker.id, m} :
              /\ SumOf(DealStock(i))' = SumOf(DealStock(i)) + amount
              /\ SumOf(DealMoney(i))' = SumOf(DealMoney(i)) + deal
    <2> HIDE DEF d, deal
    <2>1. QED
      BY <1>3, <1>4, NewRow
  <1>6. PICK a, b \in Known' :
           /\ a.id = taker.id /\ a.side = taker.side
           /\ a.deal_stock = taker.deal_stock + amount
           /\ a.deal_money = taker.deal_money + deal
           /\ b.id = m /\ b.side = orders[m].side
           /\ b.deal_stock = orders[m].deal_stock + amount
           /\ b.deal_money = orders[m].deal_money + deal
           /\ \A o \in Known' :
                 o = a \/ o = b \/ (o \in Known /\ o.id \notin {taker.id, m})
           /\ \A p \in Known : p.id \notin {taker.id, m} => p \in Known'
    BY DealFills
  <1>7. taker \in Known /\ orders[m] \in Known
    BY <1>1, <1>2 DEF Known, LiveOrders
  <1> HIDE DEF d, deal
  <1>8. ASSUME NEW o \in Known'
        PROVE  /\ o.deal_stock = SumOf(DealStock(o.id))'
               /\ o.deal_money = SumOf(DealMoney(o.id))'
    <2>1. \A p \in Known : /\ p.deal_stock = SumOf(DealStock(p.id))
                           /\ p.deal_money = SumOf(DealMoney(p.id))
      BY DEF DealsInv, DealsExplainOrders, Known
    <2>2. CASE o = a
      BY <1>2, <1>5, <1>6, <1>7, <2>1, <2>2
    <2>3. CASE o = b
      BY <1>2, <1>5, <1>6, <1>7, <2>1, <2>3
    <2>4. CASE o \in Known /\ o.id \notin {taker.id, m}
      BY <1>5, <2>1, <2>4
    <2>5. QED
      BY <1>6, <2>2, <2>3, <2>4
  <1>9. ASSUME NEW p \in Known
        PROVE  \E o \in Known' : o.id = p.id /\ (o.side = p.side)
    <2>1. CASE p.id \notin {taker.id, m}
      BY <1>6, <2>1
    <2>2. CASE p.id \in {taker.id, m}
      <3>1. p = taker \/ p = orders[m]
        BY <1>1, <1>2, <2>2 DEF Known, LiveOrders, MarketInv, HistoryOnce, TypeOK
      <3>2. QED
        BY <1>2, <1>6, <3>1
    <2>3. QED
      BY <2>1, <2>2
  <1>10. ASSUME NEW e \in deals'
         PROVE  \E x, y \in Known' : /\ x.id = e.ask /\ x.side = "ask"
                                     /\ y.id = e.bid /\ y.side = "bid"
    <2>1. CASE e \in deals
      <3>1. PICK x, y \in Known : /\ x.id = e.ask /\ x.side = "ask"
                                  /\ y.id = e.bid /\ y.side = "bid"
        BY <2>1 DEF DealsInv, DealsExplainOrders, Known
      <3>2. QED
        BY <1>9, <3>1
    <2>2. CASE e = d
      BY <1>2, <1>4, <1>6, <2>2 DEF Sides
    <2>3. QED
      BY <1>3, <2>1, <2>2
  <1>11. DealsExplainOrders'
    BY <1>8, <1>10 DEF DealsExplainOrders, Known
  <1>12. \A e \in deals' : e.id <= deals_id_start' /\ e.amount > 0
    <2>1. \A e \in deals : e.id <= deals_id_start /\ e.amount > 0 /\ e.id \in Nat
      BY <1>1 DEF DealsInv, TypeOK, Deal
    <2>2. deals_id_start \in Nat
      BY <1>1 DEF TypeOK
    <2>3. QED
      BY <1>1, <1>3, <1>4, <2>1, <2>2
  <1>13. QED
    BY <1>5, <1>11, <1>12 DEF DealsInv

-------------------------------------------------------------------------------
LEMMA InitDeals == Init => DealsInv
  <1> SUFFICES ASSUME Init PROVE DealsInv
    OBVIOUS
  <1>1. deals = {} /\ LiveOrders = {} /\ order_history = {}
    BY DEF Init, LiveOrders, Idle, NoTaker
  <1>2. QED
    BY <1>1, FS_EmptySet DEF DealsInv, DealsExplainOrders

LEMMA NextDeals == MarketInv /\ DealsInv /\ [Next]_vars => DealsInv'
  <1> SUFFICES ASSUME MarketInv, DealsInv, [Next]_vars
               PROVE  DealsInv'
    OBVIOUS
  <1>1. ASSUME UNCHANGED <<orders, taker, deals, deals_id_start, order_history>>
        PROVE  DealsInv'
    <2>1. Known' = Known
      BY <1>1 DEF Known, LiveOrders, Idle
    <2>2. TypeOK
      BY DEF MarketInv
    <2>3. QED
      BY <1>1, <2>1, <2>2, DealsStand
  <1>2. ASSUME NEW r \in UpdateRequests, NEW padding \in Paddings,
               UpdateBalance(r, padding)
        PROVE  DealsInv'
    BY <1>1, <1>2 DEF UpdateBalance, book, counters, history
  <1>3. ASSUME NEW type \in {"limit", "market"}, NEW side \in Sides, NEW u \in Users,
               NEW price \in Nat, NEW amount \in Nat \ {0}, NEW tfee \in Nat,
               NEW mfee \in Nat,
               ReceiveAllowed(type, side, u, price, amount, tfee, mfee)
        PROVE  DealsInv'
    <2> DEFINE o == NewOrder(type, side, u, price, amount, tfee, mfee)
    <2>1. o.id = order_id_start + 1 /\ o.deal_stock = 0 /\ o.deal_money = 0
      BY DEF NewOrder
    <2>2. Idle /\ Receive(o)
      BY <1>3 DEF ReceiveAllowed
    <2> HIDE DEF o
    <2>3. QED
      BY <2>1, <2>2, ReceiveDeals
  <1>4. ASSUME NEW u \in Users, NEW i \in DOMAIN orders, CancelOrder(u, i)
        PROVE  DealsInv'
    BY <1>4, CancelDeals
  <1>5. ASSUME NEW m, NEW amount, NEW bidFeeIn \in Assets,
               DealAllowed(m, amount), MakeDeal(m, amount, bidFeeIn)
        PROVE  DealsInv'
    BY <1>5, MakeDealDeals
  <1>6. ASSUME FinishTaker PROVE DealsInv'
    BY <1>6, FinishTakerDeals
  <1>7. ASSUME RestLimitOrder PROVE DealsInv'
    BY <1>7, RestDeals
  <1>8. ASSUME UNCHANGED vars PROVE DealsInv'
    BY <1>1, <1>8 DEF vars, book, counters, history
  <1>9. QED
    BY <1>2, <1>3, <1>4, <1>5, <1>6, <1>7, <1>8, StepKinds

(* What an order says it has dealt is what the rows that name it add up    *)
(* to, and every row names an ask and a bid that are still known: nothing  *)
(* is filled twice, lost, or filled after it was reported finished.        *)
THEOREM DealsExplained == Spec => []DealsExplainOrders
  <1>1. MarketInv /\ DealsInv /\ [Next]_vars => (MarketInv /\ DealsInv)'
    BY NextInv, NextDeals
  <1>2. DealsInv => DealsExplainOrders
    BY DEF DealsInv
  <1>3. QED
    BY InitInv, InitDeals, <1>1, <1>2, PTL DEF Spec

-------------------------------------------------------------------------------
(***************************************************************************)
(* The funds of the market: as long as no taker's fee was asked for, what  *)
(* a user has frozen is what his resting orders have frozen, no payment is *)
(* ever refused, what users own changes by balance updates and complete    *)
(* trades only, so that the market implements the ledger, and nothing is   *)
(* made or lost.                                                           *)
(***************************************************************************)

(* Balance calls, entry by entry.                                          *)

LEMMA BalanceOpsAt ==
  ASSUME NEW b \in Balances, NEW k \in BalanceKey, NEW j \in BalanceKey, NEW x \in Nat
  PROVE  /\ b[j] \in Nat
         /\ balance_add(b, k, x)[j] = b[j] + (IF j = k THEN x ELSE 0)
         /\ Covers(b, k, x) =>
               balance_sub(b, k, x)[j] = b[j] - (IF j = k THEN x ELSE 0)
         /\ ~Covers(b, k, x) => balance_sub(b, k, x)[j] = b[j]
  BY DEF Balances, balance_add, balance_sub, Covers

(* x if v and c are the user and the asset that x is about.                *)
OnlyFor(v, c, u, a, x) == IF v = u /\ c = a THEN x ELSE 0

(* The two entries of one user are none of another's.                      *)
LEMMA EntryKeys ==
  ASSUME NEW u \in Users, NEW a \in Assets, NEW v \in Users, NEW c \in Assets
  PROVE  /\ <<u, "freeze", a>> \in BalanceKey /\ <<u, "available", a>> \in BalanceKey
         /\ <<v, "freeze", c>> \in BalanceKey /\ <<v, "available", c>> \in BalanceKey
         /\ (<<v, "freeze", c>> = <<u, "freeze", a>>) <=> (v = u /\ c = a)
         /\ (<<v, "available", c>> = <<u, "available", a>>) <=> (v = u /\ c = a)
         /\ <<v, "freeze", c>> # <<u, "available", a>>
         /\ <<v, "available", c>> # <<u, "freeze", a>>
         /\ <<u, "available", a>> # <<u, "freeze", a>>
  BY DEF BalanceKey, BalanceTypes

(* A move between a user's two entries that finds its funds.               *)
LEMMA FreezeAt ==
  ASSUME NEW b \in Balances, NEW u \in Users, NEW a \in Assets, NEW x \in Nat,
         Covers(b, <<u, "available", a>>, x), NEW v \in Users, NEW c \in Assets
  PROVE  /\ balance_freeze(b, u, a, x)[<<v, "freeze", c>>] =
              b[<<v, "freeze", c>>] + OnlyFor(v, c, u, a, x)
         /\ balance_freeze(b, u, a, x)[<<v, "available", c>>] =
              b[<<v, "available", c>>] - OnlyFor(v, c, u, a, x)
         /\ b[<<v, "freeze", c>>] \in Nat /\ b[<<v, "available", c>>] \in Nat
         /\ OnlyFor(v, c, u, a, x) \in Nat
  <1>1. b \in [BalanceKey -> Nat]
    BY DEF Balances
  <1>2. balance_freeze(b, u, a, x) =
          [b EXCEPT ![<<u, "freeze", a>>] = @ + x, ![<<u, "available", a>>] = @ - x]
    BY DEF balance_freeze
  <1>3. QED
    BY <1>1, <1>2, EntryKeys DEF OnlyFor

LEMMA UnfreezeAt ==
  ASSUME NEW b \in Balances, NEW u \in Users, NEW a \in Assets, NEW x \in Nat,
         Covers(b, <<u, "freeze", a>>, x), NEW v \in Users, NEW c \in Assets
  PROVE  /\ balance_unfreeze(b, u, a, x)[<<v, "freeze", c>>] =
              b[<<v, "freeze", c>>] - OnlyFor(v, c, u, a, x)
         /\ balance_unfreeze(b, u, a, x)[<<v, "available", c>>] =
              b[<<v, "available", c>>] + OnlyFor(v, c, u, a, x)
         /\ b[<<v, "freeze", c>>] \in Nat /\ b[<<v, "available", c>>] \in Nat
         /\ OnlyFor(v, c, u, a, x) \in Nat
  <1>1. b \in [BalanceKey -> Nat]
    BY DEF Balances
  <1>2. balance_unfreeze(b, u, a, x) =
          [b EXCEPT ![<<u, "available", a>>] = @ + x, ![<<u, "freeze", a>>] = @ - x]
    BY DEF balance_unfreeze
  <1>3. QED
    BY <1>1, <1>2, EntryKeys DEF OnlyFor

-------------------------------------------------------------------------------
(* Fees.                                                                   *)

LEMMA CeilDivBound ==
  ASSUME NEW x \in Nat, NEW r \in Nat, NEW d \in Nat \ {0}, r < d
  PROVE  CeilDiv(x * r, d) <= x /\ CeilDiv(x * 0, d) = 0
  <1>1. CeilDiv(x * 0, d) = 0
    <2>1. CeilDiv(x * 0, d) = (d - 1) \div d
      BY DEF CeilDiv
    <2>2. (d - 1) \div d = 0
      OBVIOUS
    <2>3. QED
      BY <2>1, <2>2
  <1>2. x * r \in Nat /\ d * x \in Nat /\ x * (d - 1) \in Nat
    BY ProductNat
  <1>3. x * r <= x * (d - 1)
    BY ProductMonotone
  <1>4. x * (d - 1) = d * x - x
    OBVIOUS
  <1>5. x * r + d - 1 \in Nat /\ x * r + d - 1 < d * x + d
    BY <1>2, <1>3, <1>4
  <1>6. d * (x + 1) = d * x + d
    OBVIOUS
  <1> DEFINE n == x * r + d - 1
             q == n \div d
  <1>7. q \in Nat /\ d * q <= n
    BY <1>5
  <1> HIDE DEF n
  <1>8. q <= x
    <2>1. ASSUME q >= x + 1 PROVE FALSE
      <3>1. d * (x + 1) <= d * q
        BY <1>7, <2>1, ProductMonotone
      <3>2. d * q \in Nat /\ d * (x + 1) \in Nat
        BY <1>7, ProductNat
      <3> HIDE DEF q
      <3>3. QED
        BY <1>2, <1>5, <1>6, <1>7, <3>1, <3>2 DEF n
    <2>2. QED
      BY <1>7, <2>1
  <1>9. QED
    BY <1>1, <1>8 DEF CeilDiv, n

(* A fee is less than what it is taken from, and no rate is no fee.        *)
LEMMA FeeBound ==
  ASSUME NEW feeIn \in Assets, NEW amount \in Nat, NEW deal \in Nat,
         NEW rate \in Nat, rate < FeeDen
  PROVE  /\ ChargedFee(feeIn, amount, deal, rate) \in Nat
         /\ ChargedFee(feeIn, amount, deal, rate) <=
              (IF feeIn = "money" THEN deal ELSE StockUnits(amount))
         /\ rate = 0 => ChargedFee(feeIn, amount, deal, rate) = 0
  <1>1. FeeDen \in Nat \ {0} /\ amount * 0 = 0
    BY MarketAssumption
  <1>2. CASE feeIn = "money"
    <2>1. deal * rate \in Nat /\ CeilDiv(deal * rate, FeeDen) \in Nat
      BY <1>1, ProductNat, CeilDivNat
    <2>2. CeilDiv(deal * rate, FeeDen) <= deal /\ CeilDiv(deal * 0, FeeDen) = 0
      BY <1>1, CeilDivBound
    <2>3. ChargedFee(feeIn, amount, deal, rate) = CeilDiv(deal * rate, FeeDen)
      BY <1>2 DEF ChargedFee
    <2>4. QED
      BY <1>2, <2>1, <2>2, <2>3
  <1>3. CASE feeIn # "money"
    <2>1. amount * rate \in Nat /\ amount * rate <= amount * FeeDen
      BY <1>1, ProductNat, ProductMonotone
    <2>2. ChargedFee(feeIn, amount, deal, rate) = amount * rate
      BY <1>3 DEF ChargedFee
    <2>3. QED
      BY <1>1, <1>3, <2>1, <2>2 DEF StockUnits
  <1>4. QED
    BY <1>2, <1>3

-------------------------------------------------------------------------------
(* One side of a deal, when what it pays is there: it pays and receives in *)
(* full, and can only fail to pay its fee.                                 *)

(* What the order of a side gives for the other's.                         *)
PaysOf(side, amount, deal) ==
    IF side = "ask" THEN StockUnits(amount) ELSE deal
GetsOf(side, amount, deal) ==
    IF side = "ask" THEN deal ELSE StockUnits(amount)
FeeIn(side, bidFeeIn) == IF side = "ask" THEN "money" ELSE bidFeeIn

PaidInFull(s, b, o, from, role, amount, deal, rate, bidFeeIn) ==
    LET pay == PaysOf(o.side, amount, deal)
        get == GetsOf(o.side, amount, deal)
    IN /\ s.feeIn = FeeIn(o.side, bidFeeIn)
       /\ s.fee \in Nat
       /\ s.fee <= (IF s.feeIn = "money" THEN deal ELSE StockUnits(amount))
       /\ s.ignored \subseteq {<<role, "fee">>}
       /\ rate = 0 => s.fee = 0 /\ s.ignored = {}
       /\ \A v \in Users, c \in Assets :
             /\ s.balance[<<v, "freeze", c>>] =
                  b[<<v, "freeze", c>>]
                  - (IF from = "freeze"
                     THEN OnlyFor(v, c, o.user, Gives(o.side), pay) ELSE 0)
             /\ s.balance[<<v, "available", c>>] =
                  b[<<v, "available", c>>]
                  - (IF from = "available"
                     THEN OnlyFor(v, c, o.user, Gives(o.side), pay) ELSE 0)
                  + OnlyFor(v, c, o.user, Gets(o.side), get)
                  - OnlyFor(v, c, o.user, s.feeIn, s.fee)

LEMMA SettlePays ==
  ASSUME NEW b \in Balances, NEW o \in Order, NEW from \in BalanceTypes,
         NEW role \in {"taker", "maker"}, NEW amount \in Nat, NEW deal \in Nat,
         NEW rate \in Nat, rate < FeeDen, NEW bidFeeIn \in Assets,
         Covers(b, <<o.user, from, Gives(o.side)>>, PaysOf(o.side, amount, deal))
  PROVE  PaidInFull(Settle(b, o, from, role, amount, deal, rate, bidFeeIn),
                    b, o, from, role, amount, deal, rate, bidFeeIn)
  <1> DEFINE pay == PaysOf(o.side, amount, deal)
             get == GetsOf(o.side, amount, deal)
             feeIn == FeeIn(o.side, bidFeeIn)
             fee == ChargedFee(feeIn, amount, deal, rate)
             payFrom == <<o.user, from, Gives(o.side)>>
             getIn == <<o.user, "available", Gets(o.side)>>
             feeFrom == <<o.user, "available", feeIn>>
             paid == balance_sub(b, payFrom, pay)
             got == balance_add(paid, getIn, get)
             left == balance_sub(got, feeFrom, fee)
             charged == IF Covers(got, feeFrom, fee) THEN fee ELSE 0
  <1>1. /\ o.user \in Users /\ o.side \in Sides
        /\ feeIn \in Assets /\ Gives(o.side) \in Assets /\ Gets(o.side) \in Assets
    BY DEF Order, FeeIn, Assets, Gives, Gets, Sides
  <1>2. /\ payFrom \in BalanceKey /\ getIn \in BalanceKey /\ feeFrom \in BalanceKey
    BY <1>1 DEF BalanceKey, BalanceTypes
  <1>3. /\ StockUnits(amount) \in Nat /\ pay \in Nat /\ get \in Nat
    <2>1. StockUnits(amount) \in Nat
      BY MarketAssumption, ProductNat DEF StockUnits
    <2>2. QED
      BY <2>1 DEF PaysOf, GetsOf
  <1>4. /\ fee \in Nat /\ fee <= (IF feeIn = "money" THEN deal ELSE StockUnits(amount))
        /\ rate = 0 => fee = 0
    BY <1>1, FeeBound
  <1>5. paid \in Balances /\ got \in Balances /\ left \in Balances
    <2>1. paid \in Balances
      BY <1>1, <1>3, BalanceOpsType
    <2>2. got \in Balances
      BY <1>1, <1>3, <2>1, BalanceOpsType DEF BalanceTypes
    <2>3. QED
      BY <1>1, <1>4, <2>1, <2>2, BalanceOpsType DEF BalanceTypes
  <1>6. Settle(b, o, from, role, amount, deal, rate, bidFeeIn) =
          [balance |-> left, feeIn |-> feeIn, fee |-> charged,
           ignored |-> (IF Covers(b, payFrom, pay) THEN {} ELSE {<<role, "pay">>})
                       \cup (IF Covers(got, feeFrom, fee) THEN {}
                             ELSE {<<role, "fee">>})]
    BY DEF Settle, FeeIn, PaysOf, GetsOf
  <1>7. Covers(b, payFrom, pay)
    OBVIOUS
  <1> HIDE DEF pay, get, feeIn, fee, left, got, paid, payFrom, getIn, feeFrom
  <1>8. /\ charged \in Nat /\ charged <= fee
        /\ fee = 0 => Covers(got, feeFrom, fee)
    BY <1>2, <1>4, <1>5 DEF Covers, Balances
  <1>9. ASSUME NEW j \in BalanceKey
        PROVE  /\ left[j] = b[j] - (IF j = payFrom THEN pay ELSE 0)
                                 + (IF j = getIn THEN get ELSE 0)
                                 - (IF j = feeFrom THEN charged ELSE 0)
    <2>1. /\ b[j] \in Nat /\ paid[j] = b[j] - (IF j = payFrom THEN pay ELSE 0)
      BY <1>2, <1>3, <1>7, BalanceOpsAt DEF paid
    <2>2. got[j] = paid[j] + (IF j = getIn THEN get ELSE 0)
      BY <1>2, <1>3, <1>5, BalanceOpsAt DEF got
    <2>3. /\ got[j] \in Nat
          /\ Covers(got, feeFrom, fee) =>
                left[j] = got[j] - (IF j = feeFrom THEN fee ELSE 0)
          /\ ~Covers(got, feeFrom, fee) => left[j] = got[j]
      BY <1>2, <1>4, <1>5, BalanceOpsAt DEF left
    <2>4. left[j] = got[j] - (IF j = feeFrom THEN charged ELSE 0)
      BY <2>3
    <2>5. QED
      BY <1>3, <1>8, <2>1, <2>2, <2>3, <2>4
  <1>10. ASSUME NEW v \in Users, NEW c \in Assets
         PROVE  /\ left[<<v, "freeze", c>>] =
                     b[<<v, "freeze", c>>]
                     - (IF from = "freeze"
                        THEN OnlyFor(v, c, o.user, Gives(o.side), pay) ELSE 0)
                /\ left[<<v, "available", c>>] =
                     b[<<v, "available", c>>]
                     - (IF from = "available"
                        THEN OnlyFor(v, c, o.user, Gives(o.side), pay) ELSE 0)
                     + OnlyFor(v, c, o.user, Gets(o.side), get)
                     - OnlyFor(v, c, o.user, feeIn, charged)
    <2>1. <<v, "freeze", c>> \in BalanceKey /\ <<v, "available", c>> \in BalanceKey
      BY DEF BalanceKey, BalanceTypes
    <2>2. /\ (<<v, "freeze", c>> = payFrom) =
               (from = "freeze" /\ v = o.user /\ c = Gives(o.side))
          /\ (<<v, "available", c>> = payFrom) =
               (from = "available" /\ v = o.user /\ c = Gives(o.side))
          /\ <<v, "freeze", c>> # getIn /\ <<v, "freeze", c>> # feeFrom
          /\ (<<v, "available", c>> = getIn) = (v = o.user /\ c = Gets(o.side))
          /\ (<<v, "available", c>> = feeFrom) = (v = o.user /\ c = feeIn)
      BY DEF payFrom, getIn, feeFrom
    <2>3. b[<<v, "freeze", c>>] \in Nat /\ b[<<v, "available", c>>] \in Nat
      BY <2>1 DEF Balances
    <2>4. left[<<v, "freeze", c>>] = b[<<v, "freeze", c>>]
            - (IF from = "freeze" /\ v = o.user /\ c = Gives(o.side) THEN pay ELSE 0)
      BY <1>3, <1>9, <2>1, <2>2, <2>3
    <2>5. left[<<v, "available", c>>] = b[<<v, "available", c>>]
            - (IF from = "available" /\ v = o.user /\ c = Gives(o.side) THEN pay ELSE 0)
            + (IF v = o.user /\ c = Gets(o.side) THEN get ELSE 0)
            - (IF v = o.user /\ c = feeIn THEN charged ELSE 0)
      BY <1>9, <2>1, <2>2
    <2>6. QED
      BY <2>4, <2>5 DEF OnlyFor
  <1> DEFINE s == Settle(b, o, from, role, amount, deal, rate, bidFeeIn)
  <1>11. /\ s.balance = left /\ s.feeIn = feeIn /\ s.fee = charged
         /\ s.ignored = (IF Covers(got, feeFrom, fee) THEN {} ELSE {<<role, "fee">>})
    BY <1>6, <1>7
  <1> HIDE DEF s, charged
  <1>12. /\ s.feeIn = FeeIn(o.side, bidFeeIn)
         /\ s.fee \in Nat
         /\ s.fee <= (IF s.feeIn = "money" THEN deal ELSE StockUnits(amount))
         /\ s.ignored \subseteq {<<role, "fee">>}
         /\ rate = 0 => s.fee = 0 /\ s.ignored = {}
    <2>1. rate = 0 => charged = 0
      BY <1>4, <1>8
    <2>2. s.feeIn = FeeIn(o.side, bidFeeIn)
      BY <1>11 DEF feeIn
    <2>3. QED
      BY <1>3, <1>4, <1>8, <1>11, <2>1, <2>2
  <1>13. QED
    BY <1>10, <1>11, <1>12 DEF PaidInFull, s, pay, get

-------------------------------------------------------------------------------
(* What is frozen for a list of orders.                                    *)

(* Frozen, and what one order adds to it, as functions of the book.        *)
FrozenIn(os, list, u, a) ==
    [i \in {j \in list : os[j].user = u /\ Gives(os[j].side) = a} |-> FrozenUnits(os[i])]
FrozenFor(os, list, u, a, i) ==
    IF i \in list /\ os[i].user = u /\ Gives(os[i].side) = a
    THEN FrozenUnits(os[i]) ELSE 0

LEMMA FrozenUnitsNat ==
  ASSUME NEW o \in Order
  PROVE  FrozenUnits(o) \in Nat
  <1>1. o.freeze \in Nat /\ FeeDen \in Nat
    BY MarketAssumption DEF Order
  <1>2. QED
    BY <1>1, ProductNat DEF FrozenUnits, StockUnits

LEMMA FrozenInSums ==
  ASSUME NEW os, NEW list, list \subseteq OrderId, \A i \in list : os[i] \in Order,
         NEW u, NEW a
  PROVE  \E S : IsFiniteSet(S) /\ S \subseteq list /\ FrozenIn(os, list, u, a) \in [S -> Nat]
  <1> DEFINE S == {j \in list : os[j].user = u /\ Gives(os[j].side) = a}
  <1>1. IsFiniteSet(OrderId)
    <2>1. IsFiniteSet(1..MaxOrderId)
      BY MarketAssumption, FS_Interval
    <2>2. QED
      BY <2>1 DEF OrderId
  <1>2. IsFiniteSet(S)
    <2>1. S \subseteq OrderId
      OBVIOUS
    <2>2. QED
      BY <1>1, <2>1, FS_Subset
  <1>3. \A i \in S : FrozenUnits(os[i]) \in Nat
    BY FrozenUnitsNat
  <1>4. FrozenIn(os, list, u, a) \in [S -> Nat]
    BY <1>3 DEF FrozenIn
  <1>5. QED
    BY <1>2, <1>4

(* One order changes the sum by what changes of what is frozen for it.     *)
LEMMA FrozenChange ==
  ASSUME NEW os, NEW list, list \subseteq OrderId, \A i \in list : os[i] \in Order,
         NEW qs, NEW rest, rest \subseteq OrderId, \A i \in rest : qs[i] \in Order,
         NEW m, list \ {m} = rest \ {m}, \A i \in list \ {m} : qs[i] = os[i],
         NEW u, NEW a
  PROVE  /\ SumOf(FrozenIn(qs, rest, u, a)) = SumOf(FrozenIn(os, list, u, a))
                                              - FrozenFor(os, list, u, a, m)
                                              + FrozenFor(qs, rest, u, a, m)
         /\ SumOf(FrozenIn(os, list, u, a)) \in Nat
         /\ FrozenFor(os, list, u, a, m) \in Nat
         /\ FrozenFor(os, list, u, a, m) <= SumOf(FrozenIn(os, list, u, a))
  <1> DEFINE f == FrozenIn(os, list, u, a)
             g == FrozenIn(qs, rest, u, a)
  <1>1. PICK S : IsFiniteSet(S) /\ f \in [S -> Nat]
    BY FrozenInSums
  <1>2. PICK T : IsFiniteSet(T) /\ g \in [T -> Nat]
    BY FrozenInSums
  <1>3. /\ S = {j \in list : os[j].user = u /\ Gives(os[j].side) = a}
        /\ T = {j \in rest : qs[j].user = u /\ Gives(qs[j].side) = a}
    BY <1>1, <1>2 DEF FrozenIn
  <1>4. S \ {m} = T \ {m} /\ \A i \in S \ {m} : f[i] = g[i]
    BY <1>3 DEF FrozenIn
  <1>5. /\ At(f, m) = FrozenFor(os, list, u, a, m)
        /\ At(g, m) = FrozenFor(qs, rest, u, a, m)
    BY <1>1, <1>2, <1>3 DEF At, FrozenIn, FrozenFor
  <1> HIDE DEF f, g
  <1>6. /\ SumOf(g) = SumOf(f) - At(f, m) + At(g, m)
        /\ SumOf(f) \in Nat /\ At(f, m) \in Nat /\ At(f, m) <= SumOf(f)
    BY <1>1, <1>2, <1>4, SumChange
  <1>7. QED
    BY <1>5, <1>6 DEF f, g

(* The frozen balances of a state are backed by the book.                  *)
Backed(b, os, list) ==
    \A u \in Users, a \in Assets :
        b[<<u, "freeze", a>>] = SumOf(FrozenIn(os, list, u, a))

(* A resting order finds what it has frozen.                               *)
LEMMA FrozenIsThere ==
  ASSUME NEW b, NEW os, NEW list, list \subseteq OrderId, \A i \in list : os[i] \in Order,
         Backed(b, os, list), NEW m \in list
  PROVE  FrozenUnits(os[m]) <= b[<<os[m].user, "freeze", Gives(os[m].side)>>]
  <1>1. os[m].user \in Users /\ Gives(os[m].side) \in Assets
    BY DEF Order, Gives, Assets
  <1> DEFINE u == os[m].user
             a == Gives(os[m].side)
  <1>2. FrozenFor(os, list, u, a, m) = FrozenUnits(os[m])
    BY DEF FrozenFor
  <1>3. FrozenFor(os, list, u, a, m) <= SumOf(FrozenIn(os, list, u, a))
    BY FrozenChange
  <1>4. QED
    BY <1>1, <1>2, <1>3 DEF Backed

(* The balances stay backed if the frozen balance of one user changes by   *)
(* what changes of what one of his orders has frozen.                      *)
LEMMA StaysBacked ==
  ASSUME NEW b, NEW os, NEW list, list \subseteq OrderId, \A i \in list : os[i] \in Order,
         NEW c, NEW qs, NEW rest, rest \subseteq OrderId, \A i \in rest : qs[i] \in Order,
         Backed(b, os, list),
         NEW m, list \ {m} = rest \ {m}, \A i \in list \ {m} : qs[i] = os[i],
         \A u \in Users, a \in Assets :
            c[<<u, "freeze", a>>] = b[<<u, "freeze", a>>]
                                    - FrozenFor(os, list, u, a, m)
                                    + FrozenFor(qs, rest, u, a, m)
  PROVE  Backed(c, qs, rest)
  <1> SUFFICES ASSUME NEW u \in Users, NEW a \in Assets
               PROVE  c[<<u, "freeze", a>>] = SumOf(FrozenIn(qs, rest, u, a))
    BY DEF Backed
  <1>1. SumOf(FrozenIn(qs, rest, u, a)) = SumOf(FrozenIn(os, list, u, a))
                                          - FrozenFor(os, list, u, a, m)
                                          + FrozenFor(qs, rest, u, a, m)
    BY FrozenChange
  <1>2. QED
    BY <1>1 DEF Backed

LEMMA FundsAreBacked ==
  /\ (\A u \in Users, a \in Assets : balance[<<u, "freeze", a>>] = SumOf(Frozen(u, a)))
     <=> Backed(balance, orders, asks \cup bids)
  /\ (\A u \in Users, a \in Assets :
         balance'[<<u, "freeze", a>>] = SumOf(Frozen(u, a))')
     <=> Backed(balance', orders', asks' \cup bids')
  <1>1. \A u, a : Frozen(u, a) = FrozenIn(orders, asks \cup bids, u, a)
    BY DEF Frozen, Resting, FrozenIn
  <1>2. \A u, a : Frozen(u, a)' = FrozenIn(orders', asks' \cup bids', u, a)
    BY DEF Frozen, Resting, FrozenIn
  <1>3. QED
    BY <1>1, <1>2 DEF Backed

-------------------------------------------------------------------------------
(* A fee that was asked for stays known: an order that has dealt is in the *)
(* book, in the hands of its handler, or in the history.                   *)
LEMMA FeesRemembered ==
  MarketInv /\ [Next]_vars /\ NoFeeAsked' => NoFeeAsked
  <1> SUFFICES ASSUME MarketInv, [Next]_vars, NoFeeAsked'
               PROVE  NoFeeAsked
    OBVIOUS
  <1>0. \A o \in Known' : o.deal_stock > 0 => o.taker_fee = 0
    BY DEF NoFeeAsked, Known
  <1>1. ASSUME \A p \in Known : p.deal_stock > 0 => p.taker_fee = 0
        PROVE  NoFeeAsked
    BY <1>1 DEF NoFeeAsked, Known
  <1>2. ASSUME UNCHANGED <<orders, taker, order_history>>
        PROVE  NoFeeAsked
    <2>1. Known' = Known
      BY <1>2 DEF Known, LiveOrders, Idle
    <2>2. QED
      BY <1>0, <1>1, <2>1
  <1>3. ASSUME NEW r \in UpdateRequests, NEW padding \in Paddings,
               UpdateBalance(r, padding)
        PROVE  NoFeeAsked
    BY <1>2, <1>3 DEF UpdateBalance, book, history
  <1>4. ASSUME NEW type \in {"limit", "market"}, NEW side \in Sides, NEW u \in Users,
               NEW price \in Nat, NEW amount \in Nat \ {0}, NEW tfee \in Nat,
               NEW mfee \in Nat,
               ReceiveAllowed(type, side, u, price, amount, tfee, mfee)
        PROVE  NoFeeAsked
    <2>1. Idle /\ UNCHANGED <<orders, order_history>>
      BY <1>4 DEF ReceiveAllowed, Receive, book, history
    <2>2. Known \subseteq Known'
      BY <2>1 DEF Known, LiveOrders
    <2>3. QED
      BY <1>0, <1>1, <2>2
  <1>5. ASSUME NEW u \in Users, NEW i \in DOMAIN orders, CancelOrder(u, i)
        PROVE  NoFeeAsked
    BY <1>0, <1>1, <1>5, CancelKnown
  <1>6. ASSUME NEW m, NEW amount, NEW bidFeeIn \in Assets,
               DealAllowed(m, amount), MakeDeal(m, amount, bidFeeIn)
        PROVE  NoFeeAsked
    <2>1. /\ TypeOK /\ HistoryOnce /\ ~Idle /\ amount \in Nat \ {0}
          /\ IsFirst(m, Opposite(taker.side))
      BY <1>6 DEF MarketInv, DealAllowed
    <2>2. /\ m \in DOMAIN orders /\ orders[m] \in Order /\ taker \in Order
          /\ orders[m].deal_stock \in Nat /\ taker.deal_stock \in Nat
      BY <2>1 DEF IsFirst, Opposite, TypeOK, NoTaker, Idle, Order
    <2>3. PICK a, b \in Known' :
             /\ a.deal_stock = taker.deal_stock + amount
             /\ a.taker_fee = taker.taker_fee
             /\ b.deal_stock = orders[m].deal_stock + amount
             /\ b.taker_fee = orders[m].taker_fee
             /\ \A p \in Known : p.id \notin {taker.id, m} => p \in Known'
      BY <1>6, DealFills
    <2>4. taker.taker_fee = 0 /\ orders[m].taker_fee = 0
      BY <1>0, <2>1, <2>2, <2>3
    <2>5. \A p \in Known : p.id \in {taker.id, m} => p = taker \/ p = orders[m]
      BY <2>1, <2>2 DEF Known, LiveOrders, HistoryOnce, TypeOK
    <2>6. QED
      BY <1>0, <1>1, <2>3, <2>4, <2>5
  <1>7. ASSUME FinishTaker
        PROVE  NoFeeAsked
    <2>1. /\ ~Idle /\ order_history' = order_history \cup {taker}
          /\ UNCHANGED orders
      BY <1>7 DEF FinishTaker, book
    <2>2. Known \subseteq Known'
      BY <2>1 DEF Known, LiveOrders
    <2>3. QED
      BY <1>0, <1>1, <2>2
  <1>8. ASSUME RestLimitOrder
        PROVE  NoFeeAsked
    <2>1. PICK o \in Known' :
             /\ o.deal_stock = taker.deal_stock /\ o.taker_fee = taker.taker_fee
             /\ Known \subseteq Known' \cup {taker}
      BY <1>8, RestKnown
    <2>2. QED
      BY <1>0, <1>1, <2>1
  <1>9. ASSUME UNCHANGED vars PROVE NoFeeAsked
    BY <1>2, <1>9 DEF vars, book, history
  <1>10. QED
    BY <1>3, <1>4, <1>5, <1>6, <1>7, <1>8, <1>9, StepKinds

-------------------------------------------------------------------------------
(* The steps that are not deals.                                           *)

(* FundsBacked after a step, from its parts.                               *)
LEMMA FundsBackedNext ==
  ASSUME Backed(balance', orders', asks' \cup bids'),
         ignored' \subseteq {<<"maker", "fee">>},
         DOMAIN orders' = asks' \cup bids',
         ~Idle' => (Covers(balance, <<taker.user, "available", Gives(taker.side)>>,
                           Required))'
  PROVE  FundsBacked'
  BY FundsAreBacked DEF FundsBacked

(* The book as FrozenChange and its corollaries want it.                   *)
LEMMA BookTyped ==
  /\ TypeOK => /\ asks \cup bids \subseteq OrderId
               /\ \A i \in asks \cup bids : orders[i] \in Order
  /\ TypeOK' => /\ asks' \cup bids' \subseteq OrderId
                /\ \A i \in asks' \cup bids' : orders'[i] \in Order
  BY DEF TypeOK

(* A step that moves available funds only, while no handler is running.    *)
LEMMA UpdateFunds ==
  ASSUME MarketInv, FundsBacked, NEW r \in UpdateRequests, NEW padding \in Paddings,
         UpdateBalance(r, padding)
  PROVE  /\ FundsBacked'
         /\ \A u \in Users, a \in Assets :
               balance_total(balance', u, a) =
               balance_total(balance, u, a) + OnlyFor(u, a, r.user, r.asset, r.change)
  <1>1. /\ TypeOK /\ balance \in Balances /\ Idle
        /\ UNCHANGED <<orders, asks, bids, taker, ignored>>
    BY DEF MarketInv, TypeOK, UpdateBalance, book, ghosts
  <1>2. /\ r.user \in Users /\ r.asset \in Assets /\ r.change \in Int
    BY MarketAssumption
  <1> DEFINE k == <<r.user, "available", r.asset>>
  <1>3. k \in BalanceKey
    BY <1>2 DEF BalanceKey, BalanceTypes
  <1>4. \A j \in BalanceKey :
           /\ balance'[j] = balance[j] + (IF j = k THEN r.change ELSE 0)
           /\ balance[j] \in Nat
    <2> TAKE j \in BalanceKey
    <2>1. CASE r.change >= 0
      <3>1. balance' = balance_add(balance, k, r.change) /\ r.change \in Nat
        BY <1>2, <2>1 DEF UpdateBalance
      <3>2. QED
        BY <1>1, <1>3, <3>1, BalanceOpsAt
    <2>2. CASE r.change < 0
      <3>1. /\ balance' = balance_sub(balance, k, -r.change) /\ -r.change \in Nat
            /\ Covers(balance, k, -r.change)
        BY <1>2, <2>2 DEF UpdateBalance
      <3>2. /\ balance'[j] = balance[j] - (IF j = k THEN -r.change ELSE 0)
            /\ balance[j] \in Nat
        BY <1>1, <1>3, <3>1, BalanceOpsAt
      <3>3. QED
        BY <1>2, <3>2
    <2>3. QED
      BY <1>2, <2>1, <2>2
  <1>5. ASSUME NEW u \in Users, NEW a \in Assets
        PROVE  /\ balance'[<<u, "freeze", a>>] = balance[<<u, "freeze", a>>]
               /\ balance'[<<u, "available", a>>] =
                    balance[<<u, "available", a>>]
                    + OnlyFor(u, a, r.user, r.asset, r.change)
               /\ balance[<<u, "freeze", a>>] \in Nat
               /\ balance[<<u, "available", a>>] \in Nat
    <2>1. <<u, "freeze", a>> \in BalanceKey /\ <<u, "available", a>> \in BalanceKey
      BY DEF BalanceKey, BalanceTypes
    <2>2. /\ <<u, "freeze", a>> # k
          /\ (<<u, "available", a>> = k) = (u = r.user /\ a = r.asset)
      OBVIOUS
    <2> HIDE DEF k
    <2>3. QED
      BY <1>4, <2>1, <2>2 DEF OnlyFor
  <1>6. Backed(balance', orders', asks' \cup bids')
    BY <1>1, <1>5, FundsAreBacked DEF FundsBacked, Backed
  <1>7. Idle'
    BY <1>1 DEF Idle
  <1>8. FundsBacked'
    BY <1>1, <1>6, <1>7, FundsBackedNext DEF FundsBacked
  <1>9. ASSUME NEW u \in Users, NEW a \in Assets
        PROVE  balance_total(balance', u, a) =
               balance_total(balance, u, a) + OnlyFor(u, a, r.user, r.asset, r.change)
    <2>1. OnlyFor(u, a, r.user, r.asset, r.change) \in Int
      BY <1>2 DEF OnlyFor
    <2>2. QED
      BY <1>5, <2>1 DEF balance_total
  <1>10. QED
    BY <1>8, <1>9

LEMMA ReceiveFunds ==
  ASSUME MarketInv, FundsBacked,
         NEW type \in {"limit", "market"}, NEW side \in Sides, NEW u \in Users,
         NEW price \in Nat, NEW amount \in Nat \ {0}, NEW tfee \in Nat, NEW mfee \in Nat,
         ReceiveAllowed(type, side, u, price, amount, tfee, mfee)
  PROVE  FundsBacked'
  <1> DEFINE o == NewOrder(type, side, u, price, amount, tfee, mfee)
  <1>1. /\ taker' = o /\ UNCHANGED <<balance, orders, asks, bids, ignored>>
    BY DEF ReceiveAllowed, Receive, funds, book, ghosts
  <1>2. /\ o.user = u /\ o.side = side /\ o.type = type /\ o.left = amount
        /\ o.price = price
    BY DEF NewOrder
  <1> HIDE DEF o
  <1>3. Backed(balance', orders', asks' \cup bids')
    BY <1>1, FundsAreBacked DEF FundsBacked
  <1>4. (Covers(balance, <<taker.user, "available", Gives(taker.side)>>, Required))'
    BY <1>1, <1>2 DEF ReceiveAllowed, Covers, Required
  <1>5. QED
    BY <1>1, <1>3, <1>4, FundsBackedNext DEF FundsBacked

LEMMA FinishTakerFunds ==
  ASSUME MarketInv, FundsBacked, FinishTaker
  PROVE  FundsBacked'
  <1>1. /\ taker' = NoTaker /\ UNCHANGED <<balance, orders, asks, bids, ignored>>
    BY DEF FinishTaker, funds, book, ghosts
  <1>2. Idle'
    BY <1>1 DEF Idle, NoTaker
  <1>3. Backed(balance', orders', asks' \cup bids')
    BY <1>1, FundsAreBacked DEF FundsBacked
  <1>4. QED
    BY <1>1, <1>2, <1>3, FundsBackedNext DEF FundsBacked

(* A cancelled order gets back what it has frozen, which is there.         *)
LEMMA CancelFunds ==
  ASSUME MarketInv, MarketInv', FundsBacked,
         NEW u \in Users, NEW i \in DOMAIN orders, CancelOrder(u, i)
  PROVE  /\ FundsBacked'
         /\ \A v \in Users, c \in Assets :
               balance_total(balance', v, c) = balance_total(balance, v, c)
  <1> DEFINE o == orders[i]
  <1>1. /\ TypeOK /\ TypeOK' /\ balance \in Balances /\ Idle
        /\ o \in Order /\ o.id = i /\ i \in asks \cup bids
        /\ o.user \in Users /\ Gives(o.side) \in Assets
    BY DEF MarketInv, TypeOK, CancelOrder, FundsBacked, Order, Gives, Assets
  <1>2. FrozenUnits(o) \in Nat /\ Backed(balance, orders, asks \cup bids)
    BY <1>1, FrozenUnitsNat, FundsAreBacked DEF FundsBacked
  <1>3. /\ asks \cup bids \subseteq OrderId
        /\ \A j \in asks \cup bids : orders[j] \in Order
        /\ asks' \cup bids' \subseteq OrderId
        /\ \A j \in asks' \cup bids' : orders'[j] \in Order
    BY <1>1, BookTyped
  <1>4. Covers(balance, <<o.user, "freeze", Gives(o.side)>>, FrozenUnits(o))
    <2>1. FrozenUnits(o) <= balance[<<o.user, "freeze", Gives(o.side)>>]
      BY <1>1, <1>2, <1>3, FrozenIsThere
    <2>2. balance[<<o.user, "freeze", Gives(o.side)>>] \in Nat
      BY <1>1, EntryKeys DEF Balances
    <2>3. QED
      BY <1>2, <2>1, <2>2 DEF Covers
  <1>5. /\ asks' = asks \ {i} /\ bids' = bids \ {i}
        /\ orders' = Without(orders, i)
        /\ balance' = balance_unfreeze(balance, o.user, Gives(o.side), FrozenUnits(o))
        /\ ignored' = ignored /\ taker' = taker
    BY <1>1, <1>4 DEF CancelOrder, order_finish, Releases, FinishRefusal
  <1>6. \A j \in (asks \cup bids) \ {i} : orders'[j] = orders[j]
    BY <1>1, <1>5 DEF Without, FundsBacked
  <1>7. \A v \in Users, c \in Assets :
           /\ FrozenFor(orders, asks \cup bids, v, c, i) =
                OnlyFor(v, c, o.user, Gives(o.side), FrozenUnits(o))
           /\ FrozenFor(orders', asks' \cup bids', v, c, i) = 0
    BY <1>1, <1>5 DEF FrozenFor, OnlyFor
  <1> HIDE DEF o
  <1>8. ASSUME NEW v \in Users, NEW c \in Assets
        PROVE  /\ balance'[<<v, "freeze", c>>] =
                    balance[<<v, "freeze", c>>]
                    - OnlyFor(v, c, o.user, Gives(o.side), FrozenUnits(o))
               /\ balance'[<<v, "available", c>>] =
                    balance[<<v, "available", c>>]
                    + OnlyFor(v, c, o.user, Gives(o.side), FrozenUnits(o))
               /\ balance[<<v, "freeze", c>>] \in Nat
               /\ balance[<<v, "available", c>>] \in Nat
               /\ OnlyFor(v, c, o.user, Gives(o.side), FrozenUnits(o)) \in Nat
    <2> DEFINE x == FrozenUnits(o)
               a == Gives(o.side)
    <2>1. o.user \in Users /\ a \in Assets /\ x \in Nat
      BY <1>1, <1>2
    <2>2. Covers(balance, <<o.user, "freeze", a>>, x)
      BY <1>4
    <2>3. balance' = balance_unfreeze(balance, o.user, a, x)
      BY <1>5
    <2> HIDE DEF x, a
    <2>4. QED
      BY <1>1, <2>1, <2>2, <2>3, UnfreezeAt DEF x, a
  <1>9. Backed(balance', orders', asks' \cup bids')
    <2>1. \A v \in Users, c \in Assets :
             balance'[<<v, "freeze", c>>] =
               balance[<<v, "freeze", c>>]
               - FrozenFor(orders, asks \cup bids, v, c, i)
               + FrozenFor(orders', asks' \cup bids', v, c, i)
      <3> TAKE v \in Users, c \in Assets
      <3>1. /\ FrozenFor(orders, asks \cup bids, v, c, i) =
                 OnlyFor(v, c, o.user, Gives(o.side), FrozenUnits(o))
            /\ FrozenFor(orders', asks' \cup bids', v, c, i) = 0
        BY <1>7
      <3>2. /\ balance'[<<v, "freeze", c>>] =
                 balance[<<v, "freeze", c>>]
                 - OnlyFor(v, c, o.user, Gives(o.side), FrozenUnits(o))
            /\ balance[<<v, "freeze", c>>] \in Nat
            /\ OnlyFor(v, c, o.user, Gives(o.side), FrozenUnits(o)) \in Nat
        BY <1>8
      <3>3. QED
        BY <3>1, <3>2
    <2>2. (asks \cup bids) \ {i} = (asks' \cup bids') \ {i}
      BY <1>5
    <2> DEFINE list == asks \cup bids
               rest == asks' \cup bids'
    <2>3. /\ list \subseteq OrderId /\ \A j \in list : orders[j] \in Order
          /\ rest \subseteq OrderId /\ \A j \in rest : orders'[j] \in Order
          /\ Backed(balance, orders, list)
          /\ list \ {i} = rest \ {i} /\ \A j \in list \ {i} : orders'[j] = orders[j]
          /\ \A v \in Users, c \in Assets :
                balance'[<<v, "freeze", c>>] = balance[<<v, "freeze", c>>]
                                               - FrozenFor(orders, list, v, c, i)
                                               + FrozenFor(orders', rest, v, c, i)
      BY <1>2, <1>3, <1>6, <2>1, <2>2
    <2> HIDE DEF list, rest
    <2>4. Backed(balance', orders', rest)
      BY <2>3, StaysBacked
    <2>5. QED
      BY <2>4 DEF rest
  <1>10. DOMAIN orders' = asks' \cup bids'
    BY <1>5 DEF Without, FundsBacked
  <1>11. Idle'
    BY <1>1, <1>5 DEF Idle
  <1>12. FundsBacked'
    BY <1>5, <1>9, <1>10, <1>11, FundsBackedNext DEF FundsBacked
  <1>13. \A v \in Users, c \in Assets :
            balance_total(balance', v, c) = balance_total(balance, v, c)
    <2> TAKE v \in Users, c \in Assets
    <2> DEFINE x == OnlyFor(v, c, o.user, Gives(o.side), FrozenUnits(o))
    <2>1. /\ balance'[<<v, "freeze", c>>] = balance[<<v, "freeze", c>>] - x
          /\ balance'[<<v, "available", c>>] = balance[<<v, "available", c>>] + x
          /\ balance[<<v, "freeze", c>>] \in Nat
          /\ balance[<<v, "available", c>>] \in Nat
          /\ x \in Nat
      BY <1>8
    <2> HIDE DEF x
    <2>2. QED
      BY <2>1 DEF balance_total
  <1>14. QED
    BY <1>12, <1>13

(* The rest of an order is frozen, out of what was checked to be there.    *)
LEMMA RestFunds ==
  ASSUME MarketInv, MarketInv', FundsBacked, RestLimitOrder
  PROVE  /\ FundsBacked'
         /\ \A v \in Users, c \in Assets :
               balance_total(balance', v, c) = balance_total(balance, v, c)
  <1> DEFINE o == [taker EXCEPT !.freeze = ToFreeze(taker)]
  <1>1. /\ TypeOK /\ TypeOK' /\ HistoryOnce /\ balance \in Balances
        /\ ~Idle /\ taker.type = "limit"
        /\ orders' = With(orders, o.id, o)
        /\ asks' = IF o.side = "ask" THEN asks \cup {o.id} ELSE asks
        /\ bids' = IF o.side = "bid" THEN bids \cup {o.id} ELSE bids
        /\ balance' = balance_freeze(balance, o.user, Gives(o.side), FrozenUnits(o))
        /\ ignored' = IF Covers(balance, <<o.user, "available", Gives(o.side)>>,
                                FrozenUnits(o))
                      THEN ignored ELSE ignored \cup {<<"order_put", "freeze">>}
        /\ taker' = NoTaker
    BY DEF MarketInv, TypeOK, RestLimitOrder
  <1>2. /\ taker \in Order /\ taker.side \in Sides /\ taker.user \in Users
        /\ taker.price \in Nat /\ taker.left \in Nat
    BY <1>1 DEF TypeOK, NoTaker, Idle, Order
  <1>3. /\ o.id = taker.id /\ o.side = taker.side /\ o.user = taker.user
        /\ o.freeze = ToFreeze(taker)
    BY <1>2 DEF Order
  <1>4. /\ o.user \in Users /\ Gives(o.side) \in Assets /\ o.side \in Sides
        /\ FrozenUnits(o) = Required
        /\ o.id \notin DOMAIN orders
    BY <1>1, <1>2, <1>3 DEF Gives, Assets, FrozenUnits, Required, ToFreeze, HistoryOnce
  <1>5. Covers(balance, <<o.user, "available", Gives(o.side)>>, FrozenUnits(o))
    BY <1>1, <1>3, <1>4 DEF FundsBacked
  <1> HIDE DEF o
  <1>6. /\ DOMAIN orders' = DOMAIN orders \cup {o.id} /\ orders'[o.id] = o
        /\ \A j \in DOMAIN orders : orders'[j] = orders[j]
        /\ asks' \cup bids' = asks \cup bids \cup {o.id}
    BY <1>1, <1>4 DEF With, Sides
  <1>7. /\ asks \cup bids \subseteq OrderId
        /\ \A j \in asks \cup bids : orders[j] \in Order
        /\ asks' \cup bids' \subseteq OrderId
        /\ \A j \in asks' \cup bids' : orders'[j] \in Order
    BY <1>1, BookTyped
  <1>8. FrozenUnits(o) \in Nat /\ o.id \notin asks \cup bids
    <2>1. o \in Order
      BY <1>6, <1>7
    <2>2. QED
      BY <1>1, <1>4, <2>1, FrozenUnitsNat DEF TypeOK
  <1>9. ASSUME NEW v \in Users, NEW c \in Assets
        PROVE  /\ balance'[<<v, "freeze", c>>] =
                    balance[<<v, "freeze", c>>]
                    + OnlyFor(v, c, o.user, Gives(o.side), FrozenUnits(o))
               /\ balance'[<<v, "available", c>>] =
                    balance[<<v, "available", c>>]
                    - OnlyFor(v, c, o.user, Gives(o.side), FrozenUnits(o))
               /\ balance[<<v, "freeze", c>>] \in Nat
               /\ balance[<<v, "available", c>>] \in Nat
               /\ OnlyFor(v, c, o.user, Gives(o.side), FrozenUnits(o)) \in Nat
    <2> DEFINE x == FrozenUnits(o)
               a == Gives(o.side)
    <2>1. balance \in Balances /\ o.user \in Users /\ a \in Assets /\ x \in Nat
      BY <1>1, <1>4, <1>8
    <2>2. Covers(balance, <<o.user, "available", a>>, x)
      BY <1>5
    <2>3. balance' = balance_freeze(balance, o.user, a, x)
      BY <1>1
    <2>4. /\ balance_freeze(balance, o.user, a, x)[<<v, "freeze", c>>] =
               balance[<<v, "freeze", c>>] + OnlyFor(v, c, o.user, a, x)
          /\ balance_freeze(balance, o.user, a, x)[<<v, "available", c>>] =
               balance[<<v, "available", c>>] - OnlyFor(v, c, o.user, a, x)
          /\ balance[<<v, "freeze", c>>] \in Nat /\ balance[<<v, "available", c>>] \in Nat
          /\ OnlyFor(v, c, o.user, a, x) \in Nat
      <3> HIDE DEF x, a, o
      <3>1. QED
        BY <2>1, <2>2, FreezeAt
    <2>5. QED
      BY <2>3, <2>4
  <1>10. \A v \in Users, c \in Assets :
            /\ FrozenFor(orders, asks \cup bids, v, c, o.id) = 0
            /\ FrozenFor(orders', asks' \cup bids', v, c, o.id) =
                 OnlyFor(v, c, o.user, Gives(o.side), FrozenUnits(o))
    BY <1>6, <1>8 DEF FrozenFor, OnlyFor
  <1>11. Backed(balance', orders', asks' \cup bids')
    <2>1. \A v \in Users, c \in Assets :
             balance'[<<v, "freeze", c>>] =
               balance[<<v, "freeze", c>>]
               - FrozenFor(orders, asks \cup bids, v, c, o.id)
               + FrozenFor(orders', asks' \cup bids', v, c, o.id)
      <3> TAKE v \in Users, c \in Assets
      <3>1. /\ FrozenFor(orders, asks \cup bids, v, c, o.id) = 0
            /\ FrozenFor(orders', asks' \cup bids', v, c, o.id) =
                 OnlyFor(v, c, o.user, Gives(o.side), FrozenUnits(o))
        BY <1>10
      <3>2. /\ balance'[<<v, "freeze", c>>] =
                 balance[<<v, "freeze", c>>]
                 + OnlyFor(v, c, o.user, Gives(o.side), FrozenUnits(o))
            /\ balance[<<v, "freeze", c>>] \in Nat
            /\ OnlyFor(v, c, o.user, Gives(o.side), FrozenUnits(o)) \in Nat
        BY <1>9
      <3>3. QED
        BY <3>1, <3>2
    <2>2. (asks \cup bids) \ {o.id} = (asks' \cup bids') \ {o.id}
      BY <1>6
    <2>3. \A j \in (asks \cup bids) \ {o.id} : orders'[j] = orders[j]
      BY <1>1, <1>6 DEF TypeOK
    <2>4. Backed(balance, orders, asks \cup bids)
      BY FundsAreBacked DEF FundsBacked
    <2> DEFINE list == asks \cup bids
               rest == asks' \cup bids'
    <2>5. /\ list \subseteq OrderId /\ \A j \in list : orders[j] \in Order
          /\ rest \subseteq OrderId /\ \A j \in rest : orders'[j] \in Order
          /\ Backed(balance, orders, list)
          /\ list \ {o.id} = rest \ {o.id}
          /\ \A j \in list \ {o.id} : orders'[j] = orders[j]
          /\ \A v \in Users, c \in Assets :
                balance'[<<v, "freeze", c>>] = balance[<<v, "freeze", c>>]
                                               - FrozenFor(orders, list, v, c, o.id)
                                               + FrozenFor(orders', rest, v, c, o.id)
      BY <1>7, <2>1, <2>2, <2>3, <2>4
    <2> HIDE DEF list, rest
    <2>6. Backed(balance', orders', rest)
      BY <2>5, StaysBacked
    <2>7. QED
      BY <2>6 DEF rest
  <1>12. Idle' /\ ignored' = ignored /\ DOMAIN orders' = asks' \cup bids'
    BY <1>1, <1>5, <1>6 DEF Idle, NoTaker, FundsBacked
  <1>13. FundsBacked'
    BY <1>11, <1>12, FundsBackedNext DEF FundsBacked
  <1>14. \A v \in Users, c \in Assets :
            balance_total(balance', v, c) = balance_total(balance, v, c)
    <2> TAKE v \in Users, c \in Assets
    <2> DEFINE x == OnlyFor(v, c, o.user, Gives(o.side), FrozenUnits(o))
    <2>1. /\ balance'[<<v, "freeze", c>>] = balance[<<v, "freeze", c>>] + x
          /\ balance'[<<v, "available", c>>] = balance[<<v, "available", c>>] - x
          /\ balance[<<v, "freeze", c>>] \in Nat
          /\ balance[<<v, "available", c>>] \in Nat
          /\ x \in Nat
      BY <1>9
    <2> HIDE DEF x
    <2>2. QED
      BY <2>1 DEF balance_total
  <1>15. QED
    BY <1>13, <1>14

-------------------------------------------------------------------------------
(* A deal.                                                                 *)

(* What the taker and the maker of a deal give each other.                 *)
TakerPays(m, amount) == PaysOf(taker.side, amount, orders[m].price * amount)
MakerPays(m, amount) == PaysOf(orders[m].side, amount, orders[m].price * amount)

(* What the two sides of a deal are to each other, and that both find what *)
(* they have to pay: the taker because of what is required for the rest of *)
(* his order, the maker because it is frozen.                              *)
LEMMA DealPaid ==
  ASSUME MarketInv, FundsBacked, NEW m, NEW amount, DealAllowed(m, amount)
  PROVE  /\ TypeOK /\ ~Idle /\ amount \in Nat /\ orders[m].price * amount \in Nat
         /\ m \in asks \cup bids /\ m \in DOMAIN orders
         /\ taker \in Order /\ orders[m] \in Order /\ orders[m].id = m
         /\ Gives(taker.side) \in Assets /\ Gets(taker.side) \in Assets
         /\ Gives(taker.side) # Gets(taker.side)
         /\ Gives(orders[m].side) = Gets(taker.side)
         /\ Gets(orders[m].side) = Gives(taker.side)
         /\ taker.side \in Sides
         /\ orders[m].side = (IF taker.side = "ask" THEN "bid" ELSE "ask")
         /\ GetsOf(taker.side, amount, orders[m].price * amount) = MakerPays(m, amount)
         /\ GetsOf(orders[m].side, amount, orders[m].price * amount) = TakerPays(m, amount)
         /\ StockUnits(amount) \in Nat
         /\ TakerPays(m, amount) \in Nat /\ MakerPays(m, amount) \in Nat
         /\ Required \in Nat
         /\ TakerPays(m, amount) <= Required
         /\ MakerPays(m, amount) <= FrozenUnits(orders[m])
         /\ TakerPays(m, amount) <=
              balance[<<taker.user, "available", Gives(taker.side)>>]
         /\ MakerPays(m, amount) <=
              balance[<<orders[m].user, "freeze", Gets(taker.side)>>]
  <1> DEFINE deal == orders[m].price * amount
             maker == orders[m]
  <1>1. /\ TypeOK /\ IndexesAgree /\ OrderAccounting /\ ~Idle
        /\ IsFirst(m, Opposite(taker.side))
        /\ amount \in Nat \ {0} /\ amount <= maker.left
        /\ IF taker.type = "market" /\ taker.side = "bid"
           THEN deal <= taker.left ELSE amount <= taker.left
        /\ taker.type = "limit" /\ taker.side = "bid" => taker.price >= maker.price
    BY DEF MarketInv, DealAllowed
  <1>2. /\ m \in asks \cup bids /\ m \in DOMAIN orders
        /\ maker \in Order /\ maker.id = m /\ taker \in Order
        /\ Accounted(maker)
    BY <1>1 DEF IsFirst, Opposite, TypeOK, NoTaker, Idle, OrderAccounting
  <1>3. /\ taker.side \in Sides /\ taker.type \in {"limit", "market"}
        /\ maker.side = (IF taker.side = "ask" THEN "bid" ELSE "ask")
        /\ maker.price \in Nat /\ maker.left \in Nat /\ taker.left \in Nat
        /\ taker.price \in Nat /\ FeeDen \in Nat
        /\ taker.user \in Users /\ maker.user \in Users
    BY <1>1, <1>2, MarketAssumption DEF IsFirst, Opposite, IndexesAgree, Order, Sides
  <1>4. deal \in Nat /\ StockUnits(amount) \in Nat
    BY <1>1, <1>3, ProductNat DEF StockUnits
  <1>5. /\ Gives(taker.side) \in Assets /\ Gets(taker.side) \in Assets
        /\ Gives(taker.side) # Gets(taker.side)
        /\ Gives(maker.side) = Gets(taker.side)
        /\ Gets(maker.side) = Gives(taker.side)
        /\ GetsOf(taker.side, amount, deal) = MakerPays(m, amount)
        /\ GetsOf(maker.side, amount, deal) = TakerPays(m, amount)
    BY <1>3 DEF Gives, Gets, Assets, Sides, GetsOf, PaysOf, MakerPays, TakerPays
  <1>6. TakerPays(m, amount) \in Nat /\ MakerPays(m, amount) \in Nat
    BY <1>4 DEF PaysOf, MakerPays, TakerPays
  <1>7. Required \in Nat /\ TakerPays(m, amount) <= Required
    <2>1. CASE taker.side = "ask"
      <3>1. amount * FeeDen <= taker.left * FeeDen /\ taker.left * FeeDen \in Nat
        BY <1>1, <1>3, <2>1, ProductMonotone, ProductNat
      <3>2. QED
        BY <2>1, <3>1 DEF Required, StockUnits, TakerPays, PaysOf
    <2>2. CASE taker.side = "bid" /\ taker.type = "market"
      BY <1>1, <1>3, <2>2 DEF Required, TakerPays, PaysOf
    <2>3. CASE taker.side = "bid" /\ taker.type = "limit"
      <3>1. amount <= taker.left /\ maker.price <= taker.price
        BY <1>1, <1>3, <2>3
      <3>2. /\ deal <= taker.price * amount
            /\ taker.price * amount <= taker.price * taker.left
            /\ taker.price * amount \in Nat /\ taker.price * taker.left \in Nat
        BY <1>1, <1>3, <3>1, ProductMonotone, ProductNat
      <3> HIDE DEF deal
      <3>3. deal <= taker.price * taker.left
        BY <1>4, <3>2
      <3>4. QED
        BY <2>3, <3>2, <3>3 DEF Required, TakerPays, PaysOf, deal
    <2>4. QED
      BY <1>3, <2>1, <2>2, <2>3 DEF Sides
  <1>8. MakerPays(m, amount) <= FrozenUnits(maker) /\ FrozenUnits(maker) \in Nat
    <2>1. FrozenUnits(maker) \in Nat
      BY <1>2, FrozenUnitsNat
    <2>2. CASE maker.side = "ask"
      <3>1. amount * FeeDen <= maker.left * FeeDen
        BY <1>1, <1>3, ProductMonotone
      <3>2. maker.freeze = maker.left
        BY <1>2, <2>2 DEF Accounted
      <3>3. QED
        BY <2>1, <2>2, <3>1, <3>2 DEF FrozenUnits, StockUnits, MakerPays, PaysOf
    <2>3. CASE maker.side = "bid"
      <3>1. maker.price * amount <= maker.price * maker.left
        BY <1>1, <1>3, ProductMonotone
      <3>2. maker.freeze = maker.price * maker.left
        BY <1>2, <2>3 DEF Accounted
      <3>3. QED
        BY <2>1, <2>3, <3>1, <3>2 DEF FrozenUnits, MakerPays, PaysOf
    <2>4. QED
      BY <1>3, <2>1, <2>2, <2>3
  <1>9. TakerPays(m, amount) <= balance[<<taker.user, "available", Gives(taker.side)>>]
    <2>1. balance[<<taker.user, "available", Gives(taker.side)>>] \in Nat
      <3>1. <<taker.user, "available", Gives(taker.side)>> \in BalanceKey
        BY <1>3, <1>5 DEF BalanceKey, BalanceTypes
      <3>2. balance \in [BalanceKey -> Nat]
        BY <1>1 DEF TypeOK, Balances
      <3>3. QED
        BY <3>1, <3>2
    <2>2. balance[<<taker.user, "available", Gives(taker.side)>>] >= Required
      BY <1>1 DEF FundsBacked, Covers
    <2>3. QED
      BY <1>6, <1>7, <2>1, <2>2
  <1>10. MakerPays(m, amount) <= balance[<<maker.user, "freeze", Gets(taker.side)>>]
    <2>1. balance[<<maker.user, "freeze", Gets(taker.side)>>] \in Nat
      <3>1. <<maker.user, "freeze", Gets(taker.side)>> \in BalanceKey
        BY <1>3, <1>5 DEF BalanceKey, BalanceTypes
      <3>2. balance \in [BalanceKey -> Nat]
        BY <1>1 DEF TypeOK, Balances
      <3>3. QED
        BY <3>1, <3>2
    <2>2. FrozenUnits(maker) <= balance[<<maker.user, "freeze", Gives(maker.side)>>]
      <3>1. Backed(balance, orders, asks \cup bids)
        BY FundsAreBacked DEF FundsBacked
      <3>2. /\ asks \cup bids \subseteq OrderId
            /\ \A j \in asks \cup bids : orders[j] \in Order
        BY <1>1, BookTyped
      <3>3. QED
        BY <1>2, <3>1, <3>2, FrozenIsThere
    <2>3. QED
      BY <1>5, <1>6, <1>8, <2>1, <2>2
  <1>11. QED
    BY <1>1, <1>2, <1>3, <1>4, <1>5, <1>6, <1>7, <1>8, <1>9, <1>10

(* What a maker has frozen shrinks by what he pays, to nothing when he is  *)
(* finished.                                                               *)
LEMMA FilledMakerFrozen ==
  ASSUME MarketInv, NEW m, NEW amount, NEW fee \in Nat, DealAllowed(m, amount)
  PROVE  LET o == FilledMaker(m, amount, fee)
         IN /\ o.user = orders[m].user /\ o.side = orders[m].side
            /\ o.id = m /\ o \in Order
            /\ o.maker_fee = orders[m].maker_fee
            /\ FrozenUnits(o) = FrozenUnits(orders[m]) - MakerPays(m, amount)
            /\ o.left = 0 => FrozenUnits(o) = 0
  <1> DEFINE maker == orders[m]
             deal == maker.price * amount
             o == FilledMaker(m, amount, fee)
  <1>1. /\ TypeOK /\ OrderAccounting /\ IsFirst(m, Opposite(taker.side))
        /\ amount \in Nat /\ amount <= maker.left
    BY DEF MarketInv, DealAllowed
  <1>2. maker \in Order /\ Accounted(maker)
    BY <1>1 DEF IsFirst, Opposite, TypeOK, OrderAccounting
  <1>3. /\ maker.side \in Sides /\ maker.price \in Nat /\ maker.left \in Nat
        /\ maker.freeze \in Nat /\ FeeDen \in Nat
    BY <1>2, MarketAssumption DEF Order
  <1>4. /\ o.id = maker.id /\ o.user = maker.user /\ o.side = maker.side
        /\ o.maker_fee = maker.maker_fee
        /\ o.left = maker.left - amount
        /\ o.freeze = maker.freeze - (IF maker.side = "bid" THEN deal ELSE amount)
    BY <1>2 DEF FilledMaker, Filled, Order
  <1>5. o \in Order /\ o.id = m
    BY FilledMakerVersion DEF VersionOf
  <1> HIDE DEF o
  <1>6. CASE maker.side = "ask"
    <2>1. (maker.freeze - amount) * FeeDen = maker.freeze * FeeDen - amount * FeeDen
      BY <1>1, <1>3
    <2>2. /\ FrozenUnits(o) = (maker.freeze - amount) * FeeDen
          /\ FrozenUnits(maker) = maker.freeze * FeeDen
          /\ MakerPays(m, amount) = amount * FeeDen
      BY <1>4, <1>6 DEF FrozenUnits, StockUnits, MakerPays, PaysOf
    <2>3. o.left = 0 => FrozenUnits(o) = 0
      <3>1. o.left = 0 => maker.freeze - amount = 0
        BY <1>1, <1>2, <1>3, <1>4, <1>6 DEF Accounted
      <3>2. 0 * FeeDen = 0
        BY <1>3
      <3>3. QED
        BY <2>2, <3>1, <3>2
    <2>4. QED
      BY <1>4, <1>5, <2>1, <2>2, <2>3 DEF o
  <1>7. CASE maker.side = "bid"
    <2>1. /\ FrozenUnits(o) = maker.freeze - deal
          /\ FrozenUnits(maker) = maker.freeze
          /\ MakerPays(m, amount) = deal
      BY <1>4, <1>7 DEF FrozenUnits, MakerPays, PaysOf
    <2>2. o.left = 0 => FrozenUnits(o) = 0
      <3>1. ASSUME o.left = 0 PROVE amount = maker.left
        BY <1>1, <1>3, <1>4, <3>1
      <3>2. maker.freeze = maker.price * maker.left
        BY <1>2, <1>7 DEF Accounted
      <3>3. maker.price * maker.left \in Nat
        BY <1>3, ProductNat
      <3>4. QED
        BY <2>1, <3>1, <3>2, <3>3
    <2>3. QED
      BY <1>4, <1>5, <2>1, <2>2 DEF o
  <1>8. QED
    BY <1>3, <1>6, <1>7 DEF Sides

(* What a deal does to the balances: each side pays the other in full, the *)
(* maker out of what he has frozen, and at most the maker is charged.      *)
Charged(m, bidFeeIn) == FeeIn(orders[m].side, bidFeeIn)

DealPays(m, amount, bidFeeIn, fee) ==
    LET gives == Gives(taker.side)
        gets == Gets(taker.side)
    IN \A v \in Users, c \in Assets :
          /\ balance'[<<v, "freeze", c>>] =
               balance[<<v, "freeze", c>>]
               - OnlyFor(v, c, orders[m].user, gets, MakerPays(m, amount))
          /\ balance'[<<v, "available", c>>] =
               balance[<<v, "available", c>>]
               - OnlyFor(v, c, taker.user, gives, TakerPays(m, amount))
               + OnlyFor(v, c, taker.user, gets, MakerPays(m, amount))
               + OnlyFor(v, c, orders[m].user, gives, TakerPays(m, amount))
               - OnlyFor(v, c, orders[m].user, Charged(m, bidFeeIn), fee)

DealMoves(m, amount, filled) ==
    IF filled.left = 0
    THEN orders' = Without(orders, m) /\ asks' = asks \ {m} /\ bids' = bids \ {m}
    ELSE orders' = [orders EXCEPT ![m] = filled] /\ UNCHANGED <<asks, bids>>

LEMMA DealSettles ==
  ASSUME MarketInv, FundsBacked, NEW m, NEW amount, NEW bidFeeIn \in Assets,
         DealAllowed(m, amount), MakeDeal(m, amount, bidFeeIn),
         taker.taker_fee = 0, orders[m].maker_fee < FeeDen
  PROVE  \E fee \in Nat, tfee \in Nat, mfee \in Nat :
            /\ fee <= (IF Charged(m, bidFeeIn) = "money"
                       THEN orders[m].price * amount ELSE StockUnits(amount))
            /\ DealPays(m, amount, bidFeeIn, fee)
            /\ DealMoves(m, amount, FilledMaker(m, amount, mfee))
            /\ taker' = FilledTaker(m, amount, tfee)
            /\ ignored' \subseteq ignored \cup {<<"maker", "fee">>}
            /\ collected' = [a \in Assets |->
                  collected[a] + (IF a = Charged(m, bidFeeIn) THEN fee ELSE 0)]
  <1> DEFINE maker == orders[m]
             deal == maker.price * amount
             t == TakerSettled(m, amount, bidFeeIn)
             s == MakerSettled(m, amount, bidFeeIn)
             gives == Gives(taker.side)
             gets == Gets(taker.side)
             tp == TakerPays(m, amount)
             mp == MakerPays(m, amount)
             feeIn == Charged(m, bidFeeIn)
  <1>1. /\ TypeOK /\ balance \in Balances /\ amount \in Nat /\ deal \in Nat
        /\ taker \in Order /\ maker \in Order /\ maker.id = m
        /\ m \in DOMAIN orders
        /\ gives \in Assets /\ gets \in Assets /\ gives # gets
        /\ Gives(maker.side) = gets /\ Gets(maker.side) = gives
        /\ GetsOf(taker.side, amount, deal) = mp /\ PaysOf(taker.side, amount, deal) = tp
        /\ GetsOf(maker.side, amount, deal) = tp /\ PaysOf(maker.side, amount, deal) = mp
        /\ tp \in Nat /\ mp \in Nat
        /\ tp <= balance[<<taker.user, "available", gives>>]
        /\ mp <= balance[<<maker.user, "freeze", gets>>]
    BY DealPaid DEF TypeOK, TakerPays, MakerPays
  <1>2. /\ taker.user \in Users /\ maker.user \in Users
        /\ maker.maker_fee \in Nat /\ FeeDen \in Nat \ {0}
    BY <1>1, MarketAssumption DEF Order
  <1>3. PICK tfee \in Nat, mfee \in Nat :
           /\ DealMakes(t, s, FilledMaker(m, amount, mfee), tfee, m, amount)
           /\ TypedSettlement(t) /\ TypedSettlement(s)
    BY MakeDealIs
  <1> DEFINE filled == FilledMaker(m, amount, mfee)
  <1>4. /\ t.fee = 0 /\ t.ignored = {} /\ t.balance \in Balances
        /\ \A v \in Users, c \in Assets :
              /\ t.balance[<<v, "freeze", c>>] = balance[<<v, "freeze", c>>] - 0
              /\ t.balance[<<v, "available", c>>] =
                   balance[<<v, "available", c>>]
                   - OnlyFor(v, c, taker.user, gives, tp)
                   + OnlyFor(v, c, taker.user, gets, mp)
                   - OnlyFor(v, c, taker.user, t.feeIn, 0)
    <2>1. Covers(balance, <<taker.user, "available", gives>>,
                 PaysOf(taker.side, amount, deal))
      BY <1>1, EntryKeys DEF Covers
    <2>2. t = Settle(balance, taker, "available", "taker", amount, deal, 0, bidFeeIn)
      BY DEF TakerSettled
    <2>3. t.balance \in Balances
      BY <1>3 DEF TypedSettlement
    <2> HIDE DEF t, maker, deal, gets, tp, mp
    <2>4. PaidInFull(t, balance, taker, "available", "taker", amount, deal, 0, bidFeeIn)
      <3>1. /\ balance \in Balances /\ taker \in Order /\ amount \in Nat
            /\ deal \in Nat /\ 0 \in Nat /\ 0 < FeeDen
        BY <1>1, <1>2
      <3>2. QED
        BY <2>1, <2>2, <3>1, SettlePays DEF BalanceTypes
    <2>5. /\ PaysOf(taker.side, amount, deal) = tp /\ GetsOf(taker.side, amount, deal) = mp
      BY <1>1
    <2>6. QED
      BY <2>3, <2>4, <2>5 DEF PaidInFull, gets
  <1>5. /\ s.feeIn = feeIn /\ s.fee \in Nat /\ s.balance \in Balances
        /\ s.fee <= (IF feeIn = "money" THEN deal ELSE StockUnits(amount))
        /\ s.ignored \subseteq {<<"maker", "fee">>}
        /\ \A v \in Users, c \in Assets :
              /\ s.balance[<<v, "freeze", c>>] =
                   t.balance[<<v, "freeze", c>>]
                   - OnlyFor(v, c, maker.user, gets, mp)
              /\ s.balance[<<v, "available", c>>] =
                   t.balance[<<v, "available", c>>] - 0
                   + OnlyFor(v, c, maker.user, gives, tp)
                   - OnlyFor(v, c, maker.user, feeIn, s.fee)
    <2>1. Covers(t.balance, <<maker.user, "freeze", gets>>,
                 PaysOf(maker.side, amount, deal))
      <3>1. t.balance[<<maker.user, "freeze", gets>>] =
              balance[<<maker.user, "freeze", gets>>] - 0
        BY <1>1, <1>2, <1>4
      <3>2. balance[<<maker.user, "freeze", gets>>] \in Nat
        <4>1. <<maker.user, "freeze", gets>> \in BalanceKey
          BY <1>1, <1>2 DEF BalanceKey, BalanceTypes
        <4>2. QED
          BY <1>1, <4>1 DEF Balances
      <3>3. QED
        BY <1>1, <3>1, <3>2 DEF Covers
    <2>2. s = Settle(t.balance, maker, "freeze", "maker", amount, deal,
                     maker.maker_fee, bidFeeIn)
      BY DEF MakerSettled
    <2>3. s.balance \in Balances
      BY <1>3 DEF TypedSettlement
    <2> HIDE DEF s, t, maker, deal, gives, gets, tp, mp
    <2>4. PaidInFull(s, t.balance, maker, "freeze", "maker", amount, deal,
                     maker.maker_fee, bidFeeIn)
      BY <1>1, <1>2, <1>4, <2>1, <2>2, SettlePays DEF BalanceTypes, maker
    <2>5. /\ PaysOf(maker.side, amount, deal) = mp /\ GetsOf(maker.side, amount, deal) = tp
          /\ Gives(maker.side) = gets /\ Gets(maker.side) = gives
      BY <1>1
    <2>6. FeeIn(maker.side, bidFeeIn) = feeIn
      BY DEF Charged, maker
    <2>7. QED
      BY <2>3, <2>4, <2>5, <2>6 DEF PaidInFull
  <1>6. /\ filled.user = maker.user /\ filled.side = maker.side /\ filled.id = m
        /\ filled.left = 0 => FrozenUnits(filled) = 0
    BY <1>3, FilledMakerFrozen
  <1>7. DealMakes(t, s, filled, tfee, m, amount)
    BY <1>3
  <1> HIDE DEF s, t, filled
  <1>8. /\ DealMoves(m, amount, filled)
        /\ filled.left = 0 => FinishRefusal(s.balance, filled) = {}
        /\ \A v \in Users, c \in Assets :
              /\ balance'[<<v, "freeze", c>>] = s.balance[<<v, "freeze", c>>]
              /\ balance'[<<v, "available", c>>] = s.balance[<<v, "available", c>>]
    <2>1. CASE filled.left # 0
      BY <1>7, <2>1 DEF DealMakes, DealMoves
    <2>2. CASE filled.left = 0
      <3>1. /\ FrozenUnits(filled) = 0 /\ order_finish(s.balance, filled)
        BY <1>6, <1>7, <2>2 DEF DealMakes
      <3>2. Covers(s.balance, <<maker.user, "freeze", gets>>, 0)
        <4>1. <<maker.user, "freeze", gets>> \in BalanceKey
          BY <1>1, <1>2 DEF BalanceKey, BalanceTypes
        <4>2. QED
          BY <1>5, <4>1 DEF Balances, Covers
      <3>3. Releases(s.balance, filled)
        BY <1>1, <1>6, <3>1, <3>2 DEF Releases
      <3>4. /\ orders' = Without(orders, m) /\ asks' = asks \ {m} /\ bids' = bids \ {m}
            /\ balance' = balance_unfreeze(s.balance, maker.user, gets, 0)
        BY <1>1, <1>6, <3>1, <3>3 DEF order_finish
      <3>5. ASSUME NEW v \in Users, NEW c \in Assets
            PROVE  /\ balance'[<<v, "freeze", c>>] = s.balance[<<v, "freeze", c>>]
                   /\ balance'[<<v, "available", c>>] = s.balance[<<v, "available", c>>]
        <4> DEFINE x == OnlyFor(v, c, maker.user, gets, 0)
        <4>1. x = 0
          BY DEF OnlyFor
        <4> HIDE DEF x, gets, maker
        <4>2. /\ balance'[<<v, "freeze", c>>] = s.balance[<<v, "freeze", c>>] - x
              /\ balance'[<<v, "available", c>>] = s.balance[<<v, "available", c>>] + x
              /\ s.balance[<<v, "freeze", c>>] \in Nat
              /\ s.balance[<<v, "available", c>>] \in Nat
          BY <1>1, <1>2, <1>5, <3>2, <3>4, UnfreezeAt DEF x
        <4>3. QED
          BY <4>1, <4>2
      <3>6. QED
        BY <2>2, <3>3, <3>4, <3>5 DEF DealMoves, FinishRefusal
    <2>3. QED
      BY <2>1, <2>2
  <1>9. DealPays(m, amount, bidFeeIn, s.fee)
    <2> SUFFICES ASSUME NEW v \in Users, NEW c \in Assets
                 PROVE  /\ balance'[<<v, "freeze", c>>] =
                             balance[<<v, "freeze", c>>]
                             - OnlyFor(v, c, maker.user, gets, mp)
                        /\ balance'[<<v, "available", c>>] =
                             balance[<<v, "available", c>>]
                             - OnlyFor(v, c, taker.user, gives, tp)
                             + OnlyFor(v, c, taker.user, gets, mp)
                             + OnlyFor(v, c, maker.user, gives, tp)
                             - OnlyFor(v, c, maker.user, feeIn, s.fee)
      BY DEF DealPays
    <2> DEFINE x1 == OnlyFor(v, c, taker.user, gives, tp)
               x2 == OnlyFor(v, c, taker.user, gets, mp)
               x3 == OnlyFor(v, c, maker.user, gives, tp)
               x4 == OnlyFor(v, c, maker.user, feeIn, s.fee)
               x5 == OnlyFor(v, c, maker.user, gets, mp)
               x6 == OnlyFor(v, c, taker.user, t.feeIn, 0)
    <2>1. x1 \in Nat /\ x2 \in Nat /\ x3 \in Nat /\ x4 \in Nat /\ x5 \in Nat /\ x6 = 0
      BY <1>1, <1>5 DEF OnlyFor
    <2>2. balance[<<v, "freeze", c>>] \in Nat /\ balance[<<v, "available", c>>] \in Nat
      <3>1. <<v, "freeze", c>> \in BalanceKey /\ <<v, "available", c>> \in BalanceKey
        BY DEF BalanceKey, BalanceTypes
      <3>2. QED
        BY <1>1, <3>1 DEF Balances
    <2> HIDE DEF x1, x2, x3, x4, x5, x6
    <2>3. /\ t.balance[<<v, "freeze", c>>] = balance[<<v, "freeze", c>>] - 0
          /\ t.balance[<<v, "available", c>>] =
               balance[<<v, "available", c>>] - x1 + x2 - x6
      BY <1>4 DEF x1, x2, x6
    <2>4. /\ s.balance[<<v, "freeze", c>>] = t.balance[<<v, "freeze", c>>] - x5
          /\ s.balance[<<v, "available", c>>] =
               t.balance[<<v, "available", c>>] - 0 + x3 - x4
      BY <1>5 DEF x3, x4, x5
    <2>5. /\ balance'[<<v, "freeze", c>>] = s.balance[<<v, "freeze", c>>]
          /\ balance'[<<v, "available", c>>] = s.balance[<<v, "available", c>>]
      BY <1>8
    <2>6. /\ balance'[<<v, "freeze", c>>] = balance[<<v, "freeze", c>>] - x5
          /\ balance'[<<v, "available", c>>] =
               balance[<<v, "available", c>>] - x1 + x2 + x3 - x4
      BY <2>1, <2>2, <2>3, <2>4, <2>5
    <2>7. QED
      BY <2>6 DEF x1, x2, x3, x4, x5
  <1>10. taker' = FilledTaker(m, amount, tfee)
    BY <1>7 DEF DealMakes
  <1>11. ignored' \subseteq ignored \cup {<<"maker", "fee">>}
    BY <1>4, <1>5, <1>7, <1>8 DEF DealMakes
  <1>12. collected' = [a \in Assets |->
            collected[a] + (IF a = feeIn THEN s.fee ELSE 0)]
    <2>1. collected' = [a \in Assets |->
             collected[a] + (IF t.feeIn = a THEN t.fee ELSE 0)
                          + (IF s.feeIn = a THEN s.fee ELSE 0)]
      BY <1>7 DEF DealMakes
    <2>2. \A a \in Assets : collected[a] \in Nat
      BY <1>1 DEF TypeOK
    <2>3. \A a \in Assets :
             collected[a] + (IF t.feeIn = a THEN t.fee ELSE 0)
                          + (IF s.feeIn = a THEN s.fee ELSE 0)
             = collected[a] + (IF a = feeIn THEN s.fee ELSE 0)
      BY <1>4, <1>5, <2>2
    <2>4. QED
      BY <2>1, <2>3
  <1>13. QED
    BY <1>5, <1>8, <1>9, <1>10, <1>11, <1>12 DEF filled

(* The rest of a taker's order requires as much less as he has paid, or    *)
(* even less when he pays less than his limit.                             *)
LEMMA RequiredShrinks ==
  ASSUME MarketInv, FundsBacked, NEW m, NEW amount, NEW fee \in Nat,
         DealAllowed(m, amount), taker' = FilledTaker(m, amount, fee)
  PROVE  /\ taker'.user = taker.user /\ taker'.side = taker.side
         /\ taker'.maker_fee = taker.maker_fee
         /\ Required' \in Nat
         /\ Required' <= Required - TakerPays(m, amount)
  <1> DEFINE price == orders[m].price
             deal == price * amount
             o == FilledTaker(m, amount, fee)
             used == IF taker.type = "market" /\ taker.side = "bid"
                     THEN deal ELSE amount
  <1>1. /\ taker \in Order /\ amount \in Nat /\ deal \in Nat /\ orders[m] \in Order
        /\ Required \in Nat /\ TakerPays(m, amount) \in Nat
    BY DealPaid
  <1>2. /\ taker.type \in {"limit", "market"} /\ taker.side \in Sides
        /\ taker.left \in Nat /\ taker.price \in Nat /\ price \in Nat /\ FeeDen \in Nat
    BY <1>1, MarketAssumption DEF Order
  <1>3. /\ o.user = taker.user /\ o.side = taker.side /\ o.type = taker.type
        /\ o.price = taker.price /\ o.left = taker.left - used
        /\ o.maker_fee = taker.maker_fee
    BY <1>1 DEF FilledTaker, Filled, Order
  <1>4. /\ used <= taker.left
        /\ taker.type = "limit" /\ taker.side = "bid" => taker.price >= price
    BY DEF DealAllowed
  <1>5. taker' = o
    OBVIOUS
  <1>6. used \in Nat /\ taker.left - used \in Nat
    BY <1>1, <1>2, <1>4
  <1>7. Required' \in Nat /\ Required' <= Required - TakerPays(m, amount)
    <2> HIDE DEF o, deal, price
    <2>1. CASE taker.side = "ask"
      <3>1. (taker.left - amount) * FeeDen = taker.left * FeeDen - amount * FeeDen
        BY <1>1, <1>2
      <3>2. (taker.left - amount) * FeeDen \in Nat
        BY <1>2, <1>6, <2>1, ProductNat
      <3>3. taker.left * FeeDen \in Nat /\ amount * FeeDen \in Nat
        BY <1>1, <1>2, ProductNat
      <3>4. Required' = (taker.left - amount) * FeeDen
        BY <1>3, <1>5, <2>1 DEF Required, StockUnits
      <3>5. Required = taker.left * FeeDen /\ TakerPays(m, amount) = amount * FeeDen
        BY <2>1 DEF Required, StockUnits, TakerPays, PaysOf
      <3>6. QED
        BY <3>1, <3>2, <3>3, <3>4, <3>5
    <2>2. CASE taker.side = "bid" /\ taker.type = "limit"
      <3>1. taker.price * (taker.left - amount) =
              taker.price * taker.left - taker.price * amount
        BY <1>1, <1>2, ProductMinus
      <3>2. taker.price * (taker.left - amount) \in Nat
        BY <1>2, <1>6, <2>2, ProductNat
      <3>3. /\ taker.price * taker.left \in Nat /\ taker.price * amount \in Nat
            /\ price * amount <= taker.price * amount
        BY <1>1, <1>2, <1>4, <2>2, ProductNat, ProductMonotone
      <3>4. Required' = taker.price * (taker.left - amount)
        BY <1>3, <1>5, <2>2 DEF Required
      <3>5. Required = taker.price * taker.left /\ TakerPays(m, amount) = price * amount
        BY <2>2 DEF Required, TakerPays, PaysOf, price
      <3>6. price * amount \in Nat
        BY <1>1 DEF deal
      <3>7. QED
        BY <3>1, <3>2, <3>3, <3>4, <3>5, <3>6
    <2>3. CASE taker.side = "bid" /\ taker.type = "market"
      <3>1. Required' = taker.left - deal
        BY <1>3, <1>5, <2>3 DEF Required
      <3>2. Required = taker.left /\ TakerPays(m, amount) = deal
        BY <2>3 DEF Required, TakerPays, PaysOf, deal, price
      <3>3. QED
        BY <1>1, <1>2, <1>6, <2>3, <3>1, <3>2
    <2>4. QED
      BY <1>2, <2>1, <2>2, <2>3 DEF Sides
  <1>8. QED
    BY <1>3, <1>5, <1>7

LEMMA DealFunds ==
  ASSUME MarketInv, MarketInv', FundsBacked,
         NEW m, NEW amount, NEW bidFeeIn \in Assets,
         DealAllowed(m, amount), MakeDeal(m, amount, bidFeeIn),
         taker.taker_fee = 0, orders[m].maker_fee < FeeDen
  PROVE  FundsBacked'
  <1> DEFINE maker == orders[m]
             gives == Gives(taker.side)
             gets == Gets(taker.side)
             tp == TakerPays(m, amount)
             mp == MakerPays(m, amount)
             feeIn == Charged(m, bidFeeIn)
  <1>1. /\ TypeOK /\ ~Idle /\ amount \in Nat /\ maker.price * amount \in Nat
        /\ m \in asks \cup bids /\ m \in DOMAIN orders
        /\ taker \in Order /\ maker \in Order
        /\ gives \in Assets /\ gets \in Assets /\ gives # gets
        /\ Gives(maker.side) = gets
        /\ taker.side \in Sides
        /\ StockUnits(amount) \in Nat
        /\ tp \in Nat /\ mp \in Nat /\ Required \in Nat
        /\ mp <= FrozenUnits(maker)
        /\ tp <= balance[<<taker.user, "available", gives>>]
    BY DealPaid
  <1>2. PICK fee \in Nat, tfee \in Nat, mfee \in Nat :
           /\ fee <= (IF feeIn = "money" THEN maker.price * amount ELSE StockUnits(amount))
           /\ DealPays(m, amount, bidFeeIn, fee)
           /\ DealMoves(m, amount, FilledMaker(m, amount, mfee))
           /\ taker' = FilledTaker(m, amount, tfee)
           /\ ignored' \subseteq ignored \cup {<<"maker", "fee">>}
    BY DealSettles
  <1> DEFINE filled == FilledMaker(m, amount, mfee)
  <1>3. /\ filled.user = maker.user /\ filled.side = maker.side
        /\ FrozenUnits(filled) = FrozenUnits(maker) - mp
        /\ filled.left = 0 => FrozenUnits(filled) = 0
    BY FilledMakerFrozen
  <1>4. FrozenUnits(maker) \in Nat /\ Backed(balance, orders, asks \cup bids)
    BY <1>1, FrozenUnitsNat, FundsAreBacked DEF FundsBacked
  <1>5. DealMoves(m, amount, filled)
    BY <1>2
  <1> HIDE DEF filled
  <1>6. TypeOK'
    BY DEF MarketInv
  <1> DEFINE list == asks \cup bids
             rest == asks' \cup bids'
  <1>7. /\ list \subseteq OrderId /\ \A j \in list : orders[j] \in Order
        /\ rest \subseteq OrderId /\ \A j \in rest : orders'[j] \in Order
    BY <1>1, <1>6, BookTyped
  <1>8. /\ list \ {m} = rest \ {m} /\ \A j \in list \ {m} : orders'[j] = orders[j]
        /\ DOMAIN orders' = rest
        /\ (m \in rest /\ orders'[m] = filled) \/ (m \notin rest /\ filled.left = 0)
    <2>1. DOMAIN orders = list
      BY DEF FundsBacked
    <2>2. CASE filled.left = 0
      <3>1. orders' = Without(orders, m) /\ rest = list \ {m}
        BY <1>5, <2>2 DEF DealMoves
      <3> HIDE DEF list, rest
      <3>2. QED
        BY <2>1, <2>2, <3>1 DEF Without
    <2>3. CASE filled.left # 0
      <3>1. orders' = [orders EXCEPT ![m] = filled] /\ rest = list
        BY <1>5, <2>3 DEF DealMoves
      <3>2. m \in list
        BY <1>1
      <3> HIDE DEF list, rest
      <3>3. QED
        BY <2>1, <3>1, <3>2
    <2>4. QED
      BY <2>2, <2>3
  <1>9. ASSUME NEW v \in Users, NEW c \in Assets
        PROVE  /\ FrozenFor(orders, list, v, c, m) =
                    OnlyFor(v, c, maker.user, gets, FrozenUnits(maker))
               /\ FrozenFor(orders', rest, v, c, m) =
                    OnlyFor(v, c, maker.user, gets, FrozenUnits(filled))
    <2>1. FrozenFor(orders, list, v, c, m) =
            OnlyFor(v, c, maker.user, gets, FrozenUnits(maker))
      BY <1>1 DEF FrozenFor, OnlyFor
    <2> HIDE DEF list, rest
    <2>2. CASE m \in rest /\ orders'[m] = filled
      BY <1>1, <1>3, <2>1, <2>2 DEF FrozenFor, OnlyFor
    <2>3. CASE m \notin rest /\ filled.left = 0
      BY <1>3, <2>1, <2>3 DEF FrozenFor, OnlyFor
    <2>4. QED
      BY <1>8, <2>1, <2>2, <2>3
  <1> HIDE DEF list, rest, tp, mp, gives, gets, maker, feeIn
  <1>10. ASSUME NEW v \in Users, NEW c \in Assets
         PROVE  balance'[<<v, "freeze", c>>] = balance[<<v, "freeze", c>>]
                                               - FrozenFor(orders, list, v, c, m)
                                               + FrozenFor(orders', rest, v, c, m)
    <2>1. balance'[<<v, "freeze", c>>] =
            balance[<<v, "freeze", c>>] - OnlyFor(v, c, maker.user, gets, mp)
      BY <1>2 DEF DealPays, mp, gets, maker
    <2>2. balance[<<v, "freeze", c>>] \in Nat
      <3>1. <<v, "freeze", c>> \in BalanceKey
        BY DEF BalanceKey, BalanceTypes
      <3>2. QED
        BY <1>1, <3>1 DEF TypeOK, Balances
    <2>3. /\ FrozenFor(orders, list, v, c, m) =
               OnlyFor(v, c, maker.user, gets, FrozenUnits(maker))
          /\ FrozenFor(orders', rest, v, c, m) =
               OnlyFor(v, c, maker.user, gets, FrozenUnits(filled))
      BY <1>9
    <2>4. OnlyFor(v, c, maker.user, gets, mp) =
            OnlyFor(v, c, maker.user, gets, FrozenUnits(maker))
            - OnlyFor(v, c, maker.user, gets, FrozenUnits(filled))
      BY <1>1, <1>3, <1>4 DEF OnlyFor
    <2>5. /\ OnlyFor(v, c, maker.user, gets, FrozenUnits(maker)) \in Int
          /\ OnlyFor(v, c, maker.user, gets, FrozenUnits(filled)) \in Int
      BY <1>1, <1>3, <1>4 DEF OnlyFor
    <2>6. QED
      BY <2>1, <2>2, <2>3, <2>4, <2>5
  <1>11. Backed(balance', orders', rest)
    <2>1. Backed(balance, orders, list)
      BY <1>4 DEF list
    <2>2. QED
      BY <1>7, <1>8, <1>10, <2>1, StaysBacked
  <1>12. (Covers(balance, <<taker.user, "available", Gives(taker.side)>>, Required))'
    <2>1. /\ taker'.user = taker.user /\ taker'.side = taker.side
          /\ Required' \in Nat /\ Required' <= Required - tp
      BY <1>2, RequiredShrinks DEF tp
    <2> DEFINE had == balance[<<taker.user, "available", gives>>]
               has == balance'[<<taker.user, "available", gives>>]
               back == OnlyFor(taker.user, gives, maker.user, gives, tp)
               lost == OnlyFor(taker.user, gives, maker.user, feeIn, fee)
    <2>2. taker.user \in Users /\ had \in Nat
      <3>1. taker.user \in Users
        BY <1>1 DEF Order
      <3>2. <<taker.user, "available", gives>> \in BalanceKey
        BY <1>1, <3>1 DEF BalanceKey, BalanceTypes
      <3>3. QED
        BY <1>1, <3>1, <3>2 DEF TypeOK, Balances
    <2>3. has = had - OnlyFor(taker.user, gives, taker.user, gives, tp)
                + OnlyFor(taker.user, gives, taker.user, gets, mp) + back - lost
      BY <1>1, <1>2, <2>2 DEF DealPays, tp, mp, gives, gets, maker, feeIn
    <2>4. /\ OnlyFor(taker.user, gives, taker.user, gives, tp) = tp
          /\ OnlyFor(taker.user, gives, taker.user, gets, mp) = 0
      BY <1>1 DEF OnlyFor
    <2>5. back \in Nat /\ lost \in Nat /\ lost <= back
      <3>1. feeIn = gives => fee <= tp
        BY <1>1, <1>2 DEF gives, tp, TakerPays, PaysOf, maker, Gives, Sides
      <3>2. QED
        BY <1>1, <3>1 DEF OnlyFor
    <2>6. had >= Required
      BY <1>1 DEF FundsBacked, Covers, gives
    <2> HIDE DEF had, has, back, lost
    <2>7. has >= Required'
      BY <1>1, <2>1, <2>2, <2>3, <2>4, <2>5, <2>6
    <2>8. QED
      BY <2>1, <2>7 DEF Covers, has, gives
  <1>13. ignored' \subseteq {<<"maker", "fee">>}
    BY <1>2 DEF FundsBacked
  <1>14. QED
    BY <1>8, <1>11, <1>12, <1>13, FundsBackedNext DEF rest

-------------------------------------------------------------------------------
(* The invariant.                                                          *)

RatesBounded ==
    /\ \A i \in DOMAIN orders : orders[i].maker_fee < FeeDen
    /\ ~Idle => taker.maker_fee < FeeDen

LEMMA RatesStayBounded == MarketInv /\ RatesBounded /\ [Next]_vars => RatesBounded'
  <1> SUFFICES ASSUME MarketInv, RatesBounded, [Next]_vars
               PROVE  RatesBounded'
    OBVIOUS
  <1>1. ASSUME UNCHANGED <<orders, taker>> PROVE RatesBounded'
    BY <1>1 DEF RatesBounded, Idle
  <1>2. ASSUME NEW r \in UpdateRequests, NEW padding \in Paddings,
               UpdateBalance(r, padding)
        PROVE  RatesBounded'
    BY <1>1, <1>2 DEF UpdateBalance, book
  <1>3. ASSUME NEW type \in {"limit", "market"}, NEW side \in Sides, NEW u \in Users,
               NEW price \in Nat, NEW amount \in Nat \ {0}, NEW tfee \in Nat,
               NEW mfee \in Nat,
               ReceiveAllowed(type, side, u, price, amount, tfee, mfee)
        PROVE  RatesBounded'
    <2>1. /\ UNCHANGED orders /\ mfee < FeeDen
          /\ taker' = NewOrder(type, side, u, price, amount, tfee, mfee)
      BY <1>3 DEF ReceiveAllowed, Receive, book
    <2>2. taker'.maker_fee = mfee
      BY <2>1 DEF NewOrder
    <2>3. QED
      BY <2>1, <2>2 DEF RatesBounded
  <1>4. ASSUME NEW u \in Users, NEW i \in DOMAIN orders, CancelOrder(u, i)
        PROVE  RatesBounded'
    <2>1. orders[i].id = i /\ order_finish(balance, orders[i]) /\ taker' = taker
      BY <1>4 DEF MarketInv, TypeOK, CancelOrder
    <2>2. \A j \in DOMAIN orders' :
             orders'[j] = orders[i] \/ (j \in DOMAIN orders /\ orders'[j] = orders[j])
      BY <2>1, FinishForgetsNothing
    <2>3. QED
      BY <2>1, <2>2 DEF RatesBounded, Idle
  <1>5. ASSUME NEW m, NEW amount, NEW bidFeeIn \in Assets,
               DealAllowed(m, amount), MakeDeal(m, amount, bidFeeIn)
        PROVE  RatesBounded'
    <2>1. /\ ~Idle /\ taker \in Order /\ m \in DOMAIN orders
      BY <1>5 DEF MarketInv, DealAllowed, TypeOK, NoTaker, Idle, IsFirst, Opposite
    <2> DEFINE t == TakerSettled(m, amount, bidFeeIn)
               s == MakerSettled(m, amount, bidFeeIn)
    <2>2. PICK tfee \in Nat, mfee \in Nat :
             /\ DealMakes(t, s, FilledMaker(m, amount, mfee), tfee, m, amount)
             /\ BookStep(FilledMaker(m, amount, mfee))
      BY <1>5, MakeDealIs
    <2> DEFINE filled == FilledMaker(m, amount, mfee)
    <2>3. filled.maker_fee = orders[m].maker_fee
      BY <1>5, FilledMakerFrozen
    <2>4. taker'.maker_fee = taker.maker_fee
      BY <2>1, <2>2 DEF DealMakes, FilledTaker, Filled, Order
    <2>5. BookStep(filled)
      BY <2>2
    <2> HIDE DEF filled
    <2>6. \A j \in DOMAIN orders' :
             orders'[j] = filled \/ (j \in DOMAIN orders /\ orders'[j] = orders[j])
      BY <2>5 DEF BookStep
    <2>7. QED
      BY <2>1, <2>3, <2>4, <2>6 DEF RatesBounded
  <1>6. ASSUME FinishTaker PROVE RatesBounded'
    BY <1>6 DEF FinishTaker, book, RatesBounded, Idle, NoTaker
  <1>7. ASSUME RestLimitOrder PROVE RatesBounded'
    <2> DEFINE o == [taker EXCEPT !.freeze = ToFreeze(taker)]
    <2>1. /\ ~Idle /\ taker \in Order /\ taker' = NoTaker
          /\ orders' = With(orders, o.id, o)
      BY <1>7 DEF RestLimitOrder, MarketInv, TypeOK, Idle, NoTaker
    <2>2. o.maker_fee = taker.maker_fee
      BY <2>1 DEF Order
    <2> HIDE DEF o
    <2>3. \A j \in DOMAIN orders' :
             orders'[j] = o \/ (j \in DOMAIN orders /\ orders'[j] = orders[j])
      BY <2>1 DEF With
    <2>4. QED
      BY <2>1, <2>2, <2>3 DEF RatesBounded, Idle, NoTaker
  <1>8. ASSUME UNCHANGED vars PROVE RatesBounded'
    BY <1>1, <1>8 DEF vars, book
  <1>9. QED
    BY <1>2, <1>3, <1>4, <1>5, <1>6, <1>7, <1>8, StepKinds

(* A deal after which no fee was asked for charges no taker.               *)
LEMMA NoFeeInDeal ==
  ASSUME MarketInv, NoFeeAsked', NEW m, NEW amount, NEW bidFeeIn \in Assets,
         DealAllowed(m, amount), MakeDeal(m, amount, bidFeeIn)
  PROVE  taker.taker_fee = 0
  <1>1. /\ amount \in Nat \ {0} /\ taker \in Order
    BY DEF MarketInv, DealAllowed, TypeOK, NoTaker, Idle
  <1>2. PICK a \in Known' : /\ a.deal_stock = taker.deal_stock + amount
                            /\ a.taker_fee = taker.taker_fee
    BY DealFills
  <1>3. a.deal_stock > 0
    BY <1>1, <1>2 DEF Order
  <1>4. QED
    BY <1>2, <1>3 DEF NoFeeAsked, Known

LEMMA InitFunds == Init => FundsInv
  <1> SUFFICES ASSUME Init PROVE FundsInv
    OBVIOUS
  <1>1. /\ DOMAIN orders = {} /\ asks = {} /\ bids = {} /\ Idle /\ ignored = {}
        /\ balance = EmptyBalances
    BY DEF Init, Idle, NoTaker
  <1>2. ASSUME NEW u \in Users, NEW a \in Assets
        PROVE  balance[<<u, "freeze", a>>] = SumOf(Frozen(u, a))
    <2>1. <<u, "freeze", a>> \in BalanceKey
      BY DEF BalanceKey, BalanceTypes
    <2>2. DOMAIN Frozen(u, a) = {}
      BY <1>1 DEF Frozen, Resting
    <2>3. SumOf(Frozen(u, a)) = 0
      BY <2>2, SumEmpty
    <2>4. QED
      BY <1>1, <2>1, <2>3 DEF EmptyBalances
  <1>3. QED
    BY <1>1, <1>2 DEF FundsInv, FundsBacked

LEMMA NextFunds ==
  MarketInv /\ MarketInv' /\ FundsInv /\ [Next]_vars => FundsInv'
  <1> SUFFICES ASSUME MarketInv, MarketInv', FundsInv, [Next]_vars
               PROVE  FundsInv'
    OBVIOUS
  <1>1. RatesBounded /\ RatesBounded'
    BY RatesStayBounded DEF FundsInv, RatesBounded
  <1>2. ASSUME NoFeeAsked' PROVE FundsBacked'
    <2>1. FundsBacked
      BY <1>2, FeesRemembered DEF FundsInv
    <2>2. ASSUME NEW r \in UpdateRequests, NEW padding \in Paddings,
                 UpdateBalance(r, padding)
          PROVE  FundsBacked'
      BY <2>1, <2>2, UpdateFunds
    <2>3. ASSUME NEW type \in {"limit", "market"}, NEW side \in Sides, NEW u \in Users,
                 NEW price \in Nat, NEW amount \in Nat \ {0}, NEW tfee \in Nat,
                 NEW mfee \in Nat,
                 ReceiveAllowed(type, side, u, price, amount, tfee, mfee)
          PROVE  FundsBacked'
      BY <2>1, <2>3, ReceiveFunds
    <2>4. ASSUME NEW u \in Users, NEW i \in DOMAIN orders, CancelOrder(u, i)
          PROVE  FundsBacked'
      BY <2>1, <2>4, CancelFunds
    <2>5. ASSUME NEW m \in DOMAIN orders, NEW amount, NEW bidFeeIn \in Assets,
                 DealAllowed(m, amount), MakeDeal(m, amount, bidFeeIn)
          PROVE  FundsBacked'
      <3>1. taker.taker_fee = 0
        BY <1>2, <2>5, NoFeeInDeal
      <3>2. orders[m].maker_fee < FeeDen
        BY <1>1 DEF RatesBounded
      <3>3. QED
        BY <2>1, <2>5, <3>1, <3>2, DealFunds
    <2>6. ASSUME FinishTaker PROVE FundsBacked'
      BY <2>1, <2>6, FinishTakerFunds
    <2>7. ASSUME RestLimitOrder PROVE FundsBacked'
      BY <2>1, <2>7, RestFunds
    <2>8. ASSUME UNCHANGED vars PROVE FundsBacked'
      <3>1. UNCHANGED <<balance, orders, asks, bids, taker, ignored>>
        BY <2>8 DEF vars, funds, book, ghosts
      <3>2. Backed(balance', orders', asks' \cup bids')
        BY <2>1, <3>1, FundsAreBacked DEF FundsBacked
      <3>3. Required' = Required /\ Idle' = Idle
        BY <3>1 DEF Required, Idle
      <3>4. QED
        BY <2>1, <3>1, <3>2, <3>3, FundsBackedNext DEF FundsBacked
    <2>9. QED
      BY <2>2, <2>3, <2>4, <2>5, <2>6, <2>7, <2>8, StepKinds
  <1>3. QED
    BY <1>1, <1>2 DEF FundsInv, RatesBounded

THEOREM FundsInvariant == Spec => [](MarketInv /\ FundsInv)
  <1>1. MarketInv /\ FundsInv /\ [Next]_vars => (MarketInv /\ FundsInv)'
    BY NextInv, NextFunds
  <1>2. QED
    BY InitInv, InitFunds, <1>1, PTL DEF Spec

(* Without takers' fees none was asked for.                                *)
LEMMA NoFeesNoneAsked == NoTakerFees => NoFeeAsked
  BY DEF NoTakerFees, NoFeeAsked

(* Each user's frozen balance is exactly what his resting orders have      *)
(* frozen, so a cancel and a deal with a maker always find their funds.    *)
THEOREM FrozenAlwaysBacked == Spec => []FrozenBacked
  <1>1. FundsInv => FrozenBacked
    BY NoFeesNoneAsked DEF FundsInv, FundsBacked, FrozenBacked
  <1>2. QED
    BY <1>1, FundsInvariant, PTL

(* No payment, freeze or unfreeze of the market is ever refused; only a    *)
(* maker's fee may be.                                                     *)
THEOREM NothingGoesUnpaid == Spec => []NothingUnpaid
  <1>1. FundsInv => NothingUnpaid
    BY NoFeesNoneAsked DEF FundsInv, FundsBacked, NothingUnpaid
  <1>2. QED
    BY <1>1, FundsInvariant, PTL
-------------------------------------------------------------------------------
(* The ledger.                                                             *)

(* What each user owns of each asset, as the ledger sees it.               *)
Holdings(b) == [u \in Users |-> [a \in Assets |-> balance_total(b, u, a)]]

LEMMA HoldingsTyped ==
  ASSUME NEW b \in Balances
  PROVE  Holdings(b) \in [Users -> [Assets -> Nat]]
  <1>1. ASSUME NEW u \in Users, NEW a \in Assets
        PROVE  balance_total(b, u, a) \in Nat
    <2>1. <<u, "freeze", a>> \in BalanceKey /\ <<u, "available", a>> \in BalanceKey
      BY DEF BalanceKey, BalanceTypes
    <2>2. QED
      BY <2>1 DEF balance_total, Balances
  <1>2. QED
    BY <1>1 DEF Holdings

(* A balance update changes one user's holdings of one asset.              *)
LEMMA UpdateInLedger ==
  ASSUME MarketInv, MarketInv', FundsBacked, {r.change : r \in UpdateRequests} \subseteq Changes,
         NEW r \in UpdateRequests, NEW padding \in Paddings, UpdateBalance(r, padding)
  PROVE  TheLedger!Next
  <1>1. r.user \in Users /\ r.asset \in Assets /\ r.change \in Int /\ r.change \in Changes
    BY MarketAssumption
  <1>2. \A u \in Users, a \in Assets :
           balance_total(balance', u, a) =
             balance_total(balance, u, a) + OnlyFor(u, a, r.user, r.asset, r.change)
    BY UpdateFunds
  <1>3. /\ Holdings(balance) \in [Users -> [Assets -> Nat]] /\ Holdings(balance') \in [Users -> [Assets -> Nat]]
        /\ \A u \in Users, a \in Assets :
              Holdings(balance')[u][a] = Holdings(balance)[u][a] + OnlyFor(u, a, r.user, r.asset, r.change)
    <2>1. /\ Holdings(balance) \in [Users -> [Assets -> Nat]] /\ Holdings(balance') \in [Users -> [Assets -> Nat]]
      BY HoldingsTyped DEF MarketInv, TypeOK
    <2>2. \A u \in Users, a \in Assets :
             /\ Holdings(balance)[u][a] = balance_total(balance, u, a)
             /\ Holdings(balance')[u][a] = balance_total(balance', u, a)
      BY DEF Holdings
    <2>3. QED
      BY <1>2, <2>1, <2>2
  <1>4. collected' = collected
    BY DEF UpdateBalance, ghosts
  <1>5. Holdings(balance') = [Holdings(balance) EXCEPT ![r.user][r.asset] = @ + r.change]
    BY <1>1, <1>3 DEF OnlyFor
  <1>6. Holdings(balance)[r.user][r.asset] + r.change >= 0
    BY <1>1, <1>3 DEF OnlyFor
  <1>7. TheLedger!Update(r.user, r.asset, r.change)
    BY <1>4, <1>5, <1>6 DEF TheLedger!Update, Holdings, balance_total
  <1>8. QED
    BY <1>1, <1>7 DEF TheLedger!Next, Assets

(* A deal is a trade between the two users, and what the maker pays as a   *)
(* fee is what the two do not end up with.                                 *)
Seller(m) == IF taker.side = "ask" THEN taker.user ELSE orders[m].user
Buyer(m) == IF taker.side = "ask" THEN orders[m].user ELSE taker.user

LEMMA DealTotals ==
  ASSUME MarketInv, FundsBacked, NEW m, NEW amount, NEW bidFeeIn \in Assets,
         NEW fee \in Nat, DealAllowed(m, amount), DealPays(m, amount, bidFeeIn, fee),
         NEW v \in Users, NEW c \in Assets
  PROVE  Holdings(balance')[v][c] =
            Holdings(balance)[v][c]
            + TheLedger!Gain(v, Seller(m), Buyer(m), StockUnits(amount),
                             orders[m].price * amount)[c]
            - OnlyFor(v, c, orders[m].user, Charged(m, bidFeeIn), fee)
  <1> DEFINE stock == StockUnits(amount)
             deal == orders[m].price * amount
             mu == orders[m].user
             tu == taker.user
             feeIn == Charged(m, bidFeeIn)
             charge == OnlyFor(v, c, mu, feeIn, fee)
  <1>1. /\ TypeOK /\ taker.side \in Sides /\ stock \in Nat /\ deal \in Nat
        /\ orders[m].side = (IF taker.side = "ask" THEN "bid" ELSE "ask")
    BY DealPaid
  <1>2. /\ balance[<<v, "freeze", c>>] \in Nat /\ balance[<<v, "available", c>>] \in Nat
    <2>1. <<v, "freeze", c>> \in BalanceKey /\ <<v, "available", c>> \in BalanceKey
      BY DEF BalanceKey, BalanceTypes
    <2>2. QED
      BY <1>1, <2>1 DEF TypeOK, Balances
  <1>3. /\ Holdings(balance)[v][c] = balance[<<v, "available", c>>] + balance[<<v, "freeze", c>>]
        /\ Holdings(balance')[v][c] = balance'[<<v, "available", c>>] + balance'[<<v, "freeze", c>>]
    BY DEF Holdings, balance_total
  <1>4. charge \in Nat
    BY DEF OnlyFor
  <1> HIDE DEF charge
  <1>5. CASE taker.side = "ask"
    <2>1. /\ Gives(taker.side) = "stock" /\ Gets(taker.side) = "money"
          /\ TakerPays(m, amount) = stock /\ MakerPays(m, amount) = deal
          /\ Seller(m) = tu /\ Buyer(m) = mu
      BY <1>1, <1>5 DEF Gives, Gets, TakerPays, MakerPays, PaysOf, Seller, Buyer
    <2> DEFINE x1 == OnlyFor(v, c, tu, "stock", stock)
               x2 == OnlyFor(v, c, tu, "money", deal)
               x3 == OnlyFor(v, c, mu, "stock", stock)
               x4 == OnlyFor(v, c, mu, "money", deal)
    <2>2. /\ balance'[<<v, "freeze", c>>] = balance[<<v, "freeze", c>>] - x4
          /\ balance'[<<v, "available", c>>] =
               balance[<<v, "available", c>>] - x1 + x2 + x3 - charge
      BY <2>1 DEF DealPays, charge
    <2>3. x1 \in Nat /\ x2 \in Nat /\ x3 \in Nat /\ x4 \in Nat
      BY <1>1 DEF OnlyFor
    <2> HIDE DEF stock, deal, mu, tu
    <2>4. TheLedger!Gain(v, tu, mu, stock, deal)[c] = x3 - x1 + x2 - x4
      <3>1. CASE c = "stock"
        BY <1>1, <3>1 DEF TheLedger!Gain, OnlyFor
      <3>2. CASE c = "money"
        BY <1>1, <3>2 DEF TheLedger!Gain, OnlyFor
      <3>3. QED
        BY <3>1, <3>2 DEF Assets
    <2> HIDE DEF x1, x2, x3, x4
    <2>5. Holdings(balance')[v][c] = Holdings(balance)[v][c] + (x3 - x1 + x2 - x4) - charge
      BY <1>2, <1>3, <1>4, <2>2, <2>3
    <2>6. QED
      BY <2>1, <2>4, <2>5 DEF stock, deal, charge, mu
  <1>6. CASE taker.side = "bid"
    <2>1. /\ Gives(taker.side) = "money" /\ Gets(taker.side) = "stock"
          /\ TakerPays(m, amount) = deal /\ MakerPays(m, amount) = stock
          /\ Seller(m) = mu /\ Buyer(m) = tu
      BY <1>1, <1>6 DEF Gives, Gets, TakerPays, MakerPays, PaysOf, Seller, Buyer
    <2> DEFINE x1 == OnlyFor(v, c, tu, "money", deal)
               x2 == OnlyFor(v, c, tu, "stock", stock)
               x3 == OnlyFor(v, c, mu, "money", deal)
               x4 == OnlyFor(v, c, mu, "stock", stock)
    <2>2. /\ balance'[<<v, "freeze", c>>] = balance[<<v, "freeze", c>>] - x4
          /\ balance'[<<v, "available", c>>] =
               balance[<<v, "available", c>>] - x1 + x2 + x3 - charge
      BY <2>1 DEF DealPays, charge
    <2>3. x1 \in Nat /\ x2 \in Nat /\ x3 \in Nat /\ x4 \in Nat
      BY <1>1 DEF OnlyFor
    <2> HIDE DEF stock, deal, mu, tu
    <2>4. TheLedger!Gain(v, mu, tu, stock, deal)[c] = x3 - x1 + x2 - x4
      <3>1. CASE c = "stock"
        BY <1>1, <3>1 DEF TheLedger!Gain, OnlyFor
      <3>2. CASE c = "money"
        BY <1>1, <3>2 DEF TheLedger!Gain, OnlyFor
      <3>3. QED
        BY <3>1, <3>2 DEF Assets
    <2> HIDE DEF x1, x2, x3, x4
    <2>5. Holdings(balance')[v][c] = Holdings(balance)[v][c] + (x3 - x1 + x2 - x4) - charge
      BY <1>2, <1>3, <1>4, <2>2, <2>3
    <2>6. QED
      BY <2>1, <2>4, <2>5 DEF stock, deal, charge, mu
  <1>7. QED
    BY <1>1, <1>5, <1>6 DEF Sides

LEMMA DealInLedger ==
  ASSUME MarketInv, MarketInv', FundsBacked, Nat \subseteq Stocks, Nat \subseteq Moneys,
         NEW m, NEW amount, NEW bidFeeIn \in Assets,
         DealAllowed(m, amount), MakeDeal(m, amount, bidFeeIn),
         taker.taker_fee = 0, orders[m].maker_fee < FeeDen
  PROVE  TheLedger!Next
  <1> DEFINE stock == StockUnits(amount)
             money == orders[m].price * amount
             seller == Seller(m)
             buyer == Buyer(m)
             mu == orders[m].user
             feeIn == Charged(m, bidFeeIn)
             had == Holdings(balance)
             has == Holdings(balance')
  <1>1. /\ balance \in Balances /\ balance' \in Balances /\ collected \in [Assets -> Nat]
        /\ taker.side \in Sides /\ taker.user \in Users /\ mu \in Users
        /\ orders[m].side = (IF taker.side = "ask" THEN "bid" ELSE "ask")
        /\ stock \in Nat /\ money \in Nat
    BY DealPaid DEF MarketInv, TypeOK, Order
  <1>2. /\ had \in [Users -> [Assets -> Nat]] /\ has \in [Users -> [Assets -> Nat]]
    BY <1>1, HoldingsTyped
  <1>3. PICK fee \in Nat :
           /\ fee <= (IF feeIn = "money" THEN money ELSE stock)
           /\ DealPays(m, amount, bidFeeIn, fee)
           /\ collected' = [a \in Assets |->
                 collected[a] + (IF a = feeIn THEN fee ELSE 0)]
    BY DealSettles
  <1>4. /\ seller \in Users /\ buyer \in Users /\ mu \in {seller, buyer}
        /\ seller # buyer => (mu = seller) # (mu = buyer)
    BY <1>1 DEF Seller, Buyer
  <1>5. feeIn \in Assets
    BY DEF Charged, FeeIn, Assets
  <1> DEFINE gain(v, c) == TheLedger!Gain(v, seller, buyer, stock, money)[c]
             lost(v, c) == OnlyFor(v, c, mu, feeIn, fee)
  <1>6. ASSUME NEW v \in Users, NEW c \in Assets
        PROVE  /\ gain(v, c) \in Int /\ lost(v, c) \in Nat
               /\ has[v][c] = had[v][c] + gain(v, c) - lost(v, c)
               /\ has[v][c] \in Nat /\ had[v][c] \in Nat
    <2>1. gain(v, c) \in Int
      <3> HIDE DEF stock, money, seller, buyer
      <3>1. CASE c = "stock"
        BY <1>1, <3>1 DEF TheLedger!Gain
      <3>2. CASE c = "money"
        BY <1>1, <3>2 DEF TheLedger!Gain
      <3>3. QED
        BY <3>1, <3>2 DEF Assets
    <2>2. lost(v, c) \in Nat
      BY <1>3 DEF OnlyFor
    <2>3. has[v][c] = had[v][c] + gain(v, c) - lost(v, c)
      BY <1>3, DealTotals
    <2>4. QED
      BY <1>2, <2>1, <2>2, <2>3
  <1>7. had[seller].stock >= stock /\ had[buyer].money >= money
    <2>1. /\ TakerPays(m, amount) <= balance[<<taker.user, "available", Gives(taker.side)>>]
          /\ MakerPays(m, amount) <= balance[<<mu, "freeze", Gets(taker.side)>>]
      BY DealPaid
    <2>2. ASSUME NEW v \in Users, NEW c \in Assets
          PROVE  /\ balance[<<v, "available", c>>] \in Nat /\ balance[<<v, "freeze", c>>] \in Nat
                 /\ had[v][c] = balance[<<v, "available", c>>] + balance[<<v, "freeze", c>>]
      <3>1. <<v, "freeze", c>> \in BalanceKey /\ <<v, "available", c>> \in BalanceKey
        BY DEF BalanceKey, BalanceTypes
      <3>2. QED
        BY <1>1, <3>1 DEF Balances, Holdings, balance_total
    <2> HIDE DEF had
    <2>3. /\ balance[<<seller, "available", "stock">>] \in Nat
          /\ balance[<<seller, "freeze", "stock">>] \in Nat
          /\ had[seller]["stock"] = balance[<<seller, "available", "stock">>]
                                   + balance[<<seller, "freeze", "stock">>]
          /\ balance[<<buyer, "available", "money">>] \in Nat
          /\ balance[<<buyer, "freeze", "money">>] \in Nat
          /\ had[buyer]["money"] = balance[<<buyer, "available", "money">>]
                                  + balance[<<buyer, "freeze", "money">>]
      <3>1. "stock" \in Assets /\ "money" \in Assets
        BY DEF Assets
      <3>2. QED
        BY <1>4, <2>2, <3>1
    <2>4. CASE taker.side = "ask"
      <3>1. /\ Gives(taker.side) = "stock" /\ Gets(taker.side) = "money"
            /\ TakerPays(m, amount) = stock /\ MakerPays(m, amount) = money
            /\ seller = taker.user /\ buyer = mu
        BY <1>1, <2>4 DEF Gives, Gets, TakerPays, MakerPays, PaysOf, Seller, Buyer
      <3> HIDE DEF stock, money, seller, buyer, mu
      <3>2. stock <= balance[<<seller, "available", "stock">>]
            /\ money <= balance[<<buyer, "freeze", "money">>]
        BY <2>1, <3>1
      <3>3. QED
        BY <1>1, <2>3, <3>2
    <2>5. CASE taker.side = "bid"
      <3>1. /\ Gives(taker.side) = "money" /\ Gets(taker.side) = "stock"
            /\ TakerPays(m, amount) = money /\ MakerPays(m, amount) = stock
            /\ seller = mu /\ buyer = taker.user
        BY <1>1, <2>5 DEF Gives, Gets, TakerPays, MakerPays, PaysOf, Seller, Buyer
      <3> HIDE DEF stock, money, seller, buyer, mu
      <3>2. stock <= balance[<<seller, "freeze", "stock">>]
            /\ money <= balance[<<buyer, "available", "money">>]
        BY <2>1, <3>1
      <3>3. QED
        BY <1>1, <2>3, <3>2
    <2>6. QED
      BY <1>1, <2>4, <2>5 DEF Sides
  <1> HIDE DEF gain, lost, had, has, stock, money, seller, buyer, mu, feeIn
  <1>8. ASSUME NEW v \in Users, NEW c \in Assets
        PROVE  /\ had[v][c] + gain(v, c) - has[v][c] = lost(v, c)
               /\ has[v][c] >= 0 /\ lost(v, c) >= 0
               /\ v \notin {seller, buyer} => lost(v, c) = 0
               /\ lost(v, c) <= IF c = "stock" THEN stock ELSE 2 * money
    <2>1. had[v][c] + gain(v, c) - has[v][c] = lost(v, c) /\ has[v][c] >= 0
      BY <1>6
    <2>2. v \notin {seller, buyer} => lost(v, c) = 0
      BY <1>4 DEF lost, OnlyFor
    <2>3. lost(v, c) <= IF c = "stock" THEN stock ELSE 2 * money
      BY <1>1, <1>3, <1>5 DEF lost, OnlyFor, Assets
    <2>4. QED
      BY <1>6, <2>1, <2>2, <2>3
  <1>9. ASSUME NEW c \in Assets
        PROVE  collected'[c] = collected[c] + lost(seller, c)
                               + (IF buyer = seller THEN 0 ELSE lost(buyer, c))
    <2>1. collected[c] \in Nat /\ collected'[c] = collected[c] + (IF c = feeIn THEN fee ELSE 0)
      BY <1>1, <1>3
    <2>2. QED
      BY <1>3, <1>4, <2>1 DEF lost, OnlyFor
  <1>10. TheLedger!Trade(seller, buyer, stock, money)
    <2>1. /\ had = [u \in Users |-> [a \in Assets |-> balance_total(balance, u, a)]]
          /\ has = [u \in Users |-> [a \in Assets |-> balance_total(balance', u, a)]]
      BY DEF had, has, Holdings
    <2>2. QED
      BY SMTT(90), <1>4, <1>7, <1>8, <1>9, <2>1 DEF TheLedger!Trade, gain, Assets, balance_total
  <1>11. QED
    BY <1>1, <1>4, <1>10 DEF TheLedger!Next

LEMMA NothingInLedger ==
  ASSUME collected' = collected,
         \A u \in Users, a \in Assets :
            balance_total(balance', u, a) = balance_total(balance, u, a)
  PROVE  UNCHANGED TheLedger!vars
  BY DEF TheLedger!vars, balance_total

(* The market implements the ledger, whatever a trade may move.            *)
THEOREM MarketImplementsLedger ==
  ASSUME Nat \subseteq Stocks, Nat \subseteq Moneys,
         {r.change : r \in UpdateRequests} \subseteq Changes
  PROVE  Spec => ImplementsLedger
  <1>1. Init => TheLedger!Init
    <2> SUFFICES ASSUME Init PROVE TheLedger!Init
      OBVIOUS
    <2>1. balance = EmptyBalances /\ collected = [a \in Assets |-> 0]
      BY DEF Init
    <2>2. ASSUME NEW u \in Users, NEW a \in Assets
          PROVE  balance_total(balance, u, a) = 0
      <3>1. <<u, "freeze", a>> \in BalanceKey /\ <<u, "available", a>> \in BalanceKey
        BY DEF BalanceKey, BalanceTypes
      <3>2. QED
        BY <2>1, <3>1 DEF EmptyBalances, balance_total
    <2>3. QED
      BY <2>1, <2>2 DEF TheLedger!Init, Assets
  <1>2. /\ MarketInv /\ MarketInv' /\ FundsInv /\ FundsInv' /\ [Next]_vars
        => [NoTakerFees' => TheLedger!Next]_TheLedger!vars
    <2> SUFFICES ASSUME MarketInv, MarketInv', FundsInv, [Next]_vars, NoTakerFees'
                 PROVE  TheLedger!Next \/ UNCHANGED TheLedger!vars
      OBVIOUS
    <2>1. NoFeeAsked' /\ FundsBacked
      <3>1. NoFeeAsked'
        BY DEF NoTakerFees, NoFeeAsked
      <3>2. QED
        BY <3>1, FeesRemembered DEF FundsInv
    <2>2. ASSUME UNCHANGED <<balance, collected>> PROVE UNCHANGED TheLedger!vars
      BY <2>2, NothingInLedger
    <2>3. ASSUME NEW r \in UpdateRequests, NEW padding \in Paddings,
                 UpdateBalance(r, padding)
          PROVE  TheLedger!Next
      BY <2>1, <2>3, UpdateInLedger
    <2>4. ASSUME NEW type \in {"limit", "market"}, NEW side \in Sides, NEW u \in Users,
                 NEW price \in Nat, NEW amount \in Nat \ {0}, NEW tfee \in Nat,
                 NEW mfee \in Nat,
                 ReceiveAllowed(type, side, u, price, amount, tfee, mfee)
          PROVE  UNCHANGED TheLedger!vars
      BY <2>2, <2>4 DEF ReceiveAllowed, Receive, funds, ghosts
    <2>5. ASSUME NEW u \in Users, NEW i \in DOMAIN orders, CancelOrder(u, i)
          PROVE  UNCHANGED TheLedger!vars
      <3>1. collected' = collected
        BY <2>5 DEF CancelOrder
      <3>2. QED
        BY <2>1, <2>5, <3>1, CancelFunds, NothingInLedger
    <2>6. ASSUME NEW m \in DOMAIN orders, NEW amount, NEW bidFeeIn \in Assets,
                 DealAllowed(m, amount), MakeDeal(m, amount, bidFeeIn)
          PROVE  TheLedger!Next
      <3>1. taker.taker_fee = 0
        BY <2>1, <2>6, NoFeeInDeal
      <3>2. orders[m].maker_fee < FeeDen
        BY DEF FundsInv
      <3>3. QED
        BY <2>1, <2>6, <3>1, <3>2, DealInLedger
    <2>7. ASSUME FinishTaker PROVE UNCHANGED TheLedger!vars
      BY <2>2, <2>7 DEF FinishTaker, funds, ghosts
    <2>8. ASSUME RestLimitOrder PROVE UNCHANGED TheLedger!vars
      <3>1. collected' = collected
        BY <2>8 DEF RestLimitOrder
      <3>2. QED
        BY <2>1, <2>8, <3>1, RestFunds, NothingInLedger
    <2>9. ASSUME UNCHANGED vars PROVE UNCHANGED TheLedger!vars
      BY <2>2, <2>9 DEF vars, funds, ghosts
    <2>10. QED
      BY <2>3, <2>4, <2>5, <2>6, <2>7, <2>8, <2>9, StepKinds
  <1>3. QED
    BY <1>1, <1>2, FundsInvariant, PTL DEF Spec, ImplementsLedger
-------------------------------------------------------------------------------
(* Conservation.                                                           *)

(* Clients give a business id to one change of an asset of a user.         *)
IdsNameChanges ==
    \A r, q \in UpdateRequests :
        r.user = q.user /\ r.asset = q.asset /\ r.business_id = q.business_id
        => r = q

(* The sums of FundsConserved, as operators of the balances and the keys.  *)
OwnedIn(b, a) == [u \in Users |-> balance_total(b, u, a)]
KeysIn(d, a) == {k \in d : k[2] = a}
DepositedIn(d, a) ==
    [k \in KeysIn(d, a) |-> IF ChangeOf(k) > 0 THEN ChangeOf(k) ELSE 0]
WithdrawnIn(d, a) ==
    [k \in KeysIn(d, a) |-> IF ChangeOf(k) < 0 THEN -ChangeOf(k) ELSE 0]
Conserved(b, c, d) ==
    \A a \in Assets :
        SumOf(OwnedIn(b, a)) + c[a] + SumOf(WithdrawnIn(d, a)) = SumOf(DepositedIn(d, a))

LEMMA ConservedIs ==
  /\ FundsConserved <=> Conserved(balance, collected, dict_update)
  /\ FundsConserved' <=> Conserved(balance', collected', dict_update')
  <1>1. /\ \A a : Owned(a) = OwnedIn(balance, a)
        /\ \A a : Deposited(a) = DepositedIn(dict_update, a)
        /\ \A a : Withdrawn(a) = WithdrawnIn(dict_update, a)
    BY DEF Owned, Deposited, Withdrawn, UpdatesOf, OwnedIn, DepositedIn, WithdrawnIn, KeysIn
  <1>2. FundsConserved <=> Conserved(balance, collected, dict_update)
    BY <1>1 DEF FundsConserved, Conserved
  <1>3. QED
    BY <1>1, <1>2 DEF FundsConserved, Conserved, Owned, Deposited, Withdrawn, UpdatesOf,
          OwnedIn, DepositedIn, WithdrawnIn, KeysIn

(* A key that a request made, and what it tells.                           *)
Named(k) ==
    \E r \in UpdateRequests :
        k[1] = r.user /\ k[2] = r.asset /\ k[3] = r.business_id

LEMMA ChangeOfKey ==
  ASSUME NEW k, Named(k)
  PROVE  /\ ChangeOf(k) \in Int
         /\ IdsNameChanges =>
               \A r \in UpdateRequests :
                  k[1] = r.user /\ k[2] = r.asset /\ k[3] = r.business_id
                  => ChangeOf(k) = r.change
  <1> DEFINE q == CHOOSE q \in UpdateRequests :
                     q.user = k[1] /\ q.asset = k[2] /\ q.business_id = k[3]
  <1>1. /\ q \in UpdateRequests
        /\ q.user = k[1] /\ q.asset = k[2] /\ q.business_id = k[3]
    BY DEF Named
  <1>2. ChangeOf(k) = q.change
    BY DEF ChangeOf
  <1> HIDE DEF q
  <1>3. q.change \in Int
    BY <1>1, MarketAssumption
  <1>4. QED
    BY <1>1, <1>2, <1>3 DEF IdsNameChanges

(* They are sums of naturals over finite sets.                             *)
LEMMA OwnedTyped ==
  ASSUME NEW b \in Balances, NEW a \in Assets
  PROVE  OwnedIn(b, a) \in [Users -> Nat]
  <1>1. ASSUME NEW u \in Users PROVE balance_total(b, u, a) \in Nat
    <2>1. <<u, "freeze", a>> \in BalanceKey /\ <<u, "available", a>> \in BalanceKey
      BY DEF BalanceKey, BalanceTypes
    <2>2. QED
      BY <2>1 DEF balance_total, Balances
  <1>2. QED
    BY <1>1 DEF OwnedIn

LEMMA UpdatesTyped ==
  ASSUME NEW d, IsFiniteSet(d), \A k \in d : Named(k), NEW a
  PROVE  /\ IsFiniteSet(KeysIn(d, a))
         /\ DepositedIn(d, a) \in [KeysIn(d, a) -> Nat]
         /\ WithdrawnIn(d, a) \in [KeysIn(d, a) -> Nat]
  <1>1. IsFiniteSet(KeysIn(d, a))
    <2>1. KeysIn(d, a) \subseteq d
      BY DEF KeysIn
    <2>2. QED
      BY <2>1, FS_Subset
  <1>2. \A k \in KeysIn(d, a) : ChangeOf(k) \in Int
    BY ChangeOfKey DEF KeysIn
  <1>3. QED
    BY <1>1, <1>2 DEF DepositedIn, WithdrawnIn

(* A new key adds its change to one of the two sums of its asset.          *)
LEMMA NewKey ==
  ASSUME NEW d, IsFiniteSet(d), \A k \in d : Named(k), NEW k, Named(k), k \notin d,
         NEW e, e = d \cup {k}, NEW a
  PROVE  LET n == IF k[2] = a THEN ChangeOf(k) ELSE 0
             in == DepositedIn(d, a)
             out == WithdrawnIn(d, a)
             in2 == DepositedIn(e, a)
             out2 == WithdrawnIn(e, a)
         IN  /\ SumOf(in) \in Nat /\ SumOf(out) \in Nat
             /\ SumOf(in2) \in Nat /\ SumOf(out2) \in Nat /\ n \in Int
             /\ SumOf(in2) - SumOf(out2) = SumOf(in) - SumOf(out) + n
  <1> DEFINE n == IF k[2] = a THEN ChangeOf(k) ELSE 0
             S == KeysIn(d, a)
             T == KeysIn(e, a)
             in == DepositedIn(d, a)
             out == WithdrawnIn(d, a)
             in2 == DepositedIn(e, a)
             out2 == WithdrawnIn(e, a)
  <1>1. IsFiniteSet(e) /\ \A j \in e : Named(j)
    BY FS_AddElement
  <1>2. /\ IsFiniteSet(S) /\ in \in [S -> Nat] /\ out \in [S -> Nat]
        /\ IsFiniteSet(T) /\ in2 \in [T -> Nat] /\ out2 \in [T -> Nat]
    BY <1>1, UpdatesTyped
  <1>3. /\ S \ {k} = T \ {k} /\ k \notin S
        /\ k \in T <=> k[2] = a
    BY DEF KeysIn
  <1>4. /\ \A j \in S \ {k} : in[j] = in2[j]
        /\ \A j \in S \ {k} : out[j] = out2[j]
    BY <1>3 DEF DepositedIn, WithdrawnIn
  <1>5. ChangeOf(k) \in Int
    BY ChangeOfKey
  <1>6. /\ At(in, k) = 0 /\ At(out, k) = 0
        /\ At(in2, k) = IF n > 0 THEN n ELSE 0
        /\ At(out2, k) = IF n < 0 THEN -n ELSE 0
    BY <1>2, <1>3, <1>5 DEF At, DepositedIn, WithdrawnIn
  <1> HIDE DEF in, out, in2, out2, S, T
  <1>7. /\ SumOf(in2) = SumOf(in) - At(in, k) + At(in2, k) /\ SumOf(in) \in Nat
        /\ SumOf(out2) = SumOf(out) - At(out, k) + At(out2, k) /\ SumOf(out) \in Nat
        /\ SumOf(in2) \in Nat /\ SumOf(out2) \in Nat
    <2>1. /\ SumOf(in2) = SumOf(in) - At(in, k) + At(in2, k)
          /\ SumOf(in) \in Nat /\ SumOf(in2) \in Nat
      <3>1. /\ IsFiniteSet(S) /\ in \in [S -> Nat] /\ IsFiniteSet(T) /\ in2 \in [T -> Nat]
            /\ S \ {k} = T \ {k} /\ \A j \in S \ {k} : in[j] = in2[j]
        BY <1>2, <1>3, <1>4
      <3>2. QED
        BY <3>1, SumChange
    <2>2. /\ SumOf(out2) = SumOf(out) - At(out, k) + At(out2, k)
          /\ SumOf(out) \in Nat /\ SumOf(out2) \in Nat
      <3>1. /\ IsFiniteSet(S) /\ out \in [S -> Nat] /\ IsFiniteSet(T) /\ out2 \in [T -> Nat]
            /\ S \ {k} = T \ {k} /\ \A j \in S \ {k} : out[j] = out2[j]
        BY <1>2, <1>3, <1>4
      <3>2. QED
        BY <3>1, SumChange
    <2>3. QED
      BY <2>1, <2>2
  <1>8. n \in Int
    BY <1>5
  <1> HIDE DEF n
  <1>9. SumOf(in2) - SumOf(out2) = SumOf(in) - SumOf(out) + n
    BY <1>6, <1>7, <1>8
  <1>10. QED
    BY <1>7, <1>8, <1>9 DEF n, in, out, in2, out2

(* An applied update adds its change to both sides.                        *)
LEMMA UpdateConserves ==
  ASSUME IsFiniteSet(Users), IdsNameChanges, MarketInv, MarketInv',
         IsFiniteSet(dict_update), \A k \in dict_update : Named(k),
         NEW r \in UpdateRequests, NEW padding \in Paddings, UpdateBalance(r, padding)
  PROVE  /\ IsFiniteSet(dict_update') /\ \A k \in dict_update' : Named(k)
         /\ FundsBacked /\ Conserved(balance, collected, dict_update)
            => Conserved(balance', collected', dict_update')
  <1> DEFINE k == <<r.user, r.asset, r.business_id, padding>>
  <1>1. /\ r.user \in Users /\ r.asset \in Assets /\ r.change \in Int
        /\ balance \in Balances /\ balance' \in Balances /\ collected \in [Assets -> Nat]
    BY MarketAssumption DEF MarketInv, TypeOK
  <1>2. /\ dict_update' = dict_update \cup {k} /\ k \notin dict_update
        /\ collected' = collected
    BY DEF UpdateBalance, ghosts
  <1>3. /\ k[1] = r.user /\ k[2] = r.asset /\ k[3] = r.business_id
        /\ Named(k)
    BY DEF Named
  <1>4. ChangeOf(k) = r.change
    <2> HIDE DEF k
    <2>1. QED
      BY <1>3, ChangeOfKey
  <1>5. /\ IsFiniteSet(dict_update') /\ \A j \in dict_update' : Named(j)
    <2> HIDE DEF k
    <2>1. QED
      BY <1>2, <1>3, FS_AddElement
  <1>6. FundsBacked =>
           \A u \in Users, a \in Assets :
              balance_total(balance', u, a) =
                balance_total(balance, u, a) + OnlyFor(u, a, r.user, r.asset, r.change)
    BY UpdateFunds
  <1>7. ASSUME FundsBacked, NEW a \in Assets,
               SumOf(OwnedIn(balance, a)) + collected[a] + SumOf(WithdrawnIn(dict_update, a))
               = SumOf(DepositedIn(dict_update, a))
        PROVE  SumOf(OwnedIn(balance', a)) + collected'[a] + SumOf(WithdrawnIn(dict_update', a))
               = SumOf(DepositedIn(dict_update', a))
    <2> DEFINE f == OwnedIn(balance, a)
               g == OwnedIn(balance', a)
               n == IF r.asset = a THEN r.change ELSE 0
    <2>1. f \in [Users -> Nat] /\ g \in [Users -> Nat]
      BY <1>1, OwnedTyped
    <2>2. \A u \in Users : f[u] = balance_total(balance, u, a) /\ g[u] = balance_total(balance', u, a)
      BY DEF OwnedIn
    <2> HIDE DEF f, g
    <2>3. \A u \in Users : g[u] = f[u] + OnlyFor(u, a, r.user, r.asset, r.change)
      BY <1>6, <1>7, <2>2
    <2>4. /\ \A u \in Users \ {r.user} : f[u] = g[u]
          /\ g[r.user] = f[r.user] + n
      BY <1>1, <2>1, <2>3 DEF OnlyFor
    <2>5. SumOf(g) = SumOf(f) + n /\ SumOf(f) \in Nat /\ SumOf(g) \in Nat
      <3>1. SumOf(g) = SumOf(f) - At(f, r.user) + At(g, r.user)
            /\ SumOf(f) \in Nat /\ SumOf(g) \in Nat
        BY <2>1, <2>4, SumChange
      <3>2. At(f, r.user) = f[r.user] /\ At(g, r.user) = g[r.user]
        BY <1>1, <2>1 DEF At
      <3>3. n \in Int /\ f[r.user] \in Nat /\ g[r.user] \in Nat
        BY <1>1, <2>1
      <3>4. QED
        BY <2>4, <3>1, <3>2, <3>3
    <2> HIDE DEF n, k
    <2> DEFINE in == SumOf(DepositedIn(dict_update, a))
               out == SumOf(WithdrawnIn(dict_update, a))
               in2 == SumOf(DepositedIn(dict_update', a))
               out2 == SumOf(WithdrawnIn(dict_update', a))
               c == collected[a]
    <2>6. /\ in \in Nat /\ out \in Nat /\ in2 \in Nat /\ out2 \in Nat /\ n \in Int
          /\ in2 - out2 = in - out + n
      <3>1. n = IF k[2] = a THEN ChangeOf(k) ELSE 0
        BY <1>3, <1>4 DEF n
      <3>2. QED
        BY <1>2, <1>3, <3>1, NewKey
    <2>7. SumOf(f) + c + out = in /\ collected'[a] = c /\ c \in Nat
      BY <1>1, <1>2, <1>7 DEF f
    <2>8. SumOf(g) + c + out2 = in2
      <3> DEFINE had == SumOf(f)
                 has == SumOf(g)
      <3>1. has = had + n /\ had \in Nat /\ has \in Nat
        BY <2>5
      <3>2. had + c + out = in /\ c \in Nat
        BY <2>7
      <3> HIDE DEF in, out, in2, out2, c, had, has
      <3>3. has + c + out2 = in2
        BY <2>6, <3>1, <3>2
      <3>4. QED
        BY <3>3 DEF has
    <2>9. QED
      BY <2>7, <2>8 DEF g, in2, out2
  <1>8. QED
    BY <1>5, <1>7 DEF Conserved

(* A deal moves between two users, and what the maker pays is collected.   *)
LEMMA DealConserves ==
  ASSUME IsFiniteSet(Users), MarketInv, MarketInv', FundsBacked,
         NEW m, NEW amount, NEW bidFeeIn \in Assets,
         DealAllowed(m, amount), MakeDeal(m, amount, bidFeeIn),
         taker.taker_fee = 0, orders[m].maker_fee < FeeDen,
         Conserved(balance, collected, dict_update)
  PROVE  Conserved(balance', collected', dict_update')
  <1> DEFINE stock == StockUnits(amount)
             money == orders[m].price * amount
             seller == Seller(m)
             buyer == Buyer(m)
             mu == orders[m].user
             feeIn == Charged(m, bidFeeIn)
  <1>1. /\ balance \in Balances /\ balance' \in Balances /\ collected \in [Assets -> Nat]
        /\ taker.user \in Users /\ mu \in Users /\ stock \in Nat /\ money \in Nat
    BY DealPaid DEF MarketInv, TypeOK, Order
  <1>2. PICK fee \in Nat :
           /\ DealPays(m, amount, bidFeeIn, fee)
           /\ collected' = [a \in Assets |->
                 collected[a] + (IF a = feeIn THEN fee ELSE 0)]
    BY DealSettles
  <1>3. /\ seller \in Users /\ buyer \in Users /\ mu \in {seller, buyer}
    BY <1>1 DEF Seller, Buyer
  <1>4. dict_update' = dict_update
    BY DEF MakeDeal
  <1>5. \A v \in Users, a \in Assets :
           Holdings(balance')[v][a] =
              Holdings(balance)[v][a]
              + TheLedger!Gain(v, seller, buyer, stock, money)[a]
              - OnlyFor(v, a, mu, feeIn, fee)
    BY <1>2, DealTotals
  <1>6. ASSUME NEW a \in Assets
        PROVE  /\ SumOf(OwnedIn(balance', a)) + collected'[a] =
                    SumOf(OwnedIn(balance, a)) + collected[a]
               /\ SumOf(OwnedIn(balance', a)) \in Nat /\ SumOf(OwnedIn(balance, a)) \in Nat
               /\ collected[a] \in Nat /\ collected'[a] \in Nat
    <2> DEFINE f == OwnedIn(balance, a)
               g == OwnedIn(balance', a)
               h == [f EXCEPT ![seller] = g[seller]]
               x == IF a = "stock" THEN stock ELSE -money
               c == IF a = feeIn THEN fee ELSE 0
               gain(v) == (IF v = buyer THEN x ELSE 0) - (IF v = seller THEN x ELSE 0)
    <2>1. f \in [Users -> Nat] /\ g \in [Users -> Nat]
      BY <1>1, OwnedTyped
    <2>2. \A v \in Users : f[v] = Holdings(balance)[v][a] /\ g[v] = Holdings(balance')[v][a]
      BY DEF OwnedIn, Holdings
    <2>3. c \in Nat /\ x \in Int
      BY <1>1
    <2> HIDE DEF f, g, stock, money, seller, buyer, mu, feeIn
    <2>4. ASSUME NEW v \in Users
          PROVE  g[v] = f[v] + gain(v) - (IF v = mu THEN c ELSE 0)
      <3>1. TheLedger!Gain(v, seller, buyer, stock, money)[a] = gain(v)
        <4>1. CASE a = "stock"
          BY <1>1, <4>1 DEF TheLedger!Gain
        <4>2. CASE a = "money"
          BY <1>1, <4>2 DEF TheLedger!Gain
        <4>3. QED
          BY <4>1, <4>2 DEF Assets
      <3>2. OnlyFor(v, a, mu, feeIn, fee) = IF v = mu THEN c ELSE 0
        BY DEF OnlyFor
      <3> HIDE DEF gain, c
      <3>3. QED
        BY <1>5, <2>2, <3>1, <3>2
    <2> HIDE DEF x, c
    <2>5. \A v \in Users \ {seller, buyer} : g[v] = f[v]
      BY <1>3, <2>1, <2>3, <2>4
    <2>6. h \in [Users -> Nat] /\ h[seller] = g[seller]
          /\ \A v \in Users \ {seller} : h[v] = f[v]
      BY <1>3, <2>1
    <2> HIDE DEF h
    <2>7. /\ SumOf(h) = SumOf(f) - f[seller] + g[seller]
          /\ SumOf(f) \in Nat /\ SumOf(h) \in Nat
      <3>1. \A v \in Users \ {seller} : f[v] = h[v]
        BY <2>6
      <3>2. /\ SumOf(h) = SumOf(f) - At(f, seller) + At(h, seller)
            /\ SumOf(f) \in Nat /\ SumOf(h) \in Nat
        BY <2>1, <2>6, <3>1, SumChange
      <3>3. At(f, seller) = f[seller] /\ At(h, seller) = g[seller]
        BY <1>3, <2>1, <2>6 DEF At
      <3>4. QED
        BY <3>2, <3>3
    <2>8. SumOf(g) = SumOf(h) - h[buyer] + g[buyer] /\ SumOf(g) \in Nat
      <3>1. \A v \in Users \ {buyer} : h[v] = g[v]
        BY <2>5, <2>6
      <3>2. SumOf(g) = SumOf(h) - At(h, buyer) + At(g, buyer) /\ SumOf(g) \in Nat
        BY <2>1, <2>6, <3>1, SumChange
      <3>3. At(h, buyer) = h[buyer] /\ At(g, buyer) = g[buyer]
        BY <1>3, <2>1, <2>6 DEF At
      <3>4. QED
        BY <3>2, <3>3
    <2>9. SumOf(g) + c = SumOf(f)
      <3>1. /\ f[seller] \in Nat /\ g[seller] \in Nat /\ f[buyer] \in Nat
            /\ g[buyer] \in Nat /\ h[buyer] \in Nat
        BY <1>3, <2>1, <2>6
      <3>2. CASE seller = buyer
        <4>1. g[seller] = f[seller] - c /\ h[buyer] = g[seller]
          BY <1>3, <2>3, <2>4, <2>6, <3>1, <3>2
        <4>2. QED
          BY <2>3, <2>7, <2>8, <3>1, <3>2, <4>1
      <3>3. CASE seller # buyer
        <4>1. /\ g[seller] = f[seller] - x - (IF seller = mu THEN c ELSE 0)
              /\ g[buyer] = f[buyer] + x - (IF buyer = mu THEN c ELSE 0)
              /\ h[buyer] = f[buyer]
          BY <1>3, <2>3, <2>4, <2>6, <3>1, <3>3
        <4>2. g[seller] + g[buyer] + c = f[seller] + f[buyer]
          BY <1>3, <2>3, <3>1, <3>3, <4>1
        <4>3. QED
          BY <2>3, <2>7, <2>8, <3>1, <4>1, <4>2
      <3>4. QED
        BY <3>2, <3>3
    <2>10. collected[a] \in Nat /\ collected'[a] = collected[a] + c
      BY <1>1, <1>2 DEF c
    <2>11. QED
      BY <2>3, <2>7, <2>8, <2>9, <2>10 DEF f, g
  <1>7. QED
    BY <1>4, <1>6 DEF Conserved

LEMMA OthersConserve ==
  ASSUME Conserved(balance, collected, dict_update),
         UNCHANGED <<collected, dict_update>>,
         \A u \in Users, a \in Assets :
            balance_total(balance', u, a) = balance_total(balance, u, a)
  PROVE  Conserved(balance', collected', dict_update')
  <1>1. \A a \in Assets : OwnedIn(balance', a) = OwnedIn(balance, a)
    BY DEF OwnedIn
  <1>2. QED
    BY <1>1 DEF Conserved

(* Without updates nothing is owned.                                       *)
LEMMA ZeroSum ==
  ASSUME NEW S, IsFiniteSet(S)
  PROVE  SumOf([x \in S |-> 0]) = 0
  <1> DEFINE f == [x \in S |-> 0]
  <1>1. \A x \in DOMAIN f : {x} \X (1..f[x]) = {}
    OBVIOUS
  <1>2. UNION {{x} \X (1..f[x]) : x \in DOMAIN f} = {}
    BY <1>1
  <1>3. QED
    BY <1>2, FS_EmptySet DEF SumOf

LEMMA InitConserves ==
  ASSUME IsFiniteSet(Users)
  PROVE  Init => ConservationInv
  <1> SUFFICES ASSUME Init PROVE ConservationInv
    OBVIOUS
  <1>1. balance = EmptyBalances /\ dict_update = {} /\ collected = [a \in Assets |-> 0]
    BY DEF Init
  <1>2. IsFiniteSet(dict_update)
    BY <1>1, FS_EmptySet
  <1>3. ASSUME NEW a \in Assets
        PROVE  SumOf(OwnedIn(balance, a)) + collected[a] + SumOf(WithdrawnIn(dict_update, a))
               = SumOf(DepositedIn(dict_update, a))
    <2>1. OwnedIn(balance, a) = [u \in Users |-> 0]
      <3>1. ASSUME NEW u \in Users PROVE balance_total(balance, u, a) = 0
        <4>1. <<u, "freeze", a>> \in BalanceKey /\ <<u, "available", a>> \in BalanceKey
          BY DEF BalanceKey, BalanceTypes
        <4>2. QED
          BY <1>1, <4>1 DEF EmptyBalances, balance_total
      <3>2. QED
        BY <3>1 DEF OwnedIn
    <2>2. SumOf(OwnedIn(balance, a)) = 0
      BY <2>1, ZeroSum
    <2>3. DOMAIN WithdrawnIn(dict_update, a) = {} /\ DOMAIN DepositedIn(dict_update, a) = {}
      BY <1>1 DEF WithdrawnIn, DepositedIn, KeysIn
    <2>4. SumOf(WithdrawnIn(dict_update, a)) = 0 /\ SumOf(DepositedIn(dict_update, a)) = 0
      <3> HIDE DEF WithdrawnIn, DepositedIn
      <3>1. QED
        BY <2>3, SumEmpty
    <2>5. QED
      BY <1>1, <2>2, <2>4
  <1>4. FundsConserved
    BY <1>3, ConservedIs DEF Conserved
  <1>5. QED
    BY <1>1, <1>2, <1>4 DEF ConservationInv

LEMMA NextConserves ==
  ASSUME IsFiniteSet(Users), IdsNameChanges
  PROVE  MarketInv /\ MarketInv' /\ FundsInv /\ ConservationInv /\ [Next]_vars
         => ConservationInv'
  <1> SUFFICES ASSUME MarketInv, MarketInv', FundsInv, ConservationInv, [Next]_vars
               PROVE  ConservationInv'
    OBVIOUS
  <1> DEFINE Kept == /\ IsFiniteSet(dict_update') /\ \A k \in dict_update' : Named(k)
                     /\ NoFeeAsked' => Conserved(balance', collected', dict_update')
  <1>1. /\ IsFiniteSet(dict_update) /\ \A k \in dict_update : Named(k)
        /\ NoFeeAsked => Conserved(balance, collected, dict_update)
    BY ConservedIs DEF ConservationInv, Named
  <1>2. NoFeeAsked' => FundsBacked /\ Conserved(balance, collected, dict_update)
    BY <1>1, FeesRemembered DEF FundsInv
  <1>3. ASSUME UNCHANGED <<balance, collected, dict_update>> PROVE Kept
    BY <1>1, <1>2, <1>3
  <1>4. ASSUME NEW r \in UpdateRequests, NEW padding \in Paddings,
               UpdateBalance(r, padding)
        PROVE  Kept
    BY <1>1, <1>2, <1>4, UpdateConserves
  <1>5. ASSUME NEW type \in {"limit", "market"}, NEW side \in Sides, NEW u \in Users,
               NEW price \in Nat, NEW amount \in Nat \ {0}, NEW tfee \in Nat,
               NEW mfee \in Nat,
               ReceiveAllowed(type, side, u, price, amount, tfee, mfee)
        PROVE  Kept
    BY <1>3, <1>5 DEF ReceiveAllowed, Receive, funds, ghosts
  <1>6. ASSUME NEW u \in Users, NEW i \in DOMAIN orders, CancelOrder(u, i)
        PROVE  Kept
    <2>1. UNCHANGED <<collected, dict_update>>
      BY <1>6 DEF CancelOrder
    <2>2. QED
      BY <1>1, <1>2, <1>6, <2>1, CancelFunds, OthersConserve
  <1>7. ASSUME NEW m \in DOMAIN orders, NEW amount, NEW bidFeeIn \in Assets,
               DealAllowed(m, amount), MakeDeal(m, amount, bidFeeIn)
        PROVE  Kept
    <2>1. dict_update' = dict_update
      BY <1>7 DEF MakeDeal
    <2>2. ASSUME NoFeeAsked' PROVE Conserved(balance', collected', dict_update')
      <3>1. taker.taker_fee = 0
        BY <1>7, <2>2, NoFeeInDeal
      <3>2. orders[m].maker_fee < FeeDen
        BY DEF FundsInv
      <3>3. FundsBacked /\ Conserved(balance, collected, dict_update)
        BY <1>2, <2>2
      <3>4. QED
        BY <1>7, <3>1, <3>2, <3>3, DealConserves
    <2>3. QED
      BY <1>1, <2>1, <2>2
  <1>8. ASSUME FinishTaker PROVE Kept
    BY <1>3, <1>8 DEF FinishTaker, funds, ghosts
  <1>9. ASSUME RestLimitOrder PROVE Kept
    <2>1. UNCHANGED <<collected, dict_update>>
      BY <1>9 DEF RestLimitOrder
    <2>2. QED
      BY <1>1, <1>2, <1>9, <2>1, RestFunds, OthersConserve
  <1>10. ASSUME UNCHANGED vars PROVE Kept
    BY <1>3, <1>10 DEF vars, funds, ghosts
  <1>11. Kept
    BY <1>4, <1>5, <1>6, <1>7, <1>8, <1>9, <1>10, StepKinds
  <1>12. QED
    BY <1>11, ConservedIs DEF ConservationInv, Named

(* As long as no taker's fee was asked for, what users own, what was taken *)
(* in fees and what was withdrawn is what was deposited.                   *)
THEOREM FundsAreConserved ==
  ASSUME IsFiniteSet(Users), IdsNameChanges
  PROVE  Spec => []Conservation
  <1>1. Init => ConservationInv
    BY InitConserves
  <1>2. MarketInv /\ MarketInv' /\ FundsInv /\ ConservationInv /\ [Next]_vars
        => ConservationInv'
    BY NextConserves
  <1>3. ConservationInv => Conservation
    BY NoFeesNoneAsked DEF ConservationInv, Conservation
  <1>4. QED
    BY <1>1, <1>2, <1>3, FundsInvariant, PTL DEF Spec

-------------------------------------------------------------------------------
(* The listing of markets: for any files, orders, slices and starts, a new *)
(* engine has the orders the last one had, but those of markets that were  *)
(* not listed.                                                             *)

Logged == dumped \cup put
Numbered == resting \cup Logged \cup canceled

(* The next order gets an id that no other has.                            *)
IdsInv ==
    /\ placed \in Nat
    /\ \A o \in Numbered : o.id \in 1..placed

(* What a start would load is in the books, if of a market the engine has. *)
NoneBack == \A o \in Logged \ canceled : Summarised(o.market) => o \in resting

(* What is in the books would be loaded, if of a market the last slice was *)
(* made with.                                                              *)
NoneLost ==
    \A o \in resting : o.market \in Markets /\ (o \in Logged \ canceled \/ o.market \in passed)

ListingInv ==
    /\ IdsInv /\ NoneBack /\ NoneLost
    /\ \A o \in Logged : o.market \in Markets

OrdersStay ==
    engine = "down" /\ engine' = "up" =>
        /\ \A o \in resting' \ resting : ~Summarised(o.market)
        /\ \A o \in resting : o.market \in NameSet(file.markets) =>
              o \in resting' \/ o.market \in passed

LEMMA ListingInitInv == ListingInit => ListingInv
  BY DEF ListingInit, ListingInv, IdsInv, NoneBack, NoneLost, Numbered, Logged

(* The steps that leave the orders and the markets that are created alone. *)
LEMMA UnlistedKeeps ==
  ASSUME ListingInv, UNCHANGED <<resting, saved, placed, passed>>,
         \A m : Summarised(m)' => Summarised(m)
  PROVE  ListingInv'
  BY DEF ListingInv, IdsInv, NoneBack, NoneLost, Numbered, Logged, saved

LEMMA StartLists ==
  ASSUME ListingInv, Start
  PROVE  ListingInv'
  <1>1. /\ resting' = LoadedOrders /\ passed' = {}
        /\ UNCHANGED <<dumped, put, canceled, placed>>
        /\ dict_market' = [m \in NameSet(file.markets) |-> "created"]
    BY DEF Start, saved
  <1>2. LoadedOrders = {o \in Logged \ canceled : o.market \in NameSet(file.markets)}
    BY DEF LoadedOrders, OfMarkets, Logged
  <1>3. \A m : Summarised(m)' => m \in NameSet(file.markets)
    BY <1>1 DEF Summarised
  <1>4. Logged' = Logged /\ Numbered' \subseteq Numbered
    BY <1>1, <1>2 DEF Logged, Numbered
  <1>5. NoneBack'
    BY <1>1, <1>2, <1>3, <1>4 DEF NoneBack
  <1>6. NoneLost'
    BY <1>1, <1>2, <1>4 DEF ListingInv, NoneLost
  <1>7. QED
    BY <1>1, <1>4, <1>5, <1>6 DEF ListingInv, IdsInv

LEMMA PutLists ==
  ASSUME ListingInv, NEW m \in Markets, order_put_limit(m)
  PROVE  ListingInv'
  <1> DEFINE o == [market |-> m, id |-> placed + 1]
  <1>1. CASE dict_market[m] = "created" /\ ~Undefined
    <2>1. /\ placed' = placed + 1 /\ resting' = resting \cup {o}
          /\ put' = put \cup {o}
          /\ UNCHANGED <<dumped, canceled, passed, dict_market>>
      BY <1>1 DEF order_put_limit
    <2>2. o.market = m /\ o.id = placed + 1
      OBVIOUS
    <2> HIDE DEF o
    <2>3. Logged' = Logged \cup {o} /\ Numbered' = Numbered \cup {o}
      BY <2>1 DEF Logged, Numbered
    <2>4. placed \in Nat /\ \A p \in Numbered : p.id \in 1..placed
      BY DEF ListingInv, IdsInv
    <2>5. o \notin canceled
      BY <2>2, <2>4 DEF Numbered
    <2>6. IdsInv'
      BY <2>1, <2>2, <2>3, <2>4 DEF IdsInv
    <2>7. NoneBack'
      BY <2>1, <2>3 DEF ListingInv, NoneBack, Summarised
    <2>8. NoneLost'
      BY <2>1, <2>2, <2>3, <2>5 DEF ListingInv, NoneLost
    <2>9. QED
      BY <2>2, <2>3, <2>6, <2>7, <2>8 DEF ListingInv
  <1>2. CASE Undefined
    BY <1>2, UnlistedKeeps DEF Undefined, memory, counts, Summarised
  <1>3. QED
    BY <1>1, <1>2 DEF order_put_limit

LEMMA CancelLists ==
  ASSUME ListingInv, NEW o \in resting, order_cancel(o)
  PROVE  ListingInv'
  <1>1. /\ resting' = resting \ {o} /\ canceled' = canceled \cup {o}
        /\ UNCHANGED <<dumped, put, passed, placed, dict_market>>
    BY DEF order_cancel, counts
  <1>2. Logged' = Logged /\ Numbered' = Numbered
    BY <1>1 DEF Logged, Numbered
  <1>3. NoneBack'
    BY <1>1, <1>2 DEF ListingInv, NoneBack, Summarised
  <1>4. NoneLost'
    BY <1>1, <1>2 DEF ListingInv, NoneLost
  <1>5. QED
    BY <1>1, <1>2, <1>3, <1>4 DEF ListingInv, IdsInv

LEMMA DumpLists ==
  ASSUME ListingInv, dump_orders
  PROVE  ListingInv'
  <1>1. /\ dumped' = {o \in resting : o.market \in NameSet(settings.markets)}
        /\ put' = {} /\ canceled' = {} /\ passed' = Markets \ NameSet(settings.markets)
        /\ UNCHANGED <<resting, dict_market, placed>>
    BY DEF dump_orders, DumpedMarkets, memory, counts
  <1>2. Logged' = dumped' /\ Numbered' \subseteq Numbered
    BY <1>1 DEF Logged, Numbered
  <1>3. NoneBack'
    BY <1>1, <1>2 DEF NoneBack
  <1>4. NoneLost'
    BY <1>1, <1>2 DEF ListingInv, NoneLost
  <1>5. \A o \in Logged' : o.market \in Markets
    BY <1>1, <1>2 DEF ListingInv, NoneLost
  <1>6. QED
    BY <1>1, <1>2, <1>3, <1>4, <1>5 DEF ListingInv, IdsInv

LEMMA UpdateLists ==
  ASSUME ListingInv, on_cmd_listing_update
  PROVE  ListingInv'
  <1>1. \A m : Summarised(m)' => Summarised(m)
    <2>1. CASE dict_market' = load_markets_listing
      BY <2>1 DEF load_markets_listing, Summarised
    <2>2. CASE dict_market' = dict_market
      BY <2>2 DEF Summarised
    <2>3. QED
      BY <2>1, <2>2 DEF on_cmd_listing_update
  <1>2. UNCHANGED <<resting, saved, placed, passed>>
    BY DEF on_cmd_listing_update, counts
  <1>3. QED
    BY <1>1, <1>2, UnlistedKeeps

LEMMA ListingNextInv ==
  ASSUME ListingInv, [ListingNext]_listingVars
  PROVE  ListingInv'
  <1>1. CASE Undefined \/ Stop \/ (\E f \in Files : EditFile(f)) \/ UNCHANGED listingVars
    <2>1. UNCHANGED <<resting, saved, placed, passed, dict_market>>
      BY <1>1 DEF Undefined, Stop, EditFile, listingVars, memory, counts
    <2>2. QED
      BY <2>1, UnlistedKeeps DEF Summarised
  <1>2. CASE Start
    BY <1>2, StartLists
  <1>3. CASE on_cmd_listing_update
    BY <1>3, UpdateLists
  <1>4. ASSUME NEW m \in Markets, order_put_limit(m) PROVE ListingInv'
    BY <1>4, PutLists
  <1>5. ASSUME NEW o \in resting, order_cancel(o) PROVE ListingInv'
    BY <1>5, CancelLists
  <1>6. CASE dump_orders
    BY <1>6, DumpLists
  <1>7. QED
    BY <1>1, <1>2, <1>3, <1>4, <1>5, <1>6
       DEF ListingNext, StartShifted, on_cmd_asset_list, get_market_summary

(* Only a start brings an engine up.                                       *)
LEMMA OrdersStayNext ==
  ASSUME ListingInv, [ListingNext]_listingVars
  PROVE  OrdersStay
  <1> SUFFICES ASSUME engine = "down", engine' = "up"
               PROVE  /\ \A o \in resting' \ resting : ~Summarised(o.market)
                      /\ \A o \in resting : o.market \in NameSet(file.markets) =>
                            o \in resting' \/ o.market \in passed
    BY DEF OrdersStay
  <1>1. Start
    BY DEF ListingNext, StartShifted, Stop, Undefined, EditFile, on_cmd_listing_update,
           on_cmd_asset_list, get_market_summary, order_put_limit, order_cancel,
           dump_orders, listingVars
  <1>2. resting' = {o \in Logged \ canceled : o.market \in NameSet(file.markets)}
    BY <1>1 DEF Start, LoadedOrders, OfMarkets, Logged
  <1>3. QED
    BY <1>2 DEF ListingInv, NoneBack, NoneLost

(* me_config.c, me_dump.c, me_load.c: what is logged and dumped is what is *)
(* in the books, except for markets that are not known or not listed.      *)
THEOREM ListingInvariant == ListingSpec => []ListingInv
  <1>1. ListingInv /\ [ListingNext]_listingVars => ListingInv'
    BY ListingNextInv
  <1>2. QED
    BY ListingInitInv, <1>1, PTL DEF ListingSpec

(* me_dump.c:dump_orders, me_load.c: a new engine has the orders that the  *)
(* last one had, but those of markets which the file or the last slice did *)
(* not list, and gets others back only with markets the last one had not.  *)
THEOREM OrdersAreKept == ListingSpec => OrdersKept
  <1>1. ListingInv /\ [ListingNext]_listingVars => [OrdersStay]_listingVars
    BY OrdersStayNext
  <1>2. ListingSpec => [][OrdersStay]_listingVars
    BY ListingInvariant, <1>1, PTL DEF ListingSpec
  <1>3. QED
    BY <1>2 DEF OrdersStay, OrdersKept
================================================================================
