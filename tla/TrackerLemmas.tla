--------------------------- MODULE TrackerLemmas ---------------------------
(***************************************************************************)
(* What the operators of Tracker do to a tracker, for every value of the   *)
(* constants: lemmas for the state machines that are built from them, and, *)
(* first, the induction that they rest on.                                 *)
(***************************************************************************)
EXTENDS Tracker, FiniteSetTheorems, TLAPS

-----------------------------------------------------------------------------
(* Induction and recursion in a form that needs no operator parameter: a   *)
(* property is the set of the values that have it, and the step of a fold  *)
(* is a function.                                                          *)

(* Among finite sets there is one that has no proper subset among them.    *)
(* (Take the counterexamples for T: it is induction over finite sets.)     *)
LEMMA SubsetMin ==
  ASSUME NEW T, T # {}, \A x \in T : IsFiniteSet(x)
  PROVE  \E x \in T : \A y \in T : y \subseteq x => y = x
  <1> DEFINE S == UNION T
  <1>1. T \subseteq FiniteSubsetsOf(S)
    BY DEF FiniteSubsetsOf
  <1>2. \E x \in T : \A y \in T : ~ (<<y, x>> \in StrictSubsetOrdering(S))
    BY <1>1, FS_StrictSubsetOrderingWellFounded, WFMin
  <1> QED BY <1>2 DEF StrictSubsetOrdering

(* A set of natural numbers that is not empty has a least element.         *)
LEMMA Least ==
  ASSUME NEW T \in SUBSET Nat, T # {}
  PROVE  \E x \in T : \A y \in T : x <= y
  <1> DEFINE D == {0..n : n \in T}
  <1>1. \A x \in D : IsFiniteSet(x)
    <2>1. \A n \in T : IsFiniteSet(0..n)
      BY FS_Interval
    <2> QED BY <2>1
  <1>2. PICK x \in D : \A y \in D : y \subseteq x => y = x
    <2>1. D # {}
      OBVIOUS
    <2> HIDE DEF D
    <2> QED BY <1>1, <2>1, SubsetMin
  <1>3. PICK n \in T : x = 0..n
    OBVIOUS
  <1>4. \A m \in T : 0..m \subseteq 0..n => 0..m = 0..n
    BY <1>2, <1>3
  <1>5. ASSUME NEW m \in T PROVE n <= m
    <2> SUFFICES ASSUME m < n PROVE FALSE
      OBVIOUS
    <2>1. 0..m \subseteq 0..n
      OBVIOUS
    <2>2. n \in 0..n /\ n \notin 0..m
      OBVIOUS
    <2> QED BY <1>4, <2>1, <2>2
  <1> QED BY <1>5

(* Induction: a set that has 0 and is closed under successor has every     *)
(* natural number.                                                         *)
LEMMA NatInd ==
  ASSUME NEW S, 0 \in S, \A n \in Nat : n \in S => n + 1 \in S
  PROVE  Nat \subseteq S
  <1> SUFFICES ASSUME ~ (Nat \subseteq S) PROVE FALSE
    OBVIOUS
  <1>1. PICK x \in Nat \ S : \A y \in Nat \ S : x <= y
    <2> DEFINE T == Nat \ S
    <2>1. T \in SUBSET Nat /\ T # {}
      OBVIOUS
    <2> QED BY <2>1, Least
  <1>2. x # 0 /\ x - 1 \in Nat
    BY <1>1
  <1>3. x - 1 \in S
    BY <1>1, <1>2
  <1> QED BY <1>1, <1>2, <1>3

(* The same up to a bound: what holds at 0 and passes from each number     *)
(* below n to the next holds from 0 to n.                                  *)
LEMMA UpTo ==
  ASSUME NEW n \in Nat, NEW S, 0 \in S,
         \A i \in 1..n : i - 1 \in S => i \in S
  PROVE  0..n \subseteq S
  <1> DEFINE P == {k \in Nat : k \in 0..n => k \in S}
  <1>1. 0 \in P
    OBVIOUS
  <1>2. ASSUME NEW k \in Nat, k \in P PROVE k + 1 \in P
    <2> SUFFICES ASSUME k + 1 \in 0..n PROVE k + 1 \in S
      OBVIOUS
    <2>1. k \in S /\ k + 1 \in 1..n
      BY <1>2
    <2>2. (k + 1) - 1 = k
      OBVIOUS
    <2> QED BY <2>1, <2>2
  <1>3. Nat \subseteq P
    <2> HIDE DEF P
    <2> QED BY <1>1, <1>2, NatInd
  <1> QED BY <1>3

(* g folds step over the numbers 1..n: it starts from x0, and its value at *)
(* i comes from the one at i - 1.                                          *)
IsSeqFold(g, n, X, x0, step) ==
    /\ g \in [0..n -> X]
    /\ g[0] = x0
    /\ \A i \in 1..n : g[i] = step[<<g[i - 1], i>>]

(* Such a fold exists.                                                     *)
LEMMA SeqFold ==
  ASSUME NEW X, NEW x0 \in X, NEW n \in Nat, NEW step \in [X \X (1..n) -> X]
  PROVE  \E g : IsSeqFold(g, n, X, x0, step)
  <1> DEFINE Fits(k, g) ==
               /\ g[0] = x0
               /\ \A i \in 1..k : g[i] = step[<<g[i - 1], i>>]
             P == {k \in 0..n : \E g \in [0..k -> X] : Fits(k, g)}
  <1>1. 0 \in P
    <2> DEFINE g == [i \in 0..0 |-> x0]
    <2>1. g \in [0..0 -> X] /\ g[0] = x0
      OBVIOUS
    <2>2. Fits(0, g)
      <3> HIDE DEF g
      <3> QED BY <2>1
    <2> HIDE DEF g, Fits
    <2> QED BY <2>1, <2>2
  <1>2. ASSUME NEW k \in 1..n, k - 1 \in P PROVE k \in P
    <2>1. PICK g \in [0..(k - 1) -> X] : Fits(k - 1, g)
      BY <1>2
    <2> DEFINE h == [i \in 0..k |-> IF i = k THEN step[<<g[k - 1], k>>] ELSE g[i]]
    <2>2. g[k - 1] \in X /\ step[<<g[k - 1], k>>] \in X
      BY <2>1
    <2>3. h \in [0..k -> X]
      BY <2>2
    <2>4. h[0] = x0
      BY <2>1
    <2>5. ASSUME NEW i \in 1..k PROVE h[i] = step[<<h[i - 1], i>>]
      <3>1. CASE i = k
        <4>1. h[k - 1] = g[k - 1] /\ h[k] = step[<<g[k - 1], k>>]
          OBVIOUS
        <4> HIDE DEF h
        <4> QED BY <3>1, <4>1
      <3>2. CASE i # k
        <4>1. i \in 1..(k - 1) /\ i - 1 \in 0..(k - 1)
          BY <3>2
        <4>2. h[i] = g[i] /\ h[i - 1] = g[i - 1]
          BY <3>2, <4>1
        <4> HIDE DEF h
        <4> QED BY <2>1, <4>1, <4>2
      <3> QED BY <3>1, <3>2
    <2>6. Fits(k, h)
      <3> HIDE DEF h
      <3> QED BY <2>4, <2>5
    <2> HIDE DEF h, Fits
    <2> QED BY <2>3, <2>6
  <1>3. n \in P
    <2> HIDE DEF P
    <2>1. 0..n \subseteq P
      BY <1>1, <1>2, UpTo
    <2> QED BY <2>1
  <1> QED BY <1>3 DEF IsSeqFold

(* The element that CHOOSE x \in T : TRUE gives.                            *)
AnyOf(T) == CHOOSE x \in T : TRUE

(* g folds step over the subsets of S, which it takes apart in the order   *)
(* in which CHOOSE gives the elements.                                     *)
IsSetFold(g, S, X, x0, step) ==
    /\ g \in [SUBSET S -> X]
    /\ g[{}] = x0
    /\ \A T \in SUBSET S : T # {} =>
          g[T] = step[<<g[T \ {AnyOf(T)}], AnyOf(T)>>]

(* Such a fold exists when S is finite.                                    *)
LEMMA SetFold ==
  ASSUME NEW S, IsFiniteSet(S), NEW X, NEW x0 \in X, NEW step \in [X \X S -> X]
  PROVE  \E g : IsSetFold(g, S, X, x0, step)
  <1> DEFINE Small(k) == {T \in SUBSET S : Cardinality(T) <= k}
             Fits(k, g) ==
               \A T \in Small(k) :
                 g[T] = IF T = {} THEN x0
                        ELSE step[<<g[T \ {AnyOf(T)}], AnyOf(T)>>]
             P == {k \in Nat : \E g \in [Small(k) -> X] : Fits(k, g)}
  <1>1. \A T \in SUBSET S : IsFiniteSet(T) /\ Cardinality(T) \in Nat
    BY FS_Subset, FS_CardinalityType
  <1>2. \A T \in SUBSET S : T # {} =>
          /\ AnyOf(T) \in S
          /\ T \ {AnyOf(T)} \in SUBSET S
          /\ Cardinality(T \ {AnyOf(T)}) = Cardinality(T) - 1
    <2> SUFFICES ASSUME NEW T \in SUBSET S, T # {}
                 PROVE  /\ AnyOf(T) \in T
                        /\ Cardinality(T \ {AnyOf(T)}) = Cardinality(T) - 1
      OBVIOUS
    <2>1. AnyOf(T) \in T
      BY DEF AnyOf
    <2> QED BY <1>1, <2>1, FS_RemoveElement
  <1>3. 0 \in P
    <2> DEFINE g == [T \in Small(0) |-> x0]
    <2>1. g \in [Small(0) -> X]
      OBVIOUS
    <2>2. \A T \in Small(0) : T = {}
      BY <1>1, FS_EmptySet
    <2>3. Fits(0, g)
      BY <2>2
    <2> QED BY <2>1, <2>3
  <1>4. ASSUME NEW k \in Nat, k \in P PROVE k + 1 \in P
    <2>1. PICK g \in [Small(k) -> X] : Fits(k, g)
      BY <1>4
    <2> DEFINE value(T) == IF T = {} THEN x0
                           ELSE step[<<g[T \ {AnyOf(T)}], AnyOf(T)>>]
               h == [T \in Small(k + 1) |-> value(T)]
    <2>2. \A T \in Small(k + 1) : T # {} => T \ {AnyOf(T)} \in Small(k)
      BY <1>1, <1>2
    <2>3. \A T \in Small(k + 1) : value(T) \in X
      BY <1>2, <2>2
    <2>4. h \in [Small(k + 1) -> X]
      BY <2>3
    <2>5. \A T \in Small(k) : T \in Small(k + 1) /\ h[T] = g[T]
      BY <1>1, <2>1
    <2>6. Fits(k + 1, h)
      <3> SUFFICES ASSUME NEW T \in Small(k + 1), T # {}
                   PROVE  h[T] = step[<<h[T \ {AnyOf(T)}], AnyOf(T)>>]
        OBVIOUS
      <3>1. h[T] = step[<<g[T \ {AnyOf(T)}], AnyOf(T)>>]
        OBVIOUS
      <3>2. h[T \ {AnyOf(T)}] = g[T \ {AnyOf(T)}]
        BY <2>2, <2>5
      <3> HIDE DEF h
      <3> QED BY <3>1, <3>2
    <2>7. k + 1 \in Nat
      OBVIOUS
    <2>8. \E f \in [Small(k + 1) -> X] : Fits(k + 1, f)
      <3> HIDE DEF h, Fits, Small
      <3> QED BY <2>4, <2>6
    <2> HIDE DEF Fits, Small
    <2> QED BY <2>7, <2>8
  <1>5. Cardinality(S) \in P
    <2>1. Nat \subseteq P
      <3> HIDE DEF P
      <3> QED BY <1>3, <1>4, NatInd
    <2> QED BY <1>1, <2>1
  <1>6. PICK g \in [Small(Cardinality(S)) -> X] : Fits(Cardinality(S), g)
    BY <1>5
  <1>7. Small(Cardinality(S)) = SUBSET S
    BY FS_Subset
  <1>8. g \in [SUBSET S -> X]
    BY <1>6, <1>7
  <1>9. \A T \in SUBSET S :
          g[T] = IF T = {} THEN x0 ELSE step[<<g[T \ {AnyOf(T)}], AnyOf(T)>>]
    BY <1>6, <1>7
  <1>10. g[{}] = x0
    BY <1>9
  <1> QED BY <1>8, <1>9, <1>10 DEF IsSetFold

-----------------------------------------------------------------------------
(* Sums over finite sets of transactions.                                  *)

(* The function that SumOver(S, amount) evaluates at S.                    *)
IsSum(g, S, amount) ==
    g = [T \in SUBSET S |->
            IF T = {} THEN 0
            ELSE amount[AnyOf(T)] + g[T \ {AnyOf(T)}]]

(* Two such functions agree where both are defined.                        *)
LEMMA SumsAgree ==
  ASSUME NEW S, IsFiniteSet(S), NEW R \in SUBSET S, NEW amount, NEW g, NEW h,
         IsSum(g, S, amount), IsSum(h, R, amount)
  PROVE  \A T \in SUBSET R : h[T] = g[T]
  <1> DEFINE Differ == {T \in SUBSET R : h[T] # g[T]}
  <1> SUFFICES ASSUME Differ # {} PROVE FALSE
    OBVIOUS
  <1>1. PICK T \in Differ : \A U \in Differ : U \subseteq T => U = T
    <2>1. \A T \in Differ : IsFiniteSet(T)
      BY FS_Subset
    <2> HIDE DEF Differ
    <2> QED BY <2>1, SubsetMin
  <1> DEFINE c == AnyOf(T)
  <1>2. T # {}
    <2>1. h[{}] = 0 /\ g[{}] = 0
      BY DEF IsSum
    <2> QED BY <1>1, <2>1
  <1>3. c \in T
    BY <1>2 DEF AnyOf
  <1>4. h[T] = amount[c] + h[T \ {c}] /\ g[T] = amount[c] + g[T \ {c}]
    BY <1>1, <1>2 DEF IsSum
  <1> HIDE DEF c
  <1>5. h[T \ {c}] = g[T \ {c}]
    BY <1>1, <1>3
  <1> QED BY <1>1, <1>4, <1>5

(* SumOver takes its value from such a function, with natural values.      *)
LEMMA SumOverIsSum ==
  ASSUME NEW S, IsFiniteSet(S), NEW amount, \A x \in S : amount[x] \in Nat
  PROVE  \E g \in [SUBSET S -> Nat] : IsSum(g, S, amount) /\ SumOver(S, amount) = g[S]
  <1> DEFINE step == [p \in Nat \X S |-> amount[p[2]] + p[1]]
  <1>1. step \in [Nat \X S -> Nat]
    OBVIOUS
  <1>2. PICK g : IsSetFold(g, S, Nat, 0, step)
    <2>1. \A x0 \in Nat : \E g : IsSetFold(g, S, Nat, x0, step)
      <3> HIDE DEF step
      <3> QED BY <1>1, SetFold
    <2> QED BY <2>1
  <1>3. /\ g \in [SUBSET S -> Nat]
        /\ g[{}] = 0
        /\ \A T \in SUBSET S : T # {} => g[T] = step[<<g[T \ {AnyOf(T)}], AnyOf(T)>>]
    BY <1>2 DEF IsSetFold
  <1>4. ASSUME NEW T \in SUBSET S
        PROVE  g[T] = IF T = {} THEN 0
                      ELSE amount[AnyOf(T)] + g[T \ {AnyOf(T)}]
    <2>1. CASE T = {}
      BY <1>3, <2>1
    <2>2. CASE T # {}
      <3> DEFINE c == AnyOf(T)
      <3>1. c \in S /\ T \ {c} \in SUBSET S
        BY <2>2 DEF AnyOf
      <3>2. g[T] = step[<<g[T \ {c}], c>>]
        BY <1>3, <2>2
      <3> HIDE DEF c
      <3>3. step[<<g[T \ {c}], c>>] = amount[c] + g[T \ {c}]
        BY <1>3, <3>1
      <3> QED BY <2>2, <3>2, <3>3 DEF c
    <2> QED BY <2>1, <2>2
  <1>5. IsSum(g, S, amount)
    BY <1>3, <1>4 DEF IsSum
  <1> HIDE DEF step
  <1>6. PICK h : IsSum(h, S, amount) /\ SumOver(S, amount) = h[S]
    BY <1>5 DEF IsSum, SumOver, AnyOf
  <1>7. h[S] = g[S]
    <2>1. \A T \in SUBSET S : h[T] = g[T]
      <3>1. S \in SUBSET S
        OBVIOUS
      <3>2. \A R \in SUBSET S : \A k : IsSum(k, R, amount) => \A T \in SUBSET R : k[T] = g[T]
        BY <1>5, SumsAgree
      <3> QED BY <1>6, <3>1, <3>2
    <2> QED BY <2>1
  <1> QED BY <1>3, <1>5, <1>6, <1>7

(* An empty sum is 0.                                                      *)
LEMMA SumOverEmpty ==
  ASSUME NEW amount
  PROVE  SumOver({}, amount) = 0
  <1>1. IsFiniteSet({})
    BY FS_EmptySet
  <1>2. PICK g : IsSum(g, {}, amount) /\ SumOver({}, amount) = g[{}]
    BY <1>1, SumOverIsSum
  <1>3. g[{}] = 0
    BY <1>2 DEF IsSum
  <1> QED BY <1>2, <1>3

(* The value of a sum does not depend on the order in which CHOOSE takes   *)
(* the elements: any of them can be taken out first.                       *)
LEMMA SumOverMember ==
  ASSUME NEW S, IsFiniteSet(S), NEW amount, \A y \in S : amount[y] \in Nat,
         NEW x \in S
  PROVE  SumOver(S, amount) = amount[x] + SumOver(S \ {x}, amount)
  <1>1. PICK g \in [SUBSET S -> Nat] : IsSum(g, S, amount)
    BY SumOverIsSum
  <1>2. \A T \in SUBSET S : SumOver(T, amount) = g[T]
    <2> SUFFICES ASSUME NEW T \in SUBSET S PROVE SumOver(T, amount) = g[T]
      OBVIOUS
    <2>1. IsFiniteSet(T) /\ \A y \in T : amount[y] \in Nat
      BY FS_Subset
    <2>2. PICK h : IsSum(h, T, amount) /\ SumOver(T, amount) = h[T]
      BY <2>1, SumOverIsSum
    <2>3. \A U \in SUBSET T : h[U] = g[U]
      BY <1>1, <2>2, SumsAgree
    <2>4. T \in SUBSET T
      OBVIOUS
    <2> QED BY <2>2, <2>3, <2>4
  <1>3. \A T \in SUBSET S : T # {} =>
          AnyOf(T) \in T /\ g[T] = amount[AnyOf(T)] + g[T \ {AnyOf(T)}]
    BY <1>1 DEF IsSum, AnyOf
  <1> DEFINE Wrong == {T \in SUBSET S : \E y \in T : g[T] # amount[y] + g[T \ {y}]}
  <1>4. Wrong = {}
    <2> SUFFICES ASSUME Wrong # {} PROVE FALSE
      OBVIOUS
    <2>1. PICK T \in Wrong : \A U \in Wrong : U \subseteq T => U = T
      <3>1. \A T \in Wrong : IsFiniteSet(T)
        BY FS_Subset
      <3>2. Wrong # {}
        OBVIOUS
      <3> HIDE DEF Wrong
      <3>3. \E T \in Wrong : \A U \in Wrong : U \subseteq T => U = T
        BY <3>1, <3>2, SubsetMin
      <3> QED BY <3>3
    <2>2. PICK y \in T : g[T] # amount[y] + g[T \ {y}]
      BY <2>1
    <2> DEFINE c == AnyOf(T)
    <2>3. T \in SUBSET S /\ c \in T /\ g[T] = amount[c] + g[T \ {c}]
      BY <1>3, <2>1, <2>2
    <2> HIDE DEF c
    <2>4. c # y
      BY <2>2, <2>3
    <2>5. T \ {c} \notin Wrong /\ T \ {y} \notin Wrong
      BY <2>1, <2>2, <2>3
    <2>6. g[T \ {c}] = amount[y] + g[(T \ {c}) \ {y}]
      BY <2>2, <2>3, <2>4, <2>5
    <2>7. g[T \ {y}] = amount[c] + g[(T \ {y}) \ {c}]
      BY <2>2, <2>3, <2>4, <2>5
    <2>8. (T \ {c}) \ {y} = (T \ {y}) \ {c}
      OBVIOUS
    <2>9. /\ amount[y] \in Nat /\ amount[c] \in Nat
          /\ g[(T \ {y}) \ {c}] \in Nat
      BY <2>2, <2>3
    <2>10. amount[c] + (amount[y] + g[(T \ {y}) \ {c}])
              = amount[y] + (amount[c] + g[(T \ {y}) \ {c}])
      BY <2>9
    <2> QED BY <2>2, <2>3, <2>6, <2>7, <2>8, <2>10
  <1>5. S \in SUBSET S /\ S \ {x} \in SUBSET S
    OBVIOUS
  <1>6. g[S] = amount[x] + g[S \ {x}]
    BY <1>4, <1>5
  <1> QED BY <1>2, <1>5, <1>6

(* A sum of natural numbers is a natural number.                           *)
LEMMA SumOverNat ==
  ASSUME NEW S, IsFiniteSet(S), NEW amount, \A x \in S : amount[x] \in Nat
  PROVE  SumOver(S, amount) \in Nat
  <1>1. PICK g \in [SUBSET S -> Nat] : SumOver(S, amount) = g[S]
    BY SumOverIsSum
  <1>2. S \in SUBSET S
    OBVIOUS
  <1> QED BY <1>1, <1>2

-----------------------------------------------------------------------------
(* One transaction more or less.                                           *)

Sides == {"mempool", "confirmed"}

(* The trackers whose balance is the sum of what they hold.                *)
Balanced == {tr \in Trackers : BalanceIsSum(tr)}

(* A version of a transaction counts on one of the two sides.              *)
LEMMA SideType == \A h : Side(h) \in Sides
  BY DEF Side, Sides

(* What a tracker holds on a side is a finite set of transactions whose    *)
(* amounts are natural numbers.                                            *)
LEMMA HeldOnFinite ==
  ASSUME NEW tr, NEW side
  PROVE  /\ HeldOn(tr, side) \subseteq Txids
         /\ IsFiniteSet(HeldOn(tr, side))
         /\ \A t \in HeldOn(tr, side) : Funded[t] \in Nat /\ Spent[t] \in Nat
  <1>1. HeldOn(tr, side) \subseteq Txids
    BY DEF HeldOn
  <1> QED BY <1>1, TrackerAssumption, FS_Subset

(* A change of the side of a version leaves the other side alone.          *)
LEMMA SideReplaced ==
  ASSUME NEW b \in Balances, NEW h, NEW new \in Balance
  PROVE  LET a == [b EXCEPT ![Side(h)] = new]
         IN /\ a \in Balances
            /\ a[Side(h)] = new
            /\ \A side \in Sides \ {Side(h)} : a[side] = b[side]
  BY SideType DEF Balances, Sides

(* The versions a tracker can hold, and what it knows of each transaction. *)
Version == Heights \cup {Absent}
Views == [Txids -> Version]

LEMMA VersionType ==
  /\ Heights \subseteq Nat
  /\ Absent \notin Heights
  BY TrackerAssumption DEF Heights, Absent, Unconfirmed

(* remove_transaction on a tracker whose balance is right: the copy is     *)
(* gone, the balance is right again (nothing underflows), and the rest is  *)
(* as it was.                                                              *)
LEMMA RemoveEffect ==
  ASSUME NEW tr \in Balanced, NEW t \in Txids
  PROVE  LET next == RemoveTransaction(tr, t)
         IN /\ next \in Balanced
            /\ next.transactions = [tr.transactions EXCEPT ![t] = Absent]
            /\ next.queue = tr.queue
            /\ next.loading = tr.loading
            /\ next.sent = tr.sent
  <1> DEFINE next == RemoveTransaction(tr, t)
             h == tr.transactions[t]
             s == Side(h)
  <1>1. /\ tr \in Trackers
        /\ tr.transactions \in Views
        /\ tr.balance \in Balances
        /\ h \in Version
    BY DEF Balanced, Trackers, Views, Version
  <1>2. CASE h = Absent
    <2>1. next = tr
      BY <1>2 DEF RemoveTransaction
    <2>2. tr.transactions = [tr.transactions EXCEPT ![t] = Absent]
      BY <1>1, <1>2 DEF Views
    <2> QED BY <2>1, <2>2
  <1>3. CASE h # Absent
    <2> DEFINE a == Account(tr.balance, [txid |-> t, height |-> h], -1)
    <2>1. next = [tr EXCEPT !.transactions[t] = Absent, !.balance = a]
      BY <1>3 DEF RemoveTransaction
    <2>2. s \in Sides
      BY SideType
    <2>3. t \in HeldOn(tr, s)
      BY <1>3 DEF HeldOn
    <2>4. tr.balance[s] = [funded |-> SumOver(HeldOn(tr, s), Funded),
                           spent  |-> SumOver(HeldOn(tr, s), Spent)]
      BY <2>2 DEF Balanced, BalanceIsSum, Sides
    <2> DEFINE rest == HeldOn(tr, s) \ {t}
    <2>5. /\ SumOver(HeldOn(tr, s), Funded) = Funded[t] + SumOver(rest, Funded)
          /\ SumOver(HeldOn(tr, s), Spent) = Spent[t] + SumOver(rest, Spent)
      BY <2>3, HeldOnFinite, SumOverMember
    <2>6. SumOver(rest, Funded) \in Nat /\ SumOver(rest, Spent) \in Nat
      <3>1. IsFiniteSet(rest) /\ \A x \in rest : Funded[x] \in Nat /\ Spent[x] \in Nat
        BY HeldOnFinite, FS_Subset
      <3> QED BY <3>1, SumOverNat
    <2>7. Funded[t] \in Nat /\ Spent[t] \in Nat
      BY TrackerAssumption
    <2>8. /\ tr.balance[s].funded + (-1) * Funded[t] = SumOver(rest, Funded)
          /\ tr.balance[s].spent + (-1) * Spent[t] = SumOver(rest, Spent)
      BY <2>4, <2>5, <2>6, <2>7
    <2> HIDE DEF s, h, rest, next
    <2>9. /\ a \in Balances
          /\ a[s] = [funded |-> SumOver(rest, Funded), spent |-> SumOver(rest, Spent)]
          /\ \A side \in Sides \ {s} : a[side] = tr.balance[side]
      <3> DEFINE new == [funded |-> SumOver(rest, Funded), spent |-> SumOver(rest, Spent)]
      <3>1. a = [tr.balance EXCEPT ![Side(h)] = new]
        BY <2>8 DEF Account, s
      <3>2. new \in Balance
        BY <2>6 DEF Balance
      <3> HIDE DEF a, new
      <3>3. /\ a \in Balances /\ a[Side(h)] = new
            /\ \A side \in Sides \ {Side(h)} : a[side] = tr.balance[side]
        BY <1>1, <3>1, <3>2, SideReplaced
      <3> QED BY <3>3 DEF new, s
    <2> HIDE DEF a
    <2>10. /\ next.transactions = [tr.transactions EXCEPT ![t] = Absent]
           /\ next.balance = a
           /\ next.queue = tr.queue
           /\ next.loading = tr.loading
           /\ next.sent = tr.sent
      BY <1>1, <2>1 DEF Trackers
    <2>11. next \in Trackers
      BY <1>1, <2>1, <2>9 DEF Trackers
    <2>12. HeldOn(next, s) = rest
      BY <1>1, <2>10, VersionType DEF HeldOn, rest, Views
    <2>13. \A side \in Sides \ {s} : HeldOn(next, side) = HeldOn(tr, side)
      BY <1>1, <2>10 DEF HeldOn, Views, s, h
    <2>14. BalanceIsSum(next)
      <3> SUFFICES ASSUME NEW side \in Sides
                   PROVE  next.balance[side]
                            = [funded |-> SumOver(HeldOn(next, side), Funded),
                               spent  |-> SumOver(HeldOn(next, side), Spent)]
        BY DEF BalanceIsSum, Sides
      <3>1. CASE side = s
        BY <2>9, <2>10, <2>12, <3>1
      <3>2. CASE side # s
        <4>1. tr.balance[side] = [funded |-> SumOver(HeldOn(tr, side), Funded),
                                  spent  |-> SumOver(HeldOn(tr, side), Spent)]
          BY DEF Balanced, BalanceIsSum, Sides
        <4> QED BY <2>9, <2>10, <2>13, <3>2, <4>1
      <3> QED BY <3>1, <3>2
    <2> QED BY <2>10, <2>11, <2>14 DEF Balanced, next
  <1> QED BY <1>2, <1>3

(* add_transaction: the new version is held, once, whatever was before.    *)
LEMMA AddEffect ==
  ASSUME NEW tr \in Balanced, NEW tx \in Tx
  PROVE  LET next == AddTransaction(tr, tx)
         IN /\ next \in Balanced
            /\ next.transactions = [tr.transactions EXCEPT ![tx.txid] = tx.height]
            /\ next.queue = tr.queue
            /\ next.loading = tr.loading
            /\ next.sent = tr.sent
  <1> DEFINE t == tx.txid
             h == tx.height
             s == Side(h)
             cleared == RemoveTransaction(tr, t)
             next == AddTransaction(tr, tx)
             a == Account(cleared.balance, [txid |-> t, height |-> h], 1)
  <1>1. t \in Txids /\ h \in Heights /\ tx = [txid |-> t, height |-> h]
    BY DEF Tx
  <1>2. /\ cleared \in Balanced
        /\ cleared.transactions = [tr.transactions EXCEPT ![t] = Absent]
        /\ cleared.queue = tr.queue
        /\ cleared.loading = tr.loading
        /\ cleared.sent = tr.sent
    BY <1>1, RemoveEffect
  <1>3. next = [cleared EXCEPT !.transactions[t] = h, !.balance = a]
    BY <1>1 DEF AddTransaction
  <1>4. s \in Sides
    BY SideType
  <1> HIDE DEF t, h, cleared, next
  <1>5. /\ cleared \in Trackers
        /\ cleared.transactions \in Views
        /\ cleared.balance \in Balances
        /\ tr.transactions \in Views
    BY <1>2 DEF Balanced, Trackers, Views, Version
  <1> DEFINE held == HeldOn(cleared, s)
  <1>6. cleared.balance[s] = [funded |-> SumOver(held, Funded),
                              spent  |-> SumOver(held, Spent)]
    BY <1>2, <1>4 DEF Balanced, BalanceIsSum, Sides
  <1>7. t \notin held
    BY <1>1, <1>2, <1>5 DEF HeldOn, Views
  <1>8. /\ SumOver(held, Funded) \in Nat /\ SumOver(held, Spent) \in Nat
        /\ Funded[t] \in Nat /\ Spent[t] \in Nat
    BY <1>1, HeldOnFinite, SumOverNat, TrackerAssumption
  <1>9. /\ SumOver(held \cup {t}, Funded) = Funded[t] + SumOver(held, Funded)
        /\ SumOver(held \cup {t}, Spent) = Spent[t] + SumOver(held, Spent)
    <2> DEFINE more == held \cup {t}
    <2>1. /\ IsFiniteSet(more) /\ t \in more
          /\ \A x \in more : Funded[x] \in Nat /\ Spent[x] \in Nat
      BY <1>8, HeldOnFinite, FS_AddElement
    <2>2. more \ {t} = held
      BY <1>7
    <2> HIDE DEF more, held
    <2>3. /\ SumOver(more, Funded) = Funded[t] + SumOver(more \ {t}, Funded)
          /\ SumOver(more, Spent) = Spent[t] + SumOver(more \ {t}, Spent)
      BY <2>1, SumOverMember
    <2> QED BY <2>2, <2>3 DEF more
  <1> HIDE DEF s, held
  <1>10. /\ cleared.balance[s].funded + 1 * Funded[t] = SumOver(held \cup {t}, Funded)
         /\ cleared.balance[s].spent + 1 * Spent[t] = SumOver(held \cup {t}, Spent)
         /\ SumOver(held \cup {t}, Funded) \in Nat
         /\ SumOver(held \cup {t}, Spent) \in Nat
    BY <1>6, <1>8, <1>9
  <1>11. /\ a \in Balances
         /\ a[s] = [funded |-> SumOver(held \cup {t}, Funded),
                    spent  |-> SumOver(held \cup {t}, Spent)]
         /\ \A side \in Sides \ {s} : a[side] = cleared.balance[side]
    <2> DEFINE new == [funded |-> SumOver(held \cup {t}, Funded),
                       spent  |-> SumOver(held \cup {t}, Spent)]
    <2>1. a = [cleared.balance EXCEPT ![Side(h)] = new]
      BY <1>10 DEF Account, s
    <2>2. new \in Balance
      BY <1>10 DEF Balance
    <2> HIDE DEF a, new
    <2>3. /\ a \in Balances /\ a[Side(h)] = new
          /\ \A side \in Sides \ {Side(h)} : a[side] = cleared.balance[side]
      BY <1>5, <2>1, <2>2, SideReplaced
    <2> QED BY <2>3 DEF new, s
  <1> HIDE DEF a
  <1>12. /\ next.transactions = [cleared.transactions EXCEPT ![t] = h]
         /\ next.balance = a
         /\ next.queue = tr.queue
         /\ next.loading = tr.loading
         /\ next.sent = tr.sent
    BY <1>2, <1>3, <1>5 DEF Trackers
  <1>13. next \in Trackers
    BY <1>1, <1>3, <1>5, <1>11 DEF Trackers
  <1>14. next.transactions = [tr.transactions EXCEPT ![t] = h]
    BY <1>2, <1>5, <1>12 DEF Views
  <1>15. HeldOn(next, s) = held \cup {t}
    BY <1>1, <1>5, <1>12, VersionType DEF HeldOn, held, Views, s
  <1>16. \A side \in Sides \ {s} : HeldOn(next, side) = HeldOn(cleared, side)
    BY <1>1, <1>2, <1>5, <1>12 DEF HeldOn, Views, s
  <1>17. BalanceIsSum(next)
    <2> SUFFICES ASSUME NEW side \in Sides
                 PROVE  next.balance[side]
                          = [funded |-> SumOver(HeldOn(next, side), Funded),
                             spent  |-> SumOver(HeldOn(next, side), Spent)]
      BY DEF BalanceIsSum, Sides
    <2>1. CASE side = s
      BY <1>11, <1>12, <1>15, <2>1
    <2>2. CASE side # s
      <3>1. cleared.balance[side] = [funded |-> SumOver(HeldOn(cleared, side), Funded),
                                     spent  |-> SumOver(HeldOn(cleared, side), Spent)]
        BY <1>2 DEF Balanced, BalanceIsSum, Sides
      <3> QED BY <1>11, <1>12, <1>16, <2>2, <3>1
    <2> QED BY <2>1, <2>2
  <1> QED BY <1>12, <1>13, <1>14, <1>17 DEF Balanced, next, t, h

-----------------------------------------------------------------------------
(* One event, and a sequence of events.                                    *)

(* What an event makes of its transaction.                                 *)
Outcome(e) == IF e.kind = "Removed" THEN Absent ELSE e.tx.height

(* An event names a transaction and a version of it.                       *)
LEMMA EventType ==
  ASSUME NEW e \in Event
  PROVE  /\ e.tx \in Tx /\ e.tx.txid \in Txids /\ e.tx.height \in Heights
         /\ Outcome(e) \in Version
         /\ Announcement(e) \in Event
  BY DEF Event, AddressKinds, Tx, Outcome, Version, Announcement

(* The balance stays right while it and the transactions stay the same.    *)
LEMMA BalanceKept ==
  ASSUME NEW tr, NEW next, BalanceIsSum(tr),
         next.transactions = tr.transactions, next.balance = tr.balance
  PROVE  BalanceIsSum(next)
  <1>1. \A side : HeldOn(next, side) = HeldOn(tr, side)
    BY DEF HeldOn
  <1> QED BY <1>1 DEF BalanceIsSum

(* process_event while the history is loading: a realtime event waits.     *)
LEMMA QueueEffect ==
  ASSUME NEW tr \in Balanced, NEW e \in Event, tr.loading
  PROVE  LET next == ProcessEvent(tr, e, TRUE)
         IN /\ next \in Balanced
            /\ next.transactions = tr.transactions
            /\ next.queue = Append(tr.queue, e)
            /\ next.loading = tr.loading
            /\ next.sent = tr.sent
  <1> DEFINE next == ProcessEvent(tr, e, TRUE)
             queue == Append(tr.queue, e)
  <1>1. next = [tr EXCEPT !.queue = queue]
    BY DEF ProcessEvent
  <1>2. tr \in Trackers /\ queue \in Seq(Event)
    BY DEF Balanced, Trackers
  <1> HIDE DEF next, queue
  <1>3. /\ next \in Trackers
        /\ next.transactions = tr.transactions
        /\ next.balance = tr.balance
        /\ next.queue = queue
        /\ next.loading = tr.loading
        /\ next.sent = tr.sent
    BY <1>1, <1>2 DEF Trackers
  <1>4. BalanceIsSum(next)
    BY <1>3, BalanceKept DEF Balanced
  <1> QED BY <1>3, <1>4 DEF Balanced, next, queue

(* process_event otherwise: the event takes effect and is announced.       *)
LEMMA ApplyEffect ==
  ASSUME NEW tr \in Balanced, NEW e \in Event, NEW realtime \in BOOLEAN,
         ~ (realtime /\ tr.loading)
  PROVE  LET next == ProcessEvent(tr, e, realtime)
         IN /\ next \in Balanced
            /\ next.transactions = [tr.transactions EXCEPT ![e.tx.txid] = Outcome(e)]
            /\ next.queue = tr.queue
            /\ next.loading = tr.loading
            /\ next.sent = Append(tr.sent, Announcement(e))
  <1> DEFINE next == ProcessEvent(tr, e, realtime)
             applied == IF e.kind = "Removed" THEN RemoveTransaction(tr, e.tx.txid)
                                              ELSE AddTransaction(tr, e.tx)
             sent == Append(applied.sent, Announcement(e))
  <1>1. next = [applied EXCEPT !.sent = sent]
    BY DEF ProcessEvent
  <1>2. /\ applied \in Balanced
        /\ applied.transactions = [tr.transactions EXCEPT ![e.tx.txid] = Outcome(e)]
        /\ applied.queue = tr.queue
        /\ applied.loading = tr.loading
        /\ applied.sent = tr.sent
    <2>1. CASE e.kind = "Removed"
      BY <2>1, EventType, RemoveEffect DEF Outcome
    <2>2. CASE e.kind # "Removed"
      BY <2>2, EventType, AddEffect DEF Outcome
    <2> QED BY <2>1, <2>2
  <1>3. applied \in Trackers /\ sent \in Seq(Event)
    <2>1. Announcement(e) \in Event /\ applied \in Trackers
      BY <1>2, EventType DEF Balanced
    <2> HIDE DEF applied
    <2> QED BY <2>1 DEF Trackers
  <1> HIDE DEF next, applied, sent
  <1>4. /\ next \in Trackers
        /\ next.transactions = applied.transactions
        /\ next.balance = applied.balance
        /\ next.queue = applied.queue
        /\ next.loading = applied.loading
        /\ next.sent = sent
    BY <1>1, <1>3 DEF Trackers
  <1>5. BalanceIsSum(next)
    BY <1>2, <1>4, BalanceKept DEF Balanced
  <1>6. sent = Append(tr.sent, Announcement(e))
    BY <1>2 DEF sent
  <1> QED BY <1>2, <1>4, <1>5, <1>6 DEF Balanced, next

(* An event of the fetched history takes effect at once, loading or not.   *)
LEMMA HistoryEffect ==
  ASSUME NEW tr \in Balanced, NEW e \in Event
  PROVE  LET next == ProcessEvent(tr, e, FALSE)
         IN /\ next \in Balanced
            /\ next.transactions = [tr.transactions EXCEPT ![e.tx.txid] = Outcome(e)]
            /\ next.queue = tr.queue
            /\ next.loading = tr.loading
            /\ next.sent = Append(tr.sent, Announcement(e))
  <1>1. FALSE \in BOOLEAN /\ ~ (FALSE /\ tr.loading)
    OBVIOUS
  <1> QED BY <1>1, ApplyEffect

(* The trackers that ProcessAll(tr, es) goes through, one event at a time. *)
IsRun(f, X, tr, es) ==
    /\ f \in [0..Len(es) -> X]
    /\ f[0] = tr
    /\ \A n \in 1..Len(es) : f[n] = ProcessEvent(f[n - 1], es[n], FALSE)
    /\ ProcessAll(tr, es) = f[Len(es)]

(* They exist, for any set X of trackers that process_event does not leave.*)
LEMMA ProcessAllFold ==
  ASSUME NEW X, NEW tr \in X, NEW es \in Seq(Event),
         \A x \in X, e \in Event : ProcessEvent(x, e, FALSE) \in X
  PROVE  \E f : IsRun(f, X, tr, es)
  <1> DEFINE N == Len(es)
             step == [p \in X \X (1..N) |-> ProcessEvent(p[1], es[p[2]], FALSE)]
             Folds(f) == f = [n \in 0..N |->
                                IF n = 0 THEN tr ELSE ProcessEvent(f[n - 1], es[n], FALSE)]
  <1>1. N \in Nat /\ \A n \in 1..N : es[n] \in Event
    OBVIOUS
  <1>2. step \in [X \X (1..N) -> X]
    BY <1>1
  <1>3. PICK g : IsSeqFold(g, N, X, tr, step)
    <2> HIDE DEF N, step
    <2> QED BY <1>1, <1>2, SeqFold
  <1>4. Folds(g)
    <2>1. /\ g \in [0..N -> X] /\ g[0] = tr
          /\ \A n \in 1..N : g[n] = step[<<g[n - 1], n>>]
      <3> HIDE DEF N, step
      <3> QED BY <1>3 DEF IsSeqFold
    <2>2. \A n \in 1..N : g[n - 1] \in X
      <3> HIDE DEF N
      <3> QED BY <1>1, <2>1
    <2>3. \A n \in 1..N : g[n] = ProcessEvent(g[n - 1], es[n], FALSE)
      BY <2>1, <2>2
    <2> HIDE DEF N
    <2> QED BY <1>1, <2>1, <2>3
  <1>5. PICK f : Folds(f) /\ ProcessAll(tr, es) = f[N]
    BY <1>4 DEF ProcessAll
  <1>6. /\ f[0] = tr
        /\ \A n \in 1..N : f[n] = ProcessEvent(f[n - 1], es[n], FALSE)
        /\ DOMAIN f = 0..N
    <2> HIDE DEF N
    <2> QED BY <1>1, <1>5
  <1>7. \A n \in 0..N : f[n] \in X
    <2> DEFINE S == {n \in Nat : f[n] \in X}
    <2>1. 0 \in S
      BY <1>6
    <2>2. ASSUME NEW n \in 1..N, n - 1 \in S PROVE n \in S
      BY <1>1, <1>6, <2>2
    <2> HIDE DEF S, N
    <2>3. 0..N \subseteq S
      BY <1>1, <2>1, <2>2, UpTo
    <2> QED BY <2>3 DEF S
  <1>8. f \in [0..N -> X]
    <2>1. f = [n \in 0..N |-> f[n]]
      BY <1>5
    <2> HIDE DEF N
    <2> QED BY <1>7, <2>1
  <1> QED BY <1>5, <1>6, <1>8 DEF IsRun

-----------------------------------------------------------------------------
(* The end of loading, and a tracker from a saved state.                   *)

(* What ProcessAll keeps of a tracker whose balance is right.              *)
LEMMA ProcessAllEffect ==
  ASSUME NEW tr \in Balanced, NEW es \in Seq(Event)
  PROVE  LET next == ProcessAll(tr, es)
         IN next \in Balanced /\ next.queue = tr.queue /\ next.loading = tr.loading
  <1> DEFINE X == {x \in Balanced : x.queue = tr.queue /\ x.loading = tr.loading}
  <1>1. tr \in X
    OBVIOUS
  <1>2. \A x \in X, e \in Event : ProcessEvent(x, e, FALSE) \in X
    BY HistoryEffect
  <1>3. PICK f : f \in [0..Len(es) -> X] /\ ProcessAll(tr, es) = f[Len(es)]
    <2> HIDE DEF X
    <2>1. \E f : IsRun(f, X, tr, es)
      BY <1>1, <1>2, ProcessAllFold
    <2> QED BY <2>1 DEF IsRun
  <1>4. Len(es) \in 0..Len(es)
    OBVIOUS
  <1>5. f[Len(es)] \in X
    <2> HIDE DEF X
    <2> QED BY <1>3, <1>4
  <1> QED BY <1>3, <1>5

(* drain_queue: every event that waited takes effect, and none is left.    *)
LEMMA DrainEffect ==
  ASSUME NEW tr \in Balanced
  PROVE  /\ [tr EXCEPT !.queue = <<>>] \in Balanced
         /\ tr.queue \in Seq(Event)
         /\ DrainQueue(tr) \in Balanced
         /\ DrainQueue(tr).queue = <<>>
         /\ DrainQueue(tr).loading = tr.loading
  <1> DEFINE empty == [tr EXCEPT !.queue = <<>>]
  <1>1. tr \in Trackers /\ <<>> \in Seq(Event) /\ tr.queue \in Seq(Event)
    BY DEF Balanced, Trackers
  <1>2. /\ empty \in Trackers
        /\ empty.transactions = tr.transactions
        /\ empty.balance = tr.balance
        /\ empty.queue = <<>>
        /\ empty.loading = tr.loading
    BY <1>1 DEF Trackers
  <1>3. DrainQueue(tr) = ProcessAll(empty, tr.queue)
    BY DEF DrainQueue
  <1> HIDE DEF empty
  <1>4. BalanceIsSum(empty)
    BY <1>2, BalanceKept DEF Balanced
  <1>5. empty \in Balanced
    BY <1>2, <1>4 DEF Balanced
  <1>6. /\ ProcessAll(empty, tr.queue) \in Balanced
        /\ ProcessAll(empty, tr.queue).queue = empty.queue
        /\ ProcessAll(empty, tr.queue).loading = empty.loading
    BY <1>1, <1>5, ProcessAllEffect
  <1>7. /\ DrainQueue(tr) \in Balanced
        /\ DrainQueue(tr).queue = <<>>
        /\ DrainQueue(tr).loading = tr.loading
    BY <1>2, <1>3, <1>6
  <1> QED BY <1>1, <1>5, <1>7 DEF empty

(* set_loading: the queue is empty unless the tracker was and is live or   *)
(* loading.                                                                *)
LEMMA SetLoadingEffect ==
  ASSUME NEW tr \in Balanced, NEW loading \in BOOLEAN
  PROVE  LET from == IF tr.loading /\ ~loading THEN DrainQueue(tr) ELSE tr
             next == SetLoading(tr, loading)
         IN /\ next \in Balanced
            /\ next.transactions = from.transactions
            /\ next.queue = from.queue
            /\ next.loading = loading
            /\ next.sent = from.sent
  <1> DEFINE from == IF tr.loading /\ ~loading THEN DrainQueue(tr) ELSE tr
             next == SetLoading(tr, loading)
  <1>1. next = [from EXCEPT !.loading = loading]
    BY DEF SetLoading
  <1>2. from \in Balanced
    BY DrainEffect
  <1> HIDE DEF from, next
  <1>3. /\ next \in Trackers
        /\ next.transactions = from.transactions
        /\ next.balance = from.balance
        /\ next.queue = from.queue
        /\ next.loading = loading
        /\ next.sent = from.sent
    BY <1>1, <1>2 DEF Balanced, Trackers
  <1>4. BalanceIsSum(next)
    BY <1>2, <1>3, BalanceKept DEF Balanced
  <1> QED BY <1>3, <1>4 DEF Balanced, from, next

(* A new tracker is loading, holds nothing and has a balance of 0.         *)
LEMMA NewTrackerBalanced == NewTracker \in Balanced
  <1>1. NewTracker \in Trackers
    <2>1. <<>> \in Seq(Event) /\ 0 \in Nat
      OBVIOUS
    <2> QED BY <2>1 DEF NewTracker, Trackers, Balances, Balance, NoBalance
  <1>2. \A side : HeldOn(NewTracker, side) = {}
    BY DEF NewTracker, HeldOn
  <1>3. SumOver({}, Funded) = 0 /\ SumOver({}, Spent) = 0
    BY SumOverEmpty
  <1>4. \A side \in Sides : NewTracker.balance[side] = [funded |-> 0, spent |-> 0]
    BY DEF NewTracker, NoBalance, Sides
  <1>5. BalanceIsSum(NewTracker)
    BY <1>2, <1>3, <1>4 DEF BalanceIsSum, Sides
  <1> QED BY <1>1, <1>5 DEF Balanced

(* Tracker::from: the balance of a restored tracker is right, and it is    *)
(* loading with nothing in its queue.                                      *)
LEMMA FromStateEffect ==
  ASSUME NEW saved \in SUBSET Tx
  PROVE  /\ FromState(saved) \in Balanced
         /\ FromState(saved).queue = <<>>
         /\ FromState(saved).loading
  <1> DEFINE X == {x \in Balanced : x.queue = <<>> /\ x.loading}
             step == [p \in X \X saved |-> AddTransaction(p[1], p[2])]
             Folds(f) == f = [S \in SUBSET saved |->
                                IF S = {} THEN NewTracker
                                ELSE AddTransaction(f[S \ {AnyOf(S)}], AnyOf(S))]
  <1>1. IsFiniteSet(saved)
    <2>1. IsFiniteSet(Heights)
      BY TrackerAssumption, FS_Interval DEF Heights, Unconfirmed
    <2>2. IsFiniteSet(Txids \X Heights)
      BY <2>1, TrackerAssumption, FS_Product
    <2> DEFINE pair == [p \in Txids \X Heights |-> [txid |-> p[1], height |-> p[2]]]
    <2>3. pair \in Surjection(Txids \X Heights, Tx)
      <3>1. pair \in [Txids \X Heights -> Tx]
        BY DEF Tx
      <3>2. ASSUME NEW tx \in Tx PROVE \E p \in Txids \X Heights : pair[p] = tx
        <4>1. <<tx.txid, tx.height>> \in Txids \X Heights
          BY DEF Tx
        <4>2. pair[<<tx.txid, tx.height>>] = tx
          BY <4>1 DEF Tx
        <4> QED BY <4>1, <4>2
      <3> HIDE DEF pair
      <3> QED BY <3>1, <3>2 DEF Surjection
    <2> HIDE DEF pair
    <2>4. IsFiniteSet(Tx)
      BY <2>2, <2>3, FS_Surjection
    <2> QED BY <2>4, FS_Subset
  <1>2. NewTracker \in X
    BY NewTrackerBalanced DEF NewTracker
  <1>3. \A x \in X, tx \in saved : AddTransaction(x, tx) \in X
    BY AddEffect
  <1>4. step \in [X \X saved -> X]
    <2> HIDE DEF X
    <2> QED BY <1>3
  <1>5. PICK g : IsSetFold(g, saved, X, NewTracker, step)
    <2> HIDE DEF X, step
    <2> QED BY <1>1, <1>2, <1>4, SetFold
  <1>6. \A S \in SUBSET saved : S # {} => AnyOf(S) \in S
    BY DEF AnyOf
  <1>7. Folds(g)
    <2>1. /\ g \in [SUBSET saved -> X] /\ g[{}] = NewTracker
          /\ \A S \in SUBSET saved : S # {} => g[S] = step[<<g[S \ {AnyOf(S)}], AnyOf(S)>>]
      <3> HIDE DEF X, step
      <3> QED BY <1>5 DEF IsSetFold
    <2>2. ASSUME NEW S \in SUBSET saved, S # {}
          PROVE  g[S] = AddTransaction(g[S \ {AnyOf(S)}], AnyOf(S))
      <3>1. AnyOf(S) \in saved /\ g[S \ {AnyOf(S)}] \in X
        <4> HIDE DEF X
        <4> QED BY <1>6, <2>1, <2>2
      <3> HIDE DEF X
      <3> QED BY <2>1, <2>2, <3>1
    <2> HIDE DEF X, step
    <2> QED BY <2>1, <2>2
  <1>8. PICK f : Folds(f) /\ FromState(saved) = f[saved]
    BY <1>7 DEF FromState, AnyOf
  <1> DEFINE Bad == {S \in SUBSET saved : f[S] \notin X}
  <1>9. Bad = {}
    <2> SUFFICES ASSUME Bad # {} PROVE FALSE
      OBVIOUS
    <2>1. PICK S \in Bad : \A U \in Bad : U \subseteq S => U = S
      <3>1. \A S \in Bad : IsFiniteSet(S)
        BY <1>1, FS_Subset
      <3>2. Bad # {}
        OBVIOUS
      <3> HIDE DEF Bad
      <3> QED BY <3>1, <3>2, SubsetMin
    <2>2. S # {}
      BY <1>2, <1>8, <2>1
    <2>3. AnyOf(S) \in S /\ S \in SUBSET saved /\ f[S] \notin X
      BY <1>6, <2>1, <2>2
    <2>4. f[S \ {AnyOf(S)}] \in X
      <3> HIDE DEF X
      <3> QED BY <2>1, <2>3
    <2>5. f[S] = AddTransaction(f[S \ {AnyOf(S)}], AnyOf(S))
      BY <1>8, <2>2, <2>3
    <2> HIDE DEF X
    <2> QED BY <1>3, <2>3, <2>4, <2>5
  <1>10. f[saved] \in X
    <2>1. saved \in SUBSET saved
      OBVIOUS
    <2> HIDE DEF X
    <2> QED BY <1>9, <2>1
  <1> QED BY <1>8, <1>10
-----------------------------------------------------------------------------
(* EffectOfAll: the views that a sequence of events goes through.          *)

(* An event changes a view into a view.                                    *)
LEMMA EffectType ==
  ASSUME NEW view \in Views, NEW e \in Event
  PROVE  /\ Effect(view, e) \in Views
         /\ Effect(view, e) = [view EXCEPT ![e.tx.txid] = Outcome(e)]
  BY EventType DEF Effect, Outcome, Views, Event

(* A set of messages whose address events are events.                      *)
Speaks(M) == \A m \in M : m.kind \in AddressKinds => m \in Event

LEMMA EventSpeaks == Speaks(Event)
  BY DEF Speaks

About(m, t) == m.kind \in AddressKinds /\ m.tx.txid = t

(* A message changes what is known of the transaction it is about.         *)
LEMMA MessageEffect ==
  ASSUME NEW M, Speaks(M), NEW view \in Views, NEW m \in M
  PROVE  /\ Effect(view, m) \in Views
         /\ \A t \in Txids : Effect(view, m)[t] = IF About(m, t) THEN Outcome(m) ELSE view[t]
  <1>1. CASE m.kind \in AddressKinds
    <2>1. m \in Event
      BY <1>1 DEF Speaks
    <2>2. Effect(view, m) = [view EXCEPT ![m.tx.txid] = Outcome(m)]
      BY <2>1, EffectType
    <2> QED BY <1>1, <2>1, <2>2, EffectType DEF About, Views
  <1>2. CASE m.kind \notin AddressKinds
    BY <1>2 DEF Effect, About
  <1> QED BY <1>1, <1>2

(* The views between view and EffectOfAll(view, es).                       *)
IsEffectRun(f, view, es) ==
    /\ f \in [0..Len(es) -> Views]
    /\ f[0] = view
    /\ \A n \in 1..Len(es) : f[n] = Effect(f[n - 1], es[n])
    /\ EffectOfAll(view, es) = f[Len(es)]

(* They exist.                                                             *)
LEMMA EffectOfAllFold ==
  ASSUME NEW M, Speaks(M), NEW view \in Views, NEW es \in Seq(M)
  PROVE  \E f : IsEffectRun(f, view, es)
  <1> DEFINE N == Len(es)
             step == [p \in Views \X (1..N) |-> Effect(p[1], es[p[2]])]
             Folds(f) == f = [n \in 0..N |->
                                IF n = 0 THEN view ELSE Effect(f[n - 1], es[n])]
  <1>1. N \in Nat /\ \A n \in 1..N : es[n] \in M
    OBVIOUS
  <1>2. step \in [Views \X (1..N) -> Views]
    <2>1. \A v \in Views, n \in 1..N : Effect(v, es[n]) \in Views
      BY <1>1, MessageEffect
    <2> HIDE DEF N
    <2> QED BY <2>1
  <1>3. PICK g : IsSeqFold(g, N, Views, view, step)
    <2> HIDE DEF N, step
    <2> QED BY <1>1, <1>2, SeqFold
  <1>4. Folds(g)
    <2>1. /\ g \in [0..N -> Views] /\ g[0] = view
          /\ \A n \in 1..N : g[n] = step[<<g[n - 1], n>>]
      <3> HIDE DEF N, step
      <3> QED BY <1>3 DEF IsSeqFold
    <2>2. \A n \in 1..N : g[n - 1] \in Views
      <3> HIDE DEF N
      <3> QED BY <1>1, <2>1
    <2>3. \A n \in 1..N : g[n] = Effect(g[n - 1], es[n])
      BY <2>1, <2>2
    <2> HIDE DEF N
    <2> QED BY <1>1, <2>1, <2>3
  <1>5. PICK f : Folds(f) /\ EffectOfAll(view, es) = f[N]
    BY <1>4 DEF EffectOfAll
  <1>6. /\ f[0] = view
        /\ \A n \in 1..N : f[n] = Effect(f[n - 1], es[n])
        /\ f = [n \in 0..N |-> f[n]]
    <2>1. f = [n \in 0..N |-> IF n = 0 THEN view ELSE Effect(f[n - 1], es[n])]
      BY <1>5
    <2> HIDE DEF N, Folds
    <2>2. \A n \in 0..N : f[n] = IF n = 0 THEN view ELSE Effect(f[n - 1], es[n])
      BY <2>1
    <2>3. 0 \in 0..N /\ \A n \in 1..N : n \in 0..N /\ n # 0
      BY <1>1
    <2>4. f = [n \in 0..N |-> f[n]]
      BY <2>1
    <2> QED BY <2>2, <2>3, <2>4
  <1>7. \A n \in 0..N : f[n] \in Views
    <2> DEFINE S == {n \in Nat : f[n] \in Views}
    <2>1. 0 \in S
      BY <1>6
    <2>2. ASSUME NEW n \in 1..N, n - 1 \in S PROVE n \in S
      <3>1. f[n] = Effect(f[n - 1], es[n]) /\ n \in Nat
        <4>1. f[n] = Effect(f[n - 1], es[n])
          BY <1>6
        <4>2. n \in Nat
          BY <1>1
        <4> QED BY <4>1, <4>2
      <3>2. f[n - 1] \in Views /\ es[n] \in M
        BY <1>1, <2>2
      <3> QED BY <3>1, <3>2, MessageEffect
    <2> HIDE DEF S, N
    <2>3. 0..N \subseteq S
      BY <1>1, <2>1, <2>2, UpTo
    <2> QED BY <2>3 DEF S
  <1>8. f \in [0..N -> Views]
    <2> HIDE DEF N
    <2> QED BY <1>6, <1>7
  <1> QED BY <1>5, <1>6, <1>8 DEF IsEffectRun

(* No event leaves the view as it is.                                      *)
LEMMA EffectOfNone ==
  ASSUME NEW view \in Views
  PROVE  EffectOfAll(view, <<>>) = view
  <1>1. <<>> \in Seq(Event) /\ Len(<<>>) = 0
    OBVIOUS
  <1>2. \E f : IsEffectRun(f, view, <<>>)
    BY <1>1, EventSpeaks, EffectOfAllFold
  <1> QED BY <1>1, <1>2 DEF IsEffectRun

(* The result of events is a view.                                         *)
LEMMA EffectOfAllType ==
  ASSUME NEW M, Speaks(M), NEW view \in Views, NEW es \in Seq(M)
  PROVE  EffectOfAll(view, es) \in Views
  <1>1. PICK f : IsEffectRun(f, view, es)
    BY EffectOfAllFold
  <1>2. Len(es) \in 0..Len(es)
    OBVIOUS
  <1> QED BY <1>1, <1>2 DEF IsEffectRun

(* One event more acts on top of those before it.                          *)
LEMMA EffectOfMore ==
  ASSUME NEW M, Speaks(M), NEW view \in Views, NEW es \in Seq(M), NEW e \in M
  PROVE  EffectOfAll(view, Append(es, e)) = Effect(EffectOfAll(view, es), e)
  <1> DEFINE N == Len(es)
             more == Append(es, e)
  <1>1. /\ N \in Nat /\ more \in Seq(M) /\ Len(more) = N + 1
        /\ more[N + 1] = e
        /\ \A n \in 1..N : more[n] = es[n]
    OBVIOUS
  <1>2. PICK f : IsEffectRun(f, view, es)
    BY EffectOfAllFold
  <1> HIDE DEF more
  <1>3. PICK g : IsEffectRun(g, view, more)
    BY <1>1, EffectOfAllFold
  <1>4. /\ f[0] = view /\ \A n \in 1..N : f[n] = Effect(f[n - 1], es[n])
        /\ EffectOfAll(view, es) = f[N]
    BY <1>2 DEF IsEffectRun
  <1>5. /\ g[0] = view /\ \A n \in 1..(N + 1) : g[n] = Effect(g[n - 1], more[n])
        /\ EffectOfAll(view, more) = g[N + 1]
    BY <1>1, <1>3 DEF IsEffectRun
  <1> HIDE DEF N
  <1>6. \A n \in 0..N : g[n] = f[n]
    <2> DEFINE S == {n \in Nat : g[n] = f[n]}
    <2>1. 0 \in S
      BY <1>4, <1>5
    <2>2. ASSUME NEW n \in 1..N, n - 1 \in S PROVE n \in S
      BY <1>1, <1>4, <1>5, <2>2
    <2> HIDE DEF S
    <2>3. 0..N \subseteq S
      BY <1>1, <2>1, <2>2, UpTo
    <2> QED BY <2>3 DEF S
  <1>7. g[N + 1] = Effect(g[(N + 1) - 1], more[N + 1]) /\ (N + 1) - 1 = N
    BY <1>1, <1>5
  <1> QED BY <1>1, <1>4, <1>5, <1>6, <1>7 DEF more

(* Two lists of events in a row.                                           *)
LEMMA EffectOfBoth ==
  ASSUME NEW M, Speaks(M), NEW view \in Views, NEW a \in Seq(M), NEW b \in Seq(M)
  PROVE  EffectOfAll(view, a \o b) = EffectOfAll(EffectOfAll(view, a), b)
  <1> DEFINE A == Len(a)
             B == Len(b)
             both == a \o b
             mid == EffectOfAll(view, a)
  <1>1. /\ A \in Nat /\ B \in Nat
        /\ both \in Seq(M) /\ Len(both) = A + B
        /\ \A n \in 1..A : both[n] = a[n]
        /\ \A n \in 1..B : both[A + n] = b[n]
    OBVIOUS
  <1>2. mid \in Views
    BY EffectOfAllType
  <1> HIDE DEF both, mid
  <1>3. PICK f : IsEffectRun(f, view, a)
    BY EffectOfAllFold
  <1>4. PICK g : IsEffectRun(g, mid, b)
    BY <1>2, EffectOfAllFold
  <1>5. PICK h : IsEffectRun(h, view, both)
    BY <1>1, EffectOfAllFold
  <1>6. /\ f[0] = view /\ f[A] = mid
        /\ \A n \in 1..A : f[n] = Effect(f[n - 1], a[n])
    BY <1>3 DEF IsEffectRun, mid
  <1>7. /\ g[0] = mid /\ EffectOfAll(mid, b) = g[B]
        /\ \A n \in 1..B : g[n] = Effect(g[n - 1], b[n])
    BY <1>4 DEF IsEffectRun
  <1>8. /\ h[0] = view /\ EffectOfAll(view, both) = h[A + B]
        /\ \A n \in 1..(A + B) : h[n] = Effect(h[n - 1], both[n])
    BY <1>1, <1>5 DEF IsEffectRun
  <1> HIDE DEF A, B
  <1>9. \A n \in 0..A : h[n] = f[n]
    <2> DEFINE S == {n \in Nat : h[n] = f[n]}
    <2>1. 0 \in S
      BY <1>6, <1>8
    <2>2. ASSUME NEW n \in 1..A, n - 1 \in S PROVE n \in S
      <3>1. n \in 1..(A + B) /\ n \in Nat
        BY <1>1
      <3>2. h[n] = Effect(h[n - 1], a[n])
        BY <1>1, <1>8, <3>1
      <3> QED BY <1>6, <2>2, <3>1, <3>2
    <2> HIDE DEF S
    <2>3. 0..A \subseteq S
      BY <1>1, <2>1, <2>2, UpTo
    <2> QED BY <2>3 DEF S
  <1>10. \A n \in 0..B : h[A + n] = g[n]
    <2> DEFINE S == {n \in Nat : h[A + n] = g[n]}
    <2>1. 0 \in S
      <3>1. A \in 0..A /\ A + 0 = A
        BY <1>1
      <3> QED BY <1>6, <1>7, <1>9, <3>1
    <2>2. ASSUME NEW n \in 1..B, n - 1 \in S PROVE n \in S
      <3>1. A + n \in 1..(A + B) /\ n \in Nat /\ (A + n) - 1 = A + (n - 1)
        BY <1>1
      <3>2. h[A + n] = Effect(h[(A + n) - 1], both[A + n])
        BY <1>8, <3>1
      <3>3. h[A + (n - 1)] = g[n - 1]
        BY <2>2
      <3>4. h[A + n] = Effect(g[n - 1], b[n])
        BY <1>1, <3>1, <3>2, <3>3
      <3> QED BY <1>7, <3>1, <3>4
    <2> HIDE DEF S
    <2>3. 0..B \subseteq S
      BY <1>1, <2>1, <2>2, UpTo
    <2> QED BY <2>3 DEF S
  <1>11. B \in 0..B
    BY <1>1
  <1> QED BY <1>7, <1>8, <1>10, <1>11 DEF both, mid

(* What is known of t after the events comes from the last one about t, or *)
(* is what was known before when there is none.                            *)
LastAbout(view, es, t, result) ==
    \/ /\ \A i \in 1..Len(es) : ~About(es[i], t)
       /\ result = view[t]
    \/ \E i \in 1..Len(es) :
        /\ About(es[i], t) /\ result = Outcome(es[i])
        /\ \A j \in (i + 1)..Len(es) : ~About(es[j], t)

LEMMA EffectIsLast ==
  ASSUME NEW M, Speaks(M), NEW view \in Views, NEW es \in Seq(M), NEW t \in Txids
  PROVE  LastAbout(view, es, t, EffectOfAll(view, es)[t])
  <1> DEFINE N == Len(es)
  <1>1. N \in Nat /\ \A n \in 1..N : es[n] \in M
    OBVIOUS
  <1>2. PICK f : IsEffectRun(f, view, es)
    BY EffectOfAllFold
  <1>3. /\ f \in [0..N -> Views] /\ f[0] = view
        /\ \A n \in 1..N : f[n] = Effect(f[n - 1], es[n])
        /\ EffectOfAll(view, es) = f[N]
    BY <1>2 DEF IsEffectRun
  <1> DEFINE Last1(n) ==
               \/ (\A i \in 1..n : ~About(es[i], t)) /\ f[n][t] = view[t]
               \/ \E i \in 1..n : /\ About(es[i], t) /\ f[n][t] = Outcome(es[i])
                                   /\ \A j \in (i + 1)..n : ~About(es[j], t)
             S == {n \in Nat : Last1(n)}
  <1> HIDE DEF N
  <1>4. 0 \in S
    BY <1>3
  <1>5. ASSUME NEW n \in 1..N, n - 1 \in S PROVE n \in S
    <2>1. n \in Nat /\ f[n - 1] \in Views /\ es[n] \in M /\ Last1(n - 1)
      BY <1>1, <1>3, <1>5
    <2>2. f[n] = Effect(f[n - 1], es[n])
      BY <1>3
    <2>3. f[n][t] = IF About(es[n], t) THEN Outcome(es[n]) ELSE f[n - 1][t]
      BY <2>1, <2>2, MessageEffect
    <2>4. CASE About(es[n], t)
      <3>1. \A j \in (n + 1)..n : ~About(es[j], t)
        BY <2>1
      <3> QED BY <2>1, <2>3, <2>4, <3>1
    <2>5. CASE ~About(es[n], t)
      <3>1. CASE (\A i \in 1..(n - 1) : ~About(es[i], t)) /\ f[n - 1][t] = view[t]
        <4>1. \A i \in 1..n : ~About(es[i], t)
          BY <2>1, <2>5, <3>1
        <4> QED BY <2>1, <2>3, <2>5, <3>1, <4>1
      <3>2. ASSUME NEW i \in 1..(n - 1), About(es[i], t), f[n - 1][t] = Outcome(es[i]),
                   \A j \in (i + 1)..(n - 1) : ~About(es[j], t)
            PROVE  n \in S
        <4>1. i \in 1..n /\ \A j \in (i + 1)..n : ~About(es[j], t)
          BY <2>1, <2>5, <3>2
        <4> QED BY <2>1, <2>3, <2>5, <3>2, <4>1
      <3> QED BY <2>1, <3>1, <3>2
    <2> QED BY <2>4, <2>5
  <1>6. N \in S
    <2> HIDE DEF S
    <2>1. 0..N \subseteq S
      BY <1>1, <1>4, <1>5, UpTo
    <2> QED BY <1>1, <2>1
  <1> QED BY <1>3, <1>6 DEF LastAbout, N

(* When some event is about t it does not matter what was known before.    *)
LEMMA EffectForgets ==
  ASSUME NEW M, Speaks(M), NEW v \in Views, NEW w \in Views, NEW es \in Seq(M),
         NEW t \in Txids, NEW i \in 1..Len(es), About(es[i], t)
  PROVE  EffectOfAll(v, es)[t] = EffectOfAll(w, es)[t]
  <1> DEFINE N == Len(es)
             IsLast(k) == About(es[k], t) /\ \A j \in (k + 1)..N : ~About(es[j], t)
  <1>1. N \in Nat
    OBVIOUS
  <1>2. PICK k \in 1..N : IsLast(k) /\ EffectOfAll(v, es)[t] = Outcome(es[k])
    BY EffectIsLast DEF LastAbout
  <1>3. PICK m \in 1..N : IsLast(m) /\ EffectOfAll(w, es)[t] = Outcome(es[m])
    BY EffectIsLast DEF LastAbout
  <1> HIDE DEF N
  <1>4. k = m
    BY <1>1, <1>2, <1>3
  <1> QED BY <1>2, <1>3, <1>4

(* Events that are not about t leave what was known of it.                 *)
LEMMA EffectElsewhere ==
  ASSUME NEW M, Speaks(M), NEW view \in Views, NEW es \in Seq(M), NEW t \in Txids,
         \A i \in 1..Len(es) : ~About(es[i], t)
  PROVE  EffectOfAll(view, es)[t] = view[t]
  BY EffectIsLast DEF LastAbout

(* The first of several events takes effect, and then the others.          *)
LEMMA EffectOfFirst ==
  ASSUME NEW M, Speaks(M), NEW view \in Views, NEW es \in Seq(M), es # <<>>
  PROVE  EffectOfAll(view, es) = EffectOfAll(Effect(view, Head(es)), Tail(es))
  <1> DEFINE none == <<>>
             first == Append(none, Head(es))
  <1>1. none \in Seq(M) /\ Head(es) \in M /\ Tail(es) \in Seq(M)
    OBVIOUS
  <1>2. first \in Seq(M)
    BY <1>1
  <1>3. es = first \o Tail(es)
    <2>1. /\ first = <<Head(es)>> /\ Len(first) = 1
          /\ Len(es) \in Nat /\ Len(Tail(es)) = Len(es) - 1
          /\ Len(first \o Tail(es)) = Len(first) + Len(Tail(es))
      OBVIOUS
    <2>2. \A i \in 1..Len(es) : es[i] = (first \o Tail(es))[i]
      OBVIOUS
    <2>3. first \o Tail(es) \in Seq(M)
      BY <1>1, <1>2
    <2> QED BY <2>1, <2>2, <2>3
  <1>4. EffectOfAll(view, none) = view
    BY EffectOfNone
  <1> HIDE DEF none
  <1>5. EffectOfAll(view, first) = Effect(view, Head(es))
    BY <1>1, <1>4, EffectOfMore
  <1>6. EffectOfAll(view, first \o Tail(es)) = EffectOfAll(EffectOfAll(view, first), Tail(es))
    <2> DEFINE rest == Tail(es)
    <2> HIDE DEF first, rest
    <2>1. first \in Seq(M) /\ rest \in Seq(M)
      BY <1>1, <1>2 DEF rest
    <2>2. EffectOfAll(view, first \o rest) = EffectOfAll(EffectOfAll(view, first), rest)
      BY <2>1, EffectOfBoth
    <2> QED BY <2>2 DEF rest
  <1> HIDE DEF first
  <1> QED BY <1>3, <1>5, <1>6

(* What is known of t was known before or comes from an event about t.     *)
LEMMA EffectFrom ==
  ASSUME NEW M, Speaks(M), NEW view \in Views, NEW es \in Seq(M), NEW t \in Txids
  PROVE  \/ EffectOfAll(view, es)[t] = view[t]
         \/ \E i \in 1..Len(es) : /\ About(es[i], t)
                                  /\ EffectOfAll(view, es)[t] = Outcome(es[i])
  BY EffectIsLast DEF LastAbout

(* The events that process_event broadcasts for a sequence of events.      *)
Announced(es) == [i \in 1..Len(es) |-> Announcement(es[i])]

(* A sequence of announcements, with the next one appended.                *)
LEMMA LongerByOne ==
  ASSUME NEW es, NEW n \in Nat, n # 0, \A i \in 1..n : es[i] \in Event
  PROVE  Append([i \in 1..(n - 1) |-> Announcement(es[i])], Announcement(es[n]))
           = [i \in 1..n |-> Announcement(es[i])]
  <1> DEFINE before == [i \in 1..(n - 1) |-> Announcement(es[i])]
             after == [i \in 1..n |-> Announcement(es[i])]
  <1>1. \A i \in 1..n : Announcement(es[i]) \in Event
    BY EventType
  <1>2. before \in Seq(Event) /\ Len(before) = n - 1
    BY <1>1
  <1>3. after \in Seq(Event) /\ Len(after) = n
    BY <1>1
  <1> DEFINE longer == Append(before, Announcement(es[n]))
  <1>4. /\ longer \in Seq(Event) /\ Len(longer) = n
        /\ \A i \in 1..n : longer[i] = IF i = n THEN Announcement(es[n]) ELSE before[i]
    <2>1. Announcement(es[n]) \in Event
      BY <1>1
    <2> HIDE DEF before
    <2> QED BY <1>2, <2>1
  <1>5. \A i \in 1..n : longer[i] = after[i]
    <2> SUFFICES ASSUME NEW i \in 1..n PROVE longer[i] = after[i]
      OBVIOUS
    <2>1. i # n => before[i] = Announcement(es[i])
      OBVIOUS
    <2>2. after[i] = Announcement(es[i])
      OBVIOUS
    <2> HIDE DEF longer, before, after
    <2> QED BY <1>4, <2>1, <2>2
  <1> HIDE DEF longer, after
  <1> QED BY <1>3, <1>4, <1>5 DEF longer, after

(* ProcessAll does to the transactions what the events say, and broadcasts *)
(* one event for each, in their order.                                     *)
LEMMA ProcessAllIsEffect ==
  ASSUME NEW tr \in Balanced, NEW es \in Seq(Event)
  PROVE  /\ ProcessAll(tr, es).transactions = EffectOfAll(tr.transactions, es)
         /\ tr.sent = <<>> => ProcessAll(tr, es).sent = Announced(es)
  <1> DEFINE N == Len(es)
  <1>1. N \in Nat /\ \A n \in 1..N : es[n] \in Event
    OBVIOUS
  <1>2. tr.transactions \in Views
    BY DEF Balanced, Trackers, Views, Version
  <1>3. PICK f : IsRun(f, Balanced, tr, es)
    <2>1. \A x \in Balanced, e \in Event : ProcessEvent(x, e, FALSE) \in Balanced
      BY HistoryEffect
    <2> QED BY <2>1, ProcessAllFold
  <1>4. PICK g : IsEffectRun(g, tr.transactions, es)
    BY <1>2, EventSpeaks, EffectOfAllFold
  <1>5. /\ f \in [0..N -> Balanced] /\ f[0] = tr
        /\ \A n \in 1..N : f[n] = ProcessEvent(f[n - 1], es[n], FALSE)
        /\ ProcessAll(tr, es) = f[N]
    BY <1>3 DEF IsRun
  <1>6. /\ g \in [0..N -> Views] /\ g[0] = tr.transactions
        /\ \A n \in 1..N : g[n] = Effect(g[n - 1], es[n])
        /\ EffectOfAll(tr.transactions, es) = g[N]
    BY <1>4 DEF IsEffectRun
  <1> HIDE DEF N
  <1>7. ASSUME NEW n \in 1..N
        PROVE  /\ f[n].transactions = [f[n - 1].transactions EXCEPT ![es[n].tx.txid] = Outcome(es[n])]
               /\ f[n].sent = Append(f[n - 1].sent, Announcement(es[n]))
    <2>1. f[n - 1] \in Balanced /\ es[n] \in Event
      BY <1>1, <1>5
    <2>2. f[n] = ProcessEvent(f[n - 1], es[n], FALSE)
      BY <1>5
    <2>3. /\ ProcessEvent(f[n - 1], es[n], FALSE).transactions
                = [f[n - 1].transactions EXCEPT ![es[n].tx.txid] = Outcome(es[n])]
          /\ ProcessEvent(f[n - 1], es[n], FALSE).sent
                = Append(f[n - 1].sent, Announcement(es[n]))
      BY <2>1, HistoryEffect
    <2> QED BY <2>2, <2>3
  <1>8. \A n \in 0..N : f[n].transactions = g[n]
    <2> DEFINE S == {n \in Nat : f[n].transactions = g[n]}
    <2>1. 0 \in S
      BY <1>5, <1>6
    <2>2. ASSUME NEW n \in 1..N, n - 1 \in S PROVE n \in S
      <3>1. n \in Nat /\ g[n] = Effect(g[n - 1], es[n])
        BY <1>1, <1>6
      <3>2. g[n - 1] \in Views /\ es[n] \in Event
        BY <1>1, <1>6
      <3>3. g[n] = [g[n - 1] EXCEPT ![es[n].tx.txid] = Outcome(es[n])]
        BY <3>1, <3>2, EffectType
      <3>4. f[n].transactions = [f[n - 1].transactions EXCEPT ![es[n].tx.txid] = Outcome(es[n])]
        BY <1>7
      <3>5. f[n - 1].transactions = g[n - 1]
        BY <2>2
      <3> QED BY <3>1, <3>3, <3>4, <3>5
    <2> HIDE DEF S
    <2>3. 0..N \subseteq S
      BY <1>1, <2>1, <2>2, UpTo
    <2> QED BY <2>3 DEF S
  <1>9. ASSUME tr.sent = <<>>
        PROVE  \A n \in 0..N : f[n].sent = [i \in 1..n |-> Announcement(es[i])]
    <2> DEFINE S == {n \in Nat : f[n].sent = [i \in 1..n |-> Announcement(es[i])]}
    <2>1. 0 \in S
      BY <1>5, <1>9
    <2>2. ASSUME NEW n \in 1..N, n - 1 \in S PROVE n \in S
      <3>1. f[n].sent = Append([i \in 1..(n - 1) |-> Announcement(es[i])], Announcement(es[n]))
        BY <1>7, <2>2
      <3>2. n \in Nat /\ \A i \in 1..n : es[i] \in Event
        BY <1>1
      <3>3. Append([i \in 1..(n - 1) |-> Announcement(es[i])], Announcement(es[n]))
              = [i \in 1..n |-> Announcement(es[i])]
        BY <3>2, LongerByOne
      <3> QED BY <3>1, <3>2, <3>3
    <2> HIDE DEF S
    <2>3. 0..N \subseteq S
      BY <1>1, <2>1, <2>2, UpTo
    <2> QED BY <2>3 DEF S
  <1>10. N \in 0..N
    BY <1>1
  <1> QED BY <1>5, <1>6, <1>8, <1>9, <1>10 DEF Announced, N

=============================================================================
