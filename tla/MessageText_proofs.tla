-------------------------- MODULE MessageText_proofs --------------------------
(***************************************************************************)
(* Proofs about MessageText, for any names, any width of the int and any   *)
(* sizes of the arrays, whatever is cut on its way.                        *)
(***************************************************************************)
EXTENDS MessageText, SequenceTheorems, WellFoundedInduction, TLAPS

-----------------------------------------------------------------------------
(* Functions that divide by ten                                            *)

LEMMA SmallestElement ==
  ASSUME NEW S \in SUBSET Nat, S # {}
  PROVE  \E n \in S : \A m \in S : n =< m
<1> DEFINE R == {p \in Nat \X Nat : p[1] < p[2]}
<1>1. IsWellFoundedOn(R, Nat)
  BY NatLessThanWellFounded, Zenon DEF OpToRel
<1>2. PICK n \in S : \A m \in S : <<m, n>> \notin R
  <2> HIDE DEF R
  <2> QED
    BY <1>1, WFMin
<1>3. \A m \in S : ~(m < n)
  BY <1>2
<1> QED
  BY <1>3

LEMMA ByTen == \A n \in Nat : n >= 10 => n \div 10 \in Nat /\ n \div 10 < n
  OBVIOUS

(* What holds of n whenever it holds of n \div 10 holds of every number.   *)
LEMMA ByDigits ==
  ASSUME NEW P \in SUBSET Nat,
         \A n \in Nat : (n < 10 \/ n \div 10 \in P) => n \in P
  PROVE  \A n \in Nat : n \in P
<1> SUFFICES ASSUME Nat \ P # {} PROVE FALSE
  OBVIOUS
<1>1. PICK n \in Nat \ P : \A m \in Nat \ P : n =< m
  BY SmallestElement
<1>2. ~(n < 10) /\ n \div 10 \notin P
  BY <1>1
<1>3. n \div 10 \in Nat /\ n \div 10 < n
  BY <1>1, <1>2, ByTen
<1>4. n =< n \div 10
  BY <1>1, <1>2, <1>3
<1> QED
  BY <1>1, <1>3, <1>4

(* f is A[n] of each n of one digit, and G of the others.                  *)
DividesByTen(f, A, G) ==
  \A n \in Nat : f[n] = IF n < 10 THEN A[n] ELSE G[<<n, f[n \div 10]>>]

(* Some function satisfies such a definition: of each n, take the value    *)
(* that every function which satisfies it up to n has there.               *)
LEMMA ByTenExists ==
  ASSUME NEW V, NEW A \in [Nat -> V], NEW G \in [Nat \X V -> V]
  PROVE  \E f \in [Nat -> V] : DividesByTen(f, A, G)
<1> DEFINE Upto(N) ==
      {g \in [0 .. N -> V] :
         \A n \in 0 .. N : g[n] = IF n < 10 THEN A[n] ELSE G[<<n, g[n \div 10]>>]}
<1>1. ASSUME NEW N \in Nat, NEW K \in Nat, NEW g \in Upto(N), NEW h \in Upto(K)
      PROVE  \A n \in Nat : n =< N /\ n =< K => g[n] = h[n]
  <2> DEFINE P == {n \in Nat : n =< N /\ n =< K => g[n] = h[n]}
  <2>1. ASSUME NEW n \in Nat, n < 10 \/ n \div 10 \in P
        PROVE  n \in P
    <3>1. CASE n =< N /\ n =< K
      <4>1. n \in 0 .. N /\ n \in 0 .. K
        BY <3>1
      <4>2. CASE n < 10
        <5>1. g[n] = A[n] /\ h[n] = A[n]
          BY <4>1, <4>2
        <5> QED
          BY <5>1
      <4>3. CASE ~(n < 10)
        <5>1. n \div 10 \in Nat /\ n \div 10 < n
          BY <4>3, ByTen
        <5>2. g[n \div 10] = h[n \div 10]
          BY <2>1, <3>1, <4>3, <5>1
        <5> QED
          BY <4>1, <4>3, <5>2
      <4> QED
        BY <4>2, <4>3
    <3> QED
      BY <3>1
  <2>2. \A n \in Nat : n \in P
    <3> HIDE DEF P
    <3>1. P \in SUBSET Nat
      BY DEF P
    <3> QED
      BY <2>1, <3>1, ByDigits
  <2> QED
    BY <2>2
<1>2. \A N \in Nat : Upto(N) # {}
  <2> DEFINE S == {N \in Nat : Upto(N) = {}}
  <2> SUFFICES ASSUME S # {} PROVE FALSE
    OBVIOUS
  <2>1. PICK N \in S : \A m \in S : N =< m
    <3> HIDE DEF S
    <3>1. S \in SUBSET Nat
      BY DEF S
    <3> QED
      BY <3>1, SmallestElement
  <2>2. N \in Nat /\ Upto(N) = {}
    BY <2>1
  <2>3. N # 0
    <3> SUFFICES ASSUME N = 0 PROVE FALSE
      OBVIOUS
    <3>1. [n \in 0 .. 0 |-> A[0]] \in Upto(0)
      OBVIOUS
    <3> QED
      BY <2>2, <3>1
  <2>4. N - 1 \in Nat /\ Upto(N - 1) # {}
    <3>1. N - 1 \in Nat /\ ~(N =< N - 1)
      BY <2>2, <2>3
    <3>2. N - 1 \notin S
      BY <2>1, <3>1
    <3> QED
      BY <3>1, <3>2
  <2>5. PICK g \in Upto(N - 1) : TRUE
    BY <2>4
  <2>6. /\ g \in [0 .. N - 1 -> V]
        /\ \A n \in 0 .. N - 1 :
             g[n] = IF n < 10 THEN A[n] ELSE G[<<n, g[n \div 10]>>]
    BY <2>5
  <2> DEFINE last == IF N < 10 THEN A[N] ELSE G[<<N, g[N \div 10]>>]
             h == [n \in 0 .. N |-> IF n < N THEN g[n] ELSE last]
  <2>7. last \in V
    <3>1. CASE N < 10
      BY <2>2, <3>1
    <3>2. CASE ~(N < 10)
      <4>1. N \div 10 \in 0 .. N - 1
        BY <2>2, <3>2, ByTen
      <4>2. g[N \div 10] \in V
        BY <2>6, <4>1
      <4> QED
        BY <2>2, <3>2, <4>2
    <3> QED
      BY <3>1, <3>2
  <2>8. \A n \in 0 .. N - 1 : h[n] = g[n]
    BY <2>2
  <2>9. h[N] = last
    BY <2>2
  <2>10. h \in [0 .. N -> V]
    <3>1. ASSUME NEW n \in 0 .. N PROVE (IF n < N THEN g[n] ELSE last) \in V
      <4> HIDE DEF last
      <4>1. CASE n < N
        <5>1. n \in 0 .. N - 1
          BY <2>2, <4>1
        <5> QED
          BY <2>6, <4>1, <5>1
      <4> QED
        BY <2>7, <4>1
    <3> HIDE DEF last
    <3> QED
      BY <3>1
  <2>11. ASSUME NEW n \in 0 .. N
         PROVE  h[n] = IF n < 10 THEN A[n] ELSE G[<<n, h[n \div 10]>>]
    <3>1. n >= 10 => n \div 10 \in 0 .. N - 1
      BY <2>2, ByTen
    <3>2. n >= 10 => h[n \div 10] = g[n \div 10]
      <4> HIDE DEF h
      <4> QED
        BY <2>8, <3>1
    <3>3. CASE n = N
      <4> HIDE DEF h
      <4>1. h[n] = IF n < 10 THEN A[n] ELSE G[<<n, g[n \div 10]>>]
        BY <2>9, <3>3
      <4>2. CASE n < 10
        BY <4>1, <4>2
      <4>3. CASE n >= 10
        BY <2>2, <3>2, <4>1, <4>3
      <4> QED
        BY <2>2, <4>2, <4>3
    <3>4. CASE n # N
      <4> HIDE DEF h
      <4>1. n \in 0 .. N - 1
        BY <2>2, <3>4
      <4>2. h[n] = IF n < 10 THEN A[n] ELSE G[<<n, g[n \div 10]>>]
        BY <2>6, <2>8, <4>1
      <4> QED
        BY <2>2, <3>2, <4>1, <4>2
    <3> QED
      BY <3>3, <3>4
  <2> HIDE DEF h
  <2>12. h \in Upto(N)
    BY <2>10, <2>11
  <2> QED
    BY <2>2, <2>12
<1> DEFINE some(n) == CHOOSE g \in Upto(n) : TRUE
           f == [n \in Nat |-> some(n)[n]]
<1>3. \A n \in Nat : some(n) \in Upto(n)
  <2> HIDE DEF Upto
  <2> QED
    BY <1>2
<1>4. ASSUME NEW n \in Nat
      PROVE  /\ f[n] \in V
             /\ f[n] = IF n < 10 THEN A[n] ELSE G[<<n, f[n \div 10]>>]
  <2> HIDE DEF some
  <2>1. /\ some(n) \in [0 .. n -> V]
        /\ some(n)[n] = IF n < 10 THEN A[n] ELSE G[<<n, some(n)[n \div 10]>>]
    <3>1. some(n) \in Upto(n)
      BY <1>3
    <3>2. n \in 0 .. n
      OBVIOUS
    <3> QED
      BY <3>1, <3>2
  <2>2. ASSUME n >= 10 PROVE f[n \div 10] = some(n)[n \div 10]
    <3>1. n \div 10 \in Nat /\ n \div 10 =< n
      BY <2>2, ByTen
    <3>2. some(n) \in Upto(n) /\ some(n \div 10) \in Upto(n \div 10)
      BY <1>3, <3>1
    <3> HIDE DEF Upto
    <3> DEFINE k == n \div 10
    <3>3. k \in Nat /\ k =< n /\ k =< k
      BY <3>1
    <3>4. some(n) \in Upto(n) /\ some(k) \in Upto(k)
      BY <3>2
    <3> HIDE DEF k
    <3>5. some(n)[k] = some(k)[k]
      BY <1>1, <3>3, <3>4
    <3>6. f[k] = some(k)[k]
      BY <3>3
    <3> QED
      BY <3>5, <3>6 DEF k
  <2>3. f[n] = some(n)[n]
    OBVIOUS
  <2>4. n \in 0 .. n
    OBVIOUS
  <2>5. f[n] \in V
    BY <2>1, <2>3, <2>4
  <2> HIDE DEF f
  <2>6. CASE n < 10
    BY <2>1, <2>3, <2>5, <2>6
  <2>7. CASE n >= 10
    BY <2>1, <2>2, <2>3, <2>5, <2>7
  <2> QED
    BY <2>6, <2>7
<1>5. f \in [Nat -> V]
  <2>1. \A n \in Nat : some(n)[n] \in V
    <3> HIDE DEF some
    <3> QED
      BY <1>4
  <2> HIDE DEF some
  <2> QED
    BY <2>1
<1> HIDE DEF f
<1>6. DividesByTen(f, A, G)
  BY <1>4 DEF DividesByTen
<1> QED
  BY <1>5, <1>6

-----------------------------------------------------------------------------
(* The digits of a number                                                  *)

LEMMA DigitsIs ==
  \A n \in Nat : Digits[n] = IF n < 10 THEN 1 ELSE 1 + Digits[n \div 10]
<1> DEFINE A == [n \in Nat |-> 1]
           G == [p \in Nat \X Nat |-> 1 + p[2]]
<1>1. A \in [Nat -> Nat] /\ G \in [Nat \X Nat -> Nat]
  OBVIOUS
<1>2. \A n, v \in Nat : A[n] = 1 /\ G[<<n, v>>] = 1 + v
  OBVIOUS
<1> HIDE DEF A, G
<1>3. PICK f \in [Nat -> Nat] : DividesByTen(f, A, G)
  BY <1>1, ByTenExists, Zenon
<1>4. ASSUME NEW n \in Nat
      PROVE  f[n] = IF n < 10 THEN 1 ELSE 1 + f[n \div 10]
  <2>1. CASE n < 10
    BY <1>2, <1>3, <2>1 DEF DividesByTen
  <2>2. CASE n >= 10
    <3>1. n \div 10 \in Nat
      BY <2>2, ByTen
    <3>2. f[n \div 10] \in Nat
      BY <1>3, <3>1
    <3> QED
      BY <1>2, <1>3, <2>2, <3>2 DEF DividesByTen
  <2> QED
    BY <2>1, <2>2
<1>5. f = [n \in Nat |-> IF n < 10 THEN 1 ELSE 1 + f[n \div 10]]
  BY <1>3, <1>4
<1>6. Digits = [n \in Nat |-> IF n < 10 THEN 1 ELSE 1 + Digits[n \div 10]]
  BY <1>5, Zenon DEF Digits
<1> QED
  BY <1>6, Zenon

LEMMA Log10Is ==
  \A n \in Nat : Log10[n] = IF n < 10 THEN 0 ELSE 1 + Log10[n \div 10]
<1> DEFINE A == [n \in Nat |-> 0]
           G == [p \in Nat \X Nat |-> 1 + p[2]]
<1>1. A \in [Nat -> Nat] /\ G \in [Nat \X Nat -> Nat]
  OBVIOUS
<1>2. \A n, v \in Nat : A[n] = 0 /\ G[<<n, v>>] = 1 + v
  OBVIOUS
<1> HIDE DEF A, G
<1>3. PICK f \in [Nat -> Nat] : DividesByTen(f, A, G)
  BY <1>1, ByTenExists, Zenon
<1>4. ASSUME NEW n \in Nat
      PROVE  f[n] = IF n < 10 THEN 0 ELSE 1 + f[n \div 10]
  <2>1. CASE n < 10
    BY <1>2, <1>3, <2>1 DEF DividesByTen
  <2>2. CASE n >= 10
    <3>1. n \div 10 \in Nat
      BY <2>2, ByTen
    <3>2. f[n \div 10] \in Nat
      BY <1>3, <3>1
    <3> QED
      BY <1>2, <1>3, <2>2, <3>2 DEF DividesByTen
  <2> QED
    BY <2>1, <2>2
<1>5. f = [n \in Nat |-> IF n < 10 THEN 0 ELSE 1 + f[n \div 10]]
  BY <1>3, <1>4
<1>6. Log10 = [n \in Nat |-> IF n < 10 THEN 0 ELSE 1 + Log10[n \div 10]]
  BY <1>5, Zenon DEF Log10
<1> QED
  BY <1>6, Zenon

LEMMA LeadingNumbersIs ==
  \A n \in Nat :
    LeadingNumbers[n] = IF n < 10 THEN {n} ELSE {n} \cup LeadingNumbers[n \div 10]
<1> DEFINE A == [n \in Nat |-> {n}]
           G == [p \in Nat \X SUBSET Nat |-> {p[1]} \cup p[2]]
<1>1. A \in [Nat -> SUBSET Nat] /\ G \in [Nat \X SUBSET Nat -> SUBSET Nat]
  OBVIOUS
<1>2. \A n \in Nat : \A v \in SUBSET Nat : A[n] = {n} /\ G[<<n, v>>] = {n} \cup v
  OBVIOUS
<1> HIDE DEF A, G
<1>3. PICK f \in [Nat -> SUBSET Nat] : DividesByTen(f, A, G)
  BY <1>1, ByTenExists, Zenon
<1>4. ASSUME NEW n \in Nat
      PROVE  f[n] = IF n < 10 THEN {n} ELSE {n} \cup f[n \div 10]
  <2>1. CASE n < 10
    BY <1>2, <1>3, <2>1 DEF DividesByTen
  <2>2. CASE n >= 10
    <3>1. n \div 10 \in Nat
      BY <2>2, ByTen
    <3>2. f[n \div 10] \in SUBSET Nat
      BY <1>3, <3>1
    <3>3. G[<<n, f[n \div 10]>>] = {n} \cup f[n \div 10]
      BY <1>2, <3>2
    <3> QED
      BY <1>3, <2>2, <3>3 DEF DividesByTen
  <2> QED
    BY <2>1, <2>2
<1>5. f = [n \in Nat |-> IF n < 10 THEN {n} ELSE {n} \cup f[n \div 10]]
  BY <1>3, <1>4
<1>6. LeadingNumbers =
        [n \in Nat |-> IF n < 10 THEN {n} ELSE {n} \cup LeadingNumbers[n \div 10]]
  BY <1>5, Zenon DEF LeadingNumbers
<1> QED
  BY <1>6, Zenon

LEMMA DigitsBounds == \A n \in Nat : Digits[n] \in Nat /\ Digits[n] =< n + 1
<1> DEFINE P == {n \in Nat : Digits[n] \in Nat /\ Digits[n] =< n + 1}
<1>1. ASSUME NEW n \in Nat, n < 10 \/ n \div 10 \in P
      PROVE  n \in P
  <2>1. CASE n < 10
    BY <2>1, DigitsIs
  <2>2. CASE n >= 10
    <3>1. n \div 10 \in Nat /\ n \div 10 < n /\ ~(n < 10)
      BY <2>2, ByTen
    <3>2. Digits[n] = 1 + Digits[n \div 10]
      BY <3>1, DigitsIs
    <3>3. Digits[n \div 10] \in Nat /\ Digits[n \div 10] =< n \div 10 + 1
      BY <1>1, <3>1
    <3> QED
      BY <3>1, <3>2, <3>3
  <2> QED
    BY <2>1, <2>2
<1>2. P \in SUBSET Nat
  OBVIOUS
<1>3. \A n \in Nat : n \in P
  <2> HIDE DEF P
  <2> QED
    BY <1>1, <1>2, ByDigits
<1> QED
  BY <1>3

(* log10, rounded down, is one less than the number of digits.             *)
LEMMA DigitsByLog10 ==
  \A n \in Nat : Log10[n] \in Nat /\ Digits[n] = Log10[n] + 1
<1> DEFINE P == {n \in Nat : Log10[n] \in Nat /\ Digits[n] = Log10[n] + 1}
<1>1. ASSUME NEW n \in Nat, n < 10 \/ n \div 10 \in P
      PROVE  n \in P
  <2>1. CASE n < 10
    BY <2>1, DigitsIs, Log10Is
  <2>2. CASE n >= 10
    <3>1. n \div 10 \in Nat /\ ~(n < 10)
      BY <2>2, ByTen
    <3>2. Digits[n] = 1 + Digits[n \div 10] /\ Log10[n] = 1 + Log10[n \div 10]
      BY <3>1, DigitsIs, Log10Is
    <3>3. Log10[n \div 10] \in Nat /\ Digits[n \div 10] = Log10[n \div 10] + 1
      BY <1>1, <3>1
    <3> QED
      BY <3>2, <3>3
  <2> QED
    BY <2>1, <2>2
<1>2. P \in SUBSET Nat
  OBVIOUS
<1>3. \A n \in Nat : n \in P
  <2> HIDE DEF P
  <2> QED
    BY <1>1, <1>2, ByDigits
<1> QED
  BY <1>3

LEMMA LeadingNumbersBounds == \A n \in Nat : LeadingNumbers[n] \subseteq 0 .. n
<1> DEFINE P == {n \in Nat : LeadingNumbers[n] \subseteq 0 .. n}
<1>1. ASSUME NEW n \in Nat, n < 10 \/ n \div 10 \in P
      PROVE  n \in P
  <2>1. CASE n < 10
    <3>1. LeadingNumbers[n] = {n}
      BY <2>1, LeadingNumbersIs
    <3>2. n \in 0 .. n
      OBVIOUS
    <3> QED
      BY <3>1, <3>2, Zenon
  <2>2. CASE n >= 10
    <3>1. n \div 10 \in Nat /\ n \div 10 < n /\ ~(n < 10)
      BY <2>2, ByTen
    <3>2. LeadingNumbers[n] = {n} \cup LeadingNumbers[n \div 10]
      BY <3>1, LeadingNumbersIs
    <3>3. LeadingNumbers[n \div 10] \subseteq 0 .. (n \div 10)
      BY <1>1, <3>1
    <3>4. 0 .. (n \div 10) \subseteq 0 .. n
      BY <3>1
    <3>5. {n} \subseteq 0 .. n
      OBVIOUS
    <3>6. LeadingNumbers[n] \subseteq 0 .. n
      BY <3>2, <3>3, <3>4, <3>5, Zenon
    <3> QED
      BY <3>6
  <2> QED
    BY <2>1, <2>2
<1>2. P \in SUBSET Nat
  OBVIOUS
<1>3. \A n \in Nat : n \in P
  <2> HIDE DEF P
  <2> QED
    BY <1>1, <1>2, ByDigits
<1> QED
  BY <1>3

-----------------------------------------------------------------------------
(* Texts of messages                                                       *)

Ints == -(IntMax + 1) .. IntMax

(* A message as message_t_init makes it.                                   *)
Made ==
  {m \in M!message_t : m.id_1.len < ID_MAXSIZE /\ m.id_2.len < ID_MAXSIZE}

(* A message that a text may be taken for, before message_t_init.          *)
LEMMA MessagesAre == M!message_t = [number : Ints, id_1 : ScannedIds, id_2 : ScannedIds]
  BY DEF M!message_t, M!Ints, Ints

LEMMA MinOfTwo ==
  ASSUME NEW a \in Int, NEW b \in Int
  PROVE  Min({a, b}) = IF a =< b THEN a ELSE b
<1>1. \A y \in {a, b} : (IF a =< b THEN a ELSE b) =< y
  OBVIOUS
<1>2. Min({a, b}) \in {a, b} /\ \A y \in {a, b} : Min({a, b}) =< y
  BY <1>1 DEF Min
<1> QED
  BY <1>1, <1>2

LEMMA TruncatedIs ==
  ASSUME NEW i \in ScannedIds
  PROVE  /\ Truncated(i) \in ScannedIds /\ Truncated(i).len < ID_MAXSIZE
         /\ i.len < ID_MAXSIZE => Truncated(i) = i
<1>1. i.len \in Nat /\ ID_MAXSIZE - 1 \in Nat
  BY MessageTextAssumption DEF ScannedIds
<1>2. Min({i.len, ID_MAXSIZE - 1}) =
        IF i.len =< ID_MAXSIZE - 1 THEN i.len ELSE ID_MAXSIZE - 1
  BY <1>1, MinOfTwo
<1>3. Truncated(i) = [i EXCEPT !.len = Min({i.len, ID_MAXSIZE - 1})]
  BY Zenon DEF Truncated
<1> DEFINE k == Min({i.len, ID_MAXSIZE - 1})
<1>4. k \in Nat /\ k < ID_MAXSIZE /\ (i.len < ID_MAXSIZE => k = i.len)
  BY <1>1, <1>2, MessageTextAssumption
<1> HIDE DEF k
<1>5. Truncated(i) = [i EXCEPT !.len = k]
  BY <1>3 DEF k
<1> QED
  BY <1>4, <1>5 DEF ScannedIds

LEMMA InitMakes ==
  ASSUME NEW m \in M!message_t
  PROVE  /\ message_t_init(m) \in Made
         /\ message_t_init(m) =
              [number |-> m.number, id_1 |-> Truncated(m.id_1),
               id_2 |-> Truncated(m.id_2)]
         /\ m \in Made => message_t_init(m) = m
<1>1. /\ m.number \in Ints /\ m.id_1 \in ScannedIds /\ m.id_2 \in ScannedIds
      /\ m = [number |-> m.number, id_1 |-> m.id_1, id_2 |-> m.id_2]
  BY MessagesAre
<1>2. message_t_init(m) =
        [number |-> m.number, id_1 |-> Truncated(m.id_1), id_2 |-> Truncated(m.id_2)]
  <2>1. m \in [number : Ints, id_1 : ScannedIds, id_2 : ScannedIds]
    BY MessagesAre
  <2> DEFINE k == Truncated(m.id_1)
             l == Truncated(m.id_2)
  <2>2. message_t_init(m) = [m EXCEPT !.id_1 = k, !.id_2 = l]
    BY Zenon DEF message_t_init
  <2> HIDE DEF k, l
  <2>3. k \in ScannedIds /\ l \in ScannedIds
    BY <1>1, TruncatedIs DEF k, l
  <2> DEFINE r == [m EXCEPT !.id_1 = k, !.id_2 = l]
  <2>4. /\ r \in [number : Ints, id_1 : ScannedIds, id_2 : ScannedIds]
        /\ r.number = m.number /\ r.id_1 = k /\ r.id_2 = l
    BY <2>1, <2>3
  <2> HIDE DEF r
  <2>5. r = [number |-> m.number, id_1 |-> k, id_2 |-> l]
    BY <2>4
  <2> QED
    BY <2>2, <2>5 DEF k, l, r
<1>3. /\ Truncated(m.id_1) \in ScannedIds /\ Truncated(m.id_1).len < ID_MAXSIZE
      /\ Truncated(m.id_2) \in ScannedIds /\ Truncated(m.id_2).len < ID_MAXSIZE
  BY <1>1, TruncatedIs
<1>4. m \in Made => Truncated(m.id_1) = m.id_1 /\ Truncated(m.id_2) = m.id_2
  BY <1>1, TruncatedIs DEF Made
<1>5. message_t_init(m) \in Made
  BY <1>1, <1>2, <1>3, MessagesAre DEF Made
<1>6. m \in Made => message_t_init(m) = m
  BY <1>1, <1>2, <1>4
<1> QED
  BY <1>2, <1>5, <1>6

LEMMA WidthIs ==
  \A n \in Ints :
    /\ Width(n) \in Nat /\ number_digit(n) \in Nat
    /\ Width(n) =< number_digit(n)
<1> SUFFICES ASSUME NEW n \in Ints
             PROVE  /\ Width(n) \in Nat /\ number_digit(n) \in Nat
                    /\ Width(n) =< number_digit(n)
  OBVIOUS
<1>1. n \in Int /\ IntMax \in Nat /\ -(IntMax + 1) =< n
  BY MessageTextAssumption DEF Ints
<1>2. CASE n < 0
  <2> DEFINE k == -n
  <2>1. k \in Nat /\ k =< IntMax + 1 /\ n = -k
    BY <1>1, <1>2
  <2>2. Width(n) = 1 + Digits[k]
    BY <1>2 DEF Width
  <2>3. number_digit(n) = IF k = IntMax + 1 THEN IntMax + 3 ELSE 1 + Log10[k] + 1
    BY <1>1, <1>2 DEF number_digit
  <2> HIDE DEF k
  <2>4. Digits[k] \in Nat /\ Digits[k] =< k + 1 /\ Digits[k] = Log10[k] + 1
    BY <2>1, DigitsBounds, DigitsByLog10
  <2>5. CASE k = IntMax + 1
    BY <1>1, <2>1, <2>2, <2>3, <2>4, <2>5
  <2>6. CASE k # IntMax + 1
    <3>1. number_digit(n) = 1 + (Log10[k] + 1)
      <4>1. number_digit(n) = 1 + Log10[k] + 1
        BY <2>3, <2>6
      <4>2. Log10[k] \in Int
        BY <2>1, DigitsByLog10
      <4> QED
        BY <4>1, <4>2
    <3> QED
      BY <2>2, <2>4, <3>1
  <2> QED
    BY <2>5, <2>6
<1>3. CASE n = 0
  BY <1>1, <1>3, DigitsIs DEF Width, number_digit
<1>4. CASE n > 0
  <2>1. n \in Nat /\ Width(n) = Digits[n] /\ number_digit(n) = Log10[n] + 1
    BY <1>1, <1>4 DEF Width, number_digit
  <2> QED
    BY <2>1, DigitsBounds, DigitsByLog10
<1> QED
  BY <1>1, <1>2, <1>3, <1>4

LEMMA FieldsBegin ==
  ASSUME NEW m \in M!message_t
  PROVE  /\ Width(m.number) \in Nat /\ m.id_1.len \in Nat /\ m.id_2.len \in Nat
         /\ From1(m) = Width(m.number) + 1
         /\ From2(m) = Width(m.number) + m.id_1.len + 2
         /\ Complete(m) = Width(m.number) + m.id_1.len + m.id_2.len + 2
<1>1. /\ m.number \in Ints /\ m.id_1.len \in Nat /\ m.id_2.len \in Nat
  BY MessagesAre DEF ScannedIds
<1>2. Width(m.number) \in Nat
  BY <1>1, WidthIs
<1> DEFINE w == Width(m.number)
           l1 == m.id_1.len
           l2 == m.id_2.len
<1>3. From1(m) = w + 1 /\ From2(m) = w + 1 + l1 + 1 /\ Complete(m) = w + 1 + l1 + 1 + l2
  BY Zenon DEF From1, From2, Complete
<1>4. w \in Nat /\ l1 \in Nat /\ l2 \in Nat
  BY <1>1, <1>2
<1> HIDE DEF w, l1, l2
<1>5. /\ From1(m) = w + 1 /\ From2(m) = w + l1 + 2
      /\ Complete(m) = w + l1 + l2 + 2
  BY <1>3, <1>4
<1> QED
  BY <1>4, <1>5 DEF w, l1, l2

(* The size that message_string_new computes is enough.                    *)
LEMMA TextIsComplete ==
  ASSUME NEW m \in M!message_t
  PROVE  message_string_new(m) = [of |-> m, len |-> Complete(m)]
<1> DEFINE w == Width(m.number)
           d == number_digit(m.number)
           l1 == m.id_1.len
           l2 == m.id_2.len
           s == (d + l1 + l2 + 2 + 1) - 1
<1>1. w \in Nat /\ l1 \in Nat /\ l2 \in Nat /\ Complete(m) = w + l1 + l2 + 2
  BY FieldsBegin
<1>2. d \in Int /\ w =< d
  <2>1. m.number \in Ints
    BY MessagesAre
  <2> QED
    BY <2>1, WidthIs
<1>3. message_string_new(m) = [of |-> m, len |-> Min({Complete(m), s})]
  BY Zenon DEF message_string_new
<1> HIDE DEF w, d, l1, l2
<1>4. Complete(m) \in Int /\ s \in Int /\ Complete(m) =< s
  BY <1>1, <1>2
<1> HIDE DEF s
<1>5. Min({Complete(m), s}) = Complete(m)
  BY <1>4, MinOfTwo
<1> QED
  BY <1>3, <1>5

-----------------------------------------------------------------------------
(* Messages of texts                                                       *)

CompleteTexts == {[of |-> m, len |-> Complete(m)] : m \in Made}

LEMMA NumbersAre ==
  ASSUME NEW text, text.of \in M!message_t, NEW ends \in BOOLEAN
  PROVE  /\ Number(text, ends) \subseteq Ints
         /\ text.len > Width(text.of.number) => Number(text, ends) = {text.of.number}
<1> DEFINE n == text.of.number
           part == IF n < 0 THEN {-p : p \in FirstDigits(-n, text.len - 1)}
                   ELSE FirstDigits(n, text.len)
<1>1. n \in Ints /\ n \in Int /\ IntMax \in Nat
  BY MessagesAre, MessageTextAssumption DEF Ints
<1>2. part \subseteq Ints
  <2>1. CASE n < 0
    <3> DEFINE k == -n
               D == FirstDigits(k, text.len - 1)
    <3>1. k \in Nat /\ k =< IntMax + 1
      BY <1>1, <2>1 DEF Ints
    <3>2. part = {-p : p \in D}
      BY <2>1
    <3>3. D \subseteq LeadingNumbers[k]
      BY Zenon DEF FirstDigits
    <3> HIDE DEF part, k, D
    <3>4. D \subseteq 0 .. k
      BY <3>1, <3>3, LeadingNumbersBounds, Zenon
    <3>5. \A p \in 0 .. k : -p \in Ints
      BY <1>1, <3>1 DEF Ints
    <3> QED
      BY <3>2, <3>4, <3>5
  <2>2. CASE n >= 0
    <3>1. n \in Nat /\ n =< IntMax
      BY <1>1, <2>2 DEF Ints
    <3>2. part \subseteq LeadingNumbers[n]
      BY <1>1, <2>2 DEF FirstDigits
    <3> HIDE DEF part, n
    <3>3. part \subseteq 0 .. n
      BY <3>1, <3>2, LeadingNumbersBounds, Zenon
    <3>4. 0 .. n \subseteq Ints
      BY <1>1, <3>1 DEF Ints
    <3> QED
      BY <3>3, <3>4
  <2> QED
    BY <1>1, <2>1, <2>2
<1>3. Number(text, ends) =
        IF text.len > Width(n) THEN {n}
        ELSE part \cup (IF part # {} /\ ends THEN {} ELSE JunkNumbers)
  BY Zenon DEF Number
<1>4. JunkNumbers \subseteq Ints
  BY MessageTextAssumption DEF Ints
<1> HIDE DEF part
<1> QED
  BY <1>1, <1>2, <1>3, <1>4

LEMMA StrayAre ==
  /\ JunkIds \subseteq ScannedIds
  /\ Uninitialised \subseteq {i \in ScannedIds : i.len < ID_MAXSIZE}
<1>1. JunkIds \subseteq ScannedIds
  BY MessageTextAssumption DEF ScannedIds
<1> QED
  BY <1>1, TruncatedIs DEF Uninitialised

(* Of a text that ends, no field is longer than an identifier that was     *)
(* sent, or than what an array holds.                                      *)
LEMMA FieldsAre ==
  ASSUME NEW i \in ScannedIds, NEW n \in Int, NEW ends \in BOOLEAN
  PROVE  /\ Field(i, n, ends) \subseteq ScannedIds
         /\ n > i.len \/ (n = i.len /\ i.len > 0 /\ ends) => Field(i, n, ends) = {i}
         /\ ends /\ i.len < ID_MAXSIZE =>
              \A j \in Field(i, n, ends) : j.len < ID_MAXSIZE
<1>1. i.len \in Nat /\ i.name \in DOMAIN Word
  BY DEF ScannedIds
<1>2. /\ JunkIds \subseteq ScannedIds /\ Uninitialised \subseteq ScannedIds
      /\ \A j \in Uninitialised : j.len < ID_MAXSIZE
  BY StrayAre
<1>3. n > 0 => [i EXCEPT !.len = n] \in ScannedIds /\ [i EXCEPT !.len = n].len = n
  BY DEF ScannedIds
<1>4. n = i.len => [i EXCEPT !.len = n] = i
  BY DEF ScannedIds
<1>5. ID_MAXSIZE \in Int
  BY MessageTextAssumption
<1> DEFINE cutTo == [i EXCEPT !.len = n]
<1>6. Field(i, n, ends) =
        IF n > i.len THEN {i}
        ELSE (IF n > 0 THEN {cutTo} ELSE {})
               \cup (IF ~ends THEN JunkIds ELSE IF n > 0 THEN {} ELSE Uninitialised)
  BY Zenon DEF Field
<1> HIDE DEF cutTo
<1>7. n > 0 => cutTo \in ScannedIds /\ cutTo.len = n
  BY <1>3 DEF cutTo
<1>8. n = i.len => cutTo = i
  BY <1>4 DEF cutTo
<1>9. Field(i, n, ends) \subseteq ScannedIds
  BY <1>2, <1>6, <1>7
<1>10. n > i.len \/ (n = i.len /\ i.len > 0 /\ ends) => Field(i, n, ends) = {i}
  BY <1>1, <1>6, <1>8
<1>11. ASSUME ends, i.len < ID_MAXSIZE, NEW j \in Field(i, n, ends)
       PROVE  j.len < ID_MAXSIZE
  <2>1. CASE n > i.len
    BY <1>6, <1>11, <2>1
  <2>2. CASE ~(n > i.len) /\ n > 0
    <3>1. j = cutTo
      BY <1>6, <1>11, <2>2
    <3> QED
      BY <1>1, <1>5, <1>7, <1>11, <2>2, <3>1
  <2>3. CASE ~(n > i.len) /\ ~(n > 0)
    BY <1>2, <1>6, <1>11, <2>3
  <2> QED
    BY <2>1, <2>2, <2>3
<1> QED
  BY <1>9, <1>10, <1>11

LEMMA LooseAre ==
  ASSUME NEW text, text.of \in Made, NEW ends \in BOOLEAN
  PROVE  /\ Loose(text, ends) \subseteq ScannedIds
         /\ ends => \A j \in Loose(text, ends) : j.len < ID_MAXSIZE
<1> DEFINE l1 == text.of.id_1.len
           l2 == text.of.id_2.len
<1>1. l1 \in Nat /\ l2 \in Nat /\ l1 < ID_MAXSIZE /\ l2 < ID_MAXSIZE
  BY FieldsBegin DEF Made
<1>2. /\ JunkIds \subseteq ScannedIds /\ Uninitialised \subseteq ScannedIds
      /\ \A j \in Uninitialised : j.len < ID_MAXSIZE
  BY StrayAre
<1>3. ID_MAXSIZE \in Int
  BY MessageTextAssumption
<1>4. \A j \in ScannedIds : j.len \in Nat
  BY DEF ScannedIds
<1>5. Loose(text, ends) =
        IF ends THEN Uninitialised \cup {j \in JunkIds : j.len =< l1 \/ j.len =< l2}
        ELSE JunkIds
  BY Zenon DEF Loose
<1> HIDE DEF l1, l2
<1>6. Loose(text, ends) \subseteq ScannedIds
  BY <1>2, <1>5
<1>7. ASSUME ends, NEW j \in Loose(text, ends) PROVE j.len < ID_MAXSIZE
  <2>1. j \in Uninitialised \/ (j \in JunkIds /\ (j.len =< l1 \/ j.len =< l2))
    BY <1>5, <1>7
  <2>2. j.len \in Nat
    BY <1>4, <1>6, <1>7
  <2> QED
    BY <1>1, <1>2, <1>3, <2>1, <2>2
<1> QED
  BY <1>6, <1>7

(* What a whole text that ends tells of the message: its number, the first *)
(* identifier if it is a word, the second if both are.                     *)
Found(x, m) ==
  /\ x.number = m.number
  /\ IsWord(m.id_1) => x.id_1 = m.id_1
  /\ IsWord(m.id_1) /\ IsWord(m.id_2) => x.id_2 = m.id_2

LEMMA ScannedAre ==
  ASSUME NEW text, text.of \in Made, text.len \in Int, NEW ends \in BOOLEAN,
         NEW x \in Scanned(text, ends)
  PROVE  /\ x \in M!message_t
         /\ ends => x \in Made
         /\ text.len = Complete(text.of) /\ ends => Found(x, text.of)
<1> DEFINE m == text.of
           n1 == text.len - From1(m)
           n2 == text.len - From2(m)
           N == Number(text, ends)
           L == Loose(text, ends)
           F1 == IF IsWord(m.id_1) THEN Field(m.id_1, n1, ends) ELSE L
           F2 == IF IsWord(m.id_1) /\ IsWord(m.id_2) THEN Field(m.id_2, n2, ends) ELSE L
<1>1. /\ m \in M!message_t
      /\ m.number \in Ints /\ m.id_1 \in ScannedIds /\ m.id_2 \in ScannedIds
      /\ m.id_1.len < ID_MAXSIZE /\ m.id_2.len < ID_MAXSIZE
  BY MessagesAre DEF Made
<1>2. /\ Width(m.number) \in Nat /\ m.id_1.len \in Nat /\ m.id_2.len \in Nat
      /\ From1(m) = Width(m.number) + 1
      /\ From2(m) = Width(m.number) + m.id_1.len + 2
      /\ Complete(m) = Width(m.number) + m.id_1.len + m.id_2.len + 2
  BY <1>1, FieldsBegin
<1>3. n1 \in Int /\ n2 \in Int
  BY <1>2
<1>4. N \subseteq Ints
  BY <1>1, NumbersAre
<1>5. /\ L \subseteq ScannedIds
      /\ ends => \A j \in L : j.len < ID_MAXSIZE
  BY LooseAre
<1>6. x \in [number : N, id_1 : F1, id_2 : F2]
  BY Zenon DEF Scanned
<1>7. /\ x.number \in N /\ x.id_1 \in F1 /\ x.id_2 \in F2
      /\ x = [number |-> x.number, id_1 |-> x.id_1, id_2 |-> x.id_2]
  <2> HIDE DEF N, F1, F2
  <2> QED
    BY <1>6
<1>8. F1 \subseteq ScannedIds /\ (ends => \A j \in F1 : j.len < ID_MAXSIZE)
  <2> HIDE DEF n1, L, m
  <2> QED
    BY <1>1, <1>3, <1>5, FieldsAre
<1>9. F2 \subseteq ScannedIds /\ (ends => \A j \in F2 : j.len < ID_MAXSIZE)
  <2> HIDE DEF n2, L, m
  <2> QED
    BY <1>1, <1>3, <1>5, FieldsAre
<1>10. x \in M!message_t
  <2> HIDE DEF N, F1, F2
  <2> QED
    BY <1>4, <1>7, <1>8, <1>9, MessagesAre
<1>11. ends => x \in Made
  <2> HIDE DEF F1, F2
  <2> QED
    BY <1>7, <1>8, <1>9, <1>10 DEF Made
<1>12. ASSUME text.len = Complete(m), ends PROVE Found(x, m)
  <2>1. /\ text.len > Width(m.number) /\ n1 > m.id_1.len /\ n2 = m.id_2.len
    BY <1>2, <1>12
  <2>2. N = {m.number}
    BY <1>1, <2>1, NumbersAre
  <2>3. IsWord(m.id_1) => F1 = {m.id_1}
    <3> HIDE DEF n1, L, m
    <3> QED
      BY <1>1, <1>3, <2>1, FieldsAre
  <2>4. IsWord(m.id_1) /\ IsWord(m.id_2) => F2 = {m.id_2}
    <3>1. IsWord(m.id_2) => m.id_2.len > 0
      BY <1>2 DEF IsWord
    <3> HIDE DEF n2, L, m
    <3> QED
      BY <1>1, <1>3, <1>12, <2>1, <3>1, FieldsAre
  <2> HIDE DEF N, F1, F2, m
  <2> QED
    BY <1>7, <2>2, <2>3, <2>4 DEF Found
<1> QED
  BY <1>10, <1>11, <1>12

(* message_extract copies what is in the arrays, as much as fits.          *)
LEMMA ExtractedAre ==
  ASSUME NEW m \in M!message_t
  PROVE  /\ message_extract(m) \subseteq Made
         /\ m \in Made => ~Overruns(m) /\ message_extract(m) = {m}
<1> DEFINE All == [number : JunkNumbers, id_1 : JunkIds, id_2 : JunkIds]
           S == IF Overruns(m) THEN All ELSE {m}
<1>1. JunkNumbers \subseteq Ints /\ JunkIds \subseteq ScannedIds
  BY MessageTextAssumption, StrayAre DEF Ints
<1>2. All \subseteq M!message_t
  BY <1>1, MessagesAre
<1>3. message_extract(m) = {message_t_init(x) : x \in S}
  BY Zenon DEF message_extract
<1>4. S \subseteq M!message_t
  <2> HIDE DEF All
  <2> QED
    BY <1>2
<1> HIDE DEF All
<1>5. message_extract(m) \subseteq Made
  <2> HIDE DEF S
  <2> QED
    BY <1>3, <1>4, InitMakes
<1>6. ASSUME m \in Made PROVE ~Overruns(m) /\ message_extract(m) = {m}
  <2>1. m.id_1.len \in Nat /\ m.id_2.len \in Nat /\ ID_MAXSIZE \in Nat
    BY FieldsBegin, MessageTextAssumption
  <2>2. ~Overruns(m)
    BY <1>6, <2>1 DEF Overruns, Made
  <2>3. message_t_init(m) = m
    BY <1>6, InitMakes
  <2> QED
    BY <1>3, <2>2, <2>3
<1> QED
  BY <1>5, <1>6

LEMMA MadeMessages ==
  /\ M!DefaultMessage \in Made
  /\ \A n \in Ints : [M!DefaultMessage EXCEPT !.number = n] \in Made
  /\ \A c \in ScannedIds : \A m \in M!message_t : M!ClientMessage(c, m) \in M!message_t
  /\ \A m \in Made : M!ServerBump(m) \in Made
<1>1. Id(NONE) \in ScannedIds /\ Id(NONE).len < ID_MAXSIZE
  BY MessageTextAssumption DEF Id, ScannedIds
<1>2. 0 \in Ints /\ \A n \in Ints : M!Increment(n) \in Ints
  BY MessageTextAssumption DEF Ints, M!Increment
<1>3. M!DefaultMessage = [number |-> 0, id_1 |-> Id(NONE), id_2 |-> Id(NONE)]
  BY DEF M!DefaultMessage
<1>4. M!DefaultMessage \in Made
  BY <1>1, <1>2, <1>3, MessagesAre DEF Made
<1>5. ASSUME NEW n \in Ints PROVE [M!DefaultMessage EXCEPT !.number = n] \in Made
  <2>1. [M!DefaultMessage EXCEPT !.number = n] =
          [number |-> n, id_1 |-> Id(NONE), id_2 |-> Id(NONE)]
    BY <1>3
  <2> QED
    BY <1>1, <2>1, MessagesAre DEF Made
<1>6. ASSUME NEW c \in ScannedIds, NEW m \in M!message_t
      PROVE  M!ClientMessage(c, m) \in M!message_t
  BY <1>2, MessagesAre DEF M!ClientMessage
<1>7. ASSUME NEW m \in Made PROVE M!ServerBump(m) \in Made
  <2>1. m \in [number : Ints, id_1 : ScannedIds, id_2 : ScannedIds]
    BY MessagesAre DEF Made
  <2>2. M!Increment(m.number) \in Ints
    BY <1>2, <2>1
  <2> DEFINE k == M!Increment(m.number)
  <2>3. M!ServerBump(m) = [m EXCEPT !.number = k]
    BY DEF M!ServerBump
  <2> HIDE DEF k
  <2>4. [m EXCEPT !.number = k].id_1 = m.id_1 /\ [m EXCEPT !.number = k].id_2 = m.id_2
    BY <2>1
  <2>5. [m EXCEPT !.number = k] \in [number : Ints, id_1 : ScannedIds, id_2 : ScannedIds]
    BY <2>1, <2>2 DEF k
  <2> QED
    BY <2>3, <2>4, <2>5, MessagesAre DEF Made
<1> QED
  BY <1>4, <1>5, <1>6, <1>7

-----------------------------------------------------------------------------
(* The invariant                                                           *)

TextInv ==
  /\ at \in {"idle", "client", "server"} /\ {cut, overrun} \subseteq BOOLEAN
  /\ overrun => cut /\ at = "idle"
  /\ store \in Seq(CompleteTexts)
  /\ id \in ScannedIds /\ seen \in Made
  /\ wire \in CompleteTexts \cup {Nothing}
  /\ at = "server" => wire \in CompleteTexts

(* What the client makes its message from.                                 *)
SessionInv ==
  /\ at # "idle" /\ ~cut => Found(seen, LastText.of)
  /\ at = "server" => wire.of = message_t_init(M!ClientMessage(id, seen))

LEMMA TextsAre ==
  ASSUME NEW m \in Made
  PROVE  message_string_new(m) \in CompleteTexts /\ message_string_new(m).of = m
<1>1. message_string_new(m) = [of |-> m, len |-> Complete(m)]
  BY TextIsComplete DEF Made
<1> QED
  BY <1>1 DEF CompleteTexts

LEMMA CompleteTextsAre ==
  ASSUME NEW text \in CompleteTexts
  PROVE  /\ text.of \in Made /\ text.of \in M!message_t
         /\ text.len = Complete(text.of) /\ text.len \in Nat
         /\ text = [of |-> text.of, len |-> Complete(text.of)]
<1>1. PICK m \in Made : text = [of |-> m, len |-> Complete(m)]
  BY DEF CompleteTexts
<1>2. text.of = m /\ text.len = Complete(m)
  BY <1>1
<1>3. m \in M!message_t
  BY DEF Made
<1>4. Complete(m) \in Nat
  BY <1>3, FieldsBegin
<1> QED
  BY <1>1, <1>2, <1>3, <1>4

LEMMA LastTextIs ==
  ASSUME store \in Seq(CompleteTexts)
  PROVE  /\ LastText \in CompleteTexts
         /\ store = <<>> => LastText.of = M!DefaultMessage
         /\ store # <<>> => LastText = store[Len(store)]
<1>1. CASE store = <<>>
  <2>1. message_t_init(M!DefaultMessage) = M!DefaultMessage
    BY MadeMessages, InitMakes DEF Made
  <2>2. LastText = message_string_new(M!DefaultMessage)
    BY <1>1, <2>1 DEF LastText
  <2> QED
    BY <1>1, <2>2, MadeMessages, TextsAre
<1>2. CASE store # <<>>
  <2>1. LastText = store[Len(store)]
    BY <1>2 DEF LastText, Last
  <2>2. store[Len(store)] \in CompleteTexts
    BY <1>2
  <2> QED
    BY <1>2, <2>1, <2>2
<1> QED
  BY <1>1, <1>2

LEMMA TextInit == Init => TextInv /\ SessionInv
<1> SUFFICES ASSUME Init PROVE TextInv /\ SessionInv
  OBVIOUS
<1>1. store \in Seq(CompleteTexts)
  <2>1. CASE store = <<>>
    BY <2>1
  <2>2. ASSUME NEW n \in OldNumbers,
               store = <<message_string_new([M!DefaultMessage EXCEPT !.number = n])>>
        PROVE  store \in Seq(CompleteTexts)
    <3>1. n \in Ints
      BY MessageTextAssumption DEF Ints
    <3>2. [M!DefaultMessage EXCEPT !.number = n] \in Made
      BY <3>1, MadeMessages
    <3>3. message_string_new([M!DefaultMessage EXCEPT !.number = n]) \in CompleteTexts
      BY <3>2, TextsAre
    <3> QED
      BY <2>2, <3>3
  <2> QED
    BY <2>1, <2>2 DEF Init
<1>2. id \in ScannedIds
  BY MessageTextAssumption DEF Init, Id, ScannedIds
<1>3. seen \in Made /\ wire = Nothing /\ at = "idle" /\ cut = FALSE /\ overrun = FALSE
  BY MadeMessages DEF Init
<1> QED
  BY <1>1, <1>2, <1>3 DEF TextInv, SessionInv

LEMMA ClientReadsInv ==
  ASSUME TextInv, NEW name \in Accepted, ClientReads(name)
  PROVE  TextInv' /\ SessionInv'
<1>1. /\ at' = "client" /\ id' = Id(name)
      /\ store' = store /\ wire' = wire
  BY DEF ClientReads
<1>2. LastText \in CompleteTexts
  BY LastTextIs DEF TextInv
<1>3. LastText' = LastText
  BY <1>1 DEF LastText
<1>4. PICK k \in 1 .. LastText.len :
        /\ cut' = (k < LastText.len)
        /\ \E m \in Scanned([LastText EXCEPT !.len = k], TRUE) :
             seen' \in message_extract(m) /\ overrun' = Overruns(m)
  BY DEF ClientReads
<1> DEFINE last == LastText
           part == [last EXCEPT !.len = k]
<1>5. /\ last.of \in Made /\ last.len = Complete(last.of) /\ last.len \in Nat
      /\ last = [of |-> last.of, len |-> Complete(last.of)]
  BY <1>2, CompleteTextsAre
<1>6. id' \in ScannedIds
  BY <1>1, MessageTextAssumption DEF Accepted, Id, ScannedIds
<1>7. cut' = (k < last.len) /\ k \in 1 .. last.len
  BY <1>4
<1>8. PICK m \in Scanned(part, TRUE) :
        seen' \in message_extract(m) /\ overrun' = Overruns(m)
  BY <1>4
<1>9. part.of = last.of /\ part.len = k
  <2> HIDE DEF last
  <2> QED
    BY <1>5
<1>10. k \in Int /\ TRUE \in BOOLEAN
  BY <1>5, <1>7
<1>11. last' = last
  BY <1>3
<1> HIDE DEF last, part
<1>12. /\ m \in Made
       /\ part.len = Complete(part.of) => Found(m, part.of)
  BY <1>5, <1>8, <1>9, <1>10, ScannedAre
<1>13. /\ ~Overruns(m) /\ message_extract(m) = {m}
  <2>1. m \in M!message_t
    BY <1>12 DEF Made
  <2> QED
    BY <1>12, <2>1, ExtractedAre
<1>14. seen' = m /\ overrun' = FALSE
  BY <1>8, <1>13
<1>15. ~cut' => Found(seen', last.of)
  <2>1. ~cut' => k = last.len
    <3>1. ~cut' => ~(k < last.len)
      BY <1>7, Zenon
    <3> QED
      BY <1>5, <1>7, <3>1
  <2> QED
    BY <1>5, <1>9, <1>12, <1>14, <2>1
<1>16. cut' \in BOOLEAN
  BY <1>7
<1>17. TextInv'
  BY <1>1, <1>6, <1>12, <1>14, <1>16 DEF TextInv
<1>18. SessionInv'
  <2>1. ~cut' => Found(seen, LastText.of)'
    BY <1>11, <1>15 DEF last, Found, IsWord
  <2> QED
    BY <1>1, <2>1 DEF SessionInv
<1> QED
  BY <1>17, <1>18

LEMMA ClientWritesInv ==
  ASSUME TextInv, SessionInv, ClientWrites
  PROVE  TextInv' /\ SessionInv'
<1>1. /\ at = "client" /\ at' = "server"
      /\ store' = store /\ id' = id /\ seen' = seen /\ cut' = cut
      /\ overrun' = overrun
      /\ wire' = message_string_new(message_t_init(M!ClientMessage(id, seen)))
  BY DEF ClientWrites
<1>2. LastText' = LastText
  BY <1>1 DEF LastText
<1>3. M!ClientMessage(id, seen) \in M!message_t
  BY MadeMessages DEF TextInv, Made
<1>4. message_t_init(M!ClientMessage(id, seen)) \in Made
  BY <1>3, InitMakes
<1>5. /\ wire' \in CompleteTexts
      /\ wire'.of = message_t_init(M!ClientMessage(id, seen))
  BY <1>1, <1>4, TextsAre
<1>6. TextInv'
  BY <1>1, <1>5 DEF TextInv
<1>7. ~cut => Found(seen, LastText.of)
  BY <1>1 DEF SessionInv
<1>8. SessionInv'
  BY <1>1, <1>2, <1>5, <1>7 DEF SessionInv, Found
<1> QED
  BY <1>6, <1>8

(* What ChildStores appends.                                               *)
LEMMA ChildAppends ==
  ASSUME TextInv, ChildStores
  PROVE  /\ overrun' => cut'
         /\ \/ \E x \in Made :
                 /\ store' = Append(store, message_string_new(M!ServerBump(x)))
                 /\ ~cut' => ~cut /\ Found(x, wire.of)
            \/ store' = store
<1>1. wire \in CompleteTexts
  BY DEF TextInv, ChildStores
<1>2. PICK k \in 0 .. Sent :
        /\ cut' = (cut \/ k < Sent)
        /\ \E m \in Scanned([wire EXCEPT !.len = Min({k, wire.len})], k > wire.len) :
             /\ overrun' = (overrun \/ Overruns(m))
             /\ \/ \E x \in message_extract(m) :
                     store' = Append(store, message_string_new(M!ServerBump(x)))
                \/ store' = store
  BY Zenon DEF ChildStores
<1> DEFINE w == wire
           n == Min({k, w.len})
           part == [w EXCEPT !.len = n]
           ends == k > w.len
<1>3. /\ w.of \in Made /\ w.len = Complete(w.of) /\ w.len \in Nat
      /\ w = [of |-> w.of, len |-> Complete(w.of)]
  BY <1>1, CompleteTextsAre
<1>4. PICK m \in Scanned(part, ends) :
        /\ overrun' = (overrun \/ Overruns(m))
        /\ \/ \E x \in message_extract(m) :
                store' = Append(store, message_string_new(M!ServerBump(x)))
           \/ store' = store
  BY <1>2
<1>5. Sent = w.len + 1
  BY DEF Sent
<1> HIDE DEF w
<1>6. k \in Int
  BY <1>3, <1>5
<1>7. n = IF k =< w.len THEN k ELSE w.len
  BY <1>3, <1>6, MinOfTwo
<1>8. n \in Int /\ ends \in BOOLEAN
  BY <1>3, <1>6, <1>7
<1>9. ~(k < Sent) <=> ends
  BY <1>3, <1>5, <1>6
<1>10. ends => n = w.len
  BY <1>3, <1>6, <1>7
<1> HIDE DEF n, ends
<1>11. part.of = w.of /\ part.len = n
  BY <1>3
<1> HIDE DEF part
<1>12. /\ m \in M!message_t
       /\ ends => m \in Made /\ Found(m, w.of)
  BY <1>3, <1>4, <1>8, <1>10, <1>11, ScannedAre
<1>13. /\ message_extract(m) \subseteq Made
       /\ ends => ~Overruns(m) /\ message_extract(m) = {m}
  BY <1>12, ExtractedAre
<1>14. ~cut' => ~cut /\ ends
  BY <1>2, <1>9
<1>15. overrun' => cut'
  BY <1>2, <1>4, <1>9, <1>13 DEF TextInv
<1>16. ASSUME NEW x \in message_extract(m) PROVE x \in Made /\ (ends => Found(x, w.of))
  BY <1>12, <1>13, <1>16
<1> QED
  BY <1>4, <1>14, <1>15, <1>16 DEF w

LEMMA ChildStoresInv ==
  ASSUME TextInv, ChildStores
  PROVE  TextInv' /\ SessionInv'
<1>1. /\ at' = "idle" /\ id' = id
      /\ seen' = M!DefaultMessage /\ wire' = Nothing
  BY DEF ChildStores
<1>2. store' \in Seq(CompleteTexts)
  <2>1. ASSUME NEW m \in Made PROVE message_string_new(M!ServerBump(m)) \in CompleteTexts
    BY MadeMessages, TextsAre
  <2> QED
    BY <2>1, ChildAppends DEF TextInv
<1>3. {cut', overrun'} \subseteq BOOLEAN
  BY DEF ChildStores, TextInv
<1>4. overrun' => cut'
  BY ChildAppends
<1>5. TextInv'
  BY <1>1, <1>2, <1>3, <1>4, MadeMessages DEF TextInv
<1> QED
  BY <1>1, <1>5 DEF SessionInv

LEMMA TextStep == TextInv /\ SessionInv /\ [Next]_vars => TextInv' /\ SessionInv'
<1> SUFFICES ASSUME TextInv, SessionInv, [Next]_vars
             PROVE  TextInv' /\ SessionInv'
  OBVIOUS
<1>1. ASSUME NEW name \in Accepted, ClientReads(name)
      PROVE  TextInv' /\ SessionInv'
  BY <1>1, ClientReadsInv
<1>2. CASE ClientWrites
  BY <1>2, ClientWritesInv
<1>3. CASE ChildStores
  BY <1>3, ChildStoresInv
<1>4. CASE UNCHANGED vars
  BY <1>4 DEF vars, TextInv, SessionInv, LastText, Found
<1> QED
  BY <1>1, <1>2, <1>3, <1>4 DEF Next, Idle

LEMMA SpecTextInv == Spec => [](TextInv /\ SessionInv)
  BY TextInit, TextStep, PTL DEF Spec

-----------------------------------------------------------------------------
(* The theorems                                                            *)

(* What the arrays are made for: the longest number, two identifiers, two  *)
(* spaces and a zero.                                                      *)
TextsFit == \A n \in Ints : Width(n) + 2 * ID_MAXSIZE + 1 =< MESSAGE_MAXSIZE

LEMMA TypeIs == TextsFit /\ TextInv => TypeOK
<1> SUFFICES ASSUME TextsFit, TextInv PROVE TypeOK
  OBVIOUS
<1>1. Texts \subseteq CompleteTexts \cup {Nothing}
  BY DEF Texts, TextInv
<1>2. Nothing.of \in Made /\ Nothing.len = 0
  BY MadeMessages DEF Nothing
<1>3. ASSUME NEW text \in CompleteTexts
      PROVE  text.len + 1 =< MESSAGE_MAXSIZE
  <2> DEFINE m == text.of
             w == Width(m.number)
             l1 == m.id_1.len
             l2 == m.id_2.len
  <2>1. m \in Made /\ m \in M!message_t /\ text.len = Complete(m)
    BY CompleteTextsAre
  <2>2. m.number \in Ints
    BY <2>1, MessagesAre
  <2>3. w \in Nat /\ l1 \in Nat /\ l2 \in Nat /\ text.len = w + l1 + l2 + 2
    BY <2>1, FieldsBegin
  <2>4. l1 < ID_MAXSIZE /\ l2 < ID_MAXSIZE
    BY <2>1 DEF Made
  <2>5. w + 2 * ID_MAXSIZE + 1 =< MESSAGE_MAXSIZE
    BY <2>2 DEF TextsFit
  <2>6. ID_MAXSIZE \in Nat /\ MESSAGE_MAXSIZE \in Nat
    BY MessageTextAssumption
  <2> HIDE DEF m, w, l1, l2
  <2> QED
    BY <2>3, <2>4, <2>5, <2>6
<1>4. 1 =< MESSAGE_MAXSIZE
  <2>1. 0 \in Ints
    BY MessageTextAssumption DEF Ints
  <2>2. Width(0) \in Nat /\ Width(0) + 2 * ID_MAXSIZE + 1 =< MESSAGE_MAXSIZE
    BY <2>1, WidthIs DEF TextsFit
  <2> QED
    BY <2>2, MessageTextAssumption
<1>5. \A text \in Texts : text.of \in Made /\ text.len + 1 =< MESSAGE_MAXSIZE
  BY <1>1, <1>2, <1>3, <1>4, CompleteTextsAre
<1>6. seen \in Made
  BY DEF TextInv
<1>7. \A m \in Made :
        m \in M!message_t /\ m.id_1.len < ID_MAXSIZE /\ m.id_2.len < ID_MAXSIZE
  BY DEF Made
<1>8. at \in {"idle", "client", "server"} /\ {cut, overrun} \subseteq BOOLEAN
  BY DEF TextInv
<1> QED
  BY <1>5, <1>6, <1>7, <1>8, Zenon DEF TypeOK

(* TypeOK: the message that was made of a text, however it came, has       *)
(* identifiers that fit, and its own text fits into MESSAGE_MAXSIZE bytes. *)
THEOREM TypeCorrect == TextsFit => (Spec => []TypeOK)
<1> SUFFICES ASSUME TextsFit PROVE Spec => []TypeOK
  OBVIOUS
<1>1. TextInv /\ SessionInv => TypeOK
  BY TypeIs
<1> QED
  BY <1>1, SpecTextInv, PTL

(* OverrunOnlyWhenCut: no client's scan ever writes past the end of an id, *)
(* and a child's only if its read() returned less than the client sent.    *)
THEOREM WholeTextsDoNotOverrun == Spec => []OverrunOnlyWhenCut
<1>1. TextInv /\ SessionInv => OverrunOnlyWhenCut
  BY DEF TextInv, OverrunOnlyWhenCut
<1> QED
  BY <1>1, SpecTextInv, PTL

(* NothingCutOff: the size that message_string_new computes with log10 is  *)
(* enough for every int, the smallest included.                            *)
THEOREM TextsAreComplete == Spec => []NothingCutOff
<1>1. TextInv /\ SessionInv => NothingCutOff
  <2> SUFFICES ASSUME TextInv PROVE NothingCutOff
    OBVIOUS
  <2>1. Texts \subseteq CompleteTexts \cup {Nothing}
    BY DEF Texts, TextInv
  <2> QED
    BY <2>1, CompleteTextsAre DEF NothingCutOff
<1> QED
  BY <1>1, SpecTextInv, PTL

(* WholeTextsKeepTheMessage: a session whose texts arrive whole appends    *)
(* the number that the model of whole messages says, and carries over the  *)
(* identifiers that are words.                                             *)
THEOREM SessionsKeepMessages == Spec => WholeTextsKeepTheMessage
<1>1. ASSUME TextInv, SessionInv, [Next]_vars, Len(store') > Len(store), ~cut'
      PROVE  KeepsTheMessage
  <2>1. ChildStores
    <3>1. ~(Len(store) > Len(store))
      BY DEF TextInv
    <3> QED
      BY <1>1, <3>1 DEF Next, ClientReads, ClientWrites, Idle, vars
  <2>2. at = "server"
    BY <2>1 DEF ChildStores
  <2>3. PICK x \in Made :
          /\ store' = Append(store, message_string_new(M!ServerBump(x)))
          /\ ~cut /\ Found(x, wire.of)
    <3>1. ~(Len(store) > Len(store))
      BY <1>1 DEF TextInv
    <3> QED
      BY <1>1, <2>1, <3>1, ChildAppends
  <2>4. PICK l : l = LastText.of
    OBVIOUS
  <2>5. l \in M!message_t /\ Found(seen, l)
    BY <1>1, <2>2, <2>3, <2>4, LastTextIs, CompleteTextsAre DEF TextInv, SessionInv
  <2> DEFINE i == Truncated(id)
             sent == [number |-> M!Increment(l.number), id_1 |-> i, id_2 |-> seen.id_2]
  <2>6. wire.of = sent
    <3> DEFINE c == M!ClientMessage(id, seen)
    <3>1. seen \in M!message_t /\ seen.id_2 \in ScannedIds /\ seen.id_2.len < ID_MAXSIZE
      BY <1>1, MessagesAre DEF TextInv, Made
    <3>2. /\ c \in M!message_t /\ c.number = M!Increment(seen.number)
          /\ c.id_1 = id /\ c.id_2 = seen.id_2
      BY <1>1, <3>1, MadeMessages DEF TextInv, M!ClientMessage
    <3>3. seen.number = l.number
      BY <2>5 DEF Found
    <3>4. Truncated(seen.id_2) = seen.id_2
      BY <3>1, TruncatedIs
    <3>5. wire.of = message_t_init(c)
      BY <1>1, <2>2 DEF SessionInv
    <3> HIDE DEF c
    <3>6. message_t_init(c) = [number |-> c.number, id_1 |-> Truncated(c.id_1),
                               id_2 |-> Truncated(c.id_2)]
      BY <3>2, InitMakes
    <3> QED
      BY <3>2, <3>3, <3>4, <3>5, <3>6, Zenon
  <2>7. /\ x.number = M!Increment(l.number)
        /\ IsWord(i) => x.id_1 = i
        /\ IsWord(i) /\ IsWord(seen.id_2) => x.id_2 = seen.id_2
    <3> HIDE DEF i
    <3>1. Found(x, sent)
      BY <2>3, <2>6
    <3> QED
      BY <3>1 DEF Found
  <2> DEFINE new == M!ServerBump(x)
             t == message_string_new(new)
  <2>8. /\ new.number = M!Increment(x.number)
        /\ new.id_1 = x.id_1 /\ new.id_2 = x.id_2
    BY MessagesAre DEF M!ServerBump, Made
  <2>9. t \in CompleteTexts /\ t.of = new
    BY MadeMessages, TextsAre
  <2>10. M!Served(id, l).number = M!Increment(M!Increment(l.number))
    <3>1. /\ M!ClientMessage(id, l) \in M!message_t
          /\ M!ClientMessage(id, l).number = M!Increment(l.number)
      BY <1>1, <2>5, MadeMessages DEF TextInv, M!ClientMessage
    <3> QED
      BY <3>1, MessagesAre DEF M!Served, M!ServerBump
  <2> HIDE DEF t, new, i
  <2>11. Last(Append(store, t)) = t
    BY <1>1, <2>9 DEF TextInv, Last
  <2>12. Last(store').of = new
    BY <2>3, <2>9, <2>11 DEF t, new
  <2>13. IsWord(l.id_1) /\ IsWord(l.id_2) => seen.id_2 = l.id_2
    BY <2>5 DEF Found
  <2>14. /\ new.number = M!Served(id, l).number
         /\ IsWord(i) => new.id_1 = i
         /\ (\A j \in {i, l.id_1, l.id_2} : IsWord(j)) => new.id_2 = l.id_2
    BY <2>7, <2>8, <2>10, <2>13
  <2> QED
    BY <2>4, <2>12, <2>14, Zenon DEF KeepsTheMessage, i
<1>2. TextInv /\ SessionInv /\ [Next]_vars =>
        [Len(store') > Len(store) /\ ~cut' => KeepsTheMessage]_vars
  BY <1>1
<1> QED
  BY <1>2, SpecTextInv, PTL DEF Spec, WholeTextsKeepTheMessage
=============================================================================
