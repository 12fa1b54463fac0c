------------------------ MODULE FiscalDocuments_proofs ------------------------
(***************************************************************************)
(* What FiscalDocuments keeps for any invoices, payment accounts, old rows *)
(* and purchases: the request ties, a note is accepted and cancels its     *)
(* voucher, the books agree and the page adds up.  Facts about integers    *)
(* come first, then amounts, rows, books and pages.                        *)
(***************************************************************************)
EXTENDS FiscalProperties, TLAPS, SequenceTheorems, FiniteSetTheorems, WellFoundedInduction

-----------------------------------------------------------------------------
(* Facts about naturals and sums.                                             *)

Below == {pair \in Nat \X Nat : pair[1] < pair[2]}

\* A set of naturals has a least element.
LEMMA LeastElement ==
  ASSUME NEW T \in SUBSET Nat, T # {}
  PROVE  \E least \in T : \A x \in T : least <= x
<1>1. IsWellFoundedOn(Below, Nat)
  BY NatLessThanWellFounded DEF OpToRel, Below
<1>2. PICK least \in T : \A x \in T : ~ (<<x, least>> \in Below)
  BY <1>1, WFMin
<1>3. \A x \in T : least <= x
  <2> TAKE x \in T
  <2>1. <<x, least>> \notin Below /\ x \in Nat /\ least \in Nat
    BY <1>2
  <2> QED BY <2>1 DEF Below
<1> QED BY <1>3

\* What holds of zero and of the next of each holds of every natural.
LEMMA EveryNatural ==
  ASSUME NEW T \in SUBSET Nat, 0 \in T, \A n \in T : n + 1 \in T
  PROVE  T = Nat
<1> SUFFICES ASSUME Nat \ T # {} PROVE FALSE
  OBVIOUS
<1>1. PICK least \in Nat \ T : \A x \in Nat \ T : least <= x
  BY LeastElement
<1>2. least # 0 /\ least - 1 \in Nat
  BY <1>1
<1>3. least - 1 \in T
  BY <1>1, <1>2
<1> QED BY <1>1, <1>2, <1>3

\* Naturals can be added up: a sum over 1..n is defined by its first terms.
SumsUpTo(sum, n, term) ==
  DOMAIN sum = 0..n /\ \A m \in 0..n : sum[m] = IF m = 0 THEN 0 ELSE sum[m - 1] + term[m]

LEMMA SumsExist ==
  ASSUME NEW term
  PROVE  \E sum : sum = [n \in Nat |-> IF n = 0 THEN 0 ELSE sum[n - 1] + term[n]]
<1>1. \A n \in Nat : \E sum : SumsUpTo(sum, n, term)
  <2> DEFINE T == {n \in Nat : \E sum : SumsUpTo(sum, n, term)}
  <2>1. 0 \in T
    <3>1. SumsUpTo([m \in 0..0 |-> 0], 0, term)
      BY DEF SumsUpTo
    <3> QED BY <3>1
  <2>2. ASSUME NEW n \in T PROVE n + 1 \in T
    <3>1. PICK sum : SumsUpTo(sum, n, term)
      OBVIOUS
    <3>2. SumsUpTo([m \in 0..(n + 1) |-> IF m = n + 1 THEN sum[n] + term[n + 1] ELSE sum[m]], n + 1, term)
      BY <3>1 DEF SumsUpTo
    <3> QED BY <3>2
  <2> HIDE DEF T
  <2>3. T = Nat
    <3>1. T \in SUBSET Nat
      BY DEF T
    <3> QED BY <2>1, <2>2, <3>1, EveryNatural
  <2> QED BY <2>3 DEF T
<1> DEFINE first == [n \in Nat |-> CHOOSE sum : SumsUpTo(sum, n, term)]
           all == [n \in Nat |-> first[n][n]]
<1>2. \A n \in Nat : SumsUpTo(first[n], n, term)
  BY <1>1
<1> HIDE DEF first
<1>3. \A m \in Nat : \A n \in Nat : m <= n => first[n][m] = first[m][m]
  <2> DEFINE T == {m \in Nat : \A n \in Nat : m <= n => first[n][m] = first[m][m]}
  <2>1. 0 \in T
    BY <1>2 DEF SumsUpTo
  <2>2. ASSUME NEW m \in T PROVE m + 1 \in T
    <3>1. ASSUME NEW n \in Nat, m + 1 <= n PROVE first[n][m + 1] = first[m + 1][m + 1]
      <4>1. first[n][m] = first[m][m] /\ first[m + 1][m] = first[m][m]
        BY <3>1
      <4>2. first[n][m + 1] = first[n][m] + term[m + 1]
        BY <1>2, <3>1 DEF SumsUpTo
      <4>3. first[m + 1][m + 1] = first[m + 1][m] + term[m + 1]
        BY <1>2 DEF SumsUpTo
      <4> QED BY <4>1, <4>2, <4>3
    <3> QED BY <3>1
  <2> HIDE DEF T
  <2>3. T = Nat
    <3>1. T \in SUBSET Nat
      BY DEF T
    <3> QED BY <2>1, <2>2, <3>1, EveryNatural
  <2> QED BY <2>3 DEF T
<1>4. ASSUME NEW n \in Nat PROVE all[n] = IF n = 0 THEN 0 ELSE all[n - 1] + term[n]
  <2>1. CASE n = 0
    BY <1>2, <2>1 DEF SumsUpTo
  <2>2. CASE n # 0
    <3>1. n - 1 \in Nat /\ n - 1 <= n
      BY <2>2
    <3>2. first[n][n] = first[n][n - 1] + term[n]
      BY <1>2, <2>2 DEF SumsUpTo
    <3>3. first[n][n - 1] = first[n - 1][n - 1]
      BY <1>3, <3>1
    <3> QED BY <2>2, <3>1, <3>2, <3>3
  <2> QED BY <2>1, <2>2
<1>5. all = [n \in Nat |-> IF n = 0 THEN 0 ELSE all[n - 1] + term[n]]
  <2> DEFINE g == [n \in Nat |-> IF n = 0 THEN 0 ELSE all[n - 1] + term[n]]
  <2>1. \A n \in Nat : g[n] = all[n]
    BY <1>4
  <2>2. DOMAIN g = Nat /\ DOMAIN all = Nat
    OBVIOUS
  <2> QED BY <2>1, <2>2, Zenon
<1> HIDE DEF all
<1> QED BY <1>5

\* What a sum is: the last of its running sums.
LEMMA RunningSum ==
  ASSUME NEW terms
  PROVE  \E sum : /\ sum[0] = 0
                  /\ \A n \in Nat : n # 0 => sum[n] = sum[n - 1] + terms[n]
                  /\ SumOfAll(terms) = sum[Len(terms)]
<1> DEFINE IsSum(sum) == sum = [n \in Nat |-> IF n = 0 THEN 0 ELSE sum[n - 1] + terms[n]]
<1>1. \E sum : IsSum(sum)
  BY SumsExist
<1> DEFINE s == CHOOSE sum : IsSum(sum)
<1>2. SumOfAll(terms) = s[Len(terms)]
  BY Zenon DEF SumOfAll
<1>3. IsSum(s)
  BY <1>1
<1> HIDE DEF s
<1>4. \A n \in Nat : s[n] = IF n = 0 THEN 0 ELSE s[n - 1] + terms[n]
  BY <1>3, Zenon
<1>5. s[0] = 0 /\ \A n \in Nat : n # 0 => s[n] = s[n - 1] + terms[n]
  BY <1>4
<1> QED BY <1>2, <1>5

\* A function on 1..n is a sequence of length n.
LEMMA FunctionIsSeq ==
  ASSUME NEW S, NEW n \in Nat, NEW f \in [1..n -> S]
  PROVE  f \in Seq(S) /\ Len(f) = n /\ DOMAIN f = 1..n
<1>1. f \in Seq(S)
  BY IsASeq
<1>2. Len(f) \in Nat /\ DOMAIN f = 1..Len(f)
  BY <1>1, LenProperties
<1> QED BY <1>1, <1>2

\* A property of sums that holds of none and stays when a term is added.
Steady(n, T) == T \in SUBSET Nat /\ 0 \in T /\ \A k \in T : k < n => k + 1 \in T

LEMMA UpTo ==
  ASSUME NEW n \in Nat, NEW T, Steady(n, T)
  PROVE  n \in T
<1> DEFINE U == {k \in Nat : k <= n => k \in T}
<1>1. U \in SUBSET Nat /\ 0 \in U
  BY DEF Steady
<1>2. ASSUME NEW k \in U PROVE k + 1 \in U
  BY DEF Steady
<1> HIDE DEF U
<1>3. U = Nat
  BY <1>1, <1>2, EveryNatural
<1> QED BY <1>3 DEF U

\* A sum of integers is one, and is linear in its terms.
LEMMA SumType ==
  ASSUME NEW n \in Nat, NEW f \in [1..n -> Int]
  PROVE  SumOfAll(f) \in Int
<1>1. PICK s : /\ s[0] = 0 /\ \A k \in Nat : k # 0 => s[k] = s[k - 1] + f[k]
               /\ SumOfAll(f) = s[Len(f)]
  BY RunningSum
<1>2. Len(f) = n
  BY FunctionIsSeq
<1> DEFINE T == {k \in Nat : k <= n => s[k] \in Int}
<1>3. Steady(n, T)
  <2>1. ASSUME NEW k \in T, k < n PROVE k + 1 \in T
    <3>1. s[k + 1] = s[k] + f[k + 1]
      BY <1>1, <2>1
    <3> QED BY <2>1, <3>1
  <2> QED BY <1>1, <2>1 DEF Steady
<1> HIDE DEF T
<1>4. n \in T
  BY <1>3, UpTo
<1> QED BY <1>1, <1>2, <1>4 DEF T

LEMMA SumAdds ==
  ASSUME NEW n \in Nat, NEW f \in [1..n -> Int], NEW g \in [1..n -> Int], NEW h \in [1..n -> Int],
         \A i \in 1..n : h[i] = f[i] + g[i]
  PROVE  SumOfAll(h) = SumOfAll(f) + SumOfAll(g)
<1>1. PICK sf : /\ sf[0] = 0 /\ \A k \in Nat : k # 0 => sf[k] = sf[k - 1] + f[k]
                /\ SumOfAll(f) = sf[Len(f)]
  BY RunningSum
<1>2. PICK sg : /\ sg[0] = 0 /\ \A k \in Nat : k # 0 => sg[k] = sg[k - 1] + g[k]
                /\ SumOfAll(g) = sg[Len(g)]
  BY RunningSum
<1>3. PICK sh : /\ sh[0] = 0 /\ \A k \in Nat : k # 0 => sh[k] = sh[k - 1] + h[k]
                /\ SumOfAll(h) = sh[Len(h)]
  BY RunningSum
<1>4. Len(f) = n /\ Len(g) = n /\ Len(h) = n
  BY FunctionIsSeq
<1> DEFINE T == {k \in Nat : k <= n => sf[k] \in Int /\ sg[k] \in Int /\ sh[k] = sf[k] + sg[k]}
<1>5. Steady(n, T)
  <2>1. ASSUME NEW k \in T, k < n PROVE k + 1 \in T
    <3>1. k \in Nat /\ k + 1 \in 1..n /\ (k + 1) - 1 = k /\ sf[k] \in Int /\ sg[k] \in Int
          /\ sh[k] = sf[k] + sg[k]
      BY <2>1
    <3>2. sf[k + 1] = sf[k] + f[k + 1] /\ sg[k + 1] = sg[k] + g[k + 1] /\ sh[k + 1] = sh[k] + h[k + 1]
      BY SMTT(20), <1>1, <1>2, <1>3, <3>1
    <3>3. f[k + 1] \in Int /\ g[k + 1] \in Int /\ h[k + 1] = f[k + 1] + g[k + 1]
      BY <3>1
    <3> QED BY SMTT(20), <3>1, <3>2, <3>3
  <2> QED BY <1>1, <1>2, <1>3, <2>1 DEF Steady
<1> HIDE DEF T
<1>6. n \in T
  BY <1>5, UpTo
<1> QED BY <1>1, <1>2, <1>3, <1>4, <1>6 DEF T

LEMMA SumScales ==
  ASSUME NEW n \in Nat, NEW c \in Int, NEW f \in [1..n -> Int], NEW h \in [1..n -> Int],
         \A i \in 1..n : h[i] = c * f[i]
  PROVE  SumOfAll(h) = c * SumOfAll(f)
<1>1. PICK sf : /\ sf[0] = 0 /\ \A k \in Nat : k # 0 => sf[k] = sf[k - 1] + f[k]
                /\ SumOfAll(f) = sf[Len(f)]
  BY RunningSum
<1>2. PICK sh : /\ sh[0] = 0 /\ \A k \in Nat : k # 0 => sh[k] = sh[k - 1] + h[k]
                /\ SumOfAll(h) = sh[Len(h)]
  BY RunningSum
<1>3. Len(f) = n /\ Len(h) = n
  BY FunctionIsSeq
<1> DEFINE T == {k \in Nat : k <= n => sf[k] \in Int /\ sh[k] = c * sf[k]}
<1>4. Steady(n, T)
  <2>1. ASSUME NEW k \in T, k < n PROVE k + 1 \in T
    <3>1. /\ k \in Nat /\ k + 1 \in 1..n /\ (k + 1) - 1 = k /\ sf[k] \in Int /\ sh[k] = c * sf[k]
          /\ k + 1 \in Nat /\ k + 1 # 0
      BY <2>1
    <3>2. sf[k + 1] = sf[k] + f[k + 1] /\ sh[k + 1] = sh[k] + h[k + 1]
      <4>1. sf[k + 1] = sf[k] + f[k + 1]
        BY <1>1, <3>1
      <4>2. sh[k + 1] = sh[k] + h[k + 1]
        BY <1>2, <3>1
      <4> QED BY <4>1, <4>2
    <3>3. f[k + 1] \in Int /\ h[k + 1] = c * f[k + 1]
      BY <3>1
    <3>4. \A a, b \in Int : c * (a + b) = c * a + c * b
      OBVIOUS
    <3>5. c * (sf[k] + f[k + 1]) = c * sf[k] + c * f[k + 1]
      BY <3>1, <3>3, <3>4
    <3>6. sf[k + 1] \in Int /\ sh[k + 1] = c * sf[k + 1]
      BY <3>1, <3>2, <3>3, <3>5
    <3> QED BY <3>1, <3>6
  <2>2. 0 \in T
    BY <1>1, <1>2
  <2> QED BY <2>1, <2>2 DEF Steady
<1> HIDE DEF T
<1>5. n \in T
  BY <1>4, UpTo
<1> QED BY <1>1, <1>2, <1>3, <1>5 DEF T

\* If no term is further than half a unit from zero, neither is the sum
\* further than half their number.
LEMMA SumIsBounded ==
  ASSUME NEW n \in Nat, NEW f \in [1..n -> Int], NEW b \in Nat,
         \A i \in 1..n : -b <= f[i] /\ f[i] <= b
  PROVE  -(n * b) <= SumOfAll(f) /\ SumOfAll(f) <= n * b
<1>1. PICK s : /\ s[0] = 0 /\ \A k \in Nat : k # 0 => s[k] = s[k - 1] + f[k]
               /\ SumOfAll(f) = s[Len(f)]
  BY RunningSum
<1>2. Len(f) = n
  BY FunctionIsSeq
<1> DEFINE T == {k \in Nat : k <= n => s[k] \in Int /\ -(k * b) <= s[k] /\ s[k] <= k * b}
<1>3. Steady(n, T)
  <2>1. ASSUME NEW k \in T, k < n PROVE k + 1 \in T
    <3>1. k \in Nat /\ k + 1 \in 1..n /\ s[k] \in Int /\ -(k * b) <= s[k] /\ s[k] <= k * b
      BY <2>1
    <3>2. s[k + 1] = s[k] + f[k + 1]
      BY <1>1, <3>1
    <3>3. f[k + 1] \in Int /\ -b <= f[k + 1] /\ f[k + 1] <= b
      BY <3>1
    <3>4. k * b \in Nat /\ (k + 1) * b = k * b + b
      BY <3>1
    <3>5. PICK p \in Nat : p = k * b
      BY <3>4
    <3>6. (k + 1) * b = p + b /\ -p <= s[k] /\ s[k] <= p
      BY <3>1, <3>4, <3>5
    <3>7. s[k + 1] \in Int /\ -(p + b) <= s[k + 1] /\ s[k + 1] <= p + b
      BY <3>1, <3>2, <3>3, <3>5, <3>6
    <3> QED BY <3>1, <3>6, <3>7
  <2>2. 0 \in T
    <3>1. 0 * b = 0
      OBVIOUS
    <3> QED BY <1>1, <3>1
  <2> QED BY <2>1, <2>2 DEF Steady
<1> HIDE DEF T
<1>4. n \in T
  BY <1>3, UpTo
<1> QED BY <1>1, <1>2, <1>4 DEF T

LEMMA SumOfNaturals ==
  ASSUME NEW n \in Nat, NEW f \in [1..n -> Nat]
  PROVE  SumOfAll(f) \in Nat
<1>1. PICK s : /\ s[0] = 0 /\ \A k \in Nat : k # 0 => s[k] = s[k - 1] + f[k]
               /\ SumOfAll(f) = s[Len(f)]
  BY RunningSum
<1>2. Len(f) = n
  BY FunctionIsSeq
<1> DEFINE T == {k \in Nat : k <= n => s[k] \in Nat}
<1>3. Steady(n, T)
  <2>1. ASSUME NEW k \in T, k < n PROVE k + 1 \in T
    <3>1. s[k + 1] = s[k] + f[k + 1]
      BY <1>1, <2>1
    <3> QED BY <2>1, <3>1
  <2> QED BY <1>1, <2>1 DEF Steady
<1> HIDE DEF T
<1>4. n \in T
  BY <1>3, UpTo
<1> QED BY <1>1, <1>2, <1>4 DEF T

\* The sum of a sequence that ends in another.
LEMMA SumOfConcat ==
  ASSUME NEW a \in Seq(Int), NEW b \in Seq(Int)
  PROVE  SumOfAll(a \o b) = SumOfAll(a) + SumOfAll(b)
<1>1. PICK sa : /\ sa[0] = 0 /\ \A k \in Nat : k # 0 => sa[k] = sa[k - 1] + a[k]
                /\ SumOfAll(a) = sa[Len(a)]
  BY RunningSum
<1>2. PICK sb : /\ sb[0] = 0 /\ \A k \in Nat : k # 0 => sb[k] = sb[k - 1] + b[k]
                /\ SumOfAll(b) = sb[Len(b)]
  BY RunningSum
<1>3. PICK s : /\ s[0] = 0 /\ \A k \in Nat : k # 0 => s[k] = s[k - 1] + (a \o b)[k]
               /\ SumOfAll(a \o b) = s[Len(a \o b)]
  BY RunningSum
<1>4. PICK m \in Nat, n \in Nat : m = Len(a) /\ n = Len(b)
  BY LenProperties
<1>5. /\ Len(a \o b) = m + n
      /\ \A i \in 1..m : (a \o b)[i] = a[i] /\ a[i] \in Int
      /\ \A i \in 1..n : (a \o b)[m + i] = b[i] /\ b[i] \in Int
  <2>1. \A i \in 1..(m + n) : (a \o b)[i] = IF i <= m THEN a[i] ELSE b[i - m]
    BY <1>4, ConcatProperties
  <2>2. Len(a \o b) = m + n
    BY <1>4, ConcatProperties
  <2>3. a \in [1..m -> Int] /\ b \in [1..n -> Int]
    BY <1>4, LenProperties
  <2>4. ASSUME NEW i \in 1..m PROVE (a \o b)[i] = a[i] /\ a[i] \in Int
    BY <2>1, <2>3
  <2>5. ASSUME NEW i \in 1..n PROVE (a \o b)[m + i] = b[i] /\ b[i] \in Int
    <3>1. m + i \in 1..(m + n) /\ ~ (m + i <= m) /\ (m + i) - m = i
      OBVIOUS
    <3> QED BY <2>1, <2>3, <3>1
  <2> QED BY <2>2, <2>4, <2>5
<1> DEFINE T == {k \in Nat : k <= m => s[k] = sa[k] /\ s[k] \in Int}
<1>6. Steady(m, T)
  <2>1. ASSUME NEW k \in T, k < m PROVE k + 1 \in T
    <3>1. /\ k \in Nat /\ k + 1 \in 1..m /\ (k + 1) - 1 = k /\ s[k] = sa[k] /\ s[k] \in Int
          /\ k + 1 \in Nat /\ k + 1 # 0
      BY <2>1
    <3>2. s[k + 1] = s[k] + (a \o b)[k + 1] /\ sa[k + 1] = sa[k] + a[k + 1]
      <4>1. s[k + 1] = s[k] + (a \o b)[k + 1]
        BY <1>3, <3>1
      <4>2. sa[k + 1] = sa[k] + a[k + 1]
        BY <1>1, <3>1
      <4> QED BY <4>1, <4>2
    <3>3. (a \o b)[k + 1] = a[k + 1] /\ a[k + 1] \in Int
      BY <1>5, <3>1
    <3> QED BY <3>1, <3>2, <3>3
  <2> QED BY <1>1, <1>3, <2>1 DEF Steady
<1> HIDE DEF T
<1>7. s[m] = sa[m] /\ s[m] \in Int
  <2>1. m \in T
    BY <1>6, UpTo
  <2> QED BY <2>1 DEF T
<1> DEFINE U == {k \in Nat : k <= n => s[m + k] = sa[m] + sb[k] /\ sb[k] \in Int}
<1>8. Steady(n, U)
  <2>1. ASSUME NEW k \in U, k < n PROVE k + 1 \in U
    <3>1. /\ k \in Nat /\ k + 1 \in 1..n /\ (k + 1) - 1 = k /\ s[m + k] = sa[m] + sb[k] /\ sb[k] \in Int
          /\ k + 1 \in Nat /\ k + 1 # 0
      BY <2>1
    <3>2. m + (k + 1) \in Nat /\ m + (k + 1) # 0 /\ (m + (k + 1)) - 1 = m + k
      BY <3>1
    <3>3. s[m + (k + 1)] = s[m + k] + (a \o b)[m + (k + 1)]
      BY <1>3, <3>2
    <3>4. sb[k + 1] = sb[k] + b[k + 1]
      BY <1>2, <3>1
    <3>5. (a \o b)[m + (k + 1)] = b[k + 1] /\ b[k + 1] \in Int
      BY <1>5, <3>1
    <3>6. sb[k + 1] \in Int /\ s[m + (k + 1)] = (sa[m] + sb[k]) + b[k + 1]
      BY <3>1, <3>3, <3>4, <3>5
    <3>7. s[m + (k + 1)] = sa[m] + sb[k + 1]
      <4>1. PICK p \in Int, q \in Int, r \in Int : p = sa[m] /\ q = sb[k] /\ r = b[k + 1]
        BY <1>7, <3>1, <3>5
      <4>2. sb[k + 1] = q + r
        BY <3>4, <3>5, <4>1
      <4>3. s[m + (k + 1)] = (p + q) + r
        BY <3>6, <4>1
      <4>4. (p + q) + r = p + (q + r)
        OBVIOUS
      <4> QED BY <4>1, <4>2, <4>3, <4>4
    <3> QED BY <3>1, <3>6, <3>7
  <2>2. 0 \in U
    BY <1>2, <1>7
  <2> QED BY <2>1, <2>2 DEF Steady
<1> HIDE DEF U
<1>9. n \in U
  BY <1>8, UpTo
<1> QED BY <1>1, <1>2, <1>3, <1>4, <1>5, <1>7, <1>9 DEF U

\* A sum of one term, and of none.
LEMMA SumOfFew ==
  ASSUME NEW x \in Int
  PROVE  SumOfAll(<<x>>) = x /\ SumOfAll(<<>>) = 0
<1>1. SumOfAll(<<x>>) = x
  <2>1. PICK s : /\ s[0] = 0 /\ \A k \in Nat : k # 0 => s[k] = s[k - 1] + <<x>>[k]
                 /\ SumOfAll(<<x>>) = s[Len(<<x>>)]
    BY RunningSum
  <2>2. Len(<<x>>) = 1 /\ <<x>>[1] = x
    OBVIOUS
  <2>3. s[1] = s[0] + x
    BY <2>1, <2>2
  <2> QED BY <2>1, <2>2, <2>3
<1>2. SumOfAll(<<>>) = 0
  <2>1. PICK s : /\ s[0] = 0 /\ \A k \in Nat : k # 0 => s[k] = s[k - 1] + <<>>[k]
                 /\ SumOfAll(<<>>) = s[Len(<<>>)]
    BY RunningSum
  <2> QED BY <2>1
<1> QED BY <1>1, <1>2

-----------------------------------------------------------------------------
(* Rounding.                                                                  *)

\* Math.round is off by at most half, and upwards only from below.
LEMMA RoundingError ==
  ASSUME NEW x \in Int, NEW d \in Nat \ {0}
  PROVE  /\ RoundHalfUp(x, d) \in Int
         /\ 2 * (d * RoundHalfUp(x, d)) - 2 * x <= d
         /\ -d < 2 * (d * RoundHalfUp(x, d)) - 2 * x
<1> DEFINE a == 2 * x + d
           b == 2 * d
           q == a \div b
<1>1. a \in Int /\ b \in Nat \ {0}
  OBVIOUS
<1>2. q \in Int /\ b * q <= a /\ a < b * q + b
  BY <1>1
<1>3. b * q = 2 * (d * q)
  BY <1>2
<1>4. RoundHalfUp(x, d) = q
  BY DEF RoundHalfUp
<1>5. d * q \in Int
  BY <1>2
<1> HIDE DEF q
<1>6. PICK p \in Int : p = d * q
  BY <1>5
<1>7. 2 * p <= 2 * x + d /\ 2 * x + d < 2 * p + 2 * d
  BY <1>2, <1>3, <1>6
<1> QED BY <1>2, <1>4, <1>6, <1>7

\* What is whole already stays as it is.
LEMMA RoundingWhole ==
  ASSUME NEW q \in Int, NEW d \in Nat \ {0}
  PROVE  RoundHalfUp(d * q, d) = q
<1>1. d * q \in Int
  OBVIOUS
<1>2. PICK x \in Int : x = d * q
  BY <1>1
<1>3. PICK r \in Int : r = RoundHalfUp(x, d)
  BY RoundingError
<1>4. 2 * (d * r) - 2 * (d * q) <= d /\ -d < 2 * (d * r) - 2 * (d * q)
  BY <1>2, <1>3, RoundingError
<1>5. d * r - d * q = d * (r - q)
  OBVIOUS
<1>6. PICK p \in Int, s \in Int : p = d * r /\ s = d * q
  OBVIOUS
<1>7. 2 * (p - s) <= d /\ -d < 2 * (p - s)
  BY <1>4, <1>6
<1>8. 2 * (d * (r - q)) <= d /\ -d < 2 * (d * (r - q))
  BY <1>5, <1>6, <1>7
<1>9. PICK k \in Int : k = r - q
  OBVIOUS
<1>10. k >= 1 => d * k >= d
  <2>1. ASSUME k >= 1 PROVE d * k >= d
    <3>1. d * k = d * (k - 1) + d /\ d * (k - 1) >= 0
      BY <2>1
    <3> QED BY <3>1
  <2> QED BY <2>1
<1>11. k <= -1 => d * k <= -d
  <2>1. ASSUME k <= -1 PROVE d * k <= -d
    <3>1. d * k = -(d * (-k - 1)) - d /\ d * (-k - 1) >= 0
      BY <2>1
    <3> QED BY <3>1
  <2> QED BY <2>1
<1>12. k = 0
  <2>1. PICK m \in Int : m = d * k
    OBVIOUS
  <2>2. 2 * m <= d /\ -d < 2 * m
    BY <1>8, <1>9, <2>1
  <2> QED BY <1>10, <1>11, <2>1, <2>2
<1> QED BY <1>2, <1>3, <1>9, <1>12

LEMMA RoundingNatural ==
  ASSUME NEW x \in Nat, NEW d \in Nat \ {0}
  PROVE  RoundHalfUp(x, d) \in Nat
<1>1. PICK r \in Int : r = RoundHalfUp(x, d)
  BY RoundingError
<1>2. -d < 2 * (d * r) - 2 * x
  BY <1>1, RoundingError
<1>3. SUFFICES ASSUME r <= -1 PROVE FALSE
  BY <1>1
<1>4. d * r = -(d * (-r - 1)) - d /\ d * (-r - 1) >= 0
  BY <1>3
<1>5. PICK m \in Int : m = d * r
  OBVIOUS
<1> QED BY <1>2, <1>4, <1>5

-----------------------------------------------------------------------------
(* The amounts of an invoice: groups of items, rounded apart.                 *)

Treatments == {"TAXED", "EXEMPT", "UNTAXED"}

ItemFits(item) ==
  /\ item.quantity \in Nat /\ item.unitPrice \in Nat /\ item.ivaRate \in ivaRates
  /\ item.taxTreatment \in Treatments

ItemsFit(items, n) ==
  n \in Nat /\ Len(items) = n /\ DOMAIN items = 1..n /\ \A i \in 1..n : ItemFits(items[i])

\* The gross of every item, of a rate's and of a treatment's: zero for the others.
Gross(items) == [i \in DOMAIN items |-> grossOf(items[i])]

GrossAt(items, rate) ==
  [i \in DOMAIN items |-> IF TaxedAt(items[i], rate) THEN grossOf(items[i]) ELSE 0]

GrossIn(items, treatment) ==
  [i \in DOMAIN items |-> IF items[i].taxTreatment = treatment THEN grossOf(items[i]) ELSE 0]

LEMMA GrossTypes ==
  ASSUME NEW items, NEW n, ItemsFit(items, n)
  PROVE  /\ Gross(items) \in [1..n -> Nat]
         /\ \A rate : GrossAt(items, rate) \in [1..n -> Nat]
         /\ \A treatment : GrossIn(items, treatment) \in [1..n -> Nat]
<1>1. DOMAIN items = 1..n
  BY DEF ItemsFit
<1>2. ASSUME NEW i \in 1..n PROVE grossOf(items[i]) \in Nat
  BY DEF ItemsFit, ItemFits, grossOf
<1> QED BY <1>1, <1>2 DEF Gross, GrossAt, GrossIn

\* What the code computes are sums of these.
LEMMA GrossSums ==
  ASSUME NEW items
  PROVE  /\ SumOf(items, grossOf) = SumOfAll(Gross(items))
         /\ \A rate : grossByRate(items, rate) = RoundHalfUp(SumOfAll(GrossAt(items, rate)), Unit)
         /\ \A treatment : sumBy(items, treatment) = RoundHalfUp(SumOfAll(GrossIn(items, treatment)), Unit)
<1>1. SumOf(items, grossOf) = SumOfAll(Gross(items))
  BY DEF SumOf, Gross
<1>2. \A rate : grossByRate(items, rate) = RoundHalfUp(SumOfAll(GrossAt(items, rate)), Unit)
  BY DEF grossByRate, SumWhere, SumOf, GrossAt
<1>3. \A treatment : sumBy(items, treatment) = RoundHalfUp(SumOfAll(GrossIn(items, treatment)), Unit)
  BY DEF sumBy, SumWhere, SumOf, GrossIn
<1> QED BY <1>1, <1>2, <1>3

LEMMA SameFunction ==
  ASSUME NEW N, NEW f \in [N -> Int], NEW g \in [N -> Int], \A i \in N : f[i] = g[i]
  PROVE  f = g
OBVIOUS

\* One function is the sum of two, point by point.
IsSumOf(h, f, g, n) == \A i \in 1..n : h[i] = f[i] + g[i]

Terms(f, n) == n \in Nat /\ f \in [1..n -> Int]

LEMMA SumsAdd ==
  ASSUME NEW n, NEW f, NEW g, NEW h, Terms(f, n), Terms(g, n), Terms(h, n), IsSumOf(h, f, g, n)
  PROVE  SumOfAll(h) = SumOfAll(f) + SumOfAll(g)
BY SumAdds DEF IsSumOf, Terms

LEMMA SumOfBoth ==
  ASSUME NEW f, NEW g, NEW n, Terms(f, n), Terms(g, n)
  PROVE  \E h : Terms(h, n) /\ IsSumOf(h, f, g, n) /\ SumOfAll(h) = SumOfAll(f) + SumOfAll(g)
<1> DEFINE h == [i \in 1..n |-> f[i] + g[i]]
<1>1. Terms(h, n) /\ IsSumOf(h, f, g, n)
  BY DEF Terms, IsSumOf
<1> HIDE DEF h
<1>2. SumOfAll(h) = SumOfAll(f) + SumOfAll(g)
  BY <1>1, SumsAdd
<1> QED BY <1>1, <1>2

\* Every item is in one group.
LEMMA GrossPartition ==
  ASSUME NEW items, NEW n, ItemsFit(items, n)
  PROVE  SumOfAll(Gross(items))
           = SumOverRates(LAMBDA rate : SumOfAll(GrossAt(items, rate)))
             + SumOfAll(GrossIn(items, "EXEMPT")) + SumOfAll(GrossIn(items, "UNTAXED"))
<1>1. PICK a0, a1, a2, a3, a4, a5, ex, un :
        /\ a0 = GrossAt(items, 0) /\ a1 = GrossAt(items, 25) /\ a2 = GrossAt(items, 50)
        /\ a3 = GrossAt(items, 105) /\ a4 = GrossAt(items, 210) /\ a5 = GrossAt(items, 270)
        /\ ex = GrossIn(items, "EXEMPT") /\ un = GrossIn(items, "UNTAXED")
  OBVIOUS
<1>2. /\ Terms(a0, n) /\ Terms(a1, n) /\ Terms(a2, n) /\ Terms(a3, n)
      /\ Terms(a4, n) /\ Terms(a5, n) /\ Terms(ex, n) /\ Terms(un, n)
      /\ Terms(Gross(items), n)
  <2>1. n \in Nat
    BY DEF ItemsFit
  <2>2. ASSUME NEW f \in [1..n -> Nat] PROVE Terms(f, n)
    BY <2>1 DEF Terms
  <2> QED BY <1>1, <2>2, GrossTypes
<1>3. PICK s1 : /\ Terms(s1, n) /\ IsSumOf(s1, a0, a1, n)
               /\ SumOfAll(s1) = SumOfAll(a0) + SumOfAll(a1)
  BY <1>2, SumOfBoth
<1>4. PICK s2 : /\ Terms(s2, n) /\ IsSumOf(s2, s1, a2, n)
               /\ SumOfAll(s2) = SumOfAll(s1) + SumOfAll(a2)
  BY <1>2, <1>3, SumOfBoth
<1>5. PICK s3 : /\ Terms(s3, n) /\ IsSumOf(s3, s2, a3, n)
               /\ SumOfAll(s3) = SumOfAll(s2) + SumOfAll(a3)
  BY <1>2, <1>4, SumOfBoth
<1>6. PICK s4 : /\ Terms(s4, n) /\ IsSumOf(s4, s3, a4, n)
               /\ SumOfAll(s4) = SumOfAll(s3) + SumOfAll(a4)
  BY <1>2, <1>5, SumOfBoth
<1>7. PICK s5 : /\ Terms(s5, n) /\ IsSumOf(s5, s4, a5, n)
               /\ SumOfAll(s5) = SumOfAll(s4) + SumOfAll(a5)
  BY <1>2, <1>6, SumOfBoth
<1>8. PICK s6 : /\ Terms(s6, n) /\ IsSumOf(s6, s5, ex, n)
               /\ SumOfAll(s6) = SumOfAll(s5) + SumOfAll(ex)
  BY <1>2, <1>7, SumOfBoth
<1>9. ASSUME NEW i \in 1..n PROVE Gross(items)[i] = s6[i] + un[i]
  <2>1. ItemFits(items[i]) /\ DOMAIN items = 1..n
    BY DEF ItemsFit
  <2>2. grossOf(items[i]) \in Nat
    BY <2>1 DEF ItemFits, grossOf
  <2>3. items[i].taxTreatment \in Treatments /\ items[i].ivaRate \in {0, 25, 50, 105, 210, 270}
    BY <2>1 DEF ItemFits, ivaRates
  <2>4. PICK g, treatment, rate :
          g \in Nat /\ g = grossOf(items[i]) /\ treatment = items[i].taxTreatment /\ rate = items[i].ivaRate
    BY <2>2
  <2>5. /\ Gross(items)[i] = g
        /\ \A r : GrossAt(items, r)[i] = IF treatment = "TAXED" /\ rate = r THEN g ELSE 0
        /\ \A t : GrossIn(items, t)[i] = IF treatment = t THEN g ELSE 0
    BY <2>1, <2>4, Zenon DEF Gross, GrossAt, GrossIn, TaxedAt
  <2>6. /\ a0[i] = (IF treatment = "TAXED" /\ rate = 0 THEN g ELSE 0)
        /\ a1[i] = (IF treatment = "TAXED" /\ rate = 25 THEN g ELSE 0)
        /\ a2[i] = (IF treatment = "TAXED" /\ rate = 50 THEN g ELSE 0)
        /\ a3[i] = (IF treatment = "TAXED" /\ rate = 105 THEN g ELSE 0)
        /\ a4[i] = (IF treatment = "TAXED" /\ rate = 210 THEN g ELSE 0)
        /\ a5[i] = (IF treatment = "TAXED" /\ rate = 270 THEN g ELSE 0)
        /\ ex[i] = (IF treatment = "EXEMPT" THEN g ELSE 0)
        /\ un[i] = (IF treatment = "UNTAXED" THEN g ELSE 0)
    BY <1>1, <2>5, Zenon
  <2>7. s6[i] + un[i] = a0[i] + a1[i] + a2[i] + a3[i] + a4[i] + a5[i] + ex[i] + un[i]
    <3>1. /\ s1[i] = a0[i] + a1[i] /\ s2[i] = s1[i] + a2[i] /\ s3[i] = s2[i] + a3[i]
          /\ s4[i] = s3[i] + a4[i] /\ s5[i] = s4[i] + a5[i] /\ s6[i] = s5[i] + ex[i]
      BY <1>3, <1>4, <1>5, <1>6, <1>7, <1>8, Zenon DEF IsSumOf
    <3> QED BY <3>1
  <2>8. treatment \in Treatments /\ rate \in {0, 25, 50, 105, 210, 270}
    BY <2>3, <2>4
  <2>9. a0[i] + a1[i] + a2[i] + a3[i] + a4[i] + a5[i] + ex[i] + un[i] = g
    <3>1. CASE treatment = "EXEMPT"
      BY <2>4, <2>6, <3>1
    <3>2. CASE treatment = "UNTAXED"
      BY <2>4, <2>6, <3>2
    <3>3. CASE treatment = "TAXED"
      BY <2>4, <2>6, <2>8, <3>3
    <3> QED BY <2>8, <3>1, <3>2, <3>3 DEF Treatments
  <2> QED BY <2>5, <2>7, <2>9
<1>10. SumOfAll(Gross(items)) = SumOfAll(s6) + SumOfAll(un)
  <2>1. IsSumOf(Gross(items), s6, un, n)
    BY <1>9 DEF IsSumOf
  <2> QED BY <1>2, <1>8, <2>1, SumsAdd
<1>11. /\ SumOfAll(s1) \in Int /\ SumOfAll(s2) \in Int /\ SumOfAll(s3) \in Int /\ SumOfAll(s4) \in Int
       /\ SumOfAll(s5) \in Int /\ SumOfAll(s6) \in Int /\ SumOfAll(un) \in Int /\ SumOfAll(ex) \in Int
       /\ SumOfAll(a0) \in Int /\ SumOfAll(a1) \in Int /\ SumOfAll(a2) \in Int /\ SumOfAll(a3) \in Int
       /\ SumOfAll(a4) \in Int /\ SumOfAll(a5) \in Int
  <2>1. ASSUME NEW f, Terms(f, n) PROVE SumOfAll(f) \in Int
    BY <2>1, SumType DEF Terms
  <2> QED BY <1>2, <1>3, <1>4, <1>5, <1>6, <1>7, <1>8, <2>1
<1>12. SumOfAll(Gross(items))
         = SumOfAll(a0) + SumOfAll(a1) + SumOfAll(a2) + SumOfAll(a3) + SumOfAll(a4) + SumOfAll(a5)
           + SumOfAll(ex) + SumOfAll(un)
  BY <1>3, <1>4, <1>5, <1>6, <1>7, <1>8, <1>10, <1>11
<1> QED BY <1>1, <1>12 DEF SumOverRates

\* The base of a gross does not exceed it.
LEMMA BaseIsPart ==
  ASSUME NEW g \in Nat, NEW r \in Nat
  PROVE  RoundHalfUp(g * 1000, 1000 + r) \in Nat /\ RoundHalfUp(g * 1000, 1000 + r) <= g
<1>1. g * 1000 \in Nat /\ 1000 + r \in Nat \ {0}
  OBVIOUS
<1>2. PICK x \in Nat, d \in Nat \ {0} : x = g * 1000 /\ d = 1000 + r
  BY <1>1
<1>3. PICK b \in Nat : b = RoundHalfUp(x, d)
  BY RoundingNatural
<1>4. 2 * (d * b) - 2 * x <= d
  BY <1>3, RoundingError
<1>5. b >= g + 1 => d * b >= x + d
  <2>1. ASSUME b >= g + 1 PROVE d * b >= x + d
    <3>1. d * b = d * (b - (g + 1)) + d * (g + 1) /\ d * (b - (g + 1)) >= 0
      BY <2>1
    <3>2. d * (g + 1) = x + r * g + d /\ r * g >= 0
      BY <1>2
    <3> QED BY <3>1, <3>2
  <2> QED BY <2>1
<1>6. PICK p \in Int : p = d * b
  OBVIOUS
<1>7. b <= g
  BY <1>4, <1>5, <1>6
<1> QED BY <1>2, <1>3, <1>7

\* A rate's base and its IVA are its gross.
LEMMA SplitOfRate ==
  ASSUME NEW items, NEW n, ItemsFit(items, n), NEW rate \in ivaRates
  PROVE  /\ grossByRate(items, rate) \in Nat
         /\ RateSplit(items, rate).taxableBase \in Nat /\ RateSplit(items, rate).amount \in Nat
         /\ RateSplit(items, rate).taxableBase + RateSplit(items, rate).amount
              = grossByRate(items, rate)
<1>1. SumOfAll(GrossAt(items, rate)) \in Nat
  BY GrossTypes, SumOfNaturals DEF ItemsFit
<1>2. Unit \in Nat \ {0}
  BY DEF Unit
<1>3. grossByRate(items, rate) \in Nat
  BY <1>1, <1>2, RoundingNatural, GrossSums
<1>4. PICK g \in Nat : g = grossByRate(items, rate)
  BY <1>3
<1>5. rate \in Nat
  BY DEF ivaRates
<1>6. PICK b \in Nat : b = RoundHalfUp(g * 1000, 1000 + rate) /\ b <= g
  <2>1. RoundHalfUp(g * 1000, 1000 + rate) \in Nat /\ RoundHalfUp(g * 1000, 1000 + rate) <= g
    BY <1>4, <1>5, BaseIsPart
  <2> QED BY <2>1
<1>7. RateSplit(items, rate).taxableBase = b /\ RateSplit(items, rate).amount = g - b
  BY <1>4, <1>6 DEF RateSplit
<1> QED BY <1>4, <1>6, <1>7

\* A group of items, rounded: off by at most half a cent, if it has any.
RoundedGroup(f, one, x, r, off) ==
  /\ x = SumOfAll(f) /\ x \in Nat /\ r = RoundHalfUp(x, Unit) /\ r \in Nat
  /\ off = 2000 * r - 2 * x /\ off \in Int
  /\ -(1000 * one) <= off /\ off <= 1000 * one

LEMMA GroupIsRounded ==
  ASSUME NEW n \in Nat, NEW f \in [1..n -> Nat], NEW one \in {0, 1},
         one = 0 => \A i \in 1..n : f[i] = 0
  PROVE  \E x, r, off : RoundedGroup(f, one, x, r, off)
<1>1. SumOfAll(f) \in Nat
  BY SumOfNaturals
<1>2. Unit \in Nat \ {0} /\ Unit = 1000
  BY DEF Unit
<1>3. PICK x \in Nat, r \in Nat : x = SumOfAll(f) /\ r = RoundHalfUp(x, Unit)
  BY <1>1, <1>2, RoundingNatural
<1>4. 2 * (Unit * r) - 2 * x <= Unit /\ -Unit < 2 * (Unit * r) - 2 * x
  <2>1. PICK d \in Nat \ {0} : d = Unit
    BY <1>2
  <2>2. r = RoundHalfUp(x, d)
    BY <1>3, <2>1
  <2>3. 2 * (d * r) - 2 * x <= d /\ -d < 2 * (d * r) - 2 * x
    BY <2>2, RoundingError
  <2> QED BY <2>1, <2>3
<1>5. PICK off : off = 2000 * r - 2 * x
  OBVIOUS
<1>6. off <= 1000 /\ -1000 <= off
  BY <1>2, <1>4, <1>5
<1>7. one = 0 => off = 0
  <2>1. ASSUME one = 0 PROVE off = 0
    <3>1. f \in [1..n -> Int] /\ \A i \in 1..n : -0 <= f[i] /\ f[i] <= 0
      BY <2>1
    <3>2. -(n * 0) <= SumOfAll(f) /\ SumOfAll(f) <= n * 0
      BY <3>1, SumIsBounded
    <3>3. x = 0
      BY <1>3, <3>2
    <3>4. Unit * 0 = 0
      BY <1>2
    <3>5. r = 0
      BY <1>2, <1>3, <3>3, <3>4, RoundingWhole
    <3> QED BY <1>5, <3>3, <3>5
  <2> QED BY <2>1
<1>8. -(1000 * one) <= off /\ off <= 1000 * one
  BY <1>6, <1>7
<1>9. RoundedGroup(f, one, x, r, off)
  BY <1>3, <1>5, <1>8 DEF RoundedGroup
<1> QED BY <1>9

LEMMA RateGroup ==
  ASSUME NEW items, NEW n, ItemsFit(items, n), NEW rate \in ivaRates
  PROVE  \E x, r, off :
           RoundedGroup(GrossAt(items, rate), IF rate \in TaxedRates(items) THEN 1 ELSE 0, x, r, off)
<1>1. n \in Nat /\ DOMAIN items = 1..n /\ GrossAt(items, rate) \in [1..n -> Nat]
  BY GrossTypes DEF ItemsFit
<1>2. rate \notin TaxedRates(items) => \A i \in 1..n : GrossAt(items, rate)[i] = 0
  BY <1>1 DEF TaxedRates, GrossAt
<1>3. PICK f, one : f = GrossAt(items, rate) /\ one = IF rate \in TaxedRates(items) THEN 1 ELSE 0
  OBVIOUS
<1>4. one \in {0, 1} /\ (one = 0 => \A i \in 1..n : f[i] = 0)
  BY <1>2, <1>3
<1>5. \E x, r, off : RoundedGroup(f, one, x, r, off)
  BY <1>1, <1>3, <1>4, GroupIsRounded
<1> QED BY <1>3, <1>5

LEMMA TreatmentGroup ==
  ASSUME NEW items, NEW n, ItemsFit(items, n), NEW treatment
  PROVE  \E x, r, off :
           RoundedGroup(GrossIn(items, treatment), Has(items, treatment), x, r, off)
<1>1. n \in Nat /\ DOMAIN items = 1..n /\ GrossIn(items, treatment) \in [1..n -> Nat]
  BY GrossTypes DEF ItemsFit
<1>2. Has(items, treatment) = 0 => \A i \in 1..n : GrossIn(items, treatment)[i] = 0
  BY <1>1 DEF Has, GrossIn
<1>3. PICK f, one : f = GrossIn(items, treatment) /\ one = Has(items, treatment)
  OBVIOUS
<1>4. one \in {0, 1} /\ (one = 0 => \A i \in 1..n : f[i] = 0)
  BY <1>2, <1>3 DEF Has
<1>5. \E x, r, off : RoundedGroup(f, one, x, r, off)
  BY <1>1, <1>3, <1>4, GroupIsRounded
<1> QED BY <1>3, <1>5

\* One function is a multiple of another, point by point.
IsMultipleOf(h, c, f, n) == \A i \in 1..n : h[i] = c * f[i]

LEMMA SumsScale ==
  ASSUME NEW n, NEW c, c \in Int, NEW f, NEW h, Terms(f, n), Terms(h, n), IsMultipleOf(h, c, f, n)
  PROVE  SumOfAll(h) = c * SumOfAll(f)
BY SumScales DEF IsMultipleOf, Terms

\* Gross sums in whole units lose nothing to rounding.
LEMMA WholeGroup ==
  ASSUME NEW n \in Nat, NEW f \in [1..n -> Nat], \A i \in 1..n : f[i] % 1000 = 0
  PROVE  1000 * RoundHalfUp(SumOfAll(f), Unit) = SumOfAll(f)
<1> DEFINE q == [i \in 1..n |-> f[i] \div 1000]
<1>1. q \in [1..n -> Int] /\ \A i \in 1..n : f[i] = 1000 * q[i]
  <2>1. ASSUME NEW i \in 1..n PROVE f[i] \div 1000 \in Int /\ f[i] = 1000 * (f[i] \div 1000)
    <3>1. PICK m \in Nat : m = f[i] /\ m % 1000 = 0
      OBVIOUS
    <3>2. m \div 1000 \in Int /\ m = 1000 * (m \div 1000)
      BY <3>1
    <3> QED BY <3>1, <3>2
  <2> QED BY <2>1
<1> HIDE DEF q
<1>2. f \in [1..n -> Int] /\ 1000 \in Int
  OBVIOUS
<1>3. PICK c \in Int : c = 1000
  OBVIOUS
<1>4. SumOfAll(f) = c * SumOfAll(q)
  <2>1. IsMultipleOf(f, c, q, n)
    BY <1>1, <1>3 DEF IsMultipleOf
  <2>2. Terms(f, n) /\ Terms(q, n)
    BY <1>1, <1>2 DEF Terms
  <2> QED BY <1>3, <2>1, <2>2, SumsScale
<1>5. PICK k \in Int : k = SumOfAll(q)
  BY <1>1, SumType
<1>6. PICK d \in Nat \ {0} : d = Unit /\ d = 1000
  BY DEF Unit
<1>7. RoundHalfUp(d * k, d) = k
  BY RoundingWhole
<1>8. SumOfAll(f) = d * k
  BY <1>3, <1>4, <1>5, <1>6
<1> QED BY <1>5, <1>6, <1>7, <1>8

ItemsAreWhole(items) == \A i \in DOMAIN items : items[i].quantity % Unit = 0

LEMMA WholeGross ==
  ASSUME NEW items, NEW n, ItemsFit(items, n), ItemsAreWhole(items), NEW i \in 1..n
  PROVE  grossOf(items[i]) % 1000 = 0
<1>1. ItemFits(items[i]) /\ items[i].quantity % 1000 = 0
  BY DEF ItemsFit, ItemsAreWhole, Unit
<1>2. PICK q \in Nat, p \in Nat : q = items[i].quantity /\ p = items[i].unitPrice
  BY <1>1 DEF ItemFits
<1>3. PICK k \in Nat : k = q \div 1000
  BY <1>2
<1>4. q = 1000 * k
  BY <1>1, <1>2, <1>3
<1>5. q * p = 1000 * (k * p) /\ k * p \in Nat
  BY <1>4
<1>6. PICK m \in Nat : m = k * p
  BY <1>5
<1>7. (1000 * m) % 1000 = 0
  OBVIOUS
<1> QED BY <1>2, <1>5, <1>6, <1>7 DEF grossOf

LEMMA WholeGroups ==
  ASSUME NEW items, NEW n, ItemsFit(items, n), ItemsAreWhole(items)
  PROVE  /\ 1000 * RoundHalfUp(SumOfAll(Gross(items)), Unit) = SumOfAll(Gross(items))
         /\ \A rate \in ivaRates :
              1000 * RoundHalfUp(SumOfAll(GrossAt(items, rate)), Unit) = SumOfAll(GrossAt(items, rate))
         /\ \A treatment :
              1000 * RoundHalfUp(SumOfAll(GrossIn(items, treatment)), Unit)
                = SumOfAll(GrossIn(items, treatment))
<1>1. n \in Nat /\ DOMAIN items = 1..n
  BY DEF ItemsFit
<1>2. 0 % 1000 = 0
  OBVIOUS
<1>3. 1000 * RoundHalfUp(SumOfAll(Gross(items)), Unit) = SumOfAll(Gross(items))
  <2>1. Gross(items) \in [1..n -> Nat] /\ \A i \in 1..n : Gross(items)[i] % 1000 = 0
    BY <1>1, GrossTypes, WholeGross DEF Gross
  <2>2. PICK f : f = Gross(items)
    OBVIOUS
  <2>3. f \in [1..n -> Nat] /\ \A i \in 1..n : f[i] % 1000 = 0
    BY <2>1, <2>2
  <2> QED BY <1>1, <2>1, <2>2, <2>3, WholeGroup
<1>4. ASSUME NEW rate \in ivaRates
      PROVE  1000 * RoundHalfUp(SumOfAll(GrossAt(items, rate)), Unit) = SumOfAll(GrossAt(items, rate))
  <2>1. GrossAt(items, rate) \in [1..n -> Nat]
    BY GrossTypes
  <2>2. PICK f : f = GrossAt(items, rate)
    OBVIOUS
  <2>3. ASSUME NEW i \in 1..n PROVE f[i] % 1000 = 0
    <3>1. f[i] = grossOf(items[i]) \/ f[i] = 0
      BY <1>1, <2>2 DEF GrossAt
    <3>2. grossOf(items[i]) % 1000 = 0
      BY WholeGross
    <3> QED BY <1>2, <3>1, <3>2
  <2> QED BY <1>1, <2>1, <2>2, <2>3, WholeGroup
<1>5. ASSUME NEW treatment
      PROVE  1000 * RoundHalfUp(SumOfAll(GrossIn(items, treatment)), Unit)
               = SumOfAll(GrossIn(items, treatment))
  <2>1. GrossIn(items, treatment) \in [1..n -> Nat]
    BY GrossTypes
  <2>2. PICK f : f = GrossIn(items, treatment)
    OBVIOUS
  <2>3. ASSUME NEW i \in 1..n PROVE f[i] % 1000 = 0
    <3>1. f[i] = grossOf(items[i]) \/ f[i] = 0
      BY <1>1, <2>2 DEF GrossIn
    <3>2. grossOf(items[i]) % 1000 = 0
      BY WholeGross
    <3> QED BY <1>2, <3>1, <3>2
  <2> QED BY <1>1, <2>1, <2>2, <2>3, WholeGroup
<1> QED BY <1>3, <1>4, <1>5

\* What is sent for the items, group by group, and what they come to.
PartsSold(items) ==
  SumOverRates(LAMBDA rate : grossByRate(items, rate)) + sumBy(items, "EXEMPT") + sumBy(items, "UNTAXED")

WholeSold(items) == RoundHalfUp(SumOf(items, grossOf), Unit)

GroupsIn(items) == Count(TaxedRates(items)) + Has(items, "EXEMPT") + Has(items, "UNTAXED")

LEMMA GroupsTie ==
  ASSUME NEW items, NEW n, ItemsFit(items, n)
  PROVE  /\ PartsSold(items) \in Nat /\ WholeSold(items) \in Nat /\ GroupsIn(items) \in Nat
         /\ 2 * Distance(PartsSold(items), WholeSold(items)) <= GroupsIn(items) + 1
         /\ ItemsAreWhole(items) => PartsSold(items) = WholeSold(items)
<1> DEFINE one(rate) == IF rate \in TaxedRates(items) THEN 1 ELSE 0
<1>1. PICK f0, f1, f2, f3, f4, f5, f6, f7, f :
        /\ f0 = GrossAt(items, 0) /\ f1 = GrossAt(items, 25) /\ f2 = GrossAt(items, 50)
        /\ f3 = GrossAt(items, 105) /\ f4 = GrossAt(items, 210) /\ f5 = GrossAt(items, 270)
        /\ f6 = GrossIn(items, "EXEMPT") /\ f7 = GrossIn(items, "UNTAXED") /\ f = Gross(items)
  OBVIOUS
<1>2. PICK k0, k1, k2, k3, k4, k5, k6, k7 :
        /\ k0 = one(0) /\ k1 = one(25) /\ k2 = one(50) /\ k3 = one(105) /\ k4 = one(210)
        /\ k5 = one(270) /\ k6 = Has(items, "EXEMPT") /\ k7 = Has(items, "UNTAXED")
  OBVIOUS
<1>3. /\ k0 \in Nat /\ k1 \in Nat /\ k2 \in Nat /\ k3 \in Nat /\ k4 \in Nat /\ k5 \in Nat
      /\ k6 \in Nat /\ k7 \in Nat
  BY <1>2 DEF Has
<1>4. /\ 0 \in ivaRates /\ 25 \in ivaRates /\ 50 \in ivaRates /\ 105 \in ivaRates
      /\ 210 \in ivaRates /\ 270 \in ivaRates
  BY DEF ivaRates
<1>5. PICK x0, r0, o0 : RoundedGroup(f0, k0, x0, r0, o0)
  BY <1>1, <1>2, <1>4, RateGroup
<1>6. PICK x1, r1, o1 : RoundedGroup(f1, k1, x1, r1, o1)
  BY <1>1, <1>2, <1>4, RateGroup
<1>7. PICK x2, r2, o2 : RoundedGroup(f2, k2, x2, r2, o2)
  BY <1>1, <1>2, <1>4, RateGroup
<1>8. PICK x3, r3, o3 : RoundedGroup(f3, k3, x3, r3, o3)
  BY <1>1, <1>2, <1>4, RateGroup
<1>9. PICK x4, r4, o4 : RoundedGroup(f4, k4, x4, r4, o4)
  BY <1>1, <1>2, <1>4, RateGroup
<1>10. PICK x5, r5, o5 : RoundedGroup(f5, k5, x5, r5, o5)
  BY <1>1, <1>2, <1>4, RateGroup
<1>11. PICK x6, r6, o6 : RoundedGroup(f6, k6, x6, r6, o6)
  BY <1>1, <1>2, <1>4, TreatmentGroup
<1>12. PICK x7, r7, o7 : RoundedGroup(f7, k7, x7, r7, o7)
  BY <1>1, <1>2, <1>4, TreatmentGroup
<1>13. PICK x, r, o : RoundedGroup(f, 1, x, r, o)
  <2>1. n \in Nat /\ f \in [1..n -> Nat]
    BY <1>1, GrossTypes DEF ItemsFit
  <2>2. PICK one1 \in {0, 1} : one1 = 1
    OBVIOUS
  <2>3. one1 = 0 => \A i \in 1..n : f[i] = 0
    BY <2>2
  <2>4. \E x, r, o : RoundedGroup(f, one1, x, r, o)
    BY <2>1, <2>3, GroupIsRounded
  <2> QED BY <2>2, <2>4
<1>14. /\ x0 = SumOfAll(f0) /\ x1 = SumOfAll(f1) /\ x2 = SumOfAll(f2) /\ x3 = SumOfAll(f3)
       /\ x4 = SumOfAll(f4) /\ x5 = SumOfAll(f5) /\ x6 = SumOfAll(f6) /\ x7 = SumOfAll(f7)
       /\ x = SumOfAll(f)
       /\ x0 \in Nat /\ x1 \in Nat /\ x2 \in Nat /\ x3 \in Nat /\ x4 \in Nat /\ x5 \in Nat
       /\ x6 \in Nat /\ x7 \in Nat /\ x \in Nat
  <2>1. x0 = SumOfAll(f0) /\ x0 \in Nat
    BY <1>5, Zenon DEF RoundedGroup
  <2>2. x1 = SumOfAll(f1) /\ x1 \in Nat
    BY <1>6, Zenon DEF RoundedGroup
  <2>3. x2 = SumOfAll(f2) /\ x2 \in Nat
    BY <1>7, Zenon DEF RoundedGroup
  <2>4. x3 = SumOfAll(f3) /\ x3 \in Nat
    BY <1>8, Zenon DEF RoundedGroup
  <2>5. x4 = SumOfAll(f4) /\ x4 \in Nat
    BY <1>9, Zenon DEF RoundedGroup
  <2>6. x5 = SumOfAll(f5) /\ x5 \in Nat
    BY <1>10, Zenon DEF RoundedGroup
  <2>7. x6 = SumOfAll(f6) /\ x6 \in Nat
    BY <1>11, Zenon DEF RoundedGroup
  <2>8. x7 = SumOfAll(f7) /\ x7 \in Nat
    BY <1>12, Zenon DEF RoundedGroup
  <2>9. x = SumOfAll(f) /\ x \in Nat
    BY <1>13, Zenon DEF RoundedGroup
  <2> QED
    BY <2>1, <2>2, <2>3, <2>4, <2>5, <2>6, <2>7, <2>8, <2>9
<1> DEFINE R(g) == RoundHalfUp(SumOfAll(g), Unit)
<1>15. /\ r0 = R(f0) /\ r1 = R(f1) /\ r2 = R(f2) /\ r3 = R(f3)
       /\ r4 = R(f4) /\ r5 = R(f5) /\ r6 = R(f6) /\ r7 = R(f7) /\ r = R(f)
       /\ r0 \in Nat /\ r1 \in Nat /\ r2 \in Nat /\ r3 \in Nat /\ r4 \in Nat /\ r5 \in Nat
       /\ r6 \in Nat /\ r7 \in Nat /\ r \in Nat
  <2>1. r0 = RoundHalfUp(SumOfAll(f0), Unit) /\ r0 \in Nat
    BY <1>5, Zenon DEF RoundedGroup
  <2>2. r1 = RoundHalfUp(SumOfAll(f1), Unit) /\ r1 \in Nat
    BY <1>6, Zenon DEF RoundedGroup
  <2>3. r2 = RoundHalfUp(SumOfAll(f2), Unit) /\ r2 \in Nat
    BY <1>7, Zenon DEF RoundedGroup
  <2>4. r3 = RoundHalfUp(SumOfAll(f3), Unit) /\ r3 \in Nat
    BY <1>8, Zenon DEF RoundedGroup
  <2>5. r4 = RoundHalfUp(SumOfAll(f4), Unit) /\ r4 \in Nat
    BY <1>9, Zenon DEF RoundedGroup
  <2>6. r5 = RoundHalfUp(SumOfAll(f5), Unit) /\ r5 \in Nat
    BY <1>10, Zenon DEF RoundedGroup
  <2>7. r6 = RoundHalfUp(SumOfAll(f6), Unit) /\ r6 \in Nat
    BY <1>11, Zenon DEF RoundedGroup
  <2>8. r7 = RoundHalfUp(SumOfAll(f7), Unit) /\ r7 \in Nat
    BY <1>12, Zenon DEF RoundedGroup
  <2>9. r = RoundHalfUp(SumOfAll(f), Unit) /\ r \in Nat
    BY <1>13, Zenon DEF RoundedGroup
  <2> QED
    BY <2>1, <2>2, <2>3, <2>4, <2>5, <2>6, <2>7, <2>8, <2>9
<1>16. x = x0 + x1 + x2 + x3 + x4 + x5 + x6 + x7
  BY <1>1, <1>14, GrossPartition DEF SumOverRates
<1>17. /\ PartsSold(items) = r0 + r1 + r2 + r3 + r4 + r5 + r6 + r7
       /\ WholeSold(items) = r
       /\ GroupsIn(items) = k0 + k1 + k2 + k3 + k4 + k5 + k6 + k7
  <2>1. WholeSold(items) = r
    BY <1>1, <1>15, GrossSums DEF WholeSold
  <2>2. PartsSold(items) = r0 + r1 + r2 + r3 + r4 + r5 + r6 + r7
    <3>1. /\ r0 = grossByRate(items, 0) /\ r1 = grossByRate(items, 25) /\ r2 = grossByRate(items, 50)
          /\ r3 = grossByRate(items, 105) /\ r4 = grossByRate(items, 210) /\ r5 = grossByRate(items, 270)
          /\ r6 = sumBy(items, "EXEMPT") /\ r7 = sumBy(items, "UNTAXED")
      BY <1>1, <1>15, GrossSums
    <3> QED BY <3>1 DEF PartsSold, SumOverRates
  <2>3. GroupsIn(items) = k0 + k1 + k2 + k3 + k4 + k5 + k6 + k7
    BY <1>2 DEF GroupsIn, Count, SumOverRates
  <2> QED BY <2>1, <2>2, <2>3
<1>18. 2 * Distance(r0 + r1 + r2 + r3 + r4 + r5 + r6 + r7, r)
         <= k0 + k1 + k2 + k3 + k4 + k5 + k6 + k7 + 1
  <2>1. /\ o0 = 2000 * r0 - 2 * x0 /\ o1 = 2000 * r1 - 2 * x1 /\ o2 = 2000 * r2 - 2 * x2
        /\ o3 = 2000 * r3 - 2 * x3 /\ o4 = 2000 * r4 - 2 * x4 /\ o5 = 2000 * r5 - 2 * x5
        /\ o6 = 2000 * r6 - 2 * x6 /\ o7 = 2000 * r7 - 2 * x7 /\ o = 2000 * r - 2 * x
    <3>1. o0 = 2000 * r0 - 2 * x0
      BY <1>5, Zenon DEF RoundedGroup
    <3>2. o1 = 2000 * r1 - 2 * x1
      BY <1>6, Zenon DEF RoundedGroup
    <3>3. o2 = 2000 * r2 - 2 * x2
      BY <1>7, Zenon DEF RoundedGroup
    <3>4. o3 = 2000 * r3 - 2 * x3
      BY <1>8, Zenon DEF RoundedGroup
    <3>5. o4 = 2000 * r4 - 2 * x4
      BY <1>9, Zenon DEF RoundedGroup
    <3>6. o5 = 2000 * r5 - 2 * x5
      BY <1>10, Zenon DEF RoundedGroup
    <3>7. o6 = 2000 * r6 - 2 * x6
      BY <1>11, Zenon DEF RoundedGroup
    <3>8. o7 = 2000 * r7 - 2 * x7
      BY <1>12, Zenon DEF RoundedGroup
    <3>9. o = 2000 * r - 2 * x
      BY <1>13, Zenon DEF RoundedGroup
    <3> QED
      BY <3>1, <3>2, <3>3, <3>4, <3>5, <3>6, <3>7, <3>8, <3>9
  <2>2. /\ o0 \in Int /\ o1 \in Int /\ o2 \in Int /\ o3 \in Int /\ o4 \in Int /\ o5 \in Int
        /\ o6 \in Int /\ o7 \in Int /\ o \in Int
    <3>1. o0 \in Int
      BY <1>5, Zenon DEF RoundedGroup
    <3>2. o1 \in Int
      BY <1>6, Zenon DEF RoundedGroup
    <3>3. o2 \in Int
      BY <1>7, Zenon DEF RoundedGroup
    <3>4. o3 \in Int
      BY <1>8, Zenon DEF RoundedGroup
    <3>5. o4 \in Int
      BY <1>9, Zenon DEF RoundedGroup
    <3>6. o5 \in Int
      BY <1>10, Zenon DEF RoundedGroup
    <3>7. o6 \in Int
      BY <1>11, Zenon DEF RoundedGroup
    <3>8. o7 \in Int
      BY <1>12, Zenon DEF RoundedGroup
    <3>9. o \in Int
      BY <1>13, Zenon DEF RoundedGroup
    <3> QED
      BY <3>1, <3>2, <3>3, <3>4, <3>5, <3>6, <3>7, <3>8, <3>9
  <2>3. /\ -(1000 * k0) <= o0 /\ o0 <= 1000 * k0 /\ -(1000 * k1) <= o1 /\ o1 <= 1000 * k1
        /\ -(1000 * k2) <= o2 /\ o2 <= 1000 * k2 /\ -(1000 * k3) <= o3 /\ o3 <= 1000 * k3
        /\ -(1000 * k4) <= o4 /\ o4 <= 1000 * k4 /\ -(1000 * k5) <= o5 /\ o5 <= 1000 * k5
        /\ -(1000 * k6) <= o6 /\ o6 <= 1000 * k6 /\ -(1000 * k7) <= o7 /\ o7 <= 1000 * k7
        /\ -(1000 * 1) <= o /\ o <= 1000 * 1
    BY <1>5, <1>6, <1>7, <1>8, <1>9, <1>10, <1>11, <1>12, <1>13 DEF RoundedGroup
  <2>4. PICK p \in Nat, k \in Nat :
          p = r0 + r1 + r2 + r3 + r4 + r5 + r6 + r7 /\ k = k0 + k1 + k2 + k3 + k4 + k5 + k6 + k7
    BY <1>3, <1>15
  <2>5. 2000 * (p - r) <= 1000 * k + 1000 /\ -(1000 * k + 1000) <= 2000 * (p - r)
    <3>1. PICK os : os = o0 + o1 + o2 + o3 + o4 + o5 + o6 + o7
      OBVIOUS
    <3>2. os \in Int /\ -(1000 * k) <= os /\ os <= 1000 * k
      BY <1>3, <2>2, <2>3, <2>4, <3>1
    <3>3. 2000 * (p - r) = os - o
      <4>1. /\ x0 \in Nat /\ x1 \in Nat /\ x2 \in Nat /\ x3 \in Nat /\ x4 \in Nat /\ x5 \in Nat
            /\ x6 \in Nat /\ x7 \in Nat /\ x \in Nat
        BY <1>14
      <4>2. /\ r0 \in Nat /\ r1 \in Nat /\ r2 \in Nat /\ r3 \in Nat /\ r4 \in Nat /\ r5 \in Nat
            /\ r6 \in Nat /\ r7 \in Nat /\ r \in Nat
        BY <1>15
      <4>3. PICK xs : xs = x0 + x1 + x2 + x3 + x4 + x5 + x6 + x7
        OBVIOUS
      <4>4. xs = x /\ xs \in Nat
        BY <1>16, <4>1, <4>3
      <4>5. os = 2000 * p - 2 * xs
        BY <2>1, <2>4, <3>1, <4>1, <4>2, <4>3
      <4> QED BY <2>1, <2>4, <4>1, <4>2, <4>4, <4>5
    <3> QED BY <1>15, <2>2, <2>3, <2>4, <3>2, <3>3
  <2>6. 2 * Distance(p, r) <= k + 1
    BY <1>15, <2>4, <2>5 DEF Distance
  <2> QED BY <2>4, <2>6
<1>19. ASSUME ItemsAreWhole(items) PROVE r0 + r1 + r2 + r3 + r4 + r5 + r6 + r7 = r
  <2>1. /\ 1000 * r0 = x0 /\ 1000 * r1 = x1 /\ 1000 * r2 = x2 /\ 1000 * r3 = x3
        /\ 1000 * r4 = x4 /\ 1000 * r5 = x5 /\ 1000 * r6 = x6 /\ 1000 * r7 = x7 /\ 1000 * r = x
    BY <1>1, <1>4, <1>14, <1>15, <1>19, WholeGroups
  <2> QED BY SMTT(20), <1>14, <1>15, <1>16, <2>1
<1> QED BY <1>3, <1>15, <1>17, <1>18, <1>19

\* A function of the index of the same values is the same function.
LEMMA SameSum ==
  ASSUME NEW f, NEW g, NEW n, Terms(f, n), Terms(g, n), \A i \in 1..n : f[i] = g[i]
  PROVE  SumOfAll(f) = SumOfAll(g)
<1>1. f = g
  BY DEF Terms
<1> QED BY <1>1

SoldAlike(item, other) ==
  /\ item.quantity = other.quantity /\ item.unitPrice = other.unitPrice
  /\ item.ivaRate = other.ivaRate /\ item.taxTreatment = other.taxTreatment

SameItems(items, others, n) ==
  ItemsFit(items, n) /\ ItemsFit(others, n) /\ \A i \in 1..n : SoldAlike(items[i], others[i])

LEMMA SameItemsSameSums ==
  ASSUME NEW items, NEW others, NEW n, SameItems(items, others, n)
  PROVE  /\ WholeSold(items) = WholeSold(others)
         /\ \A rate : grossByRate(items, rate) = grossByRate(others, rate)
         /\ \A treatment : sumBy(items, treatment) = sumBy(others, treatment)
<1>1. ItemsFit(items, n) /\ ItemsFit(others, n) /\ n \in Nat /\ DOMAIN items = 1..n /\ DOMAIN others = 1..n
  BY DEF SameItems, ItemsFit
<1>2. ASSUME NEW i \in 1..n
      PROVE  /\ grossOf(items[i]) = grossOf(others[i])
             /\ \A rate : TaxedAt(items[i], rate) <=> TaxedAt(others[i], rate)
             /\ items[i].taxTreatment = others[i].taxTreatment
  <2>1. SoldAlike(items[i], others[i])
    BY DEF SameItems
  <2> QED BY <2>1 DEF SoldAlike, grossOf, TaxedAt
<1>3. ASSUME NEW f \in [1..n -> Nat] PROVE Terms(f, n)
  BY <1>1 DEF Terms
<1>4. SumOfAll(Gross(items)) = SumOfAll(Gross(others))
  <2>1. Terms(Gross(items), n) /\ Terms(Gross(others), n)
    BY <1>1, <1>3, GrossTypes
  <2>2. \A i \in 1..n : Gross(items)[i] = Gross(others)[i]
    BY <1>1, <1>2 DEF Gross
  <2> QED BY <2>1, <2>2, SameSum
<1>5. ASSUME NEW rate PROVE SumOfAll(GrossAt(items, rate)) = SumOfAll(GrossAt(others, rate))
  <2>1. Terms(GrossAt(items, rate), n) /\ Terms(GrossAt(others, rate), n)
    BY <1>1, <1>3, GrossTypes
  <2>2. ASSUME NEW i \in 1..n PROVE GrossAt(items, rate)[i] = GrossAt(others, rate)[i]
    BY <1>1, <1>2 DEF GrossAt
  <2> QED BY <2>1, <2>2, SameSum
<1>6. ASSUME NEW treatment
      PROVE  SumOfAll(GrossIn(items, treatment)) = SumOfAll(GrossIn(others, treatment))
  <2>1. Terms(GrossIn(items, treatment), n) /\ Terms(GrossIn(others, treatment), n)
    BY <1>1, <1>3, GrossTypes
  <2>2. ASSUME NEW i \in 1..n PROVE GrossIn(items, treatment)[i] = GrossIn(others, treatment)[i]
    BY <1>1, <1>2 DEF GrossIn
  <2> QED BY <2>1, <2>2, SameSum
<1>7. WholeSold(items) = WholeSold(others)
  BY <1>4, GrossSums DEF WholeSold
<1>8. ASSUME NEW rate PROVE grossByRate(items, rate) = grossByRate(others, rate)
  BY <1>5, GrossSums
<1>9. ASSUME NEW treatment PROVE sumBy(items, treatment) = sumBy(others, treatment)
  BY <1>6, GrossSums
<1> QED BY <1>7, <1>8, <1>9

-----------------------------------------------------------------------------
(* What is sent and stored of an invoice's items and tributes.                *)

TributeFits(tribute) == tribute.id \in Nat /\ tribute.taxableBase \in Nat /\ tribute.rate \in Nat

TributesFit(tributes, m) ==
  m \in Nat /\ Len(tributes) = m /\ DOMAIN tributes = 1..m /\ \A i \in 1..m : TributeFits(tributes[i])

LEMMA TributesAddUp ==
  ASSUME NEW tributes, NEW m, TributesFit(tributes, m)
  PROVE  LET reply == calculateTributes(tributes)
         IN /\ reply.entries \in Seq([id : Nat, amount : Nat])
            /\ reply.total \in Nat
            /\ reply.total = SumOf(reply.entries, LAMBDA tribute : tribute.amount)
            /\ Len(reply.entries) = m
<1> DEFINE amountOf == [i \in 1..m |-> TributeAmount(tributes[i])]
           entries == [i \in 1..m |-> [id |-> tributes[i].id, amount |-> TributeAmount(tributes[i])]]
<1>1. m \in Nat /\ DOMAIN tributes = 1..m
  BY DEF TributesFit
<1>2. ASSUME NEW i \in 1..m PROVE TributeAmount(tributes[i]) \in Nat /\ tributes[i].id \in Nat
  <2>1. TributeFits(tributes[i])
    BY DEF TributesFit
  <2>2. PICK x \in Nat, d \in Nat \ {0} : x = tributes[i].taxableBase * tributes[i].rate /\ d = 1000
    BY <2>1 DEF TributeFits
  <2>3. RoundHalfUp(x, d) \in Nat
    BY RoundingNatural
  <2> QED BY <2>1, <2>2, <2>3 DEF TributeFits, TributeAmount
<1>3. amountOf \in [1..m -> Nat] /\ entries \in [1..m -> [id : Nat, amount : Nat]]
  BY <1>2
<1>4. calculateTributes(tributes).entries = entries /\ calculateTributes(tributes).total = SumOfAll(amountOf)
  BY <1>1 DEF calculateTributes, SumOf
<1>5. entries \in Seq([id : Nat, amount : Nat]) /\ Len(entries) = m /\ DOMAIN entries = 1..m
  BY <1>1, <1>3, FunctionIsSeq
<1>6. SumOf(entries, LAMBDA tribute : tribute.amount) = SumOfAll([i \in 1..m |-> entries[i].amount])
  BY <1>5 DEF SumOf
<1>7. [i \in 1..m |-> entries[i].amount] = amountOf
  OBVIOUS
<1> HIDE DEF amountOf, entries
<1>8. SumOfAll(amountOf) \in Nat
  BY <1>1, <1>3, SumOfNaturals
<1> QED BY <1>4, <1>5, <1>6, <1>7, <1>8

\* The amounts of the items alone, whatever the tributes.
PartsOfAmounts(amounts) ==
  amounts.netAmount + amounts.ivaAmount + amounts.exemptAmount + amounts.untaxedAmount

ItemAmounts(type, items, amounts) ==
  /\ amounts.netAmount \in Nat /\ amounts.ivaAmount \in Nat
  /\ amounts.exemptAmount \in Nat /\ amounts.untaxedAmount \in Nat
  /\ PartsOfAmounts(amounts) = IF reportsIvaToArca(type) THEN PartsSold(items) ELSE WholeSold(items)

LEMMA AmountsOfItems ==
  ASSUME NEW items, NEW n, ItemsFit(items, n), NEW type, NEW tributes
  PROVE  ItemAmounts(type, items, calculateAmounts(type, items, tributes))
<1>1. WholeSold(items) \in Nat /\ WholeSold(items) = RoundHalfUp(SumOf(items, grossOf), Unit)
  BY GroupsTie DEF WholeSold
<1>2. PICK total : total = calculateTributes(tributes)
  OBVIOUS
<1>3. PICK amounts : amounts = calculateAmounts(type, items, tributes)
  OBVIOUS
<1>4. CASE ~reportsIvaToArca(type)
  <2>1. /\ amounts.netAmount = WholeSold(items) /\ amounts.ivaAmount = 0
        /\ amounts.exemptAmount = 0 /\ amounts.untaxedAmount = 0
    BY <1>1, <1>3, <1>4 DEF calculateAmounts
  <2> QED BY <1>1, <1>3, <1>4, <2>1 DEF ItemAmounts, PartsOfAmounts
<1>5. CASE reportsIvaToArca(type)
  <2>1. /\ amounts.netAmount = splitTaxedGrossByRate(items).netAmount
        /\ amounts.ivaAmount = splitTaxedGrossByRate(items).ivaAmount
        /\ amounts.exemptAmount = sumBy(items, "EXEMPT")
        /\ amounts.untaxedAmount = sumBy(items, "UNTAXED")
    BY <1>3, <1>5 DEF calculateAmounts
  <2>2. PICK b0, b1, b2, b3, b4, b5 :
          /\ b0 = RateSplit(items, 0).taxableBase /\ b1 = RateSplit(items, 25).taxableBase
          /\ b2 = RateSplit(items, 50).taxableBase /\ b3 = RateSplit(items, 105).taxableBase
          /\ b4 = RateSplit(items, 210).taxableBase /\ b5 = RateSplit(items, 270).taxableBase
    OBVIOUS
  <2>3. PICK v0, v1, v2, v3, v4, v5 :
          /\ v0 = RateSplit(items, 0).amount /\ v1 = RateSplit(items, 25).amount
          /\ v2 = RateSplit(items, 50).amount /\ v3 = RateSplit(items, 105).amount
          /\ v4 = RateSplit(items, 210).amount /\ v5 = RateSplit(items, 270).amount
    OBVIOUS
  <2>4. PICK g0, g1, g2, g3, g4, g5, ex, un :
          /\ g0 = grossByRate(items, 0) /\ g1 = grossByRate(items, 25) /\ g2 = grossByRate(items, 50)
          /\ g3 = grossByRate(items, 105) /\ g4 = grossByRate(items, 210) /\ g5 = grossByRate(items, 270)
          /\ ex = sumBy(items, "EXEMPT") /\ un = sumBy(items, "UNTAXED")
    OBVIOUS
  <2>5. /\ b0 \in Nat /\ v0 \in Nat /\ b0 + v0 = g0 /\ b1 \in Nat /\ v1 \in Nat /\ b1 + v1 = g1
        /\ b2 \in Nat /\ v2 \in Nat /\ b2 + v2 = g2 /\ b3 \in Nat /\ v3 \in Nat /\ b3 + v3 = g3
        /\ b4 \in Nat /\ v4 \in Nat /\ b4 + v4 = g4 /\ b5 \in Nat /\ v5 \in Nat /\ b5 + v5 = g5
    <3>1. /\ 0 \in ivaRates /\ 25 \in ivaRates /\ 50 \in ivaRates /\ 105 \in ivaRates
          /\ 210 \in ivaRates /\ 270 \in ivaRates
      BY DEF ivaRates
    <3> QED BY <2>2, <2>3, <2>4, <3>1, SplitOfRate
  <2>6. ex \in Nat /\ un \in Nat
    <3>1. PICK u \in Nat \ {0} : u = Unit
      BY DEF Unit
    <3>2. n \in Nat /\ GrossIn(items, "EXEMPT") \in [1..n -> Nat] /\ GrossIn(items, "UNTAXED") \in [1..n -> Nat]
      BY GrossTypes DEF ItemsFit
    <3>3. SumOfAll(GrossIn(items, "EXEMPT")) \in Nat /\ SumOfAll(GrossIn(items, "UNTAXED")) \in Nat
      BY <3>2, SumOfNaturals
    <3> QED BY <2>4, <3>1, <3>3, GrossSums, RoundingNatural
  <2>7. /\ splitTaxedGrossByRate(items).netAmount = b0 + b1 + b2 + b3 + b4 + b5
        /\ splitTaxedGrossByRate(items).ivaAmount = v0 + v1 + v2 + v3 + v4 + v5
    BY <2>2, <2>3 DEF splitTaxedGrossByRate, SumOverRates
  <2>8. PartsSold(items) = g0 + g1 + g2 + g3 + g4 + g5 + ex + un
    BY <2>4 DEF PartsSold, SumOverRates
  <2>9. /\ amounts.netAmount \in Nat /\ amounts.ivaAmount \in Nat
        /\ amounts.exemptAmount \in Nat /\ amounts.untaxedAmount \in Nat
    BY <2>1, <2>4, <2>5, <2>6, <2>7
  <2>10. amounts.netAmount + amounts.ivaAmount + amounts.exemptAmount + amounts.untaxedAmount
           = g0 + g1 + g2 + g3 + g4 + g5 + ex + un
    <3>1. amounts.netAmount = b0 + b1 + b2 + b3 + b4 + b5 /\ amounts.ivaAmount = v0 + v1 + v2 + v3 + v4 + v5
          /\ amounts.exemptAmount = ex /\ amounts.untaxedAmount = un
      BY <2>1, <2>4, <2>7
    <3> QED BY <2>5, <2>6, <3>1
  <2> QED BY <1>3, <1>5, <2>8, <2>9, <2>10 DEF ItemAmounts, PartsOfAmounts
<1> QED BY <1>4, <1>5

\* Tributes come on top of the items.
TributesOnTop(items, amounts) ==
  /\ amounts \in VoucherAmounts
  /\ amounts.tributeAmount = SumOf(amounts.tributes, LAMBDA tribute : tribute.amount)
  /\ amounts.totalAmount = WholeSold(items) + amounts.tributeAmount

LEMMA AmountsOf ==
  ASSUME NEW items, NEW n, ItemsFit(items, n), NEW type, NEW tributes, NEW m, TributesFit(tributes, m)
  PROVE  TributesOnTop(items, calculateAmounts(type, items, tributes))
<1>1. PICK amounts : amounts = calculateAmounts(type, items, tributes)
  OBVIOUS
<1>2. PICK entries, total :
        /\ entries = calculateTributes(tributes).entries
        /\ total = calculateTributes(tributes).total
  OBVIOUS
<1>3. /\ entries \in Seq([id : Nat, amount : Nat]) /\ total \in Nat
      /\ total = SumOf(entries, LAMBDA tribute : tribute.amount)
  BY <1>2, TributesAddUp
<1>4. /\ amounts.tributes = entries /\ amounts.tributeAmount = total
      /\ amounts.totalAmount = WholeSold(items) + total
  BY <1>1, <1>2 DEF calculateAmounts, WholeSold
<1>5. WholeSold(items) \in Nat
  BY GroupsTie
<1>6. amounts.rates \in SUBSET [id : Nat, taxableBase : Nat, amount : Nat]
  <2>1. ASSUME NEW rate \in TaxedRates(items)
        PROVE  RateSplit(items, rate) \in [id : Nat, taxableBase : Nat, amount : Nat]
    <3>1. rate \in ivaRates
      BY DEF TaxedRates
    <3>2. ivaRateAfipId[rate] \in Nat
      BY <3>1 DEF ivaRates, ivaRateAfipId
    <3>3. RateSplit(items, rate).taxableBase \in Nat /\ RateSplit(items, rate).amount \in Nat
      BY <3>1, SplitOfRate
    <3> QED BY <3>2, <3>3 DEF RateSplit
  <2>2. splitTaxedGrossByRate(items).rates = {RateSplit(items, rate) : rate \in TaxedRates(items)}
    BY DEF splitTaxedGrossByRate
  <2>3. amounts.rates = IF reportsIvaToArca(type) THEN splitTaxedGrossByRate(items).rates ELSE {}
    BY <1>1 DEF calculateAmounts
  <2> QED BY <2>1, <2>2, <2>3
<1>7. ItemAmounts(type, items, amounts)
  BY <1>1, AmountsOfItems
<1>8. amounts = [netAmount |-> amounts.netAmount, ivaAmount |-> amounts.ivaAmount,
                 exemptAmount |-> amounts.exemptAmount, untaxedAmount |-> amounts.untaxedAmount,
                 tributeAmount |-> amounts.tributeAmount, totalAmount |-> amounts.totalAmount,
                 rates |-> amounts.rates, tributes |-> amounts.tributes]
  BY <1>1 DEF calculateAmounts
<1>9. amounts \in VoucherAmounts
  <2>1. /\ amounts.tributeAmount \in Nat /\ amounts.totalAmount \in Nat
        /\ amounts.tributes \in Seq([id : Nat, amount : Nat])
    BY <1>3, <1>4, <1>5
  <2> QED BY <1>6, <1>7, <1>8, <2>1 DEF VoucherAmounts, ItemAmounts
<1> QED BY <1>1, <1>3, <1>4, <1>9 DEF TributesOnTop

\* The amounts of alike items are the same.
LEMMA SameItemsSameAmounts ==
  ASSUME NEW items, NEW others, NEW n, SameItems(items, others, n), NEW type, NEW tributes, NEW more
  PROVE  LET amounts == calculateAmounts(type, items, tributes)
             same == calculateAmounts(type, others, more)
         IN /\ amounts.netAmount = same.netAmount /\ amounts.ivaAmount = same.ivaAmount
            /\ amounts.exemptAmount = same.exemptAmount /\ amounts.untaxedAmount = same.untaxedAmount
<1>1. ASSUME NEW rate PROVE RateSplit(items, rate) = RateSplit(others, rate)
  <2>1. grossByRate(items, rate) = grossByRate(others, rate)
    BY SameItemsSameSums
  <2> QED BY <2>1 DEF RateSplit
<1>2. splitTaxedGrossByRate(items).netAmount = splitTaxedGrossByRate(others).netAmount
  BY <1>1 DEF splitTaxedGrossByRate, SumOverRates
<1>3. splitTaxedGrossByRate(items).ivaAmount = splitTaxedGrossByRate(others).ivaAmount
  BY <1>1 DEF splitTaxedGrossByRate, SumOverRates
<1>4. sumBy(items, "EXEMPT") = sumBy(others, "EXEMPT") /\ sumBy(items, "UNTAXED") = sumBy(others, "UNTAXED")
  BY SameItemsSameSums
<1>5. RoundHalfUp(SumOf(items, grossOf), Unit) = RoundHalfUp(SumOf(others, grossOf), Unit)
  BY SameItemsSameSums DEF WholeSold
<1> QED BY <1>2, <1>3, <1>4, <1>5 DEF calculateAmounts

LEMMA DataFits ==
  ASSUME NEW data \in IssueVoucherData
  PROVE  /\ ItemsFit(data.items, Len(data.items))
         /\ TributesFit(data.tributes, Len(data.tributes))
<1>1. PICK items, tributes : items = data.items /\ tributes = data.tributes
  OBVIOUS
<1>2. /\ items \in Seq([quantity : Nat, unitPrice : Nat, ivaRate : ivaRates, taxTreatment : Treatments])
      /\ tributes \in Seq([id : Nat, taxableBase : Nat, rate : Nat])
  BY <1>1 DEF IssueVoucherData, Treatments
<1>3. ItemsFit(items, Len(items))
  <2>1. PICK n \in Nat : n = Len(items) /\ DOMAIN items = 1..n
    BY <1>2, LenProperties
  <2>2. ASSUME NEW i \in 1..n PROVE ItemFits(items[i])
    <3>1. items[i] \in [quantity : Nat, unitPrice : Nat, ivaRate : ivaRates, taxTreatment : Treatments]
      BY <1>2, <2>1, ElementOfSeq
    <3> QED BY <3>1 DEF ItemFits
  <2> QED BY <2>1, <2>2 DEF ItemsFit
<1>4. TributesFit(tributes, Len(tributes))
  <2>1. PICK n \in Nat : n = Len(tributes) /\ DOMAIN tributes = 1..n
    BY <1>2, LenProperties
  <2>2. ASSUME NEW i \in 1..n PROVE TributeFits(tributes[i])
    <3>1. tributes[i] \in [id : Nat, taxableBase : Nat, rate : Nat]
      BY <1>2, <2>1, ElementOfSeq
    <3> QED BY <3>1 DEF TributeFits
  <2> QED BY <2>1, <2>2 DEF TributesFit
<1> QED BY <1>1, <1>3, <1>4

LEMMA RowItemsFit ==
  ASSUME NEW row \in IssuedVoucherData
  PROVE  ItemsFit(row.items, Len(row.items))
<1>1. PICK items : items = row.items
  OBVIOUS
<1>2. items \in Seq([quantity : Nat, unitPrice : Nat, ivaRate : ivaRates, subtotal : Nat,
                     taxTreatment : Treatments])
  BY <1>1 DEF IssuedVoucherData, Treatments
<1>3. ItemsFit(items, Len(items))
  <2>1. PICK n \in Nat : n = Len(items) /\ DOMAIN items = 1..n
    BY <1>2, LenProperties
  <2>2. ASSUME NEW i \in 1..n PROVE ItemFits(items[i])
    <3>1. items[i] \in [quantity : Nat, unitPrice : Nat, ivaRate : ivaRates, subtotal : Nat,
                      taxTreatment : Treatments]
      BY <1>2, <2>1, ElementOfSeq
    <3> QED BY <3>1 DEF ItemFits
  <2> QED BY <2>1, <2>2 DEF ItemsFit
<1> QED BY <1>1, <1>3

\* The parts of a voucher's amounts and its total, tributes left out.
LEMMA PartsTie ==
  ASSUME NEW data, ItemsFit(data.items, Len(data.items)), NEW amounts,
         ItemAmounts(data.voucherType, data.items, amounts)
  PROVE  /\ PartsOfAmounts(amounts) \in Nat /\ WholeSold(data.items) \in Nat
         /\ Tolerable(Distance(PartsOfAmounts(amounts), WholeSold(data.items)), data)
<1>1. PICK items, type, parts, whole :
        /\ items = data.items /\ type = data.voucherType
        /\ parts = PartsOfAmounts(amounts) /\ whole = WholeSold(items)
  OBVIOUS
<1>2. PICK n : n = Len(items)
  OBVIOUS
<1>3. /\ PartsSold(items) \in Nat /\ whole \in Nat /\ GroupsIn(items) \in Nat
      /\ 2 * Distance(PartsSold(items), whole) <= GroupsIn(items) + 1
      /\ ItemsAreWhole(items) => PartsSold(items) = whole
  BY <1>1, <1>2, GroupsTie
<1>4. parts = IF reportsIvaToArca(type) THEN PartsSold(items) ELSE whole
  BY <1>1 DEF ItemAmounts
<1>5. RoundedGroups(data) = IF reportsIvaToArca(type) THEN GroupsIn(items) ELSE 1
  BY <1>1 DEF RoundedGroups, GroupsIn
<1>6. WholeQuantities(data) <=> ItemsAreWhole(items)
  BY <1>1 DEF WholeQuantities, ItemsAreWhole
<1>7. \A a \in Nat : Distance(a, a) = 0
  BY DEF Distance
<1>8. Tolerable(Distance(parts, whole), data)
  <2>1. CASE ItemsAreWhole(items)
    BY <1>3, <1>4, <1>6, <1>7, <2>1 DEF Tolerable
  <2>2. CASE ~ItemsAreWhole(items)
    <3>1. 2 * Distance(parts, whole) <= RoundedGroups(data) + 1
      <4>1. CASE reportsIvaToArca(type)
        BY <1>3, <1>4, <1>5, <4>1
      <4>2. CASE ~reportsIvaToArca(type)
        <5>1. Distance(parts, whole) = 0 /\ RoundedGroups(data) = 1
          BY <1>3, <1>4, <1>5, <1>7, <4>2
        <5> QED BY <5>1
      <4> QED BY <4>1, <4>2
    <3> QED BY <1>6, <2>2, <3>1 DEF Tolerable
  <2> QED BY <2>1, <2>2
<1> QED BY <1>1, <1>3, <1>4, <1>8

\* Tributes are on both sides.
LEMMA RequestIsTolerable ==
  ASSUME NEW data \in IssueVoucherData
  PROVE  Tolerable(OffBy(RequestOf(data)), data)
<1>1. PICK type, items, tributes, amounts, request :
        /\ type = data.voucherType /\ items = data.items /\ tributes = data.tributes
        /\ amounts = calculateAmounts(type, items, tributes) /\ request = RequestOf(data)
  OBVIOUS
<1>2. ItemsFit(items, Len(items)) /\ TributesFit(tributes, Len(tributes))
  BY <1>1, DataFits
<1>3. /\ amounts.tributeAmount \in Nat /\ amounts.totalAmount = WholeSold(items) + amounts.tributeAmount
  <2>1. TributesOnTop(items, amounts)
    BY <1>1, <1>2, AmountsOf
  <2> QED BY <2>1 DEF TributesOnTop, VoucherAmounts
<1>4. ItemAmounts(type, items, amounts)
  BY <1>1, <1>2, AmountsOfItems
<1>5. /\ PartsOfAmounts(amounts) \in Nat /\ WholeSold(items) \in Nat
      /\ Tolerable(Distance(PartsOfAmounts(amounts), WholeSold(items)), data)
  BY <1>1, <1>2, <1>4, PartsTie
<1>6. /\ request.ImpNeto = amounts.netAmount /\ request.ImpIVA = amounts.ivaAmount
      /\ request.ImpTrib = amounts.tributeAmount /\ request.ImpOpEx = amounts.exemptAmount
      /\ request.ImpTotConc = amounts.untaxedAmount /\ request.ImpTotal = amounts.totalAmount
  BY <1>1 DEF RequestOf, buildCaeDetail
<1>7. PartsOf(request) = PartsOfAmounts(amounts) + amounts.tributeAmount
  <2>1. PICK a \in Nat, b \in Nat, c \in Nat, d \in Nat, e \in Nat :
          a = amounts.netAmount /\ b = amounts.ivaAmount /\ c = amounts.exemptAmount
          /\ d = amounts.untaxedAmount /\ e = amounts.tributeAmount
    BY <1>3, <1>4 DEF ItemAmounts
  <2>2. PartsOf(request) = a + b + e + c + d /\ PartsOfAmounts(amounts) = a + b + c + d
    BY <1>6, <2>1 DEF PartsOf, PartsOfAmounts
  <2> QED BY <2>1, <2>2
<1>8. \A a, b, c \in Nat : Distance(a + c, b + c) = Distance(a, b)
  BY DEF Distance
<1>9. OffBy(request) = Distance(PartsOfAmounts(amounts), WholeSold(items))
  <2>1. PICK a \in Nat, b \in Nat, c \in Nat :
          a = PartsOfAmounts(amounts) /\ b = WholeSold(items) /\ c = amounts.tributeAmount
    BY <1>3, <1>5
  <2>2. PartsOf(request) = a + c /\ request.ImpTotal = b + c
    BY <1>3, <1>6, <1>7, <2>1
  <2>3. Distance(a + c, b + c) = Distance(a, b)
    BY <1>8
  <2>4. OffBy(request) = Distance(PartsOf(request), request.ImpTotal)
    BY DEF OffBy
  <2> QED BY <2>1, <2>2, <2>3, <2>4
<1> QED BY <1>1, <1>5, <1>9

-----------------------------------------------------------------------------
(* The credit note of a row.                                                  *)

NoteTypes == {3, 8, 13, 53, 203, 208, 213}

LEMMA NoteTypesAreKnown == NoteTypes \subseteq VoucherTypeIds
<1>1. /\ VoucherType["NOTA_CREDITO_A"] = 3 /\ VoucherType["NOTA_CREDITO_B"] = 8
      /\ VoucherType["NOTA_CREDITO_C"] = 13 /\ VoucherType["NOTA_CREDITO_M"] = 53
      /\ VoucherType["FCE_NOTA_CREDITO_A"] = 203 /\ VoucherType["FCE_NOTA_CREDITO_B"] = 208
      /\ VoucherType["FCE_NOTA_CREDITO_C"] = 213
  BY DEF VoucherType
<1>2. {"NOTA_CREDITO_A", "NOTA_CREDITO_B", "NOTA_CREDITO_C", "NOTA_CREDITO_M",
       "FCE_NOTA_CREDITO_A", "FCE_NOTA_CREDITO_B", "FCE_NOTA_CREDITO_C"} \subseteq DOMAIN VoucherType
  BY DEF VoucherType
<1> QED BY <1>1, <1>2 DEF NoteTypes, VoucherTypeIds

LEMMA Letters ==
  /\ \A type \in {1, 2, 3, 201, 202, 203} : voucherLetter(type) = "A"
  /\ \A type \in {6, 7, 8, 206, 207, 208} : voucherLetter(type) = "B"
  /\ \A type \in {11, 12, 13, 211, 212, 213} : voucherLetter(type) = "C"
  /\ \A type \in {51, 52, 53} : voucherLetter(type) = "M"
<1>1. ASSUME NEW type \in {1, 2, 3, 201, 202, 203} PROVE voucherLetter(type) = "A"
  BY DEF voucherLetter
<1>2. ASSUME NEW type \in {6, 7, 8, 206, 207, 208} PROVE voucherLetter(type) = "B"
  BY DEF voucherLetter
<1>3. ASSUME NEW type \in {11, 12, 13, 211, 212, 213} PROVE voucherLetter(type) = "C"
  BY DEF voucherLetter
<1>4. ASSUME NEW type \in {51, 52, 53} PROVE voucherLetter(type) = "M"
  BY DEF voucherLetter
<1> QED BY <1>1, <1>2, <1>3, <1>4

NoteFor(note, type) ==
  /\ note \in NoteTypes /\ voucherLetter(note) = voucherLetter(type)
  /\ isCreditNote(note) /\ ~isCreditNote(type)
  /\ requiresRecipientCuit(note) => requiresRecipientCuit(type)
  /\ isRecipientIvaConditionAllowed(note, defaultRecipientIvaCondition(note))
  /\ isCreditDebitNote(note)

\* Every note is for the same letter and recipients as what it cancels.
LEMMA NoteOf ==
  ASSUME NEW type, creditNoteTypeFor(type) # NoType
  PROVE  NoteFor(creditNoteTypeFor(type), type)
<1>1. PICK note : note = creditNoteTypeFor(type)
  OBVIOUS
<1>2. \/ type \in {1, 2} /\ note = 3
      \/ type \in {6, 7} /\ note = 8
      \/ type \in {11, 12} /\ note = 13
      \/ type \in {51, 52} /\ note = 53
      \/ type \in {201, 202} /\ note = 203
      \/ type \in {206, 207} /\ note = 208
      \/ type \in {211, 212} /\ note = 213
  BY <1>1 DEF creditNoteTypeFor, NoType
<1>3. note \in NoteTypes
  BY <1>2 DEF NoteTypes
<1>4. voucherLetter(note) = voucherLetter(type) /\ voucherLetter(note) \in {"A", "B", "C", "M"}
  BY <1>2, Letters
<1>5. isCreditNote(note) /\ ~isCreditNote(type) /\ isCreditDebitNote(note)
  BY <1>2 DEF isCreditNote, isCreditDebitNote
<1>6. requiresRecipientCuit(note) => requiresRecipientCuit(type)
  BY <1>2 DEF requiresRecipientCuit, typesRequiringCuit, isCreditInvoice
<1>7. isRecipientIvaConditionAllowed(note, defaultRecipientIvaCondition(note))
  <2>1. PICK letter \in {"A", "B", "C", "M"} : letter = voucherLetter(note)
    BY <1>4
  <2> QED BY <2>1 DEF isRecipientIvaConditionAllowed, defaultRecipientIvaCondition, discriminatesIva,
                      allowedRecipientIvaConditions, RecipientIvaCondition, knownConditions
<1> QED BY <1>1, <1>3, <1>4, <1>5, <1>6, <1>7 DEF NoteFor

\* The items of a row, as the note repeats them.
LEMMA DraftItems ==
  ASSUME NEW row \in IssuedVoucherData
  PROVE  LET items == buildCreditNoteDraft(row).items
         IN /\ items \in Seq([quantity : Nat, unitPrice : Nat, ivaRate : ivaRates,
                              taxTreatment : {"TAXED", "EXEMPT", "UNTAXED"}])
            /\ DOMAIN items = DOMAIN row.items
            /\ \A i \in DOMAIN row.items : SoldAlike(items[i], row.items[i])
<1> DEFINE S == [quantity : Nat, unitPrice : Nat, ivaRate : ivaRates,
                 taxTreatment : {"TAXED", "EXEMPT", "UNTAXED"}]
           entry(i) == [quantity |-> row.items[i].quantity, unitPrice |-> row.items[i].unitPrice,
                        ivaRate |-> row.items[i].ivaRate, taxTreatment |-> row.items[i].taxTreatment]
<1>1. PICK n : n = Len(row.items)
  OBVIOUS
<1>2. ItemsFit(row.items, n) /\ n \in Nat /\ DOMAIN row.items = 1..n
  BY <1>1, RowItemsFit DEF ItemsFit
<1>3. PICK items : items = [i \in 1..n |-> entry(i)]
  OBVIOUS
<1>4. buildCreditNoteDraft(row).items = items
  BY <1>2, <1>3 DEF buildCreditNoteDraft
<1>5. ASSUME NEW i \in 1..n PROVE items[i] \in S /\ SoldAlike(items[i], row.items[i])
  <2>1. ItemFits(row.items[i])
    BY <1>2 DEF ItemsFit
  <2>2. items[i] = entry(i)
    BY <1>3
  <2>3. entry(i) \in S
    BY <2>1 DEF ItemFits, Treatments
  <2> QED BY <2>2, <2>3 DEF SoldAlike
<1>6. items \in [1..n -> S]
  BY <1>3, <1>5
<1>7. items \in Seq(S) /\ DOMAIN items = 1..n
  BY <1>2, <1>6, FunctionIsSeq
<1> QED BY <1>2, <1>4, <1>5, <1>7

NoteIsAccepted(draft) ==
  draft \in IssueVoucherData /\ issueVoucherSchema(draft) /\ ~LacksCbu(draft)

\* What passed the schema once passes it again, the other way round.
LEMMA DraftFits ==
  ASSUME NEW row, RowFits(row), AdmitsCreditNote(row), today \in Nat
  PROVE  NoteIsAccepted(buildCreditNoteDraft(row))
<1>1. PICK draft, type, note :
        /\ draft = buildCreditNoteDraft(row) /\ type = row.voucherType
        /\ note = creditNoteTypeFor(type)
  OBVIOUS
<1>2. /\ row \in IssuedVoucherData /\ row.items # <<>>
      /\ requiresRecipientCuit(type) => recipientOf(row).docType = CUIT
      /\ validateServicePeriod(row)
  BY <1>1 DEF RowFits
<1>3. NoteFor(note, type)
  BY <1>1, NoteOf DEF AdmitsCreditNote
<1>4. note \in Nat \ {0} /\ note \in VoucherTypeIds
  BY <1>3, NoteTypesAreKnown DEF NoteFor, NoteTypes
<1>5. /\ draft.voucherType = note /\ draft.concept = row.concept /\ draft.recipient = recipientOf(row)
      /\ draft.exchangeRate = row.exchangeRate /\ draft.tributes = <<>>
      /\ draft.associatedVouchers = <<[type |-> type, number |-> row.number]>>
      /\ draft.servicePeriod = (IF requiresServicePeriod(row.concept) THEN row.servicePeriod ELSE None)
      /\ draft.paymentDueDate
           = IF requiresServicePeriod(row.concept) \/ isCreditInvoice(note) THEN today ELSE None
      /\ draft.transmissionType = None
      /\ draft = [voucherType |-> draft.voucherType, concept |-> draft.concept,
                  recipient |-> draft.recipient, items |-> draft.items,
                  exchangeRate |-> draft.exchangeRate,
                  associatedVouchers |-> draft.associatedVouchers,
                  servicePeriod |-> draft.servicePeriod, paymentDueDate |-> draft.paymentDueDate,
                  transmissionType |-> draft.transmissionType, tributes |-> draft.tributes]
  BY <1>1 DEF buildCreditNoteDraft
<1>6. /\ type \in VoucherTypeIds /\ row.number \in Nat /\ row.concept \in 1..3 /\ row.exchangeRate \in Nat \ {0}
      /\ row.servicePeriod \in [from : Nat, to : Nat] \cup {None}
      /\ row.recipientDocType \in Nat \cup {None} /\ row.recipientDocNumber \in STRING \cup {None}
      /\ row.qrData.tipoDocRec \in Nat /\ row.qrData.nroDocRec \in STRING
  BY <1>1, <1>2 DEF IssuedVoucherData
<1>7. recipientOf(row) \in [docType : Nat, docNumber : STRING, ivaConditionId : Nat \cup {None}]
  BY <1>6 DEF recipientOf
<1>8. /\ draft.items \in Seq([quantity : Nat, unitPrice : Nat, ivaRate : ivaRates,
                              taxTreatment : {"TAXED", "EXEMPT", "UNTAXED"}])
      /\ DOMAIN draft.items = DOMAIN row.items
      /\ \A i \in DOMAIN row.items : SoldAlike(draft.items[i], row.items[i])
  BY <1>1, <1>2, DraftItems
<1>9. draft \in IssueVoucherData
  <2>1. <<[type |-> type, number |-> row.number]>> \in Seq([type : VoucherTypeIds, number : Nat])
    BY <1>6
  <2>2. draft.tributes \in Seq([id : Nat, taxableBase : Nat, rate : Nat])
    BY <1>5
  <2>3. draft.servicePeriod \in [from : Nat, to : Nat] \cup {None} /\ draft.paymentDueDate \in Nat \cup {None}
    BY <1>5, <1>6
  <2> HIDE DEF IssueVoucherData
  <2>4. /\ draft.voucherType \in VoucherTypeIds /\ draft.concept \in 1..3
        /\ draft.exchangeRate \in Nat \ {0} /\ draft.transmissionType \in STRING \cup {None}
    BY <1>4, <1>5, <1>6
  <2>5. draft.associatedVouchers \in Seq([type : VoucherTypeIds, number : Nat])
    BY <1>5, <2>1
  <2>6. draft.recipient \in [docType : Nat, docNumber : STRING, ivaConditionId : Nat \cup {None}]
    BY <1>5, <1>7
  <2>7. PICK v1, v2, v3, v4, v5, v6, v7, v8, v9, v10 :
          /\ v1 = draft.voucherType /\ v2 = draft.concept /\ v3 = draft.recipient /\ v4 = draft.items
          /\ v5 = draft.exchangeRate /\ v6 = draft.associatedVouchers /\ v7 = draft.servicePeriod
          /\ v8 = draft.paymentDueDate /\ v9 = draft.transmissionType /\ v10 = draft.tributes
    OBVIOUS
  <2>8. draft = [voucherType |-> v1, concept |-> v2, recipient |-> v3, items |-> v4,
                 exchangeRate |-> v5, associatedVouchers |-> v6, servicePeriod |-> v7,
                 paymentDueDate |-> v8, transmissionType |-> v9, tributes |-> v10]
    BY <1>5, <2>7, Zenon
  <2> QED BY <1>8, <2>2, <2>3, <2>4, <2>5, <2>6, <2>7, <2>8 DEF IssueVoucherData
<1>10. issueVoucherObjectSchema(draft)
  <2>1. draft.items # <<>>
    BY <1>2, <1>8
  <2>2. ASSUME NEW i \in DOMAIN draft.items PROVE itemSchema(draft.items[i])
    <3>1. itemSchema(row.items[i]) /\ SoldAlike(draft.items[i], row.items[i])
      BY <1>8, <2>2 DEF RowFits
    <3> QED BY <3>1 DEF itemSchema, SoldAlike
  <2>3. DOMAIN draft.tributes = {}
    BY <1>5
  <2>4. draft.concept \in {1, 2, 3} /\ draft.voucherType > 0 /\ draft.exchangeRate > 0
    BY <1>4, <1>5, <1>6
  <2> QED BY <2>1, <2>2, <2>3, <2>4 DEF issueVoucherObjectSchema
<1>11. validateAssociatedVouchers(draft)
  BY <1>5 DEF validateAssociatedVouchers
<1>12. validateRecipient(draft)
  <2>1. draft.recipient.ivaConditionId = None /\ draft.recipient.docType = recipientOf(row).docType
    BY <1>5 DEF recipientOf
  <2>2. requiresRecipientCuit(note) => draft.recipient.docType = CUIT
    BY <1>2, <1>3, <2>1 DEF NoteFor
  <2> QED BY <1>3, <1>5, <2>1, <2>2 DEF validateRecipient, NoteFor
<1>13. validateServicePeriod(draft)
  BY <1>2, <1>5 DEF validateServicePeriod
<1>14. validatePaymentDueDate(draft)
  <2>1. today # None
    BY DocumentConstants
  <2> QED BY <1>5, <2>1 DEF validatePaymentDueDate
<1>15. validateTransmissionType(draft)
  BY <1>5 DEF validateTransmissionType
<1>16. ~LacksCbu(draft)
  BY <1>3, <1>5 DEF LacksCbu, NoteFor
<1> QED BY <1>1, <1>9, <1>10, <1>11, <1>12, <1>13, <1>14, <1>15, <1>16 DEF NoteIsAccepted, issueVoucherSchema

-----------------------------------------------------------------------------
(* The row of an invoice.                                                     *)

LEMMA NumberOfNext ==
  ASSUME vouchers \in Seq(IssuedVoucherData), NEW type
  PROVE  NextNumber(type) \in Nat \ {0}
<1> DEFINE T == {i \in DOMAIN vouchers : vouchers[i].voucherType = type}
<1>1. DOMAIN vouchers = 1..Len(vouchers) /\ Len(vouchers) \in Nat
  BY LenProperties
<1>2. IsFiniteSet(1..Len(vouchers))
  BY <1>1, FS_Interval
<1>3. IsFiniteSet(T)
  <2>1. T \subseteq 1..Len(vouchers)
    BY <1>1
  <2> QED BY <1>2, <2>1, FS_Subset
<1>4. Cardinality(T) \in Nat
  BY <1>3, FS_CardinalityType
<1> QED BY <1>4 DEF NextNumber

\* The items of the row are those of the invoice, with their subtotals.
RowItems == [quantity : Nat, unitPrice : Nat, ivaRate : ivaRates, subtotal : Nat,
             taxTreatment : {"TAXED", "EXEMPT", "UNTAXED"}]

LEMMA ItemsOfRow ==
  ASSUME NEW data \in IssueVoucherData, NEW items, NEW n, n = Len(data.items),
         items = [i \in DOMAIN data.items |-> itemData(data.items[i])]
  PROVE  /\ items \in Seq(RowItems) /\ DOMAIN items = DOMAIN data.items /\ Len(items) = n
         /\ SameItems(items, data.items, n)
         /\ \A i \in DOMAIN items : items[i].subtotal = RoundHalfUp(grossOf(items[i]), Unit)
<1>1. ItemsFit(data.items, n) /\ n \in Nat /\ DOMAIN data.items = 1..n
  BY DataFits DEF ItemsFit
<1>2. ASSUME NEW i \in 1..n
      PROVE  /\ items[i] \in RowItems /\ SoldAlike(items[i], data.items[i])
             /\ items[i].subtotal = RoundHalfUp(grossOf(items[i]), Unit)
  <2>1. PICK item : item = data.items[i]
    OBVIOUS
  <2>2. ItemFits(item) /\ items[i] = itemData(item)
    BY <1>1, <2>1 DEF ItemsFit
  <2>3. PICK g \in Nat, u \in Nat \ {0} : g = grossOf(item) /\ u = Unit
    BY <2>2 DEF ItemFits, grossOf, Unit
  <2>4. RoundHalfUp(grossOf(item), Unit) \in Nat
    BY <2>3, RoundingNatural
  <2>5. itemData(item) \in RowItems
    BY <2>2, <2>4 DEF ItemFits, Treatments, itemData, RowItems
  <2>6. SoldAlike(itemData(item), item)
    BY DEF itemData, SoldAlike
  <2>7. itemData(item).subtotal = RoundHalfUp(grossOf(itemData(item)), Unit)
    BY DEF itemData, grossOf
  <2> QED BY <2>1, <2>2, <2>5, <2>6, <2>7
<1>3. items \in [1..n -> RowItems]
  BY <1>1, <1>2
<1>4. items \in Seq(RowItems) /\ Len(items) = n /\ DOMAIN items = 1..n
  BY <1>1, <1>3, FunctionIsSeq
<1>5. ASSUME NEW i \in 1..n PROVE ItemFits(items[i])
  <2>1. items[i] \in RowItems
    BY <1>2
  <2> QED BY <2>1 DEF RowItems, ItemFits, Treatments
<1>6. ItemsFit(items, n)
  BY <1>1, <1>4, <1>5 DEF ItemsFit
<1>7. SameItems(items, data.items, n)
  BY <1>1, <1>2, <1>6 DEF SameItems
<1> QED BY <1>1, <1>2, <1>4, <1>7

LEMMA EmptyTributes == TributesFit(<<>>, 0) /\ calculateTributes(<<>>).total = 0
<1>1. TributesFit(<<>>, 0)
  BY DEF TributesFit
<1>2. [i \in DOMAIN <<>> |-> TributeAmount(<<>>[i])] = <<>>
  OBVIOUS
<1>3. SumOfAll(<<>>) = 0
  <2>1. PICK x \in Int : x = 0
    OBVIOUS
  <2> QED BY <2>1, SumOfFew
<1>4. calculateTributes(<<>>).total = SumOfAll([i \in DOMAIN <<>> |-> TributeAmount(<<>>[i])])
  BY DEF calculateTributes, SumOf
<1> QED BY <1>1, <1>2, <1>3, <1>4

LEMMA AmountsOfRow ==
  ASSUME NEW row, NEW items, NEW n, SameItems(row.items, items, n),
         NEW tributes, NEW m, TributesFit(tributes, m),
         row.amounts = calculateAmounts(row.voucherType, items, tributes)
  PROVE  AmountsFit(row)
<1>1. PICK own : own = calculateAmounts(row.voucherType, row.items, <<>>)
  OBVIOUS
<1>2. PICK amounts : amounts = row.amounts
  OBVIOUS
<1>3. ItemsFit(row.items, n) /\ ItemsFit(items, n) /\ WholeSold(row.items) = WholeSold(items)
  BY SameItemsSameSums DEF SameItems
<1>4. TributesOnTop(items, amounts)
  BY <1>2, <1>3, AmountsOf
<1>5. own.totalAmount = WholeSold(row.items)
  <2>1. own.totalAmount = WholeSold(row.items) + calculateTributes(<<>>).total
    BY <1>1 DEF calculateAmounts, WholeSold
  <2>2. WholeSold(row.items) \in Nat
    BY <1>3, GroupsTie
  <2> QED BY <2>1, <2>2, EmptyTributes
<1>6. /\ own.netAmount = amounts.netAmount /\ own.ivaAmount = amounts.ivaAmount
      /\ own.exemptAmount = amounts.exemptAmount /\ own.untaxedAmount = amounts.untaxedAmount
  BY <1>1, <1>2, SameItemsSameAmounts
<1> QED BY <1>1, <1>2, <1>3, <1>4, <1>5, <1>6 DEF AmountsFit, TributesOnTop

LEMMA RowIsTyped ==
  ASSUME NEW data \in IssueVoucherData, NEW status \in VoucherStatus,
         today \in Nat, vouchers \in Seq(IssuedVoucherData)
  PROVE  buildIssuedVoucherData(data, status) \in IssuedVoucherData
<1>1. PICK row, amounts, number, items, qr :
        /\ row = buildIssuedVoucherData(data, status)
        /\ amounts = calculateAmounts(data.voucherType, data.items, data.tributes)
        /\ number = NextNumber(data.voucherType)
        /\ items = [i \in DOMAIN data.items |-> itemData(data.items[i])]
        /\ qr = buildQr(data, number, amounts)
  OBVIOUS
<1>2. PICK type, docType, docNumber, concept, period, due, rate, associated :
        /\ type = data.voucherType /\ docType = data.recipient.docType
        /\ docNumber = data.recipient.docNumber /\ concept = data.concept
        /\ period = data.servicePeriod /\ due = data.paymentDueDate /\ rate = data.exchangeRate
        /\ associated = data.associatedVouchers
  OBVIOUS
<1>3. row = [recipientDocType |-> docType, recipientDocNumber |-> docNumber,
             voucherType |-> type, number |-> number, voucherDate |-> today,
             concept |-> concept, servicePeriod |-> period, paymentDueDate |-> due,
             amounts |-> amounts, exchangeRate |-> rate, status |-> status,
             associatedVouchers |-> associated, qrData |-> qr, items |-> items]
  BY <1>1, <1>2, Zenon DEF buildIssuedVoucherData
<1>4. /\ type \in VoucherTypeIds /\ docType \in Nat /\ docNumber \in STRING /\ concept \in 1..3
      /\ period \in [from : Nat, to : Nat] \cup {None} /\ due \in Nat \cup {None}
      /\ rate \in Nat \ {0}
  BY <1>2 DEF IssueVoucherData
<1>5. associated \in Seq([type : VoucherTypeIds, number : Nat])
  BY <1>2 DEF IssueVoucherData
<1>6. number \in Nat \ {0}
  BY <1>1, NumberOfNext
<1>7. items \in Seq(RowItems)
  <2>1. PICK n : n = Len(data.items)
    OBVIOUS
  <2> QED BY <1>1, <2>1, ItemsOfRow
<1>8. amounts \in VoucherAmounts
  <2>1. TributesOnTop(data.items, amounts)
    BY <1>1, DataFits, AmountsOf
  <2> QED BY <2>1 DEF TributesOnTop
<1>9. amounts.totalAmount \in Nat
  BY <1>8 DEF VoucherAmounts
<1>10. qr \in [tipoCmp : VoucherTypeIds, nroCmp : Nat, importe : Nat, tipoDocRec : Nat, nroDocRec : STRING]
  BY <1>1, <1>2, <1>4, <1>6, <1>9 DEF buildQr
<1> HIDE DEF IssuedVoucherData
<1>11. row \in IssuedVoucherData
  BY <1>3, <1>4, <1>5, <1>6, <1>7, <1>8, <1>10 DEF IssuedVoucherData, RowItems
<1> QED BY <1>1, <1>11

LEMMA RowOfInvoice ==
  ASSUME NEW data \in IssueVoucherData, issueVoucherSchema(data), NEW status \in VoucherStatus,
         today \in Nat, vouchers \in Seq(IssuedVoucherData)
  PROVE  RowFits(buildIssuedVoucherData(data, status))
<1>1. PICK row : row = buildIssuedVoucherData(data, status)
  OBVIOUS
<1>2. /\ row.voucherType = data.voucherType /\ row.items = [i \in DOMAIN data.items |-> itemData(data.items[i])]
      /\ row.amounts = calculateAmounts(data.voucherType, data.items, data.tributes)
      /\ row.recipientDocType = data.recipient.docType /\ row.concept = data.concept
      /\ row.servicePeriod = data.servicePeriod
  BY <1>1 DEF buildIssuedVoucherData
<1>3. PICK n : n = Len(data.items)
  OBVIOUS
<1>4. /\ DOMAIN row.items = DOMAIN data.items /\ Len(row.items) = n /\ SameItems(row.items, data.items, n)
      /\ \A i \in DOMAIN row.items : row.items[i].subtotal = RoundHalfUp(grossOf(row.items[i]), Unit)
  BY <1>2, <1>3, ItemsOfRow
<1>5. row \in IssuedVoucherData
  BY <1>1, RowIsTyped
<1>6. row.items # <<>>
  <2>1. data.items # <<>>
    BY DEF issueVoucherSchema, issueVoucherObjectSchema
  <2>2. DOMAIN data.items # {}
    <3>1. PICK S, items : S = [quantity : Nat, unitPrice : Nat, ivaRate : ivaRates,
                               taxTreatment : {"TAXED", "EXEMPT", "UNTAXED"}] /\ items = data.items
      OBVIOUS
    <3>2. items \in Seq(S)
      BY <3>1 DEF IssueVoucherData
    <3>3. Len(items) # 0
      BY <2>1, <3>1, <3>2, EmptySeq
    <3>4. Len(items) \in Nat /\ DOMAIN items = 1..Len(items)
      BY <3>2, LenProperties
    <3>5. 1 \in 1..Len(items)
      BY <3>3, <3>4
    <3>6. 1 \in DOMAIN data.items
      BY <3>1, <3>4, <3>5
    <3> QED BY <3>6
  <2> QED BY <1>4, <2>2
<1>7. ASSUME NEW i \in DOMAIN row.items PROVE itemSchema(row.items[i])
  <2>1. itemSchema(data.items[i])
    BY <1>4, <1>7 DEF issueVoucherSchema, issueVoucherObjectSchema
  <2>2. SoldAlike(row.items[i], data.items[i])
    BY <1>4, <1>7 DEF SameItems, ItemsFit
  <2> QED BY <2>1, <2>2 DEF itemSchema, SoldAlike
<1>8. requiresRecipientCuit(row.voucherType) => recipientOf(row).docType = CUIT
  <2>1. data.recipient.docType # None
    <3>1. data.recipient.docType \in Nat
      BY DEF IssueVoucherData
    <3> QED BY <3>1, DocumentConstants
  <2>2. recipientOf(row).docType = data.recipient.docType
    BY <1>2, <2>1 DEF recipientOf
  <2> QED BY <1>2, <2>2 DEF issueVoucherSchema, validateRecipient
<1>9. validateServicePeriod(row)
  BY <1>2 DEF issueVoucherSchema, validateServicePeriod
<1>10. AmountsFit(row)
  <2>1. TributesFit(data.tributes, Len(data.tributes))
    BY DataFits
  <2> QED BY <1>2, <1>4, <2>1, AmountsOfRow
<1> QED BY <1>1, <1>4, <1>5, <1>6, <1>7, <1>8, <1>9, <1>10 DEF RowFits

-----------------------------------------------------------------------------
(* The inductive invariant: every row is what an accepted invoice leaves, and *)
(* what was sent is an accepted invoice.                                      *)

PurchaseFits(purchase) == \A rate \in DOMAIN purchase.iva : purchase.iva[rate] \in Int

PurchaseRows ==
  [invoiceType : {purchase.invoiceType : purchase \in Purchases},
   iva : {purchase.iva : purchase \in Purchases}, issueDate : Nat]

RowsInv ==
  /\ vouchers \in Seq(IssuedVoucherData) /\ Len(vouchers) <= MaxVouchers
  /\ \A i \in DOMAIN vouchers : RowFits(vouchers[i]) /\ vouchers[i].voucherDate <= today

PurchaseRowsInv == purchases \in Seq(PurchaseRows) /\ Len(purchases) <= MaxPurchases

DocumentsInv ==
  /\ RowsInv
  /\ PurchaseRowsInv
  /\ today \in Nat /\ MonthOf(today) <= MaxMonth
  /\ sent = None \/ sent \in IssueVoucherData
  /\ answer \in AnswerTexts

LEMMA InitDocuments == Init => DocumentsInv
<1> SUFFICES ASSUME Init PROVE DocumentsInv
  OBVIOUS
<1>1. RowsInv
  <2>1. \A i \in DOMAIN Legacy : RowFits(Legacy[i]) /\ Legacy[i].voucherDate = 0
    BY DocumentConstants
  <2>2. Legacy \in Seq(IssuedVoucherData) /\ Len(Legacy) <= MaxVouchers
    BY DocumentConstants
  <2>3. vouchers = Legacy /\ today = 0
    BY DEF Init
  <2>4. \A i \in DOMAIN vouchers : RowFits(vouchers[i]) /\ vouchers[i].voucherDate <= today
    <3> TAKE i \in DOMAIN vouchers
    <3>1. RowFits(Legacy[i]) /\ Legacy[i].voucherDate = 0
      BY <2>1, <2>3
    <3> QED BY <2>3, <3>1
  <2> QED BY <2>2, <2>3, <2>4 DEF RowsInv
<1>2. PurchaseRowsInv
  BY DocumentConstants DEF Init, PurchaseRowsInv
<1>3. today \in Nat /\ MonthOf(today) <= MaxMonth
  BY DocumentConstants DEF Init, MonthOf, DaysPerMonth
<1> QED BY <1>1, <1>2, <1>3 DEF Init, DocumentsInv, AnswerTexts

\* A row that fits joins the others.
LEMMA RowIsAdded ==
  ASSUME RowsInv, today \in Nat, Len(vouchers) < MaxVouchers, NEW row, RowFits(row), row.voucherDate = today,
         vouchers' = Append(vouchers, row), today' = today
  PROVE  RowsInv'
<1>1. row \in IssuedVoucherData /\ vouchers \in Seq(IssuedVoucherData)
  BY DEF RowFits, RowsInv
<1>2. /\ vouchers' \in Seq(IssuedVoucherData) /\ Len(vouchers') = Len(vouchers) + 1
      /\ \A i \in 1..Len(vouchers) : vouchers'[i] = vouchers[i]
      /\ vouchers'[Len(vouchers) + 1] = row
  BY <1>1, AppendProperties
<1>3. /\ Len(vouchers) \in Nat /\ DOMAIN vouchers = 1..Len(vouchers)
      /\ DOMAIN vouchers' = 1..(Len(vouchers) + 1)
  BY <1>1, <1>2, LenProperties
<1>4. Len(vouchers') <= MaxVouchers
  BY <1>2, <1>3, DocumentConstants
<1>5. ASSUME NEW i \in DOMAIN vouchers' PROVE RowFits(vouchers'[i]) /\ vouchers'[i].voucherDate <= today'
  <2>1. CASE i \in 1..Len(vouchers)
    <3>1. RowFits(vouchers[i]) /\ vouchers[i].voucherDate <= today
      BY <1>3, <2>1 DEF RowsInv
    <3> QED BY <1>2, <2>1, <3>1
  <2>2. CASE i = Len(vouchers) + 1
    BY <1>2, <2>2
  <2> QED BY <1>3, <2>1, <2>2
<1>6. RowsInv' <=> /\ vouchers' \in Seq(IssuedVoucherData) /\ Len(vouchers') <= MaxVouchers
                   /\ \A i \in DOMAIN vouchers' : RowFits(vouchers'[i]) /\ vouchers'[i].voucherDate <= today'
  BY DEF RowsInv, RowFits, recipientOf
<1> QED BY <1>2, <1>4, <1>5, <1>6

LEMMA AuthoriseKeeps ==
  ASSUME DocumentsInv, NEW data \in IssueVoucherData, issueVoucherSchema(data),
         Len(vouchers) < MaxVouchers, NEW status \in VoucherStatus, Authorise(data, status)
  PROVE  DocumentsInv'
<1>1. RowsInv /\ today \in Nat /\ MonthOf(today) <= MaxMonth /\ PurchaseRowsInv
  BY DEF DocumentsInv
<1>2. vouchers \in Seq(IssuedVoucherData)
  BY <1>1 DEF RowsInv
<1>3. PICK row : row = buildIssuedVoucherData(data, status)
  OBVIOUS
<1>4. RowFits(row)
  BY <1>1, <1>2, <1>3, RowOfInvoice
<1>5. row.voucherDate = today
  BY <1>3 DEF buildIssuedVoucherData
<1>6. /\ vouchers' = Append(vouchers, row) /\ today' = today /\ purchases' = purchases
      /\ sent' = data /\ answer' = "issued"
  BY <1>3 DEF Authorise
<1>7. RowsInv'
  BY <1>1, <1>4, <1>5, <1>6, RowIsAdded
<1> QED BY <1>1, <1>6, <1>7 DEF DocumentsInv, PurchaseRowsInv, AnswerTexts

LEMMA AnsweredKeeps ==
  ASSUME DocumentsInv, NEW text \in AnswerTexts, Answered(text)
  PROVE  DocumentsInv'
<1>1. /\ vouchers' = vouchers /\ purchases' = purchases /\ today' = today /\ sent' = None /\ answer' = text
  BY DEF Answered
<1>2. RowsInv'
  BY <1>1 DEF DocumentsInv, RowsInv
<1> QED BY <1>1, <1>2 DEF DocumentsInv, PurchaseRowsInv

LEMMA DocumentsStep == DocumentsInv /\ [Next]_vars => DocumentsInv'
<1> SUFFICES ASSUME DocumentsInv, [Next]_vars PROVE DocumentsInv'
  OBVIOUS
<1>1. RowsInv /\ today \in Nat /\ MonthOf(today) <= MaxMonth /\ PurchaseRowsInv
      /\ vouchers \in Seq(IssuedVoucherData)
  BY DEF DocumentsInv, RowsInv
<1>2. ASSUME NEW n \in Nat, n < MaxSales PROVE n < MaxVouchers
  BY <1>2, DocumentConstants
<1>3. Len(vouchers) \in Nat
  BY <1>1, LenProperties
<1>4. ASSUME NEW data \in Accepted PROVE data \in IssueVoucherData /\ issueVoucherSchema(data)
  BY <1>4, DocumentConstants DEF Accepted
<1>5. CASE \E data \in Accepted : Issue(data) \/ RejectedByArca(data)
  <2>1. PICK data \in Accepted : Issue(data) \/ RejectedByArca(data)
    BY <1>5
  <2>2. data \in IssueVoucherData /\ issueVoucherSchema(data)
    BY <1>4, <2>1
  <2>3. CASE Issue(data)
    <3>1. PICK status \in {"APPROVED", "OBSERVED", "RECOVERED"} : Authorise(data, status)
      BY <2>3 DEF Issue
    <3>2. Len(vouchers) < MaxVouchers
      BY <1>2, <1>3, <2>3 DEF Issue
    <3>3. status \in VoucherStatus
      BY DEF VoucherStatus
    <3> QED BY <2>2, <3>1, <3>2, <3>3, AuthoriseKeeps
  <2>4. CASE RejectedByArca(data)
    <3>1. /\ vouchers' = vouchers /\ purchases' = purchases /\ today' = today /\ sent' = data
          /\ answer' = "rejected"
      BY <2>4 DEF RejectedByArca
    <3>2. RowsInv'
      BY <1>1, <3>1 DEF RowsInv
    <3> QED BY <1>1, <2>2, <3>1, <3>2 DEF DocumentsInv, PurchaseRowsInv, AnswerTexts
  <2> QED BY <2>1, <2>3, <2>4
<1>6. CASE Refuse \/ RefuseWithoutCbu
  <2>1. Answered("refused") \/ Answered("bad_request")
    BY <1>6 DEF Refuse, RefuseWithoutCbu
  <2>2. "refused" \in AnswerTexts /\ "bad_request" \in AnswerTexts
    BY DEF AnswerTexts
  <2> QED BY <2>1, <2>2, AnsweredKeeps
<1>7. CASE \E i \in DOMAIN vouchers : IssueCreditNote(i) \/ RefuseCreditNote(i)
  <2>1. PICK i \in DOMAIN vouchers : IssueCreditNote(i) \/ RefuseCreditNote(i)
    BY <1>7
  <2>2. CASE IssueCreditNote(i)
    <3>1. PICK draft : draft = buildCreditNoteDraft(vouchers[i])
      OBVIOUS
    <3>2. RowFits(vouchers[i])
      BY <1>1, <2>1 DEF RowsInv
    <3>3. AdmitsCreditNote(vouchers[i]) /\ Len(vouchers) < MaxVouchers
      BY <2>2 DEF IssueCreditNote
    <3>4. draft \in IssueVoucherData /\ issueVoucherSchema(draft)
      BY <1>1, <3>1, <3>2, <3>3, DraftFits DEF NoteIsAccepted
    <3>5. Authorise(draft, "APPROVED")
      BY <2>2, <3>1, <3>4 DEF IssueCreditNote
    <3>6. PICK status \in VoucherStatus : status = "APPROVED"
      BY DEF VoucherStatus
    <3> QED BY <3>3, <3>4, <3>5, <3>6, AuthoriseKeeps
  <2>3. CASE RefuseCreditNote(i)
    <3>1. Answered("unprocessable") /\ "unprocessable" \in AnswerTexts
      BY <2>3 DEF RefuseCreditNote, AnswerTexts
    <3> QED BY <3>1, AnsweredKeeps
  <2> QED BY <2>1, <2>2, <2>3
<1>8. CASE \E purchase \in Purchases : RegisterPurchase(purchase)
  <2>1. PICK purchase \in Purchases : RegisterPurchase(purchase)
    BY <1>8
  <2>2. PICK row : row = [invoiceType |-> purchase.invoiceType, iva |-> purchase.iva, issueDate |-> today]
    OBVIOUS
  <2>3. row \in PurchaseRows
    BY <1>1, <2>1, <2>2 DEF PurchaseRows
  <2>4. /\ purchases' = Append(purchases, row) /\ vouchers' = vouchers /\ today' = today
        /\ sent' = None /\ answer' = "registered" /\ Len(purchases) < MaxPurchases
    BY <2>1, <2>2 DEF RegisterPurchase
  <2>5. purchases \in Seq(PurchaseRows) /\ Len(purchases) \in Nat
    BY <1>1, LenProperties DEF PurchaseRowsInv
  <2>6. purchases' \in Seq(PurchaseRows) /\ Len(purchases') = Len(purchases) + 1
    BY <2>3, <2>4, <2>5, AppendProperties
  <2>7. Len(purchases') <= MaxPurchases
    BY <2>4, <2>5, <2>6, DocumentConstants
  <2>8. RowsInv'
    BY <1>1, <2>4 DEF RowsInv
  <2> QED BY <1>1, <2>4, <2>6, <2>7, <2>8 DEF DocumentsInv, PurchaseRowsInv, AnswerTexts
<1>9. CASE \E registered \in Accounts : updatePaymentAccount(registered)
  <2>1. /\ vouchers' = vouchers /\ purchases' = purchases /\ today' = today /\ sent' = None /\ answer' = "none"
    BY <1>9 DEF updatePaymentAccount
  <2>2. RowsInv'
    BY <1>1, <2>1 DEF RowsInv
  <2> QED BY <1>1, <2>1, <2>2 DEF DocumentsInv, PurchaseRowsInv, AnswerTexts
<1>10. CASE NextMonth
  <2>1. /\ vouchers' = vouchers /\ purchases' = purchases /\ today' = today + 30 /\ sent' = None
        /\ answer' = "none" /\ MonthOf(today) < MaxMonth
    BY <1>10 DEF NextMonth, DaysPerMonth
  <2>2. today' \in Nat /\ MonthOf(today') <= MaxMonth /\ today <= today'
    BY <1>1, <2>1, DocumentConstants DEF MonthOf, DaysPerMonth
  <2>3. RowsInv'
    <3>1. ASSUME NEW i \in DOMAIN vouchers PROVE vouchers[i].voucherDate <= today'
      <4>1. vouchers[i].voucherDate <= today /\ vouchers[i] \in IssuedVoucherData
        BY <1>1, <3>1 DEF RowsInv, RowFits
      <4>2. vouchers[i].voucherDate \in Nat
        BY <4>1 DEF IssuedVoucherData
      <4> QED BY <1>1, <2>2, <4>1, <4>2
    <3> QED BY <1>1, <2>1, <3>1 DEF RowsInv
  <2> QED BY <1>1, <2>1, <2>2, <2>3 DEF DocumentsInv, PurchaseRowsInv, AnswerTexts
<1>11. CASE UNCHANGED vars
  <2>1. /\ vouchers' = vouchers /\ purchases' = purchases /\ today' = today /\ sent' = sent /\ answer' = answer
    BY <1>11 DEF vars
  <2>2. RowsInv'
    BY <1>1, <2>1 DEF RowsInv
  <2> QED BY <1>1, <2>1, <2>2 DEF DocumentsInv, PurchaseRowsInv
<1> QED BY <1>5, <1>6, <1>7, <1>8, <1>9, <1>10, <1>11 DEF Next

THEOREM DocumentsHold == Spec => []DocumentsInv
<1>1. Init => DocumentsInv
  BY InitDocuments
<1>2. DocumentsInv /\ [Next]_vars => DocumentsInv'
  BY DocumentsStep
<1> QED BY <1>1, <1>2, PTL DEF Spec

\* The identity ARCA checks, for every invoice and note that is sent.
THEOREM RequestsTie == Spec => []RequestTies
<1>1. DocumentsInv => RequestTies
  <2> SUFFICES ASSUME DocumentsInv, sent # None PROVE Tolerable(OffBy(RequestOf(sent)), sent)
    BY DEF RequestTies
  <2>1. sent \in IssueVoucherData
    BY DEF DocumentsInv
  <2> QED BY <2>1, RequestIsTolerable
<1> QED BY <1>1, DocumentsHold, PTL

\* The drafted note passes the schema, whatever voucher it is drafted for.
THEOREM NoteDraftsAreAccepted == Spec => []NoteDraftIsAccepted
<1>1. DocumentsInv => NoteDraftIsAccepted
  <2> SUFFICES ASSUME DocumentsInv, NEW i \in DOMAIN vouchers, AdmitsCreditNote(vouchers[i])
               PROVE  NoteIsAccepted(buildCreditNoteDraft(vouchers[i]))
    BY DEF NoteDraftIsAccepted, NoteIsAccepted
  <2>1. RowFits(vouchers[i]) /\ today \in Nat
    BY DEF DocumentsInv, RowsInv
  <2> QED BY <2>1, DraftFits
<1> QED BY <1>1, DocumentsHold, PTL

-----------------------------------------------------------------------------
(* The breakdown of the books: the base of every rate is exact until it is    *)
(* rounded once, the IVA of every rate is rounded apart.                      *)

\* How far the IVA booked of some rates, iva cents, is from what their gross
\* and the fraction left as net tell, in twentieths of a cent: half a cent per
\* rate, and less when strict.
Drift(p, d, iva, gross) == 20 * (d * iva) - 2 * (d * gross) + 2 * p

Chain(f, iva, gross, k, strict) ==
  \E p \in Nat, d \in Nat \ {0} :
    /\ f = <<p, d>> /\ iva \in Nat /\ gross \in Nat /\ k \in Nat
    /\ -(10 * (d * k)) <= Drift(p, d, iva, gross) /\ Drift(p, d, iva, gross) <= 10 * (d * k)
    /\ strict /\ k # 0 => /\ -(10 * (d * k)) < Drift(p, d, iva, gross)
                          /\ Drift(p, d, iva, gross) < 10 * (d * k)

LEMMA Monotone ==
  ASSUME NEW c \in Nat \ {0}, NEW x \in Int, NEW y \in Int
  PROVE  /\ x <= y => c * x <= c * y
         /\ x < y => c * x < c * y
<1>1. c * y = c * x + c * (y - x)
  OBVIOUS
<1>2. y - x >= 0 => c * (y - x) >= 0
  OBVIOUS
<1>3. y - x >= 1 => c * (y - x) >= 1
  <2>1. y - x >= 1 => c * (y - x) = c * (y - x - 1) + c
    OBVIOUS
  <2>2. y - x >= 1 => c * (y - x - 1) >= 0
    OBVIOUS
  <2> QED BY <2>1, <2>2
<1>4. PICK u \in Int, v \in Int, w \in Int : u = c * x /\ v = c * y /\ w = c * (y - x)
  OBVIOUS
<1> QED BY <1>1, <1>2, <1>3, <1>4

Off(c, a, t, v) == 20 * (c * v) - 2 * (t * (c - a))

LEMMA DriftType ==
  ASSUME NEW p \in Nat, NEW d \in Nat, NEW iva \in Nat, NEW gross \in Nat, NEW k \in Nat
  PROVE  Drift(p, d, iva, gross) \in Int /\ d * k \in Nat
<1>1. d * iva \in Int /\ d * gross \in Int /\ d * k \in Nat
  OBVIOUS
<1> QED BY <1>1 DEF Drift

LEMMA OffType ==
  ASSUME NEW c \in Nat, NEW a \in Nat, NEW t \in Nat, NEW v \in Nat
  PROVE  Off(c, a, t, v) \in Int
<1>1. c * v \in Int /\ t * (c - a) \in Int
  OBVIOUS
<1> QED BY <1>1 DEF Off

LEMMA ChainGrows ==
  ASSUME NEW f, NEW iva, NEW gross, NEW k, NEW strict \in BOOLEAN, Chain(f, iva, gross, k, strict),
         NEW t \in Nat, NEW a \in Nat, NEW c \in Nat \ {0}, NEW v \in Nat,
         -(10 * c) <= Off(c, a, t, v), Off(c, a, t, v) <= 10 * c,
         strict => -(10 * c) < Off(c, a, t, v) /\ Off(c, a, t, v) < 10 * c
  PROVE  Chain(PlusFraction(f, <<t * a, c>>), iva + v, gross + t, k + 1, strict)
<1>1. PICK p \in Nat, d \in Nat \ {0} :
        /\ f = <<p, d>> /\ iva \in Nat /\ gross \in Nat /\ k \in Nat
        /\ -(10 * (d * k)) <= Drift(p, d, iva, gross) /\ Drift(p, d, iva, gross) <= 10 * (d * k)
        /\ strict /\ k # 0 => /\ -(10 * (d * k)) < Drift(p, d, iva, gross)
                              /\ Drift(p, d, iva, gross) < 10 * (d * k)
  BY DEF Chain
<1>2. PICK q \in Nat, e \in Nat \ {0} : q = p * c + (t * a) * d /\ e = d * c
  OBVIOUS
<1>3. PlusFraction(f, <<t * a, c>>) = <<q, e>>
  BY <1>1, <1>2 DEF PlusFraction
<1>4. PICK m \in Int, o \in Int, b \in Nat :
        m = Drift(p, d, iva, gross) /\ o = Off(c, a, t, v) /\ b = d * k
  <2>1. Drift(p, d, iva, gross) \in Int /\ d * k \in Nat
    BY <1>1, DriftType
  <2>2. Off(c, a, t, v) \in Int
    BY OffType
  <2> QED BY <2>1, <2>2
<1>5. Drift(q, e, iva + v, gross + t) = c * m + d * o
  <2>1. iva \in Nat /\ gross \in Nat
    BY <1>1
  <2>2. (d * c) * (iva + v) = c * (d * iva) + d * (c * v)
    BY <2>1
  <2>3. (d * c) * (gross + t) = c * (d * gross) + d * (c * t)
    BY <2>1
  <2>4. d * (t * (c - a)) = d * (c * t) - (t * a) * d
    BY <2>1
  <2>5. PICK i1 \in Int, g1 \in Int : i1 = d * iva /\ g1 = d * gross
    BY <2>1
  <2>6. c * (20 * i1 - 2 * g1 + 2 * p) = 20 * (c * i1) - 2 * (c * g1) + 2 * (p * c)
    BY <2>1
  <2>7. PICK v1 \in Int, t1 \in Int : v1 = c * v /\ t1 = t * (c - a)
    BY <2>1
  <2>8. d * (20 * v1 - 2 * t1) = 20 * (d * v1) - 2 * (d * t1)
    BY <2>1
  <2>9. PICK x1 \in Int, x2 \in Int, x3 \in Int, x4 \in Int, x5 \in Int, x6 \in Int :
          x1 = c * i1 /\ x2 = d * v1 /\ x3 = c * g1 /\ x4 = d * (c * t) /\ x5 = (t * a) * d /\ x6 = p * c
    BY <2>1
  <2>10. Drift(q, e, iva + v, gross + t) = 20 * (x1 + x2) - 2 * (x3 + x4) + 2 * (x6 + x5)
    BY <1>2, <2>2, <2>3, <2>5, <2>7, <2>9 DEF Drift
  <2>11. c * Drift(p, d, iva, gross) = 20 * x1 - 2 * x3 + 2 * x6
    BY <2>5, <2>6, <2>9 DEF Drift
  <2>12. d * Off(c, a, t, v) = 20 * x2 - 2 * (x4 - x5)
    BY <2>4, <2>7, <2>8, <2>9 DEF Off
  <2> QED BY <1>4, <2>9, <2>10, <2>11, <2>12
<1>6. e * (k + 1) = c * b + d * c
  BY <1>1, <1>2, <1>4
<1>7. /\ c * (-(10 * b)) <= c * m /\ c * m <= c * (10 * b)
      /\ d * (-(10 * c)) <= d * o /\ d * o <= d * (10 * c)
      /\ strict => d * (-(10 * c)) < d * o /\ d * o < d * (10 * c)
  <2>1. -(10 * b) \in Int /\ 10 * b \in Int /\ -(10 * c) \in Int /\ 10 * c \in Int
    BY <1>4
  <2> QED BY <1>1, <1>4, <2>1, Monotone
<1>8. PICK x \in Int, y \in Int, z \in Int, w \in Int : x = c * m /\ y = d * o /\ z = c * b /\ w = d * c
  BY <1>4
<1>9. /\ c * (10 * b) = 10 * z /\ c * (-(10 * b)) = -(10 * z)
      /\ d * (10 * c) = 10 * w /\ d * (-(10 * c)) = -(10 * w)
  BY <1>4, <1>8
<1>10. /\ -(10 * (e * (k + 1))) <= Drift(q, e, iva + v, gross + t)
       /\ Drift(q, e, iva + v, gross + t) <= 10 * (e * (k + 1))
       /\ strict => /\ -(10 * (e * (k + 1))) < Drift(q, e, iva + v, gross + t)
                    /\ Drift(q, e, iva + v, gross + t) < 10 * (e * (k + 1))
  <2>1. e * (k + 1) = z + w /\ Drift(q, e, iva + v, gross + t) = x + y
    BY <1>5, <1>6, <1>8
  <2>2. -(10 * z) <= x /\ x <= 10 * z /\ -(10 * w) <= y /\ y <= 10 * w
        /\ (strict => -(10 * w) < y /\ y < 10 * w)
    BY <1>7, <1>8, <1>9
  <2> QED BY <1>8, <2>1, <2>2
<1>11. iva + v \in Nat /\ gross + t \in Nat /\ k + 1 \in Nat
  BY <1>1
<1> QED BY <1>2, <1>3, <1>10, <1>11 DEF Chain

\* The IVA of a rate, rounded: off by half a cent at most, and by less when
\* its gross is whole cents, as the denominators are odd.
LEMMA IvaIsNear ==
  ASSUME NEW c \in Nat, c % 2 = 1, NEW a \in Nat, a <= c, NEW t \in Nat,
         NEW v, v = RoundHalfUp(t * (c - a), 10 * c)
  PROVE  /\ v \in Nat
         /\ -(10 * c) <= Off(c, a, t, v) /\ Off(c, a, t, v) <= 10 * c
         /\ (\E cents \in Nat : t = 10 * cents) => -(10 * c) < Off(c, a, t, v) /\ Off(c, a, t, v) < 10 * c
<1>1. c \in Nat \ {0}
  OBVIOUS
<1>2. PICK x \in Nat, d \in Nat \ {0} : x = t * (c - a) /\ d = 10 * c
  <2>1. c - a \in Nat /\ 10 * c \in Nat \ {0}
    BY <1>1
  <2>2. t * (c - a) \in Nat
    BY <2>1
  <2> QED BY <2>1, <2>2
<1>3. v = RoundHalfUp(x, d) /\ v \in Nat
  BY <1>2, RoundingNatural
<1>4. 2 * (d * v) - 2 * x <= d /\ -d < 2 * (d * v) - 2 * x
  BY <1>3, RoundingError
<1>5. PICK w \in Nat : w = c * v
  BY <1>3
<1>6. d * v = 10 * w
  <2>1. (10 * c) * v = 10 * (c * v)
    BY <1>3
  <2> QED BY <1>2, <1>5, <2>1
<1>7. Off(c, a, t, v) = 20 * w - 2 * x
  BY <1>2, <1>5 DEF Off
<1>8. -(10 * c) < Off(c, a, t, v) /\ Off(c, a, t, v) <= 10 * c
  BY <1>2, <1>4, <1>6, <1>7
<1>9. ASSUME NEW cents \in Nat, t = 10 * cents PROVE Off(c, a, t, v) # 10 * c
  <2>1. PICK y \in Int : y = cents * (c - a)
    OBVIOUS
  <2>2. x = 10 * y
    BY <1>2, <1>9, <2>1
  <2>3. 2 * w - 2 * y # c
    OBVIOUS
  <2> QED BY <1>7, <2>2, <2>3
<1>10. Off(c, a, t, v) \in Int
  BY <1>5, <1>7
<1>11. ASSUME \E cents \in Nat : t = 10 * cents
       PROVE  -(10 * c) < Off(c, a, t, v) /\ Off(c, a, t, v) < 10 * c
  <2>1. Off(c, a, t, v) # 10 * c
    BY <1>9, <1>11
  <2> QED BY <1>8, <1>10, <2>1
<1>12. -(10 * c) <= Off(c, a, t, v)
  BY <1>8, <1>10
<1> QED BY <1>3, <1>8, <1>11, <1>12, Zenon

SharedRates == {25, 50, 105, 210, 270}

LEMMA Shares ==
  ASSUME NEW rate \in SharedRates
  PROVE  \E a \in Nat, c \in Nat : BaseShare[rate] = <<a, c>> /\ c % 2 = 1 /\ a <= c
<1>1. BaseShare[25] = <<40, 41>>
  BY DEF BaseShare, ivaRates
<1>2. BaseShare[50] = <<20, 21>>
  BY DEF BaseShare, ivaRates
<1>3. BaseShare[105] = <<200, 221>>
  BY DEF BaseShare, ivaRates
<1>4. BaseShare[210] = <<100, 121>>
  BY DEF BaseShare, ivaRates
<1>5. BaseShare[270] = <<100, 127>>
  BY DEF BaseShare, ivaRates
<1>6. 41 % 2 = 1 /\ 21 % 2 = 1 /\ 221 % 2 = 1 /\ 121 % 2 = 1 /\ 127 % 2 = 1
  OBVIOUS
<1> QED BY <1>1, <1>2, <1>3, <1>4, <1>5, <1>6 DEF SharedRates

\* What a rate adds to the IVA of the books, to the gross and to the count.
IvaIf(voucher, rate) == IF rate \in BookRates(voucher) THEN IvaAt(voucher, rate) ELSE 0
OneIf(voucher, rate) == IF rate \in BookRates(voucher) THEN 1 ELSE 0

WholeCents(gross) == \E cents \in Nat : gross = 10 * cents

RateOfBook(voucher, rate) ==
  /\ RateGross(voucher, rate) \in Nat
  /\ rate \notin BookRates(voucher) => RateGross(voucher, rate) = 0

LEMMA ChainOfRate ==
  ASSUME NEW f, NEW iva, NEW gross, NEW k, NEW strict \in BOOLEAN, Chain(f, iva, gross, k, strict),
         NEW voucher, NEW rate \in SharedRates, RateOfBook(voucher, rate),
         strict => WholeCents(RateGross(voucher, rate))
  PROVE  /\ Chain(PlusBase(f, voucher, rate), iva + IvaIf(voucher, rate),
                  gross + RateGross(voucher, rate), k + OneIf(voucher, rate), strict)
         /\ IvaIf(voucher, rate) \in Nat
<1>1. PICK t \in Nat : t = RateGross(voucher, rate)
  BY DEF RateOfBook
<1>2. iva \in Nat /\ gross \in Nat /\ k \in Nat
  BY DEF Chain
<1>3. CASE rate \notin BookRates(voucher)
  <2>1. PlusBase(f, voucher, rate) = f /\ IvaIf(voucher, rate) = 0 /\ OneIf(voucher, rate) = 0 /\ t = 0
    BY <1>1, <1>3 DEF PlusBase, IvaIf, OneIf, RateOfBook
  <2>2. iva + 0 = iva /\ gross + 0 = gross /\ k + 0 = k
    BY <1>2
  <2> QED BY <1>1, <2>1, <2>2
<1>4. CASE rate \in BookRates(voucher)
  <2>1. PICK a \in Nat, c \in Nat : BaseShare[rate] = <<a, c>> /\ c % 2 = 1 /\ a <= c
    BY Shares
  <2>2. PICK v : v = RoundHalfUp(t * (c - a), 10 * c)
    OBVIOUS
  <2>3. PlusBase(f, voucher, rate) = PlusFraction(f, <<t * a, c>>)
    BY <1>1, <1>4, <2>1 DEF PlusBase
  <2>4. IvaIf(voucher, rate) = v /\ OneIf(voucher, rate) = 1
    BY <1>1, <1>4, <2>1, <2>2 DEF IvaIf, OneIf, IvaAt, ToCents
  <2>5. /\ v \in Nat /\ -(10 * c) <= Off(c, a, t, v) /\ Off(c, a, t, v) <= 10 * c
        /\ WholeCents(t) => -(10 * c) < Off(c, a, t, v) /\ Off(c, a, t, v) < 10 * c
    BY <2>1, <2>2, IvaIsNear DEF WholeCents
  <2>6. c \in Nat \ {0}
    BY <2>1
  <2>7. Chain(PlusFraction(f, <<t * a, c>>), iva + v, gross + t, k + 1, strict)
    <3>1. strict => -(10 * c) < Off(c, a, t, v) /\ Off(c, a, t, v) < 10 * c
      BY <1>1, <2>5
    <3> QED BY <2>1, <2>5, <2>6, <3>1, ChainGrows
  <2> QED BY <1>1, <2>3, <2>4, <2>5, <2>7
<1> QED BY <1>3, <1>4

\* All the rates of the book, one after the other.
IvaSum(voucher) ==
  IvaIf(voucher, 25) + IvaIf(voucher, 50) + IvaIf(voucher, 105) + IvaIf(voucher, 210) + IvaIf(voucher, 270)

GrossSum(voucher) ==
  ColumnGross(voucher, "net") + RateGross(voucher, 25) + RateGross(voucher, 50) + RateGross(voucher, 105)
    + RateGross(voucher, 210) + RateGross(voucher, 270)

RateCount(voucher) ==
  OneIf(voucher, 25) + OneIf(voucher, 50) + OneIf(voucher, 105) + OneIf(voucher, 210) + OneIf(voucher, 270)

\* Columns hold whole cents when the voucher is in pesos.
GrossIsWhole(voucher) ==
  /\ WholeCents(ColumnGross(voucher, "net"))
  /\ \A rate \in SharedRates : WholeCents(RateGross(voucher, rate))

BookIsSound(voucher, strict) ==
  /\ ColumnGross(voucher, "net") \in Nat
  /\ \A rate \in SharedRates : RateOfBook(voucher, rate)
  /\ strict \in BOOLEAN
  /\ strict => GrossIsWhole(voucher)

LEMMA ChainOfBook ==
  ASSUME NEW voucher, NEW strict, BookIsSound(voucher, strict)
  PROVE  /\ Chain(NetOfIva(voucher), IvaSum(voucher), GrossSum(voucher), RateCount(voucher), strict)
         /\ \A rate \in SharedRates : IvaIf(voucher, rate) \in Nat
<1>1. PICK f0, f1, f2, f3, f4, f5 :
        /\ f0 = <<ColumnGross(voucher, "net"), 1>> /\ f1 = PlusBase(f0, voucher, 25)
        /\ f2 = PlusBase(f1, voucher, 50) /\ f3 = PlusBase(f2, voucher, 105)
        /\ f4 = PlusBase(f3, voucher, 210) /\ f5 = PlusBase(f4, voucher, 270)
  OBVIOUS
<1>2. NetOfIva(voucher) = f5
  BY <1>1 DEF NetOfIva
<1>3. ASSUME NEW rate \in SharedRates
      PROVE  RateOfBook(voucher, rate) /\ (strict => WholeCents(RateGross(voucher, rate)))
  BY DEF BookIsSound, GrossIsWhole
<1>4. strict \in BOOLEAN
  BY DEF BookIsSound
<1>5. PICK n0 \in Nat : n0 = ColumnGross(voucher, "net")
  BY DEF BookIsSound
<1>6. Chain(f0, 0, n0, 0, strict)
  <2>1. PICK p \in Nat, d \in Nat \ {0} : p = n0 /\ d = 1
    OBVIOUS
  <2>2. f0 = <<p, d>>
    BY <1>1, <1>5, <2>1
  <2>3. Drift(p, d, 0, n0) = 0 /\ d * 0 = 0
    BY <2>1 DEF Drift
  <2> QED BY <2>2, <2>3 DEF Chain
<1>7. PICK t1, t2, t3, t4, t5, v1, v2, v3, v4, v5, k1, k2, k3, k4, k5 :
        /\ t1 = RateGross(voucher, 25) /\ t2 = RateGross(voucher, 50) /\ t3 = RateGross(voucher, 105)
        /\ t4 = RateGross(voucher, 210) /\ t5 = RateGross(voucher, 270)
        /\ v1 = IvaIf(voucher, 25) /\ v2 = IvaIf(voucher, 50) /\ v3 = IvaIf(voucher, 105)
        /\ v4 = IvaIf(voucher, 210) /\ v5 = IvaIf(voucher, 270)
        /\ k1 = OneIf(voucher, 25) /\ k2 = OneIf(voucher, 50) /\ k3 = OneIf(voucher, 105)
        /\ k4 = OneIf(voucher, 210) /\ k5 = OneIf(voucher, 270)
  OBVIOUS
<1>8. /\ 25 \in SharedRates /\ 50 \in SharedRates /\ 105 \in SharedRates
      /\ 210 \in SharedRates /\ 270 \in SharedRates
  BY DEF SharedRates
<1>9. Chain(f1, 0 + v1, n0 + t1, 0 + k1, strict) /\ v1 \in Nat
  BY <1>1, <1>3, <1>4, <1>6, <1>7, <1>8, ChainOfRate
<1>10. Chain(f2, 0 + v1 + v2, n0 + t1 + t2, 0 + k1 + k2, strict) /\ v2 \in Nat
  BY <1>1, <1>3, <1>4, <1>7, <1>8, <1>9, ChainOfRate
<1>11. Chain(f3, 0 + v1 + v2 + v3, n0 + t1 + t2 + t3, 0 + k1 + k2 + k3, strict) /\ v3 \in Nat
  BY <1>1, <1>3, <1>4, <1>7, <1>8, <1>10, ChainOfRate
<1>12. Chain(f4, 0 + v1 + v2 + v3 + v4, n0 + t1 + t2 + t3 + t4, 0 + k1 + k2 + k3 + k4, strict) /\ v4 \in Nat
  BY <1>1, <1>3, <1>4, <1>7, <1>8, <1>11, ChainOfRate
<1>13. Chain(f5, 0 + v1 + v2 + v3 + v4 + v5, n0 + t1 + t2 + t3 + t4 + t5, 0 + k1 + k2 + k3 + k4 + k5, strict)
       /\ v5 \in Nat
  BY <1>1, <1>3, <1>4, <1>7, <1>8, <1>12, ChainOfRate
<1>14. k1 \in Nat /\ k2 \in Nat /\ k3 \in Nat /\ k4 \in Nat /\ k5 \in Nat
  BY <1>7 DEF OneIf
<1>15. 0 + v1 + v2 + v3 + v4 + v5 = IvaSum(voucher) /\ 0 + k1 + k2 + k3 + k4 + k5 = RateCount(voucher)
       /\ n0 + t1 + t2 + t3 + t4 + t5 = GrossSum(voucher)
  <2>1. /\ 0 + v1 + v2 + v3 + v4 + v5 = v1 + v2 + v3 + v4 + v5
        /\ 0 + k1 + k2 + k3 + k4 + k5 = k1 + k2 + k3 + k4 + k5
    BY <1>9, <1>10, <1>11, <1>12, <1>13, <1>14
  <2> QED BY <1>5, <1>7, <2>1 DEF IvaSum, RateCount, GrossSum
<1>16. Chain(NetOfIva(voucher), IvaSum(voucher), GrossSum(voucher), RateCount(voucher), strict)
  BY <1>2, <1>13, <1>15
<1>17. \A rate \in SharedRates : IvaIf(voucher, rate) \in Nat
  BY <1>7, <1>9, <1>10, <1>11, <1>12, <1>13 DEF SharedRates
<1> QED BY <1>16, <1>17

\* What is net of IVA and the IVA of the rates, against the gross they share.
LEMMA NetAndIva ==
  ASSUME NEW f, NEW iva, NEW gross, NEW k, NEW strict \in BOOLEAN, Chain(f, iva, gross, k, strict)
  PROVE  /\ ToCents(f) \in Nat
         /\ -(10 * (k + 1)) <= 20 * (iva + ToCents(f)) - 2 * gross
         /\ 20 * (iva + ToCents(f)) - 2 * gross <= 10 * (k + 1)
         /\ \A cents \in Nat : strict /\ gross = 10 * cents =>
              2 * (iva + ToCents(f) - cents) <= k /\ -k <= 2 * (iva + ToCents(f) - cents)
<1>1. PICK p \in Nat, d \in Nat \ {0} :
        /\ f = <<p, d>> /\ iva \in Nat /\ gross \in Nat /\ k \in Nat
        /\ -(10 * (d * k)) <= Drift(p, d, iva, gross) /\ Drift(p, d, iva, gross) <= 10 * (d * k)
        /\ strict /\ k # 0 => /\ -(10 * (d * k)) < Drift(p, d, iva, gross)
                              /\ Drift(p, d, iva, gross) < 10 * (d * k)
  BY DEF Chain
<1>2. PICK e \in Nat \ {0} : e = 10 * d
  OBVIOUS
<1>3. PICK net \in Nat : net = RoundHalfUp(p, e)
  BY RoundingNatural
<1>4. ToCents(f) = net
  BY <1>1, <1>2, <1>3 DEF ToCents
<1>5. 2 * (e * net) - 2 * p <= e /\ -e < 2 * (e * net) - 2 * p
  BY <1>3, RoundingError
<1>6. PICK x \in Int, y \in Int, z \in Int, w \in Int : x = d * iva /\ y = d * gross /\ z = d * k /\ w = d * net
  BY <1>1
<1>7. e * net = 10 * w
  <2>1. (10 * d) * net = 10 * (d * net)
    OBVIOUS
  <2> QED BY <1>2, <1>6, <2>1
<1>8. Drift(p, d, iva, gross) = 20 * x - 2 * y + 2 * p
  BY <1>6 DEF Drift
<1>9. /\ -(10 * z) <= 20 * x - 2 * y + 2 * p /\ 20 * x - 2 * y + 2 * p <= 10 * z
      /\ strict /\ k # 0 => -(10 * z) < 20 * x - 2 * y + 2 * p /\ 20 * x - 2 * y + 2 * p < 10 * z
  BY <1>1, <1>6, <1>8
<1>10. 20 * w - 2 * p <= 10 * d /\ -(10 * d) < 20 * w - 2 * p
  BY <1>2, <1>5, <1>7
<1>11. PICK s \in Int, b \in Int : s = 20 * (iva + net) - 2 * gross /\ b = 10 * (k + 1)
  BY <1>1
<1>12. d * s = 20 * x + 20 * w - 2 * y /\ d * b = 10 * z + 10 * d /\ d * (-b) = -(10 * z + 10 * d)
  <2>1. iva \in Nat /\ gross \in Nat /\ k \in Nat
    BY <1>1
  <2>2. d * (20 * (iva + net) - 2 * gross) = 20 * (d * iva) + 20 * (d * net) - 2 * (d * gross)
    BY <2>1
  <2>3. d * (10 * (k + 1)) = 10 * (d * k) + 10 * d /\ d * (-(10 * (k + 1))) = -(10 * (d * k) + 10 * d)
    BY <2>1
  <2> QED BY <1>6, <1>11, <2>2, <2>3
<1>13. d * (-b) <= d * s /\ d * s <= d * b
  BY <1>6, <1>9, <1>10, <1>12
<1>14. -b <= s /\ s <= b
  <2>1. s > b => d * s > d * b
    BY Monotone
  <2>2. s < -b => d * s < d * (-b)
    <3>1. -b \in Int
      OBVIOUS
    <3> QED BY <3>1, Monotone
  <2>3. PICK m1 \in Int, m2 \in Int, m3 \in Int : m1 = d * s /\ m2 = d * b /\ m3 = d * (-b)
    OBVIOUS
  <2> QED BY <1>13, <2>1, <2>2, <2>3
<1>15. ASSUME NEW cents \in Nat, strict, gross = 10 * cents
       PROVE  2 * (iva + net - cents) <= k /\ -k <= 2 * (iva + net - cents)
  <2>1. s = 20 * (iva + net - cents)
    BY <1>1, <1>11, <1>15
  <2>2. CASE k # 0
    <3>1. d * (-b) < d * s /\ d * s < d * b
      BY <1>6, <1>9, <1>10, <1>12, <1>15, <2>2
    <3>2. s # b /\ s # -b
      <4>1. PICK m1 \in Int, m2 \in Int, m3 \in Int : m1 = d * s /\ m2 = d * b /\ m3 = d * (-b)
        OBVIOUS
      <4> QED BY <3>1, <4>1
    <3>3. -b < s /\ s < b
      BY <1>14, <3>2
    <3> QED BY <1>1, <1>11, <2>1, <3>3
  <2>3. CASE k = 0
    <3>1. z = 0
      BY <1>6, <2>3
    <3>2. p = y - 10 * x
      BY <1>6, <1>9, <3>1
    <3>3. PICK q \in Int : q = cents - iva
      BY <1>1
    <3>4. y - 10 * x = e * q
      <4>1. iva \in Nat
        BY <1>1
      <4>2. d * (10 * cents) - 10 * (d * iva) = (10 * d) * (cents - iva)
        BY <4>1
      <4> QED BY <1>2, <1>6, <1>15, <3>3, <4>2
    <3>5. RoundHalfUp(e * q, e) = q
      BY RoundingWhole
    <3>6. net = q
      BY <1>3, <3>2, <3>4, <3>5
    <3> QED BY <1>1, <2>3, <3>3, <3>6
  <2> QED BY <1>1, <2>2, <2>3
<1> QED BY <1>4, <1>11, <1>14, <1>15

-----------------------------------------------------------------------------
(* The columns of the books: every item is in one.                            *)

Columns == {"exempt", "untaxed", "net", "taxed"}

BookFits(voucher, n) ==
  /\ ItemsFit(voucher.items, n)
  /\ voucher.exchangeRate \in Nat \ {0}
  /\ \A i \in 1..n : voucher.items[i].subtotal \in Nat

\* The subtotals in pesos: of every item, of a column's, of a rate's.
InPesos(voucher) == [i \in DOMAIN voucher.items |-> toPesos(voucher, voucher.items[i].subtotal)]

InColumn(voucher, column) ==
  [i \in DOMAIN voucher.items |->
    IF BookColumn(voucher, voucher.items[i]) = column
    THEN toPesos(voucher, voucher.items[i].subtotal) ELSE 0]

AtRate(voucher, rate) ==
  [i \in DOMAIN voucher.items |->
    IF BookColumn(voucher, voucher.items[i]) = "taxed" /\ voucher.items[i].ivaRate = rate
    THEN toPesos(voucher, voucher.items[i].subtotal) ELSE 0]

LEMMA BookSums ==
  ASSUME NEW voucher
  PROVE  /\ \A column : ColumnGross(voucher, column) = SumOfAll(InColumn(voucher, column))
         /\ \A rate : RateGross(voucher, rate) = SumOfAll(AtRate(voucher, rate))
<1>1. \A column : ColumnGross(voucher, column) = SumOfAll(InColumn(voucher, column))
  BY DEF ColumnGross, BookGross, SumWhere, SumOf, InColumn
<1>2. \A rate : RateGross(voucher, rate) = SumOfAll(AtRate(voucher, rate))
  BY DEF RateGross, BookGross, SumWhere, SumOf, AtRate
<1> QED BY <1>1, <1>2

LEMMA BookTerms ==
  ASSUME NEW voucher, NEW n, BookFits(voucher, n)
  PROVE  /\ n \in Nat /\ DOMAIN voucher.items = 1..n
         /\ InPesos(voucher) \in [1..n -> Nat]
         /\ \A column : InColumn(voucher, column) \in [1..n -> Nat]
         /\ \A rate : AtRate(voucher, rate) \in [1..n -> Nat]
<1>1. n \in Nat /\ DOMAIN voucher.items = 1..n
  BY DEF BookFits, ItemsFit
<1>2. ASSUME NEW i \in 1..n PROVE toPesos(voucher, voucher.items[i].subtotal) \in Nat
  BY DEF BookFits, toPesos
<1> QED BY <1>1, <1>2 DEF InPesos, InColumn, AtRate

\* Where an item goes: taxed items bear one of the rates that share their gross.
LEMMA ColumnOfItem ==
  ASSUME NEW voucher, NEW item, ItemFits(item)
  PROVE  /\ BookColumn(voucher, item) \in Columns
         /\ BookColumn(voucher, item) = "taxed" => item.ivaRate \in SharedRates
<1>1. item.ivaRate \in {0, 25, 50, 105, 210, 270}
  BY DEF ItemFits, ivaRates
<1>2. CASE item.taxTreatment = "EXEMPT" \/ voucherLetter(voucher.voucherType) = "E"
  BY <1>2 DEF BookColumn, Columns
<1>3. CASE ~ (item.taxTreatment = "EXEMPT" \/ voucherLetter(voucher.voucherType) = "E")
  <2>1. CASE item.taxTreatment = "UNTAXED"
    BY <1>3, <2>1 DEF BookColumn, Columns
  <2>2. CASE item.taxTreatment # "UNTAXED" /\ (~bearsIva(voucher.voucherType) \/ item.ivaRate = 0)
    <3>1. BookColumn(voucher, item) = "net"
      BY <1>3, <2>2 DEF BookColumn
    <3> QED BY <3>1 DEF Columns
  <2>3. CASE item.taxTreatment # "UNTAXED" /\ ~ (~bearsIva(voucher.voucherType) \/ item.ivaRate = 0)
    <3>1. BookColumn(voucher, item) = "taxed"
      BY <1>3, <2>3 DEF BookColumn
    <3> QED BY <1>1, <2>3, <3>1 DEF Columns, SharedRates
  <2> QED BY <2>1, <2>2, <2>3
<1> QED BY <1>2, <1>3

LEMMA BookTypes ==
  ASSUME NEW voucher, NEW n, BookFits(voucher, n)
  PROVE  /\ \A column : ColumnGross(voucher, column) \in Nat
         /\ \A rate : RateOfBook(voucher, rate)
         /\ BookRates(voucher) \subseteq SharedRates
<1>1. ASSUME NEW column PROVE ColumnGross(voucher, column) \in Nat
  BY BookSums, BookTerms, SumOfNaturals
<1>2. ASSUME NEW rate PROVE RateGross(voucher, rate) \in Nat
  BY BookSums, BookTerms, SumOfNaturals
<1>3. ASSUME NEW rate, rate \notin BookRates(voucher) PROVE RateGross(voucher, rate) = 0
  <2>1. PICK f : f = AtRate(voucher, rate)
    OBVIOUS
  <2>2. ASSUME NEW i \in 1..n PROVE f[i] = 0
    <3>1. i \in DOMAIN voucher.items
      BY BookTerms
    <3> QED BY <1>3, <2>1, <3>1 DEF AtRate, BookRates
  <2>3. n \in Nat /\ f \in [1..n -> Int] /\ f \in [1..n -> Nat]
    BY <2>1, BookTerms
  <2>4. PICK b \in Nat : b = 0
    OBVIOUS
  <2>5. \A i \in 1..n : -b <= f[i] /\ f[i] <= b
    BY <2>2, <2>4
  <2>6. -(n * b) <= SumOfAll(f) /\ SumOfAll(f) <= n * b
    BY <2>3, <2>5, SumIsBounded
  <2>7. SumOfAll(f) \in Nat /\ n * b = 0
    BY <2>3, <2>4, SumOfNaturals
  <2> QED BY <2>1, <2>6, <2>7, BookSums
<1>4. BookRates(voucher) \subseteq SharedRates
  <2>1. ASSUME NEW i \in DOMAIN voucher.items, BookColumn(voucher, voucher.items[i]) = "taxed"
        PROVE  voucher.items[i].ivaRate \in SharedRates
    BY <2>1, ColumnOfItem, BookTerms DEF BookFits, ItemsFit
  <2> QED BY <2>1 DEF BookRates
<1> QED BY <1>1, <1>2, <1>3, <1>4 DEF RateOfBook

\* The columns share the voucher in pesos.
LEMMA BookPartition ==
  ASSUME NEW voucher, NEW n, BookFits(voucher, n)
  PROVE  SumOfAll(InPesos(voucher))
           = GrossSum(voucher) + ColumnGross(voucher, "exempt") + ColumnGross(voucher, "untaxed")
<1>1. PICK all, net, a1, a2, a3, a4, a5, ex, un :
        /\ all = InPesos(voucher) /\ net = InColumn(voucher, "net")
        /\ a1 = AtRate(voucher, 25) /\ a2 = AtRate(voucher, 50) /\ a3 = AtRate(voucher, 105)
        /\ a4 = AtRate(voucher, 210) /\ a5 = AtRate(voucher, 270)
        /\ ex = InColumn(voucher, "exempt") /\ un = InColumn(voucher, "untaxed")
  OBVIOUS
<1>2. /\ Terms(all, n) /\ Terms(net, n) /\ Terms(a1, n) /\ Terms(a2, n) /\ Terms(a3, n)
      /\ Terms(a4, n) /\ Terms(a5, n) /\ Terms(ex, n) /\ Terms(un, n)
  <2>1. n \in Nat
    BY BookTerms
  <2>2. ASSUME NEW f \in [1..n -> Nat] PROVE Terms(f, n)
    BY <2>1 DEF Terms
  <2> QED BY <1>1, <2>2, BookTerms
<1>3. PICK s1 : Terms(s1, n) /\ IsSumOf(s1, net, a1, n) /\ SumOfAll(s1) = SumOfAll(net) + SumOfAll(a1)
  BY <1>2, SumOfBoth
<1>4. PICK s2 : Terms(s2, n) /\ IsSumOf(s2, s1, a2, n) /\ SumOfAll(s2) = SumOfAll(s1) + SumOfAll(a2)
  BY <1>2, <1>3, SumOfBoth
<1>5. PICK s3 : Terms(s3, n) /\ IsSumOf(s3, s2, a3, n) /\ SumOfAll(s3) = SumOfAll(s2) + SumOfAll(a3)
  BY <1>2, <1>4, SumOfBoth
<1>6. PICK s4 : Terms(s4, n) /\ IsSumOf(s4, s3, a4, n) /\ SumOfAll(s4) = SumOfAll(s3) + SumOfAll(a4)
  BY <1>2, <1>5, SumOfBoth
<1>7. PICK s5 : Terms(s5, n) /\ IsSumOf(s5, s4, a5, n) /\ SumOfAll(s5) = SumOfAll(s4) + SumOfAll(a5)
  BY <1>2, <1>6, SumOfBoth
<1>8. PICK s6 : Terms(s6, n) /\ IsSumOf(s6, s5, ex, n) /\ SumOfAll(s6) = SumOfAll(s5) + SumOfAll(ex)
  BY <1>2, <1>7, SumOfBoth
<1>9. ASSUME NEW i \in 1..n PROVE all[i] = s6[i] + un[i]
  <2>1. PICK item : item = voucher.items[i] /\ ItemFits(item) /\ DOMAIN voucher.items = 1..n
    BY DEF BookFits, ItemsFit
  <2>2. PICK g, column, rate :
          g \in Nat /\ g = toPesos(voucher, item.subtotal) /\ column = BookColumn(voucher, item)
          /\ rate = item.ivaRate
    BY <2>1 DEF BookFits, toPesos
  <2>3. column \in Columns /\ (column = "taxed" => rate \in SharedRates)
    BY <2>1, <2>2, ColumnOfItem
  <2>4. /\ InPesos(voucher)[i] = g
        /\ \A r : AtRate(voucher, r)[i] = IF column = "taxed" /\ rate = r THEN g ELSE 0
        /\ \A t : InColumn(voucher, t)[i] = IF column = t THEN g ELSE 0
    BY <2>1, <2>2, Zenon DEF InPesos, AtRate, InColumn
  <2>5. /\ all[i] = g
        /\ net[i] = (IF column = "net" THEN g ELSE 0)
        /\ a1[i] = (IF column = "taxed" /\ rate = 25 THEN g ELSE 0)
        /\ a2[i] = (IF column = "taxed" /\ rate = 50 THEN g ELSE 0)
        /\ a3[i] = (IF column = "taxed" /\ rate = 105 THEN g ELSE 0)
        /\ a4[i] = (IF column = "taxed" /\ rate = 210 THEN g ELSE 0)
        /\ a5[i] = (IF column = "taxed" /\ rate = 270 THEN g ELSE 0)
        /\ ex[i] = (IF column = "exempt" THEN g ELSE 0)
        /\ un[i] = (IF column = "untaxed" THEN g ELSE 0)
    BY <1>1, <2>4, Zenon
  <2>6. s6[i] + un[i] = net[i] + a1[i] + a2[i] + a3[i] + a4[i] + a5[i] + ex[i] + un[i]
    <3>1. /\ s1[i] = net[i] + a1[i] /\ s2[i] = s1[i] + a2[i] /\ s3[i] = s2[i] + a3[i]
          /\ s4[i] = s3[i] + a4[i] /\ s5[i] = s4[i] + a5[i] /\ s6[i] = s5[i] + ex[i]
      BY <1>3, <1>4, <1>5, <1>6, <1>7, <1>8, Zenon DEF IsSumOf
    <3> QED BY <3>1
  <2>7. net[i] + a1[i] + a2[i] + a3[i] + a4[i] + a5[i] + ex[i] + un[i] = g
    <3>1. CASE column = "exempt"
      BY <2>2, <2>5, <3>1
    <3>2. CASE column = "untaxed"
      BY <2>2, <2>5, <3>2
    <3>3. CASE column = "net"
      BY <2>2, <2>5, <3>3
    <3>4. CASE column = "taxed"
      BY <2>2, <2>3, <2>5, <3>4 DEF SharedRates
    <3> QED BY <2>3, <3>1, <3>2, <3>3, <3>4 DEF Columns
  <2> QED BY <2>5, <2>6, <2>7
<1>10. SumOfAll(all) = SumOfAll(s6) + SumOfAll(un)
  <2>1. IsSumOf(all, s6, un, n)
    BY <1>9 DEF IsSumOf
  <2> QED BY <1>2, <1>8, <2>1, SumsAdd
<1>11. /\ SumOfAll(s1) \in Int /\ SumOfAll(s2) \in Int /\ SumOfAll(s3) \in Int /\ SumOfAll(s4) \in Int
       /\ SumOfAll(s5) \in Int /\ SumOfAll(s6) \in Int /\ SumOfAll(un) \in Int /\ SumOfAll(ex) \in Int
       /\ SumOfAll(net) \in Int /\ SumOfAll(a1) \in Int /\ SumOfAll(a2) \in Int /\ SumOfAll(a3) \in Int
       /\ SumOfAll(a4) \in Int /\ SumOfAll(a5) \in Int
  <2>1. ASSUME NEW f, Terms(f, n) PROVE SumOfAll(f) \in Int
    BY <2>1, SumType DEF Terms
  <2> QED BY <1>2, <1>3, <1>4, <1>5, <1>6, <1>7, <1>8, <2>1
<1>12. SumOfAll(all)
         = SumOfAll(net) + SumOfAll(a1) + SumOfAll(a2) + SumOfAll(a3) + SumOfAll(a4) + SumOfAll(a5)
           + SumOfAll(ex) + SumOfAll(un)
  BY <1>3, <1>4, <1>5, <1>6, <1>7, <1>8, <1>10, <1>11
<1> QED BY <1>1, <1>12, BookSums DEF GrossSum

\* A sum of whole cents is whole cents.
LEMMA SumOfCents ==
  ASSUME NEW n \in Nat, NEW f \in [1..n -> Nat], NEW q \in [1..n -> Nat], IsMultipleOf(f, 10, q, n)
  PROVE  WholeCents(SumOfAll(f))
<1>1. SumOfAll(q) \in Nat
  BY SumOfNaturals
<1>2. Terms(f, n) /\ Terms(q, n)
  BY DEF Terms
<1>3. SumOfAll(f) = 10 * SumOfAll(q)
  BY <1>2, SumsScale
<1> QED BY <1>1, <1>3 DEF WholeCents

LEMMA PesosAreWhole ==
  ASSUME NEW voucher, NEW n, BookFits(voucher, n), voucher.exchangeRate = LocalRate
  PROVE  /\ \A column : WholeCents(ColumnGross(voucher, column))
         /\ \A rate : WholeCents(RateGross(voucher, rate))
<1>1. n \in Nat /\ DOMAIN voucher.items = 1..n
  BY BookTerms
<1>2. ASSUME NEW i \in 1..n
      PROVE  /\ voucher.items[i].subtotal \in Nat
             /\ toPesos(voucher, voucher.items[i].subtotal) = 10 * voucher.items[i].subtotal
  BY DEF BookFits, toPesos, LocalRate
<1>3. ASSUME NEW column PROVE WholeCents(ColumnGross(voucher, column))
  <2>1. PICK f, q : /\ f = InColumn(voucher, column)
                    /\ q = [i \in 1..n |-> IF BookColumn(voucher, voucher.items[i]) = column
                                           THEN voucher.items[i].subtotal ELSE 0]
    OBVIOUS
  <2>2. f \in [1..n -> Nat] /\ q \in [1..n -> Nat]
    BY <1>2, <2>1, BookTerms
  <2>3. IsMultipleOf(f, 10, q, n)
    BY <1>1, <1>2, <2>1 DEF IsMultipleOf, InColumn
  <2>4. WholeCents(SumOfAll(f))
    BY <1>1, <2>2, <2>3, SumOfCents
  <2> QED BY <2>1, <2>4, BookSums
<1>4. ASSUME NEW rate PROVE WholeCents(RateGross(voucher, rate))
  <2>1. PICK f, q : /\ f = AtRate(voucher, rate)
                    /\ q = [i \in 1..n |-> IF BookColumn(voucher, voucher.items[i]) = "taxed"
                                              /\ voucher.items[i].ivaRate = rate
                                           THEN voucher.items[i].subtotal ELSE 0]
    OBVIOUS
  <2>2. f \in [1..n -> Nat] /\ q \in [1..n -> Nat]
    BY <1>2, <2>1, BookTerms
  <2>3. IsMultipleOf(f, 10, q, n)
    BY <1>1, <1>2, <2>1 DEF IsMultipleOf, AtRate
  <2>4. WholeCents(SumOfAll(f))
    BY <1>1, <2>2, <2>3, SumOfCents
  <2> QED BY <2>1, <2>4, BookSums
<1> QED BY <1>3, <1>4

LEMMA BooksAreSound ==
  ASSUME NEW voucher, NEW n, BookFits(voucher, n)
  PROVE  BookIsSound(voucher, voucher.exchangeRate = LocalRate)
<1>1. ColumnGross(voucher, "net") \in Nat /\ \A rate \in SharedRates : RateOfBook(voucher, rate)
  BY BookTypes
<1>2. voucher.exchangeRate = LocalRate => GrossIsWhole(voucher)
  BY PesosAreWhole DEF GrossIsWhole
<1>3. (voucher.exchangeRate = LocalRate) \in BOOLEAN
  OBVIOUS
<1> QED BY <1>1, <1>2, <1>3 DEF BookIsSound

-----------------------------------------------------------------------------
(* The entry of a voucher in the books.                                       *)

Sign(voucher) == voucherSign(voucher.voucherType)

SignedPesos(voucher, amount) == RoundHalfUp(Sign(voucher) * toPesos(voucher, amount), 10)

EntryHas(entry, voucher) ==
  /\ entry.netAmount = Sign(voucher) * ToCents(NetOfIva(voucher))
  /\ entry.exemptAmount = Sign(voucher) * ToCents(<<ColumnGross(voucher, "exempt"), 1>>)
  /\ entry.untaxedAmount = Sign(voucher) * ToCents(<<ColumnGross(voucher, "untaxed"), 1>>)
  /\ DOMAIN entry.ivaByRate = BookRates(voucher)
  /\ \A rate \in BookRates(voucher) : entry.ivaByRate[rate] = Sign(voucher) * IvaAt(voucher, rate)
  /\ entry.ivaAmount
       = SumOverRates(LAMBDA rate : IF rate \in BookRates(voucher)
                                    THEN Sign(voucher) * IvaAt(voucher, rate) ELSE 0)
  /\ entry.tributeAmount = SignedPesos(voucher, voucher.amounts.tributeAmount)
  /\ entry.totalAmount = SignedPesos(voucher, voucher.amounts.totalAmount)

LEMMA EntryOf ==
  ASSUME NEW voucher
  PROVE  EntryHas(toEntry(voucher), voucher)
<1>1. PICK taxes : taxes = breakDownVoucherTaxes(voucher)
  OBVIOUS
<1>2. /\ taxes.netAmount = ToCents(NetOfIva(voucher))
      /\ taxes.exemptAmount = ToCents(<<ColumnGross(voucher, "exempt"), 1>>)
      /\ taxes.untaxedAmount = ToCents(<<ColumnGross(voucher, "untaxed"), 1>>)
      /\ taxes.ivaByRate = [rate \in BookRates(voucher) |-> IvaAt(voucher, rate)]
  BY <1>1, Zenon DEF breakDownVoucherTaxes
<1>3. PICK byRate : byRate = [rate \in DOMAIN taxes.ivaByRate |-> Sign(voucher) * taxes.ivaByRate[rate]]
  OBVIOUS
<1>4. /\ DOMAIN byRate = BookRates(voucher)
      /\ \A rate \in BookRates(voucher) : byRate[rate] = Sign(voucher) * IvaAt(voucher, rate)
  BY <1>2, <1>3
<1>5. /\ toEntry(voucher).netAmount = Sign(voucher) * taxes.netAmount
      /\ toEntry(voucher).exemptAmount = Sign(voucher) * taxes.exemptAmount
      /\ toEntry(voucher).untaxedAmount = Sign(voucher) * taxes.untaxedAmount
      /\ toEntry(voucher).ivaByRate = byRate
      /\ toEntry(voucher).ivaAmount
           = SumOverRates(LAMBDA rate : IF rate \in DOMAIN byRate THEN byRate[rate] ELSE 0)
      /\ toEntry(voucher).tributeAmount = SignedPesos(voucher, voucher.amounts.tributeAmount)
      /\ toEntry(voucher).totalAmount = SignedPesos(voucher, voucher.amounts.totalAmount)
  <2> DEFINE over(byR) == SumOverRates(LAMBDA rate : IF rate \in DOMAIN byR THEN byR[rate] ELSE 0)
  <2>1. toEntry(voucher)
          = [netAmount |-> Sign(voucher) * taxes.netAmount,
             exemptAmount |-> Sign(voucher) * taxes.exemptAmount,
             untaxedAmount |-> Sign(voucher) * taxes.untaxedAmount,
             ivaByRate |-> byRate,
             ivaAmount |-> over(byRate),
             tributeAmount |-> SignedPesos(voucher, voucher.amounts.tributeAmount),
             totalAmount |-> SignedPesos(voucher, voucher.amounts.totalAmount)]
    BY <1>1, <1>3 DEF toEntry, Sign, SignedPesos, SumOverRates
  <2> HIDE DEF over
  <2>2. /\ toEntry(voucher).netAmount = Sign(voucher) * taxes.netAmount
        /\ toEntry(voucher).exemptAmount = Sign(voucher) * taxes.exemptAmount
        /\ toEntry(voucher).untaxedAmount = Sign(voucher) * taxes.untaxedAmount
        /\ toEntry(voucher).ivaByRate = byRate
        /\ toEntry(voucher).ivaAmount = over(byRate)
        /\ toEntry(voucher).tributeAmount = SignedPesos(voucher, voucher.amounts.tributeAmount)
        /\ toEntry(voucher).totalAmount = SignedPesos(voucher, voucher.amounts.totalAmount)
    BY <2>1
  <2> QED BY <2>2 DEF over
<1>6. ASSUME NEW rate
      PROVE  (IF rate \in DOMAIN byRate THEN byRate[rate] ELSE 0)
               = IF rate \in BookRates(voucher) THEN Sign(voucher) * IvaAt(voucher, rate) ELSE 0
  BY <1>4
<1>7. SumOverRates(LAMBDA rate : IF rate \in DOMAIN byRate THEN byRate[rate] ELSE 0)
        = SumOverRates(LAMBDA rate : IF rate \in BookRates(voucher)
                                     THEN Sign(voucher) * IvaAt(voucher, rate) ELSE 0)
  BY <1>6 DEF SumOverRates
<1> QED BY <1>2, <1>4, <1>5, <1>7, Zenon DEF EntryHas

LEMMA RowIsBooked ==
  ASSUME NEW row, RowFits(row)
  PROVE  BookFits(row, Len(row.items))
<1>1. row \in IssuedVoucherData
  BY DEF RowFits
<1>2. ItemsFit(row.items, Len(row.items))
  BY <1>1, RowItemsFit
<1>3. row.exchangeRate \in Nat \ {0}
  BY <1>1 DEF IssuedVoucherData
<1>4. row.items \in Seq(RowItems)
  BY <1>1 DEF IssuedVoucherData, RowItems
<1>5. \A i \in 1..Len(row.items) : row.items[i].subtotal \in Nat
  <2>1. \A i \in 1..Len(row.items) : row.items[i] \in RowItems
    BY <1>4, ElementOfSeq
  <2> QED BY <2>1 DEF RowItems
<1> QED BY <1>2, <1>3, <1>5 DEF BookFits

LEMMA CentsOfColumn ==
  ASSUME NEW gross \in Nat
  PROVE  /\ ToCents(<<gross, 1>>) \in Nat
         /\ -10 <= 20 * ToCents(<<gross, 1>>) - 2 * gross /\ 20 * ToCents(<<gross, 1>>) - 2 * gross <= 10
         /\ \A cents \in Nat : gross = 10 * cents => ToCents(<<gross, 1>>) = cents
<1>1. PICK d \in Nat \ {0} : d = 10
  OBVIOUS
<1>2. ToCents(<<gross, 1>>) = RoundHalfUp(gross, d)
  BY <1>1 DEF ToCents
<1>3. PICK r \in Nat : r = RoundHalfUp(gross, d)
  BY RoundingNatural
<1>4. 2 * (d * r) - 2 * gross <= d /\ -d < 2 * (d * r) - 2 * gross
  BY <1>3, RoundingError
<1>5. ASSUME NEW cents \in Nat, gross = 10 * cents PROVE r = cents
  BY <1>1, <1>3, <1>5, RoundingWhole
<1> QED BY <1>1, <1>2, <1>3, <1>4, <1>5

LEMMA BreakdownTypes ==
  ASSUME NEW voucher, NEW n, BookFits(voucher, n)
  PROVE  /\ ToCents(NetOfIva(voucher)) \in Nat
         /\ \A column : ToCents(<<ColumnGross(voucher, column), 1>>) \in Nat
         /\ \A rate \in BookRates(voucher) : IvaAt(voucher, rate) \in Nat
<1>1. PICK strict : strict = (voucher.exchangeRate = LocalRate)
  OBVIOUS
<1>2. BookIsSound(voucher, strict) /\ strict \in BOOLEAN
  BY <1>1, BooksAreSound
<1>3. /\ Chain(NetOfIva(voucher), IvaSum(voucher), GrossSum(voucher), RateCount(voucher), strict)
      /\ \A rate \in SharedRates : IvaIf(voucher, rate) \in Nat
  BY <1>2, ChainOfBook
<1>4. ToCents(NetOfIva(voucher)) \in Nat
  BY <1>2, <1>3, NetAndIva
<1>5. \A column : ToCents(<<ColumnGross(voucher, column), 1>>) \in Nat
  BY BookTypes, CentsOfColumn
<1>6. \A rate \in BookRates(voucher) : IvaAt(voucher, rate) \in Nat
  BY <1>3, BookTypes DEF IvaIf
<1> QED BY <1>4, <1>5, <1>6

-----------------------------------------------------------------------------
(* A voucher and the note that repeats its items.                             *)

SameBook(voucher, other) ==
  /\ voucherLetter(voucher.voucherType) = voucherLetter(other.voucherType)
  /\ voucher.exchangeRate = other.exchangeRate
  /\ voucher.items = other.items

LEMMA SameBookSameBreakdown ==
  ASSUME NEW voucher, NEW other, SameBook(voucher, other)
  PROVE  /\ BookRates(voucher) = BookRates(other)
         /\ NetOfIva(voucher) = NetOfIva(other)
         /\ \A column : ColumnGross(voucher, column) = ColumnGross(other, column)
         /\ \A rate : IvaAt(voucher, rate) = IvaAt(other, rate)
<1>1. voucher.items = other.items
  BY DEF SameBook
<1>2. /\ \A item : BookColumn(voucher, item) = BookColumn(other, item)
      /\ \A amount : toPesos(voucher, amount) = toPesos(other, amount)
  BY DEF SameBook, BookColumn, bearsIva, toPesos
<1>3. BookRates(voucher) = BookRates(other)
  BY <1>1, <1>2 DEF BookRates
<1>4. \A column : ColumnGross(voucher, column) = ColumnGross(other, column)
  <2>1. \A column : InColumn(voucher, column) = InColumn(other, column)
    BY <1>1, <1>2 DEF InColumn
  <2> QED BY <2>1, BookSums
<1>5. \A rate : RateGross(voucher, rate) = RateGross(other, rate)
  <2>1. \A rate : AtRate(voucher, rate) = AtRate(other, rate)
    BY <1>1, <1>2 DEF AtRate
  <2> QED BY <2>1, BookSums
<1>6. \A f, rate : PlusBase(f, voucher, rate) = PlusBase(f, other, rate)
  BY <1>3, <1>5 DEF PlusBase
<1>7. NetOfIva(voucher) = NetOfIva(other)
  BY <1>4, <1>6 DEF NetOfIva
<1>8. \A rate : IvaAt(voucher, rate) = IvaAt(other, rate)
  BY <1>5 DEF IvaAt
<1> QED BY <1>3, <1>4, <1>7, <1>8

\* The total of a row is what its items come to, and the tributes.
LEMMA TotalOfRow ==
  ASSUME NEW row, RowFits(row)
  PROVE  /\ WholeSold(row.items) \in Nat /\ row.amounts.tributeAmount \in Nat
         /\ row.amounts.totalAmount = WholeSold(row.items) + row.amounts.tributeAmount
<1>1. row \in IssuedVoucherData /\ AmountsFit(row)
  BY DEF RowFits
<1>2. ItemsFit(row.items, Len(row.items))
  BY <1>1, RowItemsFit
<1>3. WholeSold(row.items) \in Nat
  BY <1>2, GroupsTie
<1>4. row.amounts.tributeAmount \in Nat
  BY <1>1 DEF IssuedVoucherData, VoucherAmounts
<1>5. calculateAmounts(row.voucherType, row.items, <<>>).totalAmount = WholeSold(row.items) + 0
  BY EmptyTributes DEF calculateAmounts, WholeSold
<1> QED BY <1>1, <1>3, <1>4, <1>5 DEF AmountsFit

LEMMA HalfCents ==
  ASSUME NEW w \in Nat, NEW t \in Nat, NEW ex \in Nat
  PROVE  Distance(RoundHalfUp(1 * ((w + t) * ex), 10) - RoundHalfUp(1 * (t * ex), 10)
                    + RoundHalfUp((-1) * (w * ex), 10), 0) <= 1
<1>1. PICK x \in Nat, y \in Nat, d \in Nat \ {0} : x = w * ex /\ y = t * ex /\ d = 10
  OBVIOUS
<1>2. (w + t) * ex = x + y
  BY <1>1
<1>3. PICK a \in Int, b \in Int, z \in Int : a = x + y /\ b = y /\ z = -x
  BY <1>1
<1>4. PICK p \in Int, q \in Int, r \in Int :
        p = RoundHalfUp(a, d) /\ q = RoundHalfUp(b, d) /\ r = RoundHalfUp(z, d)
  BY RoundingError
<1>5. /\ 2 * (d * p) - 2 * a <= d /\ -d < 2 * (d * p) - 2 * a
      /\ 2 * (d * q) - 2 * b <= d /\ -d < 2 * (d * q) - 2 * b
      /\ 2 * (d * r) - 2 * z <= d /\ -d < 2 * (d * r) - 2 * z
  BY <1>4, RoundingError
<1>6. p - q + r <= 1 /\ -1 <= p - q + r
  BY <1>1, <1>3, <1>5
<1>7. 1 * ((w + t) * ex) = a /\ 1 * (t * ex) = b /\ (-1) * (w * ex) = z
  BY <1>1, <1>2, <1>3
<1>8. Distance(p - q + r, 0) <= 1
  BY <1>6 DEF Distance
<1> QED BY <1>1, <1>4, <1>7, <1>8

LEMMA NotesCancel ==
  ASSUME NEW note, NEW voucher, RowFits(note), RowFits(voucher), NoteCancelling(note, voucher)
  PROVE  CancelEachOther(toEntry(voucher), toEntry(note))
<1>1. note.voucherType # NoType
  <2>1. note.voucherType \in VoucherTypeIds
    BY DEF RowFits, IssuedVoucherData
  <2>2. NoType \notin VoucherTypeIds
    BY DEF NoType, VoucherTypeIds, VoucherType
  <2> QED BY <2>1, <2>2
<1>2. NoteFor(note.voucherType, voucher.voucherType)
  BY <1>1, NoteOf DEF NoteCancelling
<1>3. Sign(voucher) = 1 /\ Sign(note) = -1
  BY <1>2 DEF NoteFor, Sign, voucherSign
<1>4. SameBook(voucher, note)
  BY <1>2 DEF NoteFor, SameBook, NoteCancelling
<1>5. BookFits(voucher, Len(voucher.items))
  BY RowIsBooked
<1>6. PICK sale, cancelled : sale = toEntry(voucher) /\ cancelled = toEntry(note)
  OBVIOUS
<1>7. EntryHas(sale, voucher) /\ EntryHas(cancelled, note)
  BY <1>6, EntryOf
<1>8. \A x \in Nat : 1 * x + (-1) * x = 0
  OBVIOUS
<1>9. sale.netAmount + cancelled.netAmount = 0
  <2>1. PICK x \in Nat : x = ToCents(NetOfIva(voucher))
    BY <1>5, BreakdownTypes
  <2>2. sale.netAmount = 1 * x /\ cancelled.netAmount = (-1) * x
    BY <1>3, <1>4, <1>7, <2>1, SameBookSameBreakdown DEF EntryHas
  <2> QED BY <1>8, <2>2
<1>10. sale.exemptAmount + cancelled.exemptAmount = 0
  <2>1. PICK x \in Nat : x = ToCents(<<ColumnGross(voucher, "exempt"), 1>>)
    BY <1>5, BreakdownTypes
  <2>2. sale.exemptAmount = 1 * x /\ cancelled.exemptAmount = (-1) * x
    BY <1>3, <1>4, <1>7, <2>1, SameBookSameBreakdown DEF EntryHas
  <2> QED BY <1>8, <2>2
<1>11. sale.untaxedAmount + cancelled.untaxedAmount = 0
  <2>1. PICK x \in Nat : x = ToCents(<<ColumnGross(voucher, "untaxed"), 1>>)
    BY <1>5, BreakdownTypes
  <2>2. sale.untaxedAmount = 1 * x /\ cancelled.untaxedAmount = (-1) * x
    BY <1>3, <1>4, <1>7, <2>1, SameBookSameBreakdown DEF EntryHas
  <2> QED BY <1>8, <2>2
<1>12. DOMAIN sale.ivaByRate = BookRates(voucher) /\ DOMAIN cancelled.ivaByRate = BookRates(voucher)
  BY <1>4, <1>7, SameBookSameBreakdown DEF EntryHas
<1>13. ASSUME NEW rate \in BookRates(voucher)
       PROVE  sale.ivaByRate[rate] + cancelled.ivaByRate[rate] = 0
  <2>1. PICK x \in Nat : x = IvaAt(voucher, rate)
    BY <1>5, BreakdownTypes
  <2>2. sale.ivaByRate[rate] = 1 * x
    BY <1>3, <1>7, <2>1 DEF EntryHas
  <2>3. rate \in BookRates(note) /\ IvaAt(note, rate) = x
    BY <1>4, <2>1, SameBookSameBreakdown
  <2>4. cancelled.ivaByRate[rate] = Sign(note) * IvaAt(note, rate)
    BY <1>7, <2>3 DEF EntryHas
  <2> QED BY <1>3, <1>8, <2>2, <2>3, <2>4
<1>14. Distance(sale.totalAmount - sale.tributeAmount + cancelled.totalAmount, 0) <= 1
  <2>1. PICK w \in Nat, t \in Nat, ex \in Nat :
          w = WholeSold(voucher.items) /\ t = voucher.amounts.tributeAmount /\ ex = voucher.exchangeRate
    BY TotalOfRow DEF RowFits, IssuedVoucherData
  <2>2. voucher.amounts.totalAmount = w + t
    BY <2>1, TotalOfRow
  <2>3. note.amounts.totalAmount = w /\ note.exchangeRate = ex
    <3>1. note.amounts.totalAmount = WholeSold(voucher.items) + 0
      BY TotalOfRow DEF NoteCancelling
    <3> QED BY <2>1, <3>1 DEF NoteCancelling
  <2>4. /\ sale.totalAmount = RoundHalfUp(1 * ((w + t) * ex), 10)
        /\ sale.tributeAmount = RoundHalfUp(1 * (t * ex), 10)
        /\ cancelled.totalAmount = RoundHalfUp((-1) * (w * ex), 10)
    BY <1>3, <1>7, <2>1, <2>2, <2>3 DEF EntryHas, SignedPesos, toPesos
  <2> QED BY <2>1, <2>4, HalfCents
<1> QED BY <1>6, <1>9, <1>10, <1>11, <1>12, <1>13, <1>14 DEF CancelEachOther

\* A voucher and its note leave nothing but the tributes in the sales book.
THEOREM NotesCancelTheirVouchers == Spec => []NoteCancels
<1>1. DocumentsInv => NoteCancels
  BY NotesCancel DEF DocumentsInv, RowsInv, NoteCancels
<1> QED BY <1>1, DocumentsHold, PTL

-----------------------------------------------------------------------------
(* The IVA of a month: of the position, of the book and of its CSV.           *)

\* What a voucher adds to a rate's IVA, with its sign.
IvaTerm(voucher, rate) ==
  IF rate \in BookRates(voucher) THEN Sign(voucher) * IvaAt(voucher, rate) ELSE 0

IvaTerms(month, rate) ==
  [i \in DOMAIN vouchers |-> IF i \in VouchersOf(month) THEN IvaTerm(vouchers[i], rate) ELSE 0]

IvaEntries(month) ==
  [i \in DOMAIN vouchers |-> IF i \in VouchersOf(month) THEN toEntry(vouchers[i]).ivaAmount ELSE 0]

LEMMA EntriesOfBook ==
  ASSUME NEW month
  PROVE  /\ DOMAIN buildSalesBook(month).entries = VouchersOf(month)
         /\ \A i \in VouchersOf(month) : buildSalesBook(month).entries[i] = toEntry(vouchers[i])
BY DEF buildSalesBook

LEMMA IvaOfBook ==
  ASSUME NEW month
  PROVE  buildSalesBook(month).totals.ivaAmount = SumOfAll(IvaEntries(month))
<1>1. PICK entries : entries = [i \in VouchersOf(month) |-> toEntry(vouchers[i])]
  OBVIOUS
<1>2. buildSalesBook(month).totals.ivaAmount = sumEntries(entries, LAMBDA e : e.ivaAmount)
  BY <1>1 DEF buildSalesBook
<1>3. sumEntries(entries, LAMBDA e : e.ivaAmount) = SumOfAll(IvaEntries(month))
  BY <1>1 DEF sumEntries, IvaEntries
<1> QED BY <1>2, <1>3

LEMMA IvaOfPosition ==
  ASSUME NEW month, NEW rate
  PROVE  DebitOf(month, rate) = SumOfAll(IvaTerms(month, rate))
<1>1. \A i : /\ DOMAIN breakDownVoucherTaxes(vouchers[i]).ivaByRate = BookRates(vouchers[i])
             /\ \A r \in BookRates(vouchers[i]) :
                  breakDownVoucherTaxes(vouchers[i]).ivaByRate[r] = IvaAt(vouchers[i], r)
  BY DEF breakDownVoucherTaxes
<1>2. PICK terms : terms = [i \in DOMAIN vouchers |->
        LET byRate == breakDownVoucherTaxes(vouchers[i]).ivaByRate
        IN IF i \in VouchersOf(month) /\ rate \in DOMAIN byRate
           THEN voucherSign(vouchers[i].voucherType) * byRate[rate] ELSE 0]
  OBVIOUS
<1>3. DebitOf(month, rate) = SumOfAll(terms)
  BY <1>2 DEF DebitOf
<1>4. terms = IvaTerms(month, rate)
  BY <1>1, <1>2 DEF IvaTerms, IvaTerm, Sign
<1> QED BY <1>3, <1>4

LEMMA IvaOfColumn ==
  ASSUME NEW month, NEW rate \in taxedRates
  PROVE  CsvIvaTotals(buildSalesBook(month))[rate] = SumOfAll(IvaTerms(month, rate))
<1>1. PICK entries : entries = buildSalesBook(month).entries
  OBVIOUS
<1>2. CsvIvaTotals(buildSalesBook(month))[rate] = sumEntries(entries, LAMBDA e : ivaForRate(e, rate))
  BY <1>1 DEF CsvIvaTotals
<1>3. ASSUME NEW i \in DOMAIN vouchers
      PROVE  (IF i \in DOMAIN entries THEN ivaForRate(entries[i], rate) ELSE 0)
               = IF i \in VouchersOf(month) THEN IvaTerm(vouchers[i], rate) ELSE 0
  <2>1. DOMAIN entries = VouchersOf(month) /\ (i \in VouchersOf(month) => entries[i] = toEntry(vouchers[i]))
    BY <1>1, EntriesOfBook
  <2>2. ivaForRate(toEntry(vouchers[i]), rate) = IvaTerm(vouchers[i], rate)
    BY EntryOf DEF EntryHas, ivaForRate, IvaTerm
  <2> QED BY <2>1, <2>2
<1>4. sumEntries(entries, LAMBDA e : ivaForRate(e, rate)) = SumOfAll(IvaTerms(month, rate))
  BY <1>3 DEF sumEntries, IvaTerms
<1> QED BY <1>2, <1>4

LEMMA IvaTermTypes ==
  ASSUME RowsInv, NEW month
  PROVE  /\ \A rate : Terms(IvaTerms(month, rate), Len(vouchers))
         /\ SumOfAll(IvaTerms(month, 0)) = 0
         /\ Terms(IvaEntries(month), Len(vouchers))
         /\ \A i \in 1..Len(vouchers) :
              IvaEntries(month)[i] = SumOverRates(LAMBDA rate : IvaTerms(month, rate)[i])
<1>1. DOMAIN vouchers = 1..Len(vouchers) /\ Len(vouchers) \in Nat
  BY LenProperties DEF RowsInv
<1>2. ASSUME NEW i \in 1..Len(vouchers)
      PROVE  /\ \A rate : IvaTerm(vouchers[i], rate) \in Int
             /\ IvaTerm(vouchers[i], 0) = 0
             /\ toEntry(vouchers[i]).ivaAmount = SumOverRates(LAMBDA rate : IvaTerm(vouchers[i], rate))
  <2>1. BookFits(vouchers[i], Len(vouchers[i].items))
    BY <1>1, RowIsBooked DEF RowsInv
  <2>2. Sign(vouchers[i]) \in Int
    BY DEF Sign, voucherSign
  <2>3. ASSUME NEW rate PROVE IvaTerm(vouchers[i], rate) \in Int
    <3>1. rate \in BookRates(vouchers[i]) => IvaAt(vouchers[i], rate) \in Nat
      BY <2>1, BreakdownTypes
    <3> QED BY <2>2, <3>1 DEF IvaTerm
  <2>4. IvaTerm(vouchers[i], 0) = 0
    <3>1. 0 \notin BookRates(vouchers[i])
      BY <2>1, BookTypes DEF SharedRates
    <3> QED BY <3>1 DEF IvaTerm
  <2>5. toEntry(vouchers[i]).ivaAmount = SumOverRates(LAMBDA rate : IvaTerm(vouchers[i], rate))
    <3>1. EntryHas(toEntry(vouchers[i]), vouchers[i])
      BY EntryOf
    <3> QED BY <3>1 DEF EntryHas, IvaTerm
  <2> QED BY <2>3, <2>4, <2>5
<1>3. ASSUME NEW rate PROVE Terms(IvaTerms(month, rate), Len(vouchers))
  BY <1>1, <1>2 DEF Terms, IvaTerms
<1>4. SumOfAll(IvaTerms(month, 0)) = 0
  <2>1. PICK n, b, f : n = Len(vouchers) /\ b = 0 /\ f = IvaTerms(month, 0)
    OBVIOUS
  <2>2. f \in [1..n -> Int] /\ n \in Nat /\ b \in Nat
    BY <1>1, <1>3, <2>1 DEF Terms
  <2>3. \A i \in 1..n : -b <= f[i] /\ f[i] <= b
    <3>1. ASSUME NEW i \in 1..n PROVE f[i] = 0
      <4>1. i \in 1..Len(vouchers) /\ i \in DOMAIN vouchers
        BY <1>1, <2>1
      <4>2. IvaTerm(vouchers[i], 0) = 0
        BY <1>2, <4>1
      <4> QED BY <2>1, <4>1, <4>2 DEF IvaTerms
    <3> QED BY <2>1, <3>1
  <2>4. -(n * b) <= SumOfAll(f) /\ SumOfAll(f) <= n * b
    BY <2>2, <2>3, SumIsBounded
  <2>5. n * b = 0 /\ SumOfAll(f) \in Int
    BY <2>1, <2>2, SumType
  <2> QED BY <2>1, <2>4, <2>5
<1>5. ASSUME NEW i \in 1..Len(vouchers)
      PROVE  /\ IvaEntries(month)[i] = SumOverRates(LAMBDA rate : IvaTerms(month, rate)[i])
             /\ IvaEntries(month)[i] \in Int
  <2>1. CASE i \in VouchersOf(month)
    <3>1. /\ IvaEntries(month)[i] = toEntry(vouchers[i]).ivaAmount
          /\ \A rate : IvaTerms(month, rate)[i] = IvaTerm(vouchers[i], rate)
      BY <1>1, <2>1 DEF IvaEntries, IvaTerms
    <3>2. toEntry(vouchers[i]).ivaAmount = SumOverRates(LAMBDA rate : IvaTerms(month, rate)[i])
      BY <1>2, <3>1 DEF SumOverRates
    <3>3. toEntry(vouchers[i]).ivaAmount \in Int
      <4>1. PICK x0, x1, x2, x3, x4, x5 :
              /\ x0 = IvaTerm(vouchers[i], 0) /\ x1 = IvaTerm(vouchers[i], 25)
              /\ x2 = IvaTerm(vouchers[i], 50) /\ x3 = IvaTerm(vouchers[i], 105)
              /\ x4 = IvaTerm(vouchers[i], 210) /\ x5 = IvaTerm(vouchers[i], 270)
        OBVIOUS
      <4>2. toEntry(vouchers[i]).ivaAmount = x0 + x1 + x2 + x3 + x4 + x5
        BY <1>2, <4>1 DEF SumOverRates
      <4>3. \A rate : IvaTerm(vouchers[i], rate) \in Int
        BY <1>2
      <4>4. x0 \in Int /\ x1 \in Int /\ x2 \in Int /\ x3 \in Int /\ x4 \in Int /\ x5 \in Int
        BY <4>1, <4>3
      <4> QED BY <4>2, <4>4
    <3> QED BY <3>1, <3>2, <3>3
  <2>2. CASE i \notin VouchersOf(month)
    BY <1>1, <2>2 DEF IvaEntries, IvaTerms, SumOverRates
  <2> QED BY <2>1, <2>2
<1>6. Terms(IvaEntries(month), Len(vouchers))
  BY <1>1, <1>5 DEF Terms, IvaEntries
<1> QED BY <1>3, <1>4, <1>5, <1>6

\* The three reports of a month add up the same IVA.
LEMMA IvaIsOneStory ==
  ASSUME RowsInv, NEW month
  PROVE  /\ getMonthlyPosition(month).totalDebit = buildSalesBook(month).totals.ivaAmount
         /\ SumOverRates(LAMBDA rate : IF rate \in taxedRates
                                       THEN CsvIvaTotals(buildSalesBook(month))[rate] ELSE 0)
              = buildSalesBook(month).totals.ivaAmount
<1>1. PICK a0, a1, a2, a3, a4, a5, all, n :
        /\ a0 = IvaTerms(month, 0) /\ a1 = IvaTerms(month, 25) /\ a2 = IvaTerms(month, 50)
        /\ a3 = IvaTerms(month, 105) /\ a4 = IvaTerms(month, 210) /\ a5 = IvaTerms(month, 270)
        /\ all = IvaEntries(month) /\ n = Len(vouchers)
  OBVIOUS
<1>2. /\ Terms(a0, n) /\ Terms(a1, n) /\ Terms(a2, n) /\ Terms(a3, n) /\ Terms(a4, n) /\ Terms(a5, n)
      /\ Terms(all, n)
  BY ZenonT(40), <1>1, IvaTermTypes
<1>3. PICK s1 : Terms(s1, n) /\ IsSumOf(s1, a0, a1, n) /\ SumOfAll(s1) = SumOfAll(a0) + SumOfAll(a1)
  BY <1>2, SumOfBoth
<1>4. PICK s2 : Terms(s2, n) /\ IsSumOf(s2, s1, a2, n) /\ SumOfAll(s2) = SumOfAll(s1) + SumOfAll(a2)
  BY <1>2, <1>3, SumOfBoth
<1>5. PICK s3 : Terms(s3, n) /\ IsSumOf(s3, s2, a3, n) /\ SumOfAll(s3) = SumOfAll(s2) + SumOfAll(a3)
  BY <1>2, <1>4, SumOfBoth
<1>6. PICK s4 : Terms(s4, n) /\ IsSumOf(s4, s3, a4, n) /\ SumOfAll(s4) = SumOfAll(s3) + SumOfAll(a4)
  BY <1>2, <1>5, SumOfBoth
<1>7. IsSumOf(all, s4, a5, n)
  <2>1. ASSUME NEW i \in 1..n PROVE all[i] = s4[i] + a5[i]
    <3>1. all[i] = a0[i] + a1[i] + a2[i] + a3[i] + a4[i] + a5[i]
      BY <1>1, IvaTermTypes DEF SumOverRates
    <3>2. s1[i] = a0[i] + a1[i] /\ s2[i] = s1[i] + a2[i] /\ s3[i] = s2[i] + a3[i] /\ s4[i] = s3[i] + a4[i]
      BY <1>3, <1>4, <1>5, <1>6, Zenon DEF IsSumOf
    <3> QED BY <3>1, <3>2
  <2> QED BY <2>1 DEF IsSumOf
<1>8. SumOfAll(all) = SumOfAll(s4) + SumOfAll(a5)
  BY <1>2, <1>6, <1>7, SumsAdd
<1>9. SumOfAll(all)
        = SumOfAll(a0) + SumOfAll(a1) + SumOfAll(a2) + SumOfAll(a3) + SumOfAll(a4) + SumOfAll(a5)
  BY <1>3, <1>4, <1>5, <1>6, <1>8
<1>10. SumOfAll(a0) = 0
  BY <1>1, IvaTermTypes
<1>11. buildSalesBook(month).totals.ivaAmount = SumOfAll(all)
  BY <1>1, IvaOfBook
<1>12. getMonthlyPosition(month).totalDebit = SumOfAll(all)
  <2>1. getMonthlyPosition(month).totalDebit = SumOverRates(LAMBDA rate : DebitOf(month, rate))
    BY DEF getMonthlyPosition
  <2>2. SumOverRates(LAMBDA rate : DebitOf(month, rate))
          = SumOfAll(a0) + SumOfAll(a1) + SumOfAll(a2) + SumOfAll(a3) + SumOfAll(a4) + SumOfAll(a5)
    BY <1>1, IvaOfPosition DEF SumOverRates
  <2> QED BY <1>9, <2>1, <2>2
<1>13. SumOverRates(LAMBDA rate : IF rate \in taxedRates
                                  THEN CsvIvaTotals(buildSalesBook(month))[rate] ELSE 0)
         = SumOfAll(all)
  <2>1. 0 \notin taxedRates /\ 25 \in taxedRates /\ 50 \in taxedRates /\ 105 \in taxedRates
        /\ 210 \in taxedRates /\ 270 \in taxedRates
    BY DEF taxedRates, ivaRates
  <2> DEFINE column == CsvIvaTotals(buildSalesBook(month))
  <2>3. /\ column[25] = SumOfAll(a1) /\ column[50] = SumOfAll(a2) /\ column[105] = SumOfAll(a3)
        /\ column[210] = SumOfAll(a4) /\ column[270] = SumOfAll(a5)
    BY <1>1, <2>1, IvaOfColumn
  <2>4. SumOverRates(LAMBDA rate : IF rate \in taxedRates THEN column[rate] ELSE 0)
          = 0 + SumOfAll(a1) + SumOfAll(a2) + SumOfAll(a3) + SumOfAll(a4) + SumOfAll(a5)
    BY <2>1, <2>3 DEF SumOverRates
  <2>5. SumOfAll(all)
          = 0 + SumOfAll(a1) + SumOfAll(a2) + SumOfAll(a3) + SumOfAll(a4) + SumOfAll(a5)
    BY <1>9, <1>10
  <2> QED BY <2>4, <2>5
<1> QED BY <1>11, <1>12, <1>13

-----------------------------------------------------------------------------
(* An entry adds up to its total.                                             *)

Subtotals(items) == [i \in DOMAIN items |-> items[i].subtotal]

SubtotalsFit(items, n) ==
  /\ ItemsFit(items, n)
  /\ \A i \in 1..n : items[i].subtotal = RoundHalfUp(grossOf(items[i]), Unit)

\* A rounded subtotal is half a cent off at most, and exact for whole units.
LEMMA SubtotalOfItem ==
  ASSUME NEW items, NEW n, SubtotalsFit(items, n), NEW i \in 1..n
  PROVE  /\ items[i].subtotal \in Nat /\ grossOf(items[i]) \in Nat
         /\ 2000 * items[i].subtotal - 2 * grossOf(items[i]) <= 1000
         /\ -1000 <= 2000 * items[i].subtotal - 2 * grossOf(items[i])
         /\ ItemsAreWhole(items) => 2000 * items[i].subtotal - 2 * grossOf(items[i]) = 0
<1>1. ItemsFit(items, n)
  BY DEF SubtotalsFit
<1>2. PICK g \in Nat : g = grossOf(items[i])
  <2>1. ItemFits(items[i])
    BY <1>1 DEF ItemsFit
  <2>2. grossOf(items[i]) \in Nat
    BY <2>1 DEF ItemFits, grossOf
  <2> QED BY <2>2
<1>3. PICK d \in Nat \ {0} : d = Unit /\ d = 1000
  BY DEF Unit
<1>4. PICK r \in Nat : r = RoundHalfUp(g, d)
  BY RoundingNatural
<1>5. items[i].subtotal = r
  BY <1>2, <1>3, <1>4 DEF SubtotalsFit
<1>6. 2 * (d * r) - 2 * g <= d /\ -d < 2 * (d * r) - 2 * g
  BY <1>4, RoundingError
<1>7. ASSUME ItemsAreWhole(items) PROVE 2000 * r - 2 * g = 0
  <2>1. g % 1000 = 0
    BY <1>1, <1>2, <1>7, WholeGross
  <2>2. PICK q \in Int : q = g \div 1000
    OBVIOUS
  <2>3. g = d * q
    BY <1>3, <2>1, <2>2
  <2>4. r = q
    BY <1>4, <2>3, RoundingWhole
  <2> QED BY <1>3, <2>3, <2>4
<1> QED BY <1>2, <1>3, <1>4, <1>5, <1>6, <1>7

\* The subtotals against the total: half a cent per item, and for the total.
SubtotalsNear(items, n, sub, w) ==
  /\ sub = SumOfAll(Subtotals(items)) /\ sub \in Nat /\ w = WholeSold(items) /\ w \in Nat
  /\ 2 * (sub - w) <= n + 1 /\ -(n + 1) <= 2 * (sub - w)
  /\ ItemsAreWhole(items) => sub = w

LEMMA SubtotalsTie ==
  ASSUME NEW items, NEW n, SubtotalsFit(items, n)
  PROVE  \E sub, w : SubtotalsNear(items, n, sub, w)
<1>1. ItemsFit(items, n) /\ n \in Nat /\ DOMAIN items = 1..n
  BY DEF SubtotalsFit, ItemsFit
<1>2. PICK f, g, a, b, off :
        /\ f = Subtotals(items) /\ g = Gross(items)
        /\ a = [i \in 1..n |-> 2000 * items[i].subtotal]
        /\ b = [i \in 1..n |-> (-2) * grossOf(items[i])]
        /\ off = [i \in 1..n |-> 2000 * items[i].subtotal - 2 * grossOf(items[i])]
  OBVIOUS
<1>3. ASSUME NEW i \in 1..n
      PROVE  /\ items[i].subtotal \in Nat /\ grossOf(items[i]) \in Nat
             /\ f[i] = items[i].subtotal /\ g[i] = grossOf(items[i])
  <2>1. items[i].subtotal \in Nat /\ grossOf(items[i]) \in Nat
    BY SubtotalOfItem
  <2>2. f[i] = items[i].subtotal /\ g[i] = grossOf(items[i])
    BY <1>1, <1>2 DEF Subtotals, Gross
  <2> QED BY <2>1, <2>2
<1>4. f \in [1..n -> Nat] /\ g \in [1..n -> Nat]
  BY <1>1, <1>2, <1>3 DEF Subtotals, Gross
<1>5. Terms(f, n) /\ Terms(g, n) /\ Terms(a, n) /\ Terms(b, n) /\ Terms(off, n)
  <2>1. Terms(f, n) /\ Terms(g, n)
    BY <1>1, <1>4 DEF Terms
  <2>2. Terms(a, n)
    BY <1>1, <1>2, <1>3 DEF Terms
  <2>3. Terms(b, n)
    <3>1. \A i \in 1..n : (-2) * grossOf(items[i]) \in Int
      BY <1>3
    <3> QED BY <1>1, <1>2, <3>1 DEF Terms
  <2>4. Terms(off, n)
    <3>1. \A i \in 1..n : 2000 * items[i].subtotal - 2 * grossOf(items[i]) \in Int
      BY <1>3
    <3> QED BY <1>1, <1>2, <3>1 DEF Terms
  <2> QED BY <2>1, <2>2, <2>3, <2>4
<1>6. PICK sub \in Nat, x \in Nat : sub = SumOfAll(f) /\ x = SumOfAll(g)
  BY <1>1, <1>4, SumOfNaturals
<1>7. SumOfAll(a) = 2000 * sub
  <2>1. IsMultipleOf(a, 2000, f, n)
    BY <1>2, <1>3 DEF IsMultipleOf
  <2> QED BY <1>5, <1>6, <2>1, SumsScale
<1>8. SumOfAll(b) = (-2) * x
  <2>1. IsMultipleOf(b, -2, g, n)
    BY <1>2, <1>3 DEF IsMultipleOf
  <2>2. -2 \in Int
    OBVIOUS
  <2> QED BY <1>5, <1>6, <2>1, <2>2, SumsScale
<1>9. SumOfAll(off) = 2000 * sub - 2 * x
  <2>1. IsSumOf(off, a, b, n)
    BY <1>2, <1>3 DEF IsSumOf
  <2>2. SumOfAll(off) = SumOfAll(a) + SumOfAll(b)
    BY <1>5, <2>1, SumsAdd
  <2> QED BY <1>7, <1>8, <2>2
<1>10. 2000 * sub - 2 * x <= 1000 * n /\ -(1000 * n) <= 2000 * sub - 2 * x
  <2>1. PICK c \in Nat : c = 1000
    OBVIOUS
  <2>2. \A i \in 1..n : -c <= off[i] /\ off[i] <= c
    BY <1>2, <2>1, SubtotalOfItem
  <2>3. off \in [1..n -> Int]
    BY <1>5 DEF Terms
  <2>4. -(n * c) <= SumOfAll(off) /\ SumOfAll(off) <= n * c
    BY <1>1, <2>2, <2>3, SumIsBounded
  <2> QED BY <1>1, <1>9, <2>1, <2>4
<1>11. PICK d \in Nat \ {0} : d = Unit /\ d = 1000
  BY DEF Unit
<1>12. PICK w \in Nat : w = RoundHalfUp(x, d)
  BY RoundingNatural
<1>13. w = WholeSold(items)
  BY <1>2, <1>6, <1>11, <1>12, GrossSums DEF WholeSold
<1>14. 2 * (d * w) - 2 * x <= d /\ -d < 2 * (d * w) - 2 * x
  BY <1>12, RoundingError
<1>15. 2 * (sub - w) <= n + 1 /\ -(n + 1) <= 2 * (sub - w)
  BY <1>1, <1>10, <1>11, <1>14
<1>16. ASSUME ItemsAreWhole(items) PROVE sub = w
  <2>1. PICK c \in Nat : c = 0
    OBVIOUS
  <2>2. \A i \in 1..n : -c <= off[i] /\ off[i] <= c
    BY <1>2, <1>16, <2>1, SubtotalOfItem
  <2>3. off \in [1..n -> Int]
    BY <1>5 DEF Terms
  <2>4. -(n * c) <= SumOfAll(off) /\ SumOfAll(off) <= n * c
    BY <1>1, <2>2, <2>3, SumIsBounded
  <2>5. 2000 * sub = 2 * x
    BY <1>1, <1>9, <2>1, <2>4
  <2>6. 1000 * w = x
    BY <1>1, <1>2, <1>6, <1>13, <1>16, WholeGroups, GrossSums DEF WholeSold
  <2> QED BY <2>5, <2>6
<1>17. SubtotalsNear(items, n, sub, w)
  BY <1>2, <1>6, <1>12, <1>13, <1>15, <1>16 DEF SubtotalsNear
<1> QED BY <1>17

LEMMA PesosOfSubtotals ==
  ASSUME NEW voucher, NEW n, BookFits(voucher, n)
  PROVE  SumOfAll(InPesos(voucher)) = voucher.exchangeRate * SumOfAll(Subtotals(voucher.items))
<1>1. n \in Nat /\ DOMAIN voucher.items = 1..n /\ InPesos(voucher) \in [1..n -> Nat]
  BY BookTerms
<1>2. PICK ex \in Nat : ex = voucher.exchangeRate
  BY DEF BookFits
<1>3. ASSUME NEW i \in 1..n PROVE voucher.items[i].subtotal \in Nat
  BY DEF BookFits
<1>4. Terms(InPesos(voucher), n)
  BY <1>1 DEF Terms
<1>5. Terms(Subtotals(voucher.items), n)
  BY <1>1, <1>3 DEF Terms, Subtotals
<1>6. IsMultipleOf(InPesos(voucher), ex, Subtotals(voucher.items), n)
  BY <1>1, <1>2, <1>3 DEF IsMultipleOf, InPesos, Subtotals, toPesos
<1> QED BY <1>2, <1>4, <1>5, <1>6, SumsScale

\* The arithmetic of an entry: what it adds up to and its total are rounded
\* from the same pesos.  net to untaxed are cents, gross to unbearing tenths of
\* them, sub and w the subtotals and their total, ex the exchange rate.
Sums(parts, gross, pesos, k) ==
  /\ parts \in Nat /\ gross \in Nat /\ pesos \in Nat /\ k \in Nat
  /\ -(10 * k) <= 20 * parts - 2 * gross /\ 20 * parts - 2 * gross <= 10 * k
  /\ gross = pesos

SignedCents(sign, amount, cents) ==
  /\ cents = RoundHalfUp(sign * amount, 10) /\ cents \in Int
  /\ 20 * cents - 2 * (sign * amount) <= 10 /\ -10 <= 20 * cents - 2 * (sign * amount)

LEMMA SignedIsRounded ==
  ASSUME NEW sign \in {1, -1}, NEW amount \in Nat
  PROVE  \E cents : /\ SignedCents(sign, amount, cents)
                    /\ \A whole \in Nat : amount = 10 * whole => cents = sign * whole
<1>1. PICK x \in Int, d \in Nat \ {0} : x = sign * amount /\ d = 10
  OBVIOUS
<1>2. PICK r \in Int : r = RoundHalfUp(x, d)
  BY RoundingError
<1>3. 2 * (d * r) - 2 * x <= d /\ -d < 2 * (d * r) - 2 * x
  BY <1>2, RoundingError
<1>4. SignedCents(sign, amount, r)
  BY <1>1, <1>2, <1>3 DEF SignedCents
<1>5. ASSUME NEW whole \in Nat, amount = 10 * whole PROVE r = sign * whole
  <2>1. PICK q \in Int : q = sign * whole
    OBVIOUS
  <2>2. x = d * q
    BY <1>1, <1>5, <2>1
  <2> QED BY <1>2, <2>1, <2>2, RoundingWhole
<1> QED BY <1>4, <1>5

\* From another currency.
LEMMA ConvertedBalance ==
  ASSUME NEW sign \in {1, -1}, NEW ex \in Nat \ {0}, NEW w \in Nat, NEW t \in Nat, NEW sub \in Nat,
         NEW m \in Nat, 2 * (sub - w) <= m, -m <= 2 * (sub - w),
         NEW parts, NEW gross, NEW k, Sums(parts, gross, ex * sub, k),
         NEW tribute, SignedCents(sign, t * ex, tribute),
         NEW total, SignedCents(sign, (w + t) * ex, total)
  PROVE  20 * Distance(sign * parts + tribute, total) <= 10 * (k + 2) + m * ex
<1>1. PICK x \in Nat, y \in Nat, z \in Int, q \in Nat :
        x = w * ex /\ y = t * ex /\ z = ex * (2 * (sub - w)) /\ q = m * ex
  OBVIOUS
<1>2. (w + t) * ex = x + y
  BY <1>1
<1>3. 2 * (ex * sub) = z + 2 * x
  BY <1>1
<1>4. z <= q /\ -q <= z
  <2>1. PICK d \in Int : d = 2 * (sub - w)
    OBVIOUS
  <2>2. d <= m /\ -m <= d
    BY <2>1
  <2>3. ex * d <= ex * m /\ ex * (-m) <= ex * d
    <3>1. -m \in Int
      OBVIOUS
    <3> QED BY <2>2, <3>1, Monotone
  <2> QED BY <1>1, <2>1, <2>3
<1>5. parts \in Nat /\ gross \in Nat /\ k \in Nat /\ 2 * gross = z + 2 * x
      /\ -(10 * k) <= 20 * parts - 2 * gross /\ 20 * parts - 2 * gross <= 10 * k
  BY <1>3 DEF Sums
<1>6. tribute \in Int /\ 20 * tribute - 2 * (sign * y) <= 10 /\ -10 <= 20 * tribute - 2 * (sign * y)
  BY <1>1 DEF SignedCents
<1>7. total \in Int /\ 20 * total - 2 * (sign * (x + y)) <= 10 /\ -10 <= 20 * total - 2 * (sign * (x + y))
  BY <1>2 DEF SignedCents
<1>8. 20 * Distance(sign * parts + tribute, total) <= 10 * (k + 2) + q
  <2>1. CASE sign = 1
    <3>1. 20 * (parts + tribute - total) <= 10 * (k + 2) + q
          /\ -(10 * (k + 2) + q) <= 20 * (parts + tribute - total)
      BY <1>4, <1>5, <1>6, <1>7, <2>1
    <3>2. sign * parts = parts
      BY <1>5, <2>1
    <3> QED BY <1>5, <1>6, <1>7, <3>1, <3>2 DEF Distance
  <2>2. CASE sign = -1
    <3>1. 20 * (-parts + tribute - total) <= 10 * (k + 2) + q
          /\ -(10 * (k + 2) + q) <= 20 * (-parts + tribute - total)
      BY <1>4, <1>5, <1>6, <1>7, <2>2
    <3>2. sign * parts = -parts
      BY <1>5, <2>2
    <3> QED BY <1>5, <1>6, <1>7, <3>1, <3>2 DEF Distance
  <2> QED BY <2>1, <2>2
<1> QED BY <1>1, <1>8

\* In pesos: only the IVA is rounded, half a cent a rate.
LEMMA PesoBalance ==
  ASSUME NEW sign \in {1, -1}, NEW w \in Nat, NEW t \in Nat, NEW sub \in Nat,
         NEW m \in Nat, 2 * (sub - w) <= m, -m <= 2 * (sub - w),
         NEW parts \in Nat, NEW k \in Nat, 2 * (parts - sub) <= k, -k <= 2 * (parts - sub)
  PROVE  20 * Distance(sign * parts + sign * t, sign * (w + t)) <= 10 * k + m * 10
<1>1. CASE sign = 1
  <2>1. sign * parts + sign * t = parts + t /\ sign * (w + t) = w + t
    BY <1>1
  <2> QED BY <2>1 DEF Distance
<1>2. CASE sign = -1
  <2>1. sign * parts + sign * t = -parts - t /\ sign * (w + t) = -w - t
    BY <1>2
  <2> QED BY <2>1 DEF Distance
<1> QED BY <1>1, <1>2

LEMMA IvaOfEntry ==
  ASSUME NEW voucher, NEW n, BookFits(voucher, n), NEW entry, EntryHas(entry, voucher)
  PROVE  /\ IvaSum(voucher) \in Nat /\ RateCount(voucher) \in Nat
         /\ Sign(voucher) \in {1, -1}
         /\ entry.ivaAmount = Sign(voucher) * IvaSum(voucher)
         /\ Count(BookRates(voucher)) = RateCount(voucher)
<1>1. Sign(voucher) \in {1, -1}
  BY DEF Sign, voucherSign
<1>2. 0 \notin BookRates(voucher)
  BY BookTypes DEF SharedRates
<1>3. \A rate \in SharedRates : IvaIf(voucher, rate) \in Nat
  BY BooksAreSound, ChainOfBook
<1>4. PICK v1, v2, v3, v4, v5 :
        /\ v1 = IvaIf(voucher, 25) /\ v2 = IvaIf(voucher, 50) /\ v3 = IvaIf(voucher, 105)
        /\ v4 = IvaIf(voucher, 210) /\ v5 = IvaIf(voucher, 270)
  OBVIOUS
<1>5. v1 \in Nat /\ v2 \in Nat /\ v3 \in Nat /\ v4 \in Nat /\ v5 \in Nat
  BY <1>3, <1>4 DEF SharedRates
<1>6. IvaSum(voucher) = v1 + v2 + v3 + v4 + v5
  BY <1>4 DEF IvaSum
<1>7. ASSUME NEW rate \in SharedRates
      PROVE  (IF rate \in BookRates(voucher) THEN Sign(voucher) * IvaAt(voucher, rate) ELSE 0)
               = Sign(voucher) * IvaIf(voucher, rate)
  BY <1>1 DEF IvaIf
<1>8. /\ (IF 25 \in BookRates(voucher) THEN Sign(voucher) * IvaAt(voucher, 25) ELSE 0) = Sign(voucher) * v1
      /\ (IF 50 \in BookRates(voucher) THEN Sign(voucher) * IvaAt(voucher, 50) ELSE 0) = Sign(voucher) * v2
      /\ (IF 105 \in BookRates(voucher) THEN Sign(voucher) * IvaAt(voucher, 105) ELSE 0) = Sign(voucher) * v3
      /\ (IF 210 \in BookRates(voucher) THEN Sign(voucher) * IvaAt(voucher, 210) ELSE 0) = Sign(voucher) * v4
      /\ (IF 270 \in BookRates(voucher) THEN Sign(voucher) * IvaAt(voucher, 270) ELSE 0) = Sign(voucher) * v5
      /\ (IF 0 \in BookRates(voucher) THEN Sign(voucher) * IvaAt(voucher, 0) ELSE 0) = 0
  BY <1>2, <1>4, <1>7 DEF SharedRates
<1>9. PICK sign : sign = Sign(voucher)
  OBVIOUS
<1>10. entry.ivaAmount = 0 + sign * v1 + sign * v2 + sign * v3 + sign * v4 + sign * v5
  BY <1>8, <1>9 DEF EntryHas, SumOverRates
<1>11. 0 + sign * v1 + sign * v2 + sign * v3 + sign * v4 + sign * v5 = sign * (v1 + v2 + v3 + v4 + v5)
  <2>1. CASE sign = 1
    BY <1>5, <2>1
  <2>2. CASE sign = -1
    BY <1>5, <2>2
  <2> QED BY <1>1, <1>9, <2>1, <2>2
<1>12. Count(BookRates(voucher)) = RateCount(voucher) /\ RateCount(voucher) \in Nat
  BY <1>2 DEF Count, SumOverRates, RateCount, OneIf
<1> QED BY <1>1, <1>5, <1>6, <1>9, <1>10, <1>11, <1>12

\* The cents of the columns against the pesos of the subtotals.
LEMMA ColumnsOfBook ==
  ASSUME NEW voucher, NEW n, BookFits(voucher, n), NEW parts,
         parts = IvaSum(voucher) + ToCents(NetOfIva(voucher))
                   + ToCents(<<ColumnGross(voucher, "exempt"), 1>>)
                   + ToCents(<<ColumnGross(voucher, "untaxed"), 1>>),
         NEW sub \in Nat, sub = SumOfAll(Subtotals(voucher.items))
  PROVE  /\ \E gross : Sums(parts, gross, voucher.exchangeRate * sub, RateCount(voucher) + 3)
         /\ voucher.exchangeRate = LocalRate =>
              2 * (parts - sub) <= RateCount(voucher) /\ -RateCount(voucher) <= 2 * (parts - sub)
<1>1. PICK strict : strict = (voucher.exchangeRate = LocalRate)
  OBVIOUS
<1>2. BookIsSound(voucher, strict) /\ strict \in BOOLEAN
  BY <1>1, BooksAreSound
<1>3. PICK iva, net, k, g, f :
        /\ iva = IvaSum(voucher) /\ net = ToCents(f) /\ k = RateCount(voucher) /\ g = GrossSum(voucher)
        /\ f = NetOfIva(voucher)
  OBVIOUS
<1>4. Chain(f, iva, g, k, strict)
  BY <1>2, <1>3, ChainOfBook
<1>5. iva \in Nat /\ g \in Nat /\ k \in Nat
  BY <1>4 DEF Chain
<1>6. /\ net \in Nat /\ -(10 * (k + 1)) <= 20 * (iva + net) - 2 * g /\ 20 * (iva + net) - 2 * g <= 10 * (k + 1)
      /\ \A cents \in Nat : strict /\ g = 10 * cents =>
           2 * (iva + net - cents) <= k /\ -k <= 2 * (iva + net - cents)
  BY <1>2, <1>3, <1>4, NetAndIva
<1>7. PICK x, y : x = ColumnGross(voucher, "exempt") /\ y = ColumnGross(voucher, "untaxed")
  OBVIOUS
<1>8. x \in Nat /\ y \in Nat
  BY <1>7, BookTypes
<1>9. PICK e, u : e = ToCents(<<x, 1>>) /\ u = ToCents(<<y, 1>>)
  OBVIOUS
<1>10. /\ e \in Nat /\ -10 <= 20 * e - 2 * x /\ 20 * e - 2 * x <= 10
       /\ u \in Nat /\ -10 <= 20 * u - 2 * y /\ 20 * u - 2 * y <= 10
  BY <1>8, <1>9, CentsOfColumn
<1>11. parts = iva + net + e + u
  BY <1>3, <1>7, <1>9
<1>12. g + x + y = voucher.exchangeRate * sub
  BY <1>3, <1>7, BookPartition, PesosOfSubtotals
<1>13. Sums(parts, g + x + y, voucher.exchangeRate * sub, k + 3)
  <2>1. parts \in Nat /\ g + x + y \in Nat /\ k + 3 \in Nat
    BY <1>5, <1>6, <1>8, <1>10, <1>11
  <2>2. /\ -(10 * (k + 3)) <= 20 * parts - 2 * (g + x + y)
        /\ 20 * parts - 2 * (g + x + y) <= 10 * (k + 3)
    BY <1>5, <1>6, <1>8, <1>10, <1>11
  <2> QED BY <1>12, <2>1, <2>2 DEF Sums
<1>14. ASSUME voucher.exchangeRate = LocalRate
       PROVE  2 * (parts - sub) <= k /\ -k <= 2 * (parts - sub)
  <2>1. WholeCents(x) /\ WholeCents(y)
    BY <1>7, <1>14, PesosAreWhole
  <2>2. PICK a \in Nat : x = 10 * a
    BY <2>1 DEF WholeCents
  <2>3. PICK b \in Nat : y = 10 * b
    BY <2>1 DEF WholeCents
  <2>4. e = a /\ u = b
    BY <1>8, <1>9, <2>2, <2>3, CentsOfColumn
  <2>5. g + 10 * a + 10 * b = 10 * sub
    BY <1>12, <1>14, <2>2, <2>3 DEF LocalRate
  <2>6. PICK c \in Nat : c = sub - a - b
    BY <1>5, <2>5
  <2>7. g = 10 * c
    BY <1>5, <2>5, <2>6
  <2>8. strict
    BY <1>1, <1>14
  <2>9. 2 * (iva + net - c) <= k /\ -k <= 2 * (iva + net - c)
    BY <1>6, <2>7, <2>8
  <2>10. parts - sub = iva + net - c
    <3>1. iva \in Nat /\ net \in Nat /\ a \in Nat /\ b \in Nat /\ parts = iva + net + a + b /\ c = sub - a - b
      BY <1>5, <1>6, <1>11, <2>2, <2>3, <2>4, <2>6
    <3> QED BY <3>1
  <2> QED BY <2>9, <2>10
<1> QED BY <1>3, <1>13, <1>14

LEMMA EntryBalances ==
  ASSUME NEW row, RowFits(row)
  PROVE  Balances(toEntry(row), row)
<1>1. PICK n : n = Len(row.items)
  OBVIOUS
<1>2. BookFits(row, n)
  BY <1>1, RowIsBooked
<1>3. n \in Nat /\ DOMAIN row.items = 1..n /\ SubtotalsFit(row.items, n)
  BY <1>2, BookTerms DEF BookFits, SubtotalsFit, RowFits
<1>4. PICK sub, w : SubtotalsNear(row.items, n, sub, w)
  BY <1>3, SubtotalsTie
<1>5. /\ sub = SumOfAll(Subtotals(row.items)) /\ sub \in Nat /\ w = WholeSold(row.items) /\ w \in Nat
      /\ 2 * (sub - w) <= n + 1 /\ -(n + 1) <= 2 * (sub - w)
      /\ ItemsAreWhole(row.items) => sub = w
  BY <1>4 DEF SubtotalsNear
<1>6. PICK m : m = IF WholeQuantities(row) THEN 0 ELSE n + 1
  OBVIOUS
<1>7. m \in Nat /\ 2 * (sub - w) <= m /\ -m <= 2 * (sub - w)
  BY SMTT(20), <1>3, <1>5, <1>6 DEF WholeQuantities, ItemsAreWhole
<1>8. PICK t \in Nat, ex \in Nat \ {0} : t = row.amounts.tributeAmount /\ ex = row.exchangeRate
  BY <1>2, TotalOfRow DEF BookFits
<1>9. row.amounts.totalAmount = w + t
  BY <1>5, <1>8, TotalOfRow
<1>10. PICK sign, entry : sign = Sign(row) /\ entry = toEntry(row)
  OBVIOUS
<1>11. EntryHas(entry, row)
  BY <1>10, EntryOf
<1>12. PICK k, iva : k = RateCount(row) /\ iva = IvaSum(row)
  OBVIOUS
<1>13. /\ k \in Nat /\ iva \in Nat /\ sign \in {1, -1} /\ entry.ivaAmount = sign * iva
       /\ Count(BookRates(row)) = k
  BY <1>2, <1>10, <1>11, <1>12, IvaOfEntry
<1>14. PICK net, e, u :
         /\ net = ToCents(NetOfIva(row))
         /\ e = ToCents(<<ColumnGross(row, "exempt"), 1>>) /\ u = ToCents(<<ColumnGross(row, "untaxed"), 1>>)
  OBVIOUS
<1>15. net \in Nat /\ e \in Nat /\ u \in Nat
  BY <1>2, <1>14, BreakdownTypes
<1>16. PICK parts \in Nat : parts = iva + net + e + u
  BY <1>13, <1>15
<1>17. /\ \E gross : Sums(parts, gross, ex * sub, k + 3)
       /\ ex = LocalRate => 2 * (parts - sub) <= k /\ -k <= 2 * (parts - sub)
  BY <1>2, <1>5, <1>8, <1>12, <1>14, <1>16, ColumnsOfBook
<1>18. entry.netAmount + entry.exemptAmount + entry.untaxedAmount + entry.ivaAmount = sign * parts
  <2>1. entry.netAmount = sign * net /\ entry.exemptAmount = sign * e /\ entry.untaxedAmount = sign * u
    BY <1>10, <1>11, <1>14 DEF EntryHas
  <2>2. sign * net + sign * e + sign * u + sign * iva = sign * (iva + net + e + u)
    <3>1. CASE sign = 1
      BY <1>13, <1>15, <3>1
    <3>2. CASE sign = -1
      BY <1>13, <1>15, <3>2
    <3> QED BY <1>13, <3>1, <3>2
  <2> QED BY <1>13, <1>16, <2>1, <2>2
<1>19. PICK tribute, total : tribute = entry.tributeAmount /\ total = entry.totalAmount
  OBVIOUS
<1>20. t * ex \in Nat /\ (w + t) * ex \in Nat
  BY <1>5
<1>21. /\ SignedCents(sign, t * ex, tribute)
       /\ \A whole \in Nat : t * ex = 10 * whole => tribute = sign * whole
  <2>1. tribute = RoundHalfUp(sign * (t * ex), 10)
    BY <1>8, <1>10, <1>11, <1>19 DEF EntryHas, SignedPesos, toPesos
  <2>2. PICK cents : /\ SignedCents(sign, t * ex, cents)
                     /\ \A whole \in Nat : t * ex = 10 * whole => cents = sign * whole
    BY <1>13, <1>20, SignedIsRounded
  <2>3. cents = tribute
    BY <2>1, <2>2 DEF SignedCents
  <2> QED BY <2>2, <2>3
<1>22. /\ SignedCents(sign, (w + t) * ex, total)
       /\ \A whole \in Nat : (w + t) * ex = 10 * whole => total = sign * whole
  <2>1. total = RoundHalfUp(sign * ((w + t) * ex), 10)
    BY <1>8, <1>9, <1>10, <1>11, <1>19 DEF EntryHas, SignedPesos, toPesos
  <2>2. PICK cents : /\ SignedCents(sign, (w + t) * ex, cents)
                     /\ \A whole \in Nat : (w + t) * ex = 10 * whole => cents = sign * whole
    BY <1>13, <1>20, SignedIsRounded
  <2>3. cents = total
    BY <2>1, <2>2 DEF SignedCents
  <2> QED BY <2>2, <2>3
<1>23. Allowance(row) = 10 * (k + IF ex = LocalRate THEN 0 ELSE 5) + m * ex
  <2>1. Len(row.items) = n
    BY <1>1
  <2>2. m * ex = IF WholeQuantities(row) THEN 0 ELSE (n + 1) * ex
    BY <1>6, <1>8
  <2> QED BY <1>8, <1>13, <2>1, <2>2 DEF Allowance
<1>24. CASE ex # LocalRate
  <2>1. 20 * Distance(sign * parts + tribute, total) <= 10 * (k + 3 + 2) + m * ex
    <3>1. PICK gross : Sums(parts, gross, ex * sub, k + 3)
      BY <1>17
    <3> QED BY <1>5, <1>7, <1>13, <1>21, <1>22, <3>1, ConvertedBalance
  <2>2. 10 * (k + 3 + 2) = 10 * (k + IF ex = LocalRate THEN 0 ELSE 5)
    BY <1>13, <1>24
  <2> QED BY <1>10, <1>18, <1>19, <1>23, <2>1, <2>2 DEF Balances
<1>25. CASE ex = LocalRate
  <2>1. ex = 10
    BY <1>25 DEF LocalRate
  <2>2. t * ex = 10 * t /\ (w + t) * ex = 10 * (w + t) /\ w + t \in Nat
    BY <1>5, <2>1
  <2>3. tribute = sign * t /\ total = sign * (w + t)
    BY <1>21, <1>22, <2>2
  <2>4. 2 * (parts - sub) <= k /\ -k <= 2 * (parts - sub)
    BY <1>17, <1>25
  <2>5. 20 * Distance(sign * parts + sign * t, sign * (w + t)) <= 10 * k + m * 10
    BY <1>5, <1>7, <1>13, <2>4, PesoBalance
  <2>6. 10 * (k + IF ex = LocalRate THEN 0 ELSE 5) + m * ex = 10 * k + m * 10
    BY <1>7, <1>13, <1>25, <2>1
  <2> QED BY <1>10, <1>18, <1>19, <1>23, <2>3, <2>5, <2>6 DEF Balances
<1> QED BY <1>24, <1>25

\* The three monthly reports tell one story, for any vouchers of any month.
THEOREM BooksAlwaysAgree == Spec => []BooksAgree
<1>1. ASSUME DocumentsInv, NEW month
      PROVE  TellOneStory(getMonthlyPosition(month).totalDebit, buildSalesBook(month))
  <2>1. RowsInv
    BY <1>1 DEF DocumentsInv
  <2>2. ASSUME NEW i \in DOMAIN buildSalesBook(month).entries
        PROVE  Balances(buildSalesBook(month).entries[i], vouchers[i])
    <3>1. i \in VouchersOf(month) /\ buildSalesBook(month).entries[i] = toEntry(vouchers[i])
      BY EntriesOfBook
    <3>2. RowFits(vouchers[i])
      BY <2>1, <3>1 DEF RowsInv, VouchersOf
    <3> QED BY <3>1, <3>2, EntryBalances
  <2> QED BY <2>1, <2>2, IvaIsOneStory DEF TellOneStory
<1>2. DocumentsInv => BooksAgree
  BY <1>1 DEF BooksAgree
<1> QED BY <1>2, DocumentsHold, PTL

-----------------------------------------------------------------------------
(* The printed page.                                                          *)

IfPositive(amount) == IF amount > 0 THEN <<amount>> ELSE <<>>

LEMMA LineOf ==
  ASSUME NEW x \in Nat
  PROVE  /\ <<x>> \in Seq(Int) /\ SumOfAll(<<x>>) = x /\ Len(<<x>>) = 1
         /\ IfPositive(x) \in Seq(Int) /\ SumOfAll(IfPositive(x)) = x
         /\ Len(IfPositive(x)) <= 1 /\ Len(IfPositive(x)) \in Nat
<1>1. <<x>> \in Seq(Int) /\ Len(<<x>>) = 1 /\ <<>> \in Seq(Int) /\ Len(<<>>) = 0
  OBVIOUS
<1>2. SumOfAll(<<x>>) = x /\ SumOfAll(<<>>) = 0
  BY SumOfFew
<1>3. CASE x > 0
  <2>1. IfPositive(x) = <<x>>
    BY <1>3 DEF IfPositive
  <2> QED BY <1>1, <1>2, <2>1
<1>4. CASE ~ (x > 0)
  <2>1. IfPositive(x) = <<>> /\ x = 0
    BY <1>4 DEF IfPositive
  <2> QED BY <1>1, <1>2, <2>1
<1> QED BY <1>3, <1>4

LEMMA LinesOfBoth ==
  ASSUME NEW a \in Seq(Int), NEW b \in Seq(Int)
  PROVE  a \o b \in Seq(Int) /\ SumOfAll(a \o b) = SumOfAll(a) + SumOfAll(b)
         /\ Len(a \o b) = Len(a) + Len(b)
BY SumOfConcat, ConcatProperties

\* The lines above the total, added up.
LEMMA LinesOfPage ==
  ASSUME NEW row, RowFits(row)
  PROVE  /\ PrintedSum(row) = PartsOfAmounts(row.amounts) + row.amounts.tributeAmount
         /\ Len(totalLines(row)) \in Nat
         /\ Len(totalLines(row)) <= 4 + Len(row.amounts.tributes)
<1>1. row \in IssuedVoucherData /\ AmountsFit(row)
  BY DEF RowFits
<1>2. row.amounts \in VoucherAmounts
  BY <1>1 DEF IssuedVoucherData
<1>3. PICK net \in Nat, un \in Nat, ex \in Nat, iva \in Nat :
        /\ net = row.amounts.netAmount /\ un = row.amounts.untaxedAmount
        /\ ex = row.amounts.exemptAmount /\ iva = row.amounts.ivaAmount
  BY <1>2 DEF VoucherAmounts
<1>4. PICK tributes, m : tributes = row.amounts.tributes /\ m = Len(tributes)
  OBVIOUS
<1>5. tributes \in Seq([id : Nat, amount : Nat])
  BY <1>2, <1>4 DEF VoucherAmounts
<1>6. m \in Nat /\ DOMAIN tributes = 1..m
  BY <1>4, <1>5, LenProperties
<1>7. \A i \in 1..m : tributes[i].amount \in Nat
  <2>1. \A i \in 1..m : tributes[i] \in [id : Nat, amount : Nat]
    BY <1>4, <1>5, ElementOfSeq
  <2> QED BY <2>1
<1>8. PICK last : last = [i \in DOMAIN tributes |-> tributes[i].amount]
  OBVIOUS
<1>9. last \in Seq(Int) /\ Len(last) = m
  <2>1. last \in [1..m -> Int]
    BY <1>6, <1>7, <1>8
  <2> QED BY <1>6, <2>1, FunctionIsSeq
<1>10. SumOfAll(last) = row.amounts.tributeAmount
  BY <1>1, <1>4, <1>8 DEF AmountsFit, SumOf
<1>11. PICK first, second, third, fourth :
         /\ first = <<net>> /\ second = IfPositive(un) /\ third = IfPositive(ex) /\ fourth = <<iva>>
  OBVIOUS
<1>12. /\ first \in Seq(Int) /\ SumOfAll(first) = net /\ Len(first) = 1
       /\ fourth \in Seq(Int) /\ SumOfAll(fourth) = iva /\ Len(fourth) = 1
  BY <1>11, LineOf
<1>13. /\ second \in Seq(Int) /\ SumOfAll(second) = un /\ Len(second) <= 1 /\ Len(second) \in Nat
       /\ third \in Seq(Int) /\ SumOfAll(third) = ex /\ Len(third) <= 1 /\ Len(third) \in Nat
  BY <1>11, LineOf
<1>14. PICK l2 \in Nat, l3 \in Nat :
         l2 = Len(second) /\ l3 = Len(third) /\ l2 <= 1 /\ l3 <= 1
  BY <1>13
<1>15. PICK a, b, c : a = first \o second /\ b = a \o third /\ c = b \o fourth
  OBVIOUS
<1>16. totalLines(row) = c \o last
  BY <1>3, <1>4, <1>8, <1>11, <1>15 DEF totalLines, IfPositive
<1>17. a \in Seq(Int) /\ SumOfAll(a) = net + un /\ Len(a) = 1 + l2
  BY <1>12, <1>13, <1>14, <1>15, LinesOfBoth
<1>18. b \in Seq(Int) /\ SumOfAll(b) = net + un + ex /\ Len(b) = 1 + l2 + l3
  <2>1. /\ b \in Seq(Int) /\ SumOfAll(b) = SumOfAll(a) + SumOfAll(third)
        /\ Len(b) = Len(a) + Len(third)
    BY <1>13, <1>15, <1>17, LinesOfBoth
  <2> QED BY <1>13, <1>14, <1>17, <2>1
<1>19. c \in Seq(Int) /\ SumOfAll(c) = net + un + ex + iva /\ Len(c) = 1 + l2 + l3 + 1
  <2>1. /\ c \in Seq(Int) /\ SumOfAll(c) = SumOfAll(b) + SumOfAll(fourth)
        /\ Len(c) = Len(b) + Len(fourth)
    BY <1>12, <1>15, <1>18, LinesOfBoth
  <2> QED BY <1>12, <1>18, <2>1
<1>20. /\ totalLines(row) \in Seq(Int)
       /\ SumOfAll(totalLines(row)) = net + un + ex + iva + row.amounts.tributeAmount
       /\ Len(totalLines(row)) = 1 + l2 + l3 + 1 + m
  <2>1. /\ totalLines(row) \in Seq(Int)
        /\ SumOfAll(totalLines(row)) = SumOfAll(c) + SumOfAll(last)
        /\ Len(totalLines(row)) = Len(c) + Len(last)
    BY <1>9, <1>16, <1>19, LinesOfBoth
  <2> QED BY <1>9, <1>10, <1>19, <2>1
<1>21. PrintedSum(row) = SumOfAll(totalLines(row))
  <2>1. PICK lines : lines = totalLines(row)
    OBVIOUS
  <2>2. [i \in DOMAIN lines |-> lines[i]] = lines
    BY <1>20, <2>1
  <2>3. PrintedSum(row) = SumOfAll([i \in DOMAIN lines |-> lines[i]])
    BY <2>1 DEF PrintedSum, SumOf
  <2> QED BY <2>1, <2>2, <2>3
<1>22. PrintedSum(row) = PartsOfAmounts(row.amounts) + row.amounts.tributeAmount
  <2>1. row.amounts.tributeAmount \in Nat
    BY <1>2 DEF VoucherAmounts
  <2>2. PICK t \in Nat : t = row.amounts.tributeAmount
    BY <2>1
  <2>3. PrintedSum(row) = net + un + ex + iva + t
    BY <1>20, <1>21, <2>2
  <2>4. PartsOfAmounts(row.amounts) = net + iva + ex + un
    BY <1>3 DEF PartsOfAmounts
  <2> QED BY <2>2, <2>3, <2>4
<1>23. Len(totalLines(row)) \in Nat /\ Len(totalLines(row)) <= 4 + m
  BY <1>6, <1>14, <1>20
<1> QED BY <1>4, <1>22, <1>23

LEMMA PageAddsUp ==
  ASSUME NEW row, RowFits(row)
  PROVE  Tolerable(Distance(PrintedSum(row), row.amounts.totalAmount), row)
<1>1. row \in IssuedVoucherData /\ AmountsFit(row)
  BY DEF RowFits
<1>2. ItemsFit(row.items, Len(row.items))
  BY <1>1, RowItemsFit
<1>3. PICK own : own = calculateAmounts(row.voucherType, row.items, <<>>)
  OBVIOUS
<1>4. ItemAmounts(row.voucherType, row.items, own)
  BY <1>2, <1>3, AmountsOfItems
<1>5. /\ row.amounts.netAmount = own.netAmount /\ row.amounts.ivaAmount = own.ivaAmount
      /\ row.amounts.exemptAmount = own.exemptAmount /\ row.amounts.untaxedAmount = own.untaxedAmount
  BY <1>1, <1>3 DEF AmountsFit
<1>6. ItemAmounts(row.voucherType, row.items, row.amounts)
  BY <1>4, <1>5 DEF ItemAmounts, PartsOfAmounts
<1>7. /\ PartsOfAmounts(row.amounts) \in Nat /\ WholeSold(row.items) \in Nat
      /\ Tolerable(Distance(PartsOfAmounts(row.amounts), WholeSold(row.items)), row)
  BY <1>2, <1>6, PartsTie
<1>8. PICK p \in Nat, w \in Nat, t \in Nat :
        p = PartsOfAmounts(row.amounts) /\ w = WholeSold(row.items) /\ t = row.amounts.tributeAmount
  BY <1>7, TotalOfRow
<1>9. PrintedSum(row) = p + t /\ row.amounts.totalAmount = w + t
  BY <1>8, LinesOfPage, TotalOfRow
<1>10. Distance(p + t, w + t) = Distance(p, w)
  BY DEF Distance
<1> QED BY <1>7, <1>8, <1>9, <1>10

LEMMA PageFits ==
  ASSUME NEW row, RowFits(row), Len(row.items) <= ItemsPerPage,
         Len(row.amounts.tributes) + Len(row.associatedVouchers) <= ExtrasPerPage
  PROVE  drawVoucher(row) <= FooterTop
<1>1. row \in IssuedVoucherData
  BY DEF RowFits
<1>2. PICK n, m, a, lines :
        /\ n = Len(row.items) /\ m = Len(row.amounts.tributes) /\ a = Len(row.associatedVouchers)
        /\ lines = Len(totalLines(row))
  OBVIOUS
<1>3. n \in Nat
  BY <1>1, <1>2, RowItemsFit DEF ItemsFit
<1>4. m \in Nat
  BY <1>1, <1>2, LenProperties DEF IssuedVoucherData, VoucherAmounts
<1>5. a \in Nat
  BY <1>1, <1>2, LenProperties DEF IssuedVoucherData
<1>6. lines \in Nat /\ lines <= 4 + m
  BY <1>2, LinesOfPage
<1>7. 16 * n + 14 * m + 12 * a <= 327
  <2>1. PICK items \in Nat, extras \in Nat : items = ItemsPerPage /\ extras = ExtrasPerPage
    BY PageConstants
  <2>2. n <= items /\ m + a <= extras /\ 16 * items + 14 * extras <= 327
    BY <1>2, <2>1, PageConstants
  <2> QED BY <1>3, <1>4, <1>5, <2>2
<1>8. PICK top \in Nat : top = 162 + 14 + 6 + n * (12 + 4) + 10 + lines * 14 + 18
  BY <1>3, <1>6
<1>9. drawTotals(row, drawItemsTable(row, drawRecipient)) = top
  BY <1>2, <1>3, <1>6, <1>8 DEF drawTotals, drawItemsTable, drawRecipient
<1>10. PICK after : after = drawAssociatedVouchers(row, top)
  OBVIOUS
<1>11. after \in Nat /\ after <= top + 22 + a * 12
  <2>1. after = top \/ after = top + 8 + 14 + a * 12
    BY <1>2, <1>10 DEF drawAssociatedVouchers
  <2>2. PICK x \in Nat : x = a * 12
    BY <1>5
  <2> QED BY <2>1, <2>2
<1>12. drawVoucher(row) = drawRetentionNotice(row, drawFiscalTransparency(row, after))
  BY <1>9, <1>10 DEF drawVoucher
<1>13. drawVoucher(row) <= after + 46 /\ drawVoucher(row) \in Nat
  <2>1. CASE requiresRetentionNotice(row.voucherType)
    <3>1. ~requiresFiscalTransparencyNotice(row.voucherType)
      BY <2>1 DEF requiresRetentionNotice, requiresFiscalTransparencyNotice
    <3>2. buildFiscalTransparency(row) = None
      BY <3>1 DEF buildFiscalTransparency
    <3>3. drawFiscalTransparency(row, after) = after
      BY <3>2 DEF drawFiscalTransparency
    <3>4. drawVoucher(row) = after + 12 + 8
      BY <1>12, <2>1, <3>3 DEF drawRetentionNotice
    <3> QED BY <1>11, <3>4
  <2>2. CASE ~requiresRetentionNotice(row.voucherType)
    <3>1. drawVoucher(row) = drawFiscalTransparency(row, after)
      BY <1>12, <2>2 DEF drawRetentionNotice
    <3> QED BY <1>11, <3>1 DEF drawFiscalTransparency
  <2> QED BY <2>1, <2>2
<1>14. FooterTop = 661
  BY DEF FooterTop
<1> QED BY <1>3, <1>4, <1>5, <1>6, <1>7, <1>8, <1>11, <1>13, <1>14

\* The page of every voucher adds up and leaves its CAE in sight.
THEOREM PagesAreWhole == Spec => []PageIsWhole
<1>1. DocumentsInv => PageIsWhole
  BY PageAddsUp, PageFits DEF DocumentsInv, RowsInv, PageIsWhole
<1> QED BY <1>1, DocumentsHold, PTL

-----------------------------------------------------------------------------
(* The types of the reports.                                                  *)

EntryIsTyped(entry) ==
  /\ entry.netAmount \in Int /\ entry.exemptAmount \in Int /\ entry.untaxedAmount \in Int
  /\ entry.ivaAmount \in Int /\ entry.tributeAmount \in Int /\ entry.totalAmount \in Int

LEMMA EntriesAreTyped ==
  ASSUME NEW row, RowFits(row)
  PROVE  EntryIsTyped(toEntry(row))
<1>1. BookFits(row, Len(row.items)) /\ row \in IssuedVoucherData
  BY RowIsBooked DEF RowFits
<1>2. PICK entry : entry = toEntry(row)
  OBVIOUS
<1>3. EntryHas(entry, row)
  BY <1>2, EntryOf
<1>4. IvaSum(row) \in Nat /\ Sign(row) \in {1, -1} /\ entry.ivaAmount = Sign(row) * IvaSum(row)
  BY <1>1, <1>3, IvaOfEntry
<1>5. ASSUME NEW x \in Nat PROVE Sign(row) * x \in Int
  BY <1>4
<1>6. entry.netAmount \in Int /\ entry.exemptAmount \in Int /\ entry.untaxedAmount \in Int
  <2>1. /\ ToCents(NetOfIva(row)) \in Nat /\ ToCents(<<ColumnGross(row, "exempt"), 1>>) \in Nat
        /\ ToCents(<<ColumnGross(row, "untaxed"), 1>>) \in Nat
    BY <1>1, BreakdownTypes
  <2> QED BY <1>3, <1>5, <2>1 DEF EntryHas
<1>7. ASSUME NEW x \in Nat PROVE SignedPesos(row, x) \in Int
  <2>1. row.exchangeRate \in Nat
    BY <1>1 DEF IssuedVoucherData
  <2>2. toPesos(row, x) \in Nat
    BY <2>1 DEF toPesos
  <2>3. PICK pesos \in Nat, sign \in {1, -1} : pesos = toPesos(row, x) /\ sign = Sign(row)
    BY <1>4, <2>2
  <2>4. PICK cents : SignedCents(sign, pesos, cents)
    BY SignedIsRounded
  <2> QED BY <2>3, <2>4 DEF SignedPesos, SignedCents
<1>8. row.amounts.tributeAmount \in Nat /\ row.amounts.totalAmount \in Nat
  BY <1>1 DEF IssuedVoucherData, VoucherAmounts
<1>9. entry.tributeAmount \in Int /\ entry.totalAmount \in Int
  BY <1>3, <1>7, <1>8 DEF EntryHas
<1>10. entry.ivaAmount \in Int
  BY <1>4, <1>5
<1> QED BY <1>2, <1>6, <1>9, <1>10 DEF EntryIsTyped

LEMMA TotalsOfBook ==
  ASSUME RowsInv, NEW month
  PROVE  buildSalesBook(month).totals \in SalesBookTotals
<1>1. PICK entries : entries = [i \in VouchersOf(month) |-> toEntry(vouchers[i])]
  OBVIOUS
<1>2. ASSUME NEW i \in DOMAIN entries PROVE EntryIsTyped(entries[i])
  <2>1. i \in DOMAIN vouchers /\ entries[i] = toEntry(vouchers[i])
    BY <1>1, <1>2 DEF VouchersOf
  <2>2. RowFits(vouchers[i])
    BY <2>1 DEF RowsInv
  <2> QED BY <2>1, <2>2, EntriesAreTyped
<1>3. /\ sumEntries(entries, LAMBDA e : e.netAmount) \in Int
      /\ sumEntries(entries, LAMBDA e : e.exemptAmount) \in Int
      /\ sumEntries(entries, LAMBDA e : e.untaxedAmount) \in Int
      /\ sumEntries(entries, LAMBDA e : e.ivaAmount) \in Int
      /\ sumEntries(entries, LAMBDA e : e.tributeAmount) \in Int
      /\ sumEntries(entries, LAMBDA e : e.totalAmount) \in Int
  <2> DEFINE net == [i \in DOMAIN vouchers |-> IF i \in DOMAIN entries THEN entries[i].netAmount ELSE 0]
             exempt == [i \in DOMAIN vouchers |-> IF i \in DOMAIN entries THEN entries[i].exemptAmount ELSE 0]
             untaxed == [i \in DOMAIN vouchers |-> IF i \in DOMAIN entries THEN entries[i].untaxedAmount ELSE 0]
             iva == [i \in DOMAIN vouchers |-> IF i \in DOMAIN entries THEN entries[i].ivaAmount ELSE 0]
             tribute == [i \in DOMAIN vouchers |-> IF i \in DOMAIN entries THEN entries[i].tributeAmount ELSE 0]
             total == [i \in DOMAIN vouchers |-> IF i \in DOMAIN entries THEN entries[i].totalAmount ELSE 0]
  <2>1. /\ net \in [DOMAIN vouchers -> Int] /\ exempt \in [DOMAIN vouchers -> Int]
        /\ untaxed \in [DOMAIN vouchers -> Int] /\ iva \in [DOMAIN vouchers -> Int]
        /\ tribute \in [DOMAIN vouchers -> Int] /\ total \in [DOMAIN vouchers -> Int]
    BY <1>2 DEF EntryIsTyped
  <2>2. ASSUME NEW f \in [DOMAIN vouchers -> Int] PROVE SumOfAll(f) \in Int
    <3>1. DOMAIN vouchers = 1..Len(vouchers) /\ Len(vouchers) \in Nat
      BY LenProperties DEF RowsInv
    <3> QED BY <3>1, SumType
  <2>3. /\ SumOfAll(net) \in Int /\ SumOfAll(exempt) \in Int /\ SumOfAll(untaxed) \in Int
        /\ SumOfAll(iva) \in Int /\ SumOfAll(tribute) \in Int /\ SumOfAll(total) \in Int
    <3> HIDE DEF net, exempt, untaxed, iva, tribute, total
    <3> QED BY <2>1, <2>2
  <2> QED BY <2>3 DEF sumEntries
<1>4. Cardinality(VouchersOf(month)) \in Nat
  <2>1. DOMAIN vouchers = 1..Len(vouchers) /\ Len(vouchers) \in Nat
    BY LenProperties DEF RowsInv
  <2>2. IsFiniteSet(1..Len(vouchers)) /\ VouchersOf(month) \subseteq 1..Len(vouchers)
    BY <2>1, FS_Interval DEF VouchersOf
  <2> QED BY <2>2, FS_Subset, FS_CardinalityType
<1>5. buildSalesBook(month).totals
        = [voucherCount |-> Cardinality(VouchersOf(month)),
           netAmount |-> sumEntries(entries, LAMBDA e : e.netAmount),
           exemptAmount |-> sumEntries(entries, LAMBDA e : e.exemptAmount),
           untaxedAmount |-> sumEntries(entries, LAMBDA e : e.untaxedAmount),
           ivaAmount |-> sumEntries(entries, LAMBDA e : e.ivaAmount),
           tributeAmount |-> sumEntries(entries, LAMBDA e : e.tributeAmount),
           totalAmount |-> sumEntries(entries, LAMBDA e : e.totalAmount)]
  BY <1>1 DEF buildSalesBook
<1> QED BY <1>3, <1>4, <1>5 DEF SalesBookTotals

LEMMA CreditType ==
  ASSUME PurchaseRowsInv, NEW month, NEW rate
  PROVE  CreditOf(month, rate) \in Int
<1> DEFINE amount(p) ==
      IF MonthOf(p.issueDate) = month /\ rate \in DOMAIN p.iva
      THEN IF isCreditNote(p.invoiceType) THEN -p.iva[rate] ELSE p.iva[rate] ELSE 0
    terms == [i \in DOMAIN purchases |-> amount(purchases[i])]
<1>1. DOMAIN purchases = 1..Len(purchases) /\ Len(purchases) \in Nat
  BY LenProperties DEF PurchaseRowsInv
<1>2. ASSUME NEW i \in DOMAIN purchases PROVE amount(purchases[i]) \in Int
  <2>1. purchases[i] \in PurchaseRows
    BY <1>1, ElementOfSeq DEF PurchaseRowsInv
  <2>2. PICK purchase \in Purchases : purchases[i].iva = purchase.iva
    BY <2>1 DEF PurchaseRows
  <2>3. PurchaseFits(purchase)
    BY DocumentConstants DEF PurchaseFits
  <2>4. PICK iva : iva = purchases[i].iva /\ \A r \in DOMAIN iva : iva[r] \in Int
    BY <2>2, <2>3 DEF PurchaseFits
  <2> QED BY <2>4
<1>3. terms \in [1..Len(purchases) -> Int]
  BY <1>1, <1>2
<1>4. SumOfAll(terms) \in Int
  <2> HIDE DEF terms
  <2> QED BY <1>1, <1>3, SumType
<1>5. CreditOf(month, rate) = SumOfAll(terms)
  BY DEF CreditOf, SumWhere, SumOf
<1> QED BY <1>4, <1>5

LEMMA PositionIsTyped ==
  ASSUME RowsInv, PurchaseRowsInv, NEW month
  PROVE  getMonthlyPosition(month) \in IvaPosition
<1>1. ASSUME NEW rate PROVE DebitOf(month, rate) \in Int
  <2>1. PICK n, f : n = Len(vouchers) /\ f = IvaTerms(month, rate)
    OBVIOUS
  <2>2. n \in Nat /\ f \in [1..n -> Int]
    BY <2>1, IvaTermTypes DEF Terms
  <2> QED BY <2>1, <2>2, SumType, IvaOfPosition
<1>2. ASSUME NEW rate PROVE CreditOf(month, rate) \in Int
  BY CreditType
<1>3. PICK debit, credit : /\ debit = SumOverRates(LAMBDA rate : DebitOf(month, rate))
                           /\ credit = SumOverRates(LAMBDA rate : CreditOf(month, rate))
  OBVIOUS
<1>4. debit \in Int
  BY <1>1, <1>3 DEF SumOverRates
<1>5. credit \in Int
  BY <1>2, <1>3 DEF SumOverRates
<1>6. getMonthlyPosition(month)
        = [totalDebit |-> debit, totalCredit |-> credit, balance |-> debit - credit]
  BY <1>3 DEF getMonthlyPosition
<1> QED BY <1>4, <1>5, <1>6 DEF IvaPosition

\* The rows and the reports made of them keep the types the code declares.
THEOREM DocumentsAreTyped == Spec => []TypeOK
<1>1. ASSUME DocumentsInv PROVE TypeOK
  <2>1. RowsInv /\ PurchaseRowsInv /\ today \in Nat /\ MonthOf(today) <= MaxMonth /\ answer \in AnswerTexts
    BY <1>1 DEF DocumentsInv
  <2>2. today \in 0..(MaxMonth + 1) * DaysPerMonth
    BY <2>1, DocumentConstants DEF MonthOf, DaysPerMonth
  <2>3. \A month \in 0..MonthOf(today) :
          /\ buildSalesBook(month).totals \in SalesBookTotals
          /\ getMonthlyPosition(month) \in IvaPosition
    BY <2>1, TotalsOfBook, PositionIsTyped
  <2> QED BY <2>1, <2>2, <2>3 DEF TypeOK, RowsInv, PurchaseRowsInv
<1> QED BY <1>1, DocumentsHold, PTL
===============================================================================
