---------------------- MODULE AcceptanceClientProofs ----------------------
(***************************************************************************)
(* What holds of the service as its clients see it, for any suite of       *)
(* scenarios, any trouble and any end of the sequences: every record has   *)
(* one name in the API, and the tables that calls leave behind are ones    *)
(* the queries are exact on.                                               *)
(***************************************************************************)
EXTENDS AcceptanceClient, InspectionQueriesProofs

-----------------------------------------------------------------------------
(* The digits.                                                              *)

\* The ten characters that ParseInt reads as digits.
DigitChars == DOMAIN DigitValue

\* A digit and its value name each other.
LEMMA DigitsAndValues ==
  /\ DigitChars = {"0", "1", "2", "3", "4", "5", "6", "7", "8", "9"}
  /\ \A c \in DigitChars : DigitValue[c] \in 0..9 /\ Digits[DigitValue[c] + 1] = c
  /\ \A d \in 0..9 : Digits[d + 1] \in DigitChars /\ DigitValue[Digits[d + 1]] = d
  /\ DigitValue["0"] = 0 /\ Digits[1] = "0"
<1>1. DOMAIN Digits = 1..10
  BY DEF Digits
<1>2. \A j, k \in 1..10 : Digits[j] = Digits[k] => j = k
  BY DEF Digits
<1>3. DigitChars = {Digits[k] : k \in 1..10}
  BY <1>1 DEF DigitChars, DigitValue
<1>4. ASSUME NEW k \in 1..10
      PROVE  DigitValue[Digits[k]] = k - 1
  <2>1. (CHOOSE j \in DOMAIN Digits : Digits[j] = Digits[k]) = k
    BY <1>1, <1>2
  <2>2. Digits[k] \in {Digits[j] : j \in DOMAIN Digits}
    BY <1>1
  <2> QED
    BY <2>1, <2>2 DEF DigitValue
<1>5. DigitChars = {"0", "1", "2", "3", "4", "5", "6", "7", "8", "9"}
  BY <1>3 DEF Digits
<1>6. ASSUME NEW c \in DigitChars
      PROVE  DigitValue[c] \in 0..9 /\ Digits[DigitValue[c] + 1] = c
  <2>1. PICK k \in 1..10 : c = Digits[k]
    BY <1>3
  <2> QED
    BY <1>4, <2>1
<1>7. ASSUME NEW d \in 0..9
      PROVE  Digits[d + 1] \in DigitChars /\ DigitValue[Digits[d + 1]] = d
  <2>1. d + 1 \in 1..10 /\ d + 1 - 1 = d
    OBVIOUS
  <2> QED
    BY <1>3, <1>4, <2>1
<1>8. Digits[1] = "0"
  BY DEF Digits
<1> QED
  BY <1>5, <1>6, <1>7, <1>8

-----------------------------------------------------------------------------
(* The value of a sequence of digits.                                       *)

\* f is the value of each prefix of s, up to the length m.
PrefixValues(f, s, m) ==
  f = [k \in 0..m |-> IF k = 0 THEN 0 ELSE 10 * f[k - 1] + DigitValue[s[k]]]

\* There is such a function, whatever the sequence.
LEMMA PrefixValuesExist ==
  ASSUME NEW s, NEW m \in Nat
  PROVE  \E f : PrefixValues(f, s, m)
<1> DEFINE Without == {n \in Nat : ~ \E f : PrefixValues(f, s, n)}
<1> SUFFICES ASSUME Without # {}
             PROVE  FALSE
  BY DEF Without
<1>1. PICK n \in Without : \A j \in Without : n <= j
  <2>1. Without \subseteq Nat
    OBVIOUS
  <2> HIDE DEF Without
  <2> QED
    BY <2>1, LeastNatural
<1>2. CASE n = 0
  <2>1. PrefixValues([k \in 0..0 |-> 0], s, 0)
    BY DEF PrefixValues
  <2> QED
    BY <1>1, <1>2, <2>1
<1>3. CASE n # 0
  <2>1. n - 1 \in Nat /\ n - 1 \notin Without
    BY <1>1, <1>3
  <2>2. PICK f : PrefixValues(f, s, n - 1)
    BY <2>1
  <2> DEFINE g == [k \in 0..n |-> IF k < n THEN f[k] ELSE 10 * f[n - 1] + DigitValue[s[n]]]
  <2>3. ASSUME NEW k \in 0..n
        PROVE  g[k] = IF k = 0 THEN 0 ELSE 10 * g[k - 1] + DigitValue[s[k]]
    <3>1. CASE k = n
      BY <1>1, <1>3, <3>1
    <3>2. CASE k # n
      <4>1. k \in 0..n - 1 /\ (k # 0 => k - 1 \in 0..n - 1)
        BY <1>1, <3>2
      <4>2. f[k] = IF k = 0 THEN 0 ELSE 10 * f[k - 1] + DigitValue[s[k]]
        BY <2>2, <4>1 DEF PrefixValues
      <4> QED
        BY <4>1, <4>2
    <3> QED
      BY <3>1, <3>2
  <2>4. PrefixValues(g, s, n)
    BY <2>3 DEF PrefixValues
  <2> QED
    BY <1>1, <2>4
<1> QED
  BY <1>2, <1>3

\* The values of the prefixes are numbers and no more than the prefix decides them.
LEMMA PrefixValuesAgree ==
  ASSUME NEW s, NEW t, NEW m \in Nat, NEW n \in Nat, m <= n,
         NEW f, PrefixValues(f, s, m), NEW g, PrefixValues(g, t, n),
         \A k \in 1..m : s[k] = t[k] /\ s[k] \in DigitChars
  PROVE  \A k \in 0..m : f[k] = g[k] /\ f[k] \in Nat
<1> DEFINE Differ == {k \in 0..m : ~ (f[k] = g[k] /\ f[k] \in Nat)}
<1> SUFFICES ASSUME Differ # {}
             PROVE  FALSE
  BY DEF Differ
<1>1. PICK k \in Differ : \A j \in Differ : k <= j
  <2>1. Differ \subseteq Nat
    OBVIOUS
  <2> HIDE DEF Differ
  <2> QED
    BY <2>1, LeastNatural
<1>2. k \in 0..m /\ k \in 0..n
  BY <1>1
<1>3. /\ f[k] = IF k = 0 THEN 0 ELSE 10 * f[k - 1] + DigitValue[s[k]]
      /\ g[k] = IF k = 0 THEN 0 ELSE 10 * g[k - 1] + DigitValue[t[k]]
  BY <1>2 DEF PrefixValues
<1>4. k # 0
  BY <1>1, <1>3
<1>5. k - 1 \in 0..m /\ k - 1 \notin Differ /\ k \in 1..m
  BY <1>1, <1>4
<1>6. f[k - 1] = g[k - 1] /\ f[k - 1] \in Nat
  BY <1>5
<1>7. DigitValue[s[k]] \in Nat /\ s[k] = t[k]
  BY <1>5, DigitsAndValues
<1>8. f[k] = g[k] /\ f[k] \in Nat
  BY <1>3, <1>4, <1>6, <1>7
<1> QED
  BY <1>1, <1>8

\* ValueOf is the last of the values.
LEMMA ValueOfPrefixes ==
  ASSUME NEW s \in Seq(DigitChars)
  PROVE  \E f : PrefixValues(f, s, Len(s)) /\ ValueOf(s) = f[Len(s)]
<1>1. ValueOf(s) = (CHOOSE f : PrefixValues(f, s, Len(s)))[Len(s)]
  BY Zenon DEF ValueOf, PrefixValues
<1>2. \E f : PrefixValues(f, s, Len(s))
  BY PrefixValuesExist
<1> QED
  BY <1>1, <1>2

\* A further digit is ten times more significant for those before it.
LEMMA ValueOfAppend ==
  /\ \A c \in DigitChars : ValueOf(<<c>>) = DigitValue[c]
  /\ \A s \in Seq(DigitChars), c \in DigitChars :
       /\ ValueOf(s) \in Nat
       /\ ValueOf(Append(s, c)) = 10 * ValueOf(s) + DigitValue[c]
<1>1. ValueOf(<<>>) = 0
  <2>1. <<>> \in Seq(DigitChars) /\ Len(<<>>) = 0
    OBVIOUS
  <2>2. PICK f : PrefixValues(f, <<>>, 0) /\ ValueOf(<<>>) = f[0]
    BY <2>1, ValueOfPrefixes
  <2> QED
    BY <2>2 DEF PrefixValues
<1>2. ASSUME NEW s \in Seq(DigitChars), NEW c \in DigitChars
      PROVE  /\ ValueOf(s) \in Nat
             /\ ValueOf(Append(s, c)) = 10 * ValueOf(s) + DigitValue[c]
  <2> DEFINE t == Append(s, c)
             m == Len(s)
  <2>1. /\ m \in Nat /\ t \in Seq(DigitChars) /\ Len(t) = m + 1 /\ t[m + 1] = c
        /\ \A k \in 1..m : s[k] = t[k] /\ s[k] \in DigitChars
    OBVIOUS
  <2>2. PICK f : PrefixValues(f, s, m) /\ ValueOf(s) = f[m]
    BY ValueOfPrefixes
  <2>3. PICK g : PrefixValues(g, t, m + 1) /\ ValueOf(t) = g[m + 1]
    BY <2>1, ValueOfPrefixes
  <2> HIDE DEF t, m
  <2>4. \A k \in 0..m : f[k] = g[k] /\ f[k] \in Nat
    BY <2>1, <2>2, <2>3, PrefixValuesAgree
  <2>5. g[m + 1] = 10 * g[m] + DigitValue[c]
    <3>1. m + 1 \in 0..m + 1 /\ m + 1 # 0 /\ m + 1 - 1 = m
      BY <2>1
    <3> QED
      BY <2>1, <2>3, <3>1 DEF PrefixValues
  <2>6. f[m] = g[m] /\ f[m] \in Nat
    BY <2>1, <2>4
  <2> QED
    BY <2>2, <2>3, <2>5, <2>6 DEF t
<1>3. ASSUME NEW c \in DigitChars
      PROVE  ValueOf(<<c>>) = DigitValue[c]
  <2> DEFINE none == <<>>
  <2>1. none \in Seq(DigitChars) /\ <<c>> = Append(none, c)
    OBVIOUS
  <2>2. ValueOf(none) = 0 /\ DigitValue[c] \in 0..9
    BY <1>1, DigitsAndValues
  <2> HIDE DEF none
  <2>3. ValueOf(Append(none, c)) = 10 * ValueOf(none) + DigitValue[c]
    BY <1>2, <2>1
  <2>4. ValueOf(Append(none, c)) = DigitValue[c]
    BY <2>2, <2>3
  <2> QED
    BY <2>1, <2>4, Zenon
<1> QED
  BY <1>2, <1>3

-----------------------------------------------------------------------------
(* The numeral of a number.                                                 *)

\* f is the numeral of each number up to m.
NumeralsUpTo(f, m) ==
  f = [n \in 0..m |-> IF n < 10 THEN <<Digits[n + 1]>>
                      ELSE Append(f[n \div 10], Digits[(n % 10) + 1])]

\* What division by ten leaves.
LEMMA Tenth ==
  ASSUME NEW n \in Nat
  PROVE  /\ n \div 10 \in Nat /\ n % 10 \in 0..9
         /\ n = 10 * (n \div 10) + (n % 10)
         /\ n >= 10 => n \div 10 >= 1 /\ n \div 10 < n
         /\ \A q \in Nat, d \in 0..9 : n = 10 * q + d => n \div 10 = q /\ n % 10 = d
<1>1. n \div 10 \in Nat /\ n % 10 \in 0..9 /\ n = 10 * (n \div 10) + (n % 10)
  <2>1. n \div 10 \in Nat
    OBVIOUS
  <2>2. n % 10 \in 0..9
    OBVIOUS
  <2>3. n = 10 * (n \div 10) + (n % 10)
    BY <2>1, <2>2
  <2> QED
    BY <2>1, <2>2, <2>3
<1>2. ASSUME NEW q \in Nat, NEW d \in 0..9, n = 10 * q + d
      PROVE  n \div 10 = q /\ n % 10 = d
  <2>1. n % 10 = d
    BY <1>2
  <2> DEFINE k == n \div 10
  <2>2. k \in Nat /\ n = 10 * k + d
    BY <1>1, <2>1
  <2> HIDE DEF k
  <2>3. k = q
    BY <1>2, <2>2
  <2> QED
    BY <2>1, <2>3 DEF k
<1>3. n >= 10 => n \div 10 >= 1 /\ n \div 10 < n
  <2> DEFINE k == n \div 10
             d == n % 10
  <2>1. k \in Nat /\ d \in 0..9 /\ n = 10 * k + d
    BY <1>1
  <2> HIDE DEF k, d
  <2>2. n >= 10 => k >= 1 /\ k < n
    BY <2>1
  <2> QED
    BY <2>2 DEF k
<1> QED
  BY <1>1, <1>2, <1>3

\* There is such a function.
LEMMA NumeralsExist ==
  ASSUME NEW m \in Nat
  PROVE  \E f : NumeralsUpTo(f, m)
<1> DEFINE Without == {n \in Nat : ~ \E f : NumeralsUpTo(f, n)}
<1> SUFFICES ASSUME Without # {}
             PROVE  FALSE
  BY DEF Without
<1>1. PICK n \in Without : \A j \in Without : n <= j
  <2>1. Without \subseteq Nat
    OBVIOUS
  <2> HIDE DEF Without
  <2> QED
    BY <2>1, LeastNatural
<1>2. CASE n < 10
  <2> DEFINE g == [k \in 0..n |-> <<Digits[k + 1]>>]
  <2>1. \A k \in 0..n : k < 10
    BY <1>1, <1>2
  <2>2. NumeralsUpTo(g, n)
    BY <2>1, Zenon DEF NumeralsUpTo
  <2> QED
    BY <1>1, <2>2
<1>3. CASE ~ (n < 10)
  <2>1. n - 1 \in Nat /\ n - 1 \notin Without
    BY <1>1, <1>3
  <2>2. PICK f : NumeralsUpTo(f, n - 1)
    BY <2>1
  <2> DEFINE g == [k \in 0..n |-> IF k < n THEN f[k]
                                  ELSE Append(f[n \div 10], Digits[(n % 10) + 1])]
  <2>3. ASSUME NEW k \in 0..n
        PROVE  g[k] = IF k < 10 THEN <<Digits[k + 1]>>
                      ELSE Append(g[k \div 10], Digits[(k % 10) + 1])
    <3>1. k >= 10 => k \div 10 \in 0..n /\ k \div 10 < n /\ g[k \div 10] = f[k \div 10]
      <4>1. k >= 10 => k \div 10 \in Nat /\ k \div 10 < k
        BY <1>1, Tenth
      <4>2. k >= 10 => k \div 10 \in 0..n /\ k \div 10 < n
        BY <1>1, <4>1
      <4> QED
        BY <4>2
    <3>2. CASE k = n
      <4>1. g[k] = Append(f[k \div 10], Digits[(k % 10) + 1])
        BY <1>1, <3>2
      <4> QED
        BY <1>1, <1>3, <3>1, <3>2, <4>1
    <3>3. CASE k # n
      <4>1. k \in 0..n - 1 /\ k < n
        BY <1>1, <3>3
      <4>2. f[k] = IF k < 10 THEN <<Digits[k + 1]>>
                   ELSE Append(f[k \div 10], Digits[(k % 10) + 1])
        BY <2>2, <4>1 DEF NumeralsUpTo
      <4>3. g[k] = f[k]
        BY <4>1
      <4> QED
        BY <1>1, <3>1, <4>2, <4>3
    <3> QED
      BY <3>2, <3>3
  <2>4. NumeralsUpTo(g, n)
    BY <2>3, Zenon DEF NumeralsUpTo
  <2> QED
    BY <1>1, <2>4
<1> QED
  BY <1>1, <1>2, <1>3

\* The numeral of a number is its last digit after that of its tenth.
LEMMA NumeralOf ==
  ASSUME NEW n \in 0..MaxInt64
  PROVE  Numeral[n] = IF n < 10 THEN <<Digits[n + 1]>>
                      ELSE Append(Numeral[n \div 10], Digits[(n % 10) + 1])
<1>1. Numeral = CHOOSE f : NumeralsUpTo(f, MaxInt64)
  BY Zenon DEF Numeral, NumeralsUpTo
<1>2. \E f : NumeralsUpTo(f, MaxInt64)
  BY NumeralsExist, ParametersAssumption
<1>3. NumeralsUpTo(Numeral, MaxInt64)
  BY <1>1, <1>2
<1> QED
  BY <1>3 DEF NumeralsUpTo

\* A numeral is digits without a leading zero, and its value is the number.
LEMMA NumeralReads ==
  ASSUME NEW n \in 1..MaxInt64
  PROVE  /\ Numeral[n] \in Seq(DigitChars) /\ Len(Numeral[n]) > 0
         /\ Numeral[n][1] # "0" /\ ValueOf(Numeral[n]) = n
<1> DEFINE Reads(k) == /\ Numeral[k] \in Seq(DigitChars) /\ Len(Numeral[k]) > 0
                       /\ Numeral[k][1] # "0" /\ ValueOf(Numeral[k]) = k
           Wrong == {k \in 1..MaxInt64 : ~ Reads(k)}
<1> SUFFICES ASSUME Wrong # {}
             PROVE  FALSE
  BY DEF Wrong
<1>1. PICK k \in Wrong : \A j \in Wrong : k <= j
  <2>1. Wrong \subseteq Nat
    OBVIOUS
  <2> HIDE DEF Wrong
  <2> QED
    BY <2>1, LeastNatural
<1>2. k \in 1..MaxInt64 /\ k \in 0..MaxInt64 /\ k \in Nat
  BY <1>1, ParametersAssumption
<1>3. CASE k < 10
  <2>1. Numeral[k] = <<Digits[k + 1]>>
    BY <1>2, <1>3, NumeralOf
  <2>2. Digits[k + 1] \in DigitChars /\ DigitValue[Digits[k + 1]] = k
    <3>1. k \in 0..9
      BY <1>2, <1>3
    <3> QED
      BY <3>1, DigitsAndValues
  <2>3. Digits[k + 1] # "0"
    BY <1>2, <2>2, DigitsAndValues
  <2>4. ValueOf(Numeral[k]) = k
    BY <2>1, <2>2, ValueOfAppend
  <2> DEFINE c == Digits[k + 1]
  <2>5. <<c>> \in Seq(DigitChars) /\ Len(<<c>>) > 0 /\ <<c>>[1] # "0"
    <3> HIDE DEF c
    <3>1. c \in DigitChars /\ c # "0"
      BY <2>2, <2>3 DEF c
    <3> QED
      BY <3>1
  <2> QED
    BY <1>1, <2>1, <2>4, <2>5
<1>4. CASE ~ (k < 10)
  <2> DEFINE q == k \div 10
             d == k % 10
  <2>1. q \in Nat /\ q >= 1 /\ q < k /\ d \in 0..9 /\ k = 10 * q + d
    BY <1>2, <1>4, Tenth
  <2> HIDE DEF q, d
  <2>2. Numeral[k] = Append(Numeral[q], Digits[d + 1])
    BY <1>2, <1>4, NumeralOf DEF q, d
  <2>3. q \in 1..MaxInt64 /\ q \notin Wrong
    BY <1>1, <1>2, <2>1, ParametersAssumption
  <2>4. Reads(q)
    BY <2>3
  <2>5. Digits[d + 1] \in DigitChars /\ DigitValue[Digits[d + 1]] = d
    BY <2>1, DigitsAndValues
  <2>6. ValueOf(Numeral[k]) = k
    BY <2>1, <2>2, <2>4, <2>5, ValueOfAppend
  <2>7. Numeral[k] \in Seq(DigitChars) /\ Len(Numeral[k]) > 0 /\ Numeral[k][1] # "0"
    BY <2>2, <2>4, <2>5
  <2> QED
    BY <1>1, <2>6, <2>7
<1> QED
  BY <1>2, <1>3, <1>4

\* Digits without a leading zero are the numeral of their value.
LEMMA DigitsAreNumeral ==
  ASSUME NEW t \in Seq(DigitChars), Len(t) > 0, t[1] # "0"
  PROVE  /\ ValueOf(t) \in Nat \ {0}
         /\ ValueOf(t) <= MaxInt64 => t = Numeral[ValueOf(t)]
<1> DEFINE Fits(s) == /\ ValueOf(s) \in Nat \ {0}
                      /\ ValueOf(s) <= MaxInt64 => s = Numeral[ValueOf(s)]
           Wrong == {m \in Nat \ {0} : \E s \in Seq(DigitChars) :
                                         Len(s) = m /\ s[1] # "0" /\ ~ Fits(s)}
<1> SUFFICES ASSUME Wrong # {}
             PROVE  FALSE
  <2>1. Len(t) \in Nat \ {0}
    OBVIOUS
  <2> QED
    BY <2>1
<1>1. PICK m \in Wrong : \A j \in Wrong : m <= j
  <2>1. Wrong \subseteq Nat
    OBVIOUS
  <2> HIDE DEF Wrong
  <2> QED
    BY <2>1, LeastNatural
<1>2. m \in Nat \ {0}
  BY <1>1
<1>3. PICK s \in Seq(DigitChars) : Len(s) = m /\ s[1] # "0" /\ ~ Fits(s)
  BY <1>1
<1> DEFINE u == SubSeq(s, 1, m - 1)
           c == s[m]
<1>4. /\ u \in Seq(DigitChars) /\ c \in DigitChars /\ s = Append(u, c) /\ Len(u) = m - 1
      /\ \A k \in 1..m - 1 : u[k] = s[k]
  BY <1>2, <1>3
<1> HIDE DEF u, c
<1>5. DigitValue[c] \in 0..9 /\ Digits[DigitValue[c] + 1] = c
  BY <1>4, DigitsAndValues
<1>6. ValueOf(u) \in Nat /\ ValueOf(s) = 10 * ValueOf(u) + DigitValue[c]
  BY <1>4, ValueOfAppend
<1>7. CASE m = 1
  <2>1. u = <<>> /\ s = <<c>>
    BY <1>3, <1>4, <1>7
  <2>2. ValueOf(s) = DigitValue[c]
    BY <1>5, <1>6, <2>1, ValueOfAppend
  <2>3. DigitValue[c] # 0
    BY <1>3, <1>5, <2>1, DigitsAndValues
  <2>4. ValueOf(s) <= MaxInt64 => Numeral[ValueOf(s)] = <<c>>
    <3>1. ValueOf(s) <= MaxInt64 => ValueOf(s) \in 0..MaxInt64 /\ ValueOf(s) < 10
      BY <1>5, <2>2, ParametersAssumption
    <3> QED
      BY <1>5, <2>2, <3>1, NumeralOf
  <2> QED
    BY <1>3, <1>5, <2>1, <2>2, <2>3, <2>4
<1>8. CASE m # 1
  <2>1. m - 1 \in Nat \ {0} /\ m - 1 \notin Wrong
    BY <1>1, <1>2, <1>8
  <2>2. u[1] # "0"
    BY <1>2, <1>3, <1>4, <1>8
  <2>3. Fits(u)
    BY <1>4, <2>1, <2>2
  <2> DEFINE n == ValueOf(s)
             q == ValueOf(u)
  <2>4. q \in Nat \ {0} /\ n = 10 * q + DigitValue[c] /\ n \in Nat /\ n >= 10
    <3>1. q \in Nat \ {0}
      BY <2>3
    <3>2. n = 10 * q + DigitValue[c]
      BY <1>6
    <3> DEFINE d == DigitValue[c]
    <3>3. d \in 0..9
      BY <1>5
    <3> HIDE DEF n, q, d
    <3>4. n = 10 * q + d
      BY <3>2 DEF d
    <3>5. n \in Nat /\ n >= 10
      BY <3>1, <3>3, <3>4
    <3> QED
      BY <3>1, <3>2, <3>5
  <2>5. n \div 10 = q /\ n % 10 = DigitValue[c]
    <3> HIDE DEF n, q
    <3> QED
      BY <1>5, <2>4, Tenth
  <2>6. n <= MaxInt64 => Numeral[n] = Append(Numeral[q], c) /\ q <= MaxInt64
    <3> HIDE DEF n, q
    <3>1. n <= MaxInt64 => n \in 0..MaxInt64 /\ ~ (n < 10) /\ q <= MaxInt64
      BY <1>5, <2>4, ParametersAssumption
    <3> QED
      BY <1>5, <2>5, <3>1, NumeralOf
  <2>7. n <= MaxInt64 => s = Numeral[n]
    BY <1>4, <2>3, <2>6
  <2> QED
    BY <1>3, <2>4, <2>7
<1> QED
  BY <1>7, <1>8

-----------------------------------------------------------------------------
(* What the handlers read.                                                  *)

\* The digits and signs, and anything else, that a parameter is made of.
LEMMA CanonicalReads ==
  ASSUME NEW Chars, NEW t \in Seq(Chars), t # <<>>, Canonical(t)
  PROVE  ParseInt(t) = IF t \in Seq(DigitChars) THEN {ValueOf(t)} \cap (- MaxInt64 - 1 .. MaxInt64)
                       ELSE {}
<1>1. t[1] \in DigitChars /\ t[1] \notin Signs
  BY DigitsAndValues DEF Canonical, DigitChars, Signs
<1>2. ~ (t # <<>> /\ t[1] \in Signs)
  BY <1>1
<1>3. (\E k \in DOMAIN t : t[k] \notin DOMAIN DigitValue) <=> t \notin Seq(DigitChars)
  <2>1. ASSUME \A k \in DOMAIN t : t[k] \in DOMAIN DigitValue
        PROVE  t \in Seq(DigitChars)
    <3>1. Len(t) \in Nat /\ DOMAIN t = 1..Len(t) /\ t = [k \in 1..Len(t) |-> t[k]]
      OBVIOUS
    <3>2. t \in [1..Len(t) -> DigitChars]
      BY <2>1, <3>1 DEF DigitChars
    <3> QED
      BY <3>1, <3>2
  <2>2. ASSUME t \in Seq(DigitChars)
        PROVE  \A k \in DOMAIN t : t[k] \in DOMAIN DigitValue
    BY <2>2 DEF DigitChars
  <2> QED
    BY <2>1, <2>2
<1>4. ParseInt(t) = IF t = <<>> \/ \E k \in DOMAIN t : t[k] \notin DOMAIN DigitValue
                    THEN {}
                    ELSE {ValueOf(t)} \cap (- MaxInt64 - 1 .. MaxInt64)
  BY <1>2 DEF ParseInt
<1> QED
  BY <1>3, <1>4

\* A text is read as the number n exactly when it is n's numeral: neither a
\* sign nor a leading zero, an overflow or any other text gives a second name
\* to a record, and none is without one (handler.go:317-327).
THEOREM OneTextPerID ==
  ASSUME NEW Chars, NEW t \in Seq(Chars), NEW n \in 1..MaxInt64
  PROVE  ParsePositiveID(t) = {n} <=> t = Numeral[n]
<1>1. ASSUME t = Numeral[n]
      PROVE  ParsePositiveID(t) = {n}
  <2>1. t \in Seq(DigitChars) /\ Len(t) > 0 /\ t[1] # "0" /\ ValueOf(t) = n
    BY <1>1, NumeralReads
  <2>2. t # <<>> /\ Canonical(t)
    <3>1. t[1] \in DigitChars
      BY <2>1
    <3> QED
      BY <2>1, <3>1 DEF Canonical, DigitChars
  <2>3. ParseInt(t) = {n} \cap (- MaxInt64 - 1 .. MaxInt64)
    BY <2>1, <2>2, CanonicalReads
  <2>4. n \in - MaxInt64 - 1 .. MaxInt64 /\ n > 0
    BY ParametersAssumption
  <2>5. ParseInt(t) = {n}
    BY <2>3, <2>4
  <2> QED
    BY <2>2, <2>4, <2>5 DEF ParsePositiveID
<1>2. ASSUME ParsePositiveID(t) = {n}
      PROVE  t = Numeral[n]
  <2>1. n \in ParseInt(t) /\ Canonical(t)
    BY <1>2 DEF ParsePositiveID
  <2>2. t # <<>>
    <3>1. ASSUME t = <<>>
          PROVE  ParseInt(t) = {}
      BY <3>1 DEF ParseInt
    <3> QED
      BY <2>1, <3>1
  <2>3. t \in Seq(DigitChars) /\ ValueOf(t) = n
    BY <2>1, <2>2, CanonicalReads
  <2>4. Len(t) > 0 /\ t[1] # "0"
    <3>1. Len(t) > 0
      BY <2>2
    <3> QED
      BY <2>1, <3>1 DEF Canonical
  <2> QED
    BY <2>3, <2>4, DigitsAreNumeral
<1> QED
  BY <1>1, <1>2

\* Every text is read as one id or as none.
THEOREM IDsArePositive ==
  ASSUME NEW Chars, NEW t \in Seq(Chars)
  PROVE  \/ ParsePositiveID(t) = {}
         \/ \E n \in 1..MaxInt64 : ParsePositiveID(t) = {n}
<1> SUFFICES ASSUME NEW n \in ParsePositiveID(t)
             PROVE  \E m \in 1..MaxInt64 : ParsePositiveID(t) = {m}
  OBVIOUS
<1>1. n \in ParseInt(t) /\ n > 0 /\ Canonical(t)
  BY DEF ParsePositiveID
<1>2. t # <<>>
  <2>1. ASSUME t = <<>>
        PROVE  ParseInt(t) = {}
    BY <2>1 DEF ParseInt
  <2> QED
    BY <1>1, <2>1
<1>3. ParseInt(t) = {n} /\ n \in - MaxInt64 - 1 .. MaxInt64
  BY <1>1, <1>2, CanonicalReads
<1>4. n \in 1..MaxInt64
  BY <1>1, <1>3, ParametersAssumption
<1>5. ParsePositiveID(t) = {n}
  BY <1>1, <1>3 DEF ParsePositiveID
<1> QED
  BY <1>4, <1>5

\* The same of a limit, which is one of 1 to MaxPage.
THEOREM OneTextPerLimit ==
  ASSUME NEW Chars, NEW t \in Seq(Chars), t # NoText, NEW n \in 1..MaxPage
  PROVE  ParseLimit(t) = {n} <=> t = Numeral[n]
<1>1. n \in 1..MaxInt64
  BY ParametersAssumption
<1>2. ParseLimit(t) = ParsePositiveID(t) \cap (1..MaxPage)
  BY DEF ParseLimit, ParsePositiveID
<1>3. ParseLimit(t) = {n} <=> ParsePositiveID(t) = {n}
  BY <1>2, IDsArePositive
<1> QED
  BY <1>1, <1>3, OneTextPerID

-----------------------------------------------------------------------------
(* The tables.                                                              *)

\* No two bindings share an identifier, a key, a chip or a board.
ColumnsUnique ==
  \A b, c \in bindings : \/ b.binding_id = c.binding_id
                          \/ b.request_key = c.request_key
                          \/ b.chip_uid = c.chip_uid
                          \/ b.board_serial = c.board_serial
                          => b = c

\* A value that is neither refused by identPattern nor of the wrong JSON type.
IsWord(value) == value[1] \notin {"illegal", "number"}

\* The sequences are ahead of the identifiers they gave out, and the records
\* are ones the queries are exact on.
TablesInv ==
  /\ bindingSeq \in 0..MaxInt64 /\ inspectionSeq \in 0..MaxInt64
  /\ \A b \in bindings : b.binding_id \in 1..bindingSeq
  /\ \A b \in bindings, f \in CreateFields : IsWord(b[f])
  /\ \A i \in inspections : i.inspection_id \in 1..inspectionSeq
  /\ ColumnsUnique
  /\ Decided(inspections, bindings)

\* What a client finds in an answer.
LEMMA ReplyFields ==
  ASSUME NEW status, NEW b, NEW code, NEW fields
  PROVE  /\ Reply(status, b).status = status /\ Reply(status, b).body = b
         /\ Reply(status, b).code # "DEVICE_ALREADY_BOUND"
         /\ Refuse(status, code, fields).status = status
         /\ Refuse(status, code, fields).code = code
<1>1. Reply(status, b).status = status /\ Reply(status, b).body = b
  BY DEF Reply
<1>2. Reply(status, b).code # "DEVICE_ALREADY_BOUND"
  <2>1. Reply(status, b).code = ""
    BY DEF Reply
  <2> QED
    BY <2>1
<1>3. Refuse(status, code, fields).status = status /\ Refuse(status, code, fields).code = code
  BY DEF Refuse
<1> QED
  BY <1>1, <1>2, <1>3

\* A refused body is answered with 422.
LEMMA RefusalsAreInvalid ==
  ASSUME NEW content, NEW fields, NEW r \in Refusals(content, fields)
  PROVE  r.status = 422 /\ r.code = "VALIDATION_FAILED"
<1>1. \E x : r = Invalid(x)
  BY DEF Refusals
<1> QED
  BY <1>1, ReplyFields DEF Invalid

\* A body that is not refused has legal identifiers in its fields.
LEMMA AcceptedFields ==
  ASSUME NEW content, NEW fields, Refusals(content, fields) = {}
  PROVE  \A f \in fields : IsWord(Decoded(content, fields)[f])
<1> DEFINE bad == {f \in fields : ~ IsIdent(Decoded(content, fields)[f])}
<1>1. {Invalid(b) : b \in {bad} \ {{}}} = {} /\ ~ Undecodable(content, fields)
  BY DEF Refusals
<1>2. ASSUME NEW f \in fields
      PROVE  Decoded(content, fields)[f][1] # "number"
  <2>1. CASE \E k \in DOMAIN content : content[k][1] = f
    <3> DEFINE k == CHOOSE k \in DOMAIN content : content[k][1] = f
    <3>1. k \in DOMAIN content
      BY <2>1
    <3>2. Decoded(content, fields)[f] = content[k][2]
      BY <2>1 DEF Decoded
    <3> HIDE DEF k
    <3> QED
      BY <1>1, <3>1, <3>2 DEF Undecodable
  <2>2. CASE ~ \E k \in DOMAIN content : content[k][1] = f
    BY <2>2 DEF Decoded
  <2> QED
    BY <2>1, <2>2
<1> HIDE DEF bad
<1>3. bad = {}
  BY <1>1
<1> QED
  BY <1>2, <1>3 DEF bad, IsIdent, IsWord

\* Nothing stands against a binding of p.
Bookable(p) ==
  /\ bindingSeq # MaxInt64
  /\ \A f \in CreateFields : IsWord(p[f])
  /\ \A b \in bindings : /\ b.request_key # p.request_key
                         /\ b.chip_uid # p.chip_uid
                         /\ b.board_serial # p.board_serial

\* A create that is answered with 201, or with an occupied device, has drawn an
\* identifier; with 201 nothing stood against its binding.
LEMMA CreateAnswers ==
  ASSUME NEW content
  PROVE  /\ Create(content).status = 201 =>
              LET p == Decoded(content, CreateFields)
              IN  Bookable(p) /\ Create(content).body = Ledger!BindingOf(bindingSeq + 1, p)
         /\ Create(content).code = "DEVICE_ALREADY_BOUND" => bindingSeq # MaxInt64
<1> DEFINE p == Decoded(content, CreateFields)
           res == CreateResult(p)
           old == {b \in bindings : b.request_key = p.request_key}
<1>1. CASE Refusals(content, CreateFields) # {}
  <2>1. Create(content) \in Refusals(content, CreateFields)
    BY <1>1 DEF Create
  <2> QED
    BY <2>1, RefusalsAreInvalid
<1>2. CASE Refusals(content, CreateFields) = {}
  <2>1. Create(content) = Envelope(res)
    BY <1>2 DEF Create
  <2>2. \A f \in CreateFields : IsWord(p[f])
    BY <1>2, AcceptedFields
  <2> HIDE DEF p
  <2>3. CASE old # {}
    <3>1. res.outcome \in {"replayed", "request_key_conflict"}
      BY <2>3 DEF CreateResult, Ledger!AnswerExisting, Ledger!Replayed, Ledger!KeyConflict,
                  Ledger!CreateResult
    <3> HIDE DEF res
    <3>2. CASE res.outcome = "replayed"
      <4>1. Create(content) = Reply(200, res.binding)
        BY <2>1, <3>2 DEF Envelope
      <4> QED
        BY <4>1, ReplyFields
    <3>3. CASE res.outcome = "request_key_conflict"
      BY <2>1, <3>3, ReplyFields DEF Envelope
    <3> QED
      BY <3>1, <3>2, <3>3
  <2>4. CASE old = {} /\ bindingSeq = MaxInt64
    <3>1. res.outcome = "internal_error"
      BY <2>4 DEF CreateResult, Ledger!InternalError, Ledger!CreateResult
    <3> HIDE DEF res
    <3> QED
      BY <2>1, <3>1, ReplyFields DEF Envelope, Internal
  <2>5. CASE /\ old = {} /\ bindingSeq # MaxInt64
             /\ Ledger!ChipTaken(p) \/ Ledger!BoardTaken(p)
    <3>1. res.outcome = "device_occupied"
      BY <2>5 DEF CreateResult, Ledger!DeviceOccupied, Ledger!CreateResult
    <3> HIDE DEF res
    <3> QED
      BY <2>1, <2>5, <3>1, ReplyFields DEF Envelope
  <2>6. CASE /\ old = {} /\ bindingSeq # MaxInt64
             /\ ~ Ledger!ChipTaken(p) /\ ~ Ledger!BoardTaken(p)
    <3>1. res.outcome = "created" /\ res.binding = Ledger!BindingOf(bindingSeq + 1, p)
      BY <2>6 DEF CreateResult, Ledger!Created, Ledger!CreateResult
    <3>2. \A b \in bindings : /\ b.request_key # p.request_key
                              /\ b.chip_uid # p.chip_uid
                              /\ b.board_serial # p.board_serial
      BY <2>6 DEF Ledger!ChipTaken, Ledger!BoardTaken
    <3> HIDE DEF res
    <3>3. Create(content) = Reply(201, res.binding)
      BY <2>1, <3>1 DEF Envelope
    <3>4. /\ Create(content).body = res.binding
          /\ Create(content).code # "DEVICE_ALREADY_BOUND"
      BY <3>3, ReplyFields
    <3> QED
      BY <2>2, <2>6, <3>1, <3>2, <3>4 DEF Bookable, p
  <2> QED
    BY <2>3, <2>4, <2>5, <2>6
<1> QED
  BY <1>1, <1>2

\* A scan that is answered with 201 has drawn an identifier.
LEMMA ScanAnswers ==
  ASSUME NEW content, CreateInspection(content).status = 201
  PROVE  inspectionSeq # MaxInt64
<1>1. CASE Refusals(content, ScanFields) # {}
  <2>1. CreateInspection(content) \in Refusals(content, ScanFields)
    BY <1>1 DEF CreateInspection
  <2> QED
    BY <2>1, RefusalsAreInvalid
<1>2. CASE Refusals(content, ScanFields) = {} /\ inspectionSeq = MaxInt64
  <2>1. CreateInspection(content) = Refuse(500, "INTERNAL", {})
    BY <1>2 DEF CreateInspection, Internal
  <2> QED
    BY <2>1, ReplyFields
<1> QED
  BY <1>1, <1>2

\* A judged scan stores ids of bindings, and the verdict that follows from them.
LEMMA JudgedFields ==
  ASSUME NEW scan
  PROVE  LET i   == Judged(scan)
             ids == {b.binding_id : b \in bindings}
         IN  /\ i.inspection_id = inspectionSeq + 1
             /\ i.chip_binding_id \in ids \cup {NoID}
             /\ i.board_binding_id \in ids \cup {NoID}
             /\ i.result = Verdict(i.chip_binding_id, i.board_binding_id)
<1>1. ASSUME NEW S \in SUBSET bindings
      PROVE  IDOf(S) \in {b.binding_id : b \in bindings} \cup {NoID}
  BY DEF IDOf
<1>2. /\ Resolve(bindings, scan).chip \in {b.binding_id : b \in bindings} \cup {NoID}
      /\ Resolve(bindings, scan).board \in {b.binding_id : b \in bindings} \cup {NoID}
  <2>1. \A S : S \in SUBSET bindings =>
          IDOf(S) \in {b.binding_id : b \in bindings} \cup {NoID}
    BY <1>1
  <2>2. IDOf({b \in bindings : b.chip_uid = scan.chip_uid})
          \in {b.binding_id : b \in bindings} \cup {NoID}
    BY <2>1
  <2>3. IDOf({b \in bindings : b.board_serial = scan.board_serial})
          \in {b.binding_id : b \in bindings} \cup {NoID}
    BY <2>1
  <2> QED
    BY <2>2, <2>3 DEF Resolve
<1>3. /\ Judged(scan).inspection_id = inspectionSeq + 1
      /\ Judged(scan).chip_binding_id = Resolve(bindings, scan).chip
      /\ Judged(scan).board_binding_id = Resolve(bindings, scan).board
      /\ Judged(scan).result = Verdict(Resolve(bindings, scan).chip, Resolve(bindings, scan).board)
  BY DEF Judged
<1> QED
  BY <1>2, <1>3

\* Booking a binding.
LEMMA CreateKeepsTables ==
  ASSUME TablesInv, NEW call, call.route = "create", Serve(call)
  PROVE  TablesInv'
<1> DEFINE res == Create(call.body)
<1>1. /\ bindings' = IF res.status = 201 THEN bindings \cup {res.body} ELSE bindings
      /\ bindingSeq' = IF res.status = 201 \/ res.code = "DEVICE_ALREADY_BOUND"
                       THEN bindingSeq + 1 ELSE bindingSeq
      /\ inspections' = inspections /\ inspectionSeq' = inspectionSeq
  <2>1. Response(call) = res
    BY DEF Response
  <2> HIDE DEF res
  <2> QED
    BY <2>1 DEF Serve, Effect
<1>2. CASE res.status = 201
  <2>1. PICK p : Bookable(p) /\ res.body = Ledger!BindingOf(bindingSeq + 1, p)
    BY <1>2, CreateAnswers
  <2> DEFINE new == res.body
  <2>2. /\ new.binding_id = bindingSeq + 1
        /\ new.request_key = p.request_key
        /\ new.chip_uid = p.chip_uid
        /\ new.board_serial = p.board_serial
        /\ \A f \in CreateFields : new[f] = p[f]
    <3> HIDE DEF res
    <3> QED
      BY <2>1 DEF Ledger!BindingOf, CreateFields
  <2> HIDE DEF res
  <2>3. bindings' = bindings \cup {new} /\ bindingSeq' = bindingSeq + 1
    BY <1>1, <1>2
  <2> HIDE DEF new
  <2>4. bindingSeq' \in 0..MaxInt64
    BY <2>1, <2>3, ParametersAssumption DEF TablesInv, Bookable
  <2>5. \A b \in bindings' : b.binding_id \in 1..bindingSeq'
    BY <2>2, <2>3, ParametersAssumption DEF TablesInv
  <2>6. \A b \in bindings : /\ b.binding_id # new.binding_id
                            /\ b.request_key # new.request_key
                            /\ b.chip_uid # new.chip_uid
                            /\ b.board_serial # new.board_serial
    BY <2>1, <2>2, ParametersAssumption DEF TablesInv, Bookable
  <2>7. ColumnsUnique'
    BY <2>3, <2>6 DEF TablesInv, ColumnsUnique
  <2>8. Decided(inspections', bindings')
    <3>1. IsFiniteSet(bindings') /\ \A b \in bindings' : b.binding_id \in Nat
      <4>1. IsFiniteSet(bindings')
        BY <2>3, FS_AddElement DEF TablesInv, Decided
      <4> QED
        BY <2>4, <2>5, <4>1
    <3>2. {b.binding_id : b \in bindings} \subseteq {b.binding_id : b \in bindings'}
      BY <2>3
    <3> QED
      BY <1>1, <3>1, <3>2 DEF TablesInv, Decided
  <2>9. \A b \in bindings', f \in CreateFields : IsWord(b[f])
    BY <2>1, <2>2, <2>3 DEF TablesInv, Bookable
  <2> QED
    BY <1>1, <2>4, <2>5, <2>7, <2>8, <2>9 DEF TablesInv
<1>3. CASE res.status # 201
  <2> HIDE DEF res
  <2>1. bindings' = bindings
    BY <1>1, <1>3
  <2>2. bindingSeq' \in 0..MaxInt64 /\ bindingSeq' >= bindingSeq
    <3>1. res.code = "DEVICE_ALREADY_BOUND" => bindingSeq # MaxInt64
      BY CreateAnswers DEF res
    <3> QED
      BY <1>1, <1>3, <3>1, ParametersAssumption DEF TablesInv
  <2>3. \A b \in bindings' : b.binding_id \in 1..bindingSeq'
    BY <2>1, <2>2, ParametersAssumption DEF TablesInv
  <2> QED
    BY <1>1, <2>1, <2>2, <2>3 DEF TablesInv, ColumnsUnique
<1> QED
  BY <1>2, <1>3

\* Recording a scan.
LEMMA ScanKeepsTables ==
  ASSUME TablesInv, NEW call, call.route = "inspect", Serve(call)
  PROVE  TablesInv'
<1> DEFINE res == CreateInspection(call.body)
           new == Judged(Decoded(call.body, ScanFields))
<1>1. /\ bindings' = bindings /\ bindingSeq' = bindingSeq
      /\ inspections' = IF res.status = 201 THEN inspections \cup {new} ELSE inspections
      /\ inspectionSeq' = IF res.status = 201 THEN inspectionSeq + 1 ELSE inspectionSeq
  <2>1. Response(call) = res
    BY DEF Response
  <2> HIDE DEF res, new
  <2> QED
    BY <2>1 DEF Serve, Effect, new
<1>2. CASE res.status # 201
  <2> HIDE DEF res, new
  <2> QED
    BY <1>1, <1>2 DEF TablesInv, ColumnsUnique
<1>3. CASE res.status = 201
  <2>1. inspectionSeq # MaxInt64
    BY <1>3, ScanAnswers
  <2>2. /\ new.inspection_id = inspectionSeq + 1
        /\ new.chip_binding_id \in {b.binding_id : b \in bindings} \cup {NoID}
        /\ new.board_binding_id \in {b.binding_id : b \in bindings} \cup {NoID}
        /\ new.result = Verdict(new.chip_binding_id, new.board_binding_id)
    BY JudgedFields
  <2> HIDE DEF res, new
  <2>3. inspections' = inspections \cup {new} /\ inspectionSeq' = inspectionSeq + 1
    BY <1>1, <1>3
  <2>4. inspectionSeq' \in 0..MaxInt64
    BY <2>1, <2>3, ParametersAssumption DEF TablesInv
  <2>5. \A i \in inspections' : i.inspection_id \in 1..inspectionSeq'
    BY <2>2, <2>3, ParametersAssumption DEF TablesInv
  <2>6. Table(inspections')
    <3>1. IsFiniteSet(inspections')
      BY <2>3, FS_AddElement DEF TablesInv, Decided, Table
    <3>2. \A i \in inspections : i.inspection_id # new.inspection_id
      BY <2>2, ParametersAssumption DEF TablesInv
    <3>3. \A i, j \in inspections' : i.inspection_id = j.inspection_id => i = j
      BY <2>3, <3>2 DEF TablesInv, Decided, Table
    <3>4. \A i \in inspections' : i.inspection_id \in Nat
      BY <2>4, <2>5
    <3> QED
      BY <3>1, <3>3, <3>4 DEF Table
  <2>7. Decided(inspections', bindings')
    BY <1>1, <2>2, <2>3, <2>6 DEF TablesInv, Decided
  <2> QED
    BY <1>1, <2>4, <2>5, <2>7 DEF TablesInv, ColumnsUnique
<1> QED
  BY <1>2, <1>3

\* Every call.
LEMMA ServeKeepsTables ==
  ASSUME TablesInv, NEW call, Serve(call)
  PROVE  TablesInv'
<1>1. CASE call.route \notin {"create", "inspect"}
  <2>1. UNCHANGED tables
    BY <1>1 DEF Serve, Effect, tables
  <2> QED
    BY <2>1 DEF tables, TablesInv, ColumnsUnique
<1> QED
  BY <1>1, CreateKeepsTables, ScanKeepsTables

\* A step of a run serves one call or none.
LEMMA StepsServe ==
  ASSUME [Next]_vars
  PROVE  (\E call : Serve(call)) \/ UNCHANGED tables
<1>1. \A call : Deliver(call) \/ Lose(call) => Serve(call) \/ UNCHANGED tables
  BY DEF Deliver, Lose
<1>2. ASSUME NEW step, Go(step)
      PROVE  (\E call : Serve(call)) \/ UNCHANGED tables
  <2>1. CASE Call(step)
    BY <1>1, <2>1 DEF Call
  <2>2. CASE Judge(step)
    BY <2>2 DEF Judge
  <2>3. CASE Churn
    <3>1. ASSUME NEW w \in Writers, WriteRow(w)
          PROVE  (\E call : Serve(call)) \/ UNCHANGED tables
      BY <1>1, <3>1 DEF WriteRow
    <3>2. CASE Round
      BY <1>1, <3>2 DEF Round
    <3> QED
      BY <2>3, <3>1, <3>2 DEF Churn, LookAtStop, CloseStop, Join
  <2> QED
    BY <1>2, <2>1, <2>2, <2>3 DEF Go
<1>3. CASE Poll \/ ServiceUp
  BY <1>3 DEF Poll, ServiceUp
<1>4. CASE ForeignStation
  BY <1>4 DEF ForeignStation
<1>5. CASE Over \/ UNCHANGED vars
  BY <1>5 DEF Over, vars
<1> QED
  BY <1>2, <1>3, <1>4, <1>5 DEF Next, Client

\* The tables satisfy their invariant in every run of the client.
THEOREM TablesInvariant == Spec => []TablesInv
<1>1. Init => TablesInv
  BY FS_EmptySet, ParametersAssumption, NullAssumption
  DEF Init, InitTables, TablesInv, ColumnsUnique, Decided, Table
<1>2. TablesInv /\ [Next]_vars => TablesInv'
  <2> SUFFICES ASSUME TablesInv, [Next]_vars
               PROVE  TablesInv'
    OBVIOUS
  <2>1. CASE UNCHANGED tables
    BY <2>1 DEF tables, TablesInv, ColumnsUnique
  <2> QED
    BY <2>1, StepsServe, ServeKeepsTables
<1> QED
  BY <1>1, <1>2, PTL DEF Spec

\* In the tables of every run a record has one name in the API (handler.go:317-327).
THEOREM OneNameInvariant == Spec => []OneNamePerRecord
<1>1. TablesInv => OneNamePerRecord
  <2> SUFFICES ASSUME TablesInv,
                      NEW n \in {i.inspection_id : i \in inspections} \cup {MaxInt64}
               PROVE  {t \in Texts : ParsePositiveID(t) = {n}} = {Numeral[n]} \cap Texts
    BY DEF OneNamePerRecord
  <2>1. n \in 1..MaxInt64
    BY ParametersAssumption DEF TablesInv
  <2> DEFINE Chars == {"0", "1", "2", "9", "+", "-"}
  <2>2. ASSUME NEW t \in Texts
        PROVE  t \in Seq(Chars)
    <3>1. PICK k \in 1..3 : t \in [1..k -> Chars]
      BY DEF Texts
    <3> HIDE DEF Chars
    <3> QED
      BY <3>1
  <2>3. \A t \in Texts : ParsePositiveID(t) = {n} <=> t = Numeral[n]
    BY <2>1, <2>2, OneTextPerID
  <2> QED
    BY <2>3
<1> QED
  BY <1>1, TablesInvariant, PTL

\* Every page of every history and every list of mismatch peers is exact in the
\* tables that calls leave behind, whatever was lost or came in between
\* (store.go:467-474, 547-557).
THEOREM ReportsExact ==
  Spec => [](\A t \in Nat, limit \in Nat \ {0} :
               /\ \A before : ExactPage(inspections, t, before, limit)
               /\ ExactPeers(inspections, bindings, t, limit))
<1>1. TablesInv => \A t \in Nat, limit \in Nat \ {0} :
                     /\ \A before : ExactPage(inspections, t, before, limit)
                     /\ ExactPeers(inspections, bindings, t, limit)
  BY PagesExact, PeersExact DEF TablesInv, Decided
<1> QED
  BY <1>1, TablesInvariant, PTL

-----------------------------------------------------------------------------
(* The lists of an answer.                                                  *)

\* list has every element of S once, in the order R.
ListsInOrder(list, S, R) ==
  /\ DOMAIN list = 1..Cardinality(S)
  /\ {list[k] : k \in DOMAIN list} = S
  /\ \A j, k \in DOMAIN list : j < k => <<list[j], list[k]>> \in R

\* Ranked puts the elements of a set in its order.
LEMMA RankedInOrder ==
  ASSUME NEW S, IsFiniteSet(S), NEW R, Orders(R, S)
  PROVE  ListsInOrder(Ranked(S, R), S, R)
<1> DEFINE n        == Cardinality(S)
           ahead(x) == Cardinality({y \in S : <<y, x>> \in R})
           rank     == [x \in S |-> ahead(x)]
           list     == Ranked(S, R)
<1>1. n \in Nat
  BY FS_CardinalityType
<1>2. /\ \A x \in S : ahead(x) \in 0..n - 1
      /\ \A x, y \in S : <<x, y>> \in R => ahead(x) < ahead(y)
  BY CutCounts, <1>1
<1>3. list = [k \in 1..n |-> CHOOSE x \in S : ahead(x) = k - 1]
  BY DEF Ranked
<1> HIDE DEF n, ahead, list
<1>4. \A x, y \in S : ahead(x) = ahead(y) => x = y
  <2> SUFFICES ASSUME NEW x \in S, NEW y \in S, x # y
               PROVE  ahead(x) # ahead(y)
    OBVIOUS
  <2>1. <<x, y>> \in R \/ <<y, x>> \in R
    BY DEF Orders
  <2>2. ahead(x) < ahead(y) \/ ahead(y) < ahead(x)
    BY <1>2, <2>1
  <2> QED
    BY <1>1, <1>2, <2>2
<1>5. \A k \in 0..n - 1 : \E x \in S : ahead(x) = k
  <2>1. rank \in Injection(S, 0..n - 1)
    BY <1>2, <1>4 DEF Injection, IsInjective
  <2>2. IsFiniteSet(0..n - 1) /\ Cardinality(0..n - 1) = n
    BY <1>1, FS_Interval
  <2>3. rank \in Surjection(S, 0..n - 1)
    <3> HIDE DEF rank
    <3>1. Cardinality(S) = Cardinality(0..n - 1)
      BY <2>2 DEF n
    <3> QED
      BY <2>1, <2>2, <3>1, FS_Injection
  <2> QED
    BY <2>3 DEF Surjection
<1>6. \A k \in 1..n : list[k] \in S /\ ahead(list[k]) = k - 1
  <2> SUFFICES ASSUME NEW k \in 1..n
               PROVE  list[k] \in S /\ ahead(list[k]) = k - 1
    OBVIOUS
  <2>1. k - 1 \in 0..n - 1
    BY <1>1
  <2>2. \E x \in S : ahead(x) = k - 1
    BY <1>5, <2>1
  <2> QED
    BY <1>3, <2>2
<1>7. DOMAIN list = 1..n
  BY <1>3
<1>8. \A x \in S : \E k \in 1..n : list[k] = x
  <2> SUFFICES ASSUME NEW x \in S
               PROVE  \E k \in 1..n : list[k] = x
    OBVIOUS
  <2> DEFINE k == ahead(x) + 1
  <2>1. k \in 1..n /\ k - 1 = ahead(x)
    BY <1>1, <1>2
  <2> HIDE DEF k
  <2>2. list[k] \in S /\ ahead(list[k]) = ahead(x)
    BY <1>6, <2>1
  <2> QED
    BY <1>4, <2>1, <2>2
<1>9. ASSUME NEW j \in 1..n, NEW k \in 1..n, j < k
      PROVE  <<list[j], list[k]>> \in R
  <2>1. /\ list[j] \in S /\ ahead(list[j]) = j - 1
        /\ list[k] \in S /\ ahead(list[k]) = k - 1
    BY <1>6
  <2>2. list[j] # list[k] /\ ~ (ahead(list[k]) < ahead(list[j]))
    BY <1>1, <1>9, <2>1
  <2> QED
    BY <1>2, <2>1, <2>2 DEF Orders
<1>10. {list[k] : k \in 1..n} = S
  BY <1>6, <1>8
<1> QED
  BY <1>7, <1>9, <1>10 DEF ListsInOrder, n, list

\* The entries of a page go from the newest to the oldest.
LEMMA NewestFirstInOrder ==
  ASSUME NEW S, Table(S)
  PROVE  LET list == NewestFirst(S)
         IN  /\ DOMAIN list = 1..Cardinality(S)
             /\ {list[k] : k \in DOMAIN list} = S
             /\ \A j, k \in DOMAIN list : j < k => list[j].inspection_id > list[k].inspection_id
<1> DEFINE R == {e \in S \X S : e[1].inspection_id > e[2].inspection_id}
<1>1. \A x, y \in S : <<x, y>> \in R <=> x.inspection_id > y.inspection_id
  OBVIOUS
<1>2. \A x, y : <<x, y>> \in R => x \in S /\ y \in S
  OBVIOUS
<1>3. NewestFirst(S) = Ranked(S, R)
  BY DEF NewestFirst
<1> HIDE DEF R
<1>4. Orders(R, S)
  BY <1>1 DEF Orders, Table
<1>5. ListsInOrder(Ranked(S, R), S, R)
  BY <1>4, RankedInOrder DEF Table
<1> QED
  BY <1>1, <1>2, <1>3, <1>5 DEF ListsInOrder

\* The peers go from the most frequent to the least, in the order of the statement.
LEMMA MostFrequentFirstInOrder ==
  ASSUME NEW S, IsFiniteSet(S),
         \A r \in S : r.peer \in Nat /\ r.occurrences \in Nat /\ r.last_inspection_id \in Nat,
         \A r, q \in S : r.peer = q.peer => r = q
  PROVE  LET list == MostFrequentFirst(S)
         IN  /\ DOMAIN list = 1..Cardinality(S)
             /\ {list[k] : k \in DOMAIN list} = S
             /\ \A j, k \in DOMAIN list : j < k => Before(list[j], list[k])
<1> DEFINE R == {e \in S \X S : Before(e[1], e[2])}
<1>1. \A x, y \in S : <<x, y>> \in R <=> Before(x, y)
  OBVIOUS
<1>2. \A x, y : <<x, y>> \in R => x \in S /\ y \in S
  OBVIOUS
<1>3. MostFrequentFirst(S) = Ranked(S, R)
  BY DEF MostFrequentFirst
<1> HIDE DEF R
<1>4. Orders(R, S)
  <2>1. \A p \in S : ~ Before(p, p)
    BY DEF Before
  <2>2. \A p, q \in S : p # q => Before(p, q) \/ Before(q, p)
    BY DEF Before
  <2>3. \A p, q, r \in S : Before(p, q) /\ Before(q, r) => Before(p, r)
    BY DEF Before
  <2> QED
    BY <1>1, <2>1, <2>2, <2>3 DEF Orders
<1>5. ListsInOrder(Ranked(S, R), S, R)
  BY <1>4, RankedInOrder
<1> QED
  BY <1>1, <1>2, <1>3, <1>5 DEF ListsInOrder

-----------------------------------------------------------------------------
(* What a client is answered about the tables.                              *)

\* A binding is found by each of its three identifiers, and it alone.
LookupsAnswered ==
  \A b \in bindings, column \in CreateFields : GetBy(column, b[column]) = Reply(200, b)

\* A record is found by the text that reads as its id, with the bindings it hit.
InspectionsAnswered ==
  \A i \in inspections : \A id :
    ParsePositiveID(id) = {i.inspection_id} =>
      /\ GetInspection(id) = Reply(200, Wire(i))
      /\ i.chip_binding_id # NoID =>
           \E b \in bindings : Summary(i, bindings).chip_binding = {b}
      /\ i.board_binding_id # NoID =>
           \E b \in bindings : Summary(i, bindings).board_binding = {b}

\* The history of binding n is answered with the page's entries, each once and
\* from the newest to the oldest: the newest records of either side below the cursor.
HistoryAnswered(n, cursor, limit, id, before, lim) ==
  LET page == Page(inspections, n, cursor, limit)
      list == NewestFirst(page.entries)
  IN  /\ GetBindingInspections(id, before, lim) = Reply(200, HistoryBody(n, page, list))
      /\ ExactPage(inspections, n, cursor, limit)
      /\ DOMAIN list = 1..Cardinality(page.entries)
      /\ {list[k] : k \in DOMAIN list} = page.entries
      /\ \A j, k \in DOMAIN list : j < k => list[j].inspection_id > list[k].inspection_id

\* A history request whose id, cursor and limit are legal is answered so, beside
\* the row of its binding.
HistoriesAnswered ==
  \A b \in bindings : \A cursor, limit, id, before, lim :
    /\ ParsePositiveID(id) = {b.binding_id}
    /\ Cursors(before) = {cursor}
    /\ ParseLimit(lim) = {limit}
    => /\ BindingRow(b.binding_id) = b
       /\ HistoryAnswered(b.binding_id, cursor, limit, id, before, lim)

\* A request for mismatch peers is answered with the exact list of them, each
\* once and from the most frequent to the least.
PeersAnswered ==
  \A b \in bindings : \A limit, id, lim :
    /\ ParsePositiveID(id) = {b.binding_id}
    /\ ParseLimit(lim) = {limit}
    => LET peers == Peers(inspections, bindings, b.binding_id, limit)
           list  == MostFrequentFirst(peers)
       IN  /\ GetMismatchPeers(id, lim) = Reply(200, PeersBody(b.binding_id, list))
           /\ BindingRow(b.binding_id) = b
           /\ ExactPeers(inspections, bindings, b.binding_id, limit)
           /\ DOMAIN list = 1..Cardinality(peers)
           /\ {list[k] : k \in DOMAIN list} = peers
           /\ \A j, k \in DOMAIN list : j < k => Before(list[j], list[k])

\* A limit is one of 1 to MaxPage.
LEMMA LimitType ==
  ASSUME NEW lim, NEW limit, ParseLimit(lim) = {limit}
  PROVE  limit \in 1..MaxPage /\ limit \in Nat \ {0}
<1>1. limit \in ParseLimit(lim)
  OBVIOUS
<1>2. limit \in 1..MaxPage
  BY <1>1, ParametersAssumption DEF ParseLimit
<1> QED
  BY <1>2, ParametersAssumption

\* The row of an identifier.
LEMMA RowOfBinding ==
  ASSUME TablesInv, NEW b \in bindings
  PROVE  /\ BindingRow(b.binding_id) = b
         /\ b.binding_id \in {c.binding_id : c \in bindings}
         /\ b.binding_id \in Nat
<1>1. \A c \in bindings : c.binding_id = b.binding_id => c = b
  BY DEF TablesInv, ColumnsUnique
<1>2. b.binding_id \in Nat
  BY DEF TablesInv, Decided
<1> QED
  BY <1>1, <1>2 DEF BindingRow

\* A binding of such tables is found by any of its identifiers.
LEMMA TablesAnswerLookups == TablesInv => LookupsAnswered
<1> SUFFICES ASSUME TablesInv, NEW b \in bindings, NEW column \in CreateFields
             PROVE  GetBy(column, b[column]) = Reply(200, b)
  BY DEF LookupsAnswered
<1> DEFINE rows == {c \in bindings : c[column] = b[column]}
<1>1. \A c \in bindings : c[column] = b[column] => c = b
  <2>1. CASE column = "request_key"
    BY <2>1 DEF TablesInv, ColumnsUnique
  <2>2. CASE column = "chip_uid"
    BY <2>2 DEF TablesInv, ColumnsUnique
  <2>3. CASE column = "board_serial"
    BY <2>3 DEF TablesInv, ColumnsUnique
  <2> QED
    BY <2>1, <2>2, <2>3 DEF CreateFields
<1>2. rows = {b}
  BY <1>1
<1>3. IsIdent(b[column])
  BY DEF TablesInv, IsWord, IsIdent
<1>4. (CHOOSE c \in {b} : TRUE) = b
  OBVIOUS
<1> QED
  BY <1>2, <1>3, <1>4 DEF GetBy

\* A binding that a create booked is found by any of its identifiers from then
\* on (handler.go:94-132).
THEOREM LookupsAnsweredInvariant == Spec => []LookupsAnswered
  BY TablesAnswerLookups, TablesInvariant, PTL

\* A record is reported with the two bindings its scan hit (store.go:315-333).
THEOREM InspectionsAnsweredInvariant == Spec => []InspectionsAnswered
<1>1. TablesInv => InspectionsAnswered
  <2> SUFFICES ASSUME TablesInv, NEW i \in inspections, NEW id,
                      ParsePositiveID(id) = {i.inspection_id}
               PROVE  /\ GetInspection(id) = Reply(200, Wire(i))
                      /\ i.chip_binding_id # NoID =>
                           \E b \in bindings : Summary(i, bindings).chip_binding = {b}
                      /\ i.board_binding_id # NoID =>
                           \E b \in bindings : Summary(i, bindings).board_binding = {b}
    BY DEF InspectionsAnswered
  <2>1. {j \in inspections : j.inspection_id \in ParsePositiveID(id)} = {i}
    BY DEF TablesInv, Decided, Table
  <2>2. (CHOOSE j \in {i} : TRUE) = i
    OBVIOUS
  <2>3. GetInspection(id) = Reply(200, Wire(i))
    BY <2>1, <2>2 DEF GetInspection
  <2>4. ASSUME NEW n \in {b.binding_id : b \in bindings}
        PROVE  \E b \in bindings : {c \in bindings : c.binding_id = n} = {b}
    <3>1. PICK b \in bindings : n = b.binding_id
      OBVIOUS
    <3>2. \A c \in bindings : c.binding_id = n => c = b
      BY <3>1 DEF TablesInv, ColumnsUnique
    <3> QED
      BY <3>1, <3>2
  <2>5. /\ Summary(i, bindings).chip_binding = {b \in bindings : b.binding_id = i.chip_binding_id}
        /\ Summary(i, bindings).board_binding = {b \in bindings : b.binding_id = i.board_binding_id}
    BY DEF Summary
  <2>6. /\ i.chip_binding_id \in {b.binding_id : b \in bindings} \cup {NoID}
        /\ i.board_binding_id \in {b.binding_id : b \in bindings} \cup {NoID}
    BY DEF TablesInv, Decided
  <2>7. i.chip_binding_id # NoID =>
          \E b \in bindings : Summary(i, bindings).chip_binding = {b}
    BY <2>4, <2>5, <2>6
  <2>8. i.board_binding_id # NoID =>
          \E b \in bindings : Summary(i, bindings).board_binding = {b}
    BY <2>4, <2>5, <2>6
  <2> QED
    BY <2>3, <2>7, <2>8
<1> QED
  BY <1>1, TablesInvariant, PTL

\* What a history request shows is exact and in order (store.go:547-557, 636-645).
THEOREM HistoriesAnsweredInvariant == Spec => []HistoriesAnswered
<1>1. TablesInv => HistoriesAnswered
  <2> SUFFICES ASSUME TablesInv, NEW b \in bindings, NEW cursor, NEW limit,
                      NEW id, NEW before, NEW lim,
                      ParsePositiveID(id) = {b.binding_id},
                      Cursors(before) = {cursor}, ParseLimit(lim) = {limit}
               PROVE  /\ BindingRow(b.binding_id) = b
                      /\ HistoryAnswered(b.binding_id, cursor, limit, id, before, lim)
    BY DEF HistoriesAnswered
  <2> DEFINE n    == b.binding_id
             page == Page(inspections, n, cursor, limit)
  <2>1. BindingRow(n) = b /\ n \in {c.binding_id : c \in bindings}
    BY RowOfBinding
  <2>2. limit \in Nat \ {0}
    BY LimitType
  <2>3. ExactPage(inspections, n, cursor, limit)
    BY <2>2, PagesExact DEF TablesInv, Decided
  <2>4. Table(page.entries)
    <3>1. page.entries \subseteq inspections
      BY <2>3 DEF ExactPage, Below, Hitting
    <3> HIDE DEF page
    <3> QED
      BY <3>1, SubTable DEF TablesInv, Decided
  <2>5. GetBindingInspections(id, before, lim) = HistoryReply(n, page)
    <3> DEFINE replies == {HistoryReply(t, Page(inspections, t, c, l)) :
                             t \in ParsePositiveID(id), c \in Cursors(before), l \in ParseLimit(lim)}
    <3>1. replies = {HistoryReply(n, page)}
      OBVIOUS
    <3>2. GetBindingInspections(id, before, lim) = CHOOSE reply \in replies : TRUE
      BY DEF GetBindingInspections
    <3> HIDE DEF replies
    <3> QED
      BY <3>1, <3>2
  <2> HIDE DEF page
  <2>6. HistoryReply(n, page) = Reply(200, HistoryBody(n, page, NewestFirst(page.entries)))
    BY <2>1 DEF HistoryReply, OfBinding
  <2>7. LET list == NewestFirst(page.entries)
        IN  /\ DOMAIN list = 1..Cardinality(page.entries)
            /\ {list[k] : k \in DOMAIN list} = page.entries
            /\ \A j, k \in DOMAIN list : j < k => list[j].inspection_id > list[k].inspection_id
    BY <2>4, NewestFirstInOrder
  <2> QED
    BY <2>1, <2>3, <2>5, <2>6, <2>7 DEF HistoryAnswered, page
<1> QED
  BY <1>1, TablesInvariant, PTL

\* What a request for mismatch peers shows is exact and in order (store.go:467-474).
THEOREM PeersAnsweredInvariant == Spec => []PeersAnswered
<1>1. TablesInv => PeersAnswered
  <2> SUFFICES ASSUME TablesInv, NEW b \in bindings, NEW limit, NEW id, NEW lim,
                      ParsePositiveID(id) = {b.binding_id}, ParseLimit(lim) = {limit}
               PROVE  LET peers == Peers(inspections, bindings, b.binding_id, limit)
                          list  == MostFrequentFirst(peers)
                      IN  /\ GetMismatchPeers(id, lim) = Reply(200, PeersBody(b.binding_id, list))
                          /\ BindingRow(b.binding_id) = b
                          /\ ExactPeers(inspections, bindings, b.binding_id, limit)
                          /\ DOMAIN list = 1..Cardinality(peers)
                          /\ {list[k] : k \in DOMAIN list} = peers
                          /\ \A j, k \in DOMAIN list : j < k => Before(list[j], list[k])
    BY DEF PeersAnswered
  <2> DEFINE n     == b.binding_id
             peers == Peers(inspections, bindings, n, limit)
  <2>1. BindingRow(n) = b /\ n \in {c.binding_id : c \in bindings} /\ n \in Nat
    BY RowOfBinding
  <2>2. limit \in Nat /\ Decided(inspections, bindings)
    BY LimitType DEF TablesInv
  <2>3. ExactPeers(inspections, bindings, n, limit)
    BY <2>1, <2>2, PeersExact
  <2>4. /\ IsFiniteSet(peers)
        /\ \A r \in peers : r.peer \in Nat /\ r.occurrences \in Nat /\ r.last_inspection_id \in Nat
        /\ \A r, q \in peers : r.peer = q.peer => r = q
    <3>1. peers \subseteq PeerStats(inspections, n)
      BY DEF Peers
    <3> HIDE DEF peers, n
    <3>2. /\ IsFiniteSet(PeerStats(inspections, n))
          /\ \A r \in PeerStats(inspections, n) :
               r.peer \in Nat /\ r.occurrences \in Nat /\ r.last_inspection_id \in Nat
          /\ \A r, q \in PeerStats(inspections, n) : r.peer = q.peer => r = q
      BY <2>1, <2>2, StatsOfPeers
    <3> QED
      BY <3>1, <3>2, FS_Subset
  <2>5. GetMismatchPeers(id, lim) = PeersReply(n, peers)
    <3> DEFINE replies == {PeersReply(t, Peers(inspections, bindings, t, l)) :
                             t \in ParsePositiveID(id), l \in ParseLimit(lim)}
    <3>1. replies = {PeersReply(n, peers)}
      OBVIOUS
    <3>2. GetMismatchPeers(id, lim) = CHOOSE reply \in replies : TRUE
      BY DEF GetMismatchPeers
    <3> HIDE DEF replies
    <3> QED
      BY <3>1, <3>2
  <2> HIDE DEF peers
  <2>6. PeersReply(n, peers) = Reply(200, PeersBody(n, MostFrequentFirst(peers)))
    BY <2>1 DEF PeersReply, OfBinding
  <2>7. LET list == MostFrequentFirst(peers)
        IN  /\ DOMAIN list = 1..Cardinality(peers)
            /\ {list[k] : k \in DOMAIN list} = peers
            /\ \A j, k \in DOMAIN list : j < k => Before(list[j], list[k])
    BY <2>4, MostFrequentFirstInOrder
  <2> QED
    BY <2>1, <2>3, <2>5, <2>6, <2>7 DEF peers
<1> QED
  BY <1>1, TablesInvariant, PTL

-----------------------------------------------------------------------------
(* Batches.  BatchProofs is BindingAPI's Batch with its theorems.           *)

BatchProofs == INSTANCE BatchLookupProofs
                 WITH Values <- {}, Lines <- Nat \ {0}, NoLine <- 0, OtherType <- "serial",
                      BadValue <- <<"illegal", "lowercase">>, Malformed <- NoText,
                      batch <- <<>>, pc <- "idle", read <- {}, answer <- NoText, seen <- {}

\* The binding that a single lookup is answered with, or none.
FoundBy(column, value) ==
  LET reply == GetBy(column, value)
  IN  IF reply.status = 404 THEN NoBinding ELSE reply.body

\* An accepted batch of legal items is answered item by item, in input order, with
\* what the three single lookups are answered at the same instant.
BatchesAnswered ==
  \A items : \A n \in Nat :
    /\ DOMAIN items = 1..n
    /\ BatchFaults(items) = {}
    /\ \A k \in DOMAIN items : items[k].type \in CreateFields /\ IsIdent(items[k].value)
    => LET found == [k \in DOMAIN items |-> FoundBy(items[k].type, items[k].value)]
       IN  BatchLookup(FALSE, items) = Reply(200, [results |->
             [k \in DOMAIN items |-> BatchItem(items[k], found[k])]])

\* Batch and BatchProofs restore the same.
LEMMA SameBatch ==
  ASSUME NEW items
  PROVE  Batch!Restore(items, Batch!Rows(items, bindings))
           = BatchProofs!Restore(items, BatchProofs!Rows(items, bindings))
BY DEF Batch!Restore, BatchProofs!Restore, Batch!Rows, BatchProofs!Rows,
       Batch!Distinct, BatchProofs!Distinct, Batch!KeyByLine, BatchProofs!KeyByLine,
       Batch!QueryKey, BatchProofs!QueryKey

\* What a lookup by one of its columns says of a one-to-one table.
LEMMA FoundIsSingle ==
  ASSUME NEW query, IsIdent(query.value)
  PROVE  FoundBy(query.type, query.value) = BatchProofs!Single(query, bindings)
<1> DEFINE rows == {b \in bindings : b[query.type] = query.value}
<1>1. CASE rows = {}
  <2>1. GetBy(query.type, query.value) = NotFound
    BY <1>1 DEF GetBy
  <2>2. GetBy(query.type, query.value).status = 404
    BY <2>1, ReplyFields DEF NotFound
  <2> QED
    BY <1>1, <2>2 DEF FoundBy, BatchProofs!Single
<1>2. CASE rows # {}
  <2> DEFINE hit == CHOOSE b \in rows : TRUE
  <2>1. GetBy(query.type, query.value) = Reply(200, hit)
    BY <1>2 DEF GetBy
  <2>2. BatchProofs!Single(query, bindings) = hit
    BY <1>2 DEF BatchProofs!Single
  <2> HIDE DEF hit
  <2>3. GetBy(query.type, query.value).status = 200 /\ GetBy(query.type, query.value).body = hit
    BY <2>1, ReplyFields
  <2> QED
    BY <2>2, <2>3 DEF FoundBy
<1> QED
  BY <1>1, <1>2

\* A batch of the API agrees with the single lookups of the API, through both
\* handlers (handler.go:94-132, store.go:189-199).
THEOREM BatchesAnsweredInvariant == Spec => []BatchesAnswered
<1>1. TablesInv => BatchesAnswered
  <2> SUFFICES ASSUME TablesInv, NEW items, NEW n \in Nat,
                      DOMAIN items = 1..n, BatchFaults(items) = {},
                      \A k \in DOMAIN items : items[k].type \in CreateFields /\ IsIdent(items[k].value)
               PROVE  LET found == [k \in DOMAIN items |-> FoundBy(items[k].type, items[k].value)]
                      IN  BatchLookup(FALSE, items) = Reply(200, [results |->
                            [k \in DOMAIN items |-> BatchItem(items[k], found[k])]])
    BY DEF BatchesAnswered
  <2> DEFINE restored == Batch!Restore(items, Batch!Rows(items, bindings))
             found    == [k \in DOMAIN items |-> FoundBy(items[k].type, items[k].value)]
  <2>1. Batch!BatchErrors(items) = {}
    BY DEF BatchFaults
  <2>2. BatchProofs!LinesOnce(items)
    <3>1. \A j, k \in DOMAIN items : k \in 1..j - 1 \/ j \in 1..k - 1 \/ j = k
      OBVIOUS
    <3>2. ASSUME NEW k \in DOMAIN items, NEW j \in 1..k - 1, items[k].line = items[j].line
          PROVE  FALSE
      <4>1. <<k, "line">> \in (DOMAIN items) \X {"line", "type", "value"}
        OBVIOUS
      <4>2. Batch!Repeats(items, k)
        BY <3>2 DEF Batch!Repeats
      <4>3. <<k, "line">> \in Batch!BatchErrors(items) \/ <<0, "queries">> \in Batch!BatchErrors(items)
        BY <4>1, <4>2 DEF Batch!BatchErrors
      <4> QED
        BY <2>1, <4>3
    <3> QED
      BY <3>1, <3>2 DEF BatchProofs!LinesOnce
  <2>3. \A k \in DOMAIN items : items[k].type \in BatchProofs!LookupTypes
    BY DEF CreateFields, BatchProofs!LookupTypes
  <2>4. \A x, y \in bindings : x = y \/ \A column \in BatchProofs!LookupTypes : x[column] # y[column]
    BY DEF TablesInv, ColumnsUnique, BatchProofs!LookupTypes
  <2>5. BatchProofs!BatchAssumption
    BY BatchSizeAssumption DEF BatchProofs!BatchAssumption
  <2>6. BatchProofs!Restore(items, BatchProofs!Rows(items, bindings))
          = [k \in DOMAIN items |-> [query |-> items[k], binding |-> BatchProofs!Single(items[k], bindings)]]
    BY <2>2, <2>3, <2>4, <2>5, BatchProofs!RestoredAreSingles
  <2>7. restored = [k \in DOMAIN items |-> [query |-> items[k], binding |-> BatchProofs!Single(items[k], bindings)]]
    BY <2>6, SameBatch
  <2> HIDE DEF restored, found
  <2>8. \A k \in DOMAIN items : restored[k].binding = found[k]
    BY <2>7, FoundIsSingle DEF found
  <2>9. BatchLookup(FALSE, items) = Reply(200, [results |->
          [k \in DOMAIN items |-> BatchItem(items[k], restored[k].binding)]])
    BY DEF BatchLookup, restored
  <2>10. [k \in DOMAIN items |-> BatchItem(items[k], restored[k].binding)]
           = [k \in DOMAIN items |-> BatchItem(items[k], found[k])]
    BY <2>8
  <2> QED
    BY <2>9, <2>10 DEF found
<1> QED
  BY <1>1, TablesInvariant, PTL

-----------------------------------------------------------------------------
(* Retries, and what was once shown.                                        *)

\* The body of a station that fills in three words is decoded as it is.
LEMMA PostDecoded ==
  ASSUME NEW key, NEW chip, NEW board, IsWord(key), IsWord(chip), IsWord(board)
  PROVE  /\ Response(Post(key, chip, board)) =
              Envelope(CreateResult(Decoded(Post(key, chip, board).body, CreateFields)))
         /\ LET p == Decoded(Post(key, chip, board).body, CreateFields)
            IN  p.request_key = key /\ p.chip_uid = chip /\ p.board_serial = board
<1> DEFINE sent == <<<<"request_key", key>>, <<"chip_uid", chip>>, <<"board_serial", board>>>>
           p    == Decoded(sent, CreateFields)
<1>1. /\ DOMAIN sent = 1..3
      /\ sent[1][1] = "request_key" /\ sent[1][2] = key
      /\ sent[2][1] = "chip_uid" /\ sent[2][2] = chip
      /\ sent[3][1] = "board_serial" /\ sent[3][2] = board
  OBVIOUS
<1>2. Post(key, chip, board).route = "create" /\ Post(key, chip, board).body = sent
  BY DEF Post, PostRaw
<1> HIDE DEF sent
<1>3. \A k \in DOMAIN sent : k = 1 \/ k = 2 \/ k = 3
  BY <1>1
<1>4. \A j, k \in DOMAIN sent : sent[j][1] = sent[k][1] => j = k
  BY <1>1, <1>3
<1>5. ASSUME NEW f \in CreateFields, NEW k \in DOMAIN sent, sent[k][1] = f
      PROVE  p[f] = sent[k][2]
  <2>1. (CHOOSE j \in DOMAIN sent : sent[j][1] = f) = k
    BY <1>4, <1>5
  <2> QED
    BY <1>5, <2>1 DEF Decoded
<1>6. p["request_key"] = key /\ p["chip_uid"] = chip /\ p["board_serial"] = board
  BY <1>1, <1>5 DEF CreateFields
<1> HIDE DEF p
<1>7. Repetitions(sent) = {}
  <2>1. \A k \in DOMAIN sent : \A j \in 1..k - 1 : j \in DOMAIN sent /\ j # k
    BY <1>1
  <2> QED
    BY <1>4, <2>1 DEF Repetitions
<1>8. ~ Undecodable(sent, CreateFields)
  BY <1>1, <1>3 DEF Undecodable, CreateFields, IsWord
<1>9. {f \in CreateFields : ~ IsIdent(Decoded(sent, CreateFields)[f])} = {}
  BY <1>6 DEF p, CreateFields, IsWord, IsIdent
<1>10. Refusals(sent, CreateFields) = {}
  BY <1>7, <1>8, <1>9 DEF Refusals
<1>11. Create(sent) = Envelope(CreateResult(Decoded(sent, CreateFields)))
  BY <1>10 DEF Create
<1>12. Response(Post(key, chip, board)) = Create(Post(key, chip, board).body)
  BY <1>2 DEF Response
<1> QED
  BY <1>2, <1>6, <1>11, <1>12 DEF p

\* A key that is taken decides: the same devices are a replay, any other legal
\* ones a conflict of the key, be they free, taken, or the sequence at its end.
LEMMA TakenKeyDecides ==
  ASSUME TablesInv, NEW b \in bindings, NEW chip, NEW board, IsWord(chip), IsWord(board)
  PROVE  Response(Post(b.request_key, chip, board)) =
           IF chip = b.chip_uid /\ board = b.board_serial THEN Reply(200, b)
           ELSE Refuse(409, "REQUEST_KEY_CONFLICT", {})
<1> DEFINE p   == Decoded(Post(b.request_key, chip, board).body, CreateFields)
           old == {c \in bindings : c.request_key = p.request_key}
<1>1. IsWord(b.request_key)
  BY DEF TablesInv, CreateFields
<1>2. /\ Response(Post(b.request_key, chip, board)) = Envelope(CreateResult(p))
      /\ p.request_key = b.request_key /\ p.chip_uid = chip /\ p.board_serial = board
  BY <1>1, PostDecoded
<1> HIDE DEF p
<1>3. old = {b} /\ (CHOOSE c \in {b} : TRUE) = b
  BY <1>2 DEF TablesInv, ColumnsUnique
<1> DEFINE res == CreateResult(p)
<1>4. res = Ledger!AnswerExisting(b, p)
  BY <1>3 DEF CreateResult
<1>5. Response(Post(b.request_key, chip, board)) = Envelope(res)
  BY <1>2
<1> HIDE DEF res
<1>6. CASE chip = b.chip_uid /\ board = b.board_serial
  <2>1. res.outcome = "replayed" /\ res.binding = b
    BY <1>2, <1>4, <1>6 DEF Ledger!AnswerExisting, Ledger!SamePayload, Ledger!Replayed,
                            Ledger!CreateResult
  <2> QED
    BY <1>5, <1>6, <2>1 DEF Envelope
<1>7. CASE ~ (chip = b.chip_uid /\ board = b.board_serial)
  <2>1. res.outcome = "request_key_conflict"
    BY <1>2, <1>4, <1>7 DEF Ledger!AnswerExisting, Ledger!SamePayload, Ledger!KeyConflict,
                            Ledger!CreateResult
  <2> QED
    BY <1>5, <1>7, <2>1 DEF Envelope
<1> QED
  BY <1>6, <1>7

\* A station that sends its request again gets its binding, and nobody else gets
\* anything by its key (store.go:83-101, README.md:45-46).
THEOREM RetriesReplayInvariant == Spec => []RetriesReplay
<1>1. TablesInv => RetriesReplay
  <2> SUFFICES ASSUME TablesInv, NEW b \in bindings,
                      NEW chip \in {b.chip_uid, Chip("FOREIGN")}
               PROVE  Response(Post(b.request_key, chip, b.board_serial)) =
                        IF chip = b.chip_uid THEN Reply(200, b)
                        ELSE Refuse(409, "REQUEST_KEY_CONFLICT", {})
    BY DEF RetriesReplay
  <2>1. IsWord(b.chip_uid) /\ IsWord(b.board_serial)
    BY DEF TablesInv, CreateFields
  <2>2. IsWord(Chip("FOREIGN"))
    BY DEF IsWord, Chip
  <2>3. IsWord(chip)
    BY <2>1, <2>2
  <2> QED
    BY <2>1, <2>3, TakenKeyDecides
<1> QED
  BY <1>1, TablesInvariant, PTL

\* Calls only add rows.
LEMMA TablesGrow ==
  ASSUME [Next]_vars
  PROVE  bindings \subseteq bindings' /\ inspections \subseteq inspections'
<1>1. ASSUME NEW call, Serve(call)
      PROVE  bindings \subseteq bindings' /\ inspections \subseteq inspections'
  <2> DEFINE res == Response(call)
             new == Judged(Decoded(call.body, ScanFields))
  <2>1. /\ bindings' = IF call.route = "create" /\ res.status = 201
                       THEN bindings \cup {res.body} ELSE bindings
        /\ inspections' = IF call.route = "inspect" /\ res.status = 201
                          THEN inspections \cup {new} ELSE inspections
    BY <1>1 DEF Serve, Effect
  <2> HIDE DEF res, new
  <2> QED
    BY <2>1
<1>2. CASE UNCHANGED tables
  BY <1>2 DEF tables
<1> QED
  BY <1>1, <1>2, StepsServe

\* An identifier that a record stores names the same binding for ever.
LEMMA StoredNamesStand ==
  ASSUME TablesInv, TablesInv', bindings \subseteq bindings',
         NEW n \in {b.binding_id : b \in bindings} \cup {NoID}
  PROVE  {b \in bindings' : b.binding_id = n} = {b \in bindings : b.binding_id = n}
<1>1. CASE n = NoID
  <2>1. \A b \in bindings' : b.binding_id \in Nat
    BY DEF TablesInv, Decided
  <2>2. \A b \in bindings' : b.binding_id # n
    BY <1>1, <2>1, NullAssumption
  <2> QED
    BY <2>2
<1>2. CASE n # NoID
  <2>1. PICK c \in bindings : c.binding_id = n
    BY <1>2
  <2>2. \A b \in bindings' : b.binding_id = n => b = c
    BY <2>1 DEF TablesInv, ColumnsUnique
  <2> QED
    BY <2>1, <2>2
<1> QED
  BY <1>1, <1>2

\* No call changes what is shown of a binding or an inspection
\* (README.md:143, types.go:140-143).
THEOREM AnswersStandHolds == Spec => AnswersStand
<1> DEFINE Stand ==
      /\ \A b \in bindings, column \in CreateFields :
           GetBy(column, b[column])' = GetBy(column, b[column])
      /\ \A i \in inspections : i \in inspections' /\ Wire(i)' = Wire(i)
<1>1. (TablesInv => LookupsAnswered)'
  BY TablesAnswerLookups, PTL
<1>2. ASSUME TablesInv, TablesInv', [Next]_vars
      PROVE  Stand
  <2>1. bindings \subseteq bindings' /\ inspections \subseteq inspections'
    BY <1>2, TablesGrow
  <2>2. ASSUME NEW b \in bindings, NEW column \in CreateFields
        PROVE  GetBy(column, b[column])' = GetBy(column, b[column])
    <3>1. GetBy(column, b[column]) = Reply(200, b)
      BY <1>2, TablesAnswerLookups DEF LookupsAnswered
    <3>2. GetBy(column, b[column])' = Reply(200, b)
      BY <1>1, <1>2, <2>1 DEF LookupsAnswered
    <3> QED
      BY <3>1, <3>2
  <2>3. ASSUME NEW i \in inspections
        PROVE  Wire(i)' = Wire(i)
    <3>1. /\ i.chip_binding_id \in {b.binding_id : b \in bindings} \cup {NoID}
          /\ i.board_binding_id \in {b.binding_id : b \in bindings} \cup {NoID}
      BY <1>2 DEF TablesInv, Decided
    <3>2. /\ {b \in bindings' : b.binding_id = i.chip_binding_id}
                = {b \in bindings : b.binding_id = i.chip_binding_id}
          /\ {b \in bindings' : b.binding_id = i.board_binding_id}
                = {b \in bindings : b.binding_id = i.board_binding_id}
      BY <1>2, <2>1, <3>1, StoredNamesStand
    <3>3. Summary(i, bindings') = Summary(i, bindings)
      BY <3>2 DEF Summary
    <3> QED
      BY <3>3 DEF Wire
  <2> QED
    BY <2>1, <2>2, <2>3
<1>3. TablesInv /\ TablesInv' /\ [Next]_vars => [tables' # tables => Stand]_vars
  BY <1>2
<1> QED
  BY <1>3, TablesInvariant, PTL DEF Spec, AnswersStand

-----------------------------------------------------------------------------
(* No batch is torn: a row is bound whole or not at all, so a batch that    *)
(* reads one state of the table finds all of it or nothing.                 *)

\* A row of the snapshot scenario is bound with its own three identifiers.
Whole(b) ==
  \A i \in 1..SnapRows :
    /\ b.request_key = SnapID("request_key", i) <=> b.chip_uid = SnapID("chip_uid", i)
    /\ b.request_key = SnapID("request_key", i) <=> b.board_serial = SnapID("board_serial", i)

RowsWhole == \A b \in bindings : Whole(b)

\* A call that binds none of their identifiers.
Plain(call) == call.route = "create" => \A k \in DOMAIN call.body : call.body[k][2][2] # "SNAP"

\* The calls that add a row to the table of bindings leave its rows whole.
LEMMA CallsKeepRowsWhole ==
  ASSUME RowsWhole, NEW call, Plain(call) \/ \E i \in 1..SnapRows : call = SnapRow(i), Serve(call)
  PROVE  RowsWhole'
<1> DEFINE p == Decoded(call.body, CreateFields)
<1>1. Whole(Ledger!BindingOf(bindingSeq + 1, p)) \/ call.route # "create"
  <2>1. CASE Plain(call) /\ call.route = "create"
    <3>1. ASSUME NEW f \in CreateFields
          PROVE  p[f][2] # "SNAP"
      <4>1. CASE \E k \in DOMAIN call.body : call.body[k][1] = f
        <5> DEFINE k == CHOOSE k \in DOMAIN call.body : call.body[k][1] = f
        <5>1. k \in DOMAIN call.body
          BY <4>1
        <5>2. p[f] = call.body[k][2]
          BY <4>1 DEF Decoded
        <5> HIDE DEF k, p
        <5> QED
          BY <2>1, <5>1, <5>2 DEF Plain
      <4>2. CASE ~ \E k \in DOMAIN call.body : call.body[k][1] = f
        BY <4>2 DEF Decoded
      <4> QED
        BY <4>1, <4>2
    <3> HIDE DEF p
    <3>2. \A f \in CreateFields : \A column, i : p[f] # SnapID(column, i)
      BY <3>1 DEF SnapID
    <3>3. /\ \A column, i : p.request_key # SnapID(column, i)
          /\ \A column, i : p.chip_uid # SnapID(column, i)
          /\ \A column, i : p.board_serial # SnapID(column, i)
      BY <3>2 DEF CreateFields
    <3> QED
      BY <3>3 DEF Whole, Ledger!BindingOf
  <2>2. ASSUME NEW i \in 1..SnapRows, call = SnapRow(i)
        PROVE  Whole(Ledger!BindingOf(bindingSeq + 1, p))
    <3>1. /\ p.request_key = SnapID("request_key", i)
          /\ p.chip_uid = SnapID("chip_uid", i)
          /\ p.board_serial = SnapID("board_serial", i)
      <4>1. \A f \in CreateFields : IsWord(SnapID(f, i))
        BY DEF IsWord, SnapID, CreateFields
      <4> QED
        BY <2>2, <4>1, PostDecoded DEF SnapRow, CreateFields
    <3> HIDE DEF p
    <3>2. \A f, g, j : SnapID(f, i) = SnapID(g, j) <=> f = g /\ i = j
      BY DEF SnapID
    <3> QED
      BY <3>1, <3>2 DEF Whole, Ledger!BindingOf
  <2> QED
    BY <2>1, <2>2
<1>2. /\ bindings' = IF call.route = "create" /\ Response(call).status = 201
                     THEN bindings \cup {Response(call).body} ELSE bindings
      /\ call.route = "create" => Response(call) = Create(call.body)
  BY DEF Serve, Effect, Response
<1>3. Create(call.body).status = 201 => Create(call.body).body = Ledger!BindingOf(bindingSeq + 1, p)
  BY CreateAnswers
<1> HIDE DEF p
<1> QED
  BY <1>1, <1>2, <1>3 DEF RowsWhole, Whole

\* The column of an item follows from its number.
LEMMA ItemsByColumn ==
  /\ DOMAIN SnapItems = 1..3 * SnapRows
  /\ \A k \in 1..3 * SnapRows :
       LET i == ((k - 1) \div 3) + 1
       IN  /\ k % 3 = 1 => SnapItems[k] = Item(k, SnapID("request_key", i))
           /\ k % 3 = 2 => SnapItems[k] = Item(k, SnapID("chip_uid", i))
           /\ k % 3 = 0 => SnapItems[k] = Item(k, SnapID("board_serial", i))
<1>1. DOMAIN SnapItems = 1..3 * SnapRows
  BY DEF SnapItems
<1>2. ASSUME NEW k \in 1..3 * SnapRows
      PROVE  SnapItems[k] =
               Item(k, SnapID(CASE k % 3 = 1 -> "request_key"
                                [] k % 3 = 2 -> "chip_uid"
                                [] k % 3 = 0 -> "board_serial",
                              ((k - 1) \div 3) + 1))
  BY Zenon DEF SnapItems
<1>3. \A r : LET column == CASE r = 1 -> "request_key" [] r = 2 -> "chip_uid" [] r = 0 -> "board_serial"
             IN  /\ r = 1 => column = "request_key"
                 /\ r = 2 => column = "chip_uid"
                 /\ r = 0 => column = "board_serial"
  OBVIOUS
<1> QED
  BY <1>1, <1>2, <1>3

\* The three items of row i.
LEMMA ItemsOfRow ==
  ASSUME NEW i \in 1..SnapRows
  PROVE  /\ 3 * i - 2 .. 3 * i \subseteq 1..3 * SnapRows
         /\ SnapItems[3 * i - 2] = Item(3 * i - 2, SnapID("request_key", i))
         /\ SnapItems[3 * i - 1] = Item(3 * i - 1, SnapID("chip_uid", i))
         /\ SnapItems[3 * i]     = Item(3 * i, SnapID("board_serial", i))
<1>1. i \in Nat \ {0} /\ SnapRows \in Nat /\ i <= SnapRows
  BY SnapAssumption
<1>2. 3 * i - 2 .. 3 * i \subseteq 1..3 * SnapRows
  BY <1>1
<1>3. /\ 3 * i - 2 \in 1..3 * SnapRows /\ 3 * i - 1 \in 1..3 * SnapRows /\ 3 * i \in 1..3 * SnapRows
  BY <1>1
<1>4. /\ (3 * i - 2) % 3 = 1 /\ (3 * i - 1) % 3 = 2 /\ (3 * i) % 3 = 0
      /\ ((3 * i - 2 - 1) \div 3) + 1 = i
      /\ ((3 * i - 1 - 1) \div 3) + 1 = i
      /\ ((3 * i - 1) \div 3) + 1 = i
  BY <1>1
<1> QED
  BY <1>2, <1>3, <1>4, ItemsByColumn

\* Every item asks for an identifier of a row, under a line of its own.
LEMMA ItemsAreLegal ==
  /\ DOMAIN SnapItems = 1..3 * SnapRows /\ 3 * SnapRows \in Nat
  /\ \A k \in DOMAIN SnapItems :
       /\ SnapItems[k].line = k
       /\ SnapItems[k].type \in CreateFields
       /\ SnapItems[k].value[1] = SnapItems[k].type
       /\ DOMAIN SnapItems[k] = {"line", "type", "value"}
  /\ BatchFaults(SnapItems) = {}
<1>1. DOMAIN SnapItems = 1..3 * SnapRows /\ 3 * SnapRows \in Nat \ {0}
  BY SnapAssumption DEF SnapItems
<1>2. ASSUME NEW k \in DOMAIN SnapItems
      PROVE  /\ SnapItems[k].line = k
             /\ SnapItems[k].type \in CreateFields
             /\ SnapItems[k].value[1] = SnapItems[k].type
             /\ DOMAIN SnapItems[k] = {"line", "type", "value"}
  <2>1. k % 3 = 1 \/ k % 3 = 2 \/ k % 3 = 0
    BY <1>1
  <2>2. \E column \in CreateFields : \E i : SnapItems[k] = Item(k, SnapID(column, i))
    BY <1>1, <2>1, ItemsByColumn DEF CreateFields
  <2> QED
    BY <2>2 DEF Item, SnapID
<1>3. Len(SnapItems) = 3 * SnapRows /\ SnapItems # <<>>
  BY <1>1
<1>4. Batch!BatchErrors(SnapItems) = {}
  <2>1. \A k \in DOMAIN SnapItems : ~ Batch!Repeats(SnapItems, k)
    BY <1>1, <1>2 DEF Batch!Repeats
  <2>2. ASSUME NEW k \in DOMAIN SnapItems, NEW field \in {"line", "type", "value"}
        PROVE  Batch!Legal(SnapItems[k], field)
    <3>1. SnapItems[k].line # 0 /\ SnapItems[k].type # "serial"
      BY <1>1, <1>2 DEF CreateFields
    <3>2. SnapItems[k].value # <<"illegal", "lowercase">>
      BY <1>2 DEF CreateFields
    <3> QED
      BY <3>1, <3>2 DEF Batch!Legal
  <2> QED
    BY <1>3, <2>1, <2>2, SnapAssumption, BatchSizeAssumption DEF Batch!BatchErrors
<1> QED
  BY <1>1, <1>2, <1>4 DEF BatchFaults

\* A lookup by an identifier of row i finds the same by any of the three.
LEMMA RowFoundByAll ==
  ASSUME TablesInv, RowsWhole, NEW i \in 1..SnapRows
  PROVE  /\ FoundBy("chip_uid", SnapID("chip_uid", i)) = FoundBy("request_key", SnapID("request_key", i))
         /\ FoundBy("board_serial", SnapID("board_serial", i))
              = FoundBy("request_key", SnapID("request_key", i))
<1>1. /\ {b \in bindings : b["chip_uid"] = SnapID("chip_uid", i)}
            = {b \in bindings : b["request_key"] = SnapID("request_key", i)}
      /\ {b \in bindings : b["board_serial"] = SnapID("board_serial", i)}
            = {b \in bindings : b["request_key"] = SnapID("request_key", i)}
  BY DEF RowsWhole, Whole
<1>2. /\ IsIdent(SnapID("chip_uid", i)) /\ IsIdent(SnapID("board_serial", i))
      /\ IsIdent(SnapID("request_key", i))
  BY DEF IsIdent, SnapID
<1> DEFINE rows == {b \in bindings : b["request_key"] = SnapID("request_key", i)}
<1>3. CASE rows = {}
  <2>1. /\ GetBy("chip_uid", SnapID("chip_uid", i)) = NotFound
        /\ GetBy("board_serial", SnapID("board_serial", i)) = NotFound
        /\ GetBy("request_key", SnapID("request_key", i)) = NotFound
    BY <1>1, <1>2, <1>3 DEF GetBy
  <2> QED
    BY <2>1 DEF FoundBy
<1>4. CASE rows # {}
  <2> DEFINE hit == CHOOSE b \in rows : TRUE
  <2>1. GetBy("request_key", SnapID("request_key", i)) = Reply(200, hit)
    BY <1>2, <1>4 DEF GetBy
  <2>2. GetBy("chip_uid", SnapID("chip_uid", i)) = Reply(200, hit)
    BY <1>1, <1>2, <1>4 DEF GetBy
  <2>3. GetBy("board_serial", SnapID("board_serial", i)) = Reply(200, hit)
    BY <1>1, <1>2, <1>4 DEF GetBy
  <2> HIDE DEF hit
  <2> QED
    BY <2>1, <2>2, <2>3 DEF FoundBy
<1> QED
  BY <1>3, <1>4

\* In whole rows a batch finds all three items of a row, with one binding, or none.
LEMMA WholeRowsAreNotTorn ==
  ASSUME BatchesAnswered, TablesInv, RowsWhole, NEW i \in 1..SnapRows
  PROVE  ~ TornRow(Response(Lookup(SnapItems)).body.results, i)
<1> DEFINE results == Response(Lookup(SnapItems)).body.results
           found   == [k \in DOMAIN SnapItems |-> FoundBy(SnapItems[k].type, SnapItems[k].value)]
           three   == 3 * i - 2 .. 3 * i
<1>1. \A k \in DOMAIN SnapItems : SnapItems[k].type \in CreateFields /\ IsIdent(SnapItems[k].value)
  BY ItemsAreLegal DEF IsIdent, CreateFields
<1>2. BatchLookup(FALSE, SnapItems)
        = Reply(200, [results |-> [k \in DOMAIN SnapItems |-> BatchItem(SnapItems[k], found[k])]])
  BY <1>1, ItemsAreLegal DEF BatchesAnswered
<1>3. Response(Lookup(SnapItems)) = BatchLookup(FALSE, SnapItems)
  BY DEF Response, Lookup
<1>4. results = [k \in DOMAIN SnapItems |-> BatchItem(SnapItems[k], found[k])]
  <2> DEFINE list == [k \in DOMAIN SnapItems |-> BatchItem(SnapItems[k], found[k])]
  <2> HIDE DEF list, found
  <2>1. Response(Lookup(SnapItems)) = Reply(200, [results |-> list])
    BY <1>2, <1>3 DEF list
  <2>2. Response(Lookup(SnapItems)).body = [results |-> list]
    BY <2>1, ReplyFields
  <2> QED
    BY <2>2 DEF list
<1> HIDE DEF results, found
<1>5. /\ three \subseteq DOMAIN SnapItems
      /\ \A k \in three : k = 3 * i - 2 \/ k = 3 * i - 1 \/ k = 3 * i
      /\ 3 * i - 2 \in three /\ 3 * i - 1 \in three /\ 3 * i \in three
  <2>1. i \in Nat
    BY SnapAssumption
  <2> QED
    BY <2>1, ItemsOfRow, ItemsAreLegal
<1>6. \A j, k \in three : found[j] = found[k]
  <2>1. /\ found[3 * i - 2] = FoundBy("request_key", SnapID("request_key", i))
        /\ found[3 * i - 1] = FoundBy("chip_uid", SnapID("chip_uid", i))
        /\ found[3 * i] = FoundBy("board_serial", SnapID("board_serial", i))
    <3>1. \A k \in three : \A column, j : SnapItems[k] = Item(k, SnapID(column, j)) =>
            found[k] = FoundBy(column, SnapID(column, j))
      BY <1>5 DEF found, Item, SnapID
    <3> HIDE DEF three, found
    <3> QED
      BY <1>5, <3>1, ItemsOfRow
  <2> HIDE DEF three
  <2>2. found[3 * i - 1] = found[3 * i - 2] /\ found[3 * i] = found[3 * i - 2]
    BY <2>1, RowFoundByAll
  <2> QED
    BY <1>5, <2>2
<1>7. \A j, k \in three : results[j].status = results[k].status /\ results[j].binding = results[k].binding
  BY <1>4, <1>5, <1>6 DEF BatchItem
<1>8. FoundOf(results, i) = {} \/ FoundOf(results, i) = three
  BY <1>7 DEF FoundOf
<1>9. Cardinality(FoundOf(results, i)) \in {0, 3}
  <2>1. Cardinality(three) = 3
    <3>1. 3 * i - 2 \in Int /\ 3 * i \in Int /\ 3 * i - (3 * i - 2) + 1 = 3 /\ 3 * i - 2 <= 3 * i
      BY SnapAssumption
    <3> QED
      BY <3>1, FS_Interval
  <2> QED
    BY <1>8, <2>1, FS_EmptySet
<1>10. \A j, k \in FoundOf(results, i) : results[j].binding = results[k].binding
  BY <1>7 DEF FoundOf
<1> QED
  BY <1>9, <1>10 DEF TornRow, results

-----------------------------------------------------------------------------
(* What the scenarios send: nothing but the writers binds the identifiers   *)
(* of a row.  A scenario is proved tame by the pieces of its plan.          *)

\* A step that neither churns nor binds an identifier of a row.
Tame(step) == /\ ~ step.churn
              /\ \A c \in DOMAIN step.calls : Plain(step.calls[c])

\* A sequence of n such steps.
TamePlan(plan, n) == \E S : plan \in Seq(S) /\ Len(plan) = n /\ \A step \in S : Tame(step)

\* Calls that bind nothing, and those that bind something else.
LEMMA PlainCalls ==
  /\ \A id : Plain(By(id))
  /\ \A items : Plain(Lookup(items)) /\ Plain(Twice(Lookup(items)))
  /\ \A content : Plain(ScanRaw(content))
  /\ \A c, b : Plain(Scan(c, b))
  /\ \A id : Plain(InspectionRaw(id)) /\ Plain(Inspection(id))
  /\ \A id, limit : Plain(PeersRaw(id, limit)) /\ Plain(PeersOf(id, limit))
  /\ \A id, before, limit : Plain(HistoryRaw(id, before, limit)) /\ Plain(History(id, before, limit))
  /\ \A k, c, b : k[2] # "SNAP" /\ c[2] # "SNAP" /\ b[2] # "SNAP" => Plain(Post(k, c, b))
  /\ \A t : t # "SNAP" => Plain(Bind(t))
<1>1. /\ \A id : By(id).route = "by"
      /\ \A items : Lookup(items).route = "batch" /\ Twice(Lookup(items)).route = "batch"
      /\ \A content : ScanRaw(content).route = "inspect"
      /\ \A id : InspectionRaw(id).route = "inspection"
      /\ \A id, limit : PeersRaw(id, limit).route = "peers"
      /\ \A id, before, limit : HistoryRaw(id, before, limit).route = "history"
  BY DEF By, Lookup, Twice, ScanRaw, InspectionRaw, PeersRaw, HistoryRaw
<1>2. /\ \A c, b : Scan(c, b).route = "inspect"
      /\ \A id : Inspection(id).route = "inspection"
      /\ \A id, limit : PeersOf(id, limit).route = "peers"
      /\ \A id, before, limit : History(id, before, limit).route = "history"
  BY <1>1 DEF Scan, Inspection, PeersOf, History
<1>3. ASSUME NEW k, NEW c, NEW b, k[2] # "SNAP", c[2] # "SNAP", b[2] # "SNAP"
      PROVE  Plain(Post(k, c, b))
  <2> DEFINE sent == <<<<"request_key", k>>, <<"chip_uid", c>>, <<"board_serial", b>>>>
  <2>1. /\ DOMAIN sent = 1..3
        /\ sent[1][2] = k /\ sent[2][2] = c /\ sent[3][2] = b
    OBVIOUS
  <2>2. Post(k, c, b).body = sent
    BY DEF Post, PostRaw
  <2> HIDE DEF sent
  <2>3. \A j \in DOMAIN sent : j = 1 \/ j = 2 \/ j = 3
    BY <2>1
  <2> QED
    BY <1>3, <2>1, <2>2, <2>3 DEF Plain
<1>4. ASSUME NEW t, t # "SNAP"
      PROVE  Plain(Bind(t))
  <2>1. Key(t)[2] = t /\ Chip(t)[2] = t /\ Board(t)[2] = t
    BY DEF Key, Chip, Board
  <2> QED
    BY <1>3, <1>4, <2>1 DEF Bind
<1> QED
  BY <1>1, <1>2, <1>3, <1>4 DEF Plain

\* Steps whose calls are plain are tame, whatever they want.
LEMMA TameSteps ==
  /\ \A call, want : Plain(call) => Tame(Expect(call, want))
  /\ \A call : Plain(call) => Tame(Send(call))
  /\ \A ok, what : Tame(That(ok)) /\ Tame(Needing(That(ok), what)) /\ Tame(Needing(Step, what))
  /\ \A p, q, w1, w2 : Plain(p) /\ Plain(q) =>
       Tame(Race(p, q, w1, w2)) /\ Tame(Must(Race(p, q, w1, w2)))
<1>1. ASSUME NEW call, NEW want, Plain(call)
      PROVE  Tame(Expect(call, want))
  <2>1. Expect(call, want).calls = <<call>> /\ ~ Expect(call, want).churn
    BY DEF Expect, Step
  <2> QED
    BY <1>1, <2>1 DEF Tame
<1>2. \A call : Plain(call) => Tame(Send(call))
  BY <1>1 DEF Send
<1>3. ASSUME NEW ok, NEW what
      PROVE  Tame(That(ok)) /\ Tame(Needing(That(ok), what)) /\ Tame(Needing(Step, what))
  BY DEF That, Needing, Step, Tame
<1>4. ASSUME NEW p, NEW q, NEW w1, NEW w2, Plain(p), Plain(q)
      PROVE  Tame(Race(p, q, w1, w2)) /\ Tame(Must(Race(p, q, w1, w2)))
  <2>1. /\ Race(p, q, w1, w2).calls = <<p, q>> /\ ~ Race(p, q, w1, w2).churn
        /\ Must(Race(p, q, w1, w2)).calls = <<p, q>>
        /\ ~ Must(Race(p, q, w1, w2)).churn
    BY DEF Race, Must, Step
  <2>2. \A c \in DOMAIN <<p, q>> : Plain(<<p, q>>[c])
    BY <1>4
  <2> QED
    BY <2>1, <2>2 DEF Tame
<1> QED
  BY <1>1, <1>2, <1>3, <1>4

\* Plans one after the other.
LEMMA TameConcat ==
  ASSUME NEW s, NEW t, NEW m \in Nat, NEW n \in Nat, TamePlan(s, m), TamePlan(t, n)
  PROVE  TamePlan(s \o t, m + n)
<1>1. PICK S : s \in Seq(S) /\ Len(s) = m /\ \A step \in S : Tame(step)
  BY DEF TamePlan
<1>2. PICK T : t \in Seq(T) /\ Len(t) = n /\ \A step \in T : Tame(step)
  BY DEF TamePlan
<1>3. s \in Seq(S \cup T) /\ t \in Seq(S \cup T)
  BY <1>1, <1>2
<1>4. s \o t \in Seq(S \cup T) /\ Len(s \o t) = m + n
  BY <1>1, <1>2, <1>3
<1> QED
  BY <1>1, <1>2, <1>4 DEF TamePlan

\* A plan given by its steps.
LEMMA TameList ==
  ASSUME NEW n \in Nat, NEW S, NEW plan \in [1..n -> S], \A k \in 1..n : Tame(plan[k])
  PROVE  TamePlan(plan, n)
<1> DEFINE T == {plan[k] : k \in 1..n}
<1>1. plan \in Seq(T) /\ Len(plan) = n
  OBVIOUS
<1> QED
  BY <1>1 DEF TamePlan

\* ExpectAll makes as many steps as there are calls.
LEMMA TameCalls ==
  ASSUME NEW n \in Nat, NEW calls, NEW want, DOMAIN calls = 1..n, \A k \in 1..n : Plain(calls[k])
  PROVE  TamePlan(ExpectAll(calls, want), n)
<1>1. /\ ExpectAll(calls, want) \in [1..n -> {Expect(calls[k], want) : k \in 1..n}]
      /\ \A k \in 1..n : ExpectAll(calls, want)[k] = Expect(calls[k], want)
  BY DEF ExpectAll
<1>2. \A k \in 1..n : Tame(ExpectAll(calls, want)[k])
  BY <1>1, TameSteps
<1> QED
  BY <1>1, <1>2, TameList

\* Plans that are written down step by step.
LEMMA TameLists ==
  /\ \A a : (\A step \in {a} : Tame(step)) =>
       TamePlan(<<a>>, 1)
  /\ \A a, b : (\A step \in {a, b} : Tame(step)) =>
       TamePlan(<<a, b>>, 2)
  /\ \A a, b, c : (\A step \in {a, b, c} : Tame(step)) =>
       TamePlan(<<a, b, c>>, 3)
  /\ \A a, b, c, d, e : (\A step \in {a, b, c, d, e} : Tame(step)) =>
       TamePlan(<<a, b, c, d, e>>, 5)
  /\ \A a, b, c, d, e, f : (\A step \in {a, b, c, d, e, f} : Tame(step)) =>
       TamePlan(<<a, b, c, d, e, f>>, 6)
  /\ \A a, b, c, d, e, f, g : (\A step \in {a, b, c, d, e, f, g} : Tame(step)) =>
       TamePlan(<<a, b, c, d, e, f, g>>, 7)
  /\ \A a, b, c, d, e, f, g, h : (\A step \in {a, b, c, d, e, f, g, h} : Tame(step)) =>
       TamePlan(<<a, b, c, d, e, f, g, h>>, 8)
  /\ \A a, b, c, d, e, f, g, h, i, j : (\A step \in {a, b, c, d, e, f, g, h, i, j} : Tame(step)) =>
       TamePlan(<<a, b, c, d, e, f, g, h, i, j>>, 10)
  /\ \A a, b, c, d, e, f, g, h, i, j, k, l, m, n :
       (\A step \in {a, b, c, d, e, f, g, h, i, j, k, l, m, n} : Tame(step)) =>
       TamePlan(<<a, b, c, d, e, f, g, h, i, j, k, l, m, n>>, 14)
<1>1. ASSUME NEW a,
             \A step \in {a} : Tame(step)
      PROVE  TamePlan(<<a>>, 1)
  <2>1. <<a>> \in [1..1 -> {a}]
    OBVIOUS
  <2> QED
    BY <1>1, <2>1, TameList
<1>2. ASSUME NEW a, NEW b,
             \A step \in {a, b} : Tame(step)
      PROVE  TamePlan(<<a, b>>, 2)
  <2>1. <<a, b>> \in [1..2 -> {a, b}]
    OBVIOUS
  <2> QED
    BY <1>2, <2>1, TameList
<1>3. ASSUME NEW a, NEW b, NEW c,
             \A step \in {a, b, c} : Tame(step)
      PROVE  TamePlan(<<a, b, c>>, 3)
  <2>1. <<a, b, c>> \in [1..3 -> {a, b, c}]
    OBVIOUS
  <2> QED
    BY <1>3, <2>1, TameList
<1>4. ASSUME NEW a, NEW b, NEW c, NEW d, NEW e,
             \A step \in {a, b, c, d, e} : Tame(step)
      PROVE  TamePlan(<<a, b, c, d, e>>, 5)
  <2>1. <<a, b, c, d, e>> \in [1..5 -> {a, b, c, d, e}]
    OBVIOUS
  <2> QED
    BY <1>4, <2>1, TameList
<1>5. ASSUME NEW a, NEW b, NEW c, NEW d, NEW e, NEW f,
             \A step \in {a, b, c, d, e, f} : Tame(step)
      PROVE  TamePlan(<<a, b, c, d, e, f>>, 6)
  <2>1. <<a, b, c, d, e, f>> \in [1..6 -> {a, b, c, d, e, f}]
    OBVIOUS
  <2> QED
    BY <1>5, <2>1, TameList
<1>6. ASSUME NEW a, NEW b, NEW c, NEW d, NEW e, NEW f, NEW g,
             \A step \in {a, b, c, d, e, f, g} : Tame(step)
      PROVE  TamePlan(<<a, b, c, d, e, f, g>>, 7)
  <2>1. <<a, b, c, d, e, f, g>> \in [1..7 -> {a, b, c, d, e, f, g}]
    OBVIOUS
  <2> QED
    BY <1>6, <2>1, TameList
<1>7. ASSUME NEW a, NEW b, NEW c, NEW d, NEW e, NEW f, NEW g, NEW h,
             \A step \in {a, b, c, d, e, f, g, h} : Tame(step)
      PROVE  TamePlan(<<a, b, c, d, e, f, g, h>>, 8)
  <2>1. <<a, b, c, d, e, f, g, h>> \in [1..8 -> {a, b, c, d, e, f, g, h}]
    OBVIOUS
  <2> QED
    BY <1>7, <2>1, TameList
<1>8. ASSUME NEW a, NEW b, NEW c, NEW d, NEW e, NEW f, NEW g, NEW h, NEW i, NEW j,
             \A step \in {a, b, c, d, e, f, g, h, i, j} : Tame(step)
      PROVE  TamePlan(<<a, b, c, d, e, f, g, h, i, j>>, 10)
  <2>1. <<a, b, c, d, e, f, g, h, i, j>> \in [1..10 -> {a, b, c, d, e, f, g, h, i, j}]
    OBVIOUS
  <2> QED
    BY <1>8, <2>1, TameList
<1>9. ASSUME NEW a, NEW b, NEW c, NEW d, NEW e, NEW f, NEW g, NEW h, NEW i, NEW j, NEW k,
             NEW l, NEW m, NEW n,
             \A step \in {a, b, c, d, e, f, g, h, i, j, k, l, m, n} : Tame(step)
      PROVE  TamePlan(<<a, b, c, d, e, f, g, h, i, j, k, l, m, n>>, 14)
  <2>1. <<a, b, c, d, e, f, g, h, i, j, k, l, m, n>> \in [1..14 -> {a, b, c, d, e, f, g, h, i, j, k, l, m, n}]
    OBVIOUS
  <2> QED
    BY <1>9, <2>1, TameList
<1> QED
  BY <1>1, <1>2, <1>3, <1>4, <1>5, <1>6, <1>7, <1>8, <1>9

\* Calls that are written down one by one and want the same.
LEMMA TameCallLists ==
  /\ \A a, b, want : (\A call \in {a, b} : Plain(call)) =>
       TamePlan(ExpectAll(<<a, b>>, want), 2)
  /\ \A a, b, c, want : (\A call \in {a, b, c} : Plain(call)) =>
       TamePlan(ExpectAll(<<a, b, c>>, want), 3)
  /\ \A a, b, c, d, want : (\A call \in {a, b, c, d} : Plain(call)) =>
       TamePlan(ExpectAll(<<a, b, c, d>>, want), 4)
  /\ \A a, b, c, d, e, want : (\A call \in {a, b, c, d, e} : Plain(call)) =>
       TamePlan(ExpectAll(<<a, b, c, d, e>>, want), 5)
  /\ \A a, b, c, d, e, f, want : (\A call \in {a, b, c, d, e, f} : Plain(call)) =>
       TamePlan(ExpectAll(<<a, b, c, d, e, f>>, want), 6)
  /\ \A a, b, c, d, e, f, g, h, want : (\A call \in {a, b, c, d, e, f, g, h} : Plain(call)) =>
       TamePlan(ExpectAll(<<a, b, c, d, e, f, g, h>>, want), 8)
<1>1. ASSUME NEW a, NEW b, NEW want,
             \A call \in {a, b} : Plain(call)
      PROVE  TamePlan(ExpectAll(<<a, b>>, want), 2)
  <2>1. DOMAIN <<a, b>> = 1..2 /\ \A k \in 1..2 : Plain(<<a, b>>[k])
    BY <1>1
  <2> QED
    BY <2>1, TameCalls
<1>2. ASSUME NEW a, NEW b, NEW c, NEW want,
             \A call \in {a, b, c} : Plain(call)
      PROVE  TamePlan(ExpectAll(<<a, b, c>>, want), 3)
  <2>1. DOMAIN <<a, b, c>> = 1..3 /\ \A k \in 1..3 : Plain(<<a, b, c>>[k])
    BY <1>2
  <2> QED
    BY <2>1, TameCalls
<1>3. ASSUME NEW a, NEW b, NEW c, NEW d, NEW want,
             \A call \in {a, b, c, d} : Plain(call)
      PROVE  TamePlan(ExpectAll(<<a, b, c, d>>, want), 4)
  <2>1. DOMAIN <<a, b, c, d>> = 1..4 /\ \A k \in 1..4 : Plain(<<a, b, c, d>>[k])
    BY <1>3
  <2> QED
    BY <2>1, TameCalls
<1>4. ASSUME NEW a, NEW b, NEW c, NEW d, NEW e, NEW want,
             \A call \in {a, b, c, d, e} : Plain(call)
      PROVE  TamePlan(ExpectAll(<<a, b, c, d, e>>, want), 5)
  <2>1. DOMAIN <<a, b, c, d, e>> = 1..5 /\ \A k \in 1..5 : Plain(<<a, b, c, d, e>>[k])
    BY <1>4
  <2> QED
    BY <2>1, TameCalls
<1>5. ASSUME NEW a, NEW b, NEW c, NEW d, NEW e, NEW f, NEW want,
             \A call \in {a, b, c, d, e, f} : Plain(call)
      PROVE  TamePlan(ExpectAll(<<a, b, c, d, e, f>>, want), 6)
  <2>1. DOMAIN <<a, b, c, d, e, f>> = 1..6 /\ \A k \in 1..6 : Plain(<<a, b, c, d, e, f>>[k])
    BY <1>5
  <2> QED
    BY <2>1, TameCalls
<1>6. ASSUME NEW a, NEW b, NEW c, NEW d, NEW e, NEW f, NEW g, NEW h, NEW want,
             \A call \in {a, b, c, d, e, f, g, h} : Plain(call)
      PROVE  TamePlan(ExpectAll(<<a, b, c, d, e, f, g, h>>, want), 8)
  <2>1. DOMAIN <<a, b, c, d, e, f, g, h>> = 1..8 /\ \A k \in 1..8 : Plain(<<a, b, c, d, e, f, g, h>>[k])
    BY <1>6
  <2> QED
    BY <2>1, TameCalls
<1> QED
  BY <1>1, <1>2, <1>3, <1>4, <1>5, <1>6

\* Bodies without an identifier of a row.
LEMMA PlainBodies ==
  /\ \A t : Key(t)[2] = t /\ Chip(t)[2] = t /\ Board(t)[2] = t
  /\ Illegal[2] = "lowercase" /\ Number[2] = "42"
  /\ \A f, x : x[2] # "SNAP" => Plain(PostRaw(<<<<f, x>>>>))
  /\ \A f, g, x, y : x[2] # "SNAP" /\ y[2] # "SNAP" => Plain(PostRaw(<<<<f, x>>, <<g, y>>>>))
  /\ \A f, g, h, x, y, z : x[2] # "SNAP" /\ y[2] # "SNAP" /\ z[2] # "SNAP" =>
       Plain(PostRaw(<<<<f, x>>, <<g, y>>, <<h, z>>>>))
  /\ \A e, f, g, h, w, x, y, z : w[2] # "SNAP" /\ x[2] # "SNAP" /\ y[2] # "SNAP" /\ z[2] # "SNAP" =>
       Plain(PostRaw(<<<<e, w>>, <<f, x>>, <<g, y>>, <<h, z>>>>))
<1>1. /\ \A t : Key(t)[2] = t /\ Chip(t)[2] = t /\ Board(t)[2] = t
      /\ Illegal[2] = "lowercase" /\ Number[2] = "42"
  BY DEF Key, Chip, Board, Illegal, Number
<1>2. ASSUME NEW content, \A k \in DOMAIN content : content[k][2][2] # "SNAP"
      PROVE  Plain(PostRaw(content))
  <2>1. PostRaw(content).body = content
    BY DEF PostRaw
  <2> QED
    BY <1>2, <2>1 DEF Plain
<1>3. ASSUME NEW f, NEW x, x[2] # "SNAP"
      PROVE  Plain(PostRaw(<<<<f, x>>>>))
  BY <1>2, <1>3
<1>4. ASSUME NEW f, NEW g, NEW x, NEW y, x[2] # "SNAP", y[2] # "SNAP"
      PROVE  Plain(PostRaw(<<<<f, x>>, <<g, y>>>>))
  BY <1>2, <1>4
<1>5. ASSUME NEW f, NEW g, NEW h, NEW x, NEW y, NEW z, x[2] # "SNAP", y[2] # "SNAP", z[2] # "SNAP"
      PROVE  Plain(PostRaw(<<<<f, x>>, <<g, y>>, <<h, z>>>>))
  BY <1>2, <1>5
<1>6. ASSUME NEW e, NEW f, NEW g, NEW h, NEW w, NEW x, NEW y, NEW z,
             w[2] # "SNAP", x[2] # "SNAP", y[2] # "SNAP", z[2] # "SNAP"
      PROVE  Plain(PostRaw(<<<<e, w>>, <<f, x>>, <<g, y>>, <<h, z>>>>))
  BY <1>2, <1>6
<1> QED
  BY <1>1, <1>3, <1>4, <1>5, <1>6

\* The scenarios that bind devices and read them back.
LEMMA TameBindings ==
  /\ TamePlan(ReplayAfterLostResponse, 5)
  /\ TamePlan(RequestKeyConflict, 3)
  /\ TamePlan(DeviceOccupied, 7)
  /\ TamePlan(ConcurrentStations, 10)
  /\ TamePlan(ValidationRejected, 15)
<1>1. TamePlan(ReplayAfterLostResponse, 5)
  BY TameConcat, TameCallLists, TameLists, TameSteps, PlainCalls DEF ReplayAfterLostResponse
<1>2. TamePlan(RequestKeyConflict, 3)
  BY PlainBodies, TameLists, TameSteps, PlainCalls DEF RequestKeyConflict
<1>3. TamePlan(DeviceOccupied, 7)
  BY PlainBodies, TameConcat, TameCallLists, TameLists, TameSteps, PlainCalls DEF DeviceOccupied
<1>4. TamePlan(ConcurrentStations, 10)
  <2> DEFINE occupied == \E r \in Replies(1) : Meets(r, Occupied("chip_uid"))
             same     == \A r, s \in Replies(8) : r.body = s.body
             first    == IF Body(1) = Blank THEN Key("RACE-A") ELSE Body(1).request_key
             second   == IF Body(1) = Blank THEN Board("RACE-A") ELSE Body(1).board_serial
             loser    == CHOOSE k \in {Key("RACE-A"), Key("RACE-B")} : k # Body(1).request_key
  <2>1. Tame(That(occupied)) /\ Tame(That(same))
    BY DEF That, Step, Tame
  <2>2. \A want : /\ Tame(Expect(By(first), want)) /\ Tame(Expect(By(second), want))
                  /\ Tame(Expect(By(loser), want)) /\ Tame(Expect(By(Chip("RACE")), want))
    BY TameSteps, PlainCalls
  <2>3. \A w1, w2 :
          /\ Tame(Must(Race(Post(Key("RACE-A"), Chip("RACE"), Board("RACE-A")),
                            Post(Key("RACE-B"), Chip("RACE"), Board("RACE-B")), w1, w2)))
          /\ Tame(Race(Post(Key("RACEB-A"), Chip("RACEB-A"), Board("RACEB")),
                       Post(Key("RACEB-B"), Chip("RACEB-B"), Board("RACEB")), w1, w2))
          /\ Tame(Race(Bind("RACEDUP"), Bind("RACEDUP"), w1, w2))
          /\ Tame(Race(Post(Key("RACECONF"), Chip("RACECONF-A"), Board("RACECONF-A")),
                       Post(Key("RACECONF"), Chip("RACECONF-B"), Board("RACECONF-B")), w1, w2))
    BY PlainBodies, PlainCalls, TameSteps
  <2>4. ConcurrentStations =
          <<Must(Race(Post(Key("RACE-A"), Chip("RACE"), Board("RACE-A")),
                      Post(Key("RACE-B"), Chip("RACE"), Board("RACE-B")), Answered(201), Answered(409))),
            That(occupied),
            Expect(By(Chip("RACE")), Shown(200, Body(1))),
            Expect(By(first), Shown(200, Body(1))),
            Expect(By(second), Shown(200, Body(1))),
            Expect(By(loser), Answered(404)),
            Race(Post(Key("RACEB-A"), Chip("RACEB-A"), Board("RACEB")),
                 Post(Key("RACEB-B"), Chip("RACEB-B"), Board("RACEB")),
                 Answered(201), Occupied("board_serial")),
            Race(Bind("RACEDUP"), Bind("RACEDUP"), Answered(201), Answered(200)),
            That(same),
            Race(Post(Key("RACECONF"), Chip("RACECONF-A"), Board("RACECONF-A")),
                 Post(Key("RACECONF"), Chip("RACECONF-B"), Board("RACECONF-B")),
                 Answered(201), KeyConflict)>>
    BY DEF ConcurrentStations
  <2> HIDE DEF occupied, same, first, second, loser
  <2> QED
    BY <2>1, <2>2, <2>3, <2>4, TameLists
<1>5. TamePlan(ValidationRejected, 15)
  <2>1. \A want : TamePlan(<<Expect(By(Chip("NOPE")), want)>>, 1)
    BY TameLists, TameSteps, PlainCalls
  <2>2. \A want : TamePlan(ExpectAll(<<By(Key("BAD1")), By(Key("BAD2")), By(Key("BAD3")),
                                       By(Key("BAD4")), By(Key("BAD6")), By(Key("BAD8"))>>, want), 6)
    BY TameCallLists, PlainCalls
  <2>3. Plain(PostRaw(Broken))
    BY PlainBodies DEF Broken
  <2> QED
    BY <2>1, <2>2, <2>3, PlainBodies, TameConcat, TameCallLists, PlainCalls DEF ValidationRejected
<1> QED
  BY <1>1, <1>2, <1>3, <1>4, <1>5

\* The scenarios on batches, the snapshot apart.
LEMMA TameBatches ==
  /\ TamePlan(BatchMixedWithMissing, 2)
  /\ TamePlan(BatchDuplicatesReturnedPerRow, 3)
  /\ TamePlan(BatchValidationRejected, 6)
<1>1. TamePlan(BatchMixedWithMissing, 2)
  BY TameLists, TameSteps, PlainCalls DEF BatchMixedWithMissing
<1>2. TamePlan(BatchDuplicatesReturnedPerRow, 3)
  <2> DEFINE found == Body(2) # Blank
  <2>1. /\ \A want : Tame(Expect(Bind("BDUP"), want))
        /\ \A items, want : Tame(Expect(Lookup(items), want))
        /\ Tame(Needing(Step, found))
    BY TameSteps, PlainCalls
  <2> QED
    BY <2>1, TameLists DEF BatchDuplicatesReturnedPerRow
<1>3. TamePlan(BatchValidationRejected, 6)
  BY TameLists, TameSteps, PlainCalls DEF BatchValidationRejected
<1> QED
  BY <1>1, <1>2, <1>3

\* The scenarios on inspections.
LEMMA TameInspections ==
  /\ TamePlan(InspectionVerdicts, 12)
  /\ TamePlan(InspectionReviewAndErrors, 19)
  /\ TamePlan(MismatchPeers, 26)
<1>1. TamePlan(InspectionVerdicts, 12)
  <2> DEFINE readBack ==
        [k \in 1..5 |-> Expect(Inspection(Body(k + 2).inspection_id), Shown(200, Body(k + 2)))]
  <2>1. TamePlan(readBack, 5)
    <3>1. readBack \in [1..5 -> {readBack[k] : k \in 1..5}]
      OBVIOUS
    <3>2. \A k \in 1..5 : Tame(readBack[k])
      BY TameSteps, PlainCalls
    <3> QED
      BY <3>1, <3>2, TameList
  <2> QED
    BY <2>1, TameConcat, TameLists, TameSteps, PlainCalls DEF InspectionVerdicts
<1>2. TamePlan(InspectionReviewAndErrors, 19)
  <2> DEFINE refused == [k \in DOMAIN BadTexts |-> Expect(InspectionRaw(BadTexts[k]), Rejected({}))]
  <2>1. TamePlan(refused, 6)
    <3>1. DOMAIN BadTexts = 1..6
      BY DEF BadTexts
    <3>2. refused \in [1..6 -> {refused[k] : k \in 1..6}]
      BY <3>1
    <3>3. \A k \in 1..6 : Tame(refused[k])
      BY <3>1, TameSteps, PlainCalls
    <3> QED
      BY <3>2, <3>3, TameList
  <2> QED
    BY <2>1, TameConcat, TameCallLists, TameLists, TameSteps, PlainCalls DEF InspectionReviewAndErrors
<1>3. TamePlan(MismatchPeers, 26)
  <2> DEFINE target  == Body(1).binding_id
             texts   == [k \in 1..4 |-> Expect(PeersRaw(BadTexts[k], NoText), Rejected({}))]
             limits  == [k \in 1..3 |-> Expect(PeersOf(target, BadLimits[k]), Rejected({}))]
  <2>1. TamePlan(texts, 4)
    <3>1. texts \in [1..4 -> {texts[k] : k \in 1..4}]
      OBVIOUS
    <3>2. \A k \in 1..4 : Tame(texts[k])
      BY TameSteps, PlainCalls
    <3> QED
      BY <3>1, <3>2, TameList
  <2>2. TamePlan(limits, 3)
    <3>1. limits \in [1..3 -> {limits[k] : k \in 1..3}]
      OBVIOUS
    <3>2. \A k \in 1..3 : Tame(limits[k])
      BY TameSteps, PlainCalls
    <3> QED
      BY <3>1, <3>2, TameList
  <2>3. \A want : /\ TamePlan(ExpectAll(<<Bind("MP-A"), Bind("MP-B"), Bind("MP-C"), Bind("MP-D")>>, want), 4)
                  /\ TamePlan(<<Send(Scan("MP-A", "MP-B"))>>, 1)
                  /\ TamePlan(ExpectAll(<<Scan("MP-B", "MP-A"), Scan("MP-A", "MP-C"),
                                           Scan("MP-A", "MP-D")>>, want), 3)
    BY TameCallLists, TameLists, TameSteps, PlainCalls
  <2> DEFINE asked ==
        <<Send(Scan("MP-A", "MP-A")), Send(Scan("MP-A", "MP-GHOST")),
          Expect(PeersOf(target, NoText),
                 Listed([binding |-> Body(1)], "peers",
                        <<PeerRow(Body(2), 2, Body(6)) @@ [last_occurred_at |-> Body(6).created_at],
                          PeerRow(Body(4), 1, Body(8)), PeerRow(Body(3), 1, Body(7))>>)),
          Expect(PeersOf(Body(2).binding_id, NoText),
                 Listed(<<>>, "peers", <<PeerRow(Body(1), 2, Body(6))>>)),
          Expect(PeersOf(target, Numeral[1]), Listed(<<>>, "peers", <<[binding |-> Body(2)]>>)),
          Expect(PeersOf(target, Numeral[2]), Listed(<<>>, "peers", <<<<>>, <<>>>>)),
          Expect(Bind("MP-E"), Answered(201)),
          Expect(PeersOf(Body(15).binding_id, NoText), Listed(<<>>, "peers", <<>>))>>
             last ==
        <<Expect(PeersOf(UnknownID, NoText), Missing), Expect(By(Chip("MP-A")), Shown(200, Body(1))),
          Expect(Inspection(Body(6).inspection_id), Shown(200, Body(6)))>>
             setup   == ExpectAll(<<Bind("MP-A"), Bind("MP-B"), Bind("MP-C"), Bind("MP-D")>>, Answered(201))
             crossed == ExpectAll(<<Scan("MP-B", "MP-A"), Scan("MP-A", "MP-C"), Scan("MP-A", "MP-D")>>,
                                  Verdicted("MISMATCH"))
             one     == <<Send(Scan("MP-A", "MP-B"))>>
  <2>4. TamePlan(asked, 8)
    <3>1. /\ \A id, limit, want : Tame(Expect(PeersOf(id, limit), want))
          /\ \A c, b : Tame(Send(Scan(c, b)))
          /\ \A want : Tame(Expect(Bind("MP-E"), want))
      BY TameSteps, PlainCalls
    <3> QED
      BY <3>1, TameLists
  <2>5. TamePlan(last, 3)
    BY TameLists, TameSteps, PlainCalls
  <2>6. TamePlan(setup, 4) /\ TamePlan(one, 1) /\ TamePlan(crossed, 3)
    BY <2>3
  <2>7. MismatchPeers = setup \o one \o crossed \o asked \o texts \o limits \o last
    BY DEF MismatchPeers
  <2> HIDE DEF texts, limits, asked, last, setup, one, crossed
  <2> QED
    BY <2>1, <2>2, <2>4, <2>5, <2>6, <2>7, TameConcat
<1> QED
  BY <1>1, <1>2, <1>3

\* The history of one binding.
LEMMA TameHistory == TamePlan(BindingInspectionHistory, 53)
<1>1. TamePlan(HistorySetup, 9)
  <2>1. \A want : TamePlan(ExpectAll(<<Bind("IH-A"), Bind("IH-B")>>, want), 2)
    BY TameCallLists, PlainCalls
  <2>2. \A c, b, want : Tame(Expect(Scan(c, b), want)) /\ Tame(Send(Scan(c, b)))
    BY TameSteps, PlainCalls
  <2> QED
    BY <2>1, <2>2, TameConcat, TameLists DEF HistorySetup
<1>2. TamePlan(HistoryWalks, 20)
  <2> DEFINE a      == Body(1).binding_id
             ids    == [k \in 1..5 |-> HistoryWants[k].inspection_id]
             held   == Body(20).next_cursor
             newer  == Body(22).inspection_id
             shown  == [k \in 1..5 |-> Expect(Inspection(ids[k]), Shown(200, Body(8 - k)))]
             whole  == walk.pages = 3 /\ walk.ids = ids /\ walk.sizes \subseteq 1..2
             later  == IF held = NoID THEN FALSE ELSE newer > held
             rest   == walk.ids = SubSeq(ids, 3, 5)
             all    == walk.ids = <<newer>> \o ids
             page   == [entries |-> Body(18).entries, next_cursor |-> Body(18).next_cursor]
  <2>1. \A want : TamePlan(<<Expect(HistoryRaw(Numeral[a], NoText, NoText), want)>>, 1)
    BY TameLists, TameSteps, PlainCalls
  <2>2. TamePlan(shown, 5)
    <3>1. shown \in [1..5 -> {shown[k] : k \in 1..5}]
      OBVIOUS
    <3>2. \A k \in 1..5 : Tame(shown[k])
      BY TameSteps, PlainCalls
    <3> QED
      BY <3>1, <3>2, TameList
  <2>3. \A start, limit : Tame(WalkPage(a, start, limit))
    <3> SUFFICES ASSUME NEW start, NEW limit
                 PROVE  Tame(WalkPage(a, start, limit))
      OBVIOUS
    <3> DEFINE step == Expect(History(a, IF walk.pages = 0 THEN start ELSE walk.cursor, limit), Answered(200))
    <3>1. Tame(step)
      BY TameSteps, PlainCalls
    <3>2. WalkPage(a, start, limit).calls = step.calls /\ WalkPage(a, start, limit).churn = step.churn
      BY DEF WalkPage, Expect, Step
    <3> QED
      BY <3>1, <3>2 DEF Tame
  <2>4. /\ Tame(That(whole)) /\ Tame(That(later)) /\ Tame(That(rest)) /\ Tame(That(all))
        /\ Tame(Needing(That(held # NoID), held # NoID))
    BY DEF That, Needing, Step, Tame
  <2>5. /\ \A before, want : Tame(Expect(History(a, before, 2), want))
        /\ \A c, b, want : Tame(Expect(Scan(c, b), want)) /\ Tame(Send(Scan(c, b)))
    BY TameSteps, PlainCalls
  <2> DEFINE walks ==
        <<WalkPage(a, NoID, 2), That(whole), Expect(History(a, ids[1], 2), Answered(200)),
          Expect(History(a, ids[1], 2), Shown(200, page)), Expect(History(a, NoID, 2), Answered(200)),
          Needing(That(held # NoID), held # NoID), Expect(Scan("IH-B", "IH-A"), Answered(201)),
          That(later), Send(Scan("IH-B", "IH-B")), Send(Scan("IH-X", "IH-Y")), WalkPage(a, held, 2),
          That(rest), WalkPage(a, NoID, 50), That(all)>>
  <2>6. HistoryWalks =
          <<Expect(HistoryRaw(Numeral[a], NoText, NoText),
                   Listed([binding |-> Body(1), next_cursor |-> NoID], "entries", HistoryWants))>>
          \o shown \o walks
    BY DEF HistoryWalks
  <2>7. TamePlan(walks, 14)
    <3> HIDE DEF a, ids, held, newer, whole, later, rest, all, page
    <3> QED
      BY <2>3, <2>4, <2>5, TameLists
  <2> HIDE DEF shown, walks, a
  <2> QED
    BY <2>1, <2>2, <2>6, <2>7, TameConcat
<1>3. TamePlan(HistoryErrors, 24)
  <2> DEFINE a      == Body(1).binding_id
             texts  == [k \in DOMAIN BadTexts |->
                          Expect(HistoryRaw(BadTexts[k], NoText, NoText), Rejected({"binding_id"}))]
             before == [k \in DOMAIN BadTexts |->
                          Expect(HistoryRaw(Numeral[a], BadTexts[k], NoText), Rejected({"before_id"}))]
             limits == [k \in DOMAIN BadLimits |->
                          Expect(HistoryRaw(Numeral[a], NoText, BadLimits[k]), Rejected({"limit"}))]
  <2>1. DOMAIN BadTexts = 1..6 /\ DOMAIN BadLimits = 1..6
    BY DEF BadTexts, BadLimits
  <2>2. ASSUME NEW list \in {texts, before, limits}
        PROVE  TamePlan(list, 6)
    <3>1. list \in [1..6 -> {list[k] : k \in 1..6}]
      BY <2>1
    <3>2. \A k \in 1..6 : Tame(list[k])
      BY <2>1, TameSteps, PlainCalls
    <3> QED
      BY <3>1, <3>2, TameList
  <2>3. \A want : TamePlan(<<Expect(HistoryRaw(Numeral[a], Numeral[1], NoText), want)>>, 1)
    BY TameLists, TameSteps, PlainCalls
  <2>4. TamePlan(texts, 6) /\ TamePlan(before, 6) /\ TamePlan(limits, 6)
    BY <2>2
  <2> HIDE DEF texts, before, limits
  <2>5. \A w1, w2, w3, w4, w5 :
          TamePlan(<<Expect(HistoryRaw(Numeral[UnknownID], NoText, NoText), w1),
                     Expect(By(Chip("IH-A")), w2),
                     Expect(Inspection(Body(4).inspection_id), w3),
                     Expect(Lookup(<<Item(1, Board("IH-A"))>>), w4),
                     Expect(PeersOf(a, NoText), w5)>>, 5)
    BY TameLists, TameSteps, PlainCalls
  <2> QED
    BY <2>3, <2>4, <2>5, TameConcat DEF HistoryErrors, texts, before, limits
<1> QED
  BY <1>1, <1>2, <1>3, TameConcat DEF BindingInspectionHistory

\* The scenario on repeated members.
LEMMA TameAmbiguous == TamePlan(DuplicateFieldsRejected, 16)
<1> DEFINE key(t)   == <<"request_key", Key(t)>>
           chip(t)  == <<"chip_uid", Chip(t)>>
           board(t) == <<"board_serial", Board(t)>>
           posts ==
      <<Expect(Bind("DUP"), Answered(201)),
        Expect(PostRaw(<<key("DUP-K1"), key("DUP-K2"), chip("NEW1"), board("NEW1")>>),
               Rejected({"request_key"})),
        Expect(PostRaw(<<key("DUP-C"), chip("NEW2"), chip("DUP"), board("NEW2")>>),
               Rejected({"chip_uid"})),
        Expect(PostRaw(<<key("DUP-B"), chip("NEW3"), board("NEW3"), board("DUP")>>),
               Rejected({"board_serial"})),
        Expect(PostRaw(<<key("DUP-S"), key("DUP-S"), chip("NEW4"), board("NEW4")>>),
               Rejected({"request_key"}))>>
           reads == ExpectAll(<<By(Key("DUP-K1")), By(Key("DUP-K2")), By(Key("DUP-C")),
                                By(Key("DUP-B")), By(Key("DUP-S"))>>, Answered(404))
           others ==
      <<Expect(ScanRaw(<<chip("GHOST"), chip("DUP"), board("DUP")>>), Rejected({"chip_uid"})),
        Expect(ScanRaw(<<chip("DUP"), board("GHOST"), board("DUP")>>), Rejected({"board_serial"})),
        Expect(Scan("DUP", "DUP"), Verdicted("CONSISTENT")),
        Expect(Lookup(<<[fault |-> "type"]>>), Rejected({<<1, "type">>})),
        Expect(Twice(Lookup(<<Item(1, Chip("DUP"))>>)), Rejected({<<0, "queries">>})),
        Expect(Lookup(<<Item(1, Chip("DUP"))>>), Listed(<<>>, "results", <<[status |-> "FOUND"]>>))>>
<1>1. TamePlan(posts, 5)
  <2>1. /\ Plain(PostRaw(<<key("DUP-K1"), key("DUP-K2"), chip("NEW1"), board("NEW1")>>))
        /\ Plain(PostRaw(<<key("DUP-C"), chip("NEW2"), chip("DUP"), board("NEW2")>>))
        /\ Plain(PostRaw(<<key("DUP-B"), chip("NEW3"), board("NEW3"), board("DUP")>>))
        /\ Plain(PostRaw(<<key("DUP-S"), key("DUP-S"), chip("NEW4"), board("NEW4")>>))
    BY PlainBodies
  <2>2. Plain(Bind("DUP"))
    BY PlainCalls
  <2> HIDE DEF key, chip, board
  <2> QED
    BY <2>1, <2>2, TameSteps, TameLists
<1>2. TamePlan(reads, 5)
  BY TameCallLists, PlainCalls
<1>3. TamePlan(others, 6)
  <2> HIDE DEF chip, board
  <2> QED
    BY TameLists, TameSteps, PlainCalls
<1>4. DuplicateFieldsRejected = posts \o reads \o others
  BY DEF DuplicateFieldsRejected
<1> HIDE DEF posts, reads, others
<1> QED
  BY <1>1, <1>2, <1>3, <1>4, TameConcat

\* How many steps a scenario has.
PlanLen(name) ==
  CASE name = "replay"      -> 5
    [] name = "conflict"    -> 3
    [] name = "occupied"    -> 7
    [] name = "race"        -> 10
    [] name = "validation"  -> 15
    [] name = "mixed"       -> 2
    [] name = "duplicates"  -> 3
    [] name = "snapshot"    -> 4
    [] name = "batch 422"   -> 6
    [] name = "verdicts"    -> 12
    [] name = "review"      -> 19
    [] name = "peers"       -> 26
    [] name = "history"     -> 53
    [] name = "ambiguous"   -> 16

\* The plan of each scenario, and its length.
LEMMA PlansByName ==
  /\ Steps("replay") = ReplayAfterLostResponse /\ PlanLen("replay") = 5
  /\ Steps("conflict") = RequestKeyConflict /\ PlanLen("conflict") = 3
  /\ Steps("occupied") = DeviceOccupied /\ PlanLen("occupied") = 7
  /\ Steps("race") = ConcurrentStations /\ PlanLen("race") = 10
  /\ Steps("validation") = ValidationRejected /\ PlanLen("validation") = 15
  /\ Steps("mixed") = BatchMixedWithMissing /\ PlanLen("mixed") = 2
  /\ Steps("duplicates") = BatchDuplicatesReturnedPerRow /\ PlanLen("duplicates") = 3
  /\ Steps("snapshot") = BatchSnapshotUnderConcurrentWrites /\ PlanLen("snapshot") = 4
  /\ Steps("batch 422") = BatchValidationRejected /\ PlanLen("batch 422") = 6
  /\ Steps("verdicts") = InspectionVerdicts /\ PlanLen("verdicts") = 12
  /\ Steps("review") = InspectionReviewAndErrors /\ PlanLen("review") = 19
  /\ Steps("peers") = MismatchPeers /\ PlanLen("peers") = 26
  /\ Steps("history") = BindingInspectionHistory /\ PlanLen("history") = 53
  /\ Steps("ambiguous") = DuplicateFieldsRejected /\ PlanLen("ambiguous") = 16
  BY Zenon DEF Steps, PlanLen

\* The scenarios by name.
LEMMA ScenarioNames ==
  ASSUME NEW name \in Scenarios
  PROVE  \/ name = "replay" \/ name = "conflict" \/ name = "occupied" \/ name = "race"
         \/ name = "validation" \/ name = "mixed" \/ name = "duplicates" \/ name = "snapshot"
         \/ name = "batch 422" \/ name = "verdicts" \/ name = "review" \/ name = "peers"
         \/ name = "history" \/ name = "ambiguous"
<1>1. DOMAIN MainSuite = 1..14
  BY DEF MainSuite
<1>2. PICK k \in 1..14 : name = MainSuite[k]
  BY <1>1 DEF Scenarios
<1>3. k = 1 \/ k = 2 \/ k = 3 \/ k = 4 \/ k = 5 \/ k = 6 \/ k = 7
      \/ k = 8 \/ k = 9 \/ k = 10 \/ k = 11 \/ k = 12 \/ k = 13 \/ k = 14
  OBVIOUS
<1>4. /\ MainSuite[1] = "replay"
      /\ MainSuite[2] = "conflict"
      /\ MainSuite[3] = "occupied"
      /\ MainSuite[4] = "race"
      /\ MainSuite[5] = "validation"
      /\ MainSuite[6] = "mixed"
      /\ MainSuite[7] = "duplicates"
      /\ MainSuite[8] = "snapshot"
      /\ MainSuite[9] = "batch 422"
      /\ MainSuite[10] = "verdicts"
      /\ MainSuite[11] = "review"
      /\ MainSuite[12] = "peers"
      /\ MainSuite[13] = "history"
      /\ MainSuite[14] = "ambiguous"
  BY DEF MainSuite
<1> QED
  BY <1>2, <1>3, <1>4

\* No step of a scenario binds an identifier of a row, and one that churns is
\* not its last.
LEMMA PlansAreTame ==
  ASSUME NEW name \in Scenarios
  PROVE  /\ PlanLen(name) \in Nat \ {0}
         /\ Len(Steps(name)) = PlanLen(name)
         /\ DOMAIN Steps(name) = 1..PlanLen(name)
         /\ \A k \in 1..PlanLen(name) :
              /\ \A c \in DOMAIN Steps(name)[k].calls : Plain(Steps(name)[k].calls[c])
              /\ Steps(name)[k].churn => k < PlanLen(name)
<1>1. ASSUME NEW n \in Nat \ {0}, TamePlan(Steps(name), n)
      PROVE  /\ Len(Steps(name)) = n
             /\ DOMAIN Steps(name) = 1..n
             /\ \A k \in 1..n : Tame(Steps(name)[k])
  <2> DEFINE plan == Steps(name)
  <2> HIDE DEF plan
  <2>1. TamePlan(plan, n)
    BY <1>1 DEF plan
  <2>2. Len(plan) = n /\ DOMAIN plan = 1..n /\ \A k \in 1..n : Tame(plan[k])
    BY <2>1 DEF TamePlan
  <2> QED
    BY <2>2 DEF plan
<1>2. CASE name # "snapshot"
  <2>1. \/ PlanLen(name) = 5 /\ TamePlan(Steps(name), 5)
        \/ PlanLen(name) = 3 /\ TamePlan(Steps(name), 3)
        \/ PlanLen(name) = 7 /\ TamePlan(Steps(name), 7)
        \/ PlanLen(name) = 10 /\ TamePlan(Steps(name), 10)
        \/ PlanLen(name) = 15 /\ TamePlan(Steps(name), 15)
        \/ PlanLen(name) = 2 /\ TamePlan(Steps(name), 2)
        \/ PlanLen(name) = 6 /\ TamePlan(Steps(name), 6)
        \/ PlanLen(name) = 12 /\ TamePlan(Steps(name), 12)
        \/ PlanLen(name) = 19 /\ TamePlan(Steps(name), 19)
        \/ PlanLen(name) = 26 /\ TamePlan(Steps(name), 26)
        \/ PlanLen(name) = 53 /\ TamePlan(Steps(name), 53)
        \/ PlanLen(name) = 16 /\ TamePlan(Steps(name), 16)
    <3>1. CASE \/ name = "replay" \/ name = "conflict" \/ name = "occupied" \/ name = "race"
               \/ name = "validation"
      BY <3>1, TameBindings, PlansByName
    <3>2. CASE name = "mixed" \/ name = "duplicates" \/ name = "batch 422"
      BY <3>2, TameBatches, PlansByName
    <3>3. CASE name = "verdicts" \/ name = "review" \/ name = "peers"
      BY <3>3, TameInspections, PlansByName
    <3>4. CASE name = "history" \/ name = "ambiguous"
      BY <3>4, TameHistory, TameAmbiguous, PlansByName
    <3> QED
      BY <1>2, <3>1, <3>2, <3>3, <3>4, ScenarioNames
  <2>2. PlanLen(name) \in Nat \ {0} /\ TamePlan(Steps(name), PlanLen(name))
    BY <2>1
  <2> QED
    BY <1>1, <2>2 DEF Tame
<1>3. CASE name = "snapshot"
  <2> DEFINE churning == [Step EXCEPT !.churn = TRUE]
             torn     == That(~ churn.torn)
             observed == Labelled(That(churn.observed), "observed")
             complete == Labelled(Expect(Lookup(SnapItems),
                                    Listed(<<>>, "results", [k \in 1..3 * SnapRows |-> [status |-> "FOUND"]])),
                                  "complete")
  <2>1. churning.calls = <<>> /\ Tame(torn) /\ Tame(observed)
    BY DEF That, Step, Labelled, Tame
  <2>2. Tame(complete)
    <3> DEFINE want == Listed(<<>>, "results", [k \in 1..3 * SnapRows |-> [status |-> "FOUND"]])
    <3>1. Tame(Expect(Lookup(SnapItems), want))
      BY TameSteps, PlainCalls
    <3>2. /\ complete.calls = Expect(Lookup(SnapItems), want).calls
          /\ complete.churn = Expect(Lookup(SnapItems), want).churn
      BY DEF Labelled, Expect, Step
    <3> QED
      BY <3>1, <3>2 DEF Tame
  <2>3. Steps(name) = <<churning, torn, observed, complete>>
    BY <1>3, PlansByName DEF BatchSnapshotUnderConcurrentWrites
  <2>4. PlanLen(name) = 4
    BY <1>3, PlansByName
  <2> HIDE DEF churning, torn, observed, complete
  <2>5. /\ Len(Steps(name)) = 4 /\ DOMAIN Steps(name) = 1..4
        /\ Steps(name)[1] = churning
        /\ \A k \in 2..4 : Tame(Steps(name)[k])
    BY <2>1, <2>2, <2>3
  <2> QED
    BY <2>1, <2>4, <2>5 DEF Tame
<1> QED
  BY <1>2, <1>3

-----------------------------------------------------------------------------
(* The run: the client stays in its plans, the writers in the rows.         *)

\* Where the client is, what the table of bindings holds of the rows, and where
\* the writers are.
ClientInPlan ==
  /\ suite \in Suites
  /\ phase \in {"waiting", "running"} =>
       /\ scenario \in Nat /\ scenario < Len(suite)
       /\ got \in Seq({got[k] : k \in DOMAIN got})
       /\ Len(got) < PlanLen(Name)

WritersInRows ==
  /\ DOMAIN churn = {"next", "pc", "stopped", "rounds", "torn", "observed"}
  /\ churn.next \in [Writers -> Nat \ {0}]
  /\ churn.pc \in [Writers -> {"check", "create", "done"}]
  /\ churn.torn = FALSE
  /\ \A w \in Writers : churn.pc[w] = "create" => churn.next[w] <= SnapRows

SnapInv == ClientInPlan /\ WritersInRows /\ RowsWhole

\* The step that a running client is at.
LEMMA CurrentStep ==
  ASSUME ClientInPlan, phase = "running"
  PROVE  /\ Name \in Scenarios
         /\ Len(Plan) = PlanLen(Name) /\ PlanLen(Name) \in Nat
         /\ Len(got) \in Nat /\ Len(got) + 1 <= PlanLen(Name)
         /\ \A c \in DOMAIN Now.calls : Plain(Now.calls[c])
         /\ Now.churn => Len(got) + 1 < PlanLen(Name)
<1>1. Name \in Scenarios
  <2>1. suite \in Seq(Scenarios) /\ scenario + 1 \in 1..Len(suite)
    BY SuitesAssumption DEF ClientInPlan
  <2> QED
    BY <2>1 DEF Name
<1>2. Len(got) \in Nat /\ Len(got) < PlanLen(Name)
  BY DEF ClientInPlan
<1> DEFINE name == Name
<1> HIDE DEF name
<1>3. /\ name \in Scenarios /\ Len(got) < PlanLen(name)
      /\ Plan = Steps(name) /\ Now = Steps(name)[Len(got) + 1]
  BY <1>1, <1>2 DEF name, Plan, Now
<1>4. PlanLen(name) \in Nat \ {0} /\ Len(got) + 1 \in 1..PlanLen(name)
  BY <1>2, <1>3, PlansAreTame
<1> QED
  BY <1>2, <1>3, <1>4, PlansAreTame DEF name

\* The client stays within the plans of its scenarios.
LEMMA ClientStaysInPlan ==
  ASSUME ClientInPlan, [Next]_vars
  PROVE  ClientInPlan'
<1>1. ASSUME UNCHANGED <<suite, scenario, got>>,
             phase' \in {"waiting", "running"} => phase \in {"waiting", "running"}
      PROVE  ClientInPlan'
  BY <1>1 DEF ClientInPlan, Name
<1>2. ASSUME phase = "running", Judge(Now)
      PROVE  ClientInPlan'
  <2> DEFINE ok   == IF Now.calls = <<>> THEN Now.ok ELSE AllMet(answers, Now.wants)
             last == Len(got) + 1 = Len(Plan) \/ (Now.must /\ ~ ok)
  <2>1. CASE UNCHANGED <<phase, scenario, got>>
    BY <1>1, <1>2, <2>1 DEF Judge
  <2>2. CASE Advance(Now, last, failures')
    <3>1. suite' = suite
      BY <1>2 DEF Judge
    <3> HIDE DEF ok
    <3>2. /\ Len(got) + 1 < PlanLen(Name) \/ last
          /\ Len(got) \in Nat /\ PlanLen(Name) \in Nat
      BY <1>2, CurrentStep
    <3> HIDE DEF last
    <3>3. phase' \in {"waiting", "running"} => scenario' < Len(suite)
      BY <2>2 DEF Advance
    <3>4. CASE last
      <4>1. scenario' = scenario + 1 /\ got' = <<>>
        BY <2>2, <3>4 DEF Advance
      <4>2. phase' \in {"waiting", "running"} => Name' \in Scenarios
        <5>1. suite \in Seq(Scenarios) /\ scenario \in Nat
          BY <1>2, SuitesAssumption DEF ClientInPlan
        <5>2. Name' = suite[scenario + 2]
          BY <3>1, <4>1, <5>1 DEF Name
        <5> QED
          BY <3>3, <4>1, <5>1, <5>2
      <4>3. phase' \in {"waiting", "running"} => PlanLen(Name') \in Nat \ {0}
        BY <4>2, PlansAreTame
      <4> QED
        BY <1>2, <3>1, <3>3, <4>1, <4>3 DEF ClientInPlan
    <3>5. CASE ~ last
      <4>1. scenario' = scenario /\ got' = Append(got, answers)
        BY <2>2, <3>5 DEF Advance
      <4>2. Name' = Name
        BY <3>1, <4>1 DEF Name
      <4>3. Len(got') = Len(got) + 1 /\ got' \in Seq({got'[k] : k \in DOMAIN got'})
        <5>1. got \in Seq({got[k] : k \in DOMAIN got} \cup {answers})
          BY <1>2 DEF ClientInPlan
        <5>2. got' \in Seq({got[k] : k \in DOMAIN got} \cup {answers}) /\ Len(got') = Len(got) + 1
          BY <4>1, <5>1
        <5> QED
          BY <5>2
      <4> QED
        BY <1>2, <3>1, <3>2, <3>5, <4>1, <4>2, <4>3 DEF ClientInPlan
    <3> QED
      BY <3>4, <3>5
  <2> QED
    BY <1>2, <2>1, <2>2 DEF Judge
<1>3. ASSUME phase = "running", Now.churn, Join
      PROVE  ClientInPlan'
  <2>1. got' = Append(got, <<>>) /\ UNCHANGED <<suite, phase, scenario>>
    BY <1>3 DEF Join
  <2>2. Len(got) + 1 < PlanLen(Name) /\ Name' = Name
    BY <1>3, <2>1, CurrentStep DEF Name
  <2>3. Len(got') = Len(got) + 1 /\ got' \in Seq({got'[k] : k \in DOMAIN got'})
    <3>1. got \in Seq({got[k] : k \in DOMAIN got} \cup {<<>>})
      BY <1>3 DEF ClientInPlan
    <3>2. got' \in Seq({got[k] : k \in DOMAIN got} \cup {<<>>}) /\ Len(got') = Len(got) + 1
      BY <2>1, <3>1
    <3> QED
      BY <3>2
  <2> QED
    BY <1>3, <2>1, <2>2, <2>3 DEF ClientInPlan
<1>4. ASSUME phase = "running", Now.churn, Churn, ~ Join
      PROVE  ClientInPlan'
  BY <1>1, <1>4 DEF Churn, LookAtStop, WriteRow, Round, CloseStop, progress
<1>5. ASSUME phase = "running", Call(Now)
      PROVE  ClientInPlan'
  BY <1>1, <1>5 DEF Call
<1>6. CASE Poll
  BY <1>1, <1>6 DEF Poll
<1>7. CASE ServiceUp \/ ForeignStation
  BY <1>1, <1>7 DEF ServiceUp, ForeignStation, progress
<1>8. CASE UNCHANGED vars \/ Over
  BY <1>1, <1>8 DEF Over, vars, progress
<1> QED
  BY <1>2, <1>3, <1>4, <1>5, <1>6, <1>7, <1>8 DEF Next, Client, Go

\* Every call that is sent is plain or writes a row.
LEMMA RowsStayWhole ==
  ASSUME SnapInv, [Next]_vars
  PROVE  RowsWhole'
<1>1. CASE UNCHANGED tables
  BY <1>1 DEF SnapInv, RowsWhole, Whole, tables
<1>2. ASSUME NEW call, Serve(call), Plain(call) \/ \E i \in 1..SnapRows : call = SnapRow(i)
      PROVE  RowsWhole'
  BY <1>2, CallsKeepRowsWhole DEF SnapInv
<1>3. ASSUME NEW call, Deliver(call) \/ Lose(call), Plain(call) \/ \E i \in 1..SnapRows : call = SnapRow(i)
      PROVE  RowsWhole'
  BY <1>1, <1>2, <1>3 DEF Deliver, Lose
<1>4. ASSUME phase = "running", Call(Now)
      PROVE  RowsWhole'
  <2>1. PICK k \in DOMAIN Now.calls : Deliver(Now.calls[k]) \/ Lose(Now.calls[k])
    BY <1>4 DEF Call
  <2>2. Plain(Now.calls[k])
    BY <1>4, CurrentStep DEF SnapInv
  <2> QED
    BY <1>3, <2>1, <2>2
<1>5. ASSUME NEW w \in Writers, WriteRow(w)
      PROVE  RowsWhole'
  <2>1. churn.next[w] \in Nat \ {0} /\ churn.next[w] <= SnapRows
    BY <1>5 DEF SnapInv, WritersInRows, WriteRow
  <2>2. churn.next[w] \in 1..SnapRows
    BY <2>1, SnapAssumption
  <2> QED
    BY <1>3, <1>5, <2>2 DEF WriteRow
<1>6. ASSUME Round
      PROVE  RowsWhole'
  <2>1. Deliver(Lookup(SnapItems)) \/ Lose(Lookup(SnapItems))
    BY <1>6 DEF Round
  <2> QED
    BY <1>3, <2>1, PlainCalls
<1>7. ASSUME ForeignStation
      PROVE  RowsWhole'
  <2>1. Plain(Bind("FOREIGN")) /\ Plain(Scan("FOREIGN", "FOREIGN"))
    BY PlainCalls
  <2> QED
    BY <1>2, <1>7, <2>1 DEF ForeignStation
<1>8. CASE Poll \/ ServiceUp \/ Over \/ UNCHANGED vars
  BY <1>1, <1>8 DEF Poll, ServiceUp, Over, vars
<1>9. ASSUME Judge(Now) \/ CloseStop \/ Join \/ \E w \in Writers : LookAtStop(w)
      PROVE  RowsWhole'
  BY <1>1, <1>9 DEF Judge, CloseStop, Join, LookAtStop
<1> QED
  BY <1>4, <1>5, <1>6, <1>7, <1>8, <1>9 DEF Next, Client, Go, Churn

\* The writers stay within the rows, and no batch among them is torn.
LEMMA WritersStayInRows ==
  ASSUME SnapInv, TablesInv, BatchesAnswered, [Next]_vars
  PROVE  WritersInRows'
<1>1. CASE UNCHANGED churn
  BY <1>1 DEF SnapInv, WritersInRows
<1>2. ASSUME churn' = NoChurn
      PROVE  WritersInRows'
  <2>1. Writers \subseteq Nat \ {0}
    BY SnapAssumption DEF Writers
  <2> QED
    BY <1>2, <2>1 DEF NoChurn, WritersInRows
<1>3. ASSUME NEW w \in Writers, LookAtStop(w)
      PROVE  WritersInRows'
  <2>1. churn' = [churn EXCEPT !.pc[w] =
          IF churn.stopped \/ churn.next[w] > SnapRows THEN "done" ELSE "create"]
    BY <1>3 DEF LookAtStop
  <2>2. churn.next[w] \in Nat /\ SnapRows \in Nat
    BY SnapAssumption DEF SnapInv, WritersInRows
  <2> QED
    BY <2>1, <2>2 DEF SnapInv, WritersInRows
<1>4. ASSUME NEW w \in Writers, WriteRow(w)
      PROVE  WritersInRows'
  <2>1. churn' = [churn EXCEPT !.pc[w] = "check", !.next[w] = @ + SnapWriters]
    BY <1>4 DEF WriteRow
  <2>2. churn.next[w] + SnapWriters \in Nat \ {0}
    BY SnapAssumption DEF SnapInv, WritersInRows
  <2>3. /\ churn'.pc = [churn.pc EXCEPT ![w] = "check"]
        /\ churn'.next = [churn.next EXCEPT ![w] = churn.next[w] + SnapWriters]
        /\ churn'.torn = churn.torn /\ DOMAIN churn' = DOMAIN churn
    BY <2>1 DEF SnapInv, WritersInRows
  <2> QED
    BY <2>2, <2>3 DEF SnapInv, WritersInRows
<1>5. ASSUME Round
      PROVE  WritersInRows'
  <2> DEFINE results == Response(Lookup(SnapItems)).body.results
             torn    == \E i \in 1..SnapRows : TornRow(results, i)
             seen    == \E i \in 1..SnapRows : Cardinality(FoundOf(results, i)) = 3
  <2>1. ~ torn
    BY WholeRowsAreNotTorn DEF SnapInv
  <2>2. \/ churn' = [churn EXCEPT !.rounds = @ + 1, !.torn = @ \/ torn, !.observed = @ \/ seen]
        \/ churn' = [churn EXCEPT !.rounds = @ + 1]
    BY <1>5 DEF Round
  <2> HIDE DEF torn, seen
  <2>3. churn'.torn = FALSE
    BY <2>1, <2>2 DEF SnapInv, WritersInRows
  <2>4. churn'.next = churn.next /\ churn'.pc = churn.pc /\ DOMAIN churn' = DOMAIN churn
    BY <2>2 DEF SnapInv, WritersInRows
  <2> QED
    BY <2>3, <2>4 DEF SnapInv, WritersInRows
<1>6. ASSUME CloseStop
      PROVE  WritersInRows'
  BY <1>6 DEF CloseStop, SnapInv, WritersInRows
<1>7. ASSUME Judge(Now)
      PROVE  WritersInRows'
  BY <1>1, <1>2, <1>7 DEF Judge
<1>8. CASE Call(Now) \/ Join \/ Poll \/ ServiceUp \/ ForeignStation \/ Over \/ UNCHANGED vars
  BY <1>1, <1>8 DEF Call, Join, Poll, ServiceUp, ForeignStation, Over, vars
<1> QED
  BY <1>3, <1>4, <1>5, <1>6, <1>7, <1>8 DEF Next, Client, Go, Churn

\* So the check of that scenario, the one that has no label, passes.
TornCheck == <<"snapshot", "">>

LEMMA TornCheckPasses ==
  ASSUME SnapInv, TornCheck \notin failures, [Next]_vars
  PROVE  TornCheck \notin failures'
<1>1. CASE UNCHANGED failures
  BY <1>1
<1>2. ASSUME phase = "running", Judge(Now)
      PROVE  TornCheck \notin failures'
  <2> DEFINE ok == IF Now.calls = <<>> THEN Now.ok ELSE AllMet(answers, Now.wants)
  <2>1. failures' = IF ok THEN failures ELSE failures \cup {<<Name, Now.label>>}
    BY <1>2 DEF Judge
  <2>2. Name = "snapshot" => ok \/ Now.label = "observed" \/ Now.label = "complete"
    <3> SUFFICES ASSUME Name = "snapshot"
                 PROVE  ok \/ Now.label = "observed" \/ Now.label = "complete"
      OBVIOUS
    <3> DEFINE churning == [Step EXCEPT !.churn = TRUE]
               torn     == That(~ churn.torn)
               observed == Labelled(That(churn.observed), "observed")
               complete == Labelled(Expect(Lookup(SnapItems),
                             Listed(<<>>, "results", [k \in 1..3 * SnapRows |-> [status |-> "FOUND"]])),
                           "complete")
    <3>1. /\ torn.calls = <<>> /\ torn.ok
          /\ observed.label = "observed" /\ complete.label = "complete"
      <4>1. torn.calls = <<>> /\ torn.ok = ~ churn.torn
        BY DEF That, Step
      <4>2. ~ churn.torn
        BY DEF SnapInv, WritersInRows
      <4>3. observed.label = "observed" /\ complete.label = "complete"
        BY DEF That, Step, Labelled, Expect
      <4> QED
        BY <4>1, <4>2, <4>3
    <3>2. Steps("snapshot") = <<churning, torn, observed, complete>>
      BY PlansByName DEF BatchSnapshotUnderConcurrentWrites
    <3>3. churning.churn
      BY DEF Step
    <3> HIDE DEF churning, torn, observed, complete, ok
    <3>4. \E k \in 1..4 : Now = <<churning, torn, observed, complete>>[k]
      <4> DEFINE length == PlanLen(Name)
      <4>1. length = 4
        BY PlansByName
      <4>2. Len(got) + 1 \in 1..4
        <5>1. Len(got) \in Nat /\ Len(got) + 1 <= length
          BY <1>2, CurrentStep DEF SnapInv
        <5> HIDE DEF length
        <5> QED
          BY <4>1, <5>1
      <4>3. Now = Steps("snapshot")[Len(got) + 1]
        BY DEF Now, Plan
      <4> QED
        BY <3>2, <4>2, <4>3
    <3>5. Now = churning \/ Now = torn \/ Now = observed \/ Now = complete
      <4>1. PICK k \in 1..4 : Now = <<churning, torn, observed, complete>>[k]
        BY <3>4
      <4>2. k = 1 \/ k = 2 \/ k = 3 \/ k = 4
        BY <4>1
      <4> QED
        BY <4>1, <4>2
    <3>6. Now # churning
      <4>1. ~ Now.churn
        BY <1>2 DEF Judge
      <4> QED
        BY <3>3, <4>1, Zenon
    <3>7. Now = torn => ok
      BY <3>1 DEF ok
    <3> QED
      BY <3>1, <3>5, <3>6, <3>7
  <2> HIDE DEF ok
  <2>3. ok \/ <<Name, Now.label>> # TornCheck
    <3>1. "observed" # "" /\ "complete" # ""
      OBVIOUS
    <3> QED
      BY <2>2, <3>1, Zenon DEF TornCheck
  <2> QED
    BY <2>1, <2>3
<1> QED
  BY <1>1, <1>2 DEF Next, Client, Go, Churn, Call, LookAtStop, WriteRow, Round, CloseStop, Join,
                    Poll, ServiceUp, ForeignStation, Over, progress, vars

\* No batch of the snapshot scenario finds a row in part, whatever the writers,
\* the lost calls and the other stations do, and the check that looks for one
\* never fails (main.go:546-574).
THEOREM NoBatchIsTorn == Spec => [](~ churn.torn /\ TornCheck \notin failures)
<1>1. Init => SnapInv
  <2> SUFFICES ASSUME Init
               PROVE  SnapInv
    OBVIOUS
  <2>1. ClientInPlan
    <3>1. suite \in Seq(Scenarios) /\ suite # <<>> /\ scenario = 0 /\ got = <<>>
      BY SuitesAssumption DEF Init
    <3>2. Name \in Scenarios /\ 0 < Len(suite)
      BY <3>1 DEF Name
    <3>3. PlanLen(Name) \in Nat \ {0}
      BY <3>2, PlansAreTame
    <3> QED
      BY <3>1, <3>2, <3>3 DEF ClientInPlan, Init
  <2>2. WritersInRows
    <3>1. Writers \subseteq Nat \ {0}
      BY SnapAssumption DEF Writers
    <3> QED
      BY <3>1 DEF WritersInRows, Init, NoChurn
  <2>3. RowsWhole
    BY DEF RowsWhole, Init, InitTables
  <2> QED
    BY <2>1, <2>2, <2>3 DEF SnapInv
<1>2. SnapInv /\ TablesInv /\ BatchesAnswered /\ [Next]_vars => SnapInv'
  BY ClientStaysInPlan, WritersStayInRows, RowsStayWhole DEF SnapInv
<1>3. SnapInv => ~ churn.torn
  BY DEF SnapInv, WritersInRows
<1> DEFINE Passed == TornCheck \notin failures
<1>4. Init => Passed
  BY DEF Init
<1>5. SnapInv /\ Passed /\ [Next]_vars => Passed'
  BY TornCheckPasses DEF TornCheck
<1> HIDE DEF Passed
<1>6. Spec => [](~ churn.torn /\ Passed)
  BY <1>1, <1>2, <1>3, <1>4, <1>5, TablesInvariant, BatchesAnsweredInvariant, PTL DEF Spec
<1> QED
  BY <1>6 DEF Passed
=============================================================================
