---------------------------- MODULE RecordProofs ----------------------------
(***************************************************************************)
(* The record code over Records: what CopybookProofs shows of reading a    *)
(* copybook holds of every behaviour; and packing and unpacking COMP-3     *)
(* fields are inverse to each other and accept exactly the decimals a      *)
(* field can hold, whatever the digits, precisions and exponents.  A row   *)
(* written as a record comes back as the document it means, and a changed  *)
(* byte shows, whatever the layout, the rows and the damage.  Numbers of   *)
(* digits and joined parts are recursive functions; what they do is shown  *)
(* by induction on lengths (Induct).                                       *)
(***************************************************************************)
EXTENDS Records, CopybookProofs

(* A step reads on in a copybook or leaves it alone.                       *)
LEMMA CopybookSteps == [Next]_vars => CopybookNext \/ UNCHANGED copybookVars
BY DEF Next, vars

(* The lines read so far account for the layout of every state.            *)
THEOREM CopybookInvariantHolds == Spec => []CopybookInvariant
<1>1. Init => CopybookInvariant
  BY CopybookBegins DEF Init
<1>2. CopybookInvariant /\ [Next]_vars => CopybookInvariant'
  BY CopybookSteps, CopybookStep, CopybookStutters
<1>3. QED
  BY <1>1, <1>2, PTL DEF Spec

(* A copybook gives a layout exactly if it is as the docstring describes,  *)
(* and record_length accepts that layout (copybook.py:46-113).             *)
THEOREM CopybooksAreRead == Spec => []ReadsCopybooks
BY CopybookInvariantHolds, ReadIsUsable, PTL

(* In any layout record_length accepts, whoever made it, every byte of the *)
(* record belongs to exactly one field (copybook.py:86-113).               *)
THEOREM FieldsTile == Spec => []FieldsTileRecord
<1>1. CopybookInvariant => FieldsTileRecord
  BY LayoutTiles DEF CopybookInvariant
<1>2. QED
  BY <1>1, CopybookInvariantHolds, PTL

-----------------------------------------------------------------------------
(* Digits as numbers.                                                      *)

(* f gives the numbers of the first k digits of a text.                    *)
NumberUpTo(text, k, f) ==
    /\ f \in [0..k -> Nat]
    /\ f[0] = 0
    /\ \A i \in 1..k : f[i] = 10 * f[i - 1] + text[i]

(* There is such a function for every text, by induction on k.             *)
LEMMA SomeUpTo ==
    ASSUME NEW text \in Seq(Digit)
    PROVE  \E f : NumberUpTo(text, Len(text), f)
<1> DEFINE S == {k \in Nat : k <= Len(text) => \E f : NumberUpTo(text, k, f)}
<1>1. 0 \in S
  <2>1. NumberUpTo(text, 0, [i \in 0..0 |-> 0])
    BY DEF NumberUpTo
  <2>2. QED
    BY <2>1
<1>2. ASSUME NEW k \in Nat, k \in S PROVE k + 1 \in S
  <2>1. ASSUME k + 1 <= Len(text) PROVE \E f : NumberUpTo(text, k + 1, f)
    <3>1. PICK f : NumberUpTo(text, k, f)
      BY <1>2, <2>1
    <3>2. f[k] \in Nat /\ text[k + 1] \in Nat
      <4>1. f[k] \in Nat
        BY <3>1 DEF NumberUpTo
      <4>2. k + 1 \in 1..Len(text)
        BY <2>1
      <4>3. QED
        BY <4>1, <4>2 DEF Digit
    <3> DEFINE g == [i \in 0..(k + 1) |-> IF i = k + 1 THEN 10 * f[k] + text[k + 1] ELSE f[i]]
    <3>3. g \in [0..(k + 1) -> Nat]
      BY <3>1, <3>2 DEF NumberUpTo
    <3>4. g[0] = 0
      BY <3>1 DEF NumberUpTo
    <3>5. \A i \in 1..(k + 1) : g[i] = 10 * g[i - 1] + text[i]
      BY <3>1 DEF NumberUpTo
    <3>6. NumberUpTo(text, k + 1, g)
      BY <3>3, <3>4, <3>5 DEF NumberUpTo
    <3>7. QED
      BY <3>6
  <2>2. QED
    BY <2>1
<1> HIDE DEF S
<1>3. Nat \subseteq S
  BY <1>1, <1>2, Induct
<1>4. Len(text) \in Nat
  OBVIOUS
<1>5. QED
  BY <1>3, <1>4 DEF S

(* Number is its last value: the recursive function is the one there       *)
(* is.                                                                     *)
LEMMA NumberIs ==
    ASSUME NEW text \in Seq(Digit)
    PROVE  \E f : NumberUpTo(text, Len(text), f) /\ Number(text) = f[Len(text)]
<1> DEFINE Eq(f) == f = [i \in 0..Len(text) |-> IF i = 0 THEN 0 ELSE 10 * f[i - 1] + text[i]]
           h == CHOOSE f : Eq(f)
<1>1. PICK f : NumberUpTo(text, Len(text), f)
  BY SomeUpTo
<1>2. Eq(f)
  BY <1>1 DEF NumberUpTo
<1>3. Eq(h)
  BY <1>2
<1>4. Number(text) = h[Len(text)]
  BY DEF Number
<1> HIDE DEF h
<1>5. NumberUpTo(text, Len(text), h)
  <2>1. Len(text) \in Nat
    OBVIOUS
  <2>2. h[0] = 0 
    BY <1>3
  <2>3. \A i \in 1..Len(text) : h[i] = 10 * h[i - 1] + text[i]
    BY <1>3
  <2>4. h \in [0..Len(text) -> Nat]
    <3> DEFINE S == {k \in Nat : k <= Len(text) => h[k] \in Nat}
    <3>1. 0 \in S
      BY <2>2
    <3>2. ASSUME NEW k \in Nat, k \in S PROVE k + 1 \in S
      <4>1. ASSUME k + 1 <= Len(text) PROVE h[k + 1] \in Nat
        <5>1. k + 1 \in 1..Len(text) /\ (k + 1) - 1 = k
          BY <2>1, <4>1
        <5>2. h[k + 1] = 10 * h[k] + text[k + 1]
          BY <2>3, <5>1
        <5>3. text[k + 1] \in Nat
          BY <5>1 DEF Digit
        <5>4. h[k] \in Nat
          BY <2>1, <3>2, <4>1
        <5>5. QED
          BY <5>2, <5>3, <5>4
      <4>2. QED
        BY <4>1
    <3> HIDE DEF S
    <3>3. Nat \subseteq S
      BY <3>1, <3>2, Induct
    <3>4. \A k \in 0..Len(text) : h[k] \in Nat
      BY <2>1, <3>3 DEF S
    <3>5. QED
      BY <1>3, <3>4
  <2>5. QED
    BY <2>2, <2>3, <2>4 DEF NumberUpTo
<1>6. QED
  BY <1>4, <1>5

(* What a further digit does to a number.                                  *)
LEMMA NumberStep ==
    ASSUME NEW text \in Seq(Digit)
    PROVE  /\ Number(text) \in Nat
           /\ text = <<>> => Number(text) = 0
           /\ \A d \in Digit : Number(Append(text, d)) = 10 * Number(text) + d
<1>1. PICK f : NumberUpTo(text, Len(text), f) /\ Number(text) = f[Len(text)]
  BY NumberIs
<1>2. Number(text) \in Nat /\ (text = <<>> => Number(text) = 0)
  BY <1>1 DEF NumberUpTo
<1>3. ASSUME NEW d \in Digit
      PROVE  Number(Append(text, d)) = 10 * Number(text) + d
  <2> DEFINE n == Len(text)
             longer == Append(text, d)
  <2>1. longer \in Seq(Digit) /\ Len(longer) = n + 1 /\ n \in Nat /\ longer[n + 1] = d
        /\ \A i \in 1..n : longer[i] = text[i]
    OBVIOUS
  <2>2. PICK g : NumberUpTo(longer, n + 1, g) /\ Number(longer) = g[n + 1]
    BY <2>1, NumberIs
  <2> DEFINE S == {k \in Nat : k <= n => g[k] = f[k]}
  <2> HIDE DEF longer
  <2>3. 0 \in S
    BY <1>1, <2>2 DEF NumberUpTo
  <2>4. ASSUME NEW k \in Nat, k \in S PROVE k + 1 \in S
    <3>1. ASSUME k + 1 <= n PROVE g[k + 1] = f[k + 1]
      <4>1. k + 1 \in 1..n /\ k + 1 \in 1..(n + 1) /\ (k + 1) - 1 = k
        BY <2>1, <3>1
      <4>2. g[k + 1] = 10 * g[k] + longer[k + 1] /\ f[k + 1] = 10 * f[k] + text[k + 1]
        BY <1>1, <2>2, <4>1 DEF NumberUpTo
      <4>3. QED
        BY <2>1, <2>4, <3>1, <4>1, <4>2
    <3>2. QED
      BY <3>1
  <2> HIDE DEF S
  <2>5. Nat \subseteq S
    BY <2>3, <2>4, Induct
  <2>6. g[n] = f[n]
    BY <2>1, <2>5 DEF S
  <2>7. g[n + 1] = 10 * g[n] + d
    BY <2>1, <2>2 DEF NumberUpTo
  <2>8. QED
    BY <1>1, <2>2, <2>6, <2>7 DEF longer
<1>4. QED
  BY <1>2, <1>3

(* Sequences are equal if they are as long and have the same elements.     *)
LEMMA SameSequence ==
    ASSUME NEW S, NEW s \in Seq(S), NEW t \in Seq(S), Len(s) = Len(t),
           \A i \in 1..Len(s) : s[i] = t[i]
    PROVE  s = t
OBVIOUS

(* The digits of a concatenation.                                          *)
LEMMA Concatenation ==
    ASSUME NEW s \in Seq(Digit), NEW t \in Seq(Digit)
    PROVE  /\ s \o t \in Seq(Digit) /\ Len(s \o t) = Len(s) + Len(t)
           /\ \A i \in 1..Len(s) : (s \o t)[i] = s[i]
           /\ \A i \in 1..Len(t) : (s \o t)[Len(s) + i] = t[i]
OBVIOUS

(* Appending a digit after or before concatenating is the same.            *)
LEMMA ConcatAppend ==
    ASSUME NEW S, NEW s \in Seq(S), NEW t \in Seq(S), NEW d \in S
    PROVE  /\ s \o t \in Seq(S)
           /\ s \o Append(t, d) = Append(s \o t, d)
<1> DEFINE u == s \o Append(t, d)
           v == Append(s \o t, d)
<1>1. s \o t \in Seq(S) /\ Append(t, d) \in Seq(S)
  OBVIOUS
<1>2. u \in Seq(S) /\ v \in Seq(S) /\ Len(u) = Len(v)
  BY <1>1
<1>3. ASSUME NEW i \in 1..Len(u)
      PROVE  u[i] = v[i]
  <2>1. CASE i <= Len(s)
    BY <2>1
  <2>2. CASE i > Len(s) /\ i <= Len(s) + Len(t)
    BY <2>2
  <2>3. CASE i = Len(s) + Len(t) + 1
    BY <2>3
  <2>4. QED
    BY <2>1, <2>2, <2>3
<1> HIDE DEF u, v
<1>4. u = v
  BY <1>2, <1>3, SameSequence
<1>5. QED
  BY <1>1, <1>4 DEF u, v

(* Ten to the power of n.                                                  *)
LEMMA PowerStep ==
    /\ Power(0) = 1
    /\ \A n \in Nat : Power(n) \in Nat \ {0} /\ Power(n + 1) = 10 * Power(n)
<1>1. \A n \in Nat : Zeros(n) \in Seq(Digit) /\ Zeros(n + 1) = Append(Zeros(n), 0)
  BY DEF Zeros, Digit
<1>2. Power(0) = 1
  <2>1. PICK t : t = <<1>> \o Zeros(0)
    OBVIOUS
  <2>2. t = Append(<<>>, 1) /\ <<>> \in Seq(Digit) /\ 1 \in Digit
    BY <2>1 DEF Zeros, Digit
  <2>3. Number(t) = 10 * Number(<<>>) + 1 /\ Number(<<>>) = 0
    BY <2>2, NumberStep
  <2>4. QED
    BY <2>1, <2>3 DEF Power
<1>3. ASSUME NEW n \in Nat
      PROVE  Power(n) \in Nat /\ Power(n + 1) = 10 * Power(n)
  <2>1. PICK one \in Seq(Digit) : one = <<1>>
    <3>1. <<1>> \in Seq(Digit)
      BY DEF Digit
    <3>2. QED
      BY <3>1
  <2>2. PICK t, u : t = one \o Zeros(n) /\ u = one \o Zeros(n + 1)
    OBVIOUS
  <2>3. 0 \in Digit
    BY DEF Digit
  <2>4. one \o Append(Zeros(n), 0) = Append(one \o Zeros(n), 0) /\ one \o Zeros(n) \in Seq(Digit)
    <3>1. Zeros(n) \in Seq(Digit)
      BY <1>1
    <3>2. QED
      BY <2>3, <3>1, ConcatAppend
  <2>5. t \in Seq(Digit) /\ u = Append(t, 0)
    BY <1>1, <2>2, <2>4
  <2>6. Number(t) \in Nat /\ Number(u) = 10 * Number(t) + 0
    BY <2>3, <2>5, NumberStep
  <2>7. Power(n) = Number(t) /\ Power(n + 1) = Number(u)
    BY <2>1, <2>2 DEF Power
  <2>8. QED
    BY <2>6, <2>7
<1> DEFINE S == {n \in Nat : Power(n) # 0}
<1>4. 0 \in S
  BY <1>2
<1>5. \A n \in Nat : n \in S => n + 1 \in S
  BY <1>3
<1> HIDE DEF S
<1>6. Nat \subseteq S
  BY <1>4, <1>5, Induct
<1>7. QED
  BY <1>2, <1>3, <1>6 DEF S

(* Every text but the empty one has a last digit.                          *)
LEMMA LastDigit ==
    ASSUME NEW n \in Nat, NEW u \in Seq(Digit), Len(u) = n + 1
    PROVE  \E v \in Seq(Digit), d \in Digit : u = Append(v, d) /\ Len(v) = n
<1>1. SubSeq(u, 1, n) \in Seq(Digit) /\ Len(SubSeq(u, 1, n)) = n /\ u[n + 1] \in Digit
  OBVIOUS
<1>2. u = Append(SubSeq(u, 1, n), u[n + 1])
  OBVIOUS
<1>3. QED
  BY <1>1, <1>2

(* The number of two texts in a row.                                       *)
LEMMA NumberConcat ==
    ASSUME NEW s \in Seq(Digit), NEW t \in Seq(Digit)
    PROVE  s \o t \in Seq(Digit) /\ Number(s \o t) = Number(s) * Power(Len(t)) + Number(t)
<1> DEFINE S == {n \in Nat : \A u \in Seq(Digit) :
                   Len(u) = n => Number(s \o u) = Number(s) * Power(n) + Number(u)}
<1>1. Number(s) \in Nat
  BY NumberStep
<1>2. 0 \in S
  <2> SUFFICES ASSUME NEW u \in Seq(Digit), Len(u) = 0
               PROVE  Number(s \o u) = Number(s) * Power(0) + Number(u)
    OBVIOUS
  <2>1. u = <<>> /\ s \o u = s
    OBVIOUS
  <2>2. Number(s \o u) = Number(s) /\ Number(u) = 0 /\ Power(0) = 1
    BY <2>1, NumberStep, PowerStep
  <2>3. QED
    BY <1>1, <2>2
<1>3. ASSUME NEW n \in Nat, n \in S
      PROVE  n + 1 \in S
  <2> SUFFICES ASSUME NEW u \in Seq(Digit), Len(u) = n + 1
               PROVE  Number(s \o u) = Number(s) * Power(n + 1) + Number(u)
    OBVIOUS
  <2>1. PICK v \in Seq(Digit), d \in Digit : u = Append(v, d) /\ Len(v) = n
    BY LastDigit
  <2>2. s \o u = Append(s \o v, d) /\ s \o v \in Seq(Digit)
    BY <2>1, ConcatAppend
  <2>3. Number(s \o u) = 10 * Number(s \o v) + d /\ Number(u) = 10 * Number(v) + d /\ Number(v) \in Nat
    BY <2>1, <2>2, NumberStep
  <2>4. Number(s \o v) = Number(s) * Power(n) + Number(v)
    BY <1>3, <2>1
  <2>5. Power(n + 1) = 10 * Power(n) /\ Power(n) \in Nat
    BY PowerStep
  <2>6. d \in Nat
    BY DEF Digit
  <2>7. 10 * (Number(s) * Power(n) + Number(v)) + d = Number(s) * (10 * Power(n)) + (10 * Number(v) + d)
    <3>1. \A a, b, c, e \in Nat : 10 * (a * b + c) + e = a * (10 * b) + (10 * c + e)
      OBVIOUS
    <3>2. QED
      BY <1>1, <2>3, <2>5, <2>6, <3>1
  <2>8. QED
    BY <2>3, <2>4, <2>5, <2>7, Zenon
<1> HIDE DEF S
<1>4. Nat \subseteq S
  BY <1>2, <1>3, Induct
<1>5. Len(t) \in Nat /\ s \o t \in Seq(Digit)
  OBVIOUS
<1>6. QED
  BY <1>4, <1>5 DEF S

(* A text's number has as many digits as the text, unless it begins with   *)
(* zeros; it is zero only if all its digits are.                           *)
Bounded(text) ==
    /\ Number(text) \in 0..(Power(Len(text)) - 1)
    /\ Number(text) = 0 <=> \A i \in 1..Len(text) : text[i] = 0
    /\ Len(text) > 0 /\ text[1] # 0 => Power(Len(text) - 1) <= Number(text)

(* The bounds go on holding as a digit is appended.                        *)
LEMMA BoundedStep ==
    ASSUME NEW v \in Seq(Digit), Bounded(v), NEW d \in Digit
    PROVE  Bounded(Append(v, d))
<1> DEFINE n == Len(v)
<1>1. PICK u \in Seq(Digit) : u = Append(v, d)
  <2>1. Append(v, d) \in Seq(Digit)
    OBVIOUS
  <2>2. QED
    BY <2>1
<1>2. /\ n \in Nat /\ Len(u) = n + 1 /\ u[n + 1] = d
      /\ \A i \in 1..n : u[i] = v[i]
  BY <1>1
<1>3. Number(u) = 10 * Number(v) + d /\ Number(v) \in Nat
  BY <1>1, NumberStep
<1>4. Power(n) \in Nat \ {0} /\ Power(n + 1) = 10 * Power(n)
  BY <1>2, PowerStep
<1>5. d \in 0..9
  BY DEF Digit
<1>6. Number(u) \in 0..(Power(n + 1) - 1)
  <2>1. Number(v) <= Power(n) - 1
    BY DEF Bounded
  <2>2. QED
    BY <1>3, <1>4, <1>5, <2>1
<1>7. Number(u) = 0 <=> \A i \in 1..(n + 1) : u[i] = 0
  <2>1. Number(v) = 0 <=> \A i \in 1..n : v[i] = 0
    BY DEF Bounded
  <2>2. Number(u) = 0 <=> Number(v) = 0 /\ d = 0
    BY <1>3, <1>5
  <2>3. (\A i \in 1..(n + 1) : u[i] = 0) <=> d = 0 /\ \A i \in 1..n : u[i] = 0
    BY <1>2
  <2>4. QED
    BY <1>2, <2>1, <2>2, <2>3
<1>8. ASSUME u[1] # 0
      PROVE  Power(n) <= Number(u)
  <2>1. CASE n = 0
    <3>1. 1 \in 1..(n + 1)
      BY <1>2
    <3>2. Number(u) # 0
      BY <1>7, <1>8, <3>1
    <3>3. Number(u) >= 1
      BY <1>3, <1>5, <3>2
    <3>4. Power(n) = 1
      BY <2>1, PowerStep
    <3>5. QED
      BY <3>3, <3>4
  <2>2. CASE n > 0
    <3>1. v[1] # 0
      BY <1>2, <1>8, <2>2
    <3>2. Power(n - 1) <= Number(v)
      BY <2>2, <3>1 DEF Bounded
    <3>3. n - 1 \in Nat /\ (n - 1) + 1 = n
      BY <1>2, <2>2
    <3>4. Power(n) = 10 * Power(n - 1) /\ Power(n - 1) \in Nat
      BY <3>3, PowerStep
    <3>5. QED
      BY <1>3, <1>5, <3>2, <3>4
  <2>3. QED
    BY <1>2, <2>1, <2>2
<1>9. Bounded(u)
  BY <1>2, <1>6, <1>7, <1>8 DEF Bounded
<1>10. QED
  BY <1>1, <1>9

(* They hold of every text, by induction on its length.                    *)
LEMMA NumberBounds ==
    ASSUME NEW text \in Seq(Digit)
    PROVE  Bounded(text)
<1> DEFINE S == {n \in Nat : \A u \in Seq(Digit) : Len(u) = n => Bounded(u)}
<1>1. 0 \in S
  <2> SUFFICES ASSUME NEW u \in Seq(Digit), Len(u) = 0 PROVE Bounded(u)
    OBVIOUS
  <2>1. Number(u) = 0 /\ Power(Len(u)) = 1
    <3>1. u = <<>>
      OBVIOUS
    <3>2. Number(u) = 0
      BY <3>1, NumberStep
    <3>3. QED
      BY <3>2, PowerStep
  <2>2. QED
    BY <2>1 DEF Bounded
<1>2. ASSUME NEW n \in Nat, n \in S
      PROVE  n + 1 \in S
  <2> SUFFICES ASSUME NEW u \in Seq(Digit), Len(u) = n + 1 PROVE Bounded(u)
    OBVIOUS
  <2>1. PICK v \in Seq(Digit), d \in Digit : u = Append(v, d) /\ Len(v) = n
    BY LastDigit
  <2>2. QED
    BY <1>2, <2>1, BoundedStep
<1> HIDE DEF S
<1>3. Nat \subseteq S
  BY <1>1, <1>2, Induct
<1>4. Len(text) \in Nat
  OBVIOUS
<1>5. QED
  BY <1>3, <1>4 DEF S

(* Powers of ten are positive.                                             *)
LEMMA PowerTyped ==
    ASSUME NEW n \in Int, n >= 0
    PROVE  Power(n) \in Nat \ {0}
BY PowerStep

(* A higher power is no less.                                              *)
LEMMA PowersGrow ==
    ASSUME NEW i \in Nat, NEW j \in Nat, i <= j
    PROVE  Power(i) <= Power(j)
<1> DEFINE S == {d \in Nat : Power(i) <= Power(i + d)}
<1>1. 0 \in S
  BY PowerStep
<1>2. ASSUME NEW d \in Nat, d \in S
      PROVE  d + 1 \in S
  <2>1. Power((i + d) + 1) = 10 * Power(i + d) /\ Power(i + d) \in Nat
    BY PowerStep
  <2>2. Power(i) \in Nat
    BY PowerStep
  <2>3. Power(i) <= Power((i + d) + 1)
    BY <1>2, <2>1, <2>2
  <2>4. QED
    BY <2>3
<1> HIDE DEF S
<1>3. Nat \subseteq S
  BY <1>1, <1>2, Induct
<1>4. j - i \in S /\ i + (j - i) = j
  BY <1>3
<1>5. QED
  BY <1>4 DEF S

(* The quotient of a division with its remainder.                          *)
LEMMA Quotient ==
    ASSUME NEW a \in Nat, NEW b \in Nat \ {0}, NEW q \in Nat, NEW x \in 0..(b - 1), a = q * b + x
    PROVE  a \div b = q
OBVIOUS

(* A text of zeros is the number zero.                                     *)
LEMMA ZerosAre ==
    ASSUME NEW n \in Nat
    PROVE  Zeros(n) \in Seq(Digit) /\ Len(Zeros(n)) = n /\ Number(Zeros(n)) = 0
<1>1. /\ Zeros(n) \in Seq(Digit) /\ Len(Zeros(n)) = n
      /\ \A i \in 1..n : Zeros(n)[i] = 0
  BY DEF Zeros, Digit
<1>2. Number(Zeros(n)) = 0 <=> \A i \in 1..Len(Zeros(n)) : Zeros(n)[i] = 0
  BY <1>1, NumberBounds DEF Bounded
<1>3. QED
  BY <1>1, <1>2

-----------------------------------------------------------------------------
(* Decimals.                                                               *)

Precise == digits \in Nat /\ scale \in Nat /\ ValidPrecision(digits, scale)

(* The text of a value at the field's scale is its number, and there is    *)
(* one exactly if the field can hold it.                                   *)
ScaleFits(v) ==
    /\ \A text \in AtScale(v, digits, scale) :
         /\ AtScale(v, digits, scale) = {text}
         /\ text \in Seq(Digit) /\ Len(text) \in 1..digits
         /\ Scaled(v) = {Number(text)}
    /\ AtScale(v, digits, scale) # {} <=> Holds(v)

(* Zero fits every field (copybook.py:196-200).                            *)
LEMMA ZeroFits ==
    ASSUME Precise, NEW v, IsDecimal(v), IsZero(v)
    PROVE  ScaleFits(v)
<1> DEFINE c == v.coefficient
           shift == v.exponent + scale
<1>1. c \in Seq(Digit) /\ Len(c) \in Nat \ {0} /\ shift \in Int /\ digits \in Nat \ {0}
  BY DEF IsDecimal, Precise, ValidPrecision
<1>2. c = <<0>>
  <2>1. c[1] = 0
    BY <1>1 DEF IsZero
  <2>2. QED
    BY <2>1 DEF IsDecimal
<1>3. Number(c) = 0
  <2>1. Number(c) = 0 <=> \A i \in 1..Len(c) : c[i] = 0
    BY <1>1, NumberBounds DEF Bounded
  <2>2. QED
    BY <1>1, <2>1 DEF IsZero
<1>4. AtScale(v, digits, scale) = {<<0>>}
  BY DEF AtScale
<1>5. Scaled(v) = {0}
  <2>1. CASE shift >= 0
    <3>1. PICK b \in Nat : b = Power(shift)
      BY <1>1, <2>1, PowerTyped
    <3>2. QED
      BY <1>3, <2>1, <3>1 DEF Scaled
  <2>2. CASE ~(shift >= 0)
    <3>1. PICK b \in Nat \ {0} : b = Power(-shift)
      BY <1>1, <2>2, PowerTyped
    <3>2. 0 \div b = 0 /\ 0 * b = 0
      BY Quotient
    <3>3. Scaled(v) = {n \in {0 \div b} : n * b = 0}
      BY <1>3, <2>2, <3>1 DEF Scaled
    <3>4. QED
      BY <3>2, <3>3
  <2>3. QED
    BY <2>1, <2>2
<1>6. Holds(v)
  <2>1. Power(digits) \in Nat \ {0}
    BY <1>1, PowerStep
  <2>2. QED
    BY <1>5, <2>1 DEF Holds
<1>7. QED
  BY <1>1, <1>2, <1>3, <1>4, <1>5, <1>6 DEF ScaleFits

(* A text that does not begin with a zero fits if it is not too long.      *)
LEMMA FitsByLength ==
    ASSUME Precise, NEW text \in Seq(Digit), Len(text) > 0, text[1] # 0
    PROVE  Number(text) < Power(digits) <=> Len(text) <= digits
<1>1. PICK n \in Nat : n = Len(text) /\ n > 0
  OBVIOUS
<1>2. digits \in Nat
  BY DEF Precise
<1>3. Number(text) \in Nat /\ Number(text) <= Power(n) - 1 /\ Power(n - 1) <= Number(text)
  <2>1. Power(n) \in Nat
    BY PowerStep
  <2>2. Bounded(text)
    BY NumberBounds
  <2>3. Number(text) \in 0..(Power(n) - 1) /\ Power(n - 1) <= Number(text)
    BY <1>1, <2>2 DEF Bounded
  <2>4. QED
    BY <2>1, <2>3
<1>4. Power(n) \in Nat /\ Power(digits) \in Nat
  BY <1>2, PowerStep
<1>5. ASSUME n <= digits
      PROVE  Number(text) < Power(digits)
  <2>1. Power(n) <= Power(digits)
    BY <1>2, <1>5, PowersGrow
  <2>2. QED
    BY <1>3, <1>4, <2>1
<1>6. ASSUME ~(n <= digits)
      PROVE  ~(Number(text) < Power(digits))
  <2>1. n - 1 \in Nat /\ digits <= n - 1
    BY <1>1, <1>2, <1>6
  <2>2. Power(digits) <= Power(n - 1) /\ Power(n - 1) \in Nat
    BY <1>2, <2>1, PowersGrow, PowerStep
  <2>3. QED
    BY <1>3, <1>4, <2>2
<1>7. QED
  BY <1>1, <1>5, <1>6

(* A value whose last digit is at the scale or above it.                   *)
LEMMA WholeFits ==
    ASSUME Precise, NEW v, IsDecimal(v), ~IsZero(v), v.exponent + scale >= 0
    PROVE  ScaleFits(v)
<1>1. PICK c \in Seq(Digit), shift \in Nat :
        c = v.coefficient /\ shift = v.exponent + scale
  BY DEF IsDecimal, Precise
<1>2. Len(c) \in Nat \ {0} /\ c[1] # 0
  <2>1. c # <<>> /\ (c[1] # 0 \/ c = <<0>>)
    BY <1>1 DEF IsDecimal
  <2>2. c # <<0>>
    BY <1>1 DEF IsZero
  <2>3. QED
    BY <2>1, <2>2
<1>3. PICK text : text = c \o Zeros(shift)
  OBVIOUS
<1>4. /\ text \in Seq(Digit) /\ Len(text) = Len(c) + shift /\ text[1] = c[1]
      /\ Zeros(shift) \in Seq(Digit) /\ Len(Zeros(shift)) = shift /\ Number(Zeros(shift)) = 0
  <2>1. Zeros(shift) \in Seq(Digit) /\ Len(Zeros(shift)) = shift /\ Number(Zeros(shift)) = 0
    BY ZerosAre
  <2>2. PICK zeros \in Seq(Digit) : zeros = Zeros(shift)
    BY <2>1
  <2>3. /\ c \o zeros \in Seq(Digit) /\ Len(c \o zeros) = Len(c) + Len(zeros)
        /\ (c \o zeros)[1] = c[1]
    BY <1>2
  <2>4. QED
    BY <1>3, <2>1, <2>2, <2>3
<1>5. Number(text) = Number(c) * Power(shift)
  <2>1. Number(text) = Number(c) * Power(shift) + 0
    BY <1>3, <1>4, NumberConcat
  <2>2. Number(c) \in Nat /\ Power(shift) \in Nat
    BY NumberStep, PowerStep
  <2>3. QED
    BY <2>1, <2>2
<1>6. Scaled(v) = {Number(text)}
  BY <1>1, <1>5 DEF Scaled
<1>7. Holds(v) <=> Len(text) \in 1..digits
  <2>1. digits \in Nat
    BY DEF Precise
  <2>2. Number(text) < Power(digits) <=> Len(text) <= digits
    <3>1. text \in Seq(Digit) /\ Len(text) > 0 /\ text[1] # 0
      BY <1>2, <1>4
    <3>2. QED
      BY <3>1, FitsByLength
  <2>3. QED
    BY <1>2, <1>4, <1>6, <2>1, <2>2 DEF Holds
<1>8. AtScale(v, digits, scale) = IF Len(text) \in 1..digits THEN {text} ELSE {}
  <2>1. {c[i] : i \in {j \in DOMAIN c : j > Len(c) + shift}} = {}
    BY <1>2
  <2>2. ~(shift < 0) /\ v.coefficient = c /\ v.exponent + scale = shift
    BY <1>1
  <2>3. AtScale(v, digits, scale) = IF Len(c) + shift \notin 1..digits THEN {} ELSE {c \o Zeros(shift)}
    BY <2>1, <2>2 DEF AtScale
  <2>4. QED
    BY <1>3, <1>4, <2>3
<1>9. QED
  BY <1>4, <1>6, <1>7, <1>8 DEF ScaleFits

(* A value with digits below the scale, which fits only if they are zeros. *)
LEMMA FractionFits ==
    ASSUME Precise, NEW v, IsDecimal(v), ~IsZero(v), ~(v.exponent + scale >= 0)
    PROVE  ScaleFits(v)
<1>1. PICK c \in Seq(Digit), m \in Nat \ {0} :
        c = v.coefficient /\ m = -(v.exponent + scale)
  BY DEF IsDecimal, Precise
<1>2. /\ v.coefficient = c /\ v.exponent + scale = -m /\ -(v.exponent + scale) = m
      /\ digits \in Nat
  BY <1>1 DEF IsDecimal, Precise
<1>3. Len(c) \in Nat \ {0} /\ c[1] # 0
  <2>1. c # <<>> /\ (c[1] # 0 \/ c = <<0>>)
    BY <1>1 DEF IsDecimal
  <2>2. c # <<0>>
    BY <1>1 DEF IsZero
  <2>3. QED
    BY <2>1, <2>2
<1>4. PICK b \in Nat \ {0} : b = Power(m)
  BY PowerTyped
<1>5. Scaled(v) = {n \in {Number(c) \div b} : n * b = Number(c)}
  BY <1>2, <1>4 DEF Scaled
<1>6. AtScale(v, digits, scale) =
        IF \/ Len(c) - m \notin 1..digits
           \/ {c[i] : i \in {j \in DOMAIN c : j > Len(c) - m}} \ {0} # {}
        THEN {} ELSE {SubSeq(c, 1, Len(c) - m)}
  <2>1. Len(c) + (-m) = Len(c) - m /\ -m < 0
    BY <1>3
  <2>2. QED
    BY <1>2, <2>1 DEF AtScale
<1>7. CASE Len(c) <= m
  <2>1. Number(c) \in Nat /\ Number(c) # 0
    <3>1. Number(c) = 0 <=> \A i \in 1..Len(c) : c[i] = 0
      BY NumberBounds DEF Bounded
    <3>2. 1 \in 1..Len(c)
      BY <1>3
    <3>3. QED
      BY <1>3, <3>1, <3>2, NumberStep
  <2>2. Number(c) \in 0..(b - 1)
    <3>1. Number(c) \in 0..(Power(Len(c)) - 1)
      BY NumberBounds DEF Bounded
    <3>2. Power(Len(c)) <= b /\ Power(Len(c)) \in Nat
      BY <1>3, <1>4, <1>7, PowersGrow, PowerStep
    <3>3. QED
      BY <3>1, <3>2
  <2>3. Number(c) \div b = 0
    <3>1. Number(c) = 0 * b + Number(c)
      BY <2>1
    <3>2. QED
      BY <2>1, <2>2, <3>1, Quotient
  <2>4. Scaled(v) = {}
    BY <1>5, <2>1, <2>3
  <2>5. AtScale(v, digits, scale) = {}
    BY <1>2, <1>3, <1>6, <1>7
  <2>6. QED
    BY <2>4, <2>5 DEF ScaleFits, Holds
<1>8. CASE Len(c) > m
  <2>1. PICK kept \in Nat \ {0} : kept = Len(c) - m
    BY <1>3, <1>8
  <2>2. PICK s \in Seq(Digit), t \in Seq(Digit) : s = SubSeq(c, 1, kept) /\ t = SubSeq(c, kept + 1, Len(c))
    <3>1. SubSeq(c, 1, kept) \in Seq(Digit) /\ SubSeq(c, kept + 1, Len(c)) \in Seq(Digit)
      BY <1>3, <2>1
    <3>2. QED
      BY <3>1
  <2>3. /\ s \in Seq(Digit) /\ Len(s) = kept /\ \A i \in 1..kept : s[i] = c[i]
    BY <1>3, <2>1, <2>2
  <2>4. /\ t \in Seq(Digit) /\ Len(t) = m /\ \A i \in 1..m : t[i] = c[kept + i]
    BY <1>3, <2>1, <2>2
  <2>5. c = s \o t
    <3>1. /\ s \o t \in Seq(Digit) /\ Len(s \o t) = Len(c)
          /\ \A i \in 1..kept : (s \o t)[i] = c[i]
          /\ \A i \in 1..m : (s \o t)[kept + i] = c[kept + i]
      <4>1. /\ s \o t \in Seq(Digit) /\ Len(s \o t) = Len(s) + Len(t)
            /\ \A i \in 1..Len(s) : (s \o t)[i] = s[i]
            /\ \A i \in 1..Len(t) : (s \o t)[Len(s) + i] = t[i]
        BY <2>3, <2>4, Concatenation
      <4>2. Len(c) = kept + m
        BY <1>3, <2>1
      <4>3. \A i \in 1..kept : (s \o t)[i] = c[i]
        BY <2>3, <4>1
      <4>4. \A i \in 1..m : (s \o t)[kept + i] = c[kept + i]
        BY <2>3, <2>4, <4>1
      <4>5. QED
        BY <2>3, <2>4, <4>1, <4>2, <4>3, <4>4
    <3>2. \A i \in 1..Len(c) : i \in 1..kept \/ (i - kept \in 1..m /\ kept + (i - kept) = i)
      BY <2>1
    <3>3. QED
      BY <3>1, <3>2, SameSequence
  <2>6. Number(c) = Number(s) * b + Number(t) /\ Number(s) \in Nat
    BY <1>4, <2>3, <2>4, <2>5, NumberConcat, NumberStep
  <2>7. Number(t) \in 0..(b - 1) /\ (Number(t) = 0 <=> \A i \in 1..m : t[i] = 0)
    BY <1>4, <2>4, NumberBounds DEF Bounded
  <2>8. Number(c) \div b = Number(s)
    <3>1. Number(c) \in Nat
      BY NumberStep
    <3>2. QED
      BY <2>6, <2>7, <3>1, Quotient
  <2>9. Number(s) * b = Number(c) <=> Number(t) = 0
    <3>1. Number(s) * b \in Nat /\ Number(t) \in Nat
      BY <2>6, <2>7
    <3>2. QED
      BY <2>6, <3>1
  <2>10. Scaled(v) = IF Number(t) = 0 THEN {Number(s)} ELSE {}
    BY <1>5, <2>8, <2>9
  <2>11. {c[i] : i \in {j \in DOMAIN c : j > kept}} \ {0} = {} <=> \A i \in 1..m : t[i] = 0
    <3>1. \A i \in 1..m : kept + i \in DOMAIN c /\ kept + i > kept
      BY <1>3, <2>1
    <3>2. \A j \in DOMAIN c : j > kept => j - kept \in 1..m /\ kept + (j - kept) = j
      BY <1>3, <2>1
    <3>3. (\A i \in 1..m : t[i] = 0) <=> \A j \in DOMAIN c : j > kept => c[j] = 0
      BY <2>4, <3>1, <3>2
    <3>4. QED
      BY <3>3
  <2>12. AtScale(v, digits, scale) = IF kept \in 1..digits /\ Number(t) = 0 THEN {s} ELSE {}
    BY <1>6, <2>1, <2>2, <2>7, <2>11
  <2>13. Number(s) < Power(digits) <=> kept \in 1..digits
    <3>1. s[1] # 0
      BY <1>3, <2>3
    <3>2. Number(s) < Power(digits) <=> kept <= digits
      BY <2>3, <3>1, FitsByLength
    <3>3. QED
      BY <1>2, <3>2
  <2>14. Holds(v) <=> kept \in 1..digits /\ Number(t) = 0
    BY <2>10, <2>13 DEF Holds
  <2>15. QED
    BY <2>3, <2>10, <2>12, <2>14 DEF ScaleFits
<1>9. QED
  BY <1>2, <1>3, <1>7, <1>8

(* All three together: digit_text finds exactly the decimals that fit.     *)
LEMMA DecimalFits ==
    ASSUME Precise, NEW v, IsDecimal(v)
    PROVE  ScaleFits(v)
BY ZeroFits, WholeFits, FractionFits

-----------------------------------------------------------------------------
(* Packing and unpacking.                                                  *)

(* Dropping leading zeros and putting them back.                           *)
LEMMA StrippedIs ==
    ASSUME NEW text \in Seq(Digit), Len(text) > 0
    PROVE  /\ Stripped(text) \in Seq(Digit) /\ Len(Stripped(text)) \in 1..Len(text)
           /\ Stripped(text)[1] # 0 \/ Stripped(text) = <<0>>
           /\ Number(Stripped(text)) = Number(text)
           /\ ZFill(Stripped(text), Len(text)) = text
<1> DEFINE nonzero == {i \in DOMAIN text : text[i] # 0}
<1>1. PICK n \in Nat \ {0} : n = Len(text)
  OBVIOUS
<1>2. PICK k \in 1..n, c \in Seq(Digit) :
        /\ Stripped(text) = c /\ Len(c) = n - k + 1
        /\ \A i \in 1..(n - k + 1) : c[i] = text[k - 1 + i]
        /\ \A i \in 1..(k - 1) : text[i] = 0
        /\ c[1] # 0 \/ c = <<0>>
  <2>1. CASE nonzero = {}
    <3>1. Stripped(text) = <<0>>
      BY <2>1 DEF Stripped
    <3>2. \A i \in 1..n : text[i] = 0
      BY <1>1, <2>1
    <3>3. <<0>> \in Seq(Digit)
      BY DEF Digit
    <3>4. PICK c \in Seq(Digit) : c = <<0>>
      BY <3>3
    <3>5. Len(c) = n - n + 1 /\ c[1] = 0 /\ text[n] = 0 /\ n \in 1..n
      BY <1>1, <3>2, <3>4
    <3>6. \A i \in 1..(n - n + 1) : c[i] = text[n - 1 + i]
      BY <3>5
    <3>7. \A i \in 1..(n - 1) : text[i] = 0
      BY <3>2
    <3>8. Stripped(text) = c
      BY <3>1, <3>4
    <3>9. n \in 1..n
      BY <1>1
    <3>10. QED
      BY <3>4, <3>5, <3>6, <3>7, <3>8, <3>9
  <2>2. CASE nonzero # {}
    <3>1. nonzero \in SUBSET Nat /\ nonzero \subseteq 1..n
      BY <1>1
    <3>2. \E i \in nonzero : \A j \in nonzero : i <= j
      BY <2>2, <3>1, Least
    <3>3. PICK k \in nonzero : /\ k = CHOOSE i \in nonzero : \A j \in nonzero : i <= j
                               /\ \A j \in nonzero : k <= j
      BY <3>2
    <3>4. Stripped(text) = SubSeq(text, k, n)
      BY <1>1, <2>2, <3>3 DEF Stripped
    <3>5. k \in 1..n /\ text[k] # 0
      BY <3>1
    <3>6. SubSeq(text, k, n) \in Seq(Digit)
      BY <1>1, <3>5
    <3>7. PICK c \in Seq(Digit) : c = SubSeq(text, k, n)
      BY <3>6
    <3>8. Len(c) = n - k + 1 /\ \A i \in 1..(n - k + 1) : c[i] = text[k - 1 + i]
      BY <1>1, <3>5, <3>7
    <3>9. \A i \in 1..(k - 1) : text[i] = 0
      BY <1>1, <3>3, <3>5
    <3>10. c[1] # 0
      BY <3>5, <3>8
    <3>11. QED
      BY <3>4, <3>5, <3>7, <3>8, <3>9, <3>10
  <2>3. QED
    BY <2>1, <2>2
<1>3. PICK z \in Seq(Digit) : /\ z = Zeros(k - 1) /\ Len(z) = k - 1 /\ Number(z) = 0
                              /\ \A i \in 1..(k - 1) : z[i] = 0
  <2>1. k - 1 \in Nat
    OBVIOUS
  <2>2. \A i \in 1..(k - 1) : Zeros(k - 1)[i] = 0
    BY DEF Zeros
  <2>3. QED
    BY <2>1, <2>2, ZerosAre
<1>4. z \o c = text
  <2>1. /\ z \o c \in Seq(Digit) /\ Len(z \o c) = Len(z) + Len(c)
        /\ \A i \in 1..Len(z) : (z \o c)[i] = z[i]
        /\ \A i \in 1..Len(c) : (z \o c)[Len(z) + i] = c[i]
    BY Concatenation
  <2>2. Len(z \o c) = Len(text)
    BY <1>1, <1>2, <1>3, <2>1
  <2>3. \A i \in 1..(k - 1) : (z \o c)[i] = text[i]
    BY <1>2, <1>3, <2>1
  <2>4. \A i \in 1..(n - k + 1) : (z \o c)[k - 1 + i] = text[k - 1 + i]
    <3>1. Len(z) = k - 1 /\ Len(c) = n - k + 1
      BY <1>2, <1>3
    <3>2. \A i \in 1..(n - k + 1) : (z \o c)[k - 1 + i] = c[i]
      BY <2>1, <3>1
    <3>3. QED
      BY <1>2, <3>2
  <2>5. \A i \in 1..n : i \in 1..(k - 1) \/ (i - k + 1 \in 1..(n - k + 1) /\ k - 1 + (i - k + 1) = i)
    OBVIOUS
  <2>6. \A i \in 1..n : (z \o c)[i] = text[i]
    BY <2>3, <2>4, <2>5
  <2>7. QED
    BY <1>1, <2>1, <2>2, <2>6, SameSequence
<1>5. ZFill(c, n) = text
  <2>1. n - Len(c) = k - 1
    BY <1>2
  <2>2. QED
    BY <1>3, <1>4, <2>1 DEF ZFill
<1>6. Number(c) = Number(text)
  <2>1. Number(text) = 0 * Power(Len(c)) + Number(c)
    BY <1>3, <1>4, NumberConcat
  <2>2. Power(Len(c)) \in Nat /\ Number(c) \in Nat
    <3>1. Len(c) \in Nat
      OBVIOUS
    <3>2. QED
      BY <3>1, NumberStep, PowerStep
  <2>3. QED
    BY <2>1, <2>2
<1>7. QED
  BY <1>1, <1>2, <1>5, <1>6

(* zfill keeps the number and gives the length.                            *)
LEMMA ZFillIs ==
    ASSUME NEW n \in Nat, NEW text \in Seq(Digit), Len(text) <= n
    PROVE  ZFill(text, n) \in Seq(Digit) /\ Len(ZFill(text, n)) = n /\ Number(ZFill(text, n)) = Number(text)
<1>1. PICK z \in Seq(Digit) : z = Zeros(n - Len(text)) /\ Len(z) = n - Len(text) /\ Number(z) = 0
  <2>1. n - Len(text) \in Nat
    OBVIOUS
  <2>2. QED
    BY <2>1, ZerosAre
<1>2. z \o text \in Seq(Digit) /\ Len(z \o text) = n
  <2>1. z \o text \in Seq(Digit) /\ Len(z \o text) = Len(z) + Len(text)
    BY Concatenation
  <2>2. QED
    BY <1>1, <2>1
<1>3. Number(z \o text) = 0 * Power(Len(text)) + Number(text)
  BY <1>1, NumberConcat
<1>4. Power(Len(text)) \in Nat /\ Number(text) \in Nat
  BY NumberStep, PowerStep
<1>5. QED
  BY <1>1, <1>2, <1>3, <1>4 DEF ZFill

SignNibble(sign) == IF sign = 1 THEN Negative ELSE Positive

(* Packed bytes: a zero where the number of digits is even, the digits, a  *)
(* sign.                                                                   *)
IsPacked(b, text, sign) ==
    /\ b \in Seq(Nibble) /\ Len(b) = 2 * ByteLength(Len(text))
    /\ b[Len(b)] = sign
    /\ \A i \in 1..Len(text) : b[Len(b) - Len(text) - 1 + i] = text[i]
    /\ Len(text) % 2 = 0 => b[1] = 0

(* In an even number of digits there is one nibble more.                   *)
LEMMA PackedLength ==
    ASSUME NEW n \in Nat \ {0}
    PROVE  /\ ByteLength(n) \in Nat \ {0}
           /\ n % 2 = 0 => 2 * ByteLength(n) = n + 2 /\ (n + 1) % 2 = 1
           /\ n % 2 # 0 => 2 * ByteLength(n) = n + 1 /\ (n + 1) % 2 = 0
BY DEF ByteLength

(* So there are one or two nibbles that are none of the digits.            *)
LEMMA PackedLengths ==
    ASSUME NEW n \in Nat \ {0}, NEW m \in Nat, m = 2 * ByteLength(n)
    PROVE  /\ m = n + 1 \/ (m = n + 2 /\ n % 2 = 0)
           /\ n % 2 = 0 => m = n + 2
<1>1. CASE n % 2 = 0
  <2>1. m = n + 2
    BY <1>1, PackedLength
  <2>2. QED
    BY <1>1, <2>1
<1>2. CASE n % 2 # 0
  <2>1. m = n + 1
    BY <1>2, PackedLength
  <2>2. QED
    BY <1>2, <2>1
<1>3. QED
  BY <1>1, <1>2

(* What pack_comp3 writes is packed.                                       *)
LEMMA NibblesPacked ==
    ASSUME NEW text \in Seq(Digit), Len(text) > 0, NEW sign \in 0..1
    PROVE  IsPacked(Nibbles(sign, text), text, SignNibble(sign))
<1>1. PICK n \in Nat \ {0} : n = Len(text)
  OBVIOUS
<1>2. PICK x \in Nibble : x = SignNibble(sign)
  BY DEF SignNibble, Nibble, Positive, Negative
<1>3. text \in Seq(Nibble)
  BY DEF Digit, Nibble
<1>4. PICK all \in Seq(Nibble) : all = text \o <<x>>
  <2>1. text \o <<x>> \in Seq(Nibble)
    BY <1>3
  <2>2. QED
    BY <2>1
<1>5. Len(all) = n + 1 /\ all[n + 1] = x /\ \A i \in 1..n : all[i] = text[i]
  BY <1>1, <1>3, <1>4
<1>6. Nibbles(sign, text) = IF (n + 1) % 2 = 1 THEN <<0>> \o all ELSE all
  BY <1>2, <1>4, <1>5 DEF Nibbles, SignNibble
<1>7. CASE n % 2 = 0
  <2>1. 2 * ByteLength(n) = n + 2 /\ (n + 1) % 2 = 1
    BY <1>7, PackedLength
  <2>2. PICK b \in Seq(Nibble) : b = <<0>> \o all
    <3>1. <<0>> \o all \in Seq(Nibble)
      BY DEF Nibble
    <3>2. QED
      BY <3>1
  <2>3. Len(b) = n + 2 /\ b[1] = 0 /\ \A i \in 1..(n + 1) : b[i + 1] = all[i]
    BY <1>5, <2>2
  <2>4. b[n + 2] = x /\ \A i \in 1..n : b[(n + 2) - n - 1 + i] = text[i]
    BY <1>5, <2>3
  <2>5. IsPacked(b, text, x)
    BY <1>1, <2>1, <2>3, <2>4 DEF IsPacked
  <2>6. QED
    BY <1>2, <1>6, <2>1, <2>2, <2>5
<1>8. CASE n % 2 # 0
  <2>1. 2 * ByteLength(n) = n + 1 /\ (n + 1) % 2 = 0
    BY <1>8, PackedLength
  <2>2. \A i \in 1..n : all[(n + 1) - n - 1 + i] = text[i]
    BY <1>5
  <2>3. IsPacked(all, text, x)
    BY <1>1, <1>5, <1>8, <2>1, <2>2 DEF IsPacked
  <2>4. QED
    BY <1>2, <1>6, <2>1, <2>3
<1>9. QED
  BY <1>7, <1>8

(* There is one such byte string.                                          *)
LEMMA PackedOnce ==
    ASSUME NEW text \in Seq(Digit), Len(text) > 0, NEW x,
           NEW b, NEW a, IsPacked(b, text, x), IsPacked(a, text, x)
    PROVE  b = a
<1>1. PICK n \in Nat \ {0} : n = Len(text)
  OBVIOUS
<1>2. PICK m \in Nat : m = 2 * ByteLength(n)
  <2>1. ByteLength(n) \in Nat
    BY PackedLength
  <2>2. 2 * ByteLength(n) \in Nat
    BY <2>1
  <2>3. QED
    BY <2>2
<1>3. m = n + 1 \/ (m = n + 2 /\ n % 2 = 0)
  BY <1>2, PackedLengths
<1>4. b \in Seq(Nibble) /\ a \in Seq(Nibble) /\ Len(b) = m /\ Len(a) = m
  BY <1>1, <1>2 DEF IsPacked
<1>5. \A i \in 1..n : b[m - n - 1 + i] = a[m - n - 1 + i]
  <2>1. \A i \in 1..n : b[m - n - 1 + i] = text[i]
    BY <1>1, <1>4 DEF IsPacked
  <2>2. \A i \in 1..n : a[m - n - 1 + i] = text[i]
    BY <1>1, <1>4 DEF IsPacked
  <2>3. QED
    BY <2>1, <2>2
<1>6. b[m] = a[m] /\ (m = n + 2 => b[1] = a[1])
  BY <1>1, <1>3, <1>4 DEF IsPacked
<1>7. ASSUME NEW i \in 1..m
      PROVE  b[i] = a[i]
  <2>1. CASE i = m
    BY <1>6, <2>1
  <2>2. CASE i # m /\ i > m - n - 1
    <3>1. i - (m - n - 1) \in 1..n /\ m - n - 1 + (i - (m - n - 1)) = i
      BY <1>3, <2>2
    <3>2. QED
      BY <1>5, <3>1
  <2>3. CASE i <= m - n - 1
    BY <1>3, <1>6, <2>3
  <2>4. QED
    BY <1>3, <2>1, <2>2, <2>3
<1>8. QED
  BY <1>4, <1>7, SameSequence

(* What unpack_comp3 makes of the digits and the sign it finds.            *)
UnpackedAt(text, x, exponent) ==
    [sign |-> IF x = Negative THEN 1 ELSE 0, coefficient |-> Stripped(text), exponent |-> exponent]

Unpacked(text, x) == UnpackedAt(text, x, -scale)

(* Nibbles that are all digits are a text.                                 *)
LEMMA DigitsOnly ==
    ASSUME NEW s \in Seq(Nibble), \A i \in 1..Len(s) : s[i] \in Digit
    PROVE  s \in Seq(Digit)
<1>1. PICK n \in Nat : n = Len(s)
  OBVIOUS
<1>2. s = [i \in 1..n |-> s[i]]
  BY <1>1
<1>3. [i \in 1..n |-> s[i]] \in [1..n -> Digit]
  BY <1>1
<1>4. [i \in 1..n |-> s[i]] \in Seq(Digit)
  BY <1>1
<1>5. QED
  BY <1>2, <1>4

(* unpack_comp3 takes exactly packed bytes, and gives their digits and     *)
(* sign.                                                                   *)
LEMMA UnpackOf ==
    ASSUME NEW d \in Nat \ {0}, NEW e \in Nat, ValidPrecision(d, e), NEW b \in Seq(Nibble)
    PROVE  /\ \A v \in Unpack(b, d, e) :
                \E text \in Seq(Digit), x \in {Positive, Negative, Unsigned} :
                  Len(text) = d /\ IsPacked(b, text, x) /\ v = UnpackedAt(text, x, -e)
           /\ \A text \in Seq(Digit), x \in {Positive, Negative, Unsigned} :
                Len(text) = d /\ IsPacked(b, text, x)
                  => Unpack(b, d, e) = {UnpackedAt(text, x, -e)}
<1>1. PICK n \in Nat : n = Len(b)
  OBVIOUS
<1>2. ValidPrecision(d, e)
  OBVIOUS
<1>3. PICK m \in Nat : m = 2 * ByteLength(d)
  <2>1. ByteLength(d) \in Nat
    BY PackedLength
  <2>2. 2 * ByteLength(d) \in Nat
    BY <2>1
  <2>3. QED
    BY <2>2
<1>4. (m = d + 1 \/ (m = d + 2 /\ d % 2 = 0)) /\ (d % 2 = 0 => m = d + 2)
  BY <1>3, PackedLengths
<1>5. ASSUME n = m
      PROVE  \E s \in Seq(Nibble) : /\ s = SubSeq(b, n - d, n - 1) /\ Len(s) = d
                                     /\ \A i \in 1..d : s[i] = b[n - d - 1 + i]
  <2>1. n - d \in 1..n /\ n - 1 \in 1..n /\ n - 1 - (n - d) + 1 = d
    BY <1>4, <1>5
  <2>2. SubSeq(b, n - d, n - 1) \in Seq(Nibble) /\ Len(SubSeq(b, n - d, n - 1)) = d
    BY <1>1, <2>1
  <2>3. \A i \in 1..d : SubSeq(b, n - d, n - 1)[i] = b[n - d + i - 1]
    BY <1>1, <2>1
  <2>4. \A i \in 1..d : n - d + i - 1 = n - d - 1 + i
    OBVIOUS
  <2>5. QED
    BY <2>2, <2>3, <2>4
<1>6. ASSUME NEW v \in Unpack(b, d, e)
      PROVE  \E t \in Seq(Digit), x \in {Positive, Negative, Unsigned} :
               Len(t) = d /\ IsPacked(b, t, x) /\ v = UnpackedAt(t, x, -e)
  <2>1. /\ n = m
        /\ b[n] \in {Positive, Negative, Unsigned}
        /\ \A i \in 1..(n - 1) : b[i] \in Digit
        /\ d % 2 = 0 => b[1] = 0
    BY <1>1, <1>2, <1>3 DEF Unpack
  <2>2. PICK s \in Seq(Nibble) : /\ s = SubSeq(b, n - d, n - 1) /\ Len(s) = d
                                 /\ \A i \in 1..d : s[i] = b[n - d - 1 + i]
    BY <1>5, <2>1
  <2>3. v = UnpackedAt(s, b[n], -e)
    BY <1>1, <1>2, <2>2 DEF Unpack, UnpackedAt
  <2>4. s \in Seq(Digit)
    <3>1. \A i \in 1..d : n - d - 1 + i \in 1..(n - 1)
      BY <1>4, <2>1
    <3>2. \A i \in 1..d : s[i] \in Digit
      BY <2>1, <2>2, <3>1
    <3>3. QED
      BY <2>2, <3>2, DigitsOnly
  <2>5. IsPacked(b, s, b[n])
    BY <1>1, <1>3, <2>1, <2>2 DEF IsPacked
  <2>6. QED
    BY <1>2, <2>1, <2>2, <2>3, <2>4, <2>5
<1>7. ASSUME NEW t \in Seq(Digit), NEW x \in {Positive, Negative, Unsigned},
             Len(t) = d, IsPacked(b, t, x)
      PROVE  Unpack(b, d, e) = {UnpackedAt(t, x, -e)}
  <2>1. /\ n = m /\ b[n] = x /\ (d % 2 = 0 => b[1] = 0)
        /\ \A i \in 1..d : b[n - d - 1 + i] = t[i]
    BY <1>1, <1>2, <1>3, <1>7 DEF IsPacked
  <2>2. PICK s \in Seq(Nibble) : /\ s = SubSeq(b, n - d, n - 1) /\ Len(s) = d
                                 /\ \A i \in 1..d : s[i] = b[n - d - 1 + i]
    BY <1>5, <2>1
  <2>3. s = t
    <3>1. \A i \in 1..d : s[i] = t[i]
      BY <2>1, <2>2
    <3>2. s \in Seq(Digit)
      <4>1. \A i \in 1..d : s[i] \in Digit
        BY <1>2, <1>7, <3>1
      <4>2. QED
        BY <2>2, <4>1, DigitsOnly
    <3>3. QED
      BY <1>2, <1>7, <2>2, <3>1, <3>2, SameSequence
  <2>4. ASSUME NEW i \in 1..(n - 1)
        PROVE  b[i] \in Digit
    <3>1. CASE i > n - d - 1
      <4>1. i - (n - d - 1) \in 1..d /\ n - d - 1 + (i - (n - d - 1)) = i
        BY <3>1
      <4>2. b[i] = t[i - (n - d - 1)]
        BY <2>1, <4>1
      <4>3. t[i - (n - d - 1)] \in Digit
        BY <1>2, <1>7, <4>1
      <4>4. QED
        BY <4>2, <4>3
    <3>2. CASE ~(i > n - d - 1)
      <4>1. n = d + 2 /\ d % 2 = 0
        BY <1>4, <2>1, <3>2
      <4>2. i = 1
        BY <4>1, <3>2
      <4>3. QED
        BY <2>1, <4>1, <4>2 DEF Digit
    <3>3. QED
      BY <3>1, <3>2
  <2>5. Unpack(b, d, e) = {UnpackedAt(s, b[n], -e)}
    BY <1>1, <1>2, <1>3, <2>1, <2>2, <2>4 DEF Unpack, UnpackedAt
  <2>6. QED
    BY <2>1, <2>3, <2>5
<1>8. QED
  BY <1>6, <1>7

LEMMA UnpackIs ==
    ASSUME Precise, NEW b \in Seq(Nibble)
    PROVE  /\ \A v \in Unpack(b, digits, scale) :
                \E text \in Seq(Digit), x \in {Positive, Negative, Unsigned} :
                  Len(text) = digits /\ IsPacked(b, text, x) /\ v = Unpacked(text, x)
           /\ \A text \in Seq(Digit), x \in {Positive, Negative, Unsigned} :
                Len(text) = digits /\ IsPacked(b, text, x)
                  => Unpack(b, digits, scale) = {Unpacked(text, x)}
<1>1. digits \in Nat \ {0} /\ scale \in Nat /\ ValidPrecision(digits, scale)
  BY DEF Precise, ValidPrecision
<1>2. QED
  BY <1>1, UnpackOf DEF Unpacked

(* What is unpacked is a decimal at the scale, of that number.             *)
LEMMA UnpackedIs ==
    ASSUME Precise, NEW text \in Seq(Digit), Len(text) = digits,
           NEW x \in {Positive, Negative, Unsigned}
    PROVE  /\ IsDecimal(Unpacked(text, x))
           /\ Scaled(Unpacked(text, x)) = {Number(text)}
           /\ AtScale(Unpacked(text, x), digits, scale) = {Stripped(text)}
<1>1. PICK v : v = Unpacked(text, x)
  OBVIOUS
<1>2. PICK c : c = Stripped(text)
  OBVIOUS
<1>3. digits \in Nat \ {0} /\ scale \in Nat
  BY DEF Precise, ValidPrecision
<1>4. /\ c \in Seq(Digit) /\ Len(c) \in 1..digits
      /\ c[1] # 0 \/ c = <<0>>
      /\ Number(c) = Number(text)
  BY <1>2, <1>3, StrippedIs
<1>5. v.sign \in 0..1 /\ v.coefficient = c /\ v.exponent = -scale
  BY <1>1, <1>2 DEF Unpacked, UnpackedAt
<1>6. IsDecimal(v)
  <2>1. c # <<>>
    BY <1>4
  <2>2. QED
    BY <1>3, <1>4, <1>5, <2>1 DEF IsDecimal
<1>7. Scaled(v) = {Number(text)}
  <2>1. v.exponent + scale = 0
    BY <1>3, <1>5
  <2>2. Number(c) * Power(0) = Number(c)
    <3>1. Number(c) \in Nat /\ Power(0) = 1
      BY <1>4, NumberStep, PowerStep
    <3>2. QED
      BY <3>1
  <2>3. QED
    BY <1>4, <1>5, <2>1, <2>2 DEF Scaled
<1>8. AtScale(v, digits, scale) = {c}
  <2>1. CASE IsZero(v)
    <3>1. c[1] = 0
      BY <1>4, <1>5, <2>1 DEF IsZero
    <3>2. QED
      BY <1>4, <2>1, <3>1 DEF AtScale
  <2>2. CASE ~IsZero(v)
    <3>1. v.exponent + scale = 0
      BY <1>3, <1>5
    <3>2. {c[i] : i \in {j \in DOMAIN c : j > Len(c) + 0}} = {}
      BY <1>4
    <3>3. c \o Zeros(0) = c /\ Len(c) + 0 \in 1..digits
      <4>1. Zeros(0) = <<>>
        BY DEF Zeros
      <4>2. QED
        BY <1>4, <4>1
    <3>4. QED
      BY <1>5, <2>2, <3>1, <3>2, <3>3 DEF AtScale
  <2>3. QED
    BY <2>1, <2>2
<1>9. QED
  BY <1>1, <1>2, <1>6, <1>7, <1>8

-----------------------------------------------------------------------------
(* Packing a value.                                                        *)

(* pack_comp3 gives one byte string: the digits of the number at the scale *)
(* and the sign of the value; and it gives one exactly for what fits.      *)
LEMMA PackIs ==
    ASSUME Precise, NEW v, IsDecimal(v)
    PROVE  /\ Pack(v, digits, scale) # {} <=> Holds(v)
           /\ \A b \in Pack(v, digits, scale) :
                /\ Pack(v, digits, scale) = {b}
                /\ \E t \in Seq(Digit) :
                     /\ Len(t) = digits /\ IsPacked(b, t, SignNibble(v.sign))
                     /\ Scaled(v) = {Number(t)}
<1>1. ScaleFits(v)
  BY DecimalFits
<1>2. PICK texts : texts = AtScale(v, digits, scale)
  OBVIOUS
<1>3. Pack(v, digits, scale) = {Nibbles(v.sign, ZFill(text, digits)) : text \in texts}
  BY <1>2 DEF Pack, Precise
<1>4. Pack(v, digits, scale) # {} <=> Holds(v)
  <2>1. texts # {} <=> Holds(v)
    BY <1>1, <1>2 DEF ScaleFits
  <2>2. Pack(v, digits, scale) # {} <=> texts # {}
    BY <1>3
  <2>3. QED
    BY <2>1, <2>2
<1>5. ASSUME NEW b \in Pack(v, digits, scale)
      PROVE  /\ Pack(v, digits, scale) = {b}
             /\ \E t \in Seq(Digit) :
                  /\ Len(t) = digits /\ IsPacked(b, t, SignNibble(v.sign))
                  /\ Scaled(v) = {Number(t)}
  <2>1. PICK text \in texts : b = Nibbles(v.sign, ZFill(text, digits))
    BY <1>3, <1>5
  <2>2. /\ texts = {text} /\ text \in Seq(Digit) /\ Len(text) \in 1..digits
        /\ Scaled(v) = {Number(text)}
    BY <1>1, <1>2, <2>1 DEF ScaleFits
  <2>3. Pack(v, digits, scale) = {b}
    BY <1>3, <2>1, <2>2
  <2>4. PICK d \in Nat \ {0} : d = digits
    BY DEF Precise, ValidPrecision
  <2>5. PICK t \in Seq(Digit) : t = ZFill(text, d) /\ Len(t) = d /\ Number(t) = Number(text)
    <3>1. Len(text) <= d
      BY <2>2, <2>4
    <3>2. QED
      BY <2>2, <3>1, ZFillIs
  <2>6. v.sign \in 0..1
    BY DEF IsDecimal
  <2>7. IsPacked(Nibbles(v.sign, t), t, SignNibble(v.sign))
    BY <2>5, <2>6, NibblesPacked
  <2>8. QED
    BY <2>1, <2>2, <2>3, <2>4, <2>5, <2>7
<1>6. QED
  BY <1>4, <1>5

(* What was packed unpacks to the same number and sign.                    *)
LEMMA PackedUnpacks ==
    ASSUME Precise, NEW v, IsDecimal(v), NEW b \in Pack(v, digits, scale)
    PROVE  /\ Pack(v, digits, scale) = {b}
           /\ Len(b) = 2 * ByteLength(digits)
           /\ b[Len(b)] # Unsigned
           /\ \E w \in Unpack(b, digits, scale) : Scaled(w) = Scaled(v) /\ w.sign = v.sign
<1>1. Pack(v, digits, scale) = {b}
  BY PackIs
<1>2. PICK x \in {Positive, Negative} : x = SignNibble(v.sign)
  BY DEF SignNibble
<1>3. PICK t \in Seq(Digit) : /\ Len(t) = digits /\ IsPacked(b, t, x) /\ Scaled(v) = {Number(t)}
  BY <1>2, PackIs
<1>4. b \in Seq(Nibble) /\ Len(b) = 2 * ByteLength(digits) /\ b[Len(b)] = x
  BY <1>3 DEF IsPacked
<1>5. PICK w : w = Unpacked(t, x)
  OBVIOUS
<1>6. Unpack(b, digits, scale) = {w}
  BY <1>3, <1>4, <1>5, UnpackIs
<1>7. Scaled(w) = Scaled(v)
  BY <1>3, <1>5, UnpackedIs
<1>8. w.sign = v.sign
  <2>1. v.sign \in 0..1
    BY DEF IsDecimal
  <2>2. w.sign = IF x = Negative THEN 1 ELSE 0
    BY <1>5 DEF Unpacked, UnpackedAt
  <2>3. QED
    BY <1>2, <2>1, <2>2 DEF SignNibble, Positive, Negative
<1>9. x # Unsigned
  BY DEF Positive, Negative, Unsigned
<1>10. QED
  BY <1>1, <1>4, <1>6, <1>7, <1>8, <1>9

(* What was unpacked packs to the same bytes, an F for the sign turned     *)
(* into a C.                                                               *)
LEMMA UnpackedPacks ==
    ASSUME Precise, NEW b \in Seq(Nibble), NEW v \in Unpack(b, digits, scale)
    PROVE  /\ IsDecimal(v) /\ Holds(v)
           /\ Unpack(b, digits, scale) = {v}
           /\ Len(b) = 2 * ByteLength(digits)
           /\ Pack(v, digits, scale) =
                {IF b[Len(b)] = Unsigned THEN [b EXCEPT ![Len(b)] = Positive] ELSE b}
<1>1. PICK t \in Seq(Digit), x \in {Positive, Negative, Unsigned} :
        Len(t) = digits /\ IsPacked(b, t, x) /\ v = Unpacked(t, x)
  BY UnpackIs
<1>2. Unpack(b, digits, scale) = {v}
  BY <1>1, UnpackIs
<1>3. IsDecimal(v) /\ Scaled(v) = {Number(t)} /\ AtScale(v, digits, scale) = {Stripped(t)}
  BY <1>1, UnpackedIs
<1>4. PICK d \in Nat \ {0} : d = digits
  BY DEF Precise, ValidPrecision
<1>5. Len(b) = 2 * ByteLength(digits) /\ b[Len(b)] = x
  BY <1>1 DEF IsPacked
<1>6. Holds(v)
  <2>1. Number(t) \in 0..(Power(d) - 1)
    BY <1>1, <1>4, NumberBounds DEF Bounded
  <2>2. Number(t) < Power(digits)
    BY <1>4, <2>1, PowerStep
  <2>3. QED
    BY <1>3, <2>2 DEF Holds
<1>7. Pack(v, digits, scale) = {Nibbles(v.sign, t)}
  <2>1. ZFill(Stripped(t), digits) = t
    BY <1>1, <1>4, StrippedIs
  <2>2. QED
    BY <1>3, <2>1 DEF Pack, Precise
<1>8. PICK y \in {Positive, Negative} : y = IF x = Unsigned THEN Positive ELSE x
  BY DEF Positive, Negative, Unsigned
<1>9. PICK a : a = Nibbles(v.sign, t)
  OBVIOUS
<1>10. IsPacked(a, t, y)
  <2>1. v.sign \in 0..1 /\ SignNibble(v.sign) = y
    BY <1>1, <1>8 DEF Unpacked, UnpackedAt, SignNibble, Positive, Negative, Unsigned
  <2>2. QED
    BY <1>1, <1>4, <1>9, <2>1, NibblesPacked
<1>11. PICK m \in Nat : m = Len(b) /\ m = 2 * ByteLength(d) /\ (m = d + 1 \/ m = d + 2)
  <2>1. PICK m \in Nat : m = Len(b)
    OBVIOUS
  <2>2. m = 2 * ByteLength(d)
    BY <1>4, <1>5, <2>1
  <2>3. QED
    BY <2>1, <2>2, PackedLengths
<1>12. PICK r \in Seq(Nibble) : /\ r = [b EXCEPT ![m] = Positive] /\ Len(r) = m /\ r[m] = Positive
                                /\ \A i \in 1..m : i # m => r[i] = b[i]
  <2>1. m \in 1..Len(b) /\ Positive \in Nibble
    BY <1>11 DEF Positive, Nibble
  <2>2. PICK p \in Nibble : p = Positive
    BY <2>1
  <2>3. [b EXCEPT ![m] = p] \in Seq(Nibble)
    BY <2>1
  <2>4. PICK r \in Seq(Nibble) : r = [b EXCEPT ![m] = p]
    BY <2>3
  <2>5. Len(r) = Len(b)
    BY <2>4
  <2>6. r[m] = p /\ \A i \in 1..Len(b) : i # m => r[i] = b[i]
    BY <2>1, <2>4
  <2>7. QED
    BY <1>11, <2>2, <2>4, <2>5, <2>6
<1>13. PICK e \in Seq(Nibble) : e = IF x = Unsigned THEN r ELSE b
  OBVIOUS
<1>14. IsPacked(e, t, y)
  <2>1. CASE x # Unsigned
    BY <1>1, <1>8, <1>13, <2>1
  <2>2. CASE x = Unsigned
    <3>1. e = r /\ y = Positive
      BY <1>8, <1>13, <2>2
    <3>2. ASSUME NEW i \in 1..d
          PROVE  m - d - 1 + i \in 1..m /\ m - d - 1 + i # m
      <4>1. m = d + 1 \/ m = d + 2
        BY <1>11
      <4>2. QED
        BY <4>1
    <3>3. /\ \A i \in 1..d : b[m - d - 1 + i] = t[i]
          /\ d % 2 = 0 => b[1] = 0
      BY <1>1, <1>4, <1>11 DEF IsPacked
    <3>4. \A i \in 1..d : e[m - d - 1 + i] = t[i]
      BY <1>12, <3>1, <3>2, <3>3
    <3>5. d % 2 = 0 => e[1] = 0
      <4>1. 1 \in 1..m /\ 1 # m
        BY <1>11
      <4>2. QED
        BY <1>12, <3>1, <3>3, <4>1
    <3>6. QED
      BY <1>1, <1>4, <1>11, <1>12, <3>1, <3>4, <3>5 DEF IsPacked
  <2>3. QED
    BY <2>1, <2>2
<1>15. a = e
  <2>1. Len(t) > 0
    BY <1>1, <1>4
  <2>2. QED
    BY <1>10, <1>14, <2>1, PackedOnce
<1>16. a = IF b[Len(b)] = Unsigned THEN [b EXCEPT ![Len(b)] = Positive] ELSE b
  BY <1>5, <1>11, <1>12, <1>13, <1>15
<1>17. QED
  BY <1>2, <1>3, <1>5, <1>6, <1>7, <1>9, <1>16

-----------------------------------------------------------------------------
(* Packing and unpacking as steps.                                         *)

(* The values packed are decimals.                                         *)
LEMMA ValuesAreDecimals ==
    ASSUME NEW v \in Values
    PROVE  IsDecimal(v)
<1>1. MaxExponent \in Nat /\ SomeDigits \subseteq Digit /\ MaxDigits \in Nat
  BY CheckAssumption
<1>2. v.sign \in 0..1 /\ v.exponent \in Int /\ v.coefficient \in Coefficients
  BY <1>1 DEF Values
<1>3. PICK c : c = v.coefficient
  OBVIOUS
<1>4. CASE c = <<0>>
  <2>1. c \in Seq(Digit) /\ c # <<>>
    BY <1>4 DEF Digit
  <2>2. QED
    BY <1>2, <1>3, <1>4, <2>1 DEF IsDecimal
<1>5. CASE c # <<0>>
  <2>1. PICK n \in 1..(MaxDigits + 1) : c \in [1..n -> SomeDigits] /\ c[1] # 0
    BY <1>2, <1>3, <1>5 DEF Coefficients, Strings
  <2>2. n \in Nat \ {0}
    BY <1>1
  <2>3. c \in [1..n -> Digit]
    BY <1>1, <2>1
  <2>4. c \in Seq(Digit) /\ Len(c) = n
    BY <2>2, <2>3
  <2>5. c # <<>>
    BY <2>2, <2>4
  <2>6. QED
    BY <1>2, <1>3, <2>1, <2>4, <2>5 DEF IsDecimal
<1>6. QED
  BY <1>4, <1>5

(* The byte strings unpacked are nibbles.                                  *)
LEMMA BytesAreNibbles ==
    ASSUME NEW b \in ByteStrings
    PROVE  b \in Seq(Nibble)
<1>1. SomeNibbles \subseteq Nibble /\ MaxDigits \in Nat \ {0}
  BY CheckAssumption
<1>2. ByteLength(MaxDigits) \in Nat
  BY <1>1, PackedLength
<1>3. PICK n \in 1..ByteLength(MaxDigits) : b \in [1..(2 * n) -> SomeNibbles]
  BY DEF ByteStrings, Strings
<1>4. PICK m \in Nat : m = 2 * n
  BY <1>2
<1>5. b \in [1..m -> Nibble]
  BY <1>1, <1>3, <1>4
<1>6. QED
  BY <1>4, <1>5

(* Nothing is packed at first.                                             *)
LEMMA PackBegins == Init => PackInvariant
BY CheckAssumption DEF Init, PackInit, PackIdle, PackInvariant

(* A step packs a value or unpacks bytes.                                  *)
LEMMA PackStep ==
    ASSUME PackInvariant, PackNext
    PROVE  PackInvariant'
<1>1. digits' = digits /\ scale' = scale /\ digits \in 0..MaxDigits /\ scale \in Nat
  BY DEF PackInvariant, PackNext
<1>2. CASE value' \in {{v} : v \in Values} /\ raw' = UNION {Pack(v, digits, scale) : v \in value'}
  <2>1. PICK v \in Values : value' = {v}
    BY <1>2
  <2>2. raw' = Pack(v, digits, scale)
    BY <1>2, <2>1
  <2>3. QED
    BY <1>1, <2>1, <2>2 DEF PackInvariant
<1>3. CASE raw' \in {{b} : b \in ByteStrings} /\ value' = UNION {Unpack(b, digits, scale) : b \in raw'}
  <2>1. PICK b \in ByteStrings : raw' = {b}
    BY <1>3
  <2>2. value' = Unpack(b, digits, scale)
    BY <1>3, <2>1
  <2>3. QED
    BY <1>1, <2>1, <2>2 DEF PackInvariant
<1>4. QED
  BY <1>2, <1>3 DEF PackNext

(* Nothing else touches them.                                              *)
LEMMA PackStutters ==
    ASSUME PackInvariant, UNCHANGED packVars
    PROVE  PackInvariant'
BY DEF PackInvariant, packVars

(* A step packs, unpacks, or leaves the decimals alone.                    *)
LEMMA PackSteps == [Next]_vars => PackNext \/ UNCHANGED packVars
BY DEF Next, vars

(* The value and the bytes of every state belong together.                 *)
THEOREM PackInvariantHolds == Spec => []PackInvariant
<1>1. PackInvariant /\ [Next]_vars => PackInvariant'
  BY PackSteps, PackStep, PackStutters
<1>2. QED
  BY <1>1, PackBegins, PTL DEF Spec

(* What the states have in them: nothing, a value and its bytes, or bytes  *)
(* and their value.                                                        *)
LEMMA PackedStates ==
    ASSUME PackInvariant, Precise
    PROVE  \A v \in value :
             /\ IsDecimal(v)
             /\ Holds(v) <=> raw # {}
             /\ \A b \in raw :
                  /\ Len(b) = 2 * ByteLength(digits)
                  /\ \E w \in Unpack(b, digits, scale) : Scaled(w) = Scaled(v) /\ w.sign = v.sign
                  /\ Pack(v, digits, scale) =
                       {IF b[Len(b)] = Unsigned THEN [b EXCEPT ![Len(b)] = Positive] ELSE b}
<1>1. CASE value = {} /\ raw = {}
  BY <1>1
<1>2. ASSUME NEW v \in Values, value = {v}, raw = Pack(v, digits, scale)
      PROVE  /\ IsDecimal(v)
             /\ Holds(v) <=> raw # {}
             /\ \A b \in raw :
                  /\ Len(b) = 2 * ByteLength(digits)
                  /\ \E w \in Unpack(b, digits, scale) : Scaled(w) = Scaled(v) /\ w.sign = v.sign
                  /\ Pack(v, digits, scale) =
                       {IF b[Len(b)] = Unsigned THEN [b EXCEPT ![Len(b)] = Positive] ELSE b}
  <2>1. IsDecimal(v)
    BY ValuesAreDecimals
  <2>2. Holds(v) <=> raw # {}
    BY <1>2, <2>1, PackIs
  <2>3. ASSUME NEW b \in raw
        PROVE  /\ Len(b) = 2 * ByteLength(digits)
               /\ \E w \in Unpack(b, digits, scale) : Scaled(w) = Scaled(v) /\ w.sign = v.sign
               /\ Pack(v, digits, scale) = {b} /\ b[Len(b)] # Unsigned
    BY <1>2, <2>1, <2>3, PackedUnpacks
  <2>4. QED
    BY <2>1, <2>2, <2>3
<1>3. ASSUME NEW b \in ByteStrings, raw = {b}, value = Unpack(b, digits, scale), NEW v \in value
      PROVE  /\ IsDecimal(v)
             /\ Holds(v)
             /\ Len(b) = 2 * ByteLength(digits)
             /\ v \in Unpack(b, digits, scale)
             /\ Pack(v, digits, scale) =
                  {IF b[Len(b)] = Unsigned THEN [b EXCEPT ![Len(b)] = Positive] ELSE b}
  <2>1. b \in Seq(Nibble) /\ v \in Unpack(b, digits, scale)
    BY <1>3, BytesAreNibbles
  <2>2. QED
    BY <2>1, UnpackedPacks
<1>4. QED
  BY <1>1, <1>2, <1>3 DEF PackInvariant

(* There is a precision to speak of as soon as there is something packed   *)
(* or unpacked.                                                            *)
LEMMA PreciseIfPacked ==
    ASSUME PackInvariant, NEW v \in value, NEW b \in raw
    PROVE  ValidPrecision(digits, scale)
<1>1. \A w, a : Pack(w, digits, scale) # {} \/ Unpack(a, digits, scale) # {}
                 => ValidPrecision(digits, scale)
  BY DEF Pack, Unpack
<1>2. QED
  BY <1>1 DEF PackInvariant

(* In the states reached, a valid precision is one of natural numbers.     *)
LEMMA PreciseStates ==
    ASSUME PackInvariant, ValidPrecision(digits, scale)
    PROVE  Precise
<1>1. digits \in Nat
  BY CheckAssumption DEF PackInvariant
<1>2. QED
  BY <1>1 DEF Precise, PackInvariant

(* pack_comp3 accepts exactly the values a field can hold                  *)
(* (copybook.py:183-208).                                                  *)
THEOREM PacksWhatFitsHolds == Spec => []PacksWhatFits
<1>1. PackInvariant => PacksWhatFits
  BY PackedStates, PreciseStates DEF PacksWhatFits
<1>2. QED
  BY <1>1, PackInvariantHolds, PTL

(* Packing and unpacking are each other's inverse (copybook.py:153-215).   *)
THEOREM InverseHolds == Spec => []Inverse
<1>1. ASSUME PackInvariant
      PROVE  Inverse
  <2>1. ASSUME NEW v \in value, NEW b \in raw
        PROVE  Precise
    BY <1>1, <2>1, PreciseIfPacked, PreciseStates
  <2>2. RoundTrip
    BY <1>1, <2>1, PackedStates DEF RoundTrip
  <2>3. OneSpelling
    BY <1>1, <2>1, PackedStates DEF OneSpelling
  <2>4. QED
    BY <2>2, <2>3 DEF Inverse
<1>2. QED
  BY <1>1, PackInvariantHolds, PTL

-----------------------------------------------------------------------------
(* What is in a record's field.                                            *)

(* Zeros before a text are dropped again: zfill does not change what       *)
(* int() and Decimal() read.                                               *)
LEMMA ZFillStripped ==
    ASSUME NEW n \in Nat \ {0}, NEW text \in Seq(Digit), Len(text) \in 1..n
    PROVE  Stripped(ZFill(text, n)) = Stripped(text)
<1>1. PICK m \in Nat : m = n - Len(text)
  OBVIOUS
<1>2. PICK z \in Seq(Digit) : z = Zeros(m) /\ Len(z) = m /\ \A i \in 1..m : z[i] = 0
  <2>1. \A i \in 1..m : Zeros(m)[i] = 0
    BY DEF Zeros
  <2>2. QED
    BY <2>1, ZerosAre
<1>3. PICK k \in Nat \ {0} : k = Len(text)
  OBVIOUS
<1>4. PICK t \in Seq(Digit) : /\ t = z \o text /\ t = ZFill(text, n) /\ Len(t) = m + k
                              /\ \A i \in 1..m : t[i] = 0
                              /\ \A i \in 1..k : t[m + i] = text[i]
  <2>1. /\ z \o text \in Seq(Digit) /\ Len(z \o text) = Len(z) + Len(text)
        /\ \A i \in 1..Len(z) : (z \o text)[i] = z[i]
        /\ \A i \in 1..Len(text) : (z \o text)[Len(z) + i] = text[i]
    BY Concatenation
  <2>2. ZFill(text, n) = z \o text
    BY <1>1, <1>2 DEF ZFill
  <2>3. PICK t \in Seq(Digit) : t = z \o text
    BY <2>1
  <2>4. Len(t) = m + k
    BY <1>2, <1>3, <2>1, <2>3
  <2>5. \A i \in 1..m : t[i] = 0
    BY <1>2, <2>1, <2>3
  <2>6. \A i \in 1..k : t[m + i] = text[i]
    BY <1>2, <1>3, <2>1, <2>3
  <2>7. QED
    BY <2>2, <2>3, <2>4, <2>5, <2>6
<1> DEFINE nonzero == {i \in DOMAIN text : text[i] # 0}
           moved == {i \in DOMAIN t : t[i] # 0}
<1>5. DOMAIN text = 1..k /\ DOMAIN t = 1..(m + k)
  BY <1>3, <1>4
<1>6. CASE nonzero = {}
  <2>1. ASSUME NEW i \in 1..(m + k) PROVE t[i] = 0
    <3>1. CASE i <= m
      BY <1>4, <3>1
    <3>2. CASE i > m
      <4>1. i - m \in 1..k /\ m + (i - m) = i
        BY <3>2
      <4>2. t[i] = text[i - m]
        BY <1>4, <4>1
      <4>3. QED
        BY <1>5, <1>6, <4>1, <4>2
    <3>3. QED
      BY <3>1, <3>2
  <2>2. moved = {}
    BY <1>5, <2>1
  <2>3. QED
    BY <1>4, <1>6, <2>2 DEF Stripped
<1>7. CASE nonzero # {}
  <2>1. nonzero \in SUBSET Nat /\ nonzero \subseteq 1..k
    BY <1>5
  <2>2. \E i \in nonzero : \A j \in nonzero : i <= j
    BY <1>7, <2>1, Least
  <2>3. PICK a \in nonzero : /\ a = CHOOSE i \in nonzero : \A j \in nonzero : i <= j
                             /\ \A j \in nonzero : a <= j
    BY <2>2
  <2>4. a \in 1..k /\ text[a] # 0
    BY <2>1, <2>3
  <2>5. m + a \in moved
    BY <1>4, <1>5, <2>4
  <2>6. ASSUME NEW j \in moved PROVE m + a <= j
    <3>1. j \in 1..(m + k) /\ t[j] # 0
      BY <1>5
    <3>2. j > m
      BY <1>4, <3>1
    <3>3. j - m \in 1..k /\ m + (j - m) = j
      BY <3>1, <3>2
    <3>4. text[j - m] # 0
      BY <1>4, <3>1, <3>3
    <3>5. a <= j - m
      BY <1>5, <2>3, <3>3, <3>4
    <3>6. QED
      BY <2>4, <3>1, <3>5
  <2>7. PICK b \in moved : /\ b = CHOOSE i \in moved : \A j \in moved : i <= j
                           /\ \A j \in moved : b <= j
    BY <2>5, <2>6
  <2>8. b = m + a
    <3>1. b <= m + a /\ m + a <= b
      BY <2>5, <2>6, <2>7
    <3>2. b \in Nat /\ m + a \in Nat
      BY <1>5, <2>4
    <3>3. QED
      BY <3>1, <3>2
  <2>9. Stripped(text) = SubSeq(text, a, k) /\ Stripped(t) = SubSeq(t, m + a, m + k)
    <3>1. Stripped(text) = SubSeq(text, a, Len(text))
      BY <1>7, <2>3 DEF Stripped
    <3>2. Stripped(t) = SubSeq(t, b, Len(t))
      BY <2>5, <2>7 DEF Stripped
    <3>3. QED
      BY <1>3, <1>4, <2>8, <3>1, <3>2
  <2>10. PICK u \in Seq(Digit) : /\ u = SubSeq(text, a, k) /\ Len(u) = k - a + 1
                                 /\ \A i \in 1..(k - a + 1) : u[i] = text[a - 1 + i]
    <3>1. SubSeq(text, a, k) \in Seq(Digit) /\ Len(SubSeq(text, a, k)) = k - a + 1
      BY <1>3, <2>4
    <3>2. \A i \in 1..(k - a + 1) : SubSeq(text, a, k)[i] = text[a + i - 1]
      BY <1>3, <2>4
    <3>3. \A i \in 1..(k - a + 1) : a + i - 1 = a - 1 + i
      OBVIOUS
    <3>4. \A i \in 1..(k - a + 1) : SubSeq(text, a, k)[i] = text[a - 1 + i]
      BY <3>2, <3>3
    <3>5. QED
      BY <3>1, <3>4, Zenon
  <2>11. PICK w \in Seq(Digit) : /\ w = SubSeq(t, m + a, m + k) /\ Len(w) = k - a + 1
                                 /\ \A i \in 1..(k - a + 1) : w[i] = t[m + (a - 1 + i)]
    <3>1. PICK x \in Nat, y \in Nat : x = m + a /\ y = m + k
      BY <2>4
    <3>2. x \in 1..y /\ y - x + 1 = k - a + 1 /\ Len(t) = y
      BY <1>4, <2>4, <3>1
    <3>3. SubSeq(t, x, y) \in Seq(Digit) /\ Len(SubSeq(t, x, y)) = y - x + 1
      BY <3>2
    <3>4. \A i \in 1..(y - x + 1) : SubSeq(t, x, y)[i] = t[x + i - 1]
      BY <3>2
    <3>5. \A i \in 1..(k - a + 1) : x + i - 1 = m + (a - 1 + i)
      BY <2>4, <3>1
    <3>6. \A i \in 1..(k - a + 1) : SubSeq(t, x, y)[i] = t[m + (a - 1 + i)]
      BY <3>2, <3>4, <3>5
    <3>7. QED
      BY <3>1, <3>2, <3>3, <3>6
  <2>12. \A i \in 1..(k - a + 1) : a - 1 + i \in 1..k
    BY <2>4
  <2>13. ASSUME NEW i \in 1..(k - a + 1) PROVE u[i] = w[i]
    <3>1. PICK j \in 1..k : j = a - 1 + i
      BY <2>12
    <3>2. u[i] = text[j] /\ w[i] = t[m + j]
      BY <2>10, <2>11, <3>1
    <3>3. QED
      BY <1>4, <3>1, <3>2
  <2>14. u = w
    <3>1. Len(u) = Len(w) /\ \A i \in 1..Len(u) : u[i] = w[i]
      BY <2>10, <2>11, <2>13
    <3>2. QED
      BY <3>1, SameSequence
  <2>15. QED
    BY <1>4, <2>9, <2>10, <2>11, <2>14
<1>8. QED
  BY <1>6, <1>7

(* A number without leading zeros is what it is.                           *)
LEMMA StrippedTwice ==
    ASSUME NEW c \in Seq(Digit), Len(c) > 0, c[1] # 0 \/ c = << 0 >>
    PROVE  Stripped(c) = c
<1>1. PICK n \in Nat \ {0} : n = Len(c)
  OBVIOUS
<1> DEFINE nonzero == {i \in DOMAIN c : c[i] # 0}
<1>2. CASE c = <<0>>
  <2>1. nonzero = {}
    BY <1>2
  <2>2. QED
    BY <1>2, <2>1 DEF Stripped
<1>3. CASE c[1] # 0
  <2>1. nonzero \subseteq 1..n /\ 1 \in nonzero
    BY <1>1, <1>3
  <2>2. PICK a \in nonzero : /\ a = CHOOSE i \in nonzero : \A j \in nonzero : i <= j
                             /\ \A j \in nonzero : a <= j
    BY <2>1
  <2>3. a = 1
    BY <2>1, <2>2
  <2>4. Stripped(c) = SubSeq(c, 1, Len(c))
    BY <2>1, <2>2, <2>3 DEF Stripped
  <2>5. QED
    BY <2>4
<1>4. QED
  BY <1>2, <1>3

(* Different digits in a field of one width are different numbers.         *)
LEMMA StrippedOnce ==
    ASSUME NEW s \in Seq(Digit), NEW t \in Seq(Digit), Len(s) = Len(t), Len(s) > 0,
           Stripped(s) = Stripped(t)
    PROVE  s = t
BY StrippedIs

(* The digits of a decimal at a scale: at most one text, no longer than    *)
(* the precision, without leading zeros.                                   *)
LEMMA AtScaleIs ==
    ASSUME NEW d \in Nat \ {0}, NEW e \in Nat, NEW v, IsDecimal(v), NEW text \in AtScale(v, d, e)
    PROVE  /\ AtScale(v, d, e) = {text}
           /\ text \in Seq(Digit) /\ Len(text) \in 1..d
           /\ text[1] # 0 \/ text = <<0>>
<1>1. PICK c \in Seq(Digit) : c = v.coefficient /\ Len(c) > 0
  BY DEF IsDecimal
<1>2. PICK x \in Int : x = v.exponent + e
  BY DEF IsDecimal
<1>3. PICK n \in Nat \ {0} : n = Len(c)
  BY <1>1
<1>4. CASE IsZero(v)
  <2>1. AtScale(v, d, e) = {<<0>>}
    BY <1>4 DEF AtScale
  <2>2. <<0>> \in Seq(Digit) /\ Len(<<0>>) = 1
    BY DEF Digit
  <2>3. text = <<0>>
    BY <2>1
  <2>4. Len(text) \in 1..d /\ text \in Seq(Digit)
    BY <2>2, <2>3
  <2>5. QED
    BY <2>1, <2>3, <2>4
<1>5. CASE ~IsZero(v)
  <2>1. c[1] # 0
    <3>1. c # <<0>>
      BY <1>1, <1>5 DEF IsZero
    <3>2. QED
      BY <1>1, <3>1 DEF IsDecimal
  <2>2. n + x \in 1..d
    BY <1>1, <1>2, <1>3, <1>5 DEF AtScale
  <2>3. CASE x < 0
    <3>1. AtScale(v, d, e) = {SubSeq(c, 1, n + x)}
      BY <1>1, <1>2, <1>3, <1>5, <2>3 DEF AtScale
    <3>2. n + x \in 1..n
      BY <2>2, <2>3
    <3>3. /\ SubSeq(c, 1, n + x) \in Seq(Digit) /\ Len(SubSeq(c, 1, n + x)) = n + x
          /\ SubSeq(c, 1, n + x)[1] = c[1]
      BY <1>3, <3>2
    <3>4. QED
      BY <2>1, <2>2, <3>1, <3>3
  <2>4. CASE ~(x < 0)
    <3>1. AtScale(v, d, e) = {c \o Zeros(x)}
      BY <1>1, <1>2, <1>3, <1>5, <2>4 DEF AtScale
    <3>2. x \in Nat
      BY <2>4
    <3>3. Zeros(x) \in Seq(Digit) /\ Len(Zeros(x)) = x
      BY <3>2, ZerosAre
    <3>4. /\ c \o Zeros(x) \in Seq(Digit) /\ Len(c \o Zeros(x)) = n + x
          /\ (c \o Zeros(x))[1] = c[1]
      <4>1. /\ c \o Zeros(x) \in Seq(Digit) /\ Len(c \o Zeros(x)) = Len(c) + Len(Zeros(x))
            /\ \A i \in 1..Len(c) : (c \o Zeros(x))[i] = c[i]
        BY <3>3, Concatenation
      <4>2. 1 \in 1..Len(c)
        BY <1>3
      <4>3. QED
        BY <1>3, <3>3, <4>1, <4>2
    <3>5. QED
      BY <2>1, <2>2, <3>1, <3>4
  <2>5. QED
    BY <2>3, <2>4
<1>6. QED
  BY <1>4, <1>5

(* The nibbles of bytes.                                                   *)
LEMMA BytesRead ==
    ASSUME NEW p \in Seq(Byte), NEW m \in Nat, m = Len(p)
    PROVE  /\ AsNibbles(p) \in Seq(Nibble) /\ Len(AsNibbles(p)) = 2 * m
           /\ \A i \in 1..m : p[i] = <<AsNibbles(p)[2 * i - 1], AsNibbles(p)[2 * i]>>
<1>1. PICK n \in Nat : n = 2 * m
  OBVIOUS
<1> DEFINE nibble(i) == p[(i + 1) \div 2][2 - (i % 2)]
<1>2. ASSUME NEW i \in 1..m
      PROVE  p[i] \in Byte
  OBVIOUS
<1>3. ASSUME NEW i \in 1..n
      PROVE  nibble(i) \in Nibble
  <2>1. (i + 1) \div 2 \in 1..m /\ (i % 2 = 0 \/ i % 2 = 1)
    BY <1>1
  <2>2. PICK x \in Nibble, y \in Nibble : p[(i + 1) \div 2] = <<x, y>>
    BY <1>2, <2>1 DEF Byte
  <2>3. QED
    BY <2>1, <2>2
<1>4. AsNibbles(p) = [i \in 1..n |-> nibble(i)]
  BY <1>1 DEF AsNibbles
<1>5. AsNibbles(p) \in [1..n -> Nibble]
  BY <1>3, <1>4
<1>6. AsNibbles(p) \in Seq(Nibble) /\ Len(AsNibbles(p)) = n
  BY <1>5
<1>7. ASSUME NEW i \in 1..m
      PROVE  p[i] = <<AsNibbles(p)[2 * i - 1], AsNibbles(p)[2 * i]>>
  <2>1. 2 * i - 1 \in 1..n /\ 2 * i \in 1..n
    BY <1>1
  <2>2. (2 * i - 1 + 1) \div 2 = i /\ (2 * i - 1) % 2 = 1
    OBVIOUS
  <2>3. (2 * i + 1) \div 2 = i /\ (2 * i) % 2 = 0
    OBVIOUS
  <2>4. AsNibbles(p)[2 * i - 1] = p[i][1]
    BY <1>4, <2>1, <2>2
  <2>5. AsNibbles(p)[2 * i] = p[i][2]
    BY <1>4, <2>1, <2>3
  <2>6. PICK x \in Nibble, y \in Nibble : p[i] = <<x, y>>
    BY <1>2 DEF Byte
  <2>7. QED
    BY <2>4, <2>5, <2>6
<1>8. QED
  BY <1>1, <1>6, <1>7

(* Bytes are their nibbles and nibbles their bytes.                        *)
LEMMA BytesWritten ==
    ASSUME NEW b \in Seq(Nibble), NEW m \in Nat, Len(b) = 2 * m
    PROVE  /\ AsBytes(b) \in Seq(Byte) /\ Len(AsBytes(b)) = m
           /\ AsNibbles(AsBytes(b)) = b
<1>1. PICK n \in Nat : n = 2 * m /\ n \div 2 = m /\ Len(b) = n
  OBVIOUS
<1>2. AsBytes(b) = [i \in 1..m |-> <<b[2 * i - 1], b[2 * i]>>]
  BY <1>1 DEF AsBytes
<1>3. ASSUME NEW i \in 1..m
      PROVE  <<b[2 * i - 1], b[2 * i]>> \in Byte
  <2>1. 2 * i - 1 \in 1..n /\ 2 * i \in 1..n
    BY <1>1
  <2>2. b[2 * i - 1] \in Nibble /\ b[2 * i] \in Nibble
    BY <1>1, <2>1
  <2>3. QED
    BY <2>2 DEF Byte
<1>4. AsBytes(b) \in [1..m -> Byte]
  BY <1>2, <1>3
<1>5. AsBytes(b) \in Seq(Byte) /\ Len(AsBytes(b)) = m
  BY <1>4
<1>6. PICK c \in Seq(Nibble) : /\ c = AsNibbles(AsBytes(b)) /\ Len(c) = n
                               /\ \A i \in 1..m : AsBytes(b)[i] = <<c[2 * i - 1], c[2 * i]>>
  BY <1>1, <1>5, BytesRead
<1>7. \A i \in 1..m : c[2 * i - 1] = b[2 * i - 1] /\ c[2 * i] = b[2 * i]
  <2>1. \A i \in 1..m : <<c[2 * i - 1], c[2 * i]>> = <<b[2 * i - 1], b[2 * i]>>
    BY <1>2, <1>6
  <2>2. QED
    BY <2>1
<1>8. ASSUME NEW i \in 1..n
      PROVE  c[i] = b[i]
  <2>1. CASE i % 2 = 0
    <3>1. PICK k \in 1..m : i = 2 * k
      <4>1. i \div 2 \in 1..m /\ i = 2 * (i \div 2)
        BY <1>1, <2>1
      <4>2. QED
        BY <4>1
    <3>2. QED
      BY <1>7, <3>1
  <2>2. CASE i % 2 # 0
    <3>1. PICK k \in 1..m : i = 2 * k - 1
      <4>1. (i + 1) \div 2 \in 1..m /\ i = 2 * ((i + 1) \div 2) - 1
        BY <1>1, <2>2
      <4>2. QED
        BY <4>1
    <3>2. QED
      BY <1>7, <3>1
  <2>3. QED
    BY <2>1, <2>2
<1>9. c = b
  BY <1>1, <1>6, <1>8, SameSequence
<1>10. QED
  BY <1>5, <1>6, <1>9

-----------------------------------------------------------------------------
(* A field that record_length accepts and build_record can fill.           *)
UsableField(f) ==
    /\ f \in FieldLayout
    /\ Dimensions(f) \in PictureLayout(f.picture)
    /\ f.kind = "packed" => f.picture.signed

(* Its width is positive, and a packed one fits its precision.             *)
LEMMA FieldShape ==
    ASSUME NEW f, UsableField(f)
    PROVE  /\ f.kind \in {"text", "zoned", "packed"} /\ f.length \in Nat \ {0}
           /\ f.kind = "packed" =>
                /\ f.digits \in Nat \ {0} /\ f.scale \in Nat
                /\ ValidPrecision(f.digits, f.scale)
                /\ f.length = ByteLength(f.digits)
<1>1. PICK p \in Picture : p = f.picture
  BY DEF UsableField, FieldLayout
<1>2. PICK d \in PictureLayout(p) : d = Dimensions(f)
  BY <1>1 DEF UsableField
<1>3. /\ d.kind \in {"text", "zoned", "packed"}
      /\ d.length \in Nat \ {0} /\ d.digits \in Nat /\ d.scale \in Nat
  BY ClauseDimensions
<1>4. d.kind = f.kind /\ d.length = f.length /\ d.digits = f.digits /\ d.scale = f.scale
  BY <1>2 DEF Dimensions
<1>5. ASSUME f.kind = "packed"
      PROVE  /\ f.digits \in Nat \ {0} /\ ValidPrecision(f.digits, f.scale)
             /\ f.length = ByteLength(f.digits)
  <2>1. PICK scale0 : scale0 = IF p.decimals = None THEN 0 ELSE p.decimals
    OBVIOUS
  <2>2. /\ p.kind \in {"text", "zoned", "packed"} /\ p.whole \in Nat
        /\ p.decimals \in Nat \union {None}
    BY DEF Picture
  <2>3. p.whole > 0
    BY <2>2 DEF PictureLayout
  <2>4. p.kind = "packed"
    <3>1. CASE p.kind = "text"
      <4>1. d.kind = "text"
        BY <3>1 DEF PictureLayout
      <4>2. QED
        BY <1>4, <1>5, <4>1
    <3>2. CASE p.kind = "zoned"
      <4>1. d.kind = "zoned"
        BY <3>2 DEF PictureLayout
      <4>2. QED
        BY <1>4, <1>5, <4>1
    <3>3. QED
      BY <2>2, <3>1, <3>2
  <2>5. d = [kind |-> "packed", length |-> ByteLength(p.whole + scale0),
             digits |-> p.whole + scale0, scale |-> scale0]
    BY <2>1, <2>4 DEF PictureLayout
  <2>6. scale0 \in Nat
    BY <2>1, <2>2
  <2>7. f.digits = p.whole + scale0 /\ f.scale = scale0 /\ f.length = ByteLength(p.whole + scale0)
    BY <1>4, <2>5
  <2>8. QED
    BY <2>2, <2>3, <2>6, <2>7 DEF ValidPrecision
<1>6. QED
  BY <1>3, <1>4, <1>5

(* A nonempty set of the numbers up to n has a greatest one.               *)
LEMMA Greatest ==
    ASSUME NEW n \in Nat, NEW S \in SUBSET (1..n), S # {}
    PROVE  \E m \in S : \A i \in S : i <= m
<1> DEFINE T == {n - i : i \in S}
<1>1. T \in SUBSET Nat /\ T # {}
  <2>1. ASSUME NEW i \in S PROVE n - i \in Nat
    <3>1. i \in 1..n
      OBVIOUS
    <3>2. QED
      BY <3>1
  <2>2. QED
    BY <2>1
<1>2. PICK x \in T : \A y \in T : x <= y
  BY <1>1, Least
<1>3. PICK m \in S : x = n - m
  OBVIOUS
<1>4. ASSUME NEW i \in S PROVE i <= m
  <2>1. n - m <= n - i
    BY <1>2, <1>3
  <2>2. i \in 1..n /\ m \in 1..n
    OBVIOUS
  <2>3. QED
    BY <2>1, <2>2
<1>5. QED
  BY <1>4

(* Blanks after a text are stripped again.                                 *)
LEMMA StripOfBlanks ==
    ASSUME NEW text \in Seq(Byte), NEW n \in Nat, Strip(text) # <<>>
    PROVE  /\ text \o Blanks(n) \in Seq(Byte) /\ Len(text \o Blanks(n)) = Len(text) + n
           /\ Strip(text \o Blanks(n)) = Strip(text)
<1>1. PICK k \in Nat : k = Len(text)
  OBVIOUS
<1>2. Blanks(n) \in Seq(Byte) /\ Len(Blanks(n)) = n /\ \A i \in 1..n : Blanks(n)[i] = Space
  <2>1. Space \in Byte
    BY DEF Space, Byte, Nibble
  <2>2. Blanks(n) = [i \in 1..n |-> Space]
    BY DEF Blanks
  <2>3. Blanks(n) \in [1..n -> Byte]
    BY <2>1, <2>2
  <2>4. QED
    BY <2>2, <2>3
<1>3. PICK blanks \in Seq(Byte) : blanks = Blanks(n) /\ Len(blanks) = n /\ \A i \in 1..n : blanks[i] = Space
  BY <1>2
<1>4. PICK t \in Seq(Byte) : t = text \o blanks /\ Len(t) = k + n
  <2>1. text \o blanks \in Seq(Byte) /\ Len(text \o blanks) = Len(text) + Len(blanks)
    OBVIOUS
  <2>2. QED
    BY <1>1, <1>3, <2>1
<1>5. /\ \A i \in 1..k : t[i] = text[i]
      /\ \A i \in 1..n : t[k + i] = Space
  BY <1>1, <1>3, <1>4
<1> DEFINE Inked(s) == {i \in DOMAIN s : s[i] \notin Blank}
<1>6. Inked(t) = Inked(text)
  <2>1. DOMAIN t = 1..(k + n) /\ DOMAIN text = 1..k
    BY <1>1, <1>4
  <2>2. ASSUME NEW i \in Inked(t) PROVE i \in Inked(text)
    <3>1. i \in 1..(k + n) /\ t[i] \notin Blank
      BY <2>1
    <3>2. i <= k
      <4>1. CASE i > k
        <5>1. i - k \in 1..n /\ k + (i - k) = i
          BY <3>1, <4>1
        <5>2. t[i] = Space
          BY <1>5, <5>1
        <5>3. QED
          BY <3>1, <5>2, FileAssumption
      <4>2. QED
        BY <3>1, <4>1
    <3>3. QED
      BY <1>5, <2>1, <3>1, <3>2
  <2>3. ASSUME NEW i \in Inked(text) PROVE i \in Inked(t)
    BY <1>5, <2>1
  <2>4. QED
    BY <2>2, <2>3
<1>7. PICK inked : inked = Inked(text)
  OBVIOUS
<1> HIDE DEF Inked
<1>8. inked \in SUBSET (1..k) /\ inked # {}
  <2>1. inked \in SUBSET (1..k)
    BY <1>1, <1>7 DEF Inked
  <2>2. ASSUME inked = {} PROVE FALSE
    <3>1. {i \in DOMAIN text : text[i] \notin Blank} = {}
      BY <1>7, <2>2 DEF Inked
    <3>2. QED
      BY <3>1 DEF Strip
  <2>3. QED
    BY <2>1, <2>2
<1>9. PICK first \in inked : first = CHOOSE i \in inked : \A j \in inked : i <= j
  <2>1. inked \in SUBSET Nat
    BY <1>8
  <2>2. QED
    BY <1>8, <2>1, Least
<1>10. PICK last \in inked : last = CHOOSE i \in inked : \A j \in inked : j <= i
  BY <1>8, Greatest
<1>11. Strip(text) = SubSeq(text, first, last)
  BY <1>7, <1>8, <1>9, <1>10 DEF Strip, Inked
<1>12. Strip(t) = SubSeq(t, first, last)
  BY <1>6, <1>7, <1>8, <1>9, <1>10 DEF Strip, Inked
<1>13. SubSeq(t, first, last) = SubSeq(text, first, last)
  <2>1. PICK x \in 1..k, y \in 1..k : x = first /\ y = last
    BY <1>8
  <2>2. \A i \in x..y : t[i] = text[i]
    BY <1>5
  <2>3. QED
    BY <1>1, <1>4, <2>1, <2>2
<1>14. QED
  BY <1>1, <1>3, <1>4, <1>11, <1>12, <1>13

(* A sequence of elements of a set.                                        *)
LEMMA ElementsIn ==
    ASSUME NEW S, NEW T, NEW s \in Seq(S), \A i \in DOMAIN s : s[i] \in T
    PROVE  s \in Seq(T)
<1>1. PICK n \in Nat : n = Len(s) /\ DOMAIN s = 1..n
  OBVIOUS
<1>2. s = [i \in 1..n |-> s[i]]
  BY <1>1
<1>3. [i \in 1..n |-> s[i]] \in [1..n -> T]
  BY <1>1
<1>4. [i \in 1..n |-> s[i]] \in Seq(T)
  BY <1>1, <1>3
<1>5. QED
  BY <1>2, <1>4

(* The bytes p of a field hold a value: they fill the field and decode to  *)
(* what the value means.                                                   *)
HoldsValue(f, p, v) ==
    /\ p \in Seq(Byte) /\ Len(p) = f.length
    /\ Decode(f, p) = {Meant(f, v)}

(* A text's part decodes to the text without its blanks.                   *)
LEMMA TextPart ==
    ASSUME NEW f, UsableField(f), f.kind = "text", NEW v \in Seq(Nat \X Nat),
           NEW p \in Text(v, f.length)
    PROVE  HoldsValue(f, p, v)
<1>1. PICK n \in Nat \ {0} : n = f.length
  BY FieldShape
<1>2. /\ Strip(v) # <<>> /\ Len(v) <= n
      /\ \A i \in DOMAIN v : v[i] \in Byte
      /\ p = v \o Blanks(n - Len(v))
  BY <1>1 DEF Text
<1>3. v \in Seq(Byte)
  BY <1>2, ElementsIn
<1>4. n - Len(v) \in Nat /\ Len(v) + (n - Len(v)) = n
  BY <1>2
<1>5. p \in Seq(Byte) /\ Len(p) = n /\ Strip(p) = Strip(v)
  BY <1>2, <1>3, <1>4, StripOfBlanks
<1>6. Decode(f, p) = {Strip(p)} /\ Meant(f, v) = Strip(v)
  BY DEF Decode, Meant
<1>7. QED
  BY <1>1, <1>5, <1>6 DEF HoldsValue

(* The bytes of a zoned field are its digits.                              *)
IsZoned(p, text) ==
    /\ p \in Seq(Byte) /\ Len(p) = Len(text)
    /\ \A i \in 1..Len(text) : p[i] = Zone(text[i])

(* Zoned bytes decode to their digits, and nothing else decodes.           *)
LEMMA ZonedIs ==
    ASSUME NEW f, f.kind = "zoned", NEW p \in Seq(Byte)
    PROVE  /\ \A v \in Decode(f, p) : \E text \in Seq(Digit) : IsZoned(p, text) /\ v = Stripped(text)
           /\ \A text \in Seq(Digit) : IsZoned(p, text) => Decode(f, p) = {Stripped(text)}
<1>1. PICK n \in Nat : n = Len(p) /\ DOMAIN p = 1..n
  OBVIOUS
<1> DEFINE low == [i \in 1..n |-> p[i][2]]
<1>2. Decode(f, p) = IF \A i \in 1..n : p[i] \in {Zone(d) : d \in Digit} THEN {Stripped(low)} ELSE {}
  BY <1>1 DEF Decode
<1>3. ASSUME NEW v \in Decode(f, p)
      PROVE  \E text \in Seq(Digit) : IsZoned(p, text) /\ v = Stripped(text)
  <2>1. \A i \in 1..n : p[i] \in {Zone(d) : d \in Digit}
    BY <1>2
  <2>2. v = Stripped(low)
    BY <1>2
  <2>3. ASSUME NEW i \in 1..n PROVE p[i][2] \in Digit /\ p[i] = Zone(p[i][2])
    <3>1. PICK d \in Digit : p[i] = Zone(d)
      BY <2>1
    <3>2. QED
      BY <3>1 DEF Zone
  <2>4. low \in [1..n -> Digit]
    BY <2>3
  <2>5. low \in Seq(Digit) /\ Len(low) = n
    BY <2>4
  <2>6. \A i \in 1..n : p[i] = Zone(low[i])
    BY <2>3
  <2>7. IsZoned(p, low)
    BY <1>1, <2>5, <2>6 DEF IsZoned
  <2>8. QED
    BY <2>2, <2>5, <2>7
<1>4. ASSUME NEW text \in Seq(Digit), IsZoned(p, text)
      PROVE  Decode(f, p) = {Stripped(text)}
  <2>1. Len(text) = n /\ \A i \in 1..n : text[i] \in Digit /\ p[i] = Zone(text[i])
    BY <1>1, <1>4 DEF IsZoned
  <2>2. \A i \in 1..n : p[i] \in {Zone(d) : d \in Digit}
    BY <2>1
  <2>3. \A i \in 1..n : p[i][2] = text[i]
    BY <2>1 DEF Zone
  <2>4. low = text
    BY <2>1, <2>3
  <2>5. QED
    BY <1>2, <2>2, <2>4
<1>5. QED
  BY <1>3, <1>4

(* A zoned field's part decodes to its digits.                             *)
LEMMA ZonedPart ==
    ASSUME NEW f, UsableField(f), f.kind = "zoned", NEW v \in Seq(Nat), NEW p \in Zoned(v, f.length)
    PROVE  /\ HoldsValue(f, p, v)
           /\ \E text \in Seq(Digit) : IsZoned(p, text) /\ Meant(f, v) = Stripped(text)
<1>1. PICK n \in Nat \ {0} : n = f.length
  BY FieldShape
<1>2. /\ Len(v) \in 1..n /\ \A i \in DOMAIN v : v[i] \in Digit
      /\ p = [i \in DOMAIN ZFill(v, n) |-> Zone(ZFill(v, n)[i])]
  BY <1>1 DEF Zoned
<1>3. v \in Seq(Digit)
  BY <1>2, ElementsIn
<1>4. PICK text \in Seq(Digit) : text = ZFill(v, n) /\ Len(text) = n
  BY <1>2, <1>3, ZFillIs
<1>5. Stripped(text) = Stripped(v)
  BY <1>2, <1>3, <1>4, ZFillStripped
<1>6. IsZoned(p, text)
  <2>1. p = [i \in 1..n |-> Zone(text[i])]
    BY <1>2, <1>4
  <2>2. ASSUME NEW i \in 1..n PROVE Zone(text[i]) \in Byte
    <3>1. text[i] \in Digit
      BY <1>4
    <3>2. QED
      BY <3>1 DEF Zone, Byte, Digit, Nibble
  <2>3. p \in [1..n -> Byte]
    BY <2>1, <2>2
  <2>4. p \in Seq(Byte) /\ Len(p) = n
    BY <2>3
  <2>5. QED
    BY <1>4, <2>1, <2>4 DEF IsZoned
<1>7. p \in Seq(Byte) /\ Len(p) = n
  BY <1>4, <1>6 DEF IsZoned
<1>8. Meant(f, v) = Stripped(v)
  BY DEF Meant
<1>9. Decode(f, p) = {Stripped(text)}
  BY <1>6, <1>7, ZonedIs
<1>10. QED
  BY <1>1, <1>5, <1>6, <1>7, <1>8, <1>9 DEF HoldsValue

(* The bytes of a packed field are its digits and a sign.                  *)
LEMMA PackedIs ==
    ASSUME NEW f, UsableField(f), f.kind = "packed", NEW p \in Seq(Byte)
    PROVE  /\ \A v \in Decode(f, p) :
                \E text \in Seq(Digit), x \in {Positive, Negative, Unsigned} :
                  /\ Len(text) = f.digits /\ IsPacked(AsNibbles(p), text, x)
                  /\ v = UnpackedAt(text, x, -f.scale)
           /\ \A text \in Seq(Digit), x \in {Positive, Negative, Unsigned} :
                Len(text) = f.digits /\ IsPacked(AsNibbles(p), text, x)
                  => Decode(f, p) = {UnpackedAt(text, x, -f.scale)}
<1>1. f.digits \in Nat \ {0} /\ f.scale \in Nat /\ ValidPrecision(f.digits, f.scale)
  BY FieldShape
<1>2. f.picture.signed
  BY DEF UsableField
<1>3. Decode(f, p) = Unpack(AsNibbles(p), f.digits, f.scale)
  BY <1>2 DEF Decode
<1>4. AsNibbles(p) \in Seq(Nibble)
  <2>1. Len(p) \in Nat
    OBVIOUS
  <2>2. QED
    BY <2>1, BytesRead
<1>5. QED
  BY <1>1, <1>3, <1>4, UnpackOf

(* A packed field's part decodes to the decimal at the field's scale.      *)
LEMMA PackedPart ==
    ASSUME NEW f, UsableField(f), f.kind = "packed", NEW v, IsDecimal(v),
           NEW b \in Pack(v, f.digits, f.scale), NEW p, p = AsBytes(b)
    PROVE  /\ HoldsValue(f, p, v)
           /\ \E text \in Seq(Digit), x \in {Positive, Negative} :
                /\ Len(text) = f.digits /\ IsPacked(AsNibbles(p), text, x)
                /\ Meant(f, v) = UnpackedAt(text, x, -f.scale)
<1>1. /\ f.digits \in Nat \ {0} /\ f.scale \in Nat /\ ValidPrecision(f.digits, f.scale)
      /\ f.length = ByteLength(f.digits)
  BY FieldShape
<1>2. PICK n \in Nat \ {0}, e \in Nat : n = f.digits /\ e = f.scale
  BY <1>1
<1>3. PICK c \in AtScale(v, n, e) : b = Nibbles(v.sign, ZFill(c, n))
  BY <1>2 DEF Pack
<1>4. /\ AtScale(v, n, e) = {c} /\ c \in Seq(Digit) /\ Len(c) \in 1..n
      /\ c[1] # 0 \/ c = <<0>>
  BY AtScaleIs
<1>5. PICK text \in Seq(Digit) : text = ZFill(c, n) /\ Len(text) = n
  BY <1>4, ZFillIs
<1>6. Stripped(text) = c
  <2>1. Stripped(text) = Stripped(c)
    BY <1>4, <1>5, ZFillStripped
  <2>2. Stripped(c) = c
    BY <1>4, StrippedTwice
  <2>3. QED
    BY <2>1, <2>2
<1>7. v.sign \in 0..1
  BY DEF IsDecimal
<1>8. PICK x \in {Positive, Negative} : x = SignNibble(v.sign)
  BY DEF SignNibble
<1>9. IsPacked(b, text, x)
  BY <1>3, <1>5, <1>7, <1>8, NibblesPacked
<1>10. PICK m \in Nat : m = ByteLength(n) /\ b \in Seq(Nibble) /\ Len(b) = 2 * m
  BY <1>5, <1>9, PackedLength DEF IsPacked
<1>11. p \in Seq(Byte) /\ Len(p) = m /\ AsNibbles(p) = b
  BY <1>10, BytesWritten
<1>12. Meant(f, v) = UnpackedAt(text, x, -e)
  <2>1. (CHOOSE t \in AtScale(v, n, e) : TRUE) = c
    BY <1>4
  <2>2. Meant(f, v) = [sign |-> v.sign, exponent |-> -e, coefficient |-> c]
    BY <1>2, <2>1 DEF Meant
  <2>3. (IF x = Negative THEN 1 ELSE 0) = v.sign
    BY <1>7, <1>8 DEF SignNibble, Positive, Negative
  <2>4. UnpackedAt(text, x, -e) = [sign |-> v.sign, coefficient |-> c, exponent |-> -e]
    BY <1>6, <2>3 DEF UnpackedAt
  <2>5. QED
    BY <2>2, <2>4
<1>13. Decode(f, p) = {UnpackedAt(text, x, -e)}
  BY <1>2, <1>5, <1>9, <1>11, PackedIs
<1>14. QED
  BY <1>1, <1>2, <1>5, <1>9, <1>10, <1>11, <1>12, <1>13 DEF HoldsValue

(* What build_record writes for a value is what the field means.           *)
LEMMA PartHolds ==
    ASSUME NEW f, UsableField(f), NEW v, v # None => RowValue(f, v), NEW p \in Part(f, v)
    PROVE  HoldsValue(f, p, v)
<1>1. v # None /\ RowValue(f, v)
  BY DEF Part
<1>2. f.kind \in {"text", "zoned", "packed"}
  BY FieldShape
<1>3. CASE f.kind = "text"
  <2>1. p \in Text(v, f.length) /\ v \in Seq(Nat \X Nat)
    BY <1>1, <1>3 DEF Part, RowValue
  <2>2. QED
    BY <1>3, <2>1, TextPart
<1>4. CASE f.kind = "zoned"
  <2>1. p \in Zoned(v, f.length) /\ v \in Seq(Nat)
    BY <1>1, <1>4 DEF Part, RowValue
  <2>2. QED
    BY <1>4, <2>1, ZonedPart
<1>5. CASE f.kind = "packed"
  <2>1. IsDecimal(v)
    BY <1>1, <1>5 DEF RowValue
  <2>2. Part(f, v) = {AsBytes(b) : b \in Pack(v, f.digits, f.scale)}
    BY <1>1, <1>5 DEF Part
  <2>3. PICK b \in Pack(v, f.digits, f.scale) : p = AsBytes(b)
    BY <2>2
  <2>4. QED
    BY <1>5, <2>1, <2>3, PackedPart
<1>6. QED
  BY <1>2, <1>3, <1>4, <1>5

(* q is p with another byte at k.                                          *)
Differ(p, q, k) ==
    /\ p \in Seq(Byte) /\ q \in Seq(Byte) /\ Len(q) = Len(p)
    /\ k \in 1..Len(p)
    /\ \A i \in 1..Len(p) : q[i] = p[i] <=> i # k

(* A value that is not the one meant, also when it is padded, unless the   *)
(* new byte means the same as the one written.                             *)
ChangeSeen(f, v, w, written, byte) ==
    \/ /\ w # Meant(f, v)
       /\ f.kind = "zoned" => ZFill(w, f.length) # ZFill(Meant(f, v), f.length)
    \/ SameMeaning(f, written, byte)

(* What both of two sequences have between their ends.                     *)
Inked(s) == {i \in DOMAIN s : s[i] \notin Blank}

(* Strip cuts at the first and the last character that is not blank.       *)
LEMMA StripIs ==
    ASSUME NEW n \in Nat, NEW p \in Seq(Byte), Len(p) = n, Strip(p) # <<>>
    PROVE  \E a, b \in Inked(p) :
             /\ a \in 1..n /\ b \in 1..n /\ a <= b
             /\ \A i \in Inked(p) : a <= i /\ i <= b
             /\ Len(Strip(p)) = b - a + 1
             /\ \A j \in 1..(b - a + 1) : Strip(p)[j] = p[a + j - 1]
<1>1. PICK inked : inked = Inked(p)
  OBVIOUS
<1>2. inked \in SUBSET (1..n) /\ inked # {}
  <2>1. inked \in SUBSET (1..n)
    BY <1>1 DEF Inked
  <2>2. inked # {}
    BY <1>1 DEF Inked, Strip
  <2>3. QED
    BY <2>1, <2>2
<1>3. PICK a \in inked : (\A i \in inked : a <= i) /\ a = CHOOSE i \in inked : \A j \in inked : i <= j
  <2>1. inked \in SUBSET Nat
    BY <1>2
  <2>2. QED
    BY <1>2, <2>1, Least
<1>4. PICK b \in inked : (\A i \in inked : i <= b) /\ b = CHOOSE i \in inked : \A j \in inked : j <= i
  BY <1>2, Greatest
<1>5. PICK t : t = Strip(p)
  OBVIOUS
<1>6. t = SubSeq(p, a, b)
  BY <1>1, <1>2, <1>3, <1>4, <1>5 DEF Strip, Inked
<1>7. a \in 1..n /\ b \in 1..n /\ a <= b
  BY <1>2, <1>3, <1>4
<1>8. PICK x \in 1..n, y \in 1..n : x = a /\ y = b /\ x <= y
  BY <1>7
<1>9. Len(t) = y - x + 1 /\ \A j \in 1..(y - x + 1) : t[j] = p[x + j - 1]
  BY <1>6, <1>8
<1>10. Len(Strip(p)) = b - a + 1 /\ \A j \in 1..(b - a + 1) : Strip(p)[j] = p[a + j - 1]
  BY <1>5, <1>8, <1>9
<1>11. a \in Inked(p) /\ b \in Inked(p) /\ \A i \in Inked(p) : a <= i /\ i <= b
  BY <1>1, <1>3, <1>4
<1>12. QED
  BY <1>7, <1>10, <1>11

(* A character that is put in place of another is seen.                    *)
LEMMA StripSees ==
    ASSUME NEW p, NEW q, NEW k, Differ(p, q, k), Strip(p) = Strip(q), Strip(p) # <<>>,
           q[k] \notin Blank
    PROVE  FALSE
<1>1. PICK n \in Nat : /\ n = Len(p) /\ n = Len(q) /\ p \in Seq(Byte) /\ q \in Seq(Byte)
                       /\ k \in 1..n /\ p[k] # q[k]
                       /\ \A i \in 1..n : i # k => q[i] = p[i]
  BY DEF Differ
<1>2. PICK a, b \in Inked(p) :
             /\ a \in 1..n /\ b \in 1..n /\ a <= b
             /\ \A i \in Inked(p) : a <= i /\ i <= b
             /\ Len(Strip(p)) = b - a + 1
             /\ \A j \in 1..(b - a + 1) : Strip(p)[j] = p[a + j - 1]
  BY <1>1, StripIs
<1>3. PICK c, d \in Inked(q) :
             /\ c \in 1..n /\ d \in 1..n /\ c <= d
             /\ \A i \in Inked(q) : c <= i /\ i <= d
             /\ Len(Strip(q)) = d - c + 1
             /\ \A j \in 1..(d - c + 1) : Strip(q)[j] = q[c + j - 1]
  BY <1>1, StripIs
<1>4. k \in Inked(q) /\ a \in Inked(q) /\ b \in Inked(q)
  BY <1>1, <1>2 DEF Inked
<1>5. PICK x \in 1..n, y \in 1..n : x = a /\ y = b /\ x = c /\ y = d /\ x <= k /\ k <= y
  <2>1. c <= a /\ b <= d /\ c <= k /\ k <= d
    BY <1>3, <1>4
  <2>2. b - a + 1 = d - c + 1
    BY <1>2, <1>3
  <2>3. a = c /\ b = d
    BY <1>2, <1>3, <2>1, <2>2
  <2>4. QED
    BY <1>2, <2>1, <2>3
<1>6. PICK j \in 1..(y - x + 1) : x + j - 1 = k
  <2>1. k - x + 1 \in 1..(y - x + 1) /\ x + (k - x + 1) - 1 = k
    BY <1>1, <1>5
  <2>2. QED
    BY <2>1
<1>7. Strip(p)[j] = p[k] /\ Strip(q)[j] = q[k]
  BY <1>2, <1>3, <1>5, <1>6
<1>8. QED
  BY <1>1, <1>7

(* Another byte in a text is another text, unless both bytes are blanks.   *)
LEMMA TextChange ==
    ASSUME NEW f, UsableField(f), f.kind = "text", NEW v \in Seq(Nat \X Nat), NEW p \in Text(v, f.length),
           NEW q, NEW k, Differ(p, q, k), NEW w \in Decode(f, q)
    PROVE  ChangeSeen(f, v, w, p[k], q[k])
<1>1. Decode(f, p) = {Strip(p)} /\ Decode(f, q) = {Strip(q)} /\ Meant(f, v) = Strip(v)
  BY DEF Decode, Meant
<1>2. Strip(p) = Strip(v) /\ Strip(v) # <<>>
  BY <1>1, TextPart DEF HoldsValue, Text
<1>3. Differ(q, p, k)
  BY DEF Differ
<1>4. CASE Strip(q) # Strip(p)
  BY <1>1, <1>2, <1>4 DEF ChangeSeen
<1>5. CASE Strip(q) = Strip(p)
  <2>1. q[k] \in Blank
    BY <1>2, <1>5, StripSees
  <2>2. p[k] \in Blank
    BY <1>2, <1>3, <1>5, StripSees
  <2>3. QED
    BY <2>1, <2>2 DEF ChangeSeen, SameMeaning
<1>6. QED
  BY <1>4, <1>5

(* Another byte in a zoned field is another number.                        *)
LEMMA ZonedChange ==
    ASSUME NEW f, UsableField(f), f.kind = "zoned", NEW v \in Seq(Nat), NEW p \in Zoned(v, f.length),
           NEW q, NEW k, Differ(p, q, k), NEW w \in Decode(f, q)
    PROVE  ChangeSeen(f, v, w, p[k], q[k])
<1>1. PICK n \in Nat \ {0} : n = f.length /\ Len(p) = n /\ Len(q) = n
  BY FieldShape, ZonedPart DEF HoldsValue, Differ
<1>2. PICK s \in Seq(Digit) : IsZoned(p, s) /\ Meant(f, v) = Stripped(s)
  BY ZonedPart
<1>3. q \in Seq(Byte)
  BY DEF Differ
<1>4. PICK t \in Seq(Digit) : IsZoned(q, t) /\ w = Stripped(t)
  BY <1>3, ZonedIs
<1>5. Len(s) = n /\ Len(t) = n
  BY <1>1, <1>2, <1>4 DEF IsZoned
<1>6. s # t
  <2>1. k \in 1..n /\ p[k] # q[k]
    BY <1>1 DEF Differ
  <2>2. p[k] = Zone(s[k]) /\ q[k] = Zone(t[k])
    BY <1>2, <1>4, <1>5, <2>1 DEF IsZoned
  <2>3. QED
    BY <2>1, <2>2
<1>7. ZFill(Stripped(s), n) = s /\ ZFill(Stripped(t), n) = t
  BY <1>5, StrippedIs
<1>8. QED
  BY <1>1, <1>2, <1>4, <1>6, <1>7 DEF ChangeSeen

(* Another byte in a packed field is refused or another number, but for    *)
(* the two spellings of a positive sign.                                   *)
LEMMA PackedChange ==
    ASSUME NEW f, UsableField(f), f.kind = "packed", NEW v, IsDecimal(v),
           NEW b \in Pack(v, f.digits, f.scale), NEW p, p = AsBytes(b),
           NEW q, NEW k, Differ(p, q, k), NEW w \in Decode(f, q)
    PROVE  ChangeSeen(f, v, w, p[k], q[k])
<1>1. PICK m \in Nat \ {0} : m = f.length /\ Len(p) = m /\ Len(q) = m
  BY FieldShape, PackedPart DEF HoldsValue, Differ
<1>2. PICK n \in Nat \ {0}, e \in Nat : n = f.digits /\ e = f.scale
  BY FieldShape
<1>3. PICK s \in Seq(Digit), x \in {Positive, Negative} :
        /\ Len(s) = n /\ IsPacked(AsNibbles(p), s, x) /\ Meant(f, v) = UnpackedAt(s, x, -e)
  BY <1>2, PackedPart
<1>4. p \in Seq(Byte) /\ q \in Seq(Byte)
  BY DEF Differ
<1>5. PICK t \in Seq(Digit), y \in {Positive, Negative, Unsigned} :
        /\ Len(t) = n /\ IsPacked(AsNibbles(q), t, y) /\ w = UnpackedAt(t, y, -e)
  BY <1>2, <1>4, PackedIs
<1>6. CASE w # Meant(f, v)
  BY <1>6 DEF ChangeSeen
<1>7. CASE w = Meant(f, v)
  <2>1. Stripped(s) = Stripped(t) /\ (x = Negative <=> y = Negative)
    BY <1>3, <1>5, <1>7 DEF UnpackedAt
  <2>2. s = t
    BY <1>3, <1>5, <2>1, StrippedOnce
  <2>3. k \in 1..m /\ p[k] # q[k] /\ \A i \in 1..m : i # k => q[i] = p[i]
    BY <1>1 DEF Differ
  <2>4. PICK c \in Seq(Nibble) : /\ c = AsNibbles(p) /\ Len(c) = 2 * m
                                 /\ \A i \in 1..m : p[i] = <<c[2 * i - 1], c[2 * i]>>
    BY <1>1, <1>4, BytesRead
  <2>5. PICK d \in Seq(Nibble) : /\ d = AsNibbles(q) /\ Len(d) = 2 * m
                                 /\ \A i \in 1..m : q[i] = <<d[2 * i - 1], d[2 * i]>>
    BY <1>1, <1>4, BytesRead
  <2>6. c # d
    BY <2>3, <2>4, <2>5
  <2>7. x # y
    BY <1>3, <1>5, <2>2, <2>4, <2>5, <2>6, PackedOnce
  <2>8. y = Unsigned
    BY <2>1, <2>7
  <2>9. c[2 * m] = x /\ d[2 * m] = y
    BY <1>3, <1>5, <2>4, <2>5 DEF IsPacked
  <2>10. m \in 1..m
    OBVIOUS
  <2>11. p[m] # q[m]
    <3>1. <<c[2 * m - 1], c[2 * m]>> # <<d[2 * m - 1], d[2 * m]>>
      BY <2>7, <2>9
    <3>2. QED
      BY <2>4, <2>5, <2>10, <3>1
  <2>12. k = m
    BY <2>3, <2>10, <2>11
  <2>13. c[2 * m - 1] = d[2 * m - 1]
    <3>1. 2 * m = 2 * ByteLength(n) /\ n \in 1..n
      BY <1>1, <1>2, FieldShape
    <3>2. PICK l \in Nat : l = 2 * m /\ l - n - 1 + n = l - 1 /\ Len(c) = l /\ Len(d) = l
      BY <2>4, <2>5
    <3>3. c[l - n - 1 + n] = s[n]
      BY <1>3, <2>4, <3>1, <3>2 DEF IsPacked
    <3>4. d[l - n - 1 + n] = t[n]
      BY <1>5, <2>5, <3>1, <3>2 DEF IsPacked
    <3>5. QED
      BY <2>2, <3>2, <3>3, <3>4
  <2>14. p[k] = << c[2 * m - 1], x >> /\ q[k] = << d[2 * m - 1], y >>
    BY <2>4, <2>5, <2>9, <2>10, <2>12
  <2>15. x = Positive
    BY <2>1, <2>8 DEF Negative, Unsigned
  <2>16. p[k][2] = Positive /\ q[k] = << p[k][1], Unsigned >>
    BY <2>8, <2>13, <2>14, <2>15
  <2>17. QED
    BY <2>16 DEF ChangeSeen, SameMeaning
<1>8. QED
  BY <1>6, <1>7

(* So it is for a field of any kind.                                       *)
LEMMA PartChange ==
    ASSUME NEW f, UsableField(f), NEW v, v # None => RowValue(f, v), NEW p \in Part(f, v),
           NEW q, NEW k, Differ(p, q, k), NEW w \in Decode(f, q)
    PROVE  ChangeSeen(f, v, w, p[k], q[k])
<1>1. v # None /\ RowValue(f, v)
  BY DEF Part
<1>2. f.kind \in {"text", "zoned", "packed"}
  BY FieldShape
<1>3. CASE f.kind = "text"
  <2>1. p \in Text(v, f.length) /\ v \in Seq(Nat \X Nat)
    BY <1>1, <1>3 DEF Part, RowValue
  <2>2. QED
    BY <1>3, <2>1, TextChange
<1>4. CASE f.kind = "zoned"
  <2>1. p \in Zoned(v, f.length) /\ v \in Seq(Nat)
    BY <1>1, <1>4 DEF Part, RowValue
  <2>2. QED
    BY <1>4, <2>1, ZonedChange
<1>5. CASE f.kind = "packed"
  <2>1. IsDecimal(v)
    BY <1>1, <1>5 DEF RowValue
  <2>2. Part(f, v) = {AsBytes(b) : b \in Pack(v, f.digits, f.scale)}
    BY <1>1, <1>5 DEF Part
  <2>3. PICK b \in Pack(v, f.digits, f.scale) : p = AsBytes(b)
    BY <2>2
  <2>4. QED
    BY <1>5, <2>1, <2>3, PackedChange
<1>6. QED
  BY <1>2, <1>3, <1>4, <1>5

-----------------------------------------------------------------------------
(* Parts one after the other.                                              *)

(* g joins the first k of n parts.                                         *)
JoinedUpTo(parts, k, g) ==
    /\ g \in [1..k -> Seq(Byte)]
    /\ \A i \in 1..k : g[i] = IF i = 1 THEN parts[i] ELSE g[i - 1] \o parts[i]

(* Parts can be joined, by induction on how many.                          *)
LEMMA SomeJoined ==
    ASSUME NEW n \in Nat \ {0}, NEW parts \in [1..n -> Seq(Byte)]
    PROVE  \E g : JoinedUpTo(parts, n, g)
<1> DEFINE S == {k \in Nat : k <= n => \E g : JoinedUpTo(parts, k, g)}
<1>1. 0 \in S
  <2>1. JoinedUpTo(parts, 0, [i \in 1..0 |-> <<>>])
    BY DEF JoinedUpTo
  <2>2. QED
    BY <2>1
<1>2. ASSUME NEW k \in Nat, k \in S PROVE k + 1 \in S
  <2>1. ASSUME k + 1 <= n PROVE \E g : JoinedUpTo(parts, k + 1, g)
    <3>1. PICK f : JoinedUpTo(parts, k, f)
      BY <1>2, <2>1
    <3>2. PICK last : last = IF k + 1 = 1 THEN parts[k + 1] ELSE f[k] \o parts[k + 1]
      OBVIOUS
    <3>3. last \in Seq(Byte)
      <4>1. parts[k + 1] \in Seq(Byte)
        BY <2>1
      <4>2. CASE k = 0
        BY <3>2, <4>1, <4>2
      <4>3. CASE k # 0
        <5>1. f[k] \in Seq(Byte)
          BY <3>1, <4>3 DEF JoinedUpTo
        <5>2. f[k] \o parts[k + 1] \in Seq(Byte)
          BY <4>1, <5>1
        <5>3. QED
          BY <3>2, <4>3, <5>2
      <4>4. QED
        BY <4>2, <4>3
    <3> DEFINE g == [i \in 1..(k + 1) |-> IF i = k + 1 THEN last ELSE f[i]]
    <3>4. g \in [1..(k + 1) -> Seq(Byte)]
      BY <3>1, <3>3 DEF JoinedUpTo
    <3>5. ASSUME NEW i \in 1..(k + 1)
          PROVE  g[i] = IF i = 1 THEN parts[i] ELSE g[i - 1] \o parts[i]
      <4>1. CASE i = k + 1
        BY <3>2, <4>1
      <4>2. CASE i # k + 1
        <5>1. i \in 1..k /\ (i # 1 => i - 1 \in 1..k /\ i - 1 # k + 1)
          BY <4>2
        <5>2. g[i] = f[i] /\ (i # 1 => g[i - 1] = f[i - 1])
          BY <4>2, <5>1
        <5>3. f[i] = IF i = 1 THEN parts[i] ELSE f[i - 1] \o parts[i]
          BY <3>1, <5>1 DEF JoinedUpTo
        <5>4. QED
          BY <5>2, <5>3
      <4>3. QED
        BY <4>1, <4>2
    <3> HIDE DEF g
    <3>6. JoinedUpTo(parts, k + 1, g)
      BY <3>4, <3>5 DEF JoinedUpTo
    <3>7. QED
      BY <3>6
  <2>2. QED
    BY <2>1
<1> HIDE DEF S
<1>3. Nat \subseteq S
  BY <1>1, <1>2, Induct
<1>4. QED
  BY <1>3 DEF S

(* FlattenSeq joins them all.                                              *)
LEMMA FlattenIs ==
    ASSUME NEW n \in Nat \ {0}, NEW parts \in [1..n -> Seq(Byte)]
    PROVE  \E g : JoinedUpTo(parts, n, g) /\ Seqs!FlattenSeq(parts) = g[n]
<1>1. Len(parts) = n
  <2>1. parts \in Seq(Seq(Byte))
    OBVIOUS
  <2>2. QED
    BY <2>1
<1> DEFINE Eq(g) == g = [i \in 1..n |-> IF i = 1 THEN parts[i] ELSE g[i - 1] \o parts[i]]
           h == CHOOSE g : Eq(g)
<1>2. PICK g : JoinedUpTo(parts, n, g)
  BY SomeJoined
<1>3. Eq(g)
  <2>1. g = [i \in 1..n |-> g[i]]
    BY <1>2 DEF JoinedUpTo
  <2>2. \A i \in 1..n : g[i] = IF i = 1 THEN parts[i] ELSE g[i - 1] \o parts[i]
    BY <1>2 DEF JoinedUpTo
  <2>3. QED
    BY <2>1, <2>2
<1>4. Eq(h)
  BY <1>3
<1>5. Seqs!FlattenSeq(parts) = h[n]
  BY <1>1 DEF Seqs!FlattenSeq
<1> HIDE DEF h
<1>6. \A i \in 1..n : h[i] = IF i = 1 THEN parts[i] ELSE h[i - 1] \o parts[i]
  BY <1>4
<1>7. h \in [1..n -> Seq(Byte)]
  <2> DEFINE S == {k \in Nat : k + 1 <= n => h[k + 1] \in Seq(Byte)}
  <2>1. 0 \in S
    <3>1. 1 \in 1..n /\ parts[1] \in Seq(Byte)
      OBVIOUS
    <3>2. h[0 + 1] = parts[1]
      BY <1>6, <3>1
    <3>3. QED
      BY <3>1, <3>2
  <2>2. ASSUME NEW k \in Nat, k \in S PROVE k + 1 \in S
    <3>1. ASSUME (k + 1) + 1 <= n PROVE h[(k + 1) + 1] \in Seq(Byte)
      <4>1. (k + 1) + 1 \in 1..n /\ (k + 1) + 1 # 1 /\ ((k + 1) + 1) - 1 = k + 1
        BY <3>1
      <4>2. h[(k + 1) + 1] = h[k + 1] \o parts[(k + 1) + 1]
        BY <1>6, <4>1
      <4>3. h[k + 1] \in Seq(Byte)
        BY <2>2, <3>1
      <4>4. parts[(k + 1) + 1] \in Seq(Byte)
        BY <4>1
      <4>5. QED
        BY <4>2, <4>3, <4>4
    <3>2. QED
      BY <3>1
  <2> HIDE DEF S
  <2>3. Nat \subseteq S
    BY <2>1, <2>2, Induct
  <2>4. ASSUME NEW i \in 1..n PROVE h[i] \in Seq(Byte)
    <3>1. i - 1 \in S /\ (i - 1) + 1 = i
      BY <2>3
    <3>2. QED
      BY <3>1 DEF S
  <2>5. QED
    BY <1>4, <2>4
<1>8. JoinedUpTo(parts, n, h)
  BY <1>6, <1>7 DEF JoinedUpTo
<1>9. QED
  BY <1>5, <1>8

(* s holds the first k parts, each at its place.                           *)
HoldsParts(s, k, parts, place) ==
    /\ s \in Seq(Byte) /\ Len(s) = place[k] + Len(parts[k])
    /\ \A i \in 1..k :
         /\ place[i] + Len(parts[i]) <= Len(s)
         /\ \A j \in 1..Len(parts[i]) : s[place[i] + j] = parts[i][j]

(* One more part goes behind them.                                         *)
LEMMA OneMorePart ==
    ASSUME NEW k \in Nat \ {0}, NEW parts, NEW place, NEW s, HoldsParts(s, k, parts, place),
           parts[k + 1] \in Seq(Byte), place[k + 1] = place[k] + Len(parts[k]),
           \A i \in 1..(k + 1) : place[i] \in Nat /\ parts[i] \in Seq(Byte)
    PROVE  HoldsParts(s \o parts[k + 1], k + 1, parts, place)
<1>1. PICK p \in Seq(Byte) : p = parts[k + 1]
  OBVIOUS
<1>2. PICK a \in Nat, b \in Nat : s \in Seq(Byte) /\ a = Len(s) /\ b = Len(p)
  BY DEF HoldsParts
<1>3. PICK t \in Seq(Byte) : t = s \o p
  <2>1. s \o p \in Seq(Byte)
    BY <1>2
  <2>2. QED
    BY <2>1
<1>4. /\ Len(t) = a + b
      /\ \A j \in 1..a : t[j] = s[j]
      /\ \A j \in 1..b : t[a + j] = p[j]
  BY <1>2, <1>3
<1>5. place[k + 1] = a
  BY <1>2 DEF HoldsParts
<1>6. ASSUME NEW i \in 1..(k + 1)
      PROVE  /\ place[i] + Len(parts[i]) <= a + b
             /\ \A j \in 1..Len(parts[i]) : t[place[i] + j] = parts[i][j]
  <2>1. CASE i = k + 1
    <3>1. place[i] = a /\ parts[i] = p /\ Len(parts[i]) = b
      BY <1>1, <1>2, <1>5, <2>1
    <3>2. QED
      BY <1>4, <3>1
  <2>2. CASE i # k + 1
    <3>1. i \in 1..k
      BY <2>2
    <3>2. PICK x \in Nat, y \in Nat : x = place[i] /\ y = Len(parts[i])
      <4>1. place[i] \in Nat /\ parts[i] \in Seq(Byte)
        OBVIOUS
      <4>2. QED
        BY <4>1
    <3>3. x + y <= a /\ \A j \in 1..y : s[x + j] = parts[i][j]
      BY <1>2, <3>1, <3>2 DEF HoldsParts
    <3>4. \A j \in 1..y : x + j \in 1..a
      BY <3>3
    <3>5. \A j \in 1..y : t[x + j] = parts[i][j]
      BY <1>4, <3>3, <3>4
    <3>6. x + y <= a + b
      BY <3>3
    <3>7. QED
      BY <3>2, <3>5, <3>6
  <2>3. QED
    BY <2>1, <2>2
<1>7. HoldsParts(t, k + 1, parts, place)
  BY <1>1, <1>2, <1>4, <1>5, <1>6 DEF HoldsParts
<1>8. QED
  BY <1>1, <1>3, <1>7

(* Joined parts are each where the ones before it end.                     *)
LEMMA FlattenPlaces ==
    ASSUME NEW n \in Nat \ {0}, NEW parts \in [1..n -> Seq(Byte)], NEW place \in [1..n -> Nat],
           place[1] = 0, \A i \in 1..(n - 1) : place[i + 1] = place[i] + Len(parts[i])
    PROVE  HoldsParts(Seqs!FlattenSeq(parts), n, parts, place)
<1>1. PICK g : JoinedUpTo(parts, n, g) /\ Seqs!FlattenSeq(parts) = g[n]
  BY FlattenIs
<1> DEFINE S == {k \in Nat : k + 1 <= n => HoldsParts(g[k + 1], k + 1, parts, place)}
<1>2. 0 \in S
  <2>1. 1 \in 1..n
    OBVIOUS
  <2>2. g[1] = parts[1] /\ parts[1] \in Seq(Byte)
    BY <1>1, <2>1 DEF JoinedUpTo
  <2>3. HoldsParts(g[1], 1, parts, place)
    <3>1. PICK p \in Seq(Byte) : p = parts[1] /\ g[1] = p
      BY <2>2
    <3>2. \A i \in 1..1 : i = 1
      OBVIOUS
    <3>3. QED
      BY <3>1, <3>2 DEF HoldsParts
  <2>4. QED
    BY <2>3
<1>3. ASSUME NEW k \in Nat, k \in S PROVE k + 1 \in S
  <2>1. ASSUME (k + 1) + 1 <= n PROVE HoldsParts(g[(k + 1) + 1], (k + 1) + 1, parts, place)
    <3>1. PICK m \in Nat \ {0} : m = k + 1 /\ m + 1 \in 1..n /\ m \in 1..(n - 1)
      BY <2>1
    <3>2. HoldsParts(g[m], m, parts, place)
      BY <1>3, <2>1, <3>1
    <3>3. m + 1 # 1 /\ (m + 1) - 1 = m
      OBVIOUS
    <3>4. g[m + 1] = g[m] \o parts[m + 1]
      BY <1>1, <3>1, <3>3 DEF JoinedUpTo
    <3>5. parts[m + 1] \in Seq(Byte) /\ place[m + 1] = place[m] + Len(parts[m])
      BY <3>1
    <3>6. \A i \in 1..(m + 1) : place[i] \in Nat /\ parts[i] \in Seq(Byte)
      BY <3>1
    <3>7. HoldsParts(g[m] \o parts[m + 1], m + 1, parts, place)
      BY <3>2, <3>5, <3>6, OneMorePart
    <3>8. QED
      BY <3>1, <3>4, <3>7
  <2>2. QED
    BY <2>1
<1> HIDE DEF S
<1>4. Nat \subseteq S
  BY <1>2, <1>3, Induct
<1>5. n - 1 \in S /\ (n - 1) + 1 = n
  BY <1>4
<1>6. QED
  BY <1>1, <1>5 DEF S

-----------------------------------------------------------------------------
(* Records of the layout.                                                  *)

(* The layout at hand is the one of build_record.                          *)
LayoutAtHand == fields = Fields /\ fields \in Seq(FieldLayout)

(* Its fields follow each other to the end of the record.                  *)
LEMMA LayoutIs ==
    ASSUME LayoutAtHand
    PROVE  /\ RecordLength(fields) = {Size} /\ Size \in Nat \ {0}
           /\ Len(Fields) \in Nat \ {0} /\ DOMAIN Fields = 1..Len(Fields)
           /\ Size = Fields[Len(Fields)].offset + Fields[Len(Fields)].length
           /\ Fields[1].offset = 0
           /\ \A i \in 1..(Len(Fields) - 1) :
                Fields[i + 1].offset = Fields[i].offset + Fields[i].length
<1>1. Fields \in Seq(FieldLayout) /\ RecordLength(Fields) # {}
  BY FileAssumption DEF LayoutAtHand
<1>2. PICK n \in Nat \ {0} : n = Len(Fields) /\ DOMAIN Fields = 1..n
  BY <1>1, LayoutOffsets
<1>3. PICK a \in Nat, b \in Nat \ {0} : a = Fields[n].offset /\ b = Fields[n].length
  BY <1>1, <1>2, LayoutOffsets
<1>4. RecordLength(fields) = {a + b}
  BY <1>1, <1>2, <1>3, LayoutOffsets DEF LayoutAtHand
<1>5. Size = a + b
  BY <1>4 DEF Size
<1>6. a + b \in Nat \ {0}
  OBVIOUS
<1>7. /\ Fields[1].offset = 0
      /\ \A i \in 1..(n - 1) : Fields[i + 1].offset = Fields[i].offset + Fields[i].length
  BY <1>1, <1>2, LayoutOffsets
<1>8. QED
  BY <1>2, <1>3, <1>4, <1>5, <1>6, <1>7

(* Each field is usable and lies within the record.                        *)
LEMMA FieldsAre ==
    ASSUME LayoutAtHand, NEW i \in DOMAIN Fields
    PROVE  /\ UsableField(Fields[i])
           /\ Fields[i].offset \in Nat /\ Fields[i].length \in Nat \ {0}
           /\ Fields[i].offset + Fields[i].length <= Size
<1>1. Fields \in Seq(FieldLayout) /\ RecordLength(Fields) # {}
  BY FileAssumption DEF LayoutAtHand
<1>2. UsableField(Fields[i])
  <2>1. Fields[i] \in FieldLayout
    BY <1>1
  <2>2. Dimensions(Fields[i]) \in PictureLayout(Fields[i].picture)
    BY <1>1 DEF RecordLength
  <2>3. Fields[i].kind = "packed" => Fields[i].picture.signed
    BY FileAssumption
  <2>4. QED
    BY <2>1, <2>2, <2>3 DEF UsableField
<1>3. PICK n \in Nat \ {0} : n = Len(Fields) /\ DOMAIN Fields = 1..n
  BY <1>1, LayoutOffsets
<1>4. \A k \in 1..n : Fields[k].offset \in Nat /\ Fields[k].length \in Nat \ {0}
  BY <1>1, <1>3, LayoutOffsets
<1>5. Fields[i].offset + Fields[i].length <= Size
  <2>1. n \in DOMAIN Fields /\ i \in 1..n
    BY <1>3
  <2>2. PICK a \in Nat, b \in Nat \ {0}, c \in Nat, d \in Nat \ {0} :
          a = Fields[i].offset /\ b = Fields[i].length /\ c = Fields[n].offset /\ d = Fields[n].length
    BY <1>4, <2>1
  <2>3. Size = c + d
    BY <1>3, <2>2, LayoutIs
  <2>4. CASE i = n
    BY <2>2, <2>3, <2>4
  <2>5. CASE i # n
    <3>1. i < n
      BY <2>1, <2>5
    <3>2. a + b <= c
      BY <1>1, <2>1, <2>2, <3>1, FieldsAscend
    <3>3. QED
      BY <2>2, <2>3, <3>2
  <2>6. QED
    BY <2>4, <2>5
<1>6. QED
  BY <1>2, <1>3, <1>4, <1>5

(* The bytes of a field in a record.                                       *)
Slice(record, i) == SubSeq(record, Fields[i].offset + 1, Fields[i].offset + Fields[i].length)

(* It is as long as the field, byte for byte.                              *)
LEMMA SliceIs ==
    ASSUME LayoutAtHand, NEW record \in Seq(Byte), Len(record) = Size, NEW i \in DOMAIN Fields
    PROVE  /\ Slice(record, i) \in Seq(Byte) /\ Len(Slice(record, i)) = Fields[i].length
           /\ \A j \in 1..Fields[i].length :
                Slice(record, i)[j] = record[Fields[i].offset + j]
<1>1. PICK a \in Nat, b \in Nat \ {0} : a = Fields[i].offset /\ b = Fields[i].length
  BY FieldsAre
<1>2. PICK n \in Nat : n = Size /\ a + b <= n /\ Len(record) = n
  BY <1>1, LayoutIs, FieldsAre
<1>3. PICK x \in 1..n, y \in 1..n : x = a + 1 /\ y = a + b /\ y - x + 1 = b
  BY <1>2
<1>4. SubSeq(record, x, y) \in Seq(Byte) /\ Len(SubSeq(record, x, y)) = y - x + 1
  BY <1>2, <1>3
<1>5. \A j \in 1..(y - x + 1) : SubSeq(record, x, y)[j] = record[x + j - 1]
  BY <1>2, <1>3
<1>6. \A j \in 1..b : x + j - 1 = a + j
  BY <1>3
<1>7. Slice(record, i) = SubSeq(record, x, y)
  BY <1>1, <1>3 DEF Slice
<1>8. \A j \in 1..b : Slice(record, i)[j] = record[a + j]
  BY <1>3, <1>5, <1>6, <1>7
<1>9. QED
  BY <1>1, <1>3, <1>4, <1>7, <1>8

(* A record that was built has each value's part in its field.             *)
LEMMA RecordIs ==
    ASSUME LayoutAtHand, NEW row \in Rows, BuildRecord(row) # {}
    PROVE  /\ BuildRecord(row) = {Record(row)}
           /\ Record(row) \in Seq(Byte) /\ Len(Record(row)) = Size
           /\ \A i \in DOMAIN Fields : Slice(Record(row), i) \in Part(Fields[i], row[i])
<1>1. PICK n \in Nat \ {0} : n = Len(Fields) /\ DOMAIN Fields = 1..n
  BY LayoutIs
<1>2. PICK parts : parts = [i \in DOMAIN Fields |-> CHOOSE b \in Parts(row)[i] : TRUE]
  OBVIOUS
<1>3. PICK record : record = Seqs!FlattenSeq(parts)
  OBVIOUS
<1>4. BuildRecord(row) = {record} /\ \A i \in DOMAIN Fields : Parts(row)[i] # {}
  BY <1>2, <1>3 DEF BuildRecord
<1>5. Record(row) = record
  BY <1>4 DEF Record
<1>6. ASSUME NEW i \in 1..n
      PROVE  /\ parts[i] \in Part(Fields[i], row[i])
             /\ parts[i] \in Seq(Byte) /\ Len(parts[i]) = Fields[i].length
  <2>1. i \in DOMAIN Fields
    BY <1>1
  <2>2. Parts(row)[i] = Part(Fields[i], row[i])
    BY <2>1 DEF Parts
  <2>3. parts[i] \in Part(Fields[i], row[i])
    BY <1>2, <1>4, <2>1, <2>2
  <2>4. UsableField(Fields[i])
    BY <2>1, FieldsAre
  <2>5. row[i] # None => RowValue(Fields[i], row[i])
    BY <2>1, FileAssumption
  <2>6. HoldsValue(Fields[i], parts[i], row[i])
    BY <2>3, <2>4, <2>5, PartHolds
  <2>7. QED
    BY <2>3, <2>6 DEF HoldsValue
<1>7. parts \in [1..n -> Seq(Byte)]
  BY <1>1, <1>2, <1>6
<1> DEFINE place == [i \in 1..n |-> Fields[i].offset]
<1>8. place \in [1..n -> Nat]
  BY <1>1, FieldsAre
<1>9. place[1] = 0
  BY LayoutIs
<1>10. \A i \in 1..(n - 1) : place[i + 1] = place[i] + Len(parts[i])
  <2>1. ASSUME NEW i \in 1..(n - 1)
        PROVE  place[i + 1] = place[i] + Len(parts[i])
    <3>1. i \in 1..n /\ i + 1 \in 1..n
      OBVIOUS
    <3>2. place[i] = Fields[i].offset /\ place[i + 1] = Fields[i + 1].offset
      BY <3>1
    <3>3. Fields[i + 1].offset = Fields[i].offset + Fields[i].length
      BY <1>1, LayoutIs
    <3>4. Len(parts[i]) = Fields[i].length
      BY <1>6, <3>1
    <3>5. QED
      BY <3>2, <3>3, <3>4
  <2>2. QED
    BY <2>1
<1> HIDE DEF place
<1>11. HoldsParts(record, n, parts, place)
  BY <1>3, <1>7, <1>8, <1>9, <1>10, FlattenPlaces
<1>12. \A i \in 1..n : place[i] = Fields[i].offset
  BY DEF place
<1>13. record \in Seq(Byte) /\ Len(record) = Size
  <2>1. n \in 1..n
    OBVIOUS
  <2>2. record \in Seq(Byte) /\ Len(record) = Fields[n].offset + Fields[n].length
    BY <1>6, <1>11, <1>12, <2>1 DEF HoldsParts
  <2>3. QED
    BY <1>1, <2>2, LayoutIs
<1>14. ASSUME NEW i \in DOMAIN Fields
       PROVE  Slice(record, i) \in Part(Fields[i], row[i])
  <2>1. i \in 1..n
    BY <1>1
  <2>2. PICK part \in Seq(Byte) : part = parts[i] /\ Len(part) = Fields[i].length
    BY <1>6, <2>1
  <2>3. PICK s \in Seq(Byte) : /\ s = Slice(record, i) /\ Len(s) = Fields[i].length
                               /\ \A j \in 1..Fields[i].length : s[j] = record[Fields[i].offset + j]
    BY <1>13, SliceIs
  <2>4. \A j \in 1..Len(part) : record[Fields[i].offset + j] = part[j]
    BY <1>11, <1>12, <2>1, <2>2 DEF HoldsParts
  <2>5. s = part
    BY <2>2, <2>3, <2>4, SameSequence
  <2>6. QED
    BY <1>6, <2>1, <2>2, <2>3, <2>5
<1>15. QED
  BY <1>4, <1>5, <1>13, <1>14

-----------------------------------------------------------------------------
(* Reading a record.                                                       *)

(* The value of a field in a document.                                     *)
Normalized(i, v) == IF i = Padded THEN ZFill(v, Fields[i].length) ELSE v

(* The value of a field in the document a row should give.                 *)
LEMMA ExpectedIs ==
    ASSUME LayoutAtHand, NEW row \in Rows, BuildRecord(row) # {}, NEW n
    PROVE  /\ Expected(row, n) =
                [values |-> [i \in DOMAIN Fields |-> Normalized(i, Meant(Fields[i], row[i]))], ordinal |-> n]
           /\ \A i \in DOMAIN Fields : Expected(row, n).values[i] = Normalized(i, Meant(Fields[i], row[i]))
<1>1. ASSUME NEW i \in DOMAIN Fields
      PROVE  InDocument(row, i) = Normalized(i, Meant(Fields[i], row[i]))
  <2>1. CASE i # Padded
    BY <2>1 DEF InDocument, Normalized
  <2>2. CASE i = Padded
    <3>1. PICK f : f = Fields[i] /\ f.kind = "zoned" /\ UsableField(f)
      BY <2>2, FieldsAre, FileAssumption
    <3>2. PICK k \in Nat \ {0} : k = f.length
      BY <3>1, FieldShape
    <3>3. PICK v : v = row[i]
      OBVIOUS
    <3>4. Parts(row)[i] # {} /\ Parts(row)[i] = Part(f, v)
      BY <3>1, <3>3 DEF BuildRecord, Parts
    <3>5. v # None /\ v \in Seq(Nat)
      BY <3>1, <3>3, <3>4, FileAssumption DEF Part, RowValue
    <3>6. Zoned(v, k) # {}
      BY <3>1, <3>2, <3>4, <3>5 DEF Part
    <3>7. Len(v) \in 1..k /\ v \in Seq(Digit)
      <4>1. Len(v) \in 1..k /\ \A j \in DOMAIN v : v[j] \in Digit
        BY <3>6 DEF Zoned
      <4>2. QED
        BY <3>5, <4>1, ElementsIn
    <3>8. PICK text \in Seq(Digit) : text = ZFill(v, k) /\ Len(text) = k
      BY <3>7, ZFillIs
    <3>9. Stripped(text) = Stripped(v)
      BY <3>7, <3>8, ZFillStripped
    <3>10. ZFill(Stripped(text), k) = text
      BY <3>8, StrippedIs
    <3>11. Meant(f, v) = Stripped(v)
      BY <3>1 DEF Meant
    <3>12. QED
      BY <2>2, <3>1, <3>2, <3>3, <3>8, <3>9, <3>10, <3>11 DEF InDocument, Normalized
  <2>3. QED
    BY <2>1, <2>2
<1>2. QED
  BY <1>1 DEF Expected

(* A chunk gives a document if it is a whole record and each field decodes.*)
LEMMA DocumentsAre ==
    ASSUME LayoutAtHand, NEW chunk
    PROVE  /\ \A d \in Documents(chunk) :
                /\ Len(chunk) = Size
                /\ \E v : /\ DOMAIN v = DOMAIN Fields
                          /\ \A i \in DOMAIN Fields : v[i] \in Decode(Fields[i], Slice(chunk, i))
                          /\ v = [i \in DOMAIN Fields |-> v[i]]
                          /\ d = Normalize(v, Len(out) + 1)
           /\ Len(chunk) = Size /\ (\A i \in DOMAIN Fields : Decode(Fields[i], Slice(chunk, i)) # {})
                => Documents(chunk) # {}
<1> DEFINE decoded(i) == Decode(Fields[i], Slice(chunk, i))
           v == [i \in DOMAIN Fields |-> CHOOSE w \in decoded(i) : TRUE]
<1>1. fields = Fields /\ RecordLength(fields) = {Size}
  BY LayoutIs DEF LayoutAtHand
<1>2. ParseRecord(chunk, fields) =
        IF Len(chunk) = Size /\ \A i \in DOMAIN Fields : decoded(i) # {} THEN {v} ELSE {}
  BY <1>1 DEF ParseRecord, Slice
<1>3. ASSUME NEW d \in Documents(chunk)
      PROVE  /\ Len(chunk) = Size /\ \A i \in DOMAIN Fields : decoded(i) # {}
             /\ d = Normalize(v, Len(out) + 1)
  <2>1. PICK w \in ParseRecord(chunk, fields) : d = Normalize(w, Len(out) + 1)
    BY DEF Documents
  <2>2. Len(chunk) = Size /\ \A i \in DOMAIN Fields : decoded(i) # {}
    BY <1>2, <2>1
  <2>3. w = v
    BY <1>2, <2>1, <2>2
  <2>4. QED
    BY <2>1, <2>2, <2>3
<1>4. ASSUME NEW d \in Documents(chunk)
      PROVE  \A i \in DOMAIN Fields : v[i] \in Decode(Fields[i], Slice(chunk, i))
  BY <1>3
<1>5. ASSUME Len(chunk) = Size, \A i \in DOMAIN Fields : decoded(i) # {}
      PROVE  Documents(chunk) # {}
  <2>1. v \in ParseRecord(chunk, fields)
    BY <1>2, <1>5
  <2>2. QED
    BY <2>1 DEF Documents
<1>6. DOMAIN v = DOMAIN Fields /\ v = [i \in DOMAIN Fields |-> v[i]]
  OBVIOUS
<1> HIDE DEF v
<1>7. QED
  BY <1>3, <1>4, <1>5, <1>6

(* A field whose bytes are those written gives what it means.              *)
LEMMA FieldIntact ==
    ASSUME LayoutAtHand, NEW row \in Rows, BuildRecord(row) # {},
           NEW chunk \in Seq(Byte), Len(chunk) = Size, NEW i \in DOMAIN Fields,
           \A j \in 1..Fields[i].length :
             chunk[Fields[i].offset + j] = Record(row)[Fields[i].offset + j]
    PROVE  Decode(Fields[i], Slice(chunk, i)) = {Meant(Fields[i], row[i])}
<1>1. Record(row) \in Seq(Byte) /\ Len(Record(row)) = Size /\ Slice(Record(row), i) \in Part(Fields[i], row[i])
  BY RecordIs
<1>2. PICK s \in Seq(Byte) : /\ s = Slice(chunk, i) /\ Len(s) = Fields[i].length
                             /\ \A j \in 1..Fields[i].length : s[j] = chunk[Fields[i].offset + j]
  BY SliceIs
<1>3. PICK p \in Seq(Byte) : /\ p = Slice(Record(row), i) /\ Len(p) = Fields[i].length
                             /\ \A j \in 1..Fields[i].length : p[j] = Record(row)[Fields[i].offset + j]
  BY <1>1, SliceIs
<1>4. s = p
  <2>1. Len(s) = Len(p) /\ \A j \in 1..Len(s) : s[j] = p[j]
    BY <1>2, <1>3
  <2>2. QED
    BY <2>1, SameSequence
<1>5. UsableField(Fields[i]) /\ (row[i] # None => RowValue(Fields[i], row[i]))
  BY FieldsAre, FileAssumption
<1>6. HoldsValue(Fields[i], p, row[i])
  BY <1>1, <1>3, <1>5, PartHolds
<1>7. QED
  BY <1>2, <1>4, <1>6 DEF HoldsValue

(* In a field with a changed byte the change is seen.                      *)
LEMMA FieldChanged ==
    ASSUME LayoutAtHand, NEW row \in Rows, BuildRecord(row) # {},
           NEW chunk \in Seq(Byte), Len(chunk) = Size, NEW i \in DOMAIN Fields,
           NEW k \in 1..Fields[i].length,
           \A j \in 1..Fields[i].length :
             chunk[Fields[i].offset + j] = Record(row)[Fields[i].offset + j] <=> j # k,
           NEW w \in Decode(Fields[i], Slice(chunk, i))
    PROVE  ChangeSeen(Fields[i], row[i], w, Record(row)[Fields[i].offset + k], chunk[Fields[i].offset + k])
<1>1. Record(row) \in Seq(Byte) /\ Len(Record(row)) = Size /\ Slice(Record(row), i) \in Part(Fields[i], row[i])
  BY RecordIs
<1>2. PICK s \in Seq(Byte) : /\ s = Slice(chunk, i) /\ Len(s) = Fields[i].length
                             /\ \A j \in 1..Fields[i].length : s[j] = chunk[Fields[i].offset + j]
  BY SliceIs
<1>3. PICK p \in Seq(Byte) : /\ p = Slice(Record(row), i) /\ Len(p) = Fields[i].length
                             /\ \A j \in 1..Fields[i].length : p[j] = Record(row)[Fields[i].offset + j]
  BY <1>1, SliceIs
<1>4. Differ(p, s, k)
  BY <1>2, <1>3 DEF Differ
<1>5. UsableField(Fields[i]) /\ (row[i] # None => RowValue(Fields[i], row[i]))
  BY FieldsAre, FileAssumption
<1>6. ChangeSeen(Fields[i], row[i], w, p[k], s[k])
  BY <1>1, <1>2, <1>3, <1>4, <1>5, PartChange
<1>7. QED
  BY <1>2, <1>3, <1>6

-----------------------------------------------------------------------------
(* Records one after the other.                                            *)

(* Multiples of a record's size.                                           *)
LEMMA Multiples ==
    ASSUME NEW s \in Nat \ {0}, NEW a \in Nat, NEW b \in Nat
    PROVE  /\ a * s \in Nat /\ (a + 1) * s = a * s + s
           /\ a < b => a * s + s <= b * s
           /\ a * s < b * s => a < b
           /\ a * s = b * s => a = b
<1>1. ASSUME NEW x \in Nat, NEW y \in Nat, x < y
      PROVE  x * s + s <= y * s
  <2>1. PICK c \in Nat : y = x + 1 + c
    <3>1. y - x - 1 \in Nat /\ y = x + 1 + (y - x - 1)
      BY <1>1
    <3>2. QED
      BY <3>1
  <2>2. c * s \in Nat
    OBVIOUS
  <2>3. y * s = x * s + s + c * s
    BY <2>1
  <2>4. QED
    BY <2>2, <2>3
<1>2. a * s \in Nat /\ b * s \in Nat /\ (a + 1) * s = a * s + s
  OBVIOUS
<1>3. a < b => a * s + s <= b * s
  BY <1>1
<1>4. b < a => b * s + s <= a * s
  BY <1>1
<1>5. QED
  BY <1>2, <1>3, <1>4

(* Every byte of a file has a place in one record.                         *)
LEMMA Places ==
    ASSUME NEW s \in Nat \ {0}, NEW c \in Nat \ {0}
    PROVE  /\ (c - 1) \div s + 1 \in Nat \ {0} /\ (c - 1) % s \in 0..(s - 1)
           /\ \A n \in Nat \ {0}, j \in 1..s :
                (n - 1) * s + j = c <=> n = (c - 1) \div s + 1 /\ j = ((c - 1) % s) + 1
<1>1. PICK x \in Nat : x = c - 1
  OBVIOUS
<1>2. PICK q \in Nat, m \in 0..(s - 1) : q = x \div s /\ m = x % s /\ x = q * s + m
  <2>1. x \div s \in Nat /\ x % s \in 0..(s - 1) /\ x = (x \div s) * s + (x % s)
    OBVIOUS
  <2>2. QED
    BY <2>1
<1>3. ASSUME NEW n \in Nat \ {0}, NEW j \in 1..s
      PROVE  (n - 1) * s + j = c <=> n = q + 1 /\ j = m + 1
  <2>1. PICK a \in Nat : a = n - 1
    OBVIOUS
  <2>2. PICK y \in 0..(s - 1) : y = j - 1
    OBVIOUS
  <2>3. (n - 1) * s + j = c <=> a * s + y = q * s + m
    BY <1>1, <1>2, <2>1, <2>2
  <2>4. ASSUME a * s + y = q * s + m
        PROVE  a = q
    <3>1. a * s \in Nat /\ q * s \in Nat
      BY Multiples
    <3>2. a < q => a * s + s <= q * s
      BY Multiples
    <3>3. q < a => q * s + s <= a * s
      BY Multiples
    <3>4. QED
      BY <2>4, <3>1, <3>2, <3>3
  <2>5. a * s + y = q * s + m <=> a = q /\ y = m
    <3>1. q * s \in Nat /\ a * s \in Nat
      BY Multiples
    <3>2. QED
      BY <2>4, <3>1
  <2>6. QED
    BY <2>1, <2>2, <2>3, <2>5
<1>4. QED
  BY <1>1, <1>2, <1>3

(* The next chunk of the file: nothing at its end, a whole record unless   *)
(* the file was cut.                                                       *)
LEMMA ChunkIs ==
    ASSUME LayoutAtHand, FileHoldsRows, ReadSoFarWritten
    PROVE  /\ Len(out) \in Nat
           /\ Chunk = <<>> => used = Len(data)
           /\ ~cut /\ Chunk # <<>> => Len(Chunk) = Size
           /\ Len(Chunk) = Size =>
                /\ Len(out) + 1 \in DOMAIN rows
                /\ used + Size <= Len(data)
                /\ Chunk \in Seq(Byte)
                /\ \A j \in 1..Size :
                     /\ Len(out) * Size + j <= Len(data)
                     /\ Chunk[j] = data[Len(out) * Size + j]
<1>1. PICK s \in Nat \ {0} : s = Size
  BY LayoutIs
<1>2. PICK o \in Nat : o = Len(out)
  <2>1. Len(out) \in Nat
    BY DEF ReadSoFarWritten
  <2>2. QED
    BY <2>1
<1>3. PICK r \in Nat : r = Len(rows) /\ DOMAIN rows = 1..r
  <2>1. rows \in Seq(Rows)
    BY DEF FileHoldsRows
  <2>2. QED
    BY <2>1
<1>4. PICK l \in Nat : l = Len(data) /\ data \in Seq(Byte) /\ l <= r * s /\ (cut \/ l = r * s)
  <2>1. data \in Seq(Byte)
    BY DEF FileHoldsRows
  <2>2. QED
    BY <1>1, <1>3, <2>1 DEF FileHoldsRows
<1>5. PICK u \in Nat : u = used /\ u = o * s /\ u <= l
  <2>1. o * s \in Nat
    BY Multiples
  <2>2. QED
    BY <1>1, <1>2, <1>4, <2>1 DEF ReadSoFarWritten
<1>6. PICK e \in Nat : e = (IF u + s <= l THEN u + s ELSE l) /\ u <= e /\ e <= l
  BY <1>5
<1>7. Chunk = SubSeq(data, u + 1, e)
  BY <1>1, <1>4, <1>5, <1>6 DEF Chunk
<1>8. PICK x \in Nat \ {0} : x = u + 1 /\ Chunk = SubSeq(data, x, e)
  BY <1>7
<1>9. Chunk \in Seq(Byte) /\ Len(Chunk) = e - u
  <2>1. SubSeq(data, x, e) \in Seq(Byte)
    BY <1>4, <1>6, <1>8
  <2>2. Len(SubSeq(data, x, e)) = IF x <= e THEN e - x + 1 ELSE 0
    BY <1>4, <1>6, <1>8
  <2>3. QED
    BY <1>6, <1>8, <2>1, <2>2
<1>10. ASSUME Chunk = <<>> PROVE used = Len(data)
  <2>1. e - u = 0
    BY <1>9, <1>10
  <2>2. QED
    BY <1>4, <1>5, <1>6, <2>1
<1>11. ASSUME ~cut, Chunk # <<>> PROVE Len(Chunk) = Size
  <2>1. e - u # 0
    BY <1>9, <1>11
  <2>2. o * s < r * s
    BY <1>4, <1>5, <1>6, <1>11, <2>1
  <2>3. o * s + s <= r * s
    BY <2>2, Multiples
  <2>4. u + s <= l
    BY <1>4, <1>5, <1>11, <2>3
  <2>5. QED
    BY <1>1, <1>6, <1>9, <2>4
<1>12. ASSUME Len(Chunk) = Size
       PROVE  /\ o + 1 \in DOMAIN rows
              /\ used + Size <= Len(data)
              /\ \A j \in 1..s : o * s + j <= l /\ Chunk[j] = data[o * s + j]
  <2>1. u + s <= l /\ e = u + s
    BY <1>1, <1>6, <1>9, <1>12
  <2>2. o * s < r * s
    <3>1. r * s \in Nat
      BY Multiples
    <3>2. QED
      BY <1>4, <1>5, <2>1, <3>1
  <2>3. o < r
    BY <2>2, Multiples
  <2>4. \A j \in 1..s : Chunk[j] = data[x + j - 1]
    <3>1. e - x + 1 = s /\ x \in 1..l /\ e \in 1..l
      BY <1>8, <2>1
    <3>2. \A j \in 1..(e - x + 1) : SubSeq(data, x, e)[j] = data[x + j - 1]
      BY <1>4, <3>1
    <3>3. QED
      BY <1>8, <3>1, <3>2
  <2>5. \A j \in 1..s : x + j - 1 = u + j /\ u + j <= l
    BY <1>8, <2>1
  <2>6. \A j \in 1..s : o * s + j <= l /\ Chunk[j] = data[o * s + j]
    BY <1>5, <2>4, <2>5
  <2>7. o + 1 \in DOMAIN rows /\ used + Size <= Len(data)
    BY <1>1, <1>3, <1>4, <1>5, <2>1, <2>3
  <2>8. QED
    BY <2>6, <2>7
<1>13. QED
  BY <1>1, <1>2, <1>4, <1>9, <1>10, <1>11, <1>12

-----------------------------------------------------------------------------
(* Converting.                                                             *)

(* The next record of the file as a document: the one its row should give, *)
(* but for a changed byte, which shows.                                    *)
DocumentGood(n, d) ==
    /\ changed = 0 => d = Expected(rows[n], n)
    /\ changed > 0 => ChangeShowsIn(n, d)

(* What the next record gives, whatever happened to the file.              *)
LEMMA NextDocument ==
    ASSUME LayoutAtHand, FileHoldsRows, ReadSoFarWritten, NEW d \in Documents(Chunk)
    PROVE  /\ Len(out) + 1 \in DOMAIN rows /\ used + Size <= Len(data)
           /\ DocumentGood(Len(out) + 1, d)
<1>1. PICK n \in Nat \ {0} : n = Len(out) + 1 /\ Len(out) = n - 1
  <2>1. Len(out) \in Nat
    BY ChunkIs
  <2>2. QED
    BY <2>1
<1>2. PICK v : /\ v = [i \in DOMAIN Fields |-> v[i]]
               /\ \A i \in DOMAIN Fields : v[i] \in Decode(Fields[i], Slice(Chunk, i))
               /\ d = Normalize(v, n)
  BY <1>1, DocumentsAre
<1>3. Len(Chunk) = Size
  BY DocumentsAre
<1>4. PICK s \in Nat \ {0} : s = Size
  BY LayoutIs
<1>5. PICK chunk \in Seq(Byte) :
        /\ chunk = Chunk /\ Len(chunk) = s
        /\ \A j \in 1..s : (n - 1) * s + j <= Len(data) /\ chunk[j] = data[(n - 1) * s + j]
  BY <1>1, <1>3, <1>4, ChunkIs
<1>6. n \in DOMAIN rows /\ used + Size <= Len(data)
  BY <1>1, <1>3, ChunkIs
<1>7. PICK row \in Rows : row = rows[n] /\ BuildRecord(row) # {}
  <2>1. rows[n] \in Rows
    BY <1>6 DEF FileHoldsRows
  <2>2. QED
    BY <1>6, <2>1 DEF FileHoldsRows
<1>8. \A j \in 1..s : chunk[j] = Record(row)[j] <=> (n - 1) * s + j # changed
  <2>1. \A j \in 1..s : LET byte == (n - 1) * s + j IN
          byte <= Len(data) => (data[byte] = Record(row)[j] <=> byte # changed)
    BY <1>4, <1>6, <1>7 DEF FileHoldsRows
  <2>2. QED
    BY <1>5, <2>1
<1>9. ASSUME NEW i \in DOMAIN Fields
      PROVE  /\ Fields[i].offset \in Nat /\ Fields[i].length \in Nat \ {0}
             /\ \A j \in 1..Fields[i].length : Fields[i].offset + j \in 1..s
  <2>1. PICK a \in Nat, b \in Nat \ {0} : a = Fields[i].offset /\ b = Fields[i].length /\ a + b <= s
    BY <1>4, FieldsAre
  <2>2. \A j \in 1..b : a + j \in 1..s
    BY <2>1
  <2>3. QED
    BY <2>1, <2>2
<1>10. ASSUME NEW i \in DOMAIN Fields,
              \A j \in 1..Fields[i].length : (n - 1) * s + (Fields[i].offset + j) # changed
       PROVE  v[i] = Meant(Fields[i], row[i])
  <2>1. \A j \in 1..Fields[i].length : chunk[Fields[i].offset + j] = Record(row)[Fields[i].offset + j]
    BY <1>8, <1>9, <1>10
  <2>2. Len(chunk) = Size
    BY <1>4, <1>5
  <2>3. Decode(Fields[i], Slice(chunk, i)) = {Meant(Fields[i], row[i])}
    BY <1>7, <2>1, <2>2, FieldIntact
  <2>4. QED
    BY <1>2, <1>5, <2>3
<1>11. ASSUME changed = 0
       PROVE  d = Expected(row, n)
  <2>1. ASSUME NEW i \in DOMAIN Fields
        PROVE  v[i] = Meant(Fields[i], row[i])
    <3>1. ASSUME NEW j \in 1..Fields[i].length
          PROVE  (n - 1) * s + (Fields[i].offset + j) # changed
      <4>1. (n - 1) * s \in Nat
        <5>1. n - 1 \in Nat
          OBVIOUS
        <5>2. QED
          BY <5>1, Multiples
      <4>2. Fields[i].offset + j \in 1..s
        BY <1>9
      <4>3. QED
        BY <1>11, <4>1, <4>2
    <3>2. QED
      BY <1>10, <3>1
  <2>2. DOMAIN v = DOMAIN Fields
    BY <1>2
  <2>3. d = [values |-> [i \in DOMAIN Fields |-> Normalized(i, v[i])], ordinal |-> n]
    BY <1>2, <2>2 DEF Normalize, Normalized
  <2>4. [i \in DOMAIN Fields |-> Normalized(i, v[i])]
          = [i \in DOMAIN Fields |-> Normalized(i, Meant(Fields[i], row[i]))]
    BY <2>1
  <2>5. QED
    BY <1>7, <2>3, <2>4, ExpectedIs
<1>12. ASSUME changed > 0, NEW i \in DOMAIN Fields
       PROVE  LET same == d.values[i] = Expected(row, n).values[i]
                  written == Record(row)[((changed - 1) % Size) + 1]
              IN  IF ChangedIn(n, i)
                  THEN same => SameMeaning(Fields[i], written, data[changed])
                  ELSE same
  <2>1. PICK c \in Nat \ {0} : c = changed
    BY <1>12 DEF FileHoldsRows
  <2>2. PICK a \in Nat, b \in Nat \ {0} :
          /\ a = Fields[i].offset /\ b = Fields[i].length
          /\ \A j \in 1..b : a + j \in 1..s
    BY <1>9
  <2>3. PICK r \in Nat \ {0}, m \in 0..(s - 1) : r = (c - 1) \div s + 1 /\ m = (c - 1) % s
    BY Places
  <2>4. ASSUME NEW j \in 1..b
        PROVE  (n - 1) * s + (a + j) = c <=> n = r /\ a + j = m + 1
    <3>1. PICK t \in 1..s : t = a + j
      BY <2>2
    <3>2. \A k \in Nat \ {0}, x \in 1..s :
            (k - 1) * s + x = c <=> k = (c - 1) \div s + 1 /\ x = ((c - 1) % s) + 1
      BY Places
    <3>3. (n - 1) * s + t = c <=> n = (c - 1) \div s + 1 /\ t = ((c - 1) % s) + 1
      BY <3>2
    <3>4. (n - 1) * s + t = c <=> n = r /\ t = m + 1
      BY <2>3, <3>3, Zenon
    <3>5. QED
      BY <3>1, <3>4
  <2>5. ChangedIn(n, i) <=> n = r /\ m \in a..(a + b - 1)
    BY <1>4, <2>1, <2>2, <2>3 DEF ChangedIn
  <2>6. d.values[i] = Normalized(i, v[i]) /\ Expected(row, n).values[i] = Normalized(i, Meant(Fields[i], row[i]))
    <3>1. d.values[i] = Normalized(i, v[i])
      <4>1. DOMAIN v = DOMAIN Fields
        BY <1>2
      <4>2. d.values = [k \in DOMAIN Fields |-> IF k = Padded THEN ZFill(v[k], Fields[k].length) ELSE v[k]]
        BY <1>2, <4>1 DEF Normalize
      <4>3. QED
        BY <4>2 DEF Normalized
    <3>2. QED
      BY <1>7, <3>1, ExpectedIs
  <2>7. CASE ~ChangedIn(n, i)
    <3>1. \A j \in 1..b : (n - 1) * s + (a + j) # changed
      <4>1. ASSUME NEW j \in 1..b, n = r, a + j = m + 1 PROVE FALSE
        <5>1. m = a + j - 1 /\ m \in a..(a + b - 1)
          BY <4>1
        <5>2. QED
          BY <2>5, <2>7, <4>1, <5>1
      <4>2. QED
        BY <2>1, <2>4, <4>1
    <3>2. v[i] = Meant(Fields[i], row[i])
      BY <1>10, <2>2, <3>1
    <3>3. QED
      BY <2>6, <2>7, <3>2
  <2>8. CASE ChangedIn(n, i)
    <3>1. PICK k \in 1..b : a + k = m + 1 /\ n = r
      <4>1. m - a + 1 \in 1..b /\ a + (m - a + 1) = m + 1
        BY <2>5, <2>8
      <4>2. QED
        BY <2>5, <2>8, <4>1
    <3>2. ASSUME NEW j \in 1..b
          PROVE  chunk[a + j] = Record(row)[a + j] <=> j # k
      <4>1. chunk[a + j] = Record(row)[a + j] <=> (n - 1) * s + (a + j) # c
        BY <1>8, <2>1, <2>2
      <4>2. (n - 1) * s + (a + j) = c <=> a + j = m + 1
        BY <2>4, <3>1
      <4>3. a + j = m + 1 <=> j = k
        BY <3>1
      <4>4. QED
        BY <4>1, <4>2, <4>3
    <3>3. ChangeSeen(Fields[i], row[i], v[i], Record(row)[a + k], chunk[a + k])
      <4>1. v[i] \in Decode(Fields[i], Slice(chunk, i))
        BY <1>2, <1>5
      <4>2. k \in 1..Fields[i].length
        BY <2>2
      <4>3. \A j \in 1..Fields[i].length :
              chunk[Fields[i].offset + j] = Record(row)[Fields[i].offset + j] <=> j # k
        BY <2>2, <3>2
      <4>4. Len(chunk) = Size
        BY <1>4, <1>5
      <4>5. ChangeSeen(Fields[i], row[i], v[i], Record(row)[Fields[i].offset + k],
                       chunk[Fields[i].offset + k])
        BY <1>7, <4>1, <4>2, <4>3, <4>4, FieldChanged
      <4>6. QED
        BY <2>2, <4>5
    <3>4. chunk[a + k] = data[changed]
      <4>1. PICK j \in 1..s : j = a + k
        BY <2>2
      <4>2. (n - 1) * s + j = c
        BY <2>4, <3>1, <4>1
      <4>3. chunk[j] = data[(n - 1) * s + j]
        BY <1>5
      <4>4. QED
        BY <2>1, <4>1, <4>2, <4>3
    <3>5. i = Padded => Fields[i].kind = "zoned"
      BY FileAssumption
    <3>6. \/ d.values[i] # Expected(row, n).values[i]
          \/ SameMeaning(Fields[i], Record(row)[a + k], data[changed])
      BY <2>6, <3>3, <3>4, <3>5 DEF ChangeSeen, Normalized
    <3>7. a + k = ((changed - 1) % Size) + 1
      BY <1>4, <2>1, <2>3, <3>1
    <3>8. QED
      BY <2>8, <3>6, <3>7
  <2>9. QED
    BY <2>7, <2>8
<1>13. changed > 0 => ChangeShowsIn(n, d)
  BY <1>7, <1>12 DEF ChangeShowsIn
<1>14. DocumentGood(n, d)
  BY <1>7, <1>11, <1>13 DEF DocumentGood
<1>15. QED
  BY <1>1, <1>6, <1>14

(* A whole record of a file that was not damaged gives a document.         *)
LEMMA NextDocumentThere ==
    ASSUME LayoutAtHand, FileHoldsRows, ReadSoFarWritten, ~cut, changed = 0, Chunk # <<>>
    PROVE  Documents(Chunk) # {}
<1>1. PICK n \in Nat \ {0} : n = Len(out) + 1 /\ Len(out) = n - 1
  <2>1. Len(out) \in Nat
    BY ChunkIs
  <2>2. QED
    BY <2>1
<1>2. Len(Chunk) = Size
  BY ChunkIs
<1>3. PICK s \in Nat \ {0} : s = Size
  BY LayoutIs
<1>4. PICK chunk \in Seq(Byte) :
        /\ chunk = Chunk /\ Len(chunk) = s
        /\ \A j \in 1..s : (n - 1) * s + j <= Len(data) /\ chunk[j] = data[(n - 1) * s + j]
  BY <1>1, <1>2, <1>3, ChunkIs
<1>5. n \in DOMAIN rows
  BY <1>1, <1>2, ChunkIs
<1>6. PICK row \in Rows : row = rows[n] /\ BuildRecord(row) # {}
  <2>1. rows[n] \in Rows
    BY <1>5 DEF FileHoldsRows
  <2>2. QED
    BY <1>5, <2>1 DEF FileHoldsRows
<1>7. ASSUME NEW j \in 1..s PROVE chunk[j] = Record(row)[j]
  <2>1. (n - 1) * s \in Nat
    <3>1. n - 1 \in Nat
      OBVIOUS
    <3>2. QED
      BY <3>1, Multiples
  <2>2. (n - 1) * s + j # changed
    BY <2>1
  <2>3. LET byte == (n - 1) * s + j IN
          byte <= Len(data) => (data[byte] = Record(row)[j] <=> byte # changed)
    BY <1>3, <1>5, <1>6 DEF FileHoldsRows
  <2>4. QED
    BY <1>4, <2>2, <2>3
<1>8. ASSUME NEW i \in DOMAIN Fields PROVE Decode(Fields[i], Slice(chunk, i)) # {}
  <2>1. PICK a \in Nat, b \in Nat \ {0} : a = Fields[i].offset /\ b = Fields[i].length /\ a + b <= s
    BY <1>3, FieldsAre
  <2>2. \A j \in 1..b : a + j \in 1..s
    BY <2>1
  <2>3. \A j \in 1..Fields[i].length : chunk[Fields[i].offset + j] = Record(row)[Fields[i].offset + j]
    BY <1>7, <2>1, <2>2
  <2>4. Len(chunk) = Size
    BY <1>3, <1>4
  <2>5. Decode(Fields[i], Slice(chunk, i)) = {Meant(Fields[i], row[i])}
    BY <1>6, <2>3, <2>4, FieldIntact
  <2>6. QED
    BY <2>5
<1>9. QED
  BY <1>2, <1>4, <1>8, DocumentsAre

-----------------------------------------------------------------------------
(* Files, step by step.                                                    *)

(* Before there is a file.                                                 *)
LEMMA FilesBegin == FilesIdle => FileInvariant
BY DEF FilesIdle, FileInvariant, NothingLost, ChangeShows

(* What a step leaves alone.                                               *)
LEMMA LayoutKept ==
    ASSUME UNCHANGED copybookVars
    PROVE  fields' = fields /\ result' = result /\ Size' = Size
BY DEF copybookVars, Size

(* What is said of the file holds on while the file is not touched.        *)
LEMMA FileKept ==
    ASSUME UNCHANGED <<rows, data, cut, changed>>, UNCHANGED copybookVars
    PROVE  /\ FileHoldsRows' = FileHoldsRows
           /\ \A n, d : ChangeShowsIn(n, d)' = ChangeShowsIn(n, d)
<1>1. Size' = Size
  BY LayoutKept
<1>2. FileHoldsRows' = FileHoldsRows
  BY <1>1 DEF FileHoldsRows
<1>3. \A n, i : ChangedIn(n, i)' = ChangedIn(n, i)
  BY <1>1 DEF ChangedIn
<1>4. \A n, d : ChangeShowsIn(n, d)' = ChangeShowsIn(n, d)
  BY <1>1, <1>3 DEF ChangeShowsIn
<1>5. QED
  BY <1>2, <1>4

(* A step that touches neither the copybook nor the files.                 *)
LEMMA FilesStutter == FileInvariant /\ UNCHANGED <<copybookVars, fileVars>> => FileInvariant'
<1>1. SUFFICES ASSUME FileInvariant, UNCHANGED copybookVars, UNCHANGED fileVars
               PROVE  FileInvariant'
  OBVIOUS
<1>2. Size' = Size /\ fields' = fields /\ result' = result
  BY <1>1, LayoutKept
<1>3. FileHoldsRows' = FileHoldsRows /\ \A n, d : ChangeShowsIn(n, d)' = ChangeShowsIn(n, d)
  BY <1>1, FileKept DEF fileVars
<1>4. ReadSoFarWritten' = ReadSoFarWritten /\ FilesIdle' = FilesIdle /\ NothingLost' = NothingLost
  BY <1>1, <1>2 DEF fileVars, ReadSoFarWritten, FilesIdle, NothingLost
<1>5. ChangeShows' = ChangeShows
  BY <1>1, <1>3 DEF fileVars, ChangeShows
<1>6. QED
  BY <1>1, <1>2, <1>3, <1>4, <1>5 DEF fileVars, FileInvariant

(* While a file is converted.                                              *)
LEMMA Converting ==
    ASSUME FileInvariant, pc = "convert", fields \in Seq(FieldLayout)
    PROVE  LayoutAtHand /\ result = "layout" /\ FileHoldsRows /\ ReadSoFarWritten
BY DEF FileInvariant, LayoutAtHand

(* The records of the rows follow each other in the file.                  *)
LEMMA GenerateKeeps ==
    ASSUME FileInvariant, fields \in Seq(FieldLayout), Generate, UNCHANGED copybookVars
    PROVE  FileInvariant'
<1>1. rows = <<>> /\ out = <<>> /\ changed = 0 /\ cut = FALSE /\ used = 0
  BY DEF Generate, FileInvariant, FilesIdle
<1>2. out' = <<>> /\ changed' = 0 /\ cut' = FALSE /\ used' = 0
  BY <1>1 DEF Generate
<1>3. LayoutAtHand /\ result' = "layout" /\ fields' = Fields
  BY LayoutKept DEF Generate, LayoutAtHand
<1>4. PICK s \in Nat \ {0} : s = Size /\ s = Size'
  BY <1>3, LayoutIs, LayoutKept
<1>5. PICK n \in Nat \ {0} : rows' \in [1..n -> Rows]
  <2>1. PICK n \in 1..MaxRows : rows' \in [1..n -> Rows]
    BY DEF Generate
  <2>2. n \in Nat \ {0}
    BY FileAssumption
  <2>3. QED
    BY <2>1, <2>2
<1>6. rows' \in Seq(Rows) /\ Len(rows') = n /\ DOMAIN rows' = 1..n
  BY <1>5
<1>7. NothingLost' \/ pc' \in {"done", "failed"}
  BY <1>2 DEF NothingLost
<1>8. ChangeShows'
  BY <1>2 DEF ChangeShows
<1> DEFINE records == [i \in DOMAIN rows' |-> BuildRecord(rows'[i])]
<1>9. CASE \A i \in DOMAIN records : \E r \in records[i] : Len(r) = Size
  <2> DEFINE parts == [i \in 1..n |-> Record(rows'[i])]
             place == [i \in 1..n |-> (i - 1) * s]
  <2>1. pc' = "convert" /\ data' = Seqs!FlattenSeq([i \in DOMAIN records |-> CHOOSE r \in records[i] : TRUE])
    BY <1>9 DEF Generate
  <2>2. \A i \in 1..n : rows'[i] \in Rows /\ BuildRecord(rows'[i]) # {}
    BY <1>5, <1>6, <1>9
  <2>3. [i \in DOMAIN records |-> CHOOSE r \in records[i] : TRUE] = parts
    BY <1>6 DEF Record
  <2>4. \A i \in 1..n : Record(rows'[i]) \in Seq(Byte) /\ Len(Record(rows'[i])) = s
    BY <1>3, <1>4, <2>2, RecordIs
  <2>5. parts \in [1..n -> Seq(Byte)] /\ \A i \in 1..n : parts[i] = Record(rows'[i]) /\ Len(parts[i]) = s
    BY <2>4
  <2>6. ASSUME NEW i \in 1..n PROVE place[i] \in Nat
    <3>1. i - 1 \in Nat
      OBVIOUS
    <3>2. QED
      BY <3>1, Multiples
  <2>7. ASSUME NEW i \in 1..(n - 1) PROVE place[i + 1] = place[i] + s
    <3>1. i - 1 \in Nat /\ i \in 1..n /\ i + 1 \in 1..n /\ (i - 1) + 1 = i /\ (i + 1) - 1 = i
      OBVIOUS
    <3>2. ((i - 1) + 1) * s = (i - 1) * s + s
      BY <3>1, Multiples
    <3>3. QED
      BY <3>1, <3>2
  <2>8. place \in [1..n -> Nat] /\ place[1] = 0
    <3>1. 1 \in 1..n /\ (1 - 1) * s = 0
      OBVIOUS
    <3>2. QED
      BY <2>6, <3>1
  <2>9. \A i \in 1..(n - 1) : place[i + 1] = place[i] + Len(parts[i])
    <3>1. \A i \in 1..(n - 1) : i \in 1..n
      OBVIOUS
    <3>2. QED
      BY <2>5, <2>7, <3>1
  <2>10. \A i \in 1..n : place[i] = (i - 1) * s
    OBVIOUS
  <2>11. data' = Seqs!FlattenSeq(parts)
    BY <2>1, <2>3
  <2> HIDE DEF parts, place
  <2>12. HoldsParts(data', n, parts, place)
    BY <2>5, <2>8, <2>9, <2>11, FlattenPlaces
  <2>13. data' \in Seq(Byte) /\ Len(data') = n * s
    <3>1. n \in 1..n /\ n - 1 \in Nat /\ (n - 1) + 1 = n
      OBVIOUS
    <3>2. data' \in Seq(Byte) /\ Len(data') = (n - 1) * s + s
      BY <2>5, <2>10, <2>12, <3>1 DEF HoldsParts
    <3>3. ((n - 1) + 1) * s = (n - 1) * s + s
      BY <3>1, Multiples
    <3>4. QED
      BY <3>1, <3>2, <3>3
  <2>14. ASSUME NEW i \in 1..n, NEW j \in 1..s
         PROVE  data'[(i - 1) * s + j] = Record(rows'[i])[j] /\ (i - 1) * s + j # 0
    <3>1. (i - 1) * s \in Nat
      BY <2>8, <2>10
    <3>2. data'[place[i] + j] = parts[i][j]
      BY <2>5, <2>12 DEF HoldsParts
    <3>3. QED
      BY <2>5, <2>10, <3>1, <3>2
  <2>15. FileHoldsRows'
    <3>1. n * s \in Nat
      BY Multiples
    <3>2. Len(data') <= Len(rows') * Size' /\ Len(data') = Len(rows') * Size'
      <4>1. Len(rows') * Size' = n * s
        BY <1>4, <1>6
      <4>2. QED
        BY <2>13, <3>1, <4>1
    <3>3. changed' \in 0..Len(data')
      BY <1>2, <2>13, <3>1
    <3>4. \A i \in DOMAIN rows', j \in 1..Size' :
            data'[(i - 1) * Size' + j] = Record(rows'[i])[j] /\ (i - 1) * Size' + j # changed'
      BY <1>2, <1>4, <1>6, <2>14
    <3>5. \A i \in DOMAIN rows' : BuildRecord(rows'[i]) # {}
      BY <1>6, <2>2
    <3>6. QED
      BY <1>2, <1>6, <2>13, <3>2, <3>3, <3>4, <3>5 DEF FileHoldsRows
  <2>16. ReadSoFarWritten'
    <3>1. Len(data') \in Nat
      BY <2>13
    <3>2. Len(out') * Size' = 0
      <4>1. Len(out') = 0
        BY <1>2
      <4>2. 0 * s = 0
        OBVIOUS
      <4>3. QED
        BY <1>4, <4>1, <4>2
    <3>3. out' \in Seq({out'[i] : i \in DOMAIN out'})
      BY <1>2
    <3>4. QED
      BY <1>2, <2>1, <3>1, <3>2, <3>3 DEF ReadSoFarWritten
  <2>17. QED
    BY <1>3, <1>7, <1>8, <2>1, <2>15, <2>16 DEF FileInvariant
<1>10. CASE ~\A i \in DOMAIN records : \E r \in records[i] : Len(r) = Size
  <2>1. pc' = "refused"
    BY <1>10 DEF Generate
  <2>2. QED
    BY <1>2, <1>7, <1>8, <2>1 DEF FileInvariant
<1>11. QED
  BY <1>9, <1>10

(* What is left of a cut file is as it was.                                *)
LEMMA CutKeeps ==
    ASSUME FileInvariant, fields \in Seq(FieldLayout), Cut, UNCHANGED copybookVars
    PROVE  FileInvariant'
<1>1. pc = "convert" /\ used = 0 /\ changed = 0 /\ cut = FALSE
  <2>1. pc = "convert" /\ used = 0 /\ changed = 0 /\ ~cut
    BY DEF Cut, Moving
  <2>2. QED
    BY <2>1, Converting DEF FileHoldsRows
<1>2. LayoutAtHand /\ result = "layout" /\ FileHoldsRows /\ ReadSoFarWritten
  BY <1>1, Converting
<1>3. result' = "layout" /\ fields' = Fields /\ Size' = Size
  BY <1>2, LayoutKept DEF LayoutAtHand
<1>4. cut' = TRUE /\ rows' = rows /\ changed' = 0 /\ used' = 0 /\ out' = out /\ pc' = "convert"
  BY <1>1 DEF Cut
<1>5. PICK l \in Nat : l = Len(data) /\ data \in Seq(Byte)
  BY <1>2 DEF FileHoldsRows
<1>6. PICK n \in Nat : n < l /\ data' = SubSeq(data, 1, n)
  <2>1. PICK n \in 0..(Len(data) - 1) : data' = SubSeq(data, 1, n)
    BY DEF Cut
  <2>2. n \in Nat /\ n < l
    BY <1>5
  <2>3. QED
    BY <2>1, <2>2
<1>7. data' \in Seq(Byte) /\ Len(data') = n /\ \A k \in 1..n : data'[k] = data[k]
  BY <1>5, <1>6
<1>8. PICK s \in Nat \ {0} : s = Size
  BY <1>2, LayoutIs
<1>9. PICK r \in Nat : r = Len(rows) /\ DOMAIN rows = 1..r
  BY <1>2 DEF FileHoldsRows
<1>10. FileHoldsRows'
  <2>1. Len(data') <= Len(rows') * Size'
    <3>1. r * s \in Nat /\ l <= r * s
      BY <1>2, <1>5, <1>8, <1>9, Multiples DEF FileHoldsRows
    <3>2. n <= r * s
      BY <1>6, <3>1
    <3>3. QED
      BY <1>3, <1>4, <1>7, <1>8, <1>9, <3>2
  <2> DEFINE Held(i, j) == LET byte == (i - 1) * Size' + j IN
               byte <= Len(data') => (data'[byte] = Record(rows'[i])[j] <=> byte # changed')
  <2>2. ASSUME NEW i \in DOMAIN rows, NEW j \in 1..s, (i - 1) * s + j <= n
        PROVE  data'[(i - 1) * s + j] = Record(rows[i])[j] <=> (i - 1) * s + j # 0
    <3>1. i - 1 \in Nat
      BY <1>9
    <3>2. (i - 1) * s \in Nat
      BY <3>1, Multiples
    <3>3. PICK b \in 1..n : b = (i - 1) * s + j
      BY <2>2, <3>2
    <3>4. data'[b] = data[b] /\ b <= Len(data)
      BY <1>5, <1>6, <1>7
    <3>5. data[b] = Record(rows[i])[j] <=> b # 0
      BY <1>1, <1>2, <1>8, <3>3, <3>4 DEF FileHoldsRows
    <3>6. QED
      BY <3>3, <3>4, <3>5
  <2>3. changed' \in 0..Len(data')
    BY <1>4, <1>7
  <2>4. rows' \in Seq(Rows) /\ \A i \in DOMAIN rows' : BuildRecord(rows'[i]) # {}
    BY <1>2, <1>4 DEF FileHoldsRows
  <2>5. \A i \in DOMAIN rows', j \in 1..Size' : Held(i, j)
    BY <1>3, <1>4, <1>7, <1>8, <2>2
  <2> HIDE DEF Held
  <2>6. data' \in Seq(Byte) /\ (cut' \/ Len(data') = Len(rows') * Size')
        /\ cut' \in BOOLEAN /\ ~(cut' /\ changed' > 0)
    BY <1>4, <1>7
  <2>7. QED
    BY <2>1, <2>3, <2>4, <2>5, <2>6, Zenon DEF FileHoldsRows, Held
<1>11. ReadSoFarWritten'
  BY <1>1, <1>2, <1>3, <1>4, <1>7 DEF ReadSoFarWritten
<1>12. NothingLost'
  <2>1. \A i \in DOMAIN out : out[i] = Expected(rows[i], i)
    BY <1>1 DEF FileInvariant, NothingLost
  <2>2. QED
    BY <1>4, <2>1 DEF NothingLost
<1>13. ChangeShows'
  BY <1>4 DEF ChangeShows
<1>14. QED
  BY <1>3, <1>4, <1>10, <1>11, <1>12, <1>13 DEF FileInvariant

(* A changed file differs at one byte; nothing has been read of it.        *)
LEMMA ChangeKeeps ==
    ASSUME FileInvariant, fields \in Seq(FieldLayout), Change, UNCHANGED copybookVars
    PROVE  FileInvariant'
<1>1. pc = "convert" /\ used = 0 /\ changed = 0 /\ cut = FALSE
  <2>1. pc = "convert" /\ used = 0 /\ changed = 0 /\ ~cut
    BY DEF Change, Moving
  <2>2. QED
    BY <2>1, Converting DEF FileHoldsRows
<1>2. LayoutAtHand /\ result = "layout" /\ FileHoldsRows /\ ReadSoFarWritten
  BY <1>1, Converting
<1>3. result' = "layout" /\ fields' = Fields /\ Size' = Size
  BY <1>2, LayoutKept DEF LayoutAtHand
<1>4. cut' = FALSE /\ rows' = rows /\ used' = 0 /\ out' = out /\ pc' = "convert"
  BY <1>1 DEF Change
<1>5. PICK l \in Nat : l = Len(data) /\ data \in Seq(Byte)
  BY <1>2 DEF FileHoldsRows
<1>6. PICK c \in 1..l, b \in Byte : data[c] # b /\ data' = [data EXCEPT ![c] = b] /\ changed' = c
  <2>1. PICK c \in DOMAIN data, b \in Bytes :
          data[c] # b /\ data' = [data EXCEPT ![c] = b] /\ changed' = c
    BY DEF Change
  <2>2. c \in 1..l /\ b \in Byte
    BY <1>5, FileAssumption
  <2>3. QED
    BY <2>1, <2>2
<1>7. /\ data' \in Seq(Byte) /\ Len(data') = l
      /\ data'[c] = b /\ \A k \in 1..l : k # c => data'[k] = data[k]
  BY <1>5, <1>6
<1>8. PICK s \in Nat \ {0} : s = Size
  BY <1>2, LayoutIs
<1>9. DOMAIN rows \subseteq Nat \ {0}
  BY <1>2 DEF FileHoldsRows
<1>10. FileHoldsRows'
  <2>1. Len(data') <= Len(rows') * Size' /\ Len(data') = Len(rows') * Size'
    BY <1>1, <1>2, <1>3, <1>4, <1>5, <1>7 DEF FileHoldsRows
  <2> DEFINE Held(i, j) == LET byte == (i - 1) * Size' + j IN
               byte <= Len(data') => (data'[byte] = Record(rows'[i])[j] <=> byte # changed')
  <2>2. ASSUME NEW i \in DOMAIN rows, NEW j \in 1..s, (i - 1) * s + j <= l
        PROVE  data'[(i - 1) * s + j] = Record(rows[i])[j] <=> (i - 1) * s + j # c
    <3>1. i - 1 \in Nat
      BY <1>9
    <3>2. (i - 1) * s \in Nat
      BY <3>1, Multiples
    <3>3. PICK k \in 1..l : k = (i - 1) * s + j
      BY <2>2, <3>2
    <3>4. data[k] = Record(rows[i])[j]
      BY <1>1, <1>2, <1>5, <1>8, <3>3 DEF FileHoldsRows
    <3>5. data'[k] = data[k] <=> k # c
      BY <1>6, <1>7
    <3>6. QED
      BY <3>3, <3>4, <3>5
  <2>3. changed' \in 0..Len(data')
    BY <1>6, <1>7
  <2>4. rows' \in Seq(Rows) /\ \A i \in DOMAIN rows' : BuildRecord(rows'[i]) # {}
    BY <1>2, <1>4 DEF FileHoldsRows
  <2>5. \A i \in DOMAIN rows', j \in 1..Size' : Held(i, j)
    BY <1>3, <1>4, <1>6, <1>7, <1>8, <2>2
  <2> HIDE DEF Held
  <2>6. cut' = FALSE /\ data' \in Seq(Byte)
    BY <1>4, <1>7
  <2>7. QED
    BY <2>1, <2>3, <2>4, <2>5, <2>6 DEF FileHoldsRows, Held
<1>11. ReadSoFarWritten'
  BY <1>1, <1>2, <1>3, <1>4, <1>5, <1>7 DEF ReadSoFarWritten
<1>12. out' = <<>>
  <2>1. PICK o \in Nat : o = Len(out) /\ o * s = 0
    <3>1. Len(out) \in Nat /\ Len(out) * s = 0
      BY <1>1, <1>2, <1>8 DEF ReadSoFarWritten
    <3>2. QED
      BY <3>1
  <2>2. o = 0
    <3>1. 0 * s = 0
      OBVIOUS
    <3>2. QED
      BY <2>1, <3>1, Multiples
  <2>3. \A S : \A t \in Seq(S) : Len(t) = 0 => t = <<>>
    OBVIOUS
  <2>4. out = <<>>
    BY <1>2, <2>1, <2>2, <2>3 DEF ReadSoFarWritten
  <2>5. QED
    BY <1>4, <2>4
<1>13. NothingLost' /\ ChangeShows'
  BY <1>6, <1>12 DEF NothingLost, ChangeShows
<1>14. QED
  BY <1>3, <1>4, <1>10, <1>11, <1>13 DEF FileInvariant

(* The next document is good, and a record that fails was damaged.         *)
LEMMA ConvertKeeps ==
    ASSUME FileInvariant, fields \in Seq(FieldLayout), ConvertRecord, UNCHANGED copybookVars
    PROVE  FileInvariant'
<1>1. pc = "convert" /\ UNCHANGED <<rows, data, cut, changed>>
  BY DEF ConvertRecord
<1>2. LayoutAtHand /\ result = "layout" /\ FileHoldsRows /\ ReadSoFarWritten
  BY <1>1, Converting
<1>3. result' = "layout" /\ fields' = Fields /\ Size' = Size
  BY <1>2, LayoutKept DEF LayoutAtHand
<1>4. FileHoldsRows' /\ \A n, d : ChangeShowsIn(n, d)' = ChangeShowsIn(n, d)
  BY <1>1, <1>2, FileKept
<1>5. CASE Documents(Chunk) = {} /\ Conclude("failed")
  <2>1. pc' = "failed" /\ out' = out /\ used' = used
    BY <1>5 DEF Conclude
  <2>2. cut \/ changed > 0
    <3>1. Chunk # <<>>
      BY DEF ConvertRecord
    <3>2. cut \/ changed # 0
      BY <1>2, <1>5, <3>1, NextDocumentThere
    <3>3. changed \in Nat
      <4>1. data \in Seq(Byte) /\ changed \in 0..Len(data)
        BY <1>2 DEF FileHoldsRows
      <4>2. QED
        BY <4>1
    <3>4. QED
      BY <3>2, <3>3
  <2>3. ReadSoFarWritten'
    BY <1>1, <1>2, <1>3, <2>1, <2>2 DEF ReadSoFarWritten
  <2>4. NothingLost'
    <3>1. changed = 0 => cut
      BY <2>2
    <3>2. QED
      BY <1>1, <2>1, <3>1 DEF FileInvariant, NothingLost
  <2>5. ChangeShows'
    BY <1>1, <1>4, <2>1 DEF FileInvariant, ChangeShows
  <2>6. QED
    BY <1>3, <1>4, <2>1, <2>3, <2>4, <2>5 DEF FileInvariant
<1>6. CASE \E d \in Documents(Chunk) : Convert(d)
  <2>1. PICK d \in Documents(Chunk) : Convert(d)
    BY <1>6
  <2>2. out' = Append(out, d) /\ used' = used + Size /\ pc' = "convert"
    BY <1>1, <2>1 DEF Convert
  <2>3. PICK o \in Nat : o = Len(out) /\ DOMAIN out = 1..o
    <3>1. Len(out) \in Nat /\ DOMAIN out = 1..Len(out)
      BY <1>2 DEF ReadSoFarWritten
    <3>2. QED
      BY <3>1
  <2>4. used + Size <= Len(data) /\ DocumentGood(o + 1, d)
    BY <1>2, <2>1, <2>3, NextDocument
  <2>5. /\ Len(out') = o + 1 /\ DOMAIN out' = 1..(o + 1)
        /\ \A i \in 1..o : out'[i] = out[i]
        /\ out'[o + 1] = d
        /\ out' \in Seq({out'[i] : i \in DOMAIN out'})
    <3> DEFINE S == {out[i] : i \in DOMAIN out} \cup {d}
               T == {out'[i] : i \in DOMAIN out'}
    <3>1. out \in Seq(S)
      <4>1. out \in Seq({out[i] : i \in DOMAIN out}) /\ \A i \in DOMAIN out : out[i] \in S
        BY <1>2 DEF ReadSoFarWritten
      <4>2. QED
        BY <4>1, ElementsIn
    <3>2. d \in S
      OBVIOUS
    <3> HIDE DEF S
    <3>3. /\ Append(out, d) \in Seq(S) /\ Len(Append(out, d)) = o + 1
          /\ \A i \in 1..o : Append(out, d)[i] = out[i]
          /\ Append(out, d)[o + 1] = d
      BY <2>3, <3>1, <3>2
    <3>4. out' \in Seq(S) /\ \A i \in DOMAIN out' : out'[i] \in T
      BY <2>2, <3>3
    <3>5. DOMAIN out' = 1..(o + 1)
      BY <2>2, <3>3, <3>4
    <3>6. out' \in Seq(T)
      BY <3>4, ElementsIn
    <3>7. QED
      BY <2>2, <3>3, <3>5, <3>6
  <2>6. ReadSoFarWritten'
    <3>1. PICK s \in Nat \ {0} : s = Size
      BY <1>2, LayoutIs
    <3>2. used + Size = (o + 1) * Size
      <4>1. (o + 1) * s = o * s + s
        BY Multiples
      <4>2. used = o * s
        BY <1>2, <2>3, <3>1 DEF ReadSoFarWritten
      <4>3. QED
        BY <3>1, <4>1, <4>2
    <3>3. used' = Len(out') * Size' /\ used' <= Len(data')
      BY <1>1, <1>3, <2>2, <2>4, <2>5, <3>2
    <3>4. out' \in Seq({out'[i] : i \in DOMAIN out'})
      BY <2>5
    <3>5. pc' # "done" /\ pc' # "failed"
      BY <2>2
    <3>6. QED
      BY <3>3, <3>4, <3>5 DEF ReadSoFarWritten
  <2>7. NothingLost'
    <3>1. ASSUME changed = 0, NEW i \in DOMAIN out'
          PROVE  out'[i] = Expected(rows[i], i)
      <4>1. CASE i \in 1..o
        BY <2>3, <2>5, <3>1, <4>1 DEF FileInvariant, NothingLost
      <4>2. CASE i = o + 1
        <5>1. d = Expected(rows[o + 1], o + 1)
          BY <2>4, <3>1 DEF DocumentGood
        <5>2. QED
          BY <2>5, <4>2, <5>1
      <4>3. QED
        BY <2>5, <3>1, <4>1, <4>2
    <3>2. QED
      BY <1>1, <2>2, <3>1 DEF NothingLost
  <2>8. ChangeShows'
    <3>1. ASSUME changed > 0, NEW i \in DOMAIN out'
          PROVE  ChangeShowsIn(i, out'[i])
      <4>1. CASE i \in 1..o
        BY <2>3, <2>5, <3>1, <4>1 DEF FileInvariant, ChangeShows
      <4>2. CASE i = o + 1
        <5>1. ChangeShowsIn(o + 1, d)
          BY <2>4, <3>1 DEF DocumentGood
        <5>2. QED
          BY <2>5, <4>2, <5>1
      <4>3. QED
        BY <2>5, <3>1, <4>1, <4>2
    <3>2. ASSUME changed' > 0, NEW i \in DOMAIN out'
          PROVE  ChangeShowsIn(i, out[i])'
      <4>1. PICK e : e = out'[i] /\ ChangeShowsIn(i, e)
        BY <1>1, <3>1, <3>2
      <4>2. ChangeShowsIn(i, e)'
        BY <1>4, <4>1
      <4>3. QED
        BY <4>1, <4>2 DEF ChangeShowsIn
    <3>3. QED
      BY <3>2 DEF ChangeShows
  <2>9. QED
    BY <1>3, <1>4, <2>2, <2>6, <2>7, <2>8 DEF FileInvariant
<1>7. QED
  BY <1>5, <1>6 DEF ConvertRecord

(* The end is reached when every byte has been read.                       *)
LEMMA FinishKeeps ==
    ASSUME FileInvariant, fields \in Seq(FieldLayout), Finish, UNCHANGED copybookVars
    PROVE  FileInvariant'
<1>1. pc = "convert" /\ Chunk = <<>> /\ UNCHANGED <<rows, data, cut, changed>>
  BY DEF Finish
<1>2. LayoutAtHand /\ result = "layout" /\ FileHoldsRows /\ ReadSoFarWritten
  BY <1>1, Converting
<1>3. result' = "layout" /\ fields' = Fields /\ Size' = Size
  BY <1>2, LayoutKept DEF LayoutAtHand
<1>4. FileHoldsRows' /\ \A n, d : ChangeShowsIn(n, d)' = ChangeShowsIn(n, d)
  BY <1>1, <1>2, FileKept
<1>5. pc' = "done" /\ out' = out /\ used' = used
  BY DEF Finish, Conclude
<1>6. used = Len(data)
  BY <1>1, <1>2, ChunkIs
<1>7. ReadSoFarWritten'
  BY <1>1, <1>2, <1>3, <1>5, <1>6 DEF ReadSoFarWritten
<1>8. Len(out) * Size = Len(data) /\ (~cut => Len(out) = Len(rows))
  <2>1. PICK s \in Nat \ {0} : s = Size
    BY <1>2, LayoutIs
  <2>2. PICK o \in Nat : o = Len(out) /\ o * s = Len(data)
    <3>1. Len(out) \in Nat /\ Len(out) * s = Len(data)
      BY <1>2, <1>6, <2>1, ChunkIs DEF ReadSoFarWritten
    <3>2. QED
      BY <3>1
  <2>3. PICK r \in Nat : r = Len(rows) /\ (~cut => r * s = Len(data))
    <3>1. Len(rows) \in Nat /\ (~cut => Len(rows) * s = Len(data))
      BY <1>2, <2>1 DEF FileHoldsRows
    <3>2. QED
      BY <3>1
  <2>4. ~cut => o = r
    BY <2>2, <2>3, Multiples
  <2>5. QED
    BY <2>1, <2>2, <2>3, <2>4
<1>9. NothingLost'
  BY <1>1, <1>3, <1>5, <1>8 DEF FileInvariant, NothingLost
<1>10. ChangeShows'
  BY <1>1, <1>4, <1>5 DEF FileInvariant, ChangeShows
<1>11. QED
  BY <1>3, <1>4, <1>5, <1>7, <1>9, <1>10 DEF FileInvariant

(* What a row's bytes are, and what is read so far of them, accounts for   *)
(* every file and every document.                                          *)
THEOREM FileInvariantHolds == Spec => []FileInvariant
<1>1. Init => FileInvariant
  BY FilesBegin DEF Init
<1>2. CopybookInvariant /\ FileInvariant /\ [Next]_vars => FileInvariant'
  <2>1. SUFFICES ASSUME CopybookInvariant, FileInvariant, [Next]_vars PROVE FileInvariant'
    OBVIOUS
  <2>2. fields \in Seq(FieldLayout)
    BY <2>1 DEF CopybookInvariant, CopybookTypes
  <2>3. CASE UNCHANGED <<copybookVars, fileVars>>
    BY <2>1, <2>3, FilesStutter
  <2>4. CASE FilesIdle /\ UNCHANGED fileVars
    <3>1. FilesIdle'
      BY <2>4 DEF FilesIdle, fileVars
    <3>2. (FilesIdle => FileInvariant)'
      BY FilesBegin, PTL
    <3>3. QED
      BY <3>1, <3>2
  <2>5. CASE FilesNext /\ UNCHANGED copybookVars
    BY <2>1, <2>2, <2>5, GenerateKeeps, CutKeeps, ChangeKeeps, ConvertKeeps, FinishKeeps
       DEF FilesNext
  <2>6. QED
    BY <2>1, <2>3, <2>4, <2>5 DEF Next, vars
<1>3. QED
  BY <1>1, <1>2, CopybookInvariantHolds, PTL DEF Spec

(* A row that was not refused comes back as the document it means, and a   *)
(* conversion that ends well has used every byte: building a record        *)
(* truncates and coerces nothing, a record cut short is an error and a     *)
(* whole file does not fail (generate_sample.py:17-59,                     *)
(* parse_vsam.py:10-33).                                                   *)
THEOREM RowsComeBack == Spec => []NothingLost
<1>1. FileInvariant => NothingLost
  BY DEF FileInvariant
<1>2. QED
  BY <1>1, FileInvariantHolds, PTL

(* A changed byte of a number is refused or changes that number, and no    *)
(* other value of any record (copybook.py:127-141, 171-180).               *)
THEOREM ChangesAreSeen == Spec => []ChangeShows
<1>1. FileInvariant => ChangeShows
  BY DEF FileInvariant
<1>2. QED
  BY <1>1, FileInvariantHolds, PTL
=============================================================================
