----------------------------- MODULE Comp3Check -----------------------------
(***************************************************************************)
(* Comp3 against arithmetic: values are packed and unpacked, and byte      *)
(* strings unpacked and packed, over bounded inputs.                       *)
(***************************************************************************)
EXTENDS Comp3

CONSTANTS
    SomeDigits,      \* the digits that occur in inputs
    SomeNibbles,     \* the nibbles that occur in byte strings
    MaxDigits,       \* bound: declared precision
    MaxExponent      \* bound: exponents of values, of both signs

ASSUME CheckAssumption ==
    /\ SomeDigits \subseteq Digit /\ SomeNibbles \subseteq Nibble
    /\ MaxDigits \in Nat \ {0} /\ MaxExponent \in Nat

VARIABLES digits, scale, value, raw

packVars == <<digits, scale, value, raw>>

Strings(set, n) == [1..n -> set]

(* One digit more than fits, so that values are also too long.             *)
Coefficients ==
    {<<0>>} \cup UNION {{c \in Strings(SomeDigits, n) : c[1] # 0} : n \in 1..(MaxDigits + 1)}

Values == [sign : 0..1, coefficient : Coefficients, exponent : -MaxExponent..MaxExponent]

ByteStrings == UNION {Strings(SomeNibbles, 2 * n) : n \in 1..ByteLength(MaxDigits)}

(* No precision: nothing to pack.                                          *)
PackIdle == digits = 0 /\ scale = 0 /\ value = {} /\ raw = {}

PackInit ==
    /\ digits \in 1..MaxDigits
    /\ scale \in 0..(digits + 1)
    /\ value = {}
    /\ raw = {}

PackNext ==
    /\ digits > 0
    /\ value = {} /\ raw = {}
    /\ \/ value' \in {{v} : v \in Values} /\ raw' = UNION {Pack(v, digits, scale) : v \in value'}
       \/ raw' \in {{b} : b \in ByteStrings} /\ value' = UNION {Unpack(b, digits, scale) : b \in raw'}
    /\ UNCHANGED <<digits, scale>>

-----------------------------------------------------------------------------
(* Reference: decimals as numbers.                                         *)

Number(text) ==
    LET upTo[i \in 0..Len(text)] == IF i = 0 THEN 0 ELSE 10 * upTo[i - 1] + text[i]
    IN  upTo[Len(text)]

Power(n) == Number(<<1>> \o Zeros(n))

(* The value times 10^scale, if that is a whole number.                    *)
Scaled(v) ==
    LET c == Number(v.coefficient)
        shift == v.exponent + scale
    IN  IF shift >= 0 THEN {c * Power(shift)}
        ELSE {n \in {c \div Power(-shift)} : n * Power(-shift) = c}

(* It is one of the numbers a field of this precision can hold.            *)
Holds(v) == \E n \in Scaled(v) : n < Power(digits)

-----------------------------------------------------------------------------
(* pack_comp3 accepts exactly the values a field can hold, so it neither   *)
(* rounds nor truncates nor refuses what fits, trailing zeros and shifts   *)
(* to the scale included (copybook.py:183-208).                            *)
PacksWhatFits ==
    \A v \in value : ValidPrecision(digits, scale) => (Holds(v) <=> raw # {})

(* What was packed has the declared length and unpacks to the same number  *)
(* with the same sign (copybook.py:153-215).                               *)
RoundTrip ==
    \A v \in value, b \in raw :
        /\ Len(b) = 2 * ByteLength(digits)
        /\ \E w \in Unpack(b, digits, scale) : Scaled(w) = Scaled(v) /\ w.sign = v.sign

(* What unpacks is the only spelling of its value but for the sign F: no   *)
(* two other byte strings mean one number (copybook.py:164-180).           *)
OneSpelling ==
    \A v \in value, b \in raw :
        Pack(v, digits, scale) =
            {IF b[Len(b)] = Unsigned THEN [b EXCEPT ![Len(b)] = Positive] ELSE b}

(* Packing and unpacking are each other's inverse, in both orders          *)
(* (copybook.py:153-215).                                                  *)
Inverse == RoundTrip /\ OneSpelling

-----------------------------------------------------------------------------
(* The inductive invariant: a value and what it was packed into, or bytes  *)
(* and what they were unpacked into.                                       *)
PackInvariant ==
    /\ digits \in 0..MaxDigits /\ scale \in Nat
    /\ \/ value = {} /\ raw = {}
       \/ \E v \in value : v \in Values /\ value = {v} /\ raw = Pack(v, digits, scale)
       \/ \E b \in raw : b \in ByteStrings /\ raw = {b} /\ value = Unpack(b, digits, scale)
=============================================================================
