------------------------------- MODULE Comp3 --------------------------------
(***************************************************************************)
(* Packed decimals (copybook.pack_comp3, copybook.unpack_comp3).           *)
(*                                                                         *)
(* A Decimal is its as_tuple(): a sign bit, a coefficient (digits, none    *)
(* leading but in zero) and an exponent.  Packed bytes are the sequence of *)
(* their nibbles, two to a byte.  What may raise ValueError returns the    *)
(* set of its results: one, or none.                                       *)
(***************************************************************************)
EXTENDS Integers, Sequences

Digit == 0..9
Nibble == 0..15

Positive == 12     \* C
Negative == 13     \* D
Unsigned == 15     \* F

(* The value of Decimal.as_tuple(): no leading zero but in zero.           *)
IsDecimal(v) ==
    /\ v.sign \in 0..1 /\ v.exponent \in Int
    /\ v.coefficient \in Seq(Digit) /\ v.coefficient # <<>>
    /\ v.coefficient[1] # 0 \/ v.coefficient = <<0>>

ValidPrecision(digits, scale) == digits > 0 /\ scale \in 0..digits

Zeros(n) == [i \in 1..n |-> 0]

IsZero(value) == \A i \in DOMAIN value.coefficient : value.coefficient[i] = 0

(* Mutant: a value is cut to its scale, whatever digits it loses.          *)
AtScaleTruncated(value, digits, scale) ==
    LET c == value.coefficient
        shift == value.exponent + scale
        fits(text) == {t \in {text} : Len(t) \in 1..digits}
    IN  IF IsZero(value) THEN {<<0>>}
        ELSE IF shift < 0 THEN fits(SubSeq(c, 1, Len(c) + shift))
        ELSE fits(c \o Zeros(shift))

(* digit_text: the digits of value * 10^scale, if they are exact and fit.  *)
(* The length is looked at before the zeros are appended.                  *)
AtScale(value, digits, scale) ==
    LET c == value.coefficient
        shift == value.exponent + scale
        kept == Len(c) + shift
        lost == {c[i] : i \in {j \in DOMAIN c : j > kept}}
    IN  IF IsZero(value) THEN {<<0>>}
        ELSE IF kept \notin 1..digits \/ lost \ {0} # {} THEN {}
        ELSE IF shift < 0 THEN {SubSeq(c, 1, kept)}
        ELSE {c \o Zeros(shift)}

ZFill(text, n) == Zeros(n - Len(text)) \o text

(* Mutant: no pad nibble before an even number of digits, so the last byte *)
(* is half empty.                                                          *)
NibblesUnpadded(sign, text) == text \o <<IF sign = 1 THEN Negative ELSE Positive>>

(* The digits and the sign, a pad nibble before them if need be.           *)
Nibbles(sign, text) ==
    LET all == text \o <<IF sign = 1 THEN Negative ELSE Positive>>
    IN  IF Len(all) % 2 = 1 THEN <<0>> \o all ELSE all

Pack(value, digits, scale) ==
    IF ValidPrecision(digits, scale)
    THEN {Nibbles(value.sign, ZFill(text, digits)) : text \in AtScale(value, digits, scale)}
    ELSE {}

(* Decimal((sign, digits, -scale)): the constructor drops leading zeros.   *)
Stripped(text) ==
    LET nonzero == {i \in DOMAIN text : text[i] # 0}
        first == CHOOSE i \in nonzero : \A j \in nonzero : i <= j
    IN  IF nonzero = {} THEN <<0>> ELSE SubSeq(text, first, Len(text))

ByteLength(digits) == (digits + 2) \div 2

(* unpack_comp3 with the declared precision.                               *)
Unpack(raw, digits, scale) ==
    LET n == Len(raw)
        text == SubSeq(raw, n - digits, n - 1)
        sign == raw[n]
    IN  IF /\ ValidPrecision(digits, scale)
           /\ n = 2 * ByteLength(digits)
           /\ sign \in {Positive, Negative, Unsigned}
           /\ \A i \in 1..(n - 1) : raw[i] \in Digit
           /\ digits % 2 = 0 => raw[1] = 0
        THEN {[sign |-> IF sign = Negative THEN 1 ELSE 0,
               coefficient |-> Stripped(text), exponent |-> -scale]}
        ELSE {}
=============================================================================
