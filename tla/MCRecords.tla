----------------------------- MODULE MCRecords ------------------------------
(* Small copybooks, and rows for a layout of one field of each kind.       *)
EXTENDS Records, TLC

CONSTANTS upperA, nameA, nameB, nameC, odd

LowerCase ==
    (upperA :> nameA) @@ (nameA :> nameA) @@ (nameB :> nameB) @@ (nameC :> nameC)
        @@ (odd :> odd) @@ (Filler :> Filler)

Pic(kind, signed, whole, decimals) ==
    [kind |-> kind, signed |-> signed, whole |-> whole, decimals |-> decimals]

Char == Pic("text", FALSE, 2, None)
Branch == Pic("zoned", FALSE, 2, None)
Balance == Pic("packed", TRUE, 1, 1)
ZeroScale == Pic("packed", TRUE, 1, 0)
Empty == Pic("text", FALSE, 0, None)

NoLine == [kind |-> "ignored", name |-> None, picture |-> None]
Other == [NoLine EXCEPT !.kind = "other"]
Group(name) == [NoLine EXCEPT !.kind = "group", !.name = name]
FieldLine(name, picture) == [kind |-> "field", name |-> name, picture |-> picture]

SomeLines ==
    {NoLine, Other, Group(nameA), Group(Filler), FieldLine(nameA, Char), FieldLine(upperA, Balance),
     FieldLine(nameB, Branch), FieldLine(nameB, ZeroScale), FieldLine(nameB, Empty),
     FieldLine(nameC, Balance), FieldLine(odd, Balance), FieldLine(Filler, Char)}

Layout(name, picture, offset) ==
    Field(name, picture, CHOOSE l \in PictureLayout(picture) : TRUE, offset)

(* X(2), 9(2), S9(1)V9(1) COMP-3: six bytes, the second field padded.      *)
ThreeFields == <<Layout(nameA, Char, 0), Layout(nameB, Branch, 2), Layout(nameC, Balance, 4)>>

LetterA == <<12, 1>>
Euro == <<16, 0>>              \* not in cp037

Dec(sign, coefficient, exponent) ==
    [sign |-> sign, coefficient |-> coefficient, exponent |-> exponent]

SomeRows ==
    [1..3 -> {None}] \cup
    {<<t, z, p>> : t \in {<<LetterA>>, <<Space, LetterA>>, <<Space>>, <<LetterA, Euro>>},
                   z \in {<<7>>, <<0, 7>>, <<1, 2, 3>>, <<>>},
                   p \in {Dec(0, <<1, 0>>, -2), Dec(1, <<5>>, 0), Dec(0, <<0>>, 3),
                          Dec(0, <<1>>, -2)}}

SomeBlanks == {Space, <<4, 1>>}
SomeBytes == {Space, <<4, 1>>, Zone(9), <<0, 5>>, <<1, 15>>, <<5, 13>>}
=============================================================================
