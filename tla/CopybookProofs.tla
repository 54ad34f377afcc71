--------------------------- MODULE CopybookProofs ---------------------------
(***************************************************************************)
(* Proofs about reading copybooks, for any lines, names and clauses: what  *)
(* parse_copybook accepts, and what record_length guarantees of a layout.  *)
(***************************************************************************)
EXTENDS Copybook, WellFoundedInduction, TLAPS

-----------------------------------------------------------------------------
(* Induction over numbers, from the least element of a set of them.        *)

Below == OpToRel(<, Nat)

(* A nonempty set of numbers has a least one.                              *)
LEMMA Least ==
    ASSUME NEW S \in SUBSET Nat, S # {}
    PROVE  \E m \in S : \A n \in S : m <= n
<1>1. \A x, y \in Nat : <<y, x>> \in Below <=> y < x
  BY DEF Below, OpToRel
<1>2. IsWellFoundedOn(Below, Nat)
  BY NatLessThanWellFounded DEF Below
<1>3. \E x \in S : \A y \in S : ~(<<y, x>> \in Below)
  BY <1>2, WFMin
<1>4. PICK m \in S : \A y \in S : ~(<<y, m>> \in Below)
  BY <1>3
<1>5. \A n \in S : ~(n < m)
  BY <1>1, <1>4
<1>6. QED
  BY <1>5

(* A set that holds 0 and with each number the next holds all numbers.     *)
LEMMA Induct ==
    ASSUME NEW S, 0 \in S, \A n \in Nat : n \in S => n + 1 \in S
    PROVE  Nat \subseteq S
<1> SUFFICES ASSUME NEW k \in Nat, k \notin S PROVE FALSE
  OBVIOUS
<1>1. PICK m \in Nat \ S : \A n \in Nat \ S : m <= n
  BY Least
<1>2. m # 0 /\ m - 1 \in Nat /\ m - 1 \in S
  BY <1>1
<1>3. QED
  BY <1>1, <1>2

-----------------------------------------------------------------------------
(* Types.                                                                  *)

(* A supported clause takes at least one byte.                             *)
LEMMA ClauseDimensions ==
    ASSUME NEW p \in Picture, NEW d \in PictureLayout(p)
    PROVE  /\ d = [kind |-> d.kind, length |-> d.length, digits |-> d.digits, scale |-> d.scale]
           /\ d.kind \in {"text", "zoned", "packed"}
           /\ d.length \in Nat \ {0} /\ d.digits \in Nat /\ d.scale \in Nat
<1> DEFINE scale == IF p.decimals = None THEN 0 ELSE p.decimals
           digits == p.whole + scale
<1>1. /\ p.kind \in {"text", "zoned", "packed"} /\ p.whole \in Nat
      /\ p.decimals \in Nat \union {None}
  BY DEF Picture
<1>2. scale \in Nat
  BY <1>1
<1>3. p.whole > 0
  BY <1>1 DEF PictureLayout
<1>4. digits \in Nat /\ digits > 0
  BY <1>1, <1>2, <1>3
<1>5. ByteLength(digits) \in Nat \ {0}
  BY <1>4 DEF ByteLength
<1>6. CASE p.kind = "text"
  <2>1. d = [kind |-> "text", length |-> p.whole, digits |-> 0, scale |-> 0]
    BY <1>6 DEF PictureLayout
  <2>2. QED
    BY <2>1, <1>1, <1>3
<1>7. CASE p.kind = "zoned"
  <2>1. d = [kind |-> "zoned", length |-> p.whole, digits |-> p.whole, scale |-> 0]
    BY <1>7 DEF PictureLayout
  <2>2. QED
    BY <2>1, <1>1, <1>3
<1>8. CASE p.kind = "packed"
  <2>1. d = [kind |-> "packed", length |-> ByteLength(digits), digits |-> digits, scale |-> scale]
    BY <1>8 DEF PictureLayout
  <2>2. QED
    BY <2>1, <1>2, <1>4, <1>5
<1>9. QED
  BY <1>1, <1>6, <1>7, <1>8

(* The fields that follow the last one begin where it ends.                *)
LEMMA EndTyped ==
    ASSUME NEW layout \in Seq(FieldLayout)
    PROVE  End(layout) \in Nat
<1>1. ASSUME layout # <<>>
      PROVE  layout[Len(layout)] \in FieldLayout
  BY <1>1
<1>2. QED
  BY <1>1 DEF End, FieldLayout

(* A field that is read is a field.                                        *)
LEMMA FieldTyped ==
    ASSUME NEW line \in Lines, line.kind = "field", NEW d \in PictureLayout(line.picture),
           NEW offset \in Nat
    PROVE  LET f == Field(Lower[line.name], line.picture, d, offset) IN
           /\ f \in FieldLayout /\ Dimensions(f) = d
           /\ f.name = Lower[line.name] /\ f.offset = offset /\ f.picture = line.picture
<1>1. line.picture \in Picture
  BY CopybookAssumption
<1>2. /\ d = [kind |-> d.kind, length |-> d.length, digits |-> d.digits, scale |-> d.scale]
      /\ d.kind \in {"text", "zoned", "packed"}
      /\ d.length \in Nat \ {0} /\ d.digits \in Nat /\ d.scale \in Nat
  BY <1>1, ClauseDimensions
<1>3. Lower[line.name] \in {Lower[l.name] : l \in {l \in Lines : l.kind = "field"}}
  OBVIOUS
<1>4. QED
  BY <1>1, <1>2, <1>3 DEF Field, FieldLayout, Dimensions

(* Changing an offset, a length or a number of digits leaves a field.      *)
LEMMA MadeTyped ==
    ASSUME NEW f \in FieldLayout, NEW attribute \in {"offset", "length", "digits"}, NEW v \in 0..4
    PROVE  [f EXCEPT ![attribute] = v] \in FieldLayout
<1>1. v \in Nat
  OBVIOUS
<1>2. CASE attribute = "offset"
  BY <1>1, <1>2 DEF FieldLayout
<1>3. CASE attribute = "length"
  BY <1>1, <1>3 DEF FieldLayout
<1>4. CASE attribute = "digits"
  BY <1>1, <1>4 DEF FieldLayout
<1>5. QED
  BY <1>2, <1>3, <1>4

LEMMA CopybookTypeStep == ASSUME CopybookTypes, CopybookNext PROVE CopybookTypes'
<1> USE DEF CopybookTypes
<1>1. ASSUME Reading PROVE Line \in Lines /\ at + 1 \in 0..Len(file)
  BY <1>1 DEF Reading, Line
<1>2. CASE Skip
  BY <1>1, <1>2 DEF Skip
<1>3. CASE ReadGroup
  BY <1>1, <1>3 DEF ReadGroup
<1>4. CASE ReadField
  <2>1. Reading /\ IsField /\ at' = at + 1 /\ UNCHANGED <<file, groupSeen, result>>
    BY <1>4 DEF ReadField
  <2>2. PICK layout \in PictureLayout(Line.picture) :
          fields' = Append(fields, Field(Lower[Line.name], Line.picture, layout, End(fields)))
    BY <1>4 DEF ReadField
  <2>3. Field(Lower[Line.name], Line.picture, layout, End(fields)) \in FieldLayout
    BY <1>1, <2>1, EndTyped, FieldTyped DEF IsField
  <2>4. QED
    BY <1>1, <2>1, <2>2, <2>3
<1>5. CASE Refuse
  BY <1>5 DEF Refuse
<1>6. CASE Return
  BY <1>6 DEF Return
<1>7. CASE Make
  <2>1. UNCHANGED <<file, at, groupSeen>> /\ result' = "made"
    BY <1>7 DEF Make
  <2>2. PICK i \in DOMAIN fields, attribute \in {"offset", "length", "digits"}, v \in 0..4 :
          fields' = [fields EXCEPT ![i][attribute] = v]
    BY <1>7 DEF Make
  <2>3. fields[i] \in FieldLayout
    OBVIOUS
  <2>4. [fields[i] EXCEPT ![attribute] = v] \in FieldLayout
    BY <2>3, MadeTyped
  <2>5. fields' = [fields EXCEPT ![i] = [fields[i] EXCEPT ![attribute] = v]]
    BY <2>2
  <2>6. fields' \in Seq(FieldLayout)
    BY <2>4, <2>5
  <2>7. QED
    BY <2>1, <2>6
<1>8. QED
  BY <1>2, <1>3, <1>4, <1>5, <1>6, <1>7, CopybookNext DEF CopybookNext

-----------------------------------------------------------------------------
(* Reading.                                                                *)

(* A field keeps its place in a longer layout.                             *)
LEMMA Prefixes ==
    ASSUME NEW S, NEW s \in Seq(S), NEW e \in S, NEW i \in 1..(Len(s) + 1)
    PROVE  /\ Append(s, e) \in Seq(S) /\ Len(Append(s, e)) = Len(s) + 1
           /\ i <= Len(s) => Append(s, e)[i] = s[i]
           /\ Append(s, e)[Len(s) + 1] = e
           /\ SubSeq(Append(s, e), 1, i - 1) = SubSeq(s, 1, i - 1)
           /\ SubSeq(s, 1, Len(s)) = s
<1>1. /\ Append(s, e) \in Seq(S) /\ Len(Append(s, e)) = Len(s) + 1
      /\ \A k \in 1..Len(s) : Append(s, e)[k] = s[k]
      /\ Append(s, e)[Len(s) + 1] = e
  OBVIOUS
<1>2. SubSeq(s, 1, Len(s)) = s
  OBVIOUS
<1>3. SubSeq(Append(s, e), 1, i - 1) = SubSeq(s, 1, i - 1)
  <2>1. /\ SubSeq(Append(s, e), 1, i - 1) \in Seq(S) /\ Len(SubSeq(Append(s, e), 1, i - 1)) = i - 1
        /\ \A k \in 1..(i - 1) : SubSeq(Append(s, e), 1, i - 1)[k] = Append(s, e)[k]
    BY <1>1
  <2>2. /\ SubSeq(s, 1, i - 1) \in Seq(S) /\ Len(SubSeq(s, 1, i - 1)) = i - 1
        /\ \A k \in 1..(i - 1) : SubSeq(s, 1, i - 1)[k] = s[k]
    OBVIOUS
  <2>3. QED
    BY <1>1, <2>1, <2>2
<1>4. QED
  BY <1>1, <1>2, <1>3

(* ReadField appends a field for the line at hand where the last one ends. *)
LEMMA FieldAppended ==
    ASSUME CopybookTypes, ReadField
    PROVE  /\ Reading /\ IsField /\ Line \in Lines
           /\ at' = at + 1 /\ UNCHANGED <<file, groupSeen, result>>
           /\ \E f \in FieldLayout :
                /\ fields' = Append(fields, f)
                /\ f.name = Lower[Line.name] /\ f.offset = End(fields)
                /\ Dimensions(f) \in PictureLayout(f.picture)
<1>1. Reading /\ IsField /\ at' = at + 1 /\ UNCHANGED <<file, groupSeen, result>>
  BY DEF ReadField
<1>2. Line \in Lines
  BY <1>1 DEF Reading, Line, CopybookTypes
<1>3. PICK layout \in PictureLayout(Line.picture) :
        fields' = Append(fields, Field(Lower[Line.name], Line.picture, layout, End(fields)))
  BY DEF ReadField
<1> DEFINE f == Field(Lower[Line.name], Line.picture, layout, End(fields))
<1>4. End(fields) \in Nat
  BY EndTyped DEF CopybookTypes
<1>5. /\ f \in FieldLayout /\ Dimensions(f) = layout
      /\ f.name = Lower[Line.name] /\ f.offset = End(fields) /\ f.picture = Line.picture
  BY <1>1, <1>2, <1>4, FieldTyped DEF IsField
<1>6. QED
  BY <1>1, <1>2, <1>3, <1>5

LEMMA FieldsFollowStep ==
    ASSUME CopybookInvariant, CopybookNext
    PROVE  FieldsFollow'
<1>1. CopybookTypes /\ FieldsFollow
  BY DEF CopybookInvariant
<1>2. CASE UNCHANGED <<fields, result>>
  BY <1>1, <1>2 DEF FieldsFollow
<1>3. CASE ReadField
  <2>1. PICK f \in FieldLayout :
          /\ fields' = Append(fields, f)
          /\ f.name = Lower[Line.name] /\ f.offset = End(fields)
          /\ Dimensions(f) \in PictureLayout(f.picture)
    BY <1>1, <1>3, FieldAppended
  <2>2. Reading /\ IsField /\ result' = result
    BY <1>1, <1>3, FieldAppended
  <2>3. result' = "reading" /\ fields \in Seq(FieldLayout)
    BY <1>1, <2>2 DEF Reading, CopybookTypes
  <2> DEFINE n == Len(fields)
  <2>4. n \in Nat /\ DOMAIN fields = 1..n /\ DOMAIN fields' = 1..(n + 1)
    BY <2>1, <2>3
  <2> SUFFICES ASSUME NEW i \in 1..(n + 1)
               PROVE  /\ fields'[i].name \notin {Filler} \cup {fields'[j].name : j \in 1..(i - 1)}
                      /\ fields'[i].offset = End(SubSeq(fields', 1, i - 1))
                      /\ Dimensions(fields'[i]) \in PictureLayout(fields'[i].picture)
    BY <2>3, <2>4 DEF FieldsFollow
  <2>5. \A j \in 1..n : fields'[j] = fields[j]
    BY <2>1, <2>3, <2>4
  <2>6. SubSeq(fields', 1, i - 1) = SubSeq(fields, 1, i - 1)
    BY <2>1, <2>3, Prefixes
  <2>7. {fields'[j].name : j \in 1..(i - 1)} = {fields[j].name : j \in 1..(i - 1)}
    BY <2>4, <2>5
  <2>8. CASE i \in 1..n
    <3>1. /\ fields[i].name \notin {Filler} \cup {fields[j].name : j \in 1..(i - 1)}
          /\ fields[i].offset = End(SubSeq(fields, 1, i - 1))
          /\ Dimensions(fields[i]) \in PictureLayout(fields[i].picture)
      BY <1>1, <2>3, <2>2, <2>4, <2>8 DEF FieldsFollow
    <3>2. QED
      BY <3>1, <2>5, <2>6, <2>7, <2>8
  <2>9. CASE i = n + 1
    <3>1. fields'[i] = f /\ i - 1 = n
      BY <2>1, <2>3, <2>4, <2>9
    <3>2. SubSeq(fields, 1, n) = fields
      BY <2>1, <2>3, Prefixes
    <3>3. f.name \notin {Filler} \cup {fields[j].name : j \in 1..n}
      BY <2>1, <2>2, <2>4 DEF IsField
    <3>4. QED
      BY <2>1, <2>6, <2>7, <3>1, <3>2, <3>3
  <2>10. QED
    BY <2>4, <2>8, <2>9
<1>4. CASE Refuse
  BY <1>1, <1>4 DEF Refuse, Reading, FieldsFollow
<1>5. CASE Return
  BY <1>1, <1>5 DEF Return, FieldsFollow
<1>6. CASE Make
  BY <1>6 DEF Make, FieldsFollow
<1>7. QED
  BY <1>2, <1>3, <1>4, <1>5, <1>6 DEF CopybookNext, Skip, ReadGroup

(* One line further, what was read has this line too unless it is ignored. *)
LEMMA ReadOneMore ==
    ASSUME CopybookTypes, Reading, at' = at + 1, UNCHANGED file
    PROVE  /\ at + 1 \in DOMAIN file /\ at + 1 \notin ReadSoFar
           /\ ReadSoFar \subseteq 1..at
           /\ ReadSoFar' = IF Line.kind = "ignored" THEN ReadSoFar ELSE ReadSoFar \union {at + 1}
<1>1. at \in Nat /\ at + 1 \in DOMAIN file
  BY DEF CopybookTypes, Reading
<1>2. 1..(at + 1) = 1..at \union {at + 1}
  BY <1>1
<1>3. QED
  BY <1>1, <1>2 DEF ReadSoFar, Line

(* A group that was read stays so while nothing else is.                   *)
LEMMA GroupStays ==
    ASSUME NEW g, GroupRead(g), ReadSoFar' = ReadSoFar, UNCHANGED <<file, fields>>
    PROVE  GroupRead(g)'
<1>1. file' = file /\ fields' = fields
  OBVIOUS
<1>2. {Lower[file'[i].name] : i \in ReadSoFar' \ {g}} = {Lower[file[i].name] : i \in ReadSoFar \ {g}}
  BY <1>1
<1>3. \A i \in ReadSoFar' : file'[i] = file[i]
  BY <1>1
<1>4. /\ g \in ReadSoFar'
      /\ file'[g].kind = "group" /\ Lower[file'[g].name] # Filler
      /\ ReadSoFar' = {g} <=> fields' = <<>>
      /\ {fields'[k].name : k \in DOMAIN fields'} = {Lower[file'[i].name] : i \in ReadSoFar' \ {g}}
      /\ \A i \in ReadSoFar' \ {g} :
           g < i /\ file'[i].kind = "field" /\ PictureLayout(file'[i].picture) # {}
      /\ \A i, j \in ReadSoFar' \ {g} : Lower[file'[i].name] = Lower[file'[j].name] => i = j
  <2>1. /\ {fields[k].name : k \in DOMAIN fields} = {Lower[file[i].name] : i \in ReadSoFar \ {g}}
        /\ ReadSoFar = {g} <=> fields = <<>>
        /\ g \in ReadSoFar /\ file[g].kind = "group" /\ Lower[file[g].name] # Filler
    BY DEF GroupRead
  <2>2. {fields'[k].name : k \in DOMAIN fields'} = {fields[k].name : k \in DOMAIN fields}
    BY <1>1
  <2>3. \A i \in ReadSoFar \ {g} :
           g < i /\ file[i].kind = "field" /\ PictureLayout(file[i].picture) # {}
    BY DEF GroupRead
  <2>4. \A i, j \in ReadSoFar \ {g} : Lower[file[i].name] = Lower[file[j].name] => i = j
    BY DEF GroupRead
  <2>5. /\ g \in ReadSoFar'
        /\ file'[g].kind = "group" /\ Lower[file'[g].name] # Filler
        /\ ReadSoFar' = {g} <=> fields' = <<>>
    BY <1>1, <2>1
  <2>6. {fields'[k].name : k \in DOMAIN fields'} = {Lower[file'[i].name] : i \in ReadSoFar' \ {g}}
    BY <1>2, <2>1, <2>2
  <2>7. /\ \A i \in ReadSoFar' \ {g} :
             g < i /\ file'[i].kind = "field" /\ PictureLayout(file'[i].picture) # {}
        /\ \A i, j \in ReadSoFar' \ {g} : Lower[file'[i].name] = Lower[file'[j].name] => i = j
    BY <1>1, <2>3, <2>4
  <2>8. QED
    BY <2>5, <2>6, <2>7
<1>5. QED
  BY <1>4 DEF GroupRead

LEMMA LinesReadStep ==
    ASSUME CopybookInvariant, CopybookNext
    PROVE  LinesRead'
<1>1. CopybookTypes /\ LinesRead
  BY DEF CopybookInvariant
<1>2. CASE Skip
  <2>1. ReadSoFar' = ReadSoFar
    BY <1>1, <1>2, ReadOneMore DEF Skip
  <2>2. \A g : GroupRead(g) => GroupRead(g)'
    BY <1>2, <2>1, GroupStays DEF Skip
  <2>3. at \in Nat /\ at' = at + 1 /\ result = "reading" /\ UNCHANGED <<groupSeen, fields>>
    BY <1>1, <1>2 DEF Skip, Reading, CopybookTypes
  <2>4. QED
    BY <1>1, <2>1, <2>2, <2>3 DEF LinesRead
<1>3. CASE ReadGroup
  <2>1. /\ Reading /\ StartsGroup /\ groupSeen' = TRUE /\ at' = at + 1
        /\ UNCHANGED <<file, fields, result>>
    BY <1>3 DEF ReadGroup
  <2>2. ReadSoFar = {} /\ fields = <<>>
    BY <1>1, <2>1 DEF LinesRead, Reading, StartsGroup
  <2>3. PICK g \in Nat : g = at + 1
    BY <1>1 DEF CopybookTypes
  <2>4. ReadSoFar' = {g} /\ g \in 1..at'
    BY <1>1, <2>1, <2>2, <2>3, ReadOneMore DEF StartsGroup, CopybookTypes
  <2>5. file'[g].kind = "group" /\ Lower[file'[g].name] # Filler
    BY <2>1, <2>3 DEF StartsGroup, Line
  <2>6. {fields'[k].name : k \in DOMAIN fields'} = {} /\ ReadSoFar' \ {g} = {} /\ fields' = <<>>
    BY <2>1, <2>2, <2>4
  <2>7. GroupRead(g)'
    BY <2>4, <2>5, <2>6 DEF GroupRead
  <2>8. QED
    BY <2>1, <2>4, <2>7 DEF LinesRead
<1>4. CASE ReadField
  <2>1. /\ Reading /\ IsField /\ at' = at + 1
        /\ UNCHANGED <<file, groupSeen, result>>
    BY <1>1, <1>4, FieldAppended
  <2>2. PICK g \in 1..at : GroupRead(g)
    BY <1>1, <2>1 DEF LinesRead, IsField, Reading
  <2>3. PICK f \in FieldLayout : fields' = Append(fields, f) /\ f.name = Lower[Line.name]
    BY <1>1, <1>4, FieldAppended
  <2>4. /\ ReadSoFar' = ReadSoFar \union {at + 1}
        /\ at + 1 \notin ReadSoFar /\ ReadSoFar \subseteq 1..at
    BY <1>1, <2>1, ReadOneMore DEF IsField
  <2>5. /\ DOMAIN fields = 1..Len(fields) /\ DOMAIN fields' = 1..(Len(fields) + 1) /\ Len(fields) \in Nat
        /\ \A k \in 1..Len(fields) : fields'[k] = fields[k]
        /\ fields'[Len(fields) + 1] = f
    BY <1>1, <2>3 DEF CopybookTypes
  <2>6. fields' # <<>>
    BY <2>3, <1>1 DEF CopybookTypes
  <2>7. {fields'[k].name : k \in DOMAIN fields'}
          = {fields[k].name : k \in DOMAIN fields} \union {Lower[Line.name]}
    BY <2>3, <2>5
  <2>8. Line = file[at + 1] /\ file' = file
    BY <2>1 DEF Line
  <2>9. /\ g \in ReadSoFar /\ at \in Nat /\ g < at + 1
    BY <1>1, <2>2 DEF GroupRead, CopybookTypes
  <2> DEFINE old == ReadSoFar \ {g}
             new == ReadSoFar' \ {g}
  <2>10. new = old \union {at + 1} /\ at + 1 \notin old
    BY <2>4, <2>9
  <2>11. {Lower[file[i].name] : i \in new} = {Lower[file[i].name] : i \in old} \union {Lower[Line.name]}
    BY <2>8, <2>10
  <2>12. {fields[k].name : k \in DOMAIN fields} = {Lower[file[i].name] : i \in old}
    BY <2>2 DEF GroupRead
  <2>13. Lower[Line.name] \notin {Lower[file[i].name] : i \in old}
    BY <2>1, <2>12 DEF IsField
  <2>14. \A i \in new : g < i /\ file[i].kind = "field" /\ PictureLayout(file[i].picture) # {}
    BY <2>1, <2>2, <2>8, <2>9, <2>10 DEF GroupRead, IsField
  <2>15. ASSUME NEW i \in new, NEW j \in new, Lower[file[i].name] = Lower[file[j].name]
         PROVE  i = j
    <3>1. CASE i \in old /\ j \in old
      BY <2>2, <2>15, <3>1 DEF GroupRead
    <3>2. CASE i = at + 1 /\ j = at + 1
      BY <3>2
    <3>3. CASE i = at + 1 /\ j \in old
      BY <2>8, <2>13, <2>15, <3>3
    <3>4. CASE i \in old /\ j = at + 1
      BY <2>8, <2>13, <2>15, <3>4
    <3>5. QED
      BY <2>10, <3>1, <3>2, <3>3, <3>4
  <2>16. g \in ReadSoFar' /\ ReadSoFar' # {g}
    BY <2>4, <2>9
  <2>17. file[g].kind = "group" /\ Lower[file[g].name] # Filler
    BY <2>2 DEF GroupRead
  <2>18. {fields'[k].name : k \in DOMAIN fields'} = {Lower[file[i].name] : i \in new}
    BY <2>7, <2>11, <2>12
  <2>19. /\ g \in ReadSoFar'
         /\ file'[g].kind = "group" /\ Lower[file'[g].name] # Filler
         /\ ReadSoFar' = {g} <=> fields' = <<>>
         /\ {fields'[k].name : k \in DOMAIN fields'} = {Lower[file'[i].name] : i \in ReadSoFar' \ {g}}
         /\ \A i \in ReadSoFar' \ {g} :
              g < i /\ file'[i].kind = "field" /\ PictureLayout(file'[i].picture) # {}
         /\ \A i, j \in ReadSoFar' \ {g} : Lower[file'[i].name] = Lower[file'[j].name] => i = j
    <3> HIDE DEF old, new
    <3>1. \A i, j \in new : Lower[file[i].name] = Lower[file[j].name] => i = j
      BY <2>15
    <3>2. {Lower[file'[i].name] : i \in new} = {Lower[file[i].name] : i \in new}
      BY <2>8
    <3>3. /\ {fields'[k].name : k \in DOMAIN fields'} = {Lower[file'[i].name] : i \in new}
          /\ \A i \in new : g < i /\ file'[i].kind = "field" /\ PictureLayout(file'[i].picture) # {}
          /\ \A i, j \in new : Lower[file'[i].name] = Lower[file'[j].name] => i = j
      BY <2>8, <2>14, <2>18, <3>1, <3>2
    <3>4. QED
      BY <2>6, <2>8, <2>16, <2>17, <3>3 DEF new
  <2>20. GroupRead(g)'
    BY <2>19 DEF GroupRead
  <2>21. g \in 1..at'
    BY <1>1, <2>1, <2>2, <2>9
  <2>22. QED
    BY <2>1, <2>20, <2>21 DEF LinesRead, IsField
<1>5. CASE Refuse \/ Return \/ Make
  BY <1>5 DEF Refuse, Return, Make, LinesRead
<1>6. QED
  BY <1>2, <1>3, <1>4, <1>5 DEF CopybookNext

(* The lines that are not ignored; the group is the first of them.         *)
Statements == {i \in DOMAIN file : file[i].kind # "ignored"}

HasGroup(g) ==
    /\ g \in Statements
    /\ file[g].kind = "group" /\ Lower[file[g].name] # Filler
    /\ Statements # {g}
    /\ \A i \in Statements \ {g} :
         /\ g < i
         /\ file[i].kind = "field"
         /\ Lower[file[i].name] # Filler
         /\ PictureLayout(file[i].picture) # {}
    /\ \A i, j \in Statements \ {g} : Lower[file[i].name] = Lower[file[j].name] => i = j

LEMMA WellFormedIs == WellFormed <=> \E g : HasGroup(g)
BY DEF WellFormed, HasGroup, Statements

(* What is refused is no copybook as it should be.                         *)
LEMMA RefusedIsIllFormed ==
    ASSUME CopybookInvariant, Refuse
    PROVE  ~WellFormed
<1> SUFFICES ASSUME NEW g, HasGroup(g) PROVE FALSE
  BY WellFormedIs
<1>1. CopybookTypes /\ FieldsFollow /\ LinesRead
  BY DEF CopybookInvariant
<1>2. Reading /\ Line.kind # "ignored" /\ ~StartsGroup /\ ~IsField
  BY DEF Refuse
<1>3. at \in Nat /\ at + 1 \in Statements /\ Line = file[at + 1]
  BY <1>1, <1>2 DEF CopybookTypes, Reading, Line, Statements
<1>4. ReadSoFar \subseteq Statements /\ ReadSoFar \subseteq 1..at /\ Statements \subseteq Nat
      /\ \A i \in Statements : i < at + 1 => i \in ReadSoFar
  BY <1>1, <1>3 DEF ReadSoFar, Statements, CopybookTypes
<1>5. CASE ~groupSeen
  <2>1. ReadSoFar = {}
    BY <1>1, <1>2, <1>5 DEF LinesRead, Reading
  <2>2. g = at + 1
    BY <1>3, <1>4, <2>1 DEF HasGroup
  <2>3. StartsGroup
    BY <1>3, <1>5, <2>2 DEF StartsGroup, HasGroup
  <2>4. QED
    BY <1>2, <2>3
<1>6. CASE groupSeen
  <2>1. PICK h \in 1..at : GroupRead(h)
    BY <1>1, <1>2, <1>6 DEF LinesRead, Reading
  <2>2. h \in Statements /\ file[h].kind = "group"
    BY <1>4, <2>1 DEF GroupRead
  <2>3. h = g
    BY <2>2 DEF HasGroup
  <2>4. at + 1 \in Statements \ {g}
    BY <1>3, <2>1, <2>3
  <2>5. \A i \in ReadSoFar \ {g} : i \in Statements \ {g} /\ i # at + 1
    BY <1>3, <1>4
  <2>6. Lower[Line.name] \notin {Lower[file[i].name] : i \in ReadSoFar \ {g}}
    BY <1>3, <2>4, <2>5 DEF HasGroup
  <2>7. {fields[k].name : k \in DOMAIN fields} = {Lower[file[i].name] : i \in ReadSoFar \ {g}}
    BY <2>1, <2>3 DEF GroupRead
  <2>8. Line.kind = "field" /\ Lower[Line.name] # Filler /\ PictureLayout(Line.picture) # {}
    BY <1>3, <2>4 DEF HasGroup
  <2>9. IsField
    BY <1>6, <2>6, <2>7, <2>8 DEF IsField
  <2>10. QED
    BY <1>2, <2>9
<1>7. QED
  BY <1>5, <1>6

(* A file that was read to its end is as it should be if it has fields.    *)
LEMMA ReturnedIsRight ==
    ASSUME CopybookInvariant, Return
    PROVE  WellFormed <=> fields # <<>>
<1>1. CopybookTypes /\ FieldsFollow /\ LinesRead /\ result = "reading"
  BY DEF CopybookInvariant, Return
<1>2. ReadSoFar = Statements
  BY <1>1 DEF Return, CopybookTypes, ReadSoFar, Statements
<1>3. CASE ~groupSeen
  <2>1. Statements = {} /\ fields = <<>>
    BY <1>1, <1>2, <1>3 DEF LinesRead
  <2>2. QED
    BY <2>1, WellFormedIs DEF HasGroup
<1>4. CASE groupSeen
  <2>1. PICK g \in 1..at : GroupRead(g)
    BY <1>1, <1>4 DEF LinesRead
  <2>2. Statements = {g} <=> fields = <<>>
    BY <1>2, <2>1 DEF GroupRead
  <2>3. ASSUME Statements = {g}
        PROVE  ~WellFormed
    BY <2>3, WellFormedIs DEF HasGroup
  <2>4. ASSUME Statements # {g}
        PROVE  HasGroup(g)
    <3>1. \A k \in DOMAIN fields : fields[k].name # Filler
      BY <1>1 DEF FieldsFollow
    <3>2. {fields[k].name : k \in DOMAIN fields} = {Lower[file[i].name] : i \in Statements \ {g}}
      BY <1>2, <2>1 DEF GroupRead
    <3>3. \A i \in Statements \ {g} : Lower[file[i].name] # Filler
      BY <3>1, <3>2
    <3>4. /\ g \in Statements /\ file[g].kind = "group" /\ Lower[file[g].name] # Filler
          /\ \A i \in Statements \ {g} :
               g < i /\ file[i].kind = "field" /\ PictureLayout(file[i].picture) # {}
          /\ \A i, j \in Statements \ {g} : Lower[file[i].name] = Lower[file[j].name] => i = j
      BY <1>2, <2>1 DEF GroupRead
    <3>5. QED
      BY <2>4, <3>3, <3>4 DEF HasGroup
  <2>5. QED
    BY <2>2, <2>3, <2>4, WellFormedIs
<1>5. QED
  BY <1>1, <1>3, <1>4 DEF CopybookTypes

LEMMA AcceptsStep ==
    ASSUME CopybookInvariant, CopybookNext
    PROVE  AcceptsWellFormed'
<1>1. UNCHANGED file
  BY DEF CopybookNext, Skip, ReadGroup, ReadField, Refuse, Return, Make
<1>2. WellFormed' <=> WellFormed
  BY <1>1 DEF WellFormed
<1>3. CASE Refuse
  BY <1>2, <1>3, RefusedIsIllFormed DEF Refuse, AcceptsWellFormed
<1>4. CASE Return
  BY <1>2, <1>4, ReturnedIsRight DEF Return, AcceptsWellFormed
<1>5. CASE Skip \/ ReadGroup \/ ReadField
  BY <1>5 DEF Skip, ReadGroup, ReadField, Reading, AcceptsWellFormed
<1>6. CASE Make
  BY <1>6 DEF Make, AcceptsWellFormed
<1>7. QED
  BY <1>3, <1>4, <1>5, <1>6 DEF CopybookNext

LEMMA CopybookBegins == CopybookInit \/ CopybookIdle => CopybookInvariant
<1> SUFFICES ASSUME CopybookInit \/ CopybookIdle PROVE CopybookInvariant
  OBVIOUS
<1>1. groupSeen = FALSE
  BY DEF CopybookInit, CopybookIdle
<1>2. at = 0 /\ fields = <<>> /\ result \in {"none", "reading"}
  BY DEF CopybookInit, CopybookIdle
<1>3. file \in Seq(Lines)
  <2>1. CASE CopybookInit
    <3>1. PICK n \in 0..MaxLines : file \in [1..n -> Lines]
      BY <2>1 DEF CopybookInit
    <3>2. QED
      BY <3>1, CopybookAssumption
  <2>2. CASE CopybookIdle
    BY <2>2 DEF CopybookIdle
  <2>3. QED
    BY <2>1, <2>2
<1>4. CopybookTypes
  <2>1. groupSeen \in BOOLEAN
    BY <1>1
  <2>2. fields \in Seq(FieldLayout) /\ at \in 0..Len(file)
    BY <1>2, <1>3
  <2>3. QED
    BY <1>2, <1>3, <2>1, <2>2 DEF CopybookTypes
<1>5. FieldsFollow
  BY <1>2 DEF FieldsFollow
<1>6. LinesRead
  BY <1>1, <1>2 DEF LinesRead, ReadSoFar
<1>7. AcceptsWellFormed
  BY <1>2 DEF AcceptsWellFormed
<1>8. QED
  BY <1>4, <1>5, <1>6, <1>7 DEF CopybookInvariant

LEMMA CopybookStep == CopybookInvariant /\ CopybookNext => CopybookInvariant'
BY CopybookTypeStep, FieldsFollowStep, LinesReadStep, AcceptsStep DEF CopybookInvariant

LEMMA CopybookStutters == CopybookInvariant /\ UNCHANGED copybookVars => CopybookInvariant'
<1> SUFFICES ASSUME CopybookInvariant, UNCHANGED copybookVars PROVE CopybookInvariant'
  OBVIOUS
<1> USE DEF copybookVars, CopybookInvariant
<1>1. CopybookTypes' /\ FieldsFollow' /\ AcceptsWellFormed'
  <2>1. CopybookTypes'
    BY DEF CopybookTypes
  <2>2. FieldsFollow'
    BY DEF FieldsFollow
  <2>3. WellFormed' <=> WellFormed
    BY DEF WellFormed
  <2>4. QED
    BY <2>1, <2>2, <2>3 DEF AcceptsWellFormed
<1>2. ReadSoFar' = ReadSoFar
  BY DEF ReadSoFar
<1>3. \A g : GroupRead(g) => GroupRead(g)'
  BY <1>2, GroupStays
<1>4. LinesRead'
  BY <1>2, <1>3 DEF LinesRead
<1>5. QED
  BY <1>1, <1>4

-----------------------------------------------------------------------------
(* Using a layout.                                                         *)

(* record_length accepts what parse_copybook returns.                      *)
LEMMA ReadIsUsable == CopybookInvariant => ReadsCopybooks
<1> SUFFICES ASSUME CopybookInvariant PROVE ReadsCopybooks
  OBVIOUS
<1>1. ASSUME result = "layout", \A i \in DOMAIN fields : fields[i].name \notin Odd
      PROVE  RecordLength(fields) = {End(fields)}
  BY <1>1 DEF CopybookInvariant, FieldsFollow, RecordLength
<1>2. LayoutIsUsable
  BY <1>1 DEF LayoutIsUsable
<1>3. QED
  BY <1>2 DEF CopybookInvariant, ReadsCopybooks

(* A layout record_length accepts: each field begins where the one before  *)
(* ends, the first at 0, and none is empty.                                *)
LEMMA LayoutOffsets ==
    ASSUME NEW layout \in Seq(FieldLayout), RecordLength(layout) # {}
    PROVE  /\ Len(layout) \in Nat \ {0} /\ DOMAIN layout = 1..Len(layout)
           /\ RecordLength(layout) = {layout[Len(layout)].offset + layout[Len(layout)].length}
           /\ \A i \in 1..Len(layout) : layout[i].offset \in Nat /\ layout[i].length \in Nat \ {0}
           /\ layout[1].offset = 0
           /\ \A i \in 1..(Len(layout) - 1) :
                layout[i + 1].offset = layout[i].offset + layout[i].length
<1> DEFINE n == Len(layout)
<1>1. /\ layout # <<>> /\ RecordLength(layout) = {End(layout)}
      /\ \A i \in DOMAIN layout :
           /\ layout[i].offset = End(SubSeq(layout, 1, i - 1))
           /\ Dimensions(layout[i]) \in PictureLayout(layout[i].picture)
  BY DEF RecordLength
<1>2. n \in Nat \ {0} /\ DOMAIN layout = 1..n /\ \A i \in 1..n : layout[i] \in FieldLayout
  BY <1>1
<1>3. RecordLength(layout) = {layout[n].offset + layout[n].length}
  BY <1>1 DEF End
<1>4. ASSUME NEW i \in 1..n
      PROVE  layout[i].offset \in Nat /\ layout[i].length \in Nat \ {0}
  <2>1. layout[i].offset \in Nat /\ layout[i].picture \in Picture
    BY <1>2 DEF FieldLayout
  <2>2. Dimensions(layout[i]) \in PictureLayout(layout[i].picture)
    BY <1>1, <1>2
  <2>3. Dimensions(layout[i]).length \in Nat \ {0}
    BY <2>1, <2>2, ClauseDimensions
  <2>4. QED
    BY <2>1, <2>3 DEF Dimensions
<1>5. layout[1].offset = 0
  <2>1. SubSeq(layout, 1, 0) = <<>>
    OBVIOUS
  <2>2. layout[1].offset = End(SubSeq(layout, 1, 0))
    BY <1>1, <1>2
  <2>3. QED
    BY <2>1, <2>2 DEF End
<1>6. ASSUME NEW i \in 1..(n - 1)
      PROVE  layout[i + 1].offset = layout[i].offset + layout[i].length
  <2> DEFINE before == SubSeq(layout, 1, i)
  <2>1. before # <<>> /\ Len(before) = i /\ before[i] = layout[i]
    BY <1>2
  <2>2. layout[i + 1].offset = End(before)
    <3>1. i + 1 \in DOMAIN layout /\ (i + 1) - 1 = i
      BY <1>2
    <3>2. layout[i + 1].offset = End(SubSeq(layout, 1, (i + 1) - 1))
      BY <1>1, <3>1
    <3>3. QED
      BY <3>1, <3>2
  <2>3. QED
    BY <2>1, <2>2 DEF End
<1>7. QED
  BY <1>2, <1>3, <1>4, <1>5, <1>6

(* So a later field lies behind an earlier one.                            *)
LEMMA FieldsAscend ==
    ASSUME NEW layout \in Seq(FieldLayout), RecordLength(layout) # {},
           NEW i \in DOMAIN layout, NEW j \in DOMAIN layout, i < j
    PROVE  layout[i].offset + layout[i].length <= layout[j].offset
<1>1. PICK n \in Nat \ {0} :
        /\ DOMAIN layout = 1..n
        /\ \A k \in 1..n : layout[k].offset \in Nat /\ layout[k].length \in Nat \ {0}
        /\ \A k \in 1..(n - 1) : layout[k + 1].offset = layout[k].offset + layout[k].length
  <2>1. PICK n \in Nat \ {0} : n = Len(layout)
    BY LayoutOffsets
  <2>2. QED
    BY <2>1, LayoutOffsets
<1> DEFINE Behind(d) == i + d + 1 <= n =>
                          layout[i].offset + layout[i].length <= layout[i + d + 1].offset
           S == {d \in Nat : Behind(d)}
<1>2. 0 \in S
  BY <1>1
<1>3. ASSUME NEW d \in Nat, d \in S
      PROVE  d + 1 \in S
  <2> SUFFICES ASSUME i + (d + 1) + 1 <= n PROVE Behind(d + 1)
    OBVIOUS
  <2>1. PICK k \in 1..(n - 1) : k = i + d + 1
    BY <1>1
  <2>2. layout[k + 1].offset = layout[k].offset + layout[k].length
        /\ layout[k].offset \in Nat /\ layout[k].length \in Nat
    <3>1. k \in 1..n
      OBVIOUS
    <3>2. layout[k].offset \in Nat /\ layout[k].length \in Nat
      BY <1>1, <3>1
    <3>3. layout[k + 1].offset = layout[k].offset + layout[k].length
      BY <1>1
    <3>4. QED
      BY <3>2, <3>3
  <2>3. layout[i].offset + layout[i].length <= layout[k].offset
    BY <1>1, <1>3, <2>1
  <2>4. layout[i].offset + layout[i].length <= layout[k + 1].offset
    <3>1. PICK end \in Nat : end = layout[i].offset + layout[i].length
      <4>1. layout[i].offset \in Nat /\ layout[i].length \in Nat
        BY <1>1
      <4>2. QED
        BY <4>1
    <3>2. PICK p \in Nat, q \in Nat : p = layout[k].offset /\ q = layout[k].length
      BY <2>2
    <3>3. end <= p /\ layout[k + 1].offset = p + q
      BY <2>2, <2>3, <3>1, <3>2
    <3>4. QED
      BY <3>1, <3>3
  <2>5. i + (d + 1) + 1 = k + 1
    BY <1>1, <2>1
  <2>6. QED
    BY <2>4, <2>5
<1> HIDE DEF S
<1>4. Nat \subseteq S
  BY <1>2, <1>3, Induct
<1>5. PICK d \in Nat : j = i + d + 1
  <2>1. j - i - 1 \in Nat /\ j = i + (j - i - 1) + 1
    BY <1>1
  <2>2. QED
    BY <2>1
<1>6. QED
  BY <1>1, <1>4, <1>5 DEF S

(* And every byte before the end of a field is in this one or an earlier   *)
(* one.                                                                    *)
LEMMA BytesCovered ==
    ASSUME NEW layout \in Seq(FieldLayout), RecordLength(layout) # {},
           NEW byte \in Nat, NEW last \in DOMAIN layout,
           byte < layout[last].offset + layout[last].length
    PROVE  \E i \in DOMAIN layout :
             byte \in layout[i].offset..(layout[i].offset + layout[i].length - 1)
<1> DEFINE n == Len(layout)
           Covered == \E i \in DOMAIN layout :
             byte \in layout[i].offset..(layout[i].offset + layout[i].length - 1)
           S == {k \in Nat : k + 1 <= n /\ byte < layout[k + 1].offset + layout[k + 1].length => Covered}
<1>1. /\ n \in Nat \ {0} /\ DOMAIN layout = 1..n
      /\ \A k \in 1..n : layout[k].offset \in Nat /\ layout[k].length \in Nat \ {0}
      /\ \A k \in 1..(n - 1) : layout[k + 1].offset = layout[k].offset + layout[k].length
      /\ layout[1].offset = 0
  BY LayoutOffsets
<1>2. ASSUME NEW k \in 1..n, layout[k].offset <= byte, byte < layout[k].offset + layout[k].length
      PROVE  Covered
  BY <1>1, <1>2
<1>3. 0 \in S
  BY <1>1, <1>2
<1>4. ASSUME NEW k \in Nat, k \in S
      PROVE  k + 1 \in S
  <2> SUFFICES ASSUME (k + 1) + 1 <= n,
                      byte < layout[(k + 1) + 1].offset + layout[(k + 1) + 1].length
               PROVE  Covered
    OBVIOUS
  <2>1. PICK m \in 1..(n - 1) : m = k + 1
    BY <1>1
  <2>2. CASE byte < layout[m].offset + layout[m].length
    BY <1>1, <1>4, <2>1, <2>2
  <2>3. CASE ~(byte < layout[m].offset + layout[m].length)
    <3>1. layout[m + 1].offset <= byte /\ m + 1 \in 1..n
      BY <1>1, <2>1, <2>3
    <3>2. QED
      BY <1>2, <2>1, <3>1
  <2>4. QED
    BY <2>2, <2>3
<1> HIDE DEF S, Covered
<1>5. Nat \subseteq S
  BY <1>3, <1>4, Induct
<1>6. last - 1 \in Nat /\ (last - 1) + 1 = last /\ last <= n
  BY <1>1
<1>7. Covered
  BY <1>5, <1>6 DEF S
<1>8. QED
  BY <1>7 DEF Covered

(* So the fields of a layout record_length accepts tile the record.        *)
LEMMA LayoutTiles == CopybookTypes => FieldsTileRecord
<1> SUFFICES ASSUME CopybookTypes, NEW n \in RecordLength(fields), NEW byte \in 0..(n - 1)
             PROVE  \E i \in DOMAIN fields : \A j \in DOMAIN fields :
                      byte \in fields[j].offset..(fields[j].offset + fields[j].length - 1) <=> i = j
  BY DEF FieldsTileRecord
<1> DEFINE In(j) == byte \in fields[j].offset..(fields[j].offset + fields[j].length - 1)
<1>1. fields \in Seq(FieldLayout)
  BY DEF CopybookTypes
<1>2. /\ Len(fields) \in Nat \ {0} /\ DOMAIN fields = 1..Len(fields)
      /\ RecordLength(fields) = {fields[Len(fields)].offset + fields[Len(fields)].length}
      /\ \A i \in 1..Len(fields) : fields[i].offset \in Nat /\ fields[i].length \in Nat \ {0}
  BY <1>1, LayoutOffsets
<1>3. byte \in Nat /\ byte < fields[Len(fields)].offset + fields[Len(fields)].length
  BY <1>2
<1>4. PICK i \in DOMAIN fields : In(i)
  <2>1. Len(fields) \in DOMAIN fields
    BY <1>2
  <2>2. QED
    BY <1>1, <1>3, <2>1, BytesCovered
<1>5. ASSUME NEW j \in DOMAIN fields, In(j), j # i
      PROVE  FALSE
  <2>1. i < j \/ j < i
    BY <1>2, <1>5
  <2> DEFINE start(k) == fields[k].offset
             end(k) == fields[k].offset + fields[k].length
  <2>2. \A k \in {i, j} : start(k) \in Nat /\ end(k) \in Nat
    BY <1>2
  <2>3. \A k \in {i, j} : start(k) <= byte /\ byte < end(k)
    <3>1. \A p, q \in Nat : byte \in p..(p + q - 1) => p <= byte /\ byte < p + q
      BY <1>3
    <3>2. \A k \in {i, j} : fields[k].offset \in Nat /\ fields[k].length \in Nat /\ In(k)
      BY <1>2, <1>4, <1>5
    <3>3. QED
      BY <3>1, <3>2
  <2> HIDE DEF start, end
  <2>4. CASE i < j
    <3>1. end(i) <= start(j)
      BY <1>1, <2>4, FieldsAscend DEF start, end
    <3>2. QED
      BY <1>3, <2>2, <2>3, <3>1
  <2>5. CASE j < i
    <3>1. end(j) <= start(i)
      BY <1>1, <2>5, FieldsAscend DEF start, end
    <3>2. QED
      BY <1>3, <2>2, <2>3, <3>1
  <2>6. QED
    BY <2>1, <2>4, <2>5
<1>6. QED
  BY <1>4, <1>5
=============================================================================
