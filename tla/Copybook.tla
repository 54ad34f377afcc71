------------------------------ MODULE Copybook ------------------------------
(***************************************************************************)
(* parse_copybook: a copybook is read line by line, one 01 group and flat  *)
(* 05 fields, anything else refused; the layout it gives is checked again  *)
(* by record_length wherever it is used, since a caller may have made one  *)
(* by other means.                                                         *)
(***************************************************************************)
EXTENDS RecordLayout

CONSTANTS
    Lines,         \* lines a copybook may have
    Lower,         \* name -> the name in lower case
    MaxLines       \* bound: lines of a copybook

(* What the patterns of parse_copybook read from a line.                   *)
Picture == [kind : {"text", "zoned", "packed"}, signed : BOOLEAN, whole : Nat,
            decimals : Nat \union {None}]

ASSUME CopybookAssumption ==
    /\ MaxLines \in Nat
    /\ \A line \in Lines : line.kind = "field" => line.picture \in Picture

VARIABLES
    file,          \* the lines
    at,            \* lines read
    groupSeen,
    fields,
    result         \* "none", "reading", "layout", "error", or "made" by other means

copybookVars == <<file, at, groupSeen, fields, result>>

Line == file[at + 1]

(* No copybook is read.                                                    *)
CopybookIdle == file = <<>> /\ at = 0 /\ groupSeen = FALSE /\ fields = <<>> /\ result = "none"

CopybookInit ==
    /\ file \in UNION {[1..n -> Lines] : n \in 0..MaxLines}
    /\ at = 0
    /\ groupSeen = FALSE
    /\ fields = <<>>
    /\ result = "reading"

Reading == result = "reading" /\ at < Len(file)

Skip ==
    /\ Reading
    /\ Line.kind = "ignored"
    /\ at' = at + 1
    /\ UNCHANGED <<file, groupSeen, fields, result>>

StartsGroup == Line.kind = "group" /\ ~groupSeen /\ Lower[Line.name] # Filler

ReadGroup ==
    /\ Reading
    /\ StartsGroup
    /\ groupSeen' = TRUE
    /\ at' = at + 1
    /\ UNCHANGED <<file, fields, result>>

IsField ==
    /\ groupSeen
    /\ Line.kind = "field"
    /\ Lower[Line.name] \notin {Filler} \cup {fields[i].name : i \in DOMAIN fields}
    /\ PictureLayout(Line.picture) # {}

(* Mutant: the offset counts characters of the clause, a packed field's    *)
(* digits for its bytes.                                                   *)
ReadFieldByDigits ==
    /\ Reading
    /\ IsField
    /\ \E layout \in PictureLayout(Line.picture) :
         fields' = Append(fields, Field(Lower[Line.name], Line.picture, layout,
             IF fields = <<>> THEN 0
             ELSE fields[Len(fields)].offset + fields[Len(fields)].picture.whole))
    /\ at' = at + 1
    /\ UNCHANGED <<file, groupSeen, result>>

ReadField ==
    /\ Reading
    /\ IsField
    /\ \E layout \in PictureLayout(Line.picture) :
         fields' = Append(fields, Field(Lower[Line.name], Line.picture, layout, End(fields)))
    /\ at' = at + 1
    /\ UNCHANGED <<file, groupSeen, result>>

Refuse ==
    /\ Reading
    /\ Line.kind # "ignored" /\ ~StartsGroup /\ ~IsField
    /\ result' = "error"
    /\ UNCHANGED <<file, at, groupSeen, fields>>

Return ==
    /\ result = "reading"
    /\ at = Len(file)
    /\ result' = IF fields = <<>> THEN "error" ELSE "layout"
    /\ UNCHANGED <<file, at, groupSeen, fields>>

(* A caller replaces an attribute of a field.                              *)
Make ==
    /\ result = "layout"
    /\ \E i \in DOMAIN fields, attribute \in {"offset", "length", "digits"}, v \in 0..4 :
         fields' = [fields EXCEPT ![i][attribute] = v]
    /\ result' = "made"
    /\ UNCHANGED <<file, at, groupSeen>>

CopybookNext == Skip \/ ReadGroup \/ ReadField \/ Refuse \/ Return \/ Make

-----------------------------------------------------------------------------
(* Reference: the copybooks the docstring of parse_copybook describes.     *)
WellFormed ==
    LET text == {i \in DOMAIN file : file[i].kind # "ignored"}
    IN  \E g \in text :
          /\ file[g].kind = "group" /\ Lower[file[g].name] # Filler
          /\ text # {g}
          /\ \A i \in text \ {g} :
               /\ g < i
               /\ file[i].kind = "field"
               /\ Lower[file[i].name] # Filler
               /\ PictureLayout(file[i].picture) # {}
          /\ \A i, j \in text \ {g} : Lower[file[i].name] = Lower[file[j].name] => i = j

(* A copybook gives a layout exactly if it is one group of flat fields     *)
(* with distinct names and supported clauses, wherever its comments are    *)
(* (copybook.py:46-83).                                                    *)
AcceptsWellFormed ==
    /\ result = "layout" => WellFormed
    /\ result = "error" => ~WellFormed

(* What parse_copybook returns, record_length accepts, but for a name with *)
(* an odd letter (copybook.py:76-78, 86-113).                              *)
LayoutIsUsable ==
    /\ result = "layout"
    /\ \A i \in DOMAIN fields : fields[i].name \notin Odd
    => RecordLength(fields) # {}

(* The copybooks it accepts are the right ones, and their layouts usable   *)
(* (copybook.py:46-113).                                                   *)
ReadsCopybooks == AcceptsWellFormed /\ LayoutIsUsable

(* In a layout record_length accepts, whoever made it, every byte of the   *)
(* record belongs to exactly one field: none is decoded twice or not at    *)
(* all (copybook.py:86-113).                                               *)
FieldsTileRecord ==
    \A n \in RecordLength(fields) : \A byte \in 0..(n - 1) :
        \E i \in DOMAIN fields : \A j \in DOMAIN fields :
            byte \in fields[j].offset..(fields[j].offset + fields[j].length - 1) <=> i = j

-----------------------------------------------------------------------------
(* The inductive invariant behind these.                                   *)

FieldLayout ==
    [name : {Lower[line.name] : line \in {l \in Lines : l.kind = "field"}}, picture : Picture, offset : Nat,
     kind : {"text", "zoned", "packed"}, length : Nat, digits : Nat, scale : Nat]

CopybookTypes ==
    /\ file \in Seq(Lines)
    /\ at \in 0..Len(file)
    /\ groupSeen \in BOOLEAN
    /\ fields \in Seq(FieldLayout)
    /\ result \in {"none", "reading", "layout", "error", "made"}

(* The fields read so far follow each other.                               *)
FieldsFollow ==
    /\ result = "layout" => fields # <<>>
    /\ result # "made" =>
        \A i \in DOMAIN fields :
            /\ fields[i].name \notin {Filler} \cup {fields[j].name : j \in 1..(i - 1)}
            /\ fields[i].offset = End(SubSeq(fields, 1, i - 1))
            /\ Dimensions(fields[i]) \in PictureLayout(fields[i].picture)

(* The lines read so far: nothing, or the group and the fields.            *)
ReadSoFar == {i \in 1..at : file[i].kind # "ignored"}

GroupRead(g) ==
    /\ g \in ReadSoFar
    /\ file[g].kind = "group" /\ Lower[file[g].name] # Filler
    /\ ReadSoFar = {g} <=> fields = <<>>
    /\ {fields[k].name : k \in DOMAIN fields} = {Lower[file[i].name] : i \in ReadSoFar \ {g}}
    /\ \A i \in ReadSoFar \ {g} :
         /\ g < i
         /\ file[i].kind = "field"
         /\ PictureLayout(file[i].picture) # {}
    /\ \A i, j \in ReadSoFar \ {g} : Lower[file[i].name] = Lower[file[j].name] => i = j

LinesRead ==
    result = "reading" =>
        IF groupSeen THEN \E g \in 1..at : GroupRead(g)
        ELSE ReadSoFar = {} /\ fields = <<>>

CopybookInvariant ==
    /\ CopybookTypes
    /\ FieldsFollow
    /\ LinesRead
    /\ AcceptsWellFormed
=============================================================================
