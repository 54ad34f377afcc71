---------------------------- MODULE RecordLayout ----------------------------
(***************************************************************************)
(* Layouts of fixed-length records and the decoding of a record            *)
(* (copybook._picture_layout, record_length, parse_record).                *)
(*                                                                         *)
(* A PIC clause is what the three expressions of _picture_layout read from *)
(* it: its kind, whether it has an S, its whole digits (or characters) and *)
(* its decimals (None if it declares none; V99 declares two).  A byte is   *)
(* its two nibbles; text is kept in cp037, where every byte is a character.*)
(***************************************************************************)
EXTENDS Comp3

CONSTANTS
    None,
    Filler,        \* the name a field may not have
    Odd,           \* names with one of the letters outside ASCII that
                   \* IGNORECASE takes for A-Z and lower() does not turn into
                   \* ASCII (dotted capital and dotless i, long s): the
                   \* copybook's patterns match them, the layout's do not
    Blank          \* characters that strip() removes, the space among them

Byte == Nibble \X Nibble

Space == <<4, 0>>

Zone(d) == <<15, d>>

(* _picture_layout.                                                        *)
PictureLayout(p) ==
    LET scale == IF p.decimals = None THEN 0 ELSE p.decimals
        digits == p.whole + scale
    IN  IF p.whole <= 0 \/ p.decimals = 0 THEN {}
        ELSE {CASE p.kind = "text" -> [kind |-> "text", length |-> p.whole, digits |-> 0, scale |-> 0]
                [] p.kind = "zoned" -> [kind |-> "zoned", length |-> p.whole, digits |-> p.whole, scale |-> 0]
                [] p.kind = "packed" -> [kind |-> "packed", length |-> ByteLength(digits),
                                         digits |-> digits, scale |-> scale]}

Dimensions(field) ==
    [kind |-> field.kind, length |-> field.length, digits |-> field.digits, scale |-> field.scale]

(* FieldLayout(name, picture, kind, offset, length, digits, scale).        *)
Field(name, picture, layout, offset) ==
    [name |-> name, picture |-> picture, offset |-> offset, kind |-> layout.kind,
     length |-> layout.length, digits |-> layout.digits, scale |-> layout.scale]

End(fields) == IF fields = <<>> THEN 0 ELSE fields[Len(fields)].offset + fields[Len(fields)].length

(* Mutant: offsets may overlap the field before.                           *)
RecordLengthLoose(fields) ==
    IF /\ fields # <<>>
       /\ \A i \in DOMAIN fields :
            /\ fields[i].name \notin {Filler} \cup Odd \cup {fields[j].name : j \in 1..(i - 1)}
            /\ fields[i].offset <= End(SubSeq(fields, 1, i - 1))
            /\ Dimensions(fields[i]) \in PictureLayout(fields[i].picture)
    THEN {End(fields)} ELSE {}

(* record_length: the length of a layout it accepts.                       *)
RecordLength(fields) ==
    IF /\ fields # <<>>
       /\ \A i \in DOMAIN fields :
            /\ fields[i].name \notin {Filler} \cup Odd \cup {fields[j].name : j \in 1..(i - 1)}
            /\ fields[i].offset = End(SubSeq(fields, 1, i - 1))
            /\ Dimensions(fields[i]) \in PictureLayout(fields[i].picture)
    THEN {End(fields)} ELSE {}

(* str.strip.                                                              *)
Strip(text) ==
    LET inked == {i \in DOMAIN text : text[i] \notin Blank}
        first == CHOOSE i \in inked : \A j \in inked : i <= j
        last == CHOOSE i \in inked : \A j \in inked : j <= i
    IN  IF inked = {} THEN <<>> ELSE SubSeq(text, first, last)

AsNibbles(bytes) == [i \in 1..(2 * Len(bytes)) |-> bytes[(i + 1) \div 2][2 - (i % 2)]]

(* Mutant: the zone of a zoned digit is not looked at.                      *)
DecodeAnyZone(field, bytes) ==
    CASE field.kind = "text" -> {Strip(bytes)}
      [] field.kind = "zoned" ->
           IF \A i \in DOMAIN bytes : bytes[i][2] \in Digit
           THEN {Stripped([i \in DOMAIN bytes |-> bytes[i][2]])} ELSE {}
      [] field.kind = "packed" ->
           {v \in Unpack(AsNibbles(bytes), field.digits, field.scale) :
              v.sign = 1 => field.picture.signed}

(* The value of one field's bytes; an int is its digits.                   *)
Decode(field, bytes) ==
    CASE field.kind = "text" -> {Strip(bytes)}
      [] field.kind = "zoned" ->
           IF \A i \in DOMAIN bytes : bytes[i] \in {Zone(d) : d \in Digit}
           THEN {Stripped([i \in DOMAIN bytes |-> bytes[i][2]])} ELSE {}
      [] field.kind = "packed" ->
           {v \in Unpack(AsNibbles(bytes), field.digits, field.scale) :
              v.sign = 1 => field.picture.signed}

(* parse_record: field i of the layout is value i of the result.           *)
ParseRecord(record, fields) ==
    LET value(i) == Decode(fields[i], SubSeq(record, fields[i].offset + 1,
                                             fields[i].offset + fields[i].length))
    IN  IF Len(record) \in RecordLength(fields) /\ \A i \in DOMAIN fields : value(i) # {}
        THEN {[i \in DOMAIN fields |-> CHOOSE v \in value(i) : TRUE]}
        ELSE {}
=============================================================================
