--------------------------- MODULE FileConversion ---------------------------
(***************************************************************************)
(* The file path: a copybook is read, generate_sample writes rows as       *)
(* fixed-length records, the file is moved, and parse_vsam.convert_file    *)
(* reads it record by record and writes a document for each.  On the way   *)
(* the file may lose its end or have a byte changed.  convert_file writes  *)
(* as it goes: what it wrote before an error stays.                        *)
(***************************************************************************)
EXTENDS Copybook

Seqs == INSTANCE SequencesExt

CONSTANTS
    Fields,        \* the layout whose widths build_record is written for
    Padded,        \* the field that normalize_document pads again (branch)
    Rows,          \* rows: field -> text, digits, or Decimal; None if missing
    Bytes,         \* what a changed byte may become
    MaxRows        \* bound

(* What a row has for a field, if it is not missing: a text's characters,  *)
(* those that cp037 lacks beyond its bytes; what str() gives; a Decimal.   *)
RowValue(field, value) ==
    /\ field.kind = "text" => value \in Seq(Nat \X Nat)
    /\ field.kind = "zoned" => value \in Seq(Nat)
    /\ field.kind = "packed" => IsDecimal(value)

(* The layout of build_record is one that record_length accepts; its       *)
(* decimals have an S, and branch is a zoned field.                        *)
ASSUME FileAssumption ==
    /\ Space \in Blank
    /\ RecordLength(Fields) # {}
    /\ \A i \in DOMAIN Fields :
         /\ Fields[i].kind = "packed" => Fields[i].picture.signed
         /\ i = Padded => Fields[i].kind = "zoned"
         /\ \A row \in Rows : row[i] # None => RowValue(Fields[i], row[i])
    /\ Bytes \subseteq Byte
    /\ MaxRows \in Nat

VARIABLES
    rows,
    data,          \* the file's bytes
    cut,           \* the file has lost its end
    changed,       \* the byte that was changed, 0 if none
    used,          \* bytes convert_file has read
    out,           \* documents written
    pc

fileVars == <<rows, data, cut, changed, used, out, pc>>

Size == CHOOSE n \in RecordLength(fields) : TRUE

-----------------------------------------------------------------------------
(* build_record.                                                           *)

Blanks(n) == [i \in 1..n |-> Space]

AsBytes(nibbles) == [i \in 1..(Len(nibbles) \div 2) |-> <<nibbles[2 * i - 1], nibbles[2 * i]>>]

Text(value, width) ==
    IF /\ Strip(value) # <<>> /\ Len(value) <= width
       /\ \A i \in DOMAIN value : value[i] \in Byte
    THEN {value \o Blanks(width - Len(value))} ELSE {}

Zoned(value, width) ==
    IF Len(value) \in 1..width /\ \A i \in DOMAIN value : value[i] \in Digit
    THEN LET text == ZFill(value, width) IN {[i \in DOMAIN text |-> Zone(text[i])]}
    ELSE {}

Part(field, value) ==
    IF value = None THEN {}
    ELSE CASE field.kind = "text" -> Text(value, field.length)
           [] field.kind = "zoned" -> Zoned(value, field.length)
           [] field.kind = "packed" -> {AsBytes(b) : b \in Pack(value, field.digits, field.scale)}

Parts(row) == [i \in DOMAIN Fields |-> Part(Fields[i], row[i])]

BuildRecord(row) ==
    IF \E i \in DOMAIN Fields : Parts(row)[i] = {} THEN {}
    ELSE {Seqs!FlattenSeq([i \in DOMAIN Fields |-> CHOOSE b \in Parts(row)[i] : TRUE])}

(* normalize_document; the ordinal is the document's sourceRecordNumber.   *)
Normalize(values, ordinal) ==
    [values |-> [i \in DOMAIN values |->
                   IF i = Padded THEN ZFill(values[i], Fields[i].length) ELSE values[i]],
     ordinal |-> ordinal]

-----------------------------------------------------------------------------
(* No file is converted.                                                   *)
FilesIdle ==
    /\ rows = <<>>
    /\ data = <<>>
    /\ cut = FALSE
    /\ changed = 0
    /\ used = 0
    /\ out = <<>>
    /\ pc = "idle"

(* generate_sample.main: every record is built before the file is written. *)
(* The copybook is the one that build_record is written for.               *)
Generate ==
    /\ pc = "idle"
    /\ result = "layout" /\ fields = Fields
    /\ \E n \in 1..MaxRows : rows' \in [1..n -> Rows]
    /\ LET records == [i \in DOMAIN rows' |-> BuildRecord(rows'[i])] IN
       IF \A i \in DOMAIN records : \E r \in records[i] : Len(r) = Size
       THEN /\ data' = Seqs!FlattenSeq([i \in DOMAIN records |-> CHOOSE r \in records[i] : TRUE])
            /\ pc' = "convert"
       ELSE /\ pc' = "refused"
            /\ UNCHANGED data
    /\ UNCHANGED <<cut, changed, used, out>>

(* The file as it was written, and not read yet.                           *)
Moving == pc = "convert" /\ used = 0 /\ ~cut /\ changed = 0

Cut ==
    /\ Moving
    /\ \E n \in 0..(Len(data) - 1) : data' = SubSeq(data, 1, n)
    /\ cut' = TRUE
    /\ UNCHANGED <<rows, changed, used, out, pc>>

Change ==
    /\ Moving
    /\ \E i \in DOMAIN data, b \in Bytes :
         /\ data[i] # b
         /\ data' = [data EXCEPT ![i] = b]
         /\ changed' = i
    /\ UNCHANGED <<rows, cut, used, out, pc>>

(* iter_records: the next chunk, as long as the file goes.                 *)
Chunk == SubSeq(data, used + 1, IF used + Size <= Len(data) THEN used + Size ELSE Len(data))

Documents(chunk) == {Normalize(v, Len(out) + 1) : v \in ParseRecord(chunk, fields)}

Convert(d) ==
    /\ out' = Append(out, d)
    /\ used' = used + Size
    /\ UNCHANGED pc

Conclude(outcome) == pc' = outcome /\ UNCHANGED <<out, used>>

(* Mutant: a partial record at the end is the end.                         *)
ConvertRecordLoosely ==
    /\ pc = "convert"
    /\ Chunk # <<>>
    /\ \/ Len(Chunk) < Size /\ Conclude("done")
       \/ Len(Chunk) = Size /\ Documents(Chunk) = {} /\ Conclude("failed")
       \/ Len(Chunk) = Size /\ \E d \in Documents(Chunk) : Convert(d)
    /\ UNCHANGED <<rows, data, cut, changed>>

(* A partial chunk is an error; so is a record that does not parse.        *)
ConvertRecord ==
    /\ pc = "convert"
    /\ Chunk # <<>>
    /\ \/ Documents(Chunk) = {} /\ Conclude("failed")
       \/ \E d \in Documents(Chunk) : Convert(d)
    /\ UNCHANGED <<rows, data, cut, changed>>

Finish ==
    /\ pc = "convert"
    /\ Chunk = <<>>
    /\ Conclude("done")
    /\ UNCHANGED <<rows, data, cut, changed>>

FilesNext == Generate \/ Cut \/ Change \/ ConvertRecord \/ Finish

-----------------------------------------------------------------------------
(* Reference: what a field should give, and the document a row should give *)
(* (the padded field is the row's own digits in the field's width).        *)
Meant(field, value) ==
    CASE field.kind = "text" -> Strip(value)
      [] field.kind = "zoned" -> Stripped(value)
      [] field.kind = "packed" ->
           [sign |-> value.sign, exponent |-> -field.scale,
            coefficient |-> CHOOSE t \in AtScale(value, field.digits, field.scale) : TRUE]

InDocument(row, i) ==
    IF i = Padded THEN ZFill(row[i], Fields[i].length) ELSE Meant(Fields[i], row[i])

Expected(row, ordinal) ==
    [values |-> [i \in DOMAIN Fields |-> InDocument(row, i)], ordinal |-> ordinal]

(* A row that was not refused comes back as the document it means, however *)
(* the file was cut: what is written is a prefix of the documents, and a   *)
(* conversion that ends well has used every byte of the file, so that a    *)
(* record cut short is an error, never the end.  That of a whole file does *)
(* not fail: building a record truncates and coerces nothing               *)
(* (generate_sample.py:17-59, parse_vsam.py:10-33).                        *)
NothingLost ==
    changed = 0 =>
        /\ \A i \in DOMAIN out : out[i] = Expected(rows[i], i)
        /\ pc = "done" => Len(out) * Size = Len(data)
        /\ ~cut => pc # "failed" /\ (pc = "done" => Len(out) = Len(rows))

(* The changed byte is one of field i of record n.                         *)
ChangedIn(n, i) ==
    /\ n = (changed - 1) \div Size + 1
    /\ (changed - 1) % Size \in Fields[i].offset..(Fields[i].offset + Fields[i].length - 1)

Record(row) == CHOOSE r \in BuildRecord(row) : TRUE

(* The only changes that leave a value as it is: a blank for a blank, and  *)
(* the other positive sign after the same digit.                           *)
SameMeaning(field, written, byte) ==
    \/ field.kind = "text" /\ {written, byte} \subseteq Blank
    \/ /\ field.kind = "packed"
       /\ written[2] = Positive
       /\ byte = << written[1], Unsigned >>

ChangeShowsIn(n, document) ==
    \A i \in DOMAIN Fields :
        LET same == document.values[i] = Expected(rows[n], n).values[i]
            written == Record(rows[n])[((changed - 1) % Size) + 1]
        IN  IF ChangedIn(n, i)
            THEN same => SameMeaning(Fields[i], written, data[changed])
            ELSE same

(* A changed byte is refused or changes the value of its field, and no     *)
(* other value of any record; only one blank for another, and the second   *)
(* spelling of a positive sign, change nothing (copybook.py:127-141,       *)
(* 171-180).                                                               *)
ChangeShows == changed > 0 => \A n \in DOMAIN out : ChangeShowsIn(n, out[n])

-----------------------------------------------------------------------------
(* The inductive invariant behind these.                                   *)

(* The file holds the rows' records one after the other, as far as it      *)
(* goes, but for the changed byte.                                         *)
FileHoldsRows ==
    /\ rows \in Seq(Rows) /\ data \in Seq(Byte)
    /\ \A n \in DOMAIN rows : BuildRecord(rows[n]) # {}
    /\ Len(data) <= Len(rows) * Size
    /\ cut \/ Len(data) = Len(rows) * Size
    /\ \A n \in DOMAIN rows, j \in 1..Size :
         LET byte == (n - 1) * Size + j IN
         byte <= Len(data) => (data[byte] = Record(rows[n])[j] <=> byte # changed)
    /\ changed \in 0..Len(data)
    /\ cut \in BOOLEAN /\ ~(cut /\ changed > 0)

(* A document has been written for every record read.                      *)
ReadSoFarWritten ==
    /\ out \in Seq({out[n] : n \in DOMAIN out})
    /\ used = Len(out) * Size /\ used <= Len(data)
    /\ pc = "done" => used = Len(data)
    /\ pc = "failed" => cut \/ changed > 0

FileInvariant ==
    /\ pc \in {"idle", "refused", "convert", "done", "failed"}
    /\ pc = "idle" => FilesIdle
    /\ pc = "refused" => out = <<>> /\ changed = 0
    /\ pc \in {"convert", "done", "failed"} =>
         /\ result = "layout" /\ fields = Fields
         /\ FileHoldsRows
         /\ ReadSoFarWritten
    /\ NothingLost
    /\ ChangeShows
=============================================================================
