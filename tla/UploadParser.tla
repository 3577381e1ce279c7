---------------------------- MODULE UploadParser ----------------------------
(***************************************************************************)
(* What becomes of a spreadsheet: domain/uploads/parser.py.                *)
(*                                                                         *)
(* A heading stands for the identifier safe_identifier makes of it, as the *)
(* sequence of its parts: "a" is << "a" >> and "a_1" is << "a", 1 >>.  A   *)
(* cell is one of a few, told apart by the types that can read it; an ISO  *)
(* date is a moment too.  Cells that Excel hands over with a type of their *)
(* own are kept as they are and left out here.                             *)
(***************************************************************************)
EXTENDS Naturals, Sequences, SequencesExt, FiniteSets

CONSTANTS
    SampleRows,   \* TYPE_SAMPLE_ROWS
    MaxRows,      \* MAX_ROWS
    MaxColumns    \* MAX_COLUMNS

Blank == "blank"
Cells == {Blank, "flag", "count", "ratio", "word", "day", "moment", "id", "code", "other"}

(* infer_type's candidates, in its order, and what each of them reads: a   *)
(* flag is 0 or 1, a word one of yes and no; digits with a leading zero or *)
(* too many to be exact in a browser are a code.                           *)
Candidates == << "uuid", "boolean", "integer", "decimal", "date", "datetime" >>
Reads == [uuid     |-> {"id"},
          boolean  |-> {"flag", "word"},
          integer  |-> {"flag", "count"},
          decimal  |-> {"flag", "count", "ratio"},
          date     |-> {"day"},
          datetime |-> {"day", "moment"},
          text     |-> Cells]

-----------------------------------------------------------------------------
(* unique_identifiers: a heading met before gets the number of times it was. *)
Before(headings, i) == Cardinality({k \in 1 .. (i - 1) : headings[k] = headings[i]})
Names(headings) ==
    [i \in DOMAIN headings |->
        IF Before(headings, i) = 0 THEN headings[i] ELSE Append(headings[i], Before(headings, i))]

Repeats(s) == Cardinality(Range(s)) < Len(s)

(* The narrowest type that fits every sample; 0 and 1 alone are numbers.   *)
Fits(type, samples) ==
    /\ samples \subseteq Reads[type]
    /\ type = "boolean" => "word" \in samples
First(fit) == Candidates[CHOOSE i \in fit : \A k \in fit : i <= k]
InferType_Mostly(samples) ==
    LET fit == {i \in DOMAIN Candidates : samples \cap Reads[Candidates[i]] # {}}
    IN  IF samples = {} \/ fit = {} THEN "text" ELSE First(fit)
InferType(samples) ==
    LET fit == {i \in DOMAIN Candidates : Fits(Candidates[i], samples)}
    IN  IF samples = {} \/ fit = {} THEN "text" ELSE First(fit)

(* coerce: a cell its column's type does not read is stored as NULL.       *)
Coerce(cell, type) == IF type = "uuid" \/ cell \in Reads[type] THEN cell ELSE Blank

-----------------------------------------------------------------------------
(* parse.  A file has its headings and, below them, rows of any length.    *)
Width(file) == Len(file.headings)
Row(file, values) == [j \in 1 .. Width(file) |-> IF j <= Len(values) THEN values[j] ELSE Blank]
Full(file) == {i \in DOMAIN file.rows : Range(Row(file, file.rows[i])) # {Blank}}
Nth(S, n)  == CHOOSE i \in S : Cardinality({k \in S : k <= i}) = n
Filled(file) ==
    [n \in 1 .. Cardinality(Full(file)) |-> Row(file, file.rows[Nth(Full(file), n)])]
Read(file) == LET kept == Filled(file)
              IN  SubSeq(kept, 1, IF Len(kept) < MaxRows THEN Len(kept) ELSE MaxRows)

Refused(file) ==
    \/ ~file.readable
    \/ Width(file) \notin 1 .. MaxColumns
    \/ Filled(file) = << >>

Parse(file) ==
    LET read  == Read(file)
        seen  == DOMAIN read \cap 1 .. SampleRows
        types == [j \in 1 .. Width(file) |-> InferType({read[i][j] : i \in seen} \ {Blank})]
    IN  [names  |-> Names(file.headings),
         types  |-> types,
         rows   |-> [i \in DOMAIN read |-> [j \in 1 .. Width(file) |-> Coerce(read[i][j], types[j])]],
         warned |-> Len(read) >= MaxRows]

=============================================================================
