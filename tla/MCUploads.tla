----------------------------- MODULE MCUploads -----------------------------
(* A small instance of Uploads.  One file has a column for every pair of   *)
(* cells among the first two rows, and a third row that may not fit them;  *)
(* the others are empty, too wide, too long, ragged or have headings that  *)
(* read like names that are made up.                                       *)
EXTENDS Uploads

Sheet(top, below) == [readable |-> TRUE, headings |-> top, rows |-> below]

Wide(n) == [i \in 1 .. n |-> << i >>]
Kinds9  == << "blank", "flag", "count", "ratio", "word", "day", "moment", "id", "other" >>
Pairs9  == FlattenSeq([a \in 1 .. 9 |-> [k \in 1 .. (10 - a) |-> << a, a + k - 1 >>]])
Pairs   == Sheet(Wide(45), << [i \in 1 .. 45 |-> Kinds9[Pairs9[i][1]]],
                              [i \in 1 .. 45 |-> Kinds9[Pairs9[i][2]]],
                              [i \in 1 .. 45 |-> "count"] >>)

SomeFiles ==
    { Pairs,
      Sheet(Wide(46), << << "count" >> >>),
      Sheet(Wide(2), << << "blank", "blank" >> >>),
      Sheet(Wide(2), << << "blank" >>, << "word", "day", "id" >>, << "flag" >>,
                        << "other", "moment" >>, << "other", "other" >> >>),
      Sheet(<< <<1>>, <<1>>, <<1>> >>, << << "code" >> >>),
      Sheet(<< <<1>>, <<1, 1>>, <<1>> >>, << << "code" >> >>),
      [readable |-> FALSE, headings |-> << >>, rows |-> << >>] }

=============================================================================
