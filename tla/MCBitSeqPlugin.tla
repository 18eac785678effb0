--------------------------- MODULE MCBitSeqPlugin ---------------------------
(***************************************************************************)
(* A long long of two bytes; texts at the edges of the conversions: no     *)
(* digit, odd numbers of digits, leading zeros, the largest number, one    *)
(* more, trailing characters.                                              *)
(***************************************************************************)
EXTENDS BitSeqPlugin

Text(b, d) == [base |-> b, digits |-> d, junk |-> FALSE]
Bad(b, d) == [base |-> b, digits |-> d, junk |-> TRUE]

MCTexts == {
    Text(16, <<>>), Text(16, <<1>>), Text(16, <<0, 1>>), Text(16, <<1, 0, 2>>),
    Text(16, <<0, 1, 0, 2>>), Text(16, <<7, 15, 15, 15>>), Bad(16, <<1>>),
    Text(16, <<15, 15, 15, 15>>),
    Text(2, <<>>), Text(2, <<1>>), Text(2, <<1, 0, 0, 0, 0, 0, 0, 1, 0>>),
    Text(10, <<0>>), Text(10, <<0, 0, 7>>), Text(10, <<1, 0>>),
    Text(10, <<2, 5, 6>>), Text(10, <<5, 1, 3>>), Text(10, <<9, 9, 9, 9, 9>>),
    Bad(10, <<1>>)}

LongTexts == MCTexts \cup {Text(16, <<0, 0, 0, 0, 1>>)}

MCFiles == {<<>>, <<0>>, <<1>>, <<1, 2>>, <<2, 1>>, <<1, 2, 1>>, <<0, 2, 1, 2>>,
            <<2, 2, 1>>, <<255, 127>>, <<7, 10>>, <<128, 0>>}
=============================================================================
