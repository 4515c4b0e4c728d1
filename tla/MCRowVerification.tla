-------------------------- MODULE MCRowVerification --------------------------
(* RowVerification on sheets of four rows and two columns: an input and a   *)
(* balance that rolls it forward, with a gap, texts and disruptive rows.    *)
EXTENDS RowVerification

MCColumns == <<"I", "B">>

Ref(c, r) == [col |-> c, row |-> r, abs |-> FALSE]
Rate == [col |-> "I", row |-> 2, abs |-> TRUE]
Cell(v, refs) == [value |-> v, refs |-> refs]
Row(i, b, refs, clean) ==
    [cells |-> [c \in {"I", "B"} |-> IF c = "I" THEN Cell(i, {}) ELSE Cell(b, refs)],
     clean |-> clean]

\* The balance of a row is the balance before it and the input before it.
RollForward(r) == {Ref("B", r - 1), Ref("I", r - 1)}

MCSheets ==
    {[r \in {2, 3, 4, 6} |->
        CASE r = 2 -> Row(<<1>>, <<2>>, {}, TRUE)
          [] r = 3 -> Row(i, b, RollForward(3), clean)
          [] r = 4 -> Row(<<2>>, <<4>>, RollForward(4), TRUE)
          [] r = 6 -> Row(<<1>>, last, RollForward(6), TRUE)] :
        i \in {<<>>, <<1>>}, b \in {<<>>, <<3>>}, clean \in BOOLEAN, last \in {<<0>>, <<1>>}}
    \cup {[r \in {2, 3, 5} |-> Row(<<r>>, <<r>>, {Ref("I", r), Rate}, TRUE)],
          [r \in {2, 3, 4, 6} |->
              Row(<<1>>, <<2>>, IF r = 2 THEN {} ELSE {Ref("B", r - 1)}, TRUE)],
          [r \in {2, 3, 4} |-> Row(<<1>>, <<r - 1>>, {Ref("I", r), Ref("B", r - 1)}, TRUE)]}

\* The generated unit adds up what it reads.
MCCalculation(code, values) == MapThenSumSet(LAMBDA k : values[k], code)

MCCodes ==
    {{<<"B", -1>>, <<"I", -1>>}, {<<"I", 0>>}, {<<"I", 0>>, <<"B", 0>>}, {<<"B", -1>>}}
=============================================================================
