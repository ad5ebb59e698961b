------------------------------ MODULE MCCosts ------------------------------
EXTENDS ManualCosts, TLC

Alike == Permutations(Transactions)

Line(kind, key, from, to) == [kind |-> kind, key |-> key, from |-> from, to |-> to]

\* A row that holds for good, two of which the second begins earlier, and a placeholder.
SmallFiles ==
    {<<Line("real", "k1", 1, 3)>>,
     <<Line("real", "k1", 2, 3), Line("real", "k2", 1, 3)>>,
     <<Line("placeholder", "k2", 1, 3)>>}

\* Any dates of a real cost, one without a first day, and a placeholder.
SomePatches ==
    [kind : {"real"}, from : Day, to : Day \cup {Open}]
    \cup {[kind |-> "real", from |-> 0, to |-> Open], [kind |-> "placeholder", from |-> 1, to |-> Open]}
=============================================================================
