----------------------------- MODULE TaskBook -----------------------------
(***************************************************************************)
(* What the commands promise: the alarms are a bag of at most MaxRows      *)
(* rows; an add puts its rows in, as many as fit, in one step; a remove    *)
(* takes every row of a task out, in one step.                             *)
(***************************************************************************)
EXTENDS Integers, Bags, SequencesExt

CONSTANTS
    Tasks,
    MaxRows,
    Start,      \* what the book may hold at first
    Batches     \* the sequences of rows one add may bring

VARIABLE book

Init == book \in Start

\* The number of rows in a book: its copies, counted.
Size(b) == Cardinality(UNION {{a} \X (1..b[a]) : a \in DOMAIN b})

Fitting(rows) == SubSeq(rows, 1, Min({Len(rows), MaxRows - Size(book)}))

Put == \E rows \in Batches : book' = book (+) ToBag(Fitting(rows))

Drop == \E t \in Tasks :
            /\ \E a \in DOMAIN book : a.task = t
            /\ book' = [a \in {b \in DOMAIN book : b.task # t} |-> book[a]]

Next == Put \/ Drop

Spec == Init /\ [][Next]_book
=============================================================================
