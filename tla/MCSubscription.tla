--------------------------- MODULE MCSubscription ---------------------------
(* Small instances of Subscription for TLC. *)
EXTENDS Subscription, TLC

Sub(from, mode, credit) == [from |-> from, mode |-> mode, credit |-> credit]

\* One or two records at a time, on a new log or on one found at opening.
SmallBatches == {<<"a">>, <<"b", "c">>}
Found == {<<>>, <<"x", "y">>}

\* From the start, from the middle or from beyond the end, with and without a
\* view, with no credit.
Tails == {Sub(0, "records", 1), Sub(1, "records", 2), Sub(0, "reducible", 0), Sub(1, "reducible", 1)}
=============================================================================
