--------------------------- MODULE MC_HydraBatch ---------------------------
(* Bounded instance of HydraBatch: a and b are files of the caller, c and d, which is empty, of *)
(* the node.                                                                        *)
EXTENDS HydraBatch

MCFiles == {"a", "b", "c", "d"}

MCSize == [f \in MCFiles |-> CASE f = "a" -> 2 [] f = "d" -> 0 [] OTHER -> 1]

\* part: blocks of a that are left of an earlier session.
Work(org, ans, part, locked, window, early, kinds, limit) ==
    [out |-> [org |-> org, ans |-> ans],
     part |-> [f \in MCFiles |-> IF f = "a" THEN part ELSE 0],
     locked |-> locked, window |-> window, early |-> early,
     faults |-> kinds, limit |-> limit]

\* A line that loses packets, files that cannot be read or written, a file that is there
\* already, windows, and timers that expire although the answer is on its way.
MCWorkloads ==
    {Work(<<"a", "b">>, <<"c">>, 0, {}, 0, FALSE, {"loss"}, 3),
     Work(<<"a", "b">>, <<"c">>, 1, {}, 0, FALSE, {"loss", "write", "close", "open", "read"}, 2),
     Work(<<"a", "b">>, <<"c">>, 2, {"c"}, 0, FALSE, {"loss", "open"}, 2),
     Work(<<"a">>, <<"c", "d">>, 0, {}, 0, FALSE, {"loss"}, 4),
     Work(<<"a", "b">>, <<>>, 0, {}, 0, FALSE, {"loss", "read"}, 2),
     Work(<<"a">>, <<>>, 0, {}, 1, FALSE, {"loss", "carrier"}, 2),
     Work(<<"a">>, <<>>, 1, {}, 2, FALSE, {"loss"}, 2),
     Work(<<"b">>, <<"c">>, 0, {}, 0, TRUE, {}, 0),
     Work(<<"a">>, <<>>, 0, {}, 1, TRUE, {}, 0)}

\* The file is there already, and the announcement is repeated too early.
HereWorkload == {Work(<<"a", "b">>, <<>>, 2, {}, 0, TRUE, {}, 0)}
============================================================================
