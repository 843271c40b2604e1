-------------------------- MODULE MC_BinkpSession --------------------------
(* Bounded instance of BinkpSession: a and b are files of the caller, c of the node. *)
EXTENDS BinkpSession

MCFiles == {"a", "b", "c"}

MCSize == [f \in MCFiles |-> IF f = "a" THEN 3 ELSE 2]

Work(org, ans, minor, crc, sessions, kinds) ==
    [out |-> [org |-> org, ans |-> ans], minor |-> minor, crc |-> crc,
     sessions |-> sessions, faults |-> kinds]

\* One file a side, resumed after a failure; a file that changes meanwhile, with
\* checksums; two files of the caller in a first session.
MCWorkloads ==
    {Work(<<"a">>, <<"c">>, 1, FALSE, 2, {"break"}),
     Work(<<"a">>, <<>>, 0, FALSE, 2, {"break", "expire", "space"}),
     Work(<<"a">>, <<>>, 1, TRUE, 3, {"break", "change"})}
    \cup {Work(<<"a", "b">>, <<>>, minor, FALSE, 1, {"lock", "space", "expire"})
            : minor \in {0, 1}}

ChangedWorkload == {Work(<<"a">>, <<>>, 1, FALSE, 2, {"break", "change"})}

SeveralWorkload == {Work(<<"a", "b">>, <<>>, 1, FALSE, 2, {"break"})}

\* A file without a byte that is locked by another program.
EmptySize == [f \in MCFiles |-> 0]

EmptyWorkload == {Work(<<"a">>, <<>>, 1, FALSE, 1, {"lock"})}
=============================================================================
