------------------------------ MODULE DoIPUdpMC -----------------------------
(***************************************************************************)
(* The datagrams with which DoIPUdp is model-checked: a request, an         *)
(* announcement of another server, one of a type that UDP does not handle,  *)
(* one for each pair of faults in a header, and one too short for a header. *)
(***************************************************************************)
EXTENDS DoIPUdp

Received(version, code, n, length) ==
    [data |-> [version |-> version, inverse |-> 253, code |-> code, length |-> WireLength(n)],
     length |-> length]

Request == Received(2, 1, 0, 8)

EveryKind ==
    { Request, Received(2, 4, 32, 40), Received(2, 32769, 8, 16), Received(2, 4, 32, 7),
      Received(1, 16, 0, 8), Received(1, 4, 31, 39), Received(2, 16, 0, 8), Received(2, 4, 31, 39) }

OnlyRequests == {Request}
=============================================================================
