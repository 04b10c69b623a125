---------------------------- MODULE DoIPServerMC ----------------------------
(***************************************************************************)
(* The messages and scripts with which DoIPServer is model-checked.  Two    *)
(* logical addresses are enough to tell the registered one from another.   *)
(***************************************************************************)
EXTENDS DoIPServer, TLC

CONSTANTS c1, c2

Header(version, code, n) ==
    [version |-> version, inverse |-> 253, code |-> code, length |-> WireLength(n)]

Message(code, n, source, activation, target) ==
    [data |-> Header(2, code, n), source |-> source, activation |-> activation, target |-> target]

Activation(source)         == Message(5, 7, source, 0, 0)
Diagnostic(source, target) == Message(32769, 8, source, 0, target)
AliveResponse              == Message(8, 2, 3585, 0, 0)

UnknownType    == Message(16, 0, 0, 0, 0)
WrongVersion   == [UnknownType EXCEPT !.data = Header(1, 5, 7)]
WrongLength    == Message(5, 8, 0, 0, 0)
UnknownSource  == Activation(1)
UnknownRouting == Message(5, 11, 3585, 2, 0)

A == 3585
B == 3586

(* What a client of libdoipclient does, and a session in which the client   *)
(* activates twice and tries an address it did not activate last.          *)
Session   == <<Activation(A), Receive, Diagnostic(A, LOGICAL_ADDRESS), Receive, Receive>>
TwoRoutes == <<Activation(A), Receive, Activation(B), Receive,
               Diagnostic(A, LOGICAL_ADDRESS), Receive>>

(* Every branch of reactOnReceivedTcpMessage, with the replies it brings. *)
EveryBranch ==
    << Session, TwoRoutes,
       <<Activation(A), Diagnostic(B, LOGICAL_ADDRESS), Receive, Receive, AliveResponse>>,
       <<Activation(B), Receive, Diagnostic(B, 99), Receive, UnknownType, Receive>>,
       <<UnknownSource, Receive, Activation(A), Receive>>,
       <<UnknownRouting, Receive, Receive>>,
       <<WrongVersion, Receive, Receive>>, <<WrongLength, Activation(A), Receive, Receive>> >>

(* Two clients are interchangeable: each pair of scripts in one order. *)
Pairs(scripts) ==
    {(c1 :> scripts[p[1]]) @@ (c2 :> scripts[p[2]]) :
        p \in {p \in (DOMAIN scripts) \X (DOMAIN scripts) : p[1] <= p[2]}}

Untimed == [scripts |-> Pairs(EveryBranch), inactivityTime |-> 0, patient |-> TRUE]

(* Clients that may leave at any time and receive nothing. *)
Timed ==
    [scripts |-> Pairs(<< <<Activation(A), Activation(B)>>,
                          <<UnknownSource, Activation(A)>>,
                          <<Diagnostic(B, LOGICAL_ADDRESS)>> >>),
     inactivityTime |-> 5, patient |-> FALSE]

JustActivation ==
    [scripts |-> {[c \in Clients |-> <<Activation(A)>>]}, inactivityTime |-> 5, patient |-> FALSE]

TimedAndUntimed    == {Timed, Untimed}
OnlyJustActivation == {JustActivation}
=============================================================================
