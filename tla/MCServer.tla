------------------------------ MODULE MCServer ------------------------------
(***************************************************************************)
(* Small instances of Server for TLC.                                      *)
(***************************************************************************)
EXTENDS Server

CONSTANTS c1, c2   \* the calls, model values

OneCall == {c1}
TwoCalls == {c1, c2}

\* With keepAlive: the right password, and tokens that do not expire.
KeepingAlive ==
    [auth : {"basic", "gdb"}, keepAlive : {TRUE}, rightPassword : {TRUE},
     maxExpiries : {0}]

\* Without keepAlive: anything.
NotKeepingAlive ==
    [auth : {"none", "basic", "gdb"}, keepAlive : {FALSE},
     rightPassword : BOOLEAN, maxExpiries : {1}]

Sound == KeepingAlive \cup NotKeepingAlive

\* With keepAlive: tokens that expire.
Expiring ==
    [auth : {"gdb"}, keepAlive : {TRUE}, rightPassword : {TRUE},
     maxExpiries : {1}]

\* With keepAlive: wrong credentials.
WrongPassword ==
    [auth : {"basic", "gdb"}, keepAlive : {TRUE}, rightPassword : {FALSE},
     maxExpiries : {0}]
=============================================================================
