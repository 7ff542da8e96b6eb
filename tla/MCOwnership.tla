---------------------------- MODULE MCOwnership -----------------------------
(***************************************************************************)
(* A small instance of the hosts' ownership for TLC.  Process ids are      *)
(* interchangeable.                                                        *)
(***************************************************************************)
EXTENDS Ownership, TLC

Line(socket, db, create) == [socket |-> socket, db |-> db, create |-> create]

\* A socket and a database, another socket for the same database, another
\* database behind the same socket.
CommandLines ==
    {Line("s", "d", TRUE), Line("s", "d", FALSE), Line("t", "d", FALSE),
     Line("s", "e", TRUE), Line("s", "e", FALSE)}

Symmetry == Permutations(Hosts)
=============================================================================
