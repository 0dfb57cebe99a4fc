---------------------------- MODULE MCCallables ----------------------------
(* Three callables, one list pointer, and a pool that closes connections    *)
(* from the second on.  A connection for each idle slot and each callable.  *)
EXTENDS Callables

CONSTANTS c1, c2, c3, k1, k2, k3, k4, infos

MCCallable == {c1, c2, c3}
MCConn     == {k1, k2, k3, k4}
MCList     == {infos}
=============================================================================
