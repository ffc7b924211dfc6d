---------------------------- MODULE MCTransfers ----------------------------
(* An instance of Transfers with three handles; the host "s" is spoken to    *)
(* over TLS, "p" is not.                                                     *)
EXTENDS Transfers

Ask(host, wait, only) == [host |-> host, wait |-> wait, only |-> only]
Asks(a, b, c) == [e \in {"a", "b", "c"} |-> IF e = "a" THEN a ELSE IF e = "b" THEN b ELSE c]

\* Three for one host, two of which wait to share.
Sharing == Asks(Ask("s", TRUE, FALSE), Ask("s", TRUE, FALSE), Ask("s", FALSE, FALSE))
\* One that only connects, one that waits to know its host, one for another host.
Holding == Asks(Ask("p", FALSE, TRUE), Ask("p", TRUE, FALSE), Ask("s", FALSE, FALSE))

\* A limit to a host that is met before that in all; one in all, and a small cache.
PerHost == [host |-> 1, total |-> 2, kept |-> 0]
InAll == [host |-> 0, total |-> 2, kept |-> 1]

MCSetups ==
    { [limit |-> PerHost, job |-> Sharing], [limit |-> InAll, job |-> Sharing],
      [limit |-> PerHost, job |-> Holding] }

Symmetry == Permutations(Conn)
=============================================================================
