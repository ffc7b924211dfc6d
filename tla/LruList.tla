------------------------------- MODULE LruList -------------------------------
(***************************************************************************)
(* What a connection cache promises: a list of connections, the one used    *)
(* longest ago first, each with an id no other ever had.  Using one moves   *)
(* it to the end; a new one is put there, and takes the place of the first  *)
(* when the list is as long as the transfer allows.                        *)
(***************************************************************************)
EXTENDS Naturals, Sequences, SequencesExt

CONSTANT Key
VARIABLES
    list,    \* the connections
    issued,  \* how many ids there have been
    limits   \* the limits transfers can have now, 0 for none

Init == list = <<>> /\ issued = 0

Use(i) ==
    /\ list' = Append(RemoveAt(list, i), list[i])
    /\ UNCHANGED issued

Open(k, limit) ==
    /\ \A i \in DOMAIN list : list[i].key # k
    /\ LET full == limit > 0 /\ Len(list) >= limit
           kept == IF full THEN Tail(list) ELSE list
       IN  list' = Append(kept, [key |-> k, id |-> issued + 1])
    /\ issued' = issued + 1

Next ==
    \/ \E i \in DOMAIN list : Use(i)
    \/ \E k \in Key, limit \in limits : Open(k, limit)

Spec == Init /\ [][Next]_<<list, issued>>
=============================================================================
