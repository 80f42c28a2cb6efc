----------------------------- MODULE AppendOnly ------------------------------
(***************************************************************************)
(* What a witness is for, without a file, a lock, a request or a crash:    *)
(* the heads it publishes for a log form one append-only history.  Each    *)
(* extends every head it published for that log before.                    *)
(***************************************************************************)
CONSTANTS Origins, Heads, Extends(_, _)

VARIABLE published

Init == published = {}

Publish(o, h) ==
    /\ \A g \in Heads : <<o, g>> \in published => Extends(g, h)
    /\ published' = published \union {<<o, h>>}

Next == \E o \in Origins, h \in Heads : Publish(o, h)

Spec == Init /\ [][Next]_published
=============================================================================
