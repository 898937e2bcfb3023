---------------------------- MODULE LeaseProtocol ----------------------------
(***************************************************************************)
(* What server/workers.py promises of the Chrome of a Connect worker: it   *)
(* is exclusive.  A connection grants its browser to one run at a time, a  *)
(* granted browser is asked to close before anything else happens to it,   *)
(* and nobody is granted a browser that is still closing.                  *)
(***************************************************************************)
CONSTANTS Runs, NoRun, Conn

VARIABLE lease    \* [Conn -> what the connection does, and for which run]

Phase == {"down", "free", "held", "closing"}

LeaseTypeOK == lease \in [Conn -> [phase : Phase, run : Runs \cup {NoRun}]]

LeaseInit == lease = [c \in Conn |-> [phase |-> "down", run |-> NoRun]]

Move(c, from, phase, run) ==
    /\ lease[c].phase \in from
    /\ lease' = [lease EXCEPT ![c] = [phase |-> phase, run |-> run]]

\* A new connection takes the place of every older one.
Open(c) ==
    /\ lease[c].phase = "down"
    /\ lease' = [d \in Conn |-> [phase |-> IF d = c THEN "free" ELSE "down", run |-> NoRun]]
Grant(c, r) == Move(c, {"free"}, "held", r)
Close(c) == Move(c, {"held"}, "closing", lease[c].run)
Release(c) == Move(c, {"closing"}, "free", NoRun)
Drop(c) == Move(c, {"free", "held", "closing"}, "down", NoRun)

LeaseNext ==
    \E c \in Conn : \/ Open(c) \/ Close(c) \/ Release(c) \/ Drop(c)
                    \/ \E r \in Runs : Grant(c, r)

LeaseSpec == LeaseInit /\ [][LeaseNext]_lease
==============================================================================
