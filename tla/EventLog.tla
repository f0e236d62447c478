------------------------------- MODULE EventLog -------------------------------
(***************************************************************************)
(* What the canonical store promises to everything that reads sync_events  *)
(* by sequence number (device pull, manifest checkpoints, backups).        *)
(*                                                                         *)
(* Sequence numbers come from a PostgreSQL identity column: they are       *)
(* unique, they are allocated before the transaction commits, and a        *)
(* rolled-back transaction leaves a hole.  Commit order is therefore not   *)
(* sequence order in general.  The promise is about the events a device    *)
(* may receive: each one becomes visible with a sequence number above all  *)
(* device-deliverable events already visible.  Conflict events share the   *)
(* numbering and make no such promise.                                     *)
(***************************************************************************)
EXTENDS Naturals

VARIABLE visible            \* the committed events, as a set

Event == [seq : Nat \ {0}, deliverable : BOOLEAN]

Init == visible = {}

\* One transaction commits one event of the shared sequence.
Commit(e) ==
    /\ \A f \in visible : f.seq # e.seq
    /\ e.deliverable => \A f \in visible : f.deliverable => f.seq < e.seq
    /\ visible' = visible \cup {e}

Next == \E e \in visible' : e \in Event /\ Commit(e)

Spec == Init /\ [][Next]_visible
===============================================================================
