--------------------------- MODULE MCCanonicalStore ---------------------------
(* Small instances of CanonicalStore: which commands the clients may send. *)
EXTENDS CanonicalStore

CONSTANTS w1, w2, k1, k2, k3, k4, k5, k6, e1, e2, e3, e4, e5, e6, s1, s2, la, lb, d1, d2, d3

Cmd(op, k, e, s) ==
    [op |-> op, key |-> k, event |-> e, source |-> s, base |-> 0, content |-> None,
     expected |-> None, target |-> None, tomb |-> None, conflict |-> None]

CreateOne  == [Cmd("create", k1, e1, s1) EXCEPT !.content = d1, !.target = la]
CreateTwo  == [Cmd("create", k2, e2, s2) EXCEPT !.content = d1, !.target = lb]
Update(k, e, content) ==
    [Cmd("update", k, e, s1) EXCEPT !.base = 1, !.content = content, !.target = la]
Rename(k, e) == [Cmd("rename", k, e, s1) EXCEPT !.base = 1, !.expected = la, !.target = lb]

\* Two sources; racing updates of one of them: one with the bytes it already has,
\* one that reuses another's idempotency key and one that reuses its event identity.
PublicationCommands ==
    {CreateOne, CreateTwo, Update(k3, e3, d2), Update(k4, e4, d1), Update(k3, e5, d3),
     Update(k5, e3, d3)}

\* Rename, delete and restore of one source against an update of it and a create
\* that wants the same locator.
LifecycleCommands ==
    {CreateOne, CreateTwo, Rename(k3, e3),
     [Cmd("delete", k4, e4, s1) EXCEPT !.base = 1, !.expected = la],
     [Cmd("restore", k5, e5, s1) EXCEPT !.base = 1, !.tomb = e4, !.target = lb],
     Update(k6, e6, d2)}

Capture == [Cmd("capture", k3, e3, s1) EXCEPT !.base = 1, !.content = d3, !.target = la]
Resolve(op, k, e) ==
    [Cmd(op, k, e, s1) EXCEPT !.base = 1, !.content = d2, !.conflict = e3, !.target = la]

\* Three resolutions of one conflict against an update of its source.
ConflictCommands ==
    {CreateOne, Update(k2, e2, d2), Capture, Resolve("keep_remote", k4, e4),
     Resolve("keep_local", k5, e5), Resolve("save_merged", k6, e6)}

\* The requests that are handled or have left an event.  They are of one family;
\* the policy changes only under renames and creates, and a second failure strikes
\* only captures.
InPlay == ({cmd[w] : w \in Writers} \ {None}) \union {log[i].cmd : i \in DOMAIN log}
OneFamily ==
    /\ InPlay \subseteq LifecycleCommands \/ InPlay \subseteq ConflictCommands
    /\ policyRev > 1 => InPlay \subseteq {CreateOne, CreateTwo, Rename(k3, e3)}
    /\ failures > 1 => InPlay \subseteq {CreateOne, Capture}
FamilyCommands == LifecycleCommands \union ConflictCommands

\* All three families, and two sources.
MixedCommands ==
    {CreateOne, CreateTwo, Capture, Resolve("keep_local", k4, e4), Rename(k5, e5)}

\* Revision 2 excludes locator lb, which leaves a subject without locator
\* evidence indeterminate.
NothingExcluded == {}
SecondExcludes  == {<<2, lb>>, <<2, None>>}
===============================================================================
