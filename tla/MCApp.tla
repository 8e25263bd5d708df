--------------------------------- MODULE MCApp ---------------------------------
(* Small lives of an app for TLC. *)
EXTENDS App, TLC

CONSTANTS c1, c2, p1, p2, d1, d2, a1, a2, l1, l2

LoaderSymmetry == Permutations({l1, l2})

Sectioned(sections) == [s \in Sections |->
    IF s \in DOMAIN sections THEN sections[s]
    ELSE IF s = "env" THEN "ok" ELSE "absent"]

File(kind, sections) ==
    [kind |-> kind, body |-> kind, lib |-> "on", section |-> Sectioned(sections)]

Empty == File("json", [s \in {} |-> "ok"])
Proto == File("proto", [s \in {} |-> "ok"])

\* Without the library's part.
Bare == [Proto EXCEPT !.lib = "off"]

Life(ops, exported, first, second) ==
    [uses |-> ops, exported |-> exported,
     prop |-> [d \in Dirs |-> IF d = d1 THEN p1 ELSE NoPath],
     files |-> [p \in Paths |-> IF p = p1 THEN first ELSE second]]

\* The user changes the selection in another context or the service's, while
\* pointloops load, before a renaming, or before the process ends.
Picking ==
    {Life({"pick", "load", "overlap"}, TRUE, Bare, Bare),
     Life({"own", "load"}, TRUE, Empty, Proto),
     Life({"own", "look", "rename"}, TRUE, Bare, Bare),
     Life({"pick", "own", "look", "kill"}, TRUE, Bare, Bare)}

\* Two pointloops at once, from the installation on, and upgrades.
Installing ==
    {Life({"load", "kill", more}, FALSE, File("json", "render" :> "ok"), Empty) :
        more \in {"overlap", "upgrade"}}

\* Every file there can be.
Converting ==
    {Life({"load"}, TRUE,
          [kind |-> k, body |-> b, lib |-> l, section |-> Sectioned(f)], Empty) :
        k \in {"json", "proto", "other"}, b \in {"json", "proto"},
        l \in {"off", "bad"}, f \in {[s \in {} |-> "ok"]}}
    \cup {Life({"load"}, TRUE, [File("json", "env" :> "ok") EXCEPT !.section = f], Empty) :
        f \in {f \in [Sections -> {"absent", "ok", "bad", "noEq", "mixed"}] :
                   \A s \in Sections : f[s] \in SectionStates(s)}}

Scanning == {Life({"scan"}, TRUE, Empty, Empty)}

Dialling ==
    {Life({"load", "dial", more}, TRUE, File("json", sections), Empty) :
        more \in {"again", "together"}, sections \in {"vpnservice" :> "bad",
                      "vpnservice" :> "ok" @@ "preparedDomainName" :> "ok"}}

MCLives == Picking \cup Installing \cup Converting \cup Scanning \cup Dialling

MCNetOf == (a1 :> "tcp" @@ a2 :> "udp")

MCNeeded == [g \in Groups |-> 2]
=============================================================================
