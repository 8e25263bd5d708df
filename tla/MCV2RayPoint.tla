---------------------------- MODULE MCV2RayPoint ----------------------------
(* Instances of V2RayPoint for TLC. *)
EXTENDS V2RayPointProps, TLC

CONSTANTS root, v1, v2, p1, p2, s1, s2, i1, i2, r1

LibConf(vpn) ==
    [root |-> "full", escort |-> FALSE, vpn |-> vpn]
Config(kind, conf) == [kind |-> kind, ok |-> TRUE, conf |-> conf]

PlainText == Config("jsonText", NoConf)
LibText == Config("jsonText", LibConf("off"))
VpnText == Config("jsonText", LibConf("on"))
LibFile == Config("protoFile", LibConf("off"))
PlainProto == Config("protoText", NoConf)

\* Configurations that do not crash a patient client.
PatientConfigs == {PlainText, PlainProto, VpnText, LibFile}
LibConfigs == {LibText}
RestartConfigs == {LibText, [LibFile EXCEPT !.ok = FALSE]}
StaleConfigs == {LibFile, PlainProto}
PlainConfigs == {PlainText}
VpnConfigs == {VpnText}
\* Every way a configuration can be incomplete or unreadable.
HostileConfigs ==
    {VpnText, PlainProto,
     [PlainText EXCEPT !.ok = FALSE],
     [LibFile EXCEPT !.kind = "otherFile"],
     [LibFile EXCEPT !.conf.root = "nil", !.ok = FALSE],
     [LibFile EXCEPT !.conf.root = "noScripts", !.conf.escort = TRUE],
     [LibFile EXCEPT !.conf.vpn = "nil"],
     [LibFile EXCEPT !.conf.vpn = "partial"]}

WorkerSymmetry ==
    Permutations({p1, p2}) \cup Permutations({s1, s2})
        \cup Permutations({i1, i2}) \cup Permutations({v1, v2})
=============================================================================
