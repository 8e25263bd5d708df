------------------------------- MODULE FirstRun -------------------------------
(***************************************************************************)
(* The export of the shipped binaries (src/shippedBinarys/firstrun.go).    *)
(* Each pointloop calls CheckAndExport: unless the marker of this version  *)
(* exists, every embedded asset is written to the data directory, made     *)
(* executable and linked; the marker comes last.  All errors are dropped,  *)
(* so the marker is created even when an asset could not be written.       *)
(*                                                                         *)
(* The process can end between any two steps.  An upgrade of the app       *)
(* raises CoreI.CheckVersion(), and with it the name of the marker.  Two   *)
(* pointloops may export at once.                                          *)
(*                                                                         *)
(* External: RestoreAsset and AssetDir, generated by go-bindata: the first *)
(* truncates the file and writes it, the second lists a map, in any order. *)
(***************************************************************************)
EXTENDS AppProcess, Naturals

CONSTANTS
    Loaders,     \* the goroutines that run pointloop
    Indep,       \* the assets in ArchIndep
    Dep,         \* the assets in ArchDep
    MaxVersion,  \* bound: versions of the app
    DiskMayFail, \* whether a write can fail
    NoAsset

ASSUME MaxVersionAssumption == MaxVersion \in Nat \ {0}
ASSUME NoAssetAssumption == NoAsset \notin Indep \cup Dep
ASSUME DiskMayFailAssumption == DiskMayFail \in BOOLEAN

Assets == Indep \cup Dep
Versions == 1..MaxVersion

VARIABLES
    version,   \* on disk: the version of the installed app
    markers,   \* on disk: the versions whose marker file exists
    asset,     \* on disk, [Assets -> AssetStates]
    usable,    \* on disk, [Assets -> BOOLEAN]: made executable and linked
    exportPc,  \* [Loaders -> ExportStates]
    left,      \* [Loaders -> SUBSET Assets]: still to export
    current,   \* [Loaders -> Assets \cup {NoAsset}]: the one at hand
    spoiled    \* history: the assets that were last not written in full: the
               \* write failed, or the process ended in it

exportMemory == <<exportPc, left, current>>
exportState == <<version, markers, asset, usable>>
exportDisk == <<exportState, spoiled>>
exportVars == <<exportMemory, exportDisk>>

\* 0: missing; a version: what that version embeds; Torn: cut off.
Torn == MaxVersion + 1
AssetStates == 0..Torn

\* "check": line 18; "restore": the loops of 27 and 43; "write": inside
\* RestoreAsset; "link": 30-31 and 45-46.
ExportStates == {"idle", "check", "restore", "write", "link"}

\* The loops take the assets of ArchIndep first.
Batch(l) == IF left[l] \cap Indep = {} THEN left[l] ELSE left[l] \cap Indep

\* A goroutine is inside RestoreAsset of a.
Writing(a) == \E l \in Loaders : exportPc[l] = "write" /\ current[l] = a

FirstRunTypeOK ==
    /\ version \in Versions
    /\ markers \in SUBSET Versions
    /\ asset \in [Assets -> AssetStates]
    /\ usable \in [Assets -> BOOLEAN]
    /\ exportPc \in [Loaders -> ExportStates]
    /\ left \in [Loaders -> SUBSET Assets]
    /\ current \in [Loaders -> Assets \cup {NoAsset}]
    /\ spoiled \in SUBSET Assets

\* The app was installed, or has been running for a while.
FirstRunInit(exported) ==
    /\ version = 1
    /\ markers = IF exported THEN {1} ELSE {}
    /\ asset = [a \in Assets |-> IF exported THEN 1 ELSE 0]
    /\ usable = [a \in Assets |-> exported]
    /\ exportPc = [l \in Loaders |-> "idle"]
    /\ left = [l \in Loaders |-> {}]
    /\ current = [l \in Loaders |-> NoAsset]
    /\ spoiled = {}

FirstRunForgets ==
    /\ exportPc' = [l \in Loaders |-> "idle"]
    /\ left' = [l \in Loaders |-> {}]
    /\ current' = [l \in Loaders |-> NoAsset]
    /\ spoiled' = spoiled \cup {a \in Assets : Writing(a)}

\* A new version is installed; the system has ended the process.
Upgrade ==
    /\ version < MaxVersion
    /\ version' = version + 1
    /\ UNCHANGED <<markers, asset, usable>>

-----------------------------------------------------------------------------
ExportMoves(l, from, to) ==
    /\ exportPc[l] = from
    /\ exportPc' = [exportPc EXCEPT ![l] = to]

Exporting(l) == exportPc[l] \notin {"idle", "check"}

\* The call of CheckAndExport (interact.go:150-152).
CheckAndExport(l) ==
    /\ ExportMoves(l, "idle", "check")
    /\ UNCHANGED <<left, current, exportDisk>>

\* Mutant: any version's marker will do.
ExportCheck_AnyMarker(l) ==
    /\ IF markers # {}
       THEN ExportMoves(l, "check", "idle") /\ UNCHANGED left
       ELSE /\ ExportMoves(l, "check", "restore")
            /\ left' = [left EXCEPT ![l] = Assets]
    /\ UNCHANGED <<version, markers, asset, usable, current, spoiled>>

\* Lines 18-26.
ExportCheck(l) ==
    /\ IF version \in markers
       THEN ExportMoves(l, "check", "idle") /\ UNCHANGED left
       ELSE /\ ExportMoves(l, "check", "restore")
            /\ left' = [left EXCEPT ![l] = Assets]
    /\ UNCHANGED <<version, markers, asset, usable, current, spoiled>>

\* Lines 28 and 44: RestoreAsset opens a file, which truncates it, ...
RestoreOpen(l, a) ==
    /\ ExportMoves(l, "restore", "write")
    /\ a \in Batch(l)
    /\ current' = [current EXCEPT ![l] = a]
    /\ asset' = [asset EXCEPT ![a] = Torn]
    /\ UNCHANGED <<version, markers, usable, left, spoiled>>

\* ... writes it, ...
RestoreWrite(l) ==
    /\ ExportMoves(l, "write", "link")
    /\ asset' = [asset EXCEPT ![current[l]] = version]
    /\ UNCHANGED <<version, markers, usable, left, current, spoiled>>

\* ... or fails in one of the two.
RestoreFail(l, a) ==
    /\ DiskMayFail
    /\ \/ ExportMoves(l, "restore", "link") /\ a \in Batch(l)
       \/ ExportMoves(l, "write", "link") /\ a = current[l]
    /\ current' = [current EXCEPT ![l] = a]
    /\ spoiled' = spoiled \cup {a}
    /\ UNCHANGED <<version, markers, asset, usable, left>>

\* Lines 30-31 and 45-46: what is there is made executable and linked.
ExportLink(l) ==
    /\ ExportMoves(l, "link", "restore")
    /\ usable' = [usable EXCEPT ![current[l]] = asset[current[l]] # 0]
    /\ left' = [left EXCEPT ![l] = @ \ {current[l]}]
    /\ spoiled' = IF asset[current[l]] = version
                  THEN spoiled \ {current[l]} ELSE spoiled
    /\ UNCHANGED <<version, markers, asset, current>>

\* Mutant: the marker comes first.
ExportMark_First(l) ==
    /\ exportPc[l] = "restore"
    /\ exportPc' = IF left[l] = {} THEN [exportPc EXCEPT ![l] = "idle"] ELSE exportPc
    /\ markers' = markers \cup {version}
    /\ UNCHANGED <<version, asset, usable, left, current, spoiled>>

\* Lines 49-50; the marker's error is dropped as well.
ExportMark(l) ==
    /\ left[l] = {}
    /\ ExportMoves(l, "restore", "idle")
    /\ \/ markers' = markers \cup {version}
       \/ DiskMayFail /\ UNCHANGED markers
    /\ UNCHANGED <<version, asset, usable, left, current, spoiled>>

ExportStep(l) ==
    \/ ExportCheck(l)
    \/ \E a \in Assets : RestoreOpen(l, a) \/ RestoreFail(l, a)
    \/ RestoreWrite(l)
    \/ ExportLink(l)
    \/ ExportMark(l)

-----------------------------------------------------------------------------
\* The installed version of a is there and can be started, unless it could not
\* be written.  Another pointloop may be at it: RestoreAsset truncates it.
Exported(a) ==
    a \in spoiled \/ (usable[a] /\ (asset[a] = version \/ Writing(a)))

\* checkIfRcExist (firstrun.go:15-53) trusts the marker for ever.  However many
\* pointloops export at once and whenever the process is ended, a marker of the
\* installed version means that every binary is there in that version and can be
\* started, or is being written over by another pointloop; an asset that was
\* not written in full, and only that one, is the exception.
MarkedIsExported == version \in markers => \A a \in Assets : Exported(a)
=============================================================================
