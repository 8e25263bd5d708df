---------------------------------- MODULE App ----------------------------------
(***************************************************************************)
(* The parts of the library that outlive a session: the Context and its    *)
(* property file, the loading of the configuration, the shipped binaries,  *)
(* the QR scanner and the dialer, in a process that panics, is killed and  *)
(* is started again, also after an upgrade of the app.                     *)
(*                                                                         *)
(* What one client does in its life is a member of Lives: the operations   *)
(* it uses and the disk it begins with.  A run explores several small      *)
(* lives; the theorems hold for any set of them.                           *)
(*                                                                         *)
(* A pointloop is a loader until its configuration is loaded, and then the *)
(* session of Dialer; what else it does is in V2RayPoint.                  *)
(***************************************************************************)
EXTENDS Loading, QRScan, Dialer

CONSTANTS
    Picker,  \* the thread of the file picker
    Lives

ASSUME PickerAssumption == Picker \in Lookers /\ Picker # Scanner
ASSUME ThreadsAssumption == {Picker, Scanner} \cap Loaders = {}

\* "pick", "own": files are assigned to other contexts, to the service's;
\* "overlap": RunLoop before the last pointloop has loaded; "again": a session
\* after the first of a process; "together": the core dials several at once.
Operations == {"pick", "own", "look", "rename", "load", "overlap", "scan", "dial", "again",
               "together", "upgrade", "kill"}

ASSUME LivesAssumption ==
    Lives \subseteq [uses : SUBSET Operations, exported : BOOLEAN,
                     prop : [Dirs -> Paths \cup {NoPath}],
                     files : [Paths -> FileRecords]]

VARIABLE uses  \* the operations of the client's life

vars == <<crashed, contextVars, exportVars, loadVars, scanVars, dialVars, uses>>

TypeOK ==
    /\ crashed \in Places \cup {"no"}
    /\ ContextTypeOK
    /\ FirstRunTypeOK
    /\ LoadTypeOK
    /\ ScanTypeOK
    /\ DialerTypeOK
    /\ uses \in SUBSET Operations

Init ==
    /\ crashed = "no"
    /\ ContextBegins
    /\ LoadBegins
    /\ ScanBegins
    /\ DialerBegins
    /\ rendered = 0
    /\ unrendered = FALSE
    /\ \E life \in Lives :
         /\ uses = life.uses
         /\ prop = life.prop
         /\ files = life.files
         /\ FirstRunInit(life.exported)

-----------------------------------------------------------------------------
(* The file picker, or the service's own screen. *)

Pick ==
    /\ Alive
    /\ \/ \E c \in Contexts :
            /\ (IF c = Service THEN "own" ELSE "pick") \in uses
            /\ \/ \E p \in Paths : AssignConfigureFile(c, p)
               \/ \E d \in Dirs : "rename" \in uses /\ SetPackageName(c, d)
       \/ \E c \in Contexts : "look" \in uses /\ LookTest(Picker, c)
       \/ LookStep(Picker) \/ LookReturn(Picker)
    /\ UNCHANGED <<crashed, exportVars, loadVars, scanVars, dialVars, uses>>

\* The rest of AssignConfigureFile.
SaveProp ==
    /\ Alive
    /\ PropTruncate \/ PropWrite \/ PropFail
    /\ UNCHANGED <<crashed, exportVars, loadVars, scanVars, dialVars, uses>>

Scan ==
    /\ Alive
    /\ "scan" \in uses
    /\ ScanStep
    /\ UNCHANGED <<exportVars, loadVars, dialVars, uses>>

-----------------------------------------------------------------------------
(* pointloop. *)

\* IsRunning is TRUE from the core's start to its end (interact.go:239).
RunLoop(l) ==
    /\ Alive
    /\ "load" \in uses
    /\ sessionPc = "down"
    /\ "again" \in uses \/ session = 0
    /\ "overlap" \in uses \/ \A k \in Loaders : loadPc[k] = "idle"
    /\ LoadBegin(l)
    /\ UNCHANGED <<scanVars, dialVars, uses>>

Load(l) ==
    /\ Alive
    /\ LoadStep(l)
    /\ UNCHANGED <<scanVars, dialVars, uses>>

\* The core could not be made; or it is started.
Loaded(l) ==
    /\ Alive
    /\ LoadMoves(l, "loaded", "idle")
    /\ LoadIsOver(l)
    /\ \/ UNCHANGED <<crashed, dialVars>>
       \/ "dial" \in uses /\ SessionBegin
    /\ UNCHANGED <<contextVars, exportVars, renderVars, confng, scanVars, uses>>

\* Whether the configuration has the section; in part, it may lack the fields.
Has(s) ==
    IF confng = NoConf THEN {FALSE}
    ELSE {s \in confng.filled} \cup IF s \in confng.part THEN {TRUE} ELSE {}

\* Lines 188-208, with the confng that is there now: VpnSetup prepares the
\* domains listed when there is a VPNSetupArg.
SetupVpn ==
    \/ FALSE \in Has("vpnservice") /\ SessionPlain
    \/ /\ TRUE \in Has("vpnservice")
       /\ \E listing \in Has("preparedDomainName") :
            \E domains \in SUBSET Domains :
              /\ domains # {} => listing
              /\ VpnSetup(domains)

Session ==
    /\ Alive
    /\ SetupVpn \/ SessionStep \/ SetV2RayDialer \/ SessionEnd
    /\ UNCHANGED <<contextVars, exportVars, loadVars, scanVars, uses>>

Connect(d) ==
    /\ Alive
    /\ \/ DialStep(d)
       \/ /\ "together" \in uses \/ dialPc = NoneRunning
          /\ \E e \in Entries : Dial(d, e)
    /\ UNCHANGED <<contextVars, exportVars, loadVars, scanVars, uses>>

Close ==
    /\ Alive
    /\ CloseDescriptor
    /\ UNCHANGED <<contextVars, exportVars, loadVars, scanVars, uses>>

-----------------------------------------------------------------------------
(* The operating system. *)

\* The process ends, after a panic or because Android kills it; the next one
\* may be of a newer app.
Kill ==
    /\ ~Alive \/ "kill" \in uses
    /\ crashed' = "no"
    /\ ContextForgets
    /\ FirstRunForgets
    /\ LoadForgets
    /\ ScanForgets
    /\ DialerForgets
    /\ \/ "upgrade" \in uses /\ Upgrade
       \/ UNCHANGED exportState
    /\ UNCHANGED <<prop, files, renderVars, uses>>

Next ==
    \/ Pick \/ SaveProp \/ Scan
    \/ \E l \in Loaders : RunLoop(l) \/ Load(l) \/ Loaded(l)
    \/ Session
    \/ \E d \in Dials : Connect(d)
    \/ Close
    \/ Kill

Spec == Init /\ [][Next]_vars
=============================================================================
