----------------------------- MODULE V2RayPoint -----------------------------
(***************************************************************************)
(* The service object of src/interact.go with everything it drives: the    *)
(* proxy core, the root-mode Escorting object and VPNSupport.              *)
(*                                                                         *)
(* RunLoop and StopLoop only start a goroutine under the mutex v2rayOP;    *)
(* the goroutines themselves (pointloop, stopLoopW, the restart that       *)
(* NetworkInterrupted starts, the 5 s timer) share every field without a   *)
(* lock, and interleave step by step.  IsRunning is set by pointloop, not  *)
(* by RunLoop, so a second RunLoop in between starts a second pointloop.   *)
(*                                                                         *)
(* time.Sleep bounds a wait from below only, and Close, Start and the      *)
(* scripts take as long as they take, so a sleep is just a point where     *)
(* other goroutines may run.                                               *)
(*                                                                         *)
(* The proxy core (v2ray.com/core) is external: an instance is made by     *)
(* core.New, started, closed and started again; New and Start can fail,    *)
(* and the code goes on all the same.                                      *)
(***************************************************************************)
EXTENDS VPNSupport

CONSTANTS
    Starts,      \* goroutines that run pointloop
    Stops,       \* goroutines that run stopLoopW
    Interrupts,  \* goroutines NetworkInterrupted starts
    Configs,     \* the configurations the client may assign
    NoConf,      \* the nil *LibV2RayConf
    CoreMayFail, \* whether core.New and Start may fail
    ChildMayExit,\* whether a supervised process can end by itself
    MaxTimers,   \* bound: pending 5 s timers
    Manners      \* what the client waits for; see Client below

ASSUME StopsAreCallers == Stops = DownCallers
ASSUME CoreMayFailAssumption == CoreMayFail \in BOOLEAN
ASSUME MannersAssumption == Manners \subseteq {"status", "context", "vpn", "settle"}

VARIABLES
    startPc,     \* [Starts -> StartStates]
    stopPc,      \* [Stops -> StopStates]
    intPc,       \* [Interrupts -> IntStates]
    timers,      \* pending 5 s timers
    gate,        \* interuptDeferto
    reopened,    \* history: a timer cleared the gate during a restart that
                 \* is, or overlaps one that is, still going on
    vpoint,      \* status.Vpoint, by the state of the instance
    leaked,      \* history: a running instance was replaced by another one
    config,      \* ConfigureFile, ConfigureFileContent and the Context's file
    confng,      \* v.confng
    rootList,    \* escorter.Configure lists a process
    scripts,     \* UpdownScripts.Configure is not nil
    context,     \* v.Context: "nil", "legacy" (no Status) or "upgraded"
    client       \* what the client asked for last, and was answered; only a
                 \* client that waits for the status remembers it

lowerVars == <<crashed, escortVars, vpnVars>>
gateVars == <<timers, gate, reopened>>
coreVars == <<vpoint, leaked>>
confVars == <<confng, rootList, scripts>>
clientVars == <<config, context, client>>
pointVars == <<startPc, stopPc, intPc, gateVars, coreVars, confVars,
               clientVars>>
\* What the program's own goroutines move, and the finalizers with it.
moveVars == <<isRunning, lowerVars, pointVars>>
allVars == <<moveVars, fileVars>>

-----------------------------------------------------------------------------
(* Configurations. *)

\* root: RootModeConf is nil, lacks Scripts, or is complete; escort: it lists
\* a process; vpn: VpnConf is nil, or as in VpnConfs.  No code reads the
\* message's NoAutoConvert.
Confs == [root : {"nil", "noScripts", "full"}, escort : BOOLEAN,
          vpn : VpnConfs \cup {"nil"}]

\* kind: where the configuration is and what it is encoded in; ok: the core's
\* part of it parses; conf: the part for this library.
ConfigRecords ==
    [kind : {"jsonText", "protoText", "jsonFile", "protoFile", "otherFile"},
     ok : BOOLEAN,
     conf : Confs \cup {NoConf}]

ASSUME ConfigsAssumption == Configs \subseteq ConfigRecords /\ Configs # {}
ASSUME NoConfAssumption == NoConf \notin Confs

InFile(c) == c.kind \in {"jsonFile", "protoFile", "otherFile"}
\* Mutant: the JSON branches keep the old value too.
LoadedConf_KeepsOld(c, old) == IF c.conf = NoConf THEN old ELSE c.conf

\* The JSON branches assign confng even when it is nil; the protobuf branches
\* assign it only when the extension is there.
LoadedConf(c, old) ==
    IF c.kind \in {"protoText", "protoFile"} /\ c.conf = NoConf
    THEN old
    ELSE c.conf

\* "load": lines 69-155, "new": 167, "mark": 182, "start": 183, "branch": 188,
\* "escort": 189, 82 of escort.go, "raise": 85-89 of escort.go, "gate": 198-203,
\* "conf": 205-206, "vpn": 207, "scripts": 211-214, "tell": 226.
StartStates == {"idle", "load", "new", "mark", "start", "branch", "escort",
                "raise", "gate", "conf", "vpn", "scripts", "tell"}
\* "mark": 246, "close": 247, "branch": 248-249, "fd": vpnservice_interact.go
\* 59-72, "vpnDown": 73-76, "vpnWait": EscortingDown runs, "rootDown": 260,
\* "rootWait": EscortingDown runs, "tell": 267.
StopStates == {"idle", "mark", "close", "branch", "fd", "vpnDown", "vpnWait",
               "rootDown", "rootWait", "tell"}
\* "read": 318, "cas": 325, "close": 327, "start": 329, "store": 330.
IntStates == {"idle", "read", "cas", "close", "start", "store"}
\* "nil": never assigned; "bad": core.New failed and left a nil *Instance.
CoreStates == {"nil", "bad", "new", "running", "closed"}
ClientStates == {"idle", "starting", "serving", "stopping"}

TypeOK ==
    /\ VpnTypeOK
    /\ startPc \in [Starts -> StartStates]
    /\ stopPc \in [Stops -> StopStates]
    /\ intPc \in [Interrupts -> IntStates]
    /\ timers \in Nat
    /\ gate \in {0, 1}
    /\ reopened \in BOOLEAN
    /\ vpoint \in CoreStates
    /\ leaked \in BOOLEAN
    /\ config \in Configs
    /\ confng \in Confs \cup {NoConf}
    /\ rootList \in BOOLEAN
    /\ scripts \in BOOLEAN
    /\ context \in {"nil", "legacy", "upgraded"}
    /\ client \in ClientStates

\* NewV2RayPoint.
Init ==
    /\ VpnInit
    /\ isRunning = FALSE
    /\ crashed = FALSE
    /\ startPc = [p \in Starts |-> "idle"]
    /\ stopPc = [s \in Stops |-> "idle"]
    /\ intPc = [i \in Interrupts |-> "idle"]
    /\ timers = 0
    /\ gate = 0
    /\ reopened = FALSE
    /\ vpoint = "nil"
    /\ leaked = FALSE
    /\ config \in Configs
    /\ confng = NoConf
    /\ rootList = FALSE
    /\ scripts = FALSE
    /\ context = "nil"
    /\ client = "idle"

-----------------------------------------------------------------------------
\* Interrupt i won the gate and has not given it back.
Restarting(i) == intPc[i] \in {"close", "start", "store"}

(* The proxy core, through status.Vpoint. *)

\* core.New, whose error is only logged; it may fail for a configuration that
\* parses too.
CoreNew ==
    /\ \/ vpoint' = "new"
       \/ CoreMayFail /\ vpoint' = "bad"
    /\ leaked' = (leaked \/ vpoint = "running")

CoreStart ==
    /\ \/ vpoint' = "running"
       \/ CoreMayFail /\ vpoint' = vpoint
    /\ UNCHANGED leaked

CoreClose ==
    /\ vpoint' = "closed"
    /\ UNCHANGED leaked

\* A method call on a nil interface or on a nil *Instance panics.
NoCore == vpoint \in {"nil", "bad"}

-----------------------------------------------------------------------------
(* pointloop. *)

StartMoves(p, from, to) ==
    /\ startPc[p] = from
    /\ startPc' = [startPc EXCEPT ![p] = to]

\* Lines 69-155.  A file is looked up through the Context, which a legacy
\* client has without a Status; an unsupported file ends pointloop silently.
LoadPanics(c) ==
    \/ c.kind = "jsonText" /\ ~c.ok
    \/ InFile(c) /\ context = "legacy"

StartLoad(p) ==
    /\ startPc[p] = "load"
    /\ IF LoadPanics(config)
       THEN Panic /\ UNCHANGED <<startPc, confng>>
       ELSE /\ IF config.kind = "otherFile"
               THEN StartMoves(p, "load", "idle") /\ UNCHANGED confng
               ELSE /\ StartMoves(p, "load", "new")
                    /\ confng' = LoadedConf(config, confng)
            /\ UNCHANGED crashed
    /\ UNCHANGED <<isRunning, escortVars, vpnVars, stopPc, intPc, gateVars,
                   coreVars, rootList, scripts, clientVars>>

\* Line 167.
StartNew(p) ==
    /\ StartMoves(p, "new", "mark")
    /\ CoreNew
    /\ UNCHANGED <<isRunning, lowerVars, stopPc, intPc, gateVars,
                   confVars, clientVars>>

\* Mutant: "Running" is told as soon as IsRunning is set.
StartMark_Tells(p) ==
    /\ StartMoves(p, "mark", "start")
    /\ isRunning' = TRUE
    /\ client' = IF client = "starting" THEN "serving" ELSE client
    /\ UNCHANGED <<lowerVars, stopPc, intPc, gateVars, coreVars,
                   confVars, config, context>>

\* Line 182.
StartMark(p) ==
    /\ StartMoves(p, "mark", "start")
    /\ isRunning' = TRUE
    /\ UNCHANGED <<lowerVars, stopPc, intPc, gateVars, coreVars,
                   confVars, clientVars>>

\* Line 183; the error is dropped.
StartCore(p) ==
    /\ startPc[p] = "start"
    /\ IF NoCore
       THEN Panic /\ UNCHANGED <<startPc, coreVars>>
       ELSE StartMoves(p, "start", "branch") /\ CoreStart /\ UNCHANGED crashed
    /\ UNCHANGED <<isRunning, escortVars, vpnVars, stopPc, intPc,
                   gateVars, confVars, clientVars>>

\* Line 188.
StartBranch(p) ==
    /\ StartMoves(p, "branch", IF confng = NoConf THEN "tell" ELSE "escort")
    /\ UNCHANGED <<isRunning, lowerVars, stopPc, intPc, gateVars,
                   coreVars, confVars, clientVars>>

\* Lines 189-190 up to the test of EscortingUP.  From here on confng is not
\* nil, unless another pointloop has loaded a configuration since: lines 189,
\* 205 and 212 dereference it again.
StartEscort(p) ==
    /\ startPc[p] = "escort"
    /\ IF confng = NoConf \/ confng.root = "nil"
       THEN Panic /\ UNCHANGED <<startPc, rootList>>
       ELSE /\ StartMoves(p, "escort", IF up[Root] THEN "gate" ELSE "raise")
            /\ rootList' = confng.escort
            /\ UNCHANGED crashed
    /\ UNCHANGED <<isRunning, escortVars, vpnVars, stopPc, intPc,
                   gateVars, coreVars, confng, scripts, clientVars>>

\* The rest of EscortingUP.
StartRaise(p) ==
    /\ StartMoves(p, "raise", "gate")
    /\ Closers(Root) < MaxClosers
    /\ EscortingUP(Root, rootList)
    /\ UNCHANGED <<isRunning, vpnVars, stopPc, intPc, gateVars,
                   coreVars, confVars, clientVars>>

\* Lines 198-203.
StartGate(p) ==
    /\ StartMoves(p, "gate", "conf")
    /\ timers < MaxTimers
    /\ gate' = 1
    /\ timers' = timers + 1
    /\ UNCHANGED <<isRunning, lowerVars, stopPc, intPc, reopened,
                   coreVars, confVars, clientVars>>

\* Lines 205-206.
StartConf(p) ==
    /\ startPc[p] = "conf"
    /\ IF confng = NoConf \/ confng.vpn = "nil"
       THEN Panic /\ UNCHANGED <<startPc, escortVars, vpnVars>>
       ELSE StartMoves(p, "conf", "vpn") /\ AssignConf(confng.vpn)
    /\ UNCHANGED <<isRunning, stopPc, intPc, gateVars, coreVars,
                   confVars, clientVars>>

\* Line 207.
StartVpn(p) ==
    /\ StartMoves(p, "vpn", "scripts")
    /\ VpnSetup
    /\ UNCHANGED <<isRunning, stopPc, intPc, gateVars, coreVars,
                   confVars, clientVars>>

\* Lines 211-214.
StartScripts(p) ==
    /\ startPc[p] = "scripts"
    /\ IF confng = NoConf \/ confng.root # "full"
       THEN Panic /\ UNCHANGED <<startPc, scripts>>
       ELSE /\ StartMoves(p, "scripts", "tell")
            /\ scripts' = TRUE
            /\ UNCHANGED crashed
    /\ UNCHANGED <<isRunning, escortVars, vpnVars, stopPc, intPc,
                   gateVars, coreVars, confng, rootList, clientVars>>

\* Line 226: OnEmitStatus, and what the client makes of it.
StartTell(p) ==
    /\ StartMoves(p, "tell", "idle")
    /\ client' = IF client = "starting" THEN "serving" ELSE client
    /\ UNCHANGED <<isRunning, lowerVars, stopPc, intPc, gateVars,
                   coreVars, confVars, config, context>>

PointLoop(p) ==
    \/ StartLoad(p) \/ StartNew(p) \/ StartMark(p) \/ StartCore(p)
    \/ StartBranch(p) \/ StartEscort(p) \/ StartRaise(p) \/ StartGate(p)
    \/ StartConf(p) \/ StartVpn(p) \/ StartScripts(p) \/ StartTell(p)

\* Mutant: the timer takes back its own increment instead of clearing.
TimerFires_Decrements ==
    /\ timers > 0
    /\ timers' = timers - 1
    /\ gate' = gate - 1
    /\ UNCHANGED <<isRunning, lowerVars, startPc, stopPc, intPc, reopened,
                   coreVars, confVars, clientVars>>

\* The 5 s timer of line 200.
TimerFires ==
    /\ timers > 0
    /\ timers' = timers - 1
    /\ gate' = 0
    /\ reopened' = (reopened \/ \E i \in Interrupts : Restarting(i))
    /\ UNCHANGED <<isRunning, lowerVars, startPc, stopPc, intPc, coreVars,
                   confVars, clientVars>>

-----------------------------------------------------------------------------
(* stopLoopW. *)

StopMoves(s, from, to) ==
    /\ stopPc[s] = from
    /\ stopPc' = [stopPc EXCEPT ![s] = to]

StopFrame == UNCHANGED <<startPc, intPc, gateVars, confVars>>

\* Mutant: IsRunning stays TRUE while the service is taken down.
StopMark_Forgets(s) ==
    /\ StopMoves(s, "mark", "close")
    /\ UNCHANGED <<isRunning, lowerVars, coreVars, clientVars>>
    /\ StopFrame

\* Line 246.
StopMark(s) ==
    /\ StopMoves(s, "mark", "close")
    /\ isRunning' = FALSE
    /\ UNCHANGED <<lowerVars, coreVars, clientVars>>
    /\ StopFrame

\* Mutant: the core is not closed.
StopClose_Forgets(s) ==
    /\ StopMoves(s, "close", "branch")
    /\ UNCHANGED <<isRunning, lowerVars, coreVars, clientVars>>
    /\ StopFrame

\* Line 247.
StopClose(s) ==
    /\ stopPc[s] = "close"
    /\ IF NoCore
       THEN Panic /\ UNCHANGED <<stopPc, coreVars>>
       ELSE StopMoves(s, "close", "branch") /\ CoreClose /\ UNCHANGED crashed
    /\ UNCHANGED <<isRunning, escortVars, vpnVars, clientVars>>
    /\ StopFrame

\* Lines 248-249: RunDownScript dereferences the scripts pointloop assigns.
StopBranch(s) ==
    /\ stopPc[s] = "branch"
    /\ IF confng # NoConf /\ ~scripts
       THEN Panic /\ UNCHANGED stopPc
       ELSE /\ StopMoves(s, "branch", IF confng = NoConf THEN "tell" ELSE "fd")
            /\ UNCHANGED crashed
    /\ UNCHANGED <<isRunning, escortVars, vpnVars, coreVars, clientVars>>
    /\ StopFrame

\* Line 259: VpnShutdown, up to its Shutdown callback.
StopFd(s) ==
    /\ StopMoves(s, "fd", IF vpnConf = "on" THEN "vpnDown" ELSE "rootDown")
    /\ ShutdownFd
    /\ UNCHANGED <<isRunning, coreVars, clientVars>>
    /\ StopFrame

\* The rest of VpnShutdown.
StopVpn(s) ==
    /\ \/ StopMoves(s, "vpnDown", "vpnWait") /\ ShutdownEscort(s)
       \/ StopMoves(s, "vpnDown", "rootDown") /\ ShutdownNextGen
       \/ /\ StopMoves(s, "vpnWait", "rootDown")
          /\ EscortingDownReturns(s)
          /\ UNCHANGED vpnVars
    /\ UNCHANGED <<isRunning, coreVars, clientVars>>
    /\ StopFrame

\* Line 260.
StopRoot(s) ==
    /\ \/ StopMoves(s, "rootDown", "rootWait") /\ CallEscortingDown(s, Root)
       \/ StopMoves(s, "rootWait", "tell") /\ EscortingDownReturns(s)
    /\ UNCHANGED <<isRunning, vpnVars, coreVars, clientVars>>
    /\ StopFrame

\* Line 267.
StopTell(s) ==
    /\ StopMoves(s, "tell", "idle")
    /\ client' = IF client = "stopping" THEN "idle" ELSE client
    /\ UNCHANGED <<isRunning, lowerVars, coreVars, config, context>>
    /\ StopFrame

StopLoopW(s) ==
    \/ StopMark(s) \/ StopClose(s) \/ StopBranch(s) \/ StopFd(s)
    \/ StopVpn(s) \/ StopRoot(s) \/ StopTell(s)

-----------------------------------------------------------------------------
(* The goroutine of NetworkInterrupted.  Its deferred recover swallows the   *)
(* panic of a nil core, and gate then stays 1.                               *)

IntMoves(i, from, to) ==
    /\ intPc[i] = from
    /\ intPc' = [intPc EXCEPT ![i] = to]
    /\ UNCHANGED <<isRunning, lowerVars, startPc, stopPc, timers, confVars,
                   clientVars>>

\* The last of the restarts that overlap forgets that a timer came between.
Ends(i) == reopened' = (reopened /\ \E j \in Interrupts \ {i} : Restarting(j))

\* Line 318.
IntRead(i) ==
    /\ IntMoves(i, "read", IF isRunning THEN "cas" ELSE "idle")
    /\ UNCHANGED <<gate, reopened, coreVars>>

\* Line 325.
IntCas(i) ==
    /\ IntMoves(i, "cas", IF gate = 0 THEN "close" ELSE "idle")
    /\ gate' = 1
    /\ UNCHANGED <<reopened, coreVars>>

\* Mutant: the gate is opened before the core is up again.
IntClose_OpensGate(i) ==
    /\ IntMoves(i, "close", "start")
    /\ CoreClose
    /\ gate' = 0
    /\ UNCHANGED reopened

\* Line 327.
IntClose(i) ==
    /\ IF NoCore
       THEN IntMoves(i, "close", "idle") /\ Ends(i) /\ UNCHANGED coreVars
       ELSE IntMoves(i, "close", "start") /\ CoreClose /\ UNCHANGED reopened
    /\ UNCHANGED gate

\* Lines 328-329.
IntStart(i) ==
    /\ IF NoCore
       THEN IntMoves(i, "start", "idle") /\ Ends(i) /\ UNCHANGED coreVars
       ELSE IntMoves(i, "start", "store") /\ CoreStart /\ UNCHANGED reopened
    /\ UNCHANGED gate

\* Mutant: the gate is not opened again.
IntStore_Forgets(i) ==
    /\ IntMoves(i, "store", "idle")
    /\ UNCHANGED <<gate, reopened, coreVars>>

\* Line 330.
IntStore(i) ==
    /\ IntMoves(i, "store", "idle")
    /\ gate' = 0
    /\ Ends(i)
    /\ UNCHANGED coreVars

Restart(i) ==
    IntRead(i) \/ IntCas(i) \/ IntClose(i) \/ IntStart(i) \/ IntStore(i)

-----------------------------------------------------------------------------
(* The client, an Android application: it may call anything at any time.     *)
(* Manners says what a better client waits for:                              *)
(*   "status": it calls RunLoop or changes the configuration only when       *)
(*             nothing runs and StopLoop only when "Running" was told, both  *)
(*             once;                                                         *)
(*   "context": it calls UpgradeToContext before RunLoop;                    *)
(*   "vpn":    it has set a support set before RunLoop, chooses the tunnel   *)
(*             while nothing runs, and calls StopLoop only when              *)
(*             VpnSupportReady has answered every Prepare and returned;      *)
(*   "settle": it leaves the supervisor of the VPN process time to act: it   *)
(*             calls StopLoop only when the process is up, and RunLoop only  *)
(*             when the EscortRun of the last session has returned.          *)

Waits(what, condition) == what \in Manners => condition
Remembers(what) == IF "status" \in Manners THEN what ELSE client

ClientSets(c) ==
    /\ Waits("status", client = "idle")
    /\ config' = c
    /\ UNCHANGED <<isRunning, lowerVars, startPc, stopPc, intPc, gateVars,
                   coreVars, confVars, context, client>>

UpgradeToContext ==
    /\ context = "nil"
    /\ context' = "upgraded"
    /\ UNCHANGED <<isRunning, lowerVars, startPc, stopPc, intPc, gateVars,
                   coreVars, confVars, config, client>>

UsesVpn == \E c \in Configs : c.conf # NoConf /\ c.conf.vpn = "on"

ClientSetsVpn ==
    /\ UsesVpn
    /\ \/ SetVpnSupportSet
       \/ Waits("vpn", client = "idle") /\ OptinNextGenerationTunInterface
    /\ UNCHANGED <<isRunning, pointVars>>

ClientReady(r) ==
    /\ VpnSupportReady(r)
    /\ UNCHANGED <<isRunning, pointVars>>

\* Mutant: RunLoop itself sets IsRunning, so that a second call does nothing.
RunLoop_Marks ==
    /\ ~isRunning
    /\ isRunning' = TRUE
    /\ \E p \in Starts : StartMoves(p, "idle", "load")
    /\ UNCHANGED <<lowerVars, stopPc, intPc, gateVars, coreVars,
                   confVars, clientVars>>

RunLoop ==
    /\ Waits("status", client = "idle")
    /\ Waits("context", context = "upgraded")
    /\ Waits("vpn", UsesVpn => supportSet)
    /\ Waits("settle", estr # NoEscort => runPc[estr] = "done")
    /\ context' = IF context = "nil" THEN "legacy" ELSE context
    /\ client' = Remembers("starting")
    /\ IF isRunning
       THEN UNCHANGED startPc
       ELSE \E p \in Starts : StartMoves(p, "idle", "load")
    /\ UNCHANGED <<isRunning, lowerVars, stopPc, intPc, gateVars,
                   coreVars, confVars, config>>

StopLoop ==
    /\ Waits("status", client = "serving")
    /\ Waits("vpn", ~prepared /\ \A r \in ReadyCallers : readyPc[r] = "idle")
    /\ Waits("settle", estr # NoEscort => runPc[estr] \in {"wait", "done"})
    /\ client' = Remembers("stopping")
    /\ IF isRunning
       THEN \E s \in Stops : StopMoves(s, "idle", "mark")
       ELSE UNCHANGED stopPc
    /\ UNCHANGED <<isRunning, lowerVars, startPc, intPc, gateVars, coreVars,
                   confVars, config, context>>

NetworkInterrupted ==
    /\ \E i \in Interrupts : IntMoves(i, "idle", "read")
    /\ UNCHANGED <<gate, reopened, coreVars>>

Client ==
    \/ \E c \in Configs : ClientSets(c)
    \/ UpgradeToContext
    \/ ClientSetsVpn
    \/ RunLoop
    \/ StopLoop
    \/ NetworkInterrupted

-----------------------------------------------------------------------------
(* The whole program.  A panic ends every goroutine, not the children.       *)

KeepsFiles == UNCHANGED fileVars

Calls == ~crashed /\ Client /\ KeepsFiles
ClientAnswers(r) == ~crashed /\ ClientReady(r) /\ KeepsFiles
Loop(p) == ~crashed /\ PointLoop(p) /\ KeepsFiles
Stopping(s) == ~crashed /\ StopLoopW(s) /\ KeepsFiles
Interrupting(i) == ~crashed /\ Restart(i) /\ KeepsFiles
Timer == ~crashed /\ TimerFires /\ KeepsFiles
Ready(r) ==
    /\ ~crashed
    /\ ReadyStep(r)
    /\ ReadyDropsFile(r)
    /\ UNCHANGED <<isRunning, pointVars>>
Supervisor(e) ==
    /\ ~crashed
    /\ RunStep(e, StartFails(e))
    /\ RunDropsFile(e)
    /\ UNCHANGED <<isRunning, vpnVars, pointVars>>
Closer(e) ==
    /\ ~crashed
    /\ CloserQuits(e)
    /\ UNCHANGED <<isRunning, vpnVars, fileVars, pointVars>>
Down(s) ==
    /\ ~crashed
    /\ DownStep(s)
    /\ UNCHANGED <<isRunning, vpnVars, fileVars, pointVars>>
Child(e) ==
    /\ ChildMayExit
    /\ ChildExit(e)
    /\ UNCHANGED <<isRunning, vpnVars, fileVars, pointVars>>
\* The collector works while the program does.
Collector == ~crashed /\ Finalize /\ UNCHANGED <<isRunning, pointVars>>

Moves ==
    \/ Calls
    \/ \E r \in ReadyCallers : ClientAnswers(r) \/ Ready(r)
    \/ \E p \in Starts : Loop(p)
    \/ \E s \in Stops : Stopping(s) \/ Down(s)
    \/ \E i \in Interrupts : Interrupting(i)
    \/ Timer
    \/ \E e \in Escorts : Supervisor(e) \/ Closer(e) \/ Child(e)

Next == Moves \/ Collector

Spec == Init /\ [][Next]_allVars

\* The scheduler runs every goroutine that can take a step, a timer fires, and
\* the client answers Prepare.  The client's other calls come when they come,
\* and nothing makes the collector run.
Fairness ==
    /\ \A p \in Starts : WF_allVars(Loop(p))
    /\ \A s \in Stops : WF_allVars(Stopping(s)) /\ WF_allVars(Down(s))
    /\ \A i \in Interrupts : WF_allVars(Interrupting(i))
    /\ WF_allVars(Timer)
    /\ \A r \in ReadyCallers : WF_allVars(ClientAnswers(r)) /\ WF_allVars(Ready(r))
    /\ \A e \in Escorts : WF_allVars(Supervisor(e)) /\ WF_allVars(Closer(e))

FairSpec == Spec /\ Fairness
=============================================================================
