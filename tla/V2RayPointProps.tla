-------------------------- MODULE V2RayPointProps --------------------------
(* The properties of the service of src/interact.go.  A client is patient    *)
(* when it waits for the status callbacks, VpnSupportReady and the child:    *)
(* Manners = {"status", "context", "vpn", "settle"}.                         *)
EXTENDS V2RayPoint

Promise == INSTANCE Service WITH
    phase <- client,
    core <- vpoint = "running",
    tun <- fd = "open"

\* A patient client gets what Service promises (interact.go:66-282).
ImplementsService == Promise!ServiceSpec

\* Every RunLoop and StopLoop of a patient client is answered, or the program
\* panicked, which only a tun descriptor lost to a finalizer brings about
\* (interact.go:66-282; escort.go:26-31, 104).
AnswersClient == <>crashed \/ Promise!ServiceLive

\* How far pointloop is with the root object, and VpnSupportReady with v.Estr
\* (interact.go:190; vpnservice_interact.go:37-40).
OwnerPc ==
    LET starts(pc) == \E p \in Starts : startPc[p] = pc
        readies(pc) == \E r \in ReadyCallers : readyPc[r] = pc
    IN  [e \in Escorts |->
            CASE e = Root /\ starts("raise") -> "made"
              [] e = estr /\ readies("raise") -> "made"
              [] e = estr /\ readies("spawn") -> "raised"
              [] OTHER -> IF status[e] THEN "spawned" ELSE "new"]

Supervision == INSTANCE EscortSystem WITH
    StartMayFail <- TRUE,
    Roots <- {Root},
    RootLists <- BOOLEAN,
    ownerPc <- OwnerPc

\* The service and the VPN mode use their Escorting objects the way
\* EscortSystem says: a VPN object is made, raised and given its EscortRun
\* once and in this order (vpnservice_interact.go:37-40), and the root object
\* is raised only by a pointloop that has found it down (interact.go:190).
UsesEscortsAsOwner == Supervision!Spec

\* The program does not panic, unless a finalizer took the tun descriptor away
\* from a child that was about to be started: nothing else is dereferenced
\* before it is assigned, or after it is cleared (interact.go:189, 205, 247-260;
\* escort.go:26, 37, 104; vpnservice_interact.go:51, 69, 74).
NoCrash == crashed => lost

\* Vpoint is usable while IsRunning: pointloop assigns it first (interact.go:
\* 167-182) and nobody clears it.  What core.New leaves behind when it failed,
\* a nil *Instance, is found there only while the pointloop that called it has
\* not come past Start (183), where the program panics; NetworkInterrupted
\* (326-330) can meet it then.
RunningHasCore ==
    isRunning /\ ~crashed /\ NoCore =>
        vpoint = "bad" /\ \E p \in Starts : startPc[p] \in {"mark", "start"}

\* The order of RunLoop's and StopLoop's goroutines: for a client that waits
\* for the status, pointloop and stopLoopW never run at the same time, and
\* neither runs twice (interact.go:232-282).
WorkersExclusive ==
    LET busy == {p \in Starts : startPc[p] # "idle"}
                    \cup {s \in Stops : stopPc[s] # "idle"}
    IN  \A a, b \in busy : a = b

\* No core instance is dropped while it runs: whoever replaces status.Vpoint
\* (interact.go:167) has seen it closed (247).
NoCoreLeaked == ~leaked

\* VpnShutdown closes a descriptor only while the tun interface owns it
\* (vpnservice_interact.go:69), unless the finalizer of a file of an earlier
\* child, or of an earlier tunnel, has closed it first (escort.go:26).
NoStaleClose == staleClose => lost

\* While the client is served, the configuration in force is the one it
\* assigned (interact.go:83, 97, 118, 137), or the one before it when the
\* protobuf message it assigned has no part for this library (92-100, 133-139).
ServesConfig ==
    client = "serving" =>
        \/ confng = config.conf
        \/ config.kind \in {"protoText", "protoFile"} /\ config.conf = NoConf

\* Restarts that hold the gate overlap only when a 5 s timer cleared the gate
\* during one of them: the compare-and-swap of interact.go:325 admits one
\* restart, and only pointloop's timer (202) opens the gate behind its back.
OverlapNeedsTimer ==
    ~reopened =>
        /\ \A i, j \in Interrupts : Restarting(i) /\ Restarting(j) => i = j
        /\ gate = 0 => \A i \in Interrupts : ~Restarting(i)

\* A closed gate opens again: NetworkInterrupted is not suppressed for ever
\* (interact.go:198-203 and 325-330).
GateReopens == gate = 1 ~> gate = 0 \/ crashed

-----------------------------------------------------------------------------
(* What comments of the source say and the code does not do. *)

\* interact.go:313-315: "From now, we will defer the start for 3 sec, any
\* Interruption Message will be surpressed during this period".
InterruptionsSuppressed ==
    \A i, j \in Interrupts : Restarting(i) /\ Restarting(j) => i = j

\* interact.go:271: "StopLoop Stop V2Ray main loop": after "Closed" the core
\* does not run.
ClosedIsClosed == client = "idle" => vpoint # "running"

\* The same, of the call itself: a StopLoop ends in "Closed".
StopLoopStops == client = "stopping" ~> client = "idle" \/ crashed

\* escort.go:43 logs "Unexpected Exit" before it starts a process again: the
\* process was not ended by EscortingDown, so its object is still up.
RestartsUnexpectedExitsOnly ==
    \A e \in Escorts :
        runPc[e] = "start" /\ count[e] < RestartLimit => up[e]

\* escort.go:99 logs "Killing all escorted process" on the way to "Closed":
\* when "Closed" has been told, no process of the session is left.
NothingLeftRunning == client = "idle" => \A e \in Escorts : alive[e] = {}

\* interact.go:34-39: "ConfigureFile can be either the path of config file or
\* [...] in JSON format or [...] in protobuf format": the configuration that is
\* assigned, in either format, is the one in force.
ServesAssigned == client = "serving" => confng = config.conf
=============================================================================
