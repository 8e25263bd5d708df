----------------------------- MODULE VPNSupport -----------------------------
(***************************************************************************)
(* The VPN mode of src/VPN/vpnservice_interact.go.  Android gives the      *)
(* service a tun interface; a supervised process (tun2socks) or, when the  *)
(* client opted in, the tunnel of the waVingOcean library moves its        *)
(* packets to the proxy core.                                              *)
(*                                                                         *)
(* pointloop calls VpnSetup, which asks the client to prepare; the client  *)
(* answers with VpnSupportReady on a thread of its own; stopLoopW calls    *)
(* VpnShutdown.  The VPNSupport object has no lock.                        *)
(*                                                                         *)
(* The client's VpnService and the waVingOcean tunnel are external: a tun  *)
(* descriptor is opened by the Setup callback and is what GetVPNFd returns.*)
(*                                                                         *)
(* EscortRun (escort.go:26) and startNextGen (line 101) wrap the number of *)
(* the tun descriptor in an os.File, and nobody keeps or closes the file:  *)
(* when the collector finds it unreachable, its finalizer closes the       *)
(* number, whoever owns it by then.                                        *)
(*                                                                         *)
(* Left out: Status.VpnSupportnodup, which is only ever set to FALSE (the  *)
(* assignment of TRUE is commented out), so that the test in               *)
(* VpnSupportReady always succeeds; the dialer it installs; and SetStatus, *)
(* which pointloop calls before it asks the client to prepare.             *)
(***************************************************************************)
EXTENDS Escort

CONSTANTS
    Root,           \* the Escorting object of the V2RayPoint; the other
                    \* elements of Escorts stand for VPN objects
    ReadyCallers,   \* client threads that call VpnSupportReady
    NoEscort        \* the nil Escorting pointer

ASSUME RootAssumption == Root \in Escorts
ASSUME NoEscortAssumption == NoEscort \notin Escorts

VpnObjects == Escorts \ {Root}

VARIABLES
    supportSet,  \* VpnSupportSet is not nil
    vpnConf,     \* v.Conf: "partial", "off" or "on"
    estr,        \* v.Estr
    nextGen,     \* usewaVingOceanVPNBackend
    lowerup,     \* v.lowerup: "nil", "up" or "down"
    fd,          \* the tun descriptor: "none", "open" or "closed"
    staleClose,  \* a descriptor that is not open was closed
    prepared,    \* Prepare was called and not answered by VpnSupportReady
    readyPc,     \* [ReadyCallers -> ReadyStates]
    garbage,     \* an os.File of a tun number is unreachable, not finalized
    lost         \* history: a finalizer closed the open tun descriptor

fileVars == <<garbage, lost>>
vpnVars == <<supportSet, vpnConf, estr, nextGen, lowerup, fd,
             staleClose, prepared, readyPc>>

\* "partial": VPNConfig lacks a message that VpnSetup dereferences (as it does
\* before the first session); "off", "on": VPNSetupArg is empty, or is not.
VpnConfs == {"partial", "off", "on"}
\* "setup": lines 22-36.  "new", "raise", "spawn": lines 37-38, 39 and 40.
\* "nextGen": line 42.
ReadyStates == {"idle", "setup", "new", "raise", "spawn", "nextGen"}

VpnTypeOK ==
    /\ EscortTypeOK
    /\ supportSet \in BOOLEAN
    /\ vpnConf \in VpnConfs
    /\ estr \in VpnObjects \cup {NoEscort}
    /\ nextGen \in BOOLEAN
    /\ lowerup \in {"nil", "up", "down"}
    /\ fd \in {"none", "open", "closed"}
    /\ staleClose \in BOOLEAN
    /\ prepared \in BOOLEAN
    /\ readyPc \in [ReadyCallers -> ReadyStates]
    /\ garbage \in BOOLEAN
    /\ lost \in BOOLEAN

VpnInit ==
    /\ EscortInit
    /\ supportSet = FALSE
    /\ vpnConf = "partial"
    /\ estr = NoEscort
    /\ nextGen = FALSE
    /\ lowerup = "nil"
    /\ fd = "none"
    /\ staleClose = FALSE
    /\ prepared = FALSE
    /\ readyPc = [r \in ReadyCallers |-> "idle"]
    /\ garbage = FALSE
    /\ lost = FALSE

-----------------------------------------------------------------------------
(* Operations of the client. *)

SetVpnSupportSet ==
    /\ supportSet' = TRUE
    /\ UNCHANGED <<crashed, escortVars, vpnConf, estr, nextGen,
                   lowerup, fd, staleClose, prepared, readyPc>>

OptinNextGenerationTunInterface ==
    /\ nextGen' = TRUE
    /\ UNCHANGED <<crashed, escortVars, supportSet, vpnConf, estr,
                   lowerup, fd, staleClose, prepared, readyPc>>

\* The client's answer to the Prepare callback.
VpnSupportReady(r) ==
    /\ prepared
    /\ prepared' = FALSE
    /\ readyPc[r] = "idle"
    /\ readyPc' = [readyPc EXCEPT ![r] = "setup"]
    /\ UNCHANGED <<crashed, escortVars, supportSet, vpnConf, estr,
                   nextGen, lowerup, fd, staleClose>>

-----------------------------------------------------------------------------
(* VpnSupportReady, step by step. *)

ReadyMoves(r, from, to) ==
    /\ readyPc[r] = from
    /\ readyPc' = [readyPc EXCEPT ![r] = to]
    /\ UNCHANGED <<supportSet, vpnConf, nextGen, staleClose,
                   prepared>>

\* Lines 22-36: the Setup callback opens the tun interface.
ReadySetup(r) ==
    /\ ReadyMoves(r, "setup", IF nextGen THEN "nextGen" ELSE "new")
    /\ fd' = "open"
    /\ UNCHANGED <<crashed, escortVars, estr, lowerup>>

\* Mutant: EscortingUPV is forgotten.
ReadyNewEscort_NoRaise(r) ==
    /\ ReadyMoves(r, "new", "spawn")
    /\ \E e \in VpnObjects : NewEscort(e) /\ estr' = e
    /\ UNCHANGED <<lowerup, fd>>

\* Lines 37-38.
ReadyNewEscort(r) ==
    /\ ReadyMoves(r, "new", "raise")
    /\ \E e \in VpnObjects :
           /\ NewEscort(e)
           /\ estr' = e
    /\ UNCHANGED <<lowerup, fd>>

\* Line 39.
ReadyRaise(r) ==
    /\ ReadyMoves(r, "raise", "spawn")
    /\ EscortingUPV(estr)
    /\ UNCHANGED <<estr, lowerup, fd>>

\* Line 40.
ReadySpawn(r) ==
    /\ ReadyMoves(r, "spawn", "idle")
    /\ SpawnEscortRun(estr)
    /\ UNCHANGED <<estr, lowerup, fd>>

\* startNextGen.
ReadyNextGen(r) ==
    /\ ReadyMoves(r, "nextGen", "idle")
    /\ lowerup' = "up"
    /\ UNCHANGED <<crashed, escortVars, estr, fd>>

ReadyStep(r) ==
    \/ ReadySetup(r) \/ ReadyNewEscort(r) \/ ReadyRaise(r)
    \/ ReadySpawn(r) \/ ReadyNextGen(r)

-----------------------------------------------------------------------------
(* The os.File values of a tun number. *)

\* A child that is started needs the number open (escort.go:25-29).
StartFails(e) == StartMayFail \/ (e # Root /\ fd # "open")

\* After Wait nothing refers to the file EscortRun made for the child.
RunDropsFile(e) ==
    /\ garbage' = (garbage \/ (e # Root /\ runPc[e] = "wait"))
    /\ UNCHANGED lost

\* The tunnel that held the last file of startNextGen is replaced.
ReadyDropsFile(r) ==
    /\ garbage' = (garbage \/ (readyPc[r] = "nextGen" /\ lowerup # "nil"))
    /\ UNCHANGED lost

\* The finalizers run, of all the files or of some of them; the number they
\* close is free, is the tun interface's, or is another file's.
Finalize ==
    /\ garbage
    /\ garbage' \in BOOLEAN
    /\ \/ fd = "open" /\ fd' = "closed" /\ lost' = TRUE
       \/ UNCHANGED <<fd, lost>>
    /\ UNCHANGED <<crashed, escortVars, supportSet, vpnConf, estr, nextGen,
                   lowerup, staleClose, prepared, readyPc>>

-----------------------------------------------------------------------------
(* What pointloop and stopLoopW call. *)

\* interact.go:205-206; conf is not nil there.
AssignConf(conf) ==
    /\ vpnConf' = conf
    /\ UNCHANGED <<crashed, escortVars, supportSet, estr, nextGen, lowerup, fd,
                   staleClose, prepared, readyPc>>

\* Mutant: the client is not asked to prepare.
VpnSetup_NoPrepare == UNCHANGED <<crashed, escortVars, vpnVars>>

\* A nil VPNServiceConfig, or a nil support set, is dereferenced.
VpnSetup ==
    /\ IF vpnConf = "partial" \/ (vpnConf = "on" /\ ~supportSet)
       THEN Panic /\ UNCHANGED prepared
       ELSE prepared' = (prepared \/ vpnConf = "on") /\ UNCHANGED crashed
    /\ UNCHANGED <<escortVars, supportSet, vpnConf, estr, nextGen,
                   lowerup, fd, staleClose, readyPc>>

\* Mutant: the test of VpnSupportnodup, always FALSE, guards the close (lines
\* 68-71 before it was commented out).
ShutdownFd_OnlyNodup == UNCHANGED <<crashed, escortVars, vpnVars>>

\* Lines 59-72, up to the Shutdown callback.
ShutdownFd ==
    /\ IF vpnConf = "partial" \/ (vpnConf = "on" /\ ~supportSet)
       THEN Panic /\ UNCHANGED <<fd, staleClose>>
       ELSE IF vpnConf = "on"
       THEN /\ staleClose' = (staleClose \/ fd # "open")
            /\ fd' = IF fd = "open" THEN "closed" ELSE fd
            /\ UNCHANGED crashed
       ELSE UNCHANGED <<crashed, fd, staleClose>>
    /\ UNCHANGED <<escortVars, supportSet, vpnConf, estr, nextGen,
                   lowerup, prepared, readyPc>>

\* Lines 73-74 on goroutine d: the call, or the panic of a nil v.Estr.
ShutdownEscort(d) ==
    /\ ~nextGen
    /\ IF estr = NoEscort
       THEN Panic /\ UNCHANGED escortVars
       ELSE CallEscortingDown(d, estr)
    /\ UNCHANGED vpnVars

\* Lines 75-76: stopNextGen, which dereferences v.lowerup.
ShutdownNextGen ==
    /\ nextGen
    /\ IF lowerup = "nil"
       THEN Panic /\ UNCHANGED lowerup
       ELSE lowerup' = "down" /\ UNCHANGED crashed
    /\ UNCHANGED <<escortVars, supportSet, vpnConf, estr, nextGen,
                   fd, staleClose, prepared, readyPc>>
=============================================================================
