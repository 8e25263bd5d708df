-------------------------------- MODULE Dialer --------------------------------
(***************************************************************************)
(* The connections of the proxy core in VPN mode                           *)
(* (src/VPN/vpnservice_support.go, vpnservice_dnsloopfix.go).  VpnSetup    *)
(* resolves the configured domain names before the tunnel is up;           *)
(* VpnSupportReady then makes vpnProtectedDialer the core's dialer, for    *)
(* good: later sessions use it from their first moment, while their        *)
(* VpnSetup writes the maps the dialer reads.  Dial asks Android to        *)
(* protect each socket, so that it does not go into the tunnel itself.     *)
(*                                                                         *)
(* A session is abstracted to what matters here: the core runs, VpnSetup   *)
(* prepares if the configuration has a VPN part, the client answers; that  *)
(* is V2RayPoint's order for a client that waits for the callbacks.        *)
(* StopLoop before the answer is left out: in the first VPN session it     *)
(* ends the program (VpnShutdown dereferences v.Estr), and in a later one  *)
(* the dialer that the late answer installs is there already.              *)
(*                                                                         *)
(* External: the resolver, the kernel's sockets and the Go runtime.  A map *)
(* read during a write is a fatal error or yields the old or the new       *)
(* value.  net.FileConn duplicates the descriptor; a dropped os.File       *)
(* closes its own when it is collected.                                    *)
(***************************************************************************)
EXTENDS AppProcess, FiniteSets, Naturals

CONSTANTS
    Dials,        \* goroutines of the core that dial
    NetOf,        \* [Dials -> Nets]: the network each of them dials over
    Domains,      \* the addresses they dial, which configurations may list
    MaxSessions,  \* bound: sessions of a process
    Descriptors,  \* the descriptors the process may have for sockets
    NoDescriptor,
    NoWrite       \* no map is being written

ASSUME DescriptorsAssumption == NoDescriptor \notin Descriptors
ASSUME MaxSessionsAssumption == MaxSessions \in Nat \ {0}

Nets == {"tcp", "udp"}

ASSUME NetOfAssumption == NetOf \in [Dials -> Nets]

Entries == Nets \X Domains
\* at: the session whose VpnSetup resolved the name; 0: Dial itself did, or,
\* in a map, there is no such entry.  ok: FALSE for a nil address.
Addresses == [at : 0..MaxSessions, ok : BOOLEAN]
Unprepared == [at |-> 0, ok |-> TRUE]
Writes == [entry : Entries, addr : Addresses]

ASSUME NoWriteAssumption == NoWrite \notin Writes

VARIABLES
    session,    \* the session of the process that is, or was last, up
    sessionPc,  \* in SessionStates
    listed,     \* the entries VpnSetup has yet to resolve and store
    writing,    \* the assignment to a map going on, or NoWrite
    prepared,   \* [Entries -> Addresses]: the two maps of preparedDomain
    installed,  \* the core dials through vpnProtectedDialer
    failed,     \* history: VpnSetup could not resolve a name
    overtaken,  \* history: VpnSetup ran while the dialer was installed
    dialPc,     \* [Dials -> {"idle", "socket", "connect", "conn"}]
    addr,       \* [Dials -> Addresses]
    looked,     \* history, [Dials -> 0..MaxSessions]: the session whose
                \* VpnSetup had ended when Dial looked the name up, or 0
    fd,         \* [Dials -> Descriptors \cup {NoDescriptor}]
    open,       \* the descriptors the kernel has open for the process
    dropped,    \* those of dropped os.Files, not collected yet
    conns,      \* those of the connections the core has
    refused     \* history: those whose Connect failed

sessionVars == <<session, sessionPc, listed, writing, prepared, installed,
                 failed, overtaken>>
descriptorVars == <<fd, open, dropped, conns, refused>>
dialVars == <<sessionVars, dialPc, addr, looked, descriptorVars>>

\* "up": the core runs (interact.go:183); "prepare": dnsloopfix lines 19-33;
\* "ready": Prepare was called; "serving": VpnSupportReady has returned;
\* "plain": a session without VPN.
SessionStates == {"down", "up", "prepare", "ready", "serving", "plain"}

DialerTypeOK ==
    /\ session \in 0..MaxSessions
    /\ sessionPc \in SessionStates
    /\ listed \in SUBSET Entries
    /\ writing \in Writes \cup {NoWrite}
    /\ prepared \in [Entries -> Addresses]
    /\ installed \in BOOLEAN
    /\ failed \in BOOLEAN
    /\ overtaken \in BOOLEAN
    /\ dialPc \in [Dials -> {"idle", "socket", "connect", "conn"}]
    /\ addr \in [Dials -> Addresses]
    /\ looked \in [Dials -> 0..MaxSessions]
    /\ fd \in [Dials -> Descriptors \cup {NoDescriptor}]
    /\ open \in SUBSET Descriptors
    /\ dropped \in SUBSET Descriptors
    /\ conns \in SUBSET Descriptors
    /\ refused \in SUBSET Descriptors

NoneRunning == [d \in Dials |-> "idle"]
NothingPrepared == [e \in Entries |-> Unprepared]

DialerBegins ==
    /\ session = 0
    /\ sessionPc = "down"
    /\ listed = {}
    /\ writing = NoWrite
    /\ prepared = NothingPrepared
    /\ installed = FALSE
    /\ failed = FALSE
    /\ overtaken = FALSE
    /\ dialPc = NoneRunning
    /\ addr = [d \in Dials |-> Unprepared]
    /\ looked = [d \in Dials |-> 0]
    /\ fd = [d \in Dials |-> NoDescriptor]
    /\ open = {}
    /\ dropped = {}
    /\ conns = {}
    /\ refused = {}

DialerForgets ==
    /\ session' = 0
    /\ sessionPc' = "down"
    /\ listed' = {}
    /\ writing' = NoWrite
    /\ prepared' = NothingPrepared
    /\ installed' = FALSE
    /\ failed' = FALSE
    /\ overtaken' = FALSE
    /\ dialPc' = NoneRunning
    /\ addr' = [d \in Dials |-> Unprepared]
    /\ looked' = [d \in Dials |-> 0]
    /\ fd' = [d \in Dials |-> NoDescriptor]
    /\ open' = {}
    /\ dropped' = {}
    /\ conns' = {}
    /\ refused' = {}

-----------------------------------------------------------------------------
(* The session. *)

SessionMoves(from, to) ==
    /\ sessionPc = from
    /\ sessionPc' = to
    /\ UNCHANGED <<crashed, dialPc, addr, looked, descriptorVars>>

\* The core of the next session is started.
SessionBegin ==
    /\ session < MaxSessions
    /\ SessionMoves("down", "up")
    /\ session' = session + 1
    /\ UNCHANGED <<listed, writing, prepared, installed, failed, overtaken>>

\* A configuration without VPN part: VpnSetup does nothing.
SessionPlain ==
    /\ SessionMoves("up", "plain")
    /\ UNCHANGED <<session, listed, writing, prepared, installed, failed,
                   overtaken>>

\* Mutant: the maps of the last session are kept.
VpnSetup_KeepsMaps(domains) ==
    /\ SessionMoves("up", "prepare")
    /\ listed' = Nets \X domains
    /\ overtaken' = (overtaken \/ installed)
    /\ UNCHANGED <<session, writing, prepared, installed, failed>>

\* Mutant: the dialer is installed before the names are resolved.
VpnSetup_Installs(domains) ==
    /\ SessionMoves("up", "prepare")
    /\ prepared' = NothingPrepared
    /\ listed' = Nets \X domains
    /\ overtaken' = (overtaken \/ installed)
    /\ installed' = TRUE
    /\ UNCHANGED <<session, writing, failed>>

\* VpnSetup, with the DomainNameList: two fresh maps (dnsloopfix lines 19-20).
VpnSetup(domains) ==
    /\ SessionMoves("up", "prepare")
    /\ prepared' = NothingPrepared
    /\ listed' = Nets \X domains
    /\ overtaken' = (overtaken \/ installed)
    /\ UNCHANGED <<session, writing, installed, failed>>

\* Lines 21-28: a name is resolved, for one network and then for the other; the
\* result is stored also when it is nil.
PrepareResolve(e) ==
    /\ SessionMoves("prepare", "prepare")
    /\ writing = NoWrite
    /\ e \in listed
    /\ listed' = listed \ {e}
    /\ \E ok \in BOOLEAN :
         /\ writing' = [entry |-> e, addr |-> [at |-> session, ok |-> ok]]
         /\ failed' = (failed \/ ~ok)
    /\ UNCHANGED <<session, prepared, installed, overtaken>>

PrepareStore ==
    /\ SessionMoves("prepare", "prepare")
    /\ writing # NoWrite
    /\ prepared' = [prepared EXCEPT ![writing.entry] = writing.addr]
    /\ writing' = NoWrite
    /\ UNCHANGED <<session, listed, installed, failed, overtaken>>

\* askSupportSetInit.
PrepareEnd ==
    /\ listed = {} /\ writing = NoWrite
    /\ SessionMoves("prepare", "ready")
    /\ UNCHANGED <<session, listed, writing, prepared, installed, failed,
                   overtaken>>

\* The client's VpnSupportReady, which calls setV2RayDialer.
SetV2RayDialer ==
    /\ SessionMoves("ready", "serving")
    /\ installed' = TRUE
    /\ UNCHANGED <<session, listed, writing, prepared, failed, overtaken>>

\* The core is closed.  Nothing takes the dialer away.
SessionEnd ==
    /\ \/ SessionMoves("serving", "down")
       \/ SessionMoves("plain", "down")
    /\ UNCHANGED <<session, listed, writing, prepared, installed, failed,
                   overtaken>>

-----------------------------------------------------------------------------
(* vpnProtectedDialer.Dial. *)

\* What the lookup of line 24 or 70 may return.
Lookup(e) ==
    {prepared[e]}
        \cup IF writing # NoWrite /\ writing.entry = e THEN {writing.addr} ELSE {}

\* The map of a network is being written.
MapBusy(net) == writing # NoWrite /\ writing.entry[1] = net

\* Lines 24-34 and 70-80.
Dial(d, e) ==
    /\ sessionPc # "down"
    /\ installed
    /\ dialPc[d] = "idle"
    /\ e[1] = NetOf[d]
    /\ \/ /\ MapBusy(NetOf[d])
          /\ Panic("dial")
          /\ UNCHANGED <<dialPc, addr, looked>>
       \/ /\ \E a \in Lookup(e) : addr' = [addr EXCEPT ![d] = a]
          /\ dialPc' = [dialPc EXCEPT ![d] = "socket"]
          /\ looked' = [looked EXCEPT ![d] =
                IF sessionPc \in {"ready", "serving"} THEN session ELSE 0]
          /\ UNCHANGED crashed
    /\ UNCHANGED <<sessionVars, descriptorVars>>

DialMoves(d, from, to) ==
    /\ dialPc[d] = from
    /\ dialPc' = [dialPc EXCEPT ![d] = to]
    /\ UNCHANGED <<sessionVars, addr, looked>>

\* Dial returns, and its locals are gone.
DialReturns(d, from) ==
    /\ dialPc[d] = from
    /\ dialPc' = [dialPc EXCEPT ![d] = "idle"]
    /\ addr' = [addr EXCEPT ![d] = Unprepared]
    /\ looked' = [looked EXCEPT ![d] = 0]
    /\ UNCHANGED sessionVars

\* The name does not resolve, or there is no descriptor: Dial returns an error.
DialFail(d) ==
    /\ addr[d] = Unprepared \/ open = Descriptors
    /\ DialReturns(d, "socket")
    /\ UNCHANGED <<crashed, descriptorVars>>

\* Mutant: the error of Socket is not looked at.
DialSocket_Ignores(d) ==
    /\ DialMoves(d, "socket", "connect")
    /\ \/ \E f \in Descriptors \ open :
            fd' = [fd EXCEPT ![d] = f] /\ open' = open \cup {f}
       \/ open = Descriptors /\ UNCHANGED <<fd, open>>
    /\ UNCHANGED <<crashed, dropped, conns, refused>>

\* Socket, and Protect, whose answer is dropped.
DialSocket(d) ==
    /\ DialMoves(d, "socket", "connect")
    /\ \E f \in Descriptors \ open :
         /\ fd' = [fd EXCEPT ![d] = f]
         /\ open' = open \cup {f}
    /\ UNCHANGED <<crashed, dropped, conns, refused>>

\* Lines 44-54 and 90-99.  Line 45 logs the whole TCP map, which may be
\* written meanwhile; a nil address is dereferenced; a descriptor that does
\* not connect is not closed.
DialConnect(d) ==
    /\ \/ /\ ~addr[d].ok \/ (NetOf[d] = "tcp" /\ MapBusy("tcp"))
          /\ Panic("dial")
          /\ dialPc[d] = "connect"
          /\ UNCHANGED <<sessionVars, dialPc, addr, looked, fd, refused>>
       \/ /\ addr[d].ok
          /\ DialMoves(d, "connect", "conn")
          /\ UNCHANGED <<crashed, fd, refused>>
       \/ /\ addr[d].ok
          /\ DialReturns(d, "connect")
          /\ refused' = refused \cup {fd[d]}
          /\ fd' = [fd EXCEPT ![d] = NoDescriptor]
          /\ UNCHANGED crashed
    /\ UNCHANGED <<open, dropped, conns>>

\* Mutant: the descriptor is closed at once when FileConn fails.
DialConn_Closes(d) ==
    /\ DialReturns(d, "conn")
    /\ fd' = [fd EXCEPT ![d] = NoDescriptor]
    /\ dropped' = dropped \cup {fd[d]}
    /\ \/ \E f \in Descriptors \ open :
            open' = open \cup {f} /\ conns' = conns \cup {f}
       \/ open' = open \ {fd[d]} /\ UNCHANGED conns
    /\ UNCHANGED <<crashed, refused>>

\* Lines 56-62 and 101-107: FileConn duplicates the descriptor, or fails.  The
\* os.File that holds the old one is dropped either way.
DialConn(d) ==
    /\ DialReturns(d, "conn")
    /\ fd' = [fd EXCEPT ![d] = NoDescriptor]
    /\ dropped' = dropped \cup {fd[d]}
    /\ \/ \E f \in Descriptors \ open :
            open' = open \cup {f} /\ conns' = conns \cup {f}
       \/ UNCHANGED <<open, conns>>
    /\ UNCHANGED <<crashed, refused>>

DialStep(d) == DialFail(d) \/ DialSocket(d) \/ DialConnect(d) \/ DialConn(d)

\* The garbage collector finalizes a dropped os.File, or the core closes a
\* connection.
CloseDescriptor ==
    /\ \E f \in dropped \cup conns :
         /\ open' = open \ {f}
         /\ dropped' = dropped \ {f}
         /\ conns' = conns \ {f}
    /\ UNCHANGED <<crashed, sessionVars, dialPc, addr, looked, fd, refused>>

SessionStep ==
    \/ \E e \in Entries : PrepareResolve(e)
    \/ PrepareStore \/ PrepareEnd

-----------------------------------------------------------------------------
\* Descriptors some Dial holds.
Held == {fd[d] : d \in Dials} \ {NoDescriptor}

\* Dial loses a descriptor when Connect fails (support.go:51-54), and only
\* then: every other one that is open belongs to one Dial, one dropped os.File
\* or one connection, so nothing closes the descriptor of another.
LosesOnlyRefused ==
    /\ open = Held \cup dropped \cup conns \cup refused
    /\ \A d1, d2 \in Dials : fd[d1] = fd[d2] /\ fd[d1] # NoDescriptor => d1 = d2
    /\ Held \cap (dropped \cup conns \cup refused) = {}
    /\ dropped \cap (conns \cup refused) = {}
    /\ conns \cap refused = {}

\* VpnSetup makes fresh maps (dnsloopfix.go:19-20): a Dial that looks its
\* address up after VpnSetup of a VPN session has ended gets the one resolved in
\* that session, or resolves it, whatever earlier sessions prepared.
DialsCurrentAddress ==
    \A d \in Dials :
        dialPc[d] # "idle" /\ looked[d] # 0 => addr[d].at \in {0, looked[d]}

\* Dial ends the program when a name could not be prepared (the nil of
\* dnsloopfix.go:24 at support.go:46) or when it reads a map VpnSetup writes.
\* The first VPN session of a process is safe from the second: the dialer is
\* installed only when the names are prepared (vpnservice_interact.go:31, 52).
FirstVpnSessionDialsSafely ==
    crashed = "dial" => failed \/ overtaken
=============================================================================
