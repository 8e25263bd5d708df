------------------------------ MODULE DialerProofs ------------------------------
(* Descriptors, addresses and panics of Dial, for any sessions, domains,     *)
(* descriptors and dials.                                                    *)
EXTENDS AppProofs

-----------------------------------------------------------------------------
(* Descriptors. *)

\* A Dial that is not past Socket has no descriptor.
EmptyHanded ==
    \A d \in Dials : dialPc[d] \in {"idle", "socket"} => fd[d] = NoDescriptor

DescriptorInv == LosesOnlyRefused /\ EmptyHanded

LEMMA DescriptorInvInit == Init => DescriptorInv
  BY DEF Init, DialerBegins, NoneRunning, DescriptorInv, LosesOnlyRefused, Held,
      EmptyHanded

LEMMA DescriptorInvStep ==
  ASSUME TypeInv, DescriptorInv, [Next]_vars
  PROVE  DescriptorInv'
<1>a. DialerTypeOK /\ Holding
  BY DEF TypeInv, TypeOK
<1> USE <1>a, DescriptorsAssumption
    DEF DialerTypeOK, DescriptorInv, LosesOnlyRefused, EmptyHanded, Held
<1>1. CASE UNCHANGED <<dialPc, descriptorVars>>
  BY <1>1 DEF descriptorVars
<1>2. CASE \/ SessionBegin \/ SessionPlain \/ SetV2RayDialer \/ SessionEnd
           \/ SessionStep
           \/ \E domains \in SUBSET Domains : VpnSetup(domains)
  BY <1>1, <1>2 DEF SessionBegin, SessionPlain, SetV2RayDialer, SessionEnd,
      SessionStep, PrepareResolve, PrepareStore, PrepareEnd, VpnSetup, SessionMoves
<1>3. ASSUME NEW d \in Dials, NEW e \in Entries, Dial(d, e)
      PROVE  DescriptorInv'
  BY <1>3 DEF Dial, descriptorVars
<1>4. ASSUME NEW d \in Dials, DialStep(d)
      PROVE  DescriptorInv'
  <2> USE DEF DialMoves, DialReturns
  <2>1. CASE DialFail(d)
    BY <2>1 DEF DialFail, descriptorVars
  <2>2. CASE DialSocket(d)
    BY <2>2 DEF DialSocket
  <2>3. CASE DialConnect(d)
    BY <2>3 DEF DialConnect, Holding
  <2>4. CASE DialConn(d)
    BY <2>4 DEF DialConn, Holding
  <2> QED
    BY <1>4, <2>1, <2>2, <2>3, <2>4 DEF DialStep
<1>5. CASE CloseDescriptor
  BY <1>5 DEF CloseDescriptor
<1>6. CASE DialerForgets
  BY <1>6 DEF DialerForgets, NoneRunning
<1> QED
  BY <1>1, <1>2, <1>3, <1>4, <1>5, <1>6, DialerSteps DEF dialVars

\* Dial loses a descriptor when Connect fails (support.go:51-54), and only then.
THEOREM OnlyRefusedLost == Spec => []LosesOnlyRefused
<1>1. DescriptorInv => LosesOnlyRefused
  BY DEF DescriptorInv
<1> QED
  BY <1>1, TypeInit, TypeStep, DescriptorInvInit, DescriptorInvStep, PTL DEF Spec

-----------------------------------------------------------------------------
(* Addresses. *)

\* The maps are written while VpnSetup prepares, and hold what this session
\* resolved; and the dialer was installed then only by an earlier session.
MapInv ==
    /\ writing # NoWrite => sessionPc = "prepare" /\ writing.addr.at = session
    /\ sessionPc \in {"prepare", "ready", "serving"} =>
         \A e \in Entries : prepared[e].at \in {0, session}
    /\ sessionPc = "prepare" /\ installed => overtaken
    /\ \A d \in Dials : dialPc[d] # "idle" => installed

\* A nil address comes from a name that could not be prepared.
NilInv ==
    ~failed =>
        /\ writing # NoWrite => writing.addr.ok
        /\ \A e \in Entries : prepared[e].ok
        /\ \A d \in Dials : addr[d].ok

AddressInv == DialsCurrentAddress /\ MapInv /\ NilInv

LEMMA AddressInvInit == Init => AddressInv
  BY DEF Init, DialerBegins, NoneRunning, NothingPrepared, Unprepared,
      AddressInv, DialsCurrentAddress, MapInv, NilInv

LEMMA AddressInvStep ==
  ASSUME TypeInv, AddressInv, [Next]_vars
  PROVE  AddressInv'
<1>a. DialerTypeOK
  BY DEF TypeInv, TypeOK
<1>b. writing # NoWrite => writing.entry \in Entries /\ writing.addr \in Addresses
  BY <1>a DEF DialerTypeOK, Writes
<1> USE <1>a DEF DialerTypeOK, AddressInv, DialsCurrentAddress, MapInv, NilInv
<1>1. CASE UNCHANGED dialVars
  BY <1>1 DEF dialVars, sessionVars
<1>2. CASE SessionBegin \/ SessionPlain \/ SetV2RayDialer \/ SessionEnd \/ PrepareEnd
  BY <1>2 DEF SessionBegin, SessionPlain, SetV2RayDialer, SessionEnd, PrepareEnd,
      SessionMoves
<1>3. ASSUME NEW domains \in SUBSET Domains, VpnSetup(domains)
      PROVE  AddressInv'
  <2>1. \A e \in Entries : prepared'[e] = Unprepared
    BY <1>3 DEF VpnSetup, NothingPrepared
  <2>2. /\ sessionPc = "up"
        /\ UNCHANGED <<writing, failed, installed, addr, looked, dialPc>>
    BY <1>3 DEF VpnSetup, SessionMoves
  <2>3. writing = NoWrite /\ Unprepared.at = 0 /\ Unprepared.ok
    BY <2>2 DEF Unprepared
  <2>4. installed' => overtaken'
    BY <1>3 DEF VpnSetup
  <2>5. DialsCurrentAddress' /\ NilInv'
    BY <2>1, <2>2, <2>3
  <2>6. MapInv'
    BY <2>1, <2>2, <2>3, <2>4
  <2> QED
    BY <2>5, <2>6
<1>4. ASSUME NEW e \in Entries, PrepareResolve(e)
      PROVE  AddressInv'
  <2>1. PICK ok \in BOOLEAN :
          /\ writing' = [entry |-> e, addr |-> [at |-> session, ok |-> ok]]
          /\ failed' = (failed \/ ~ok)
    BY <1>4 DEF PrepareResolve
  <2>2. /\ sessionPc = "prepare" /\ sessionPc' = "prepare"
        /\ UNCHANGED <<session, prepared, installed, overtaken, addr, looked, dialPc>>
    BY <1>4 DEF PrepareResolve, SessionMoves
  <2>3. ~failed' => ~failed /\ writing'.addr.ok
    BY <2>1
  <2>4. writing'.addr.at = session
    BY <2>1
  <2> QED
    BY <2>2, <2>3, <2>4
<1>5. CASE PrepareStore
  BY <1>5, <1>b DEF PrepareStore, SessionMoves
<1>6. ASSUME NEW d \in Dials, NEW e \in Entries, Dial(d, e)
      PROVE  AddressInv'
  <2>1. \A a \in Lookup(e) :
          /\ failed \/ a.ok
          /\ sessionPc \in {"ready", "serving"} => a.at \in {0, session}
    BY DEF Lookup
  <2> QED
    BY <1>6, <2>1 DEF Dial, sessionVars
<1>7. ASSUME NEW d \in Dials, DialStep(d)
      PROVE  AddressInv'
  <2>1. UNCHANGED sessionVars
    BY <1>7 DEF DialStep, DialFail, DialSocket, DialConnect, DialConn, DialMoves,
        DialReturns
  <2>2. \A k \in Dials : k # d => /\ dialPc'[k] = dialPc[k]
                                  /\ addr'[k] = addr[k]
                                  /\ looked'[k] = looked[k]
    BY <1>7 DEF DialStep, DialFail, DialSocket, DialConnect, DialConn, DialMoves,
        DialReturns
  <2>3. \/ addr'[d] = addr[d] /\ looked'[d] = looked[d] /\ dialPc[d] # "idle"
        \/ addr'[d] = Unprepared /\ dialPc'[d] = "idle"
    BY <1>7 DEF DialStep, DialFail, DialSocket, DialConnect, DialConn, DialMoves,
        DialReturns
  <2> QED
    BY <2>1, <2>2, <2>3 DEF sessionVars, Unprepared
<1>8. CASE CloseDescriptor
  BY <1>8 DEF CloseDescriptor, sessionVars
<1>9. CASE DialerForgets
  BY <1>9 DEF DialerForgets, NoneRunning, NothingPrepared, Unprepared
<1> QED
  BY <1>1, <1>2, <1>3, <1>4, <1>5, <1>6, <1>7, <1>8, <1>9, DialerSteps
  DEF SessionStep

\* VpnSetup makes fresh maps (dnsloopfix.go:19-20): no Dial after it uses what
\* an earlier session prepared.
THEOREM CurrentAddress == Spec => []DialsCurrentAddress
<1>1. AddressInv => DialsCurrentAddress
  BY DEF AddressInv
<1> QED
  BY <1>1, TypeInit, TypeStep, AddressInvInit, AddressInvStep, PTL DEF Spec

\* A panic in Dial comes from one of its two bad reads.
LEMMA DialPanics ==
  ASSUME TypeInv, AddressInv, [Next]_vars, crashed' = "dial"
  PROVE  \/ crashed = "dial" /\ UNCHANGED dialVars
         \/ failed' \/ overtaken'
<1>1. CASE ~Alive
  <2>1. CASE Kill
    BY <2>1 DEF Kill
  <2>2. CASE UNCHANGED vars
    BY <2>2 DEF vars
  <2>3. CASE Next /\ ~Kill
    BY <1>1, <2>3 DEF Next, Pick, SaveProp, Scan, RunLoop, Load, Loaded, Session,
        Connect, Close
  <2> QED
    BY <2>1, <2>2, <2>3
<1>2. CASE Alive
  <2>1. PICK d \in Dials : Connect(d)
    <3>1. ASSUME NEW l \in Loaders, RunLoop(l) \/ Load(l) \/ Loaded(l)
          PROVE  FALSE
      BY <1>2, <3>1 DEF Alive, RunLoop, Load, Loaded, LoadBegin, LoadStep,
          LoadLook, LoadGuess, LoadRead, LoadParse, LoadConvert, LoadDecode,
          LoadExport, SessionBegin, SessionMoves, Panic
    <3>2. ~Scan
      BY <1>2 DEF Alive, Scan, ScanStep, ScanCall, ScanQR, ScanLegacy,
          ScanForeign, ScanMalformed, ScanPiece, Discard, FinishLooks,
          FinishLegacy, FinishPanics, FinishFails, FinishGroup, Panic
    <3>3. ~Session
      BY <1>2 DEF Alive, Session, SetupVpn, SessionStep, SessionPlain, VpnSetup,
          PrepareResolve, PrepareStore, PrepareEnd, SetV2RayDialer, SessionEnd,
          SessionMoves
    <3>4. ~(Pick \/ SaveProp \/ Close \/ Kill \/ UNCHANGED vars)
      BY <1>2 DEF Alive, Pick, SaveProp, Close, CloseDescriptor, Kill, vars
    <3> QED
      BY <3>1, <3>2, <3>3, <3>4 DEF Next
  <2>2. CASE \E e \in Entries : Dial(d, e)
    BY <1>2, <2>2 DEF Dial, MapBusy, Alive, AddressInv, MapInv, sessionVars
  <2>3. CASE DialStep(d)
    <3>1. DialConnect(d) /\ UNCHANGED sessionVars
      BY <1>2, <2>3 DEF DialStep, DialFail, DialSocket, DialConnect, DialConn,
          Alive, DialMoves, DialReturns
    <3>2. ~addr[d].ok \/ (dialPc[d] = "connect" /\ writing # NoWrite)
      BY <1>2, <3>1 DEF DialConnect, MapBusy, Alive
    <3> QED
      BY <3>1, <3>2 DEF AddressInv, NilInv, MapInv, sessionVars
  <2> QED
    BY <2>1, <2>2, <2>3 DEF Connect
<1> QED
  BY <1>1, <1>2

\* The first VPN session of a process does not end it in Dial, if all names
\* were prepared (vpnservice_interact.go:31 and 52, dnsloopfix.go:24).
THEOREM FirstSessionSafe == Spec => []FirstVpnSessionDialsSafely
<1>1. Init => FirstVpnSessionDialsSafely
  BY DEF Init, FirstVpnSessionDialsSafely
<1>2. TypeInv /\ AddressInv /\ FirstVpnSessionDialsSafely /\ [Next]_vars
        => FirstVpnSessionDialsSafely'
  BY DialPanics DEF FirstVpnSessionDialsSafely, dialVars, sessionVars
<1> QED
  BY <1>1, <1>2, TypeInit, TypeStep, AddressInvInit, AddressInvStep, PTL DEF Spec
=============================================================================
