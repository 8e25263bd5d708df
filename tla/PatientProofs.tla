--------------------------- MODULE PatientProofs ---------------------------
(* The types of the whole service; and a client that waits for every         *)
(* callback and leaves the supervisor its time never sees it panic.          *)
EXTENDS V2RayPointProofs

-----------------------------------------------------------------------------
(* Types of the supervisor's variables, operation by operation.              *)

SupTypeOK ==
    /\ status \in [Escorts -> BOOLEAN]
    /\ up \in [Escorts -> BOOLEAN]
    /\ escortProcess \in [Escorts -> SUBSET Handles]
    /\ recv \in [Escorts -> Nat]
    /\ drain \in [Escorts -> Nat]
    /\ runPc \in [Escorts -> RunStates]
    /\ count \in [Escorts -> 0..RestartLimit]
    /\ cmd \in [Escorts -> Handles]
    /\ alive \in [Escorts -> SUBSET Children]
    /\ downPc \in [DownCallers -> DownStates]
    /\ downOf \in [DownCallers -> Escorts]

\* EscortRun's counter is not zero inside its loop.
CountInv ==
    \A e \in Escorts :
        runPc[e] \in {"start", "append", "wait", "check"} => count[e] > 0

LEMMA HandleFacts ==
  /\ RestartLimit \in 0..RestartLimit /\ RestartLimit > 0
  /\ NoProcess \in Handles
  /\ Children \subseteq Handles
  /\ \A n \in 0..RestartLimit :
         /\ n > 0 => n \in Children
         /\ n > 0 => n - 1 \in 0..RestartLimit
         /\ n > 1 => n - 1 > 0
  BY RestartLimitAssumption DEF NoProcess, Handles, Children

\* What the owner calls.
LEMMA OwnerTypes ==
  ASSUME SupTypeOK, CountInv, NEW e,
         \/ e \in Escorts /\ NewEscort(e)
         \/ EscortingUPV(e)
         \/ SpawnEscortRun(e)
         \/ e \in Escorts /\ EscortingUP(e, FALSE)
         \/ e \in Escorts /\ EscortingUP(e, TRUE)
  PROVE  SupTypeOK' /\ CountInv'
<1> USE DEF SupTypeOK, CountInv, RunStates, closerVars, downVars, runVars
<1>1. CASE e \in Escorts /\ NewEscort(e)
  BY <1>1 DEF NewEscort
<1>2. CASE EscortingUPV(e)
  <2>1. up' \in [Escorts -> BOOLEAN]
    BY <1>2 DEF EscortingUPV, RaiseList
  <2>2. escortProcess' \in [Escorts -> SUBSET Handles]
    BY <1>2 DEF EscortingUPV, RaiseList
  <2>3. recv' \in [Escorts -> Nat]
    BY <1>2 DEF EscortingUPV, RaiseList
  <2> QED
    BY <1>2, <2>1, <2>2, <2>3 DEF EscortingUPV
<1>3. CASE SpawnEscortRun(e)
  BY <1>3, HandleFacts DEF SpawnEscortRun, GoEscortRun
<1>4. ASSUME e \in Escorts, NEW b \in BOOLEAN, EscortingUP(e, b)
      PROVE  SupTypeOK' /\ CountInv'
  <2>1. /\ up' \in [Escorts -> BOOLEAN]
        /\ escortProcess' \in [Escorts -> SUBSET Handles]
        /\ recv' \in [Escorts -> Nat]
    BY <1>4 DEF EscortingUP, RaiseList
  <2>2. /\ runPc' \in [Escorts -> RunStates]
        /\ count' \in [Escorts -> 0..RestartLimit]
        /\ cmd' \in [Escorts -> Handles]
        /\ CountInv'
    BY <1>4, HandleFacts DEF EscortingUP, GoEscortRun
  <2> QED
    BY <1>4, <2>1, <2>2 DEF EscortingUP
<1> QED
  BY <1>1, <1>2, <1>3, <1>4

\* EscortRun, the closers and the children.
LEMMA RunTypes ==
  ASSUME SupTypeOK, CountInv, NEW e \in Escorts,
         RunStep(e, StartFails(e)) \/ CloserQuits(e) \/ ChildExit(e)
  PROVE  SupTypeOK' /\ CountInv'
<1> USE DEF SupTypeOK, CountInv, RunStates, closerVars, downVars, runVars
<1>1. CASE RunStart(e, StartFails(e))
  <2>1. count[e] \in Children
    BY <1>1, HandleFacts DEF RunStart
  <2>2. cmd' \in [Escorts -> Handles]
    BY <1>1, <2>1, HandleFacts DEF RunStart
  <2>3. alive' \in [Escorts -> SUBSET Children]
    BY <1>1, <2>1 DEF RunStart
  <2>4. runPc' \in [Escorts -> RunStates] /\ CountInv' /\ UNCHANGED count
    BY <1>1 DEF RunStart
  <2> QED
    BY <1>1, <2>2, <2>3, <2>4 DEF RunStart
<1>2. CASE RunAppend(e)
  <2>1. escortProcess' \in [Escorts -> SUBSET Handles]
    BY <1>2 DEF RunAppend
  <2>2. runPc' \in [Escorts -> RunStates] /\ CountInv'
    BY <1>2 DEF RunAppend
  <2> QED
    BY <1>2, <2>1, <2>2 DEF RunAppend
<1>3. CASE RunWaited(e)
  BY <1>3 DEF RunWaited
<1>4. CASE RunCheck(e)
  <2>1. count[e] \in 0..RestartLimit /\ count[e] > 0
    BY <1>4 DEF RunCheck
  <2>2. /\ count' \in [Escorts -> 0..RestartLimit]
        /\ runPc' \in [Escorts -> RunStates]
    BY <1>4, <2>1, HandleFacts DEF RunCheck
  <2>3. CountInv'
    BY <1>4, <2>1, HandleFacts DEF RunCheck
  <2> QED
    BY <1>4, <2>2, <2>3 DEF RunCheck
<1>5. CASE RunExhausted(e)
  BY <1>5 DEF RunExhausted
<1>6. CASE RunSend(e)
  <2>1. recv' \in [Escorts -> Nat] /\ drain' \in [Escorts -> Nat]
    BY <1>6 DEF RunSend, CloserReceives
  <2> QED
    BY <1>6, <2>1 DEF RunSend
<1>7. CASE CloserQuits(e)
  BY <1>7 DEF CloserQuits
<1>8. CASE ChildExit(e)
  BY <1>8 DEF ChildExit
<1> QED
  BY <1>1, <1>2, <1>3, <1>4, <1>5, <1>6, <1>7, <1>8 DEF RunStep

\* EscortingDown.
LEMMA DownTypes ==
  ASSUME SupTypeOK, CountInv, NEW d \in DownCallers,
         \/ DownStep(d)
         \/ EscortingDownReturns(d)
         \/ \E e \in Escorts : CallEscortingDown(d, e)
  PROVE  SupTypeOK' /\ CountInv'
<1> USE DEF SupTypeOK, CountInv, DownStates, closerVars, downVars, runVars
<1>1. CASE DownCheck(d)
  BY <1>1 DEF DownCheck
<1>2. CASE DownKill(d)
  <2>1. alive' \in [Escorts -> SUBSET Children]
    BY <1>2 DEF DownKill
  <2>2. downPc' \in [DownCallers -> DownStates]
    BY <1>2 DEF DownKill
  <2> QED
    BY <1>2, <2>1, <2>2 DEF DownKill
<1>3. CASE DownSend(d)
  <2>1. recv' \in [Escorts -> Nat] /\ drain' \in [Escorts -> Nat]
    BY <1>3 DEF DownSend, CloserReceives
  <2> QED
    BY <1>3, <2>1 DEF DownSend
<1>4. CASE DownClear(d)
  BY <1>4 DEF DownClear
<1>5. CASE EscortingDownReturns(d)
  BY <1>5 DEF EscortingDownReturns
<1>6. ASSUME NEW e \in Escorts, CallEscortingDown(d, e)
      PROVE  SupTypeOK' /\ CountInv'
  BY <1>6 DEF CallEscortingDown
<1> QED
  BY <1>1, <1>2, <1>3, <1>4, <1>5, <1>6 DEF DownStep

-----------------------------------------------------------------------------
(* The types of the whole program.                                           *)

VpnFieldsOK ==
    /\ supportSet \in BOOLEAN
    /\ vpnConf \in VpnConfs
    /\ estr \in VpnObjects \cup {NoEscort}
    /\ nextGen \in BOOLEAN
    /\ lowerup \in {"nil", "up", "down"}
    /\ fd \in {"none", "open", "closed"}
    /\ staleClose \in BOOLEAN
    /\ prepared \in BOOLEAN
    /\ readyPc \in [ReadyCallers -> ReadyStates]

WorkersOK ==
    /\ startPc \in [Starts -> StartStates]
    /\ stopPc \in [Stops -> StopStates]
    /\ intPc \in [Interrupts -> IntStates]
    /\ timers \in Nat
    /\ gate \in {0, 1}
    /\ reopened \in BOOLEAN

FieldsOK ==
    /\ isRunning \in BOOLEAN
    /\ crashed \in BOOLEAN
    /\ vpoint \in CoreStates
    /\ leaked \in BOOLEAN
    /\ config \in Configs
    /\ confng \in Confs \cup {NoConf}
    /\ rootList \in BOOLEAN
    /\ scripts \in BOOLEAN
    /\ context \in {"nil", "legacy", "upgraded"}
    /\ client \in ClientStates

Types == SupTypeOK /\ CountInv /\ VpnFieldsOK /\ WorkersOK /\ FieldsOK

LEMMA SupStep == Types /\ [Moves]_moveVars => SupTypeOK' /\ CountInv'
<1> SUFFICES ASSUME Types, [Moves]_moveVars PROVE SupTypeOK' /\ CountInv'
  OBVIOUS
<1>a. /\ SupTypeOK /\ CountInv
      /\ rootList \in BOOLEAN
      /\ estr \in VpnObjects \cup {NoEscort}
      /\ VpnObjects \subseteq Escorts
      /\ Root \in Escorts
      /\ Stops = DownCallers
  BY RootAssumption, StopsAreCallers
  DEF Types, VpnFieldsOK, FieldsOK, VpnObjects
<1>0. ASSUME UNCHANGED escortVars PROVE SupTypeOK' /\ CountInv'
  BY <1>a, <1>0 DEF SupTypeOK, CountInv, escortVars
<1>1. ASSUME NEW p \in Starts, PointLoop(p) PROVE SupTypeOK' /\ CountInv'
  <2>1. CASE StartRaise(p)
    <3>1. EscortingUP(Root, FALSE) \/ EscortingUP(Root, TRUE)
      BY <1>a, <2>1 DEF StartRaise
    <3> QED
      BY <1>a, <3>1, OwnerTypes
  <2>2. CASE ~StartRaise(p)
    BY <1>0, <1>1, <2>2 DEF PointLoop, StartLoad, StartNew, StartMark,
       StartCore, StartBranch, StartEscort, StartGate, StartConf, StartVpn,
       StartScripts, StartTell, AssignConf, VpnSetup, lowerVars
  <2> QED
    BY <2>1, <2>2
<1>2. ASSUME NEW s \in Stops, StopLoopW(s) PROVE SupTypeOK' /\ CountInv'
  <2>1. CASE StopVpn(s)
    <3>1. \/ EscortingDownReturns(s)
          \/ \E e \in Escorts : CallEscortingDown(s, e)
          \/ UNCHANGED escortVars
      BY <1>a, <2>1 DEF StopVpn, ShutdownEscort, ShutdownNextGen
    <3> QED
      BY <1>0, <1>a, <3>1, DownTypes
  <2>2. CASE StopRoot(s)
    <3>1. EscortingDownReturns(s) \/ CallEscortingDown(s, Root)
      BY <2>2 DEF StopRoot
    <3> QED
      BY <1>a, <3>1, DownTypes
  <2>3. CASE ~StopVpn(s) /\ ~StopRoot(s)
    BY <1>0, <1>2, <2>3 DEF StopLoopW, StopMark, StopClose, StopBranch,
       StopFd, ShutdownFd, StopTell, lowerVars
  <2> QED
    BY <2>1, <2>2, <2>3
<1>3. ASSUME NEW r \in ReadyCallers, ClientReady(r) \/ ReadyStep(r)
      PROVE  SupTypeOK' /\ CountInv'
  <2>1. \/ UNCHANGED escortVars
        \/ \E e \in Escorts : NewEscort(e)
        \/ EscortingUPV(estr)
        \/ SpawnEscortRun(estr)
    BY <1>a, <1>3 DEF ClientReady, VpnSupportReady, ReadyStep, ReadySetup,
       ReadyNewEscort, ReadyRaise, ReadySpawn, ReadyNextGen
  <2> QED
    BY <1>0, <1>a, <2>1, OwnerTypes
<1>4. ASSUME NEW d \in DownCallers, DownStep(d) PROVE SupTypeOK' /\ CountInv'
  BY <1>a, <1>4, DownTypes
<1>5. ASSUME NEW e \in Escorts,
             RunStep(e, StartFails(e)) \/ CloserQuits(e) \/ ChildExit(e)
      PROVE  SupTypeOK' /\ CountInv'
  BY <1>a, <1>5, RunTypes
<1>6. ASSUME \/ Client
             \/ \E i \in Interrupts : Restart(i)
             \/ TimerFires
             \/ UNCHANGED moveVars
      PROVE  UNCHANGED escortVars
  BY <1>6 DEF Client, ClientSets, UpgradeToContext, ClientSetsVpn,
     SetVpnSupportSet, OptinNextGenerationTunInterface, RunLoop, StopLoop,
     NetworkInterrupted, IntMoves, Restart, IntRead, IntCas, IntClose,
     IntStart, IntStore, TimerFires, lowerVars, moveVars
<1> QED
  BY <1>a, <1>0, <1>1, <1>2, <1>3, <1>4, <1>5, <1>6
  DEF Moves, Calls, ClientAnswers, Loop, Stopping, Interrupting, Timer, Ready, Down,
      Supervisor, Closer, Child

LEMMA VpnFieldsStep == Types /\ [Moves]_moveVars => VpnFieldsOK'
<1> SUFFICES ASSUME Types, [Moves]_moveVars PROVE VpnFieldsOK'
  OBVIOUS
<1>a. VpnFieldsOK /\ confng \in Confs \cup {NoConf}
  BY DEF Types, FieldsOK
<1>0. ASSUME UNCHANGED vpnVars PROVE VpnFieldsOK'
  BY <1>a, <1>0 DEF VpnFieldsOK, vpnVars
<1>1. ASSUME NEW p \in Starts, PointLoop(p) PROVE VpnFieldsOK'
  <2>1. CASE StartConf(p)
    <3>1. UNCHANGED vpnVars \/ (confng \in Confs /\ confng.vpn # "nil")
      BY <1>a, <2>1 DEF StartConf
    <3>2. confng \in Confs => confng.vpn \in VpnConfs \cup {"nil"}
      BY DEF Confs
    <3> QED
      BY <1>0, <1>a, <2>1, <3>1, <3>2 DEF StartConf, AssignConf, VpnFieldsOK
  <2>2. CASE StartVpn(p)
    BY <1>a, <2>2 DEF StartVpn, VpnSetup, VpnFieldsOK
  <2>3. CASE ~StartConf(p) /\ ~StartVpn(p)
    BY <1>0, <1>1, <2>3 DEF PointLoop, StartLoad, StartNew, StartMark,
       StartCore, StartBranch, StartEscort, StartRaise, StartGate,
       StartScripts, StartTell, lowerVars
  <2> QED
    BY <2>1, <2>2, <2>3
<1>2. ASSUME NEW s \in Stops, StopLoopW(s) PROVE VpnFieldsOK'
  <2>1. CASE StopFd(s)
    BY <1>a, <2>1 DEF StopFd, ShutdownFd, VpnFieldsOK
  <2>2. CASE StopVpn(s)
    BY <1>0, <1>a, <2>2 DEF StopVpn, ShutdownEscort, ShutdownNextGen,
       VpnFieldsOK
  <2>3. CASE ~StopFd(s) /\ ~StopVpn(s)
    BY <1>0, <1>2, <2>3 DEF StopLoopW, StopMark, StopClose, StopBranch,
       StopRoot, StopTell, lowerVars
  <2> QED
    BY <2>1, <2>2, <2>3
<1>3. ASSUME NEW r \in ReadyCallers, ClientReady(r) PROVE VpnFieldsOK'
  BY <1>a, <1>3 DEF ClientReady, VpnSupportReady, VpnFieldsOK, ReadyStates
<1>4. ASSUME NEW r \in ReadyCallers, ReadyStep(r) PROVE VpnFieldsOK'
  <2>1. CASE ReadyNewEscort(r)
    BY <1>a, <2>1 DEF ReadyNewEscort, ReadyMoves, VpnFieldsOK, ReadyStates
  <2>2. CASE ReadySetup(r) \/ ReadyRaise(r) \/ ReadySpawn(r) \/ ReadyNextGen(r)
    BY <1>a, <2>2 DEF ReadySetup, ReadyRaise, ReadySpawn, ReadyNextGen,
       ReadyMoves, VpnFieldsOK, ReadyStates
  <2> QED
    BY <1>4, <2>1, <2>2 DEF ReadyStep
<1>5. ASSUME ClientSetsVpn PROVE VpnFieldsOK'
  BY <1>a, <1>5 DEF ClientSetsVpn, SetVpnSupportSet,
     OptinNextGenerationTunInterface, VpnFieldsOK
<1>6. ASSUME \/ Client /\ ~ClientSetsVpn
             \/ \E i \in Interrupts : Restart(i)
             \/ TimerFires
             \/ UNCHANGED moveVars
      PROVE  UNCHANGED vpnVars
  BY <1>6 DEF Client, ClientSets, UpgradeToContext, RunLoop, StopLoop,
     NetworkInterrupted, IntMoves, Restart, IntRead, IntCas, IntClose,
     IntStart, IntStore, TimerFires, lowerVars, moveVars
<1> QED
  BY <1>0, <1>1, <1>2, <1>3, <1>4, <1>5, <1>6
  DEF Moves, Calls, ClientAnswers, Loop, Stopping, Interrupting, Timer, Ready, Down,
      Supervisor, Closer, Child

LEMMA WorkersStep == Types /\ [Moves]_moveVars => WorkersOK'
<1> SUFFICES ASSUME Types, [Moves]_moveVars PROVE WorkersOK'
  OBVIOUS
<1>a. WorkersOK /\ config \in Configs
  BY DEF Types, FieldsOK
<1>0. ASSUME UNCHANGED <<startPc, stopPc, intPc, gateVars>> PROVE WorkersOK'
  BY <1>a, <1>0 DEF WorkersOK, gateVars
<1>1. ASSUME NEW p \in Starts, PointLoop(p) PROVE WorkersOK'
  <2> USE DEF StartMoves, StartStates, WorkersOK, gateVars
  <2>1. CASE StartLoad(p)
    BY <1>a, <2>1 DEF StartLoad
  <2>2. CASE StartGate(p)
    BY <1>a, <2>2 DEF StartGate
  <2>3. CASE \/ StartNew(p) \/ StartMark(p) \/ StartCore(p) \/ StartBranch(p)
             \/ StartEscort(p)
    BY <1>a, <2>3 DEF StartNew, StartMark, StartCore, StartBranch, StartEscort
  <2>4. CASE \/ StartRaise(p) \/ StartConf(p) \/ StartVpn(p)
             \/ StartScripts(p) \/ StartTell(p)
    BY <1>a, <2>4 DEF StartRaise, StartConf, StartVpn, StartScripts, StartTell
  <2> QED
    BY <1>1, <2>1, <2>2, <2>3, <2>4 DEF PointLoop
<1>2. ASSUME NEW s \in Stops, StopLoopW(s) PROVE WorkersOK'
  <2>1. \E x \in StopStates : stopPc' = [stopPc EXCEPT ![s] = x]
    BY <1>a, <1>2, StopLoopWMoves DEF WorkersOK
  <2>2. UNCHANGED <<intPc, gateVars>>
    BY <1>2 DEF StopLoopW, StopMark, StopClose, StopBranch, StopFd, StopVpn,
       StopRoot, StopTell, StopFrame
  <2>3. stopPc' \in [Stops -> StopStates]
    BY <1>a, <2>1 DEF WorkersOK
  <2>4. UNCHANGED startPc
    BY <1>2 DEF StopLoopW, StopMark, StopClose, StopBranch, StopFd, StopVpn,
       StopRoot, StopTell, StopFrame
  <2> QED
    BY <1>a, <2>2, <2>3, <2>4 DEF WorkersOK, gateVars
<1>3. ASSUME NEW i \in Interrupts, Restart(i) PROVE WorkersOK'
  BY <1>a, <1>3 DEF Restart, IntRead, IntCas, IntClose, IntStart, IntStore,
     IntMoves, IntStates, Ends, WorkersOK
<1>4. ASSUME TimerFires PROVE WorkersOK'
  BY <1>a, <1>4 DEF TimerFires, WorkersOK
<1>5. ASSUME RunLoop PROVE WorkersOK'
  BY <1>a, <1>5 DEF RunLoop, StartMoves, StartStates, WorkersOK, gateVars
<1>6. ASSUME StopLoop PROVE WorkersOK'
  BY <1>a, <1>6 DEF StopLoop, StopMoves, StopStates, WorkersOK,
     gateVars
<1>7. ASSUME NetworkInterrupted PROVE WorkersOK'
  BY <1>a, <1>7 DEF NetworkInterrupted, IntMoves, IntStates, WorkersOK
<1>8. ASSUME \/ ClientSetsVpn \/ UpgradeToContext
             \/ \E c \in Configs : ClientSets(c)
             \/ UNCHANGED moveVars
             \/ UNCHANGED pointVars
      PROVE  UNCHANGED <<startPc, stopPc, intPc, gateVars>>
  BY <1>8 DEF ClientSetsVpn, UpgradeToContext, ClientSets, moveVars, pointVars
<1> QED
  BY <1>0, <1>1, <1>2, <1>3, <1>4, <1>5, <1>6, <1>7, <1>8
  DEF Moves, Calls, Client, ClientAnswers, ClientReady, Loop, Stopping, Interrupting,
      Timer, Ready, Down, Supervisor, Closer, Child

LEMMA FieldsStep == Types /\ [Moves]_moveVars => FieldsOK'
<1> SUFFICES ASSUME Types, [Moves]_moveVars PROVE FieldsOK'
  OBVIOUS
<1>a. FieldsOK /\ VpnFieldsOK /\ WorkersOK
  BY DEF Types
<1>b. \A c \in Configs : c.conf \in Confs \cup {NoConf}
  BY ConfigsAssumption DEF ConfigRecords
<1>c. \A c \in Confs : c.escort \in BOOLEAN
  BY DEF Confs
<1>0. ASSUME UNCHANGED <<isRunning, coreVars, confVars, clientVars>>,
             crashed' \in BOOLEAN
      PROVE  FieldsOK'
  BY <1>a, <1>0 DEF FieldsOK, coreVars, confVars, clientVars
<1>1. ASSUME NEW p \in Starts, PointLoop(p) PROVE FieldsOK'
  <2>1. CASE StartLoad(p)
    <3>1. confng' \in Confs \cup {NoConf}
      BY <1>a, <1>b, <2>1 DEF StartLoad, LoadedConf, FieldsOK
    <3>2. crashed' \in BOOLEAN
      BY <1>a, <2>1 DEF StartLoad, Panic, FieldsOK
    <3> QED
      BY <1>a, <2>1, <3>1, <3>2 DEF StartLoad, FieldsOK, coreVars, clientVars
  <2>2. CASE StartNew(p)
    BY <1>a, <2>2 DEF StartNew, CoreNew, CoreStates, FieldsOK, lowerVars,
       confVars, clientVars
  <2>3. CASE StartMark(p) \/ StartBranch(p)
    BY <1>a, <2>3 DEF StartMark, StartBranch, FieldsOK, lowerVars, coreVars,
       confVars, clientVars
  <2>4. CASE StartCore(p)
    BY <1>a, <2>4 DEF StartCore, CoreStart, CoreStates, Panic, FieldsOK,
       coreVars, confVars, clientVars
  <2>5. CASE StartEscort(p)
    <3>1. UNCHANGED rootList \/ (confng \in Confs /\ rootList' = confng.escort)
      BY <1>a, <2>5 DEF StartEscort, FieldsOK
    <3>2. rootList' \in BOOLEAN
      BY <1>a, <1>c, <3>1 DEF FieldsOK
    <3> QED
      BY <1>a, <2>5, <3>2 DEF StartEscort, Panic, FieldsOK, coreVars,
         clientVars
  <2>6. CASE StartRaise(p) \/ StartGate(p) \/ StartConf(p) \/ StartVpn(p)
    <3>1. crashed' \in BOOLEAN
      BY <1>a, <2>6 DEF StartRaise, EscortingUP, StartGate, StartConf,
         AssignConf, StartVpn, VpnSetup, Panic, FieldsOK, lowerVars
    <3> QED
      BY <1>0, <2>6, <3>1 DEF StartRaise, StartGate, StartConf, StartVpn
  <2>7. CASE StartScripts(p)
    BY <1>a, <2>7 DEF StartScripts, Panic, FieldsOK, coreVars, clientVars
  <2>8. CASE StartTell(p)
    BY <1>a, <2>8 DEF StartTell, ClientStates, FieldsOK, lowerVars, coreVars,
       confVars
  <2> QED
    BY <1>1, <2>1, <2>2, <2>3, <2>4, <2>5, <2>6, <2>7, <2>8 DEF PointLoop
<1>2. ASSUME NEW s \in Stops, StopLoopW(s) PROVE FieldsOK'
  <2> USE DEF StopFrame
  <2>1. CASE StopMark(s) \/ StopTell(s)
    BY <1>a, <2>1 DEF StopMark, StopTell, ClientStates, FieldsOK, lowerVars,
       coreVars, confVars, clientVars
  <2>2. CASE StopClose(s)
    BY <1>a, <2>2 DEF StopClose, CoreClose, CoreStates, Panic, FieldsOK,
       coreVars, confVars, clientVars
  <2>3. CASE StopBranch(s) \/ StopFd(s) \/ StopVpn(s) \/ StopRoot(s)
    <3>1. crashed' \in BOOLEAN
      BY <1>a, <2>3 DEF StopBranch, StopFd, ShutdownFd, StopVpn,
         ShutdownEscort, ShutdownNextGen, StopRoot, CallEscortingDown,
         EscortingDownReturns, Panic, FieldsOK
    <3> QED
      BY <1>0, <2>3, <3>1 DEF StopBranch, StopFd, StopVpn, StopRoot
  <2> QED
    BY <1>2, <2>1, <2>2, <2>3 DEF StopLoopW
<1>3. ASSUME NEW i \in Interrupts, Restart(i) PROVE FieldsOK'
  BY <1>a, <1>3 DEF Restart, IntRead, IntCas, IntClose, IntStart, IntStore,
     IntMoves, CoreClose, CoreStart, CoreStates, FieldsOK, lowerVars,
     coreVars, confVars, clientVars
<1>4. ASSUME Client PROVE FieldsOK'
  <2>1. ASSUME NEW c \in Configs, ClientSets(c) PROVE FieldsOK'
    BY <1>a, <2>1 DEF ClientSets, FieldsOK, lowerVars, coreVars, confVars
  <2>2. CASE UpgradeToContext
    BY <1>a, <2>2 DEF UpgradeToContext, FieldsOK, lowerVars, coreVars, confVars
  <2>3. CASE ClientSetsVpn
    BY <1>a, <1>0, <2>3 DEF ClientSetsVpn, SetVpnSupportSet,
       OptinNextGenerationTunInterface, FieldsOK, pointVars
  <2>4. CASE RunLoop
    BY <1>a, <2>4 DEF RunLoop, Remembers, ClientStates, FieldsOK, lowerVars,
       coreVars, confVars
  <2>5. CASE StopLoop
    BY <1>a, <2>5 DEF StopLoop, Remembers, ClientStates, FieldsOK, lowerVars,
       coreVars, confVars
  <2>6. CASE NetworkInterrupted
    BY <1>a, <2>6 DEF NetworkInterrupted, IntMoves, FieldsOK, lowerVars,
       coreVars, confVars, clientVars
  <2> QED
    BY <1>4, <2>1, <2>2, <2>3, <2>4, <2>5, <2>6 DEF Client
<1>5. ASSUME NEW r \in ReadyCallers, ClientReady(r) \/ Ready(r)
      PROVE  FieldsOK'
  <2>1. crashed' = crashed /\ UNCHANGED <<isRunning, pointVars>>
    BY <1>5 DEF ClientReady, VpnSupportReady, Ready, ReadyStep, ReadySetup,
       ReadyNewEscort, NewEscort, ReadyRaise, EscortingUPV, ReadySpawn,
       SpawnEscortRun, ReadyNextGen
  <2> QED
    BY <1>a, <1>0, <2>1 DEF FieldsOK, pointVars
<1>6. ASSUME NEW e \in Escorts, Supervisor(e) \/ Closer(e) \/ Child(e)
      PROVE  FieldsOK'
  <2>1. crashed' \in BOOLEAN /\ UNCHANGED <<isRunning, pointVars>>
    BY <1>a, <1>6 DEF Supervisor, RunStep, RunStart, RunAppend, RunWaited,
       RunCheck, RunExhausted, RunSend, Closer, CloserQuits, Child, ChildExit,
       Panic, FieldsOK
  <2> QED
    BY <1>0, <2>1 DEF pointVars
<1>7. ASSUME NEW s \in Stops, Down(s) PROVE FieldsOK'
  <2>1. crashed' \in BOOLEAN /\ UNCHANGED <<isRunning, pointVars>>
    BY <1>a, <1>7 DEF Down, DownStep, DownCheck, DownKill, DownSend,
       DownClear, Panic, FieldsOK
  <2> QED
    BY <1>0, <2>1 DEF pointVars
<1>8. ASSUME TimerFires \/ UNCHANGED moveVars PROVE FieldsOK'
  <2>1. UNCHANGED <<isRunning, crashed, coreVars, confVars, clientVars>>
    BY <1>8 DEF TimerFires, moveVars, lowerVars, pointVars
  <2> QED
    BY <1>a, <1>0, <2>1 DEF FieldsOK
<1> QED
  BY <1>1, <1>2, <1>3, <1>4, <1>5, <1>6, <1>7, <1>8
  DEF Moves, Calls, ClientAnswers, Loop, Stopping, Interrupting, Timer

LEMMA InitTypes == Init => Types
<1> SUFFICES ASSUME Init PROVE Types
  OBVIOUS
<1>1. /\ count \in [Escorts -> 0..RestartLimit]
      /\ cmd \in [Escorts -> Handles]
  BY HandleFacts DEF Init, VpnInit, EscortInit
<1>2. SupTypeOK /\ CountInv
  BY <1>1 DEF Init, VpnInit, EscortInit, SupTypeOK, CountInv, RunStates,
     DownStates
<1>3. VpnFieldsOK
  BY DEF Init, VpnInit, VpnFieldsOK, VpnConfs, ReadyStates
<1>4. WorkersOK
  BY DEF Init, WorkersOK, StartStates, StopStates, IntStates
<1>5. FieldsOK
  BY DEF Init, FieldsOK, CoreStates, ClientStates
<1> QED
  BY <1>2, <1>3, <1>4, <1>5 DEF Types

LEMMA TypesStep == Types /\ [Moves]_moveVars => Types'
  BY SupStep, VpnFieldsStep, WorkersStep, FieldsStep DEF Types

LEMMA TypesInvariant == Spec => []Types
<1>1. Types /\ Collector => Types'
  BY CollectorKeeps DEF Types, SupTypeOK, CountInv, VpnFieldsOK, WorkersOK,
     FieldsOK, Collector, Finalize, escortVars, gateVars, coreVars, confVars,
     clientVars
<1>2. Types /\ [Next]_allVars => Types'
  BY <1>1, TypesStep, NextMoves
<1> QED
  BY InitTypes, <1>2, PTL DEF Spec

FilesOK == garbage \in BOOLEAN /\ lost \in BOOLEAN

LEMMA FilesStep == FilesOK /\ [Next]_allVars => FilesOK'
<1> SUFFICES ASSUME FilesOK, [Next]_allVars PROVE FilesOK'
  OBVIOUS
<1>1. ASSUME NEW e \in Escorts, RunDropsFile(e) PROVE FilesOK'
  BY <1>1 DEF RunDropsFile, FilesOK
<1>2. ASSUME NEW r \in ReadyCallers, ReadyDropsFile(r) PROVE FilesOK'
  BY <1>2 DEF ReadyDropsFile, FilesOK
<1>3. ASSUME Collector PROVE FilesOK'
  BY <1>3 DEF Collector, Finalize, FilesOK
<1>4. ASSUME UNCHANGED fileVars PROVE FilesOK'
  BY <1>4 DEF fileVars, FilesOK
<1> QED
  BY <1>1, <1>2, <1>3, <1>4 DEF Next, Moves, Calls, ClientAnswers, Ready, Loop,
     Stopping, Down, Interrupting, Timer, Supervisor, Closer, Child,
     KeepsFiles, allVars

\* Every variable of the service keeps its type, for any number of goroutines,
\* sessions and configurations and whatever panics. EscortRun's counter is
\* what its handles are made of (escort.go:15-48), and what a session leaves in
\* v.confng is what VpnSetup is given (interact.go:189-214).
THEOREM TypeCorrect == Spec => []TypeOK
<1>1. Types /\ FilesOK => TypeOK
  BY DEF Types, SupTypeOK, VpnFieldsOK, WorkersOK, FieldsOK, FilesOK, TypeOK,
     VpnTypeOK, EscortTypeOK
<1>2. Init => FilesOK
  BY DEF Init, VpnInit, FilesOK
<1> QED
  BY <1>1, <1>2, FilesStep, TypesInvariant, PTL DEF Spec

-----------------------------------------------------------------------------
(* Configurations and what is dereferenced of them.                          *)

\* The client can be served with c: its core's part parses where pointloop
\* panics otherwise, and its part for this library, if there is one, has what
\* pointloop dereferences and no root-mode process.
Usable(c) ==
    /\ c.kind = "jsonText" => c.ok
    /\ c.conf # NoConf => /\ c.conf.root = "full"
                          /\ ~c.conf.escort
                          /\ c.conf.vpn \notin {"nil", "partial"}
AllUsable == \A c \in Configs : Usable(c)

\* A session has assigned what stopLoopW dereferences.
Assigned == confng # NoConf => vpnConf # "partial" /\ scripts

SetupInv ==
    /\ confng = NoConf \/ \E c \in Configs : c.conf = confng
    /\ ~rootList
    /\ context # "legacy"
    /\ vpnConf = "on" => supportSet
    /\ client # "idle" /\ UsesVpn => supportSet
    /\ \A p \in Starts :
           /\ startPc[p] \in {"escort", "raise", "gate", "conf", "vpn",
                              "scripts"} => confng # NoConf
           /\ startPc[p] \in {"vpn", "scripts"} => vpnConf # "partial"
           /\ startPc[p] = "tell" => Assigned
    /\ client = "serving" => Assigned
    /\ \A s \in Stops :
           /\ stopPc[s] \in {"mark", "close", "branch"} => Assigned
           /\ stopPc[s] = "fd" => vpnConf # "partial"

LEMMA ConfngUsable ==
  ASSUME AllUsable, SetupInv, confng # NoConf
  PROVE  /\ confng.root = "full"
         /\ ~confng.escort
         /\ confng.vpn \in {"off", "on"}
         /\ confng.vpn = "on" => UsesVpn
<1>1. PICK c \in Configs : c.conf = confng
  BY DEF SetupInv
<1>2. confng \in Confs
  BY <1>1, ConfigsAssumption DEF ConfigRecords
<1>3. confng.vpn \in VpnConfs \cup {"nil"}
  BY <1>2 DEF Confs
<1> QED
  BY <1>1, <1>3 DEF AllUsable, Usable, UsesVpn, VpnConfs

setupVars == <<confng, rootList, scripts, context, supportSet, vpnConf>>

LEMMA SetupStart ==
  ASSUME AllUsable, Types, WorkerInv, SetupInv, NEW p \in Starts, PointLoop(p)
  PROVE  SetupInv'
<1>a. startPc \in [Starts -> StartStates] /\ config \in Configs
  BY DEF Types, WorkersOK, FieldsOK
<1>b. /\ UNCHANGED stopPc
      /\ client = "starting"
      /\ \A q \in Starts : q # p => startPc[q] = "idle"
      /\ \A s \in Stops : stopPc[s] = "idle"
      /\ UsesVpn => supportSet
  BY <1>a, PointLoopMoves DEF WorkerInv, SetupInv
<1> USE DEF StartMoves, Assigned
<1>1. CASE StartLoad(p)
  <2>1. confng' = NoConf \/ \E c \in Configs : c.conf = confng'
    BY <1>a, <1>1 DEF StartLoad, LoadedConf, SetupInv
  <2>2. startPc'[p] \in {"load", "idle", "new"} /\ startPc[p] = "load"
    BY <1>a, <1>1 DEF StartLoad
  <2>3. /\ \A q \in Starts : startPc'[q] \in {"load", "idle", "new"}
        /\ UNCHANGED <<rootList, scripts, context, supportSet, vpnConf,
                       client>>
    BY <1>a, <1>b, <1>1, <2>2 DEF StartLoad, vpnVars, clientVars
  <2> QED
    BY <1>b, <2>1, <2>3 DEF SetupInv
<1>2. CASE \/ StartNew(p) \/ StartMark(p) \/ StartCore(p) \/ StartBranch(p)
           \/ StartRaise(p) \/ StartGate(p)
  BY <1>a, <1>b, <1>2 DEF StartNew, StartMark, StartCore, StartBranch,
     StartRaise, StartGate, SetupInv, lowerVars, vpnVars, confVars, clientVars
<1>3. CASE StartEscort(p)
  <2>1. startPc[p] = "escort" /\ confng # NoConf
    BY <1>3 DEF StartEscort, SetupInv
  <2>2. confng.root = "full" /\ ~confng.escort
    BY <2>1, ConfngUsable
  <2> QED
    BY <1>a, <1>b, <1>3, <2>1, <2>2 DEF StartEscort, SetupInv, vpnVars,
       clientVars
<1>4. CASE StartConf(p)
  <2>1. startPc[p] = "conf" /\ confng # NoConf
    BY <1>4 DEF StartConf, SetupInv
  <2>2. confng.vpn \in {"off", "on"} /\ (confng.vpn = "on" => UsesVpn)
    BY <2>1, ConfngUsable
  <2> QED
    BY <1>a, <1>b, <1>4, <2>1, <2>2 DEF StartConf, AssignConf, SetupInv,
       confVars, clientVars
<1>5. CASE StartVpn(p)
  BY <1>a, <1>b, <1>5 DEF StartVpn, VpnSetup, SetupInv, confVars, clientVars
<1>6. CASE StartScripts(p)
  <2>1. startPc[p] = "scripts" /\ confng # NoConf
    BY <1>6 DEF StartScripts, SetupInv
  <2>2. confng.root = "full"
    BY <2>1, ConfngUsable
  <2> QED
    BY <1>a, <1>b, <1>6, <2>1, <2>2 DEF StartScripts, SetupInv, vpnVars,
       clientVars
<1>7. CASE StartTell(p)
  BY <1>a, <1>b, <1>7 DEF StartTell, SetupInv, lowerVars, vpnVars, confVars
<1> QED
  BY <1>1, <1>2, <1>3, <1>4, <1>5, <1>6, <1>7 DEF PointLoop

LEMMA SetupStop ==
  ASSUME Types, WorkerInv, SetupInv, NEW s \in Stops, StopLoopW(s)
  PROVE  SetupInv'
<1>a. stopPc \in [Stops -> StopStates]
  BY DEF Types, WorkersOK
<1>b. /\ UNCHANGED startPc
      /\ client = "stopping"
      /\ \A t \in Stops : t # s => stopPc[t] = "idle"
      /\ \A p \in Starts : startPc[p] = "idle"
      /\ UsesVpn => supportSet
  BY <1>a, StopLoopWMoves DEF WorkerInv, SetupInv
<1>c. UNCHANGED setupVars
  BY DEF StopLoopW, StopMark, StopClose, StopBranch, StopFd, ShutdownFd,
     StopVpn, ShutdownEscort, ShutdownNextGen, StopRoot, StopTell, StopFrame,
     setupVars, lowerVars, vpnVars, confVars, clientVars
<1> USE DEF StopMoves, Assigned, setupVars
<1>1. CASE StopMark(s) \/ StopClose(s) \/ StopBranch(s)
  BY <1>a, <1>b, <1>c, <1>1 DEF StopMark, StopClose, StopBranch, SetupInv,
     clientVars
<1>2. CASE StopFd(s) \/ StopVpn(s) \/ StopRoot(s) \/ StopTell(s)
  BY <1>a, <1>b, <1>c, <1>2 DEF StopFd, StopVpn, StopRoot, StopTell, SetupInv,
     clientVars
<1> QED
  BY <1>1, <1>2 DEF StopLoopW

LEMMA SetupClient ==
  ASSUME {"status", "context", "vpn"} \subseteq Manners,
         Types, WorkerInv, SetupInv, Client
  PROVE  SetupInv'
<1>a. /\ startPc \in [Starts -> StartStates]
      /\ stopPc \in [Stops -> StopStates]
      /\ supportSet \in BOOLEAN
  BY DEF Types, WorkersOK, VpnFieldsOK
<1> USE DEF Assigned
<1>1. ASSUME NEW c \in Configs, ClientSets(c) PROVE SetupInv'
  BY <1>1 DEF ClientSets, SetupInv, lowerVars, vpnVars, confVars
<1>2. CASE UpgradeToContext
  BY <1>2 DEF UpgradeToContext, SetupInv, lowerVars, vpnVars,
     confVars
<1>3. CASE ClientSetsVpn
  BY <1>3 DEF ClientSetsVpn, SetVpnSupportSet,
     OptinNextGenerationTunInterface, SetupInv, pointVars, confVars,
     clientVars
<1>4. CASE RunLoop
  <2>1. /\ client = "idle" /\ client' = "starting"
        /\ context = "upgraded" /\ context' = context
        /\ UsesVpn => supportSet
        /\ UNCHANGED <<stopPc, confng, rootList, scripts, supportSet, vpnConf>>
    BY <1>4 DEF RunLoop, Waits, Remembers, lowerVars, vpnVars, confVars
  <2>2. /\ \A p \in Starts : startPc[p] = "idle"
        /\ \A s \in Stops : stopPc[s] = "idle"
    BY <2>1 DEF WorkerInv
  <2>3. \A p \in Starts : startPc'[p] \in {"idle", "load"}
    BY <1>a, <1>4, <2>2 DEF RunLoop, StartMoves
  <2> QED
    BY <2>1, <2>2, <2>3 DEF SetupInv
<1>5. CASE StopLoop
  <2>1. /\ client = "serving" /\ client' = "stopping"
        /\ UNCHANGED <<startPc, setupVars>>
    BY <1>5 DEF StopLoop, Waits, Remembers, setupVars, lowerVars, vpnVars,
       confVars
  <2>2. \A s \in Stops : stopPc'[s] \in {"idle", "mark"}
    <3>1. \A s \in Stops : stopPc[s] = "idle"
      BY <2>1 DEF WorkerInv
    <3> QED
      BY <1>a, <1>5, <3>1 DEF StopLoop, StopMoves
  <2> QED
    BY <2>1, <2>2 DEF SetupInv, setupVars
<1>6. CASE NetworkInterrupted
  BY <1>6 DEF NetworkInterrupted, IntMoves, SetupInv, lowerVars,
     vpnVars, confVars, clientVars
<1> QED
  BY <1>1, <1>2, <1>3, <1>4, <1>5, <1>6 DEF Client

LEMMA SetupInductive ==
  ASSUME {"status", "context", "vpn"} \subseteq Manners, AllUsable
  PROVE  Types /\ WorkerInv /\ SetupInv /\ [Moves]_moveVars => SetupInv'
<1> SUFFICES ASSUME Types, WorkerInv, SetupInv, [Moves]_moveVars PROVE SetupInv'
  OBVIOUS
<1>1. ASSUME UNCHANGED <<setupVars, startPc, stopPc, client>> PROVE SetupInv'
  BY <1>1 DEF SetupInv, Assigned, setupVars
<1>2. ASSUME NEW r \in ReadyCallers, ClientReady(r) \/ Ready(r)
      PROVE  UNCHANGED <<setupVars, startPc, stopPc, client>>
  BY <1>2 DEF ClientReady, VpnSupportReady, Ready, ReadyStep, ReadySetup,
     ReadyNewEscort, ReadyRaise, ReadySpawn, ReadyNextGen, ReadyMoves,
     setupVars, pointVars, confVars, clientVars
<1>3. ASSUME NEW i \in Interrupts, Restart(i)
      PROVE  UNCHANGED <<setupVars, startPc, stopPc, client>>
  BY <1>3 DEF Restart, IntRead, IntCas, IntClose, IntStart, IntStore, IntMoves,
     setupVars, lowerVars, vpnVars, confVars, clientVars
<1>4. ASSUME \/ TimerFires
             \/ \E s \in Stops : Down(s)
             \/ \E e \in Escorts : Supervisor(e) \/ Closer(e) \/ Child(e)
             \/ UNCHANGED moveVars
      PROVE  UNCHANGED <<setupVars, startPc, stopPc, client>>
  BY <1>4 DEF TimerFires, Down, Supervisor, Closer, Child, moveVars, setupVars,
     lowerVars, vpnVars, pointVars, confVars, clientVars
<1> QED
  BY <1>1, <1>2, <1>3, <1>4, SetupStart, SetupStop, SetupClient
  DEF Moves, Calls, ClientAnswers, Loop, Stopping, Interrupting, Timer

-----------------------------------------------------------------------------
(* The core is there when it is used.                                        *)

CoreThere ==
    /\ vpoint # "bad"
    /\ \A p \in Starts : startPc[p] \in {"mark", "start"} => vpoint # "nil"
    /\ \A s \in Stops : stopPc[s] \in {"mark", "close"} => vpoint # "nil"

LEMMA CoreThereInductive ==
  ASSUME ~CoreMayFail
  PROVE  Types /\ MarkInv /\ CoreThere /\ [Moves]_moveVars => CoreThere'
<1> SUFFICES ASSUME Types, MarkInv, CoreThere, [Moves]_moveVars
             PROVE  CoreThere'
  OBVIOUS
<1>a. /\ startPc \in [Starts -> StartStates]
      /\ stopPc \in [Stops -> StopStates]
  BY DEF Types, WorkersOK
<1>b. vpoint' \in {vpoint, "new", "running", "closed"}
  BY CoreSteps DEF StartNew, StartMark, StartCore, StopMark, StopClose,
     IntClose, IntStart, CoreNew, CoreStart, CoreClose, coreVars
<1>c. vpoint' # "bad" /\ (vpoint # "nil" => vpoint' # "nil")
  BY <1>b DEF CoreThere
<1>1. ASSUME NEW p \in Starts, startPc'[p] \in {"mark", "start"}
      PROVE  vpoint' # "nil"
  <2>1. CASE startPc[p] \in {"mark", "start"}
    BY <1>c, <2>1 DEF CoreThere
  <2>2. CASE StartNew(p)
    BY <2>2 DEF StartNew, CoreNew
  <2>3. startPc[p] \in {"mark", "start"} \/ StartNew(p)
    <3>1. ASSUME NEW q \in Starts, PointLoop(q)
          PROVE  startPc[p] \in {"mark", "start"} \/ StartNew(p)
      BY <1>a, <1>1, <3>1 DEF PointLoop, StartLoad, StartNew, StartMark,
         StartCore, StartBranch, StartEscort, StartRaise, StartGate, StartConf,
         StartVpn, StartScripts, StartTell, StartMoves
    <3>2. ASSUME NEW s \in Stops, StopLoopW(s) PROVE UNCHANGED startPc
      BY <1>a, <3>2, StopLoopWMoves
    <3>3. RunLoop => startPc[p] \in {"mark", "start"}
      BY <1>a, <1>1 DEF RunLoop, StartMoves
    <3>4. StopLoop => UNCHANGED startPc
      BY DEF StopLoop
    <3> QED
      BY <1>1, <3>1, <3>2, <3>3, <3>4, WorkerSteps
  <2> QED
    BY <2>1, <2>2, <2>3
<1>2. ASSUME NEW s \in Stops, stopPc'[s] \in {"mark", "close"}
      PROVE  vpoint' # "nil"
  <2>1. CASE stopPc[s] \in {"mark", "close"}
    BY <1>c, <2>1 DEF CoreThere
  <2>2. CASE StopLoop /\ isRunning
    BY <1>c, <2>2 DEF MarkInv
  <2>3. stopPc[s] \in {"mark", "close"} \/ (StopLoop /\ isRunning)
    <3>1. ASSUME NEW t \in Stops, StopLoopW(t)
          PROVE  stopPc[s] \in {"mark", "close"}
      BY <1>a, <1>2, <3>1 DEF StopLoopW, StopMark, StopClose, StopBranch,
         StopFd, StopVpn, StopRoot, StopTell, StopMoves
    <3>2. ASSUME NEW p \in Starts, PointLoop(p) PROVE UNCHANGED stopPc
      BY <1>a, <3>2, PointLoopMoves
    <3>3. StopLoop => stopPc[s] \in {"mark", "close"} \/ isRunning
      BY <1>a, <1>2 DEF StopLoop
    <3>4. RunLoop => UNCHANGED stopPc
      BY DEF RunLoop
    <3> QED
      BY <1>2, <3>1, <3>2, <3>3, <3>4, WorkerSteps
  <2> QED
    BY <2>1, <2>2, <2>3
<1> QED
  BY <1>c, <1>1, <1>2 DEF CoreThere

-----------------------------------------------------------------------------
(* The supervisor between the sessions of a client that leaves it time.      *)

Quiet == \A e \in Escorts : runPc[e] \in {"none", "done"}
NobodyReady == \A r \in ReadyCallers : readyPc[r] = "idle"
InSession == client \in {"starting", "serving"}

\* What EscortRun finds when it goes on.  Only v.Estr has one that runs, its
\* list was made before it, and its child ends only when it is killed.
RunInv ==
    \A e \in Escorts :
        /\ runPc[e] # "none" => status[e]
        /\ NoProcess \notin escortProcess[e]
        /\ runPc[e] \notin {"exhausted", "send"}
        /\ runPc[e] \in {"start", "append"} => up[e] /\ InSession
        /\ runPc[e] = "append" => cmd[e] \in alive[e]
        /\ runPc[e] = "wait" => cmd[e] \in alive[e] \/ ~isRunning
        /\ runPc[e] = "check" => ~isRunning
        /\ e # estr => runPc[e] \in {"none", "done"}

\* EscortingDown runs only where stopLoopW waits for it, in a service that is
\* marked as stopped; what it found up stays up until it clears it.
DownInv ==
    \A s \in Stops :
        /\ downPc[s] # "idle" => stopPc[s] \in {"vpnWait", "rootWait"}
        /\ downPc[s] \in {"kill", "send", "clear"} => up[downOf[s]]
        /\ stopPc[s] \notin {"idle", "mark"} => ~isRunning

\* VpnSupportReady runs only after VpnSetup has asked for it and before
\* StopLoop, one at a time, and starts from a supervisor at rest.
ReadyInv ==
    /\ ~InSession => ~prepared /\ NobodyReady
    /\ \A p \in Starts :
           startPc[p] \notin {"idle", "scripts", "tell"} =>
               ~prepared /\ NobodyReady /\ Quiet
    /\ prepared => NobodyReady /\ Quiet
    /\ \A q, r \in ReadyCallers :
           readyPc[q] # "idle" /\ readyPc[r] # "idle" => q = r
    /\ \A r \in ReadyCallers :
           /\ readyPc[r] \in {"setup", "new", "raise", "spawn"} => Quiet
           /\ readyPc[r] = "nextGen" => nextGen
           /\ readyPc[r] \in {"new", "raise", "spawn"} => ~nextGen
           /\ readyPc[r] \in {"raise", "spawn"} =>
                  estr # NoEscort /\ status[estr]
           /\ readyPc[r] = "spawn" => up[estr]

\* VpnShutdown has something to shut down, from the time it has been asked for.
Equipped == IF nextGen THEN lowerup # "nil" ELSE estr # NoEscort
Answered == prepared \/ ~NobodyReady \/ Equipped
Using == confng # NoConf /\ vpnConf = "on"

AnswerInv ==
    /\ \A p \in Starts :
           /\ startPc[p] = "scripts" /\ vpnConf = "on" => Answered
           /\ startPc[p] = "tell" /\ Using => Answered
    /\ client = "serving" /\ Using => Answered
    /\ \A s \in Stops :
           /\ stopPc[s] \in {"mark", "close", "branch"} /\ Using => Equipped
           /\ stopPc[s] = "fd" /\ vpnConf = "on" => Equipped
           /\ stopPc[s] = "vpnDown" => Equipped

\* The process is started while the tun descriptor it is given is open.
FdInv ==
    /\ \A r \in ReadyCallers :
           readyPc[r] \in {"new", "raise", "spawn"} => fd = "open"
    /\ \A e \in Escorts : runPc[e] = "start" => fd = "open"

PatientInv ==
    /\ ~crashed
    /\ Types /\ WorkerInv /\ MarkInv
    /\ SetupInv /\ CoreThere
    /\ RunInv /\ DownInv /\ ReadyInv /\ AnswerInv /\ FdInv

LEMMA StartNoPanic ==
  ASSUME AllUsable, PatientInv, NEW p \in Starts, PointLoop(p)
  PROVE  ~crashed'
<1>a. ~crashed /\ SetupInv /\ CoreThere /\ config \in Configs
  BY DEF PatientInv, Types, FieldsOK
<1>1. CASE StartLoad(p)
  <2>1. ~LoadPanics(config)
    BY <1>a DEF LoadPanics, AllUsable, Usable, SetupInv
  <2> QED
    BY <1>a, <1>1, <2>1 DEF StartLoad
<1>2. CASE StartCore(p)
  BY <1>a, <1>2 DEF StartCore, NoCore, CoreThere
<1>3. CASE StartEscort(p) \/ StartConf(p) \/ StartScripts(p)
  <2>1. confng # NoConf
    BY <1>a, <1>3 DEF StartEscort, StartConf, StartScripts, StartMoves,
       SetupInv
  <2>2. confng.root = "full" /\ confng.vpn \in {"off", "on"}
    BY <1>a, <2>1, ConfngUsable
  <2> QED
    BY <1>a, <1>3, <2>1, <2>2 DEF StartEscort, StartConf, StartScripts,
       AssignConf
<1>4. CASE StartVpn(p)
  <2>1. vpnConf # "partial" /\ (vpnConf = "on" => supportSet)
    BY <1>a, <1>4 DEF StartVpn, StartMoves, SetupInv
  <2> QED
    BY <1>a, <1>4, <2>1 DEF StartVpn, VpnSetup
<1>5. CASE StartRaise(p)
  BY <1>a, <1>5 DEF StartRaise, EscortingUP
<1>6. CASE \/ StartNew(p) \/ StartMark(p) \/ StartBranch(p) \/ StartGate(p)
           \/ StartTell(p)
  BY <1>a, <1>6 DEF StartNew, StartMark, StartBranch, StartGate, StartTell,
     lowerVars
<1> QED
  BY <1>1, <1>2, <1>3, <1>4, <1>5, <1>6 DEF PointLoop

LEMMA StopNoPanic ==
  ASSUME PatientInv, NEW s \in Stops, StopLoopW(s)
  PROVE  ~crashed'
<1>a. ~crashed /\ SetupInv /\ CoreThere /\ AnswerInv
  BY DEF PatientInv
<1>1. CASE StopClose(s)
  BY <1>a, <1>1 DEF StopClose, NoCore, CoreThere
<1>2. CASE StopBranch(s)
  BY <1>a, <1>2 DEF StopBranch, SetupInv, Assigned
<1>3. CASE StopFd(s)
  <2>1. vpnConf # "partial" /\ (vpnConf = "on" => supportSet)
    BY <1>a, <1>3 DEF StopFd, StopMoves, SetupInv
  <2> QED
    BY <1>a, <1>3, <2>1 DEF StopFd, ShutdownFd
<1>4. CASE StopVpn(s)
  <2>1. stopPc[s] = "vpnDown" => Equipped
    BY <1>a DEF AnswerInv
  <2> QED
    BY <1>a, <1>4, <2>1 DEF StopVpn, StopMoves, ShutdownEscort,
       ShutdownNextGen, CallEscortingDown, EscortingDownReturns, Equipped
<1>5. CASE StopMark(s) \/ StopRoot(s) \/ StopTell(s)
  BY <1>a, <1>5 DEF StopMark, StopRoot, StopTell, CallEscortingDown,
     EscortingDownReturns, lowerVars
<1> QED
  BY <1>1, <1>2, <1>3, <1>4, <1>5 DEF StopLoopW

LEMMA NobodyPanics ==
  ASSUME AllUsable
  PROVE  PatientInv /\ [Moves]_moveVars => ~crashed'
<1> SUFFICES ASSUME PatientInv, [Moves]_moveVars PROVE ~crashed'
  OBVIOUS
<1>a. ~crashed /\ RunInv /\ DownInv /\ Stops = DownCallers
  BY StopsAreCallers DEF PatientInv
<1>b. downOf \in [DownCallers -> Escorts]
  BY DEF PatientInv, Types, SupTypeOK
<1>1. ASSUME NEW e \in Escorts, Supervisor(e) \/ Closer(e) \/ Child(e)
      PROVE  ~crashed'
  BY <1>a, <1>1 DEF Supervisor, RunStep, RunStart, RunAppend, RunWaited,
     RunCheck, RunExhausted, RunSend, Closer, CloserQuits, Child, ChildExit,
     RunInv
<1>2. ASSUME NEW s \in Stops, Down(s) PROVE ~crashed'
  <2>1. /\ downPc[s] = "kill" => up[downOf[s]]
        /\ NoProcess \notin escortProcess[downOf[s]]
    BY <1>a, <1>b DEF DownInv, RunInv
  <2> QED
    BY <1>a, <1>2, <2>1 DEF Down, DownStep, DownCheck, DownKill, DownSend,
       DownClear
<1>3. ASSUME \/ Client
             \/ \E r \in ReadyCallers : ClientReady(r) \/ Ready(r)
             \/ \E i \in Interrupts : Restart(i)
             \/ TimerFires
             \/ UNCHANGED moveVars
      PROVE  ~crashed'
  BY <1>a, <1>3 DEF Client, ClientSets, UpgradeToContext, ClientSetsVpn,
     SetVpnSupportSet, OptinNextGenerationTunInterface, RunLoop, StopLoop,
     NetworkInterrupted, IntMoves, ClientReady, VpnSupportReady, Ready,
     ReadyStep, ReadySetup, ReadyNewEscort, NewEscort, ReadyRaise,
     EscortingUPV, ReadySpawn, SpawnEscortRun, ReadyNextGen, Restart, IntRead,
     IntCas, IntClose, IntStart, IntStore, TimerFires, moveVars, lowerVars
<1> QED
  BY <1>1, <1>2, <1>3, StartNoPanic, StopNoPanic
  DEF Moves, Calls, ClientAnswers, Loop, Stopping, Interrupting, Timer

-----------------------------------------------------------------------------
(* Steps preserve what EscortRun finds.                                      *)

superVars == <<status, up, escortProcess, runPc, cmd, alive, isRunning, estr>>

LEMMA RunOwner ==
  ASSUME PatientInv, NEW r \in ReadyCallers, ReadyStep(r),
         UNCHANGED <<isRunning, client>>
  PROVE  RunInv'
<1>a. SupTypeOK /\ VpnFieldsOK /\ RunInv /\ ReadyInv
  BY DEF PatientInv, Types
<1>b. readyPc[r] # "idle" => InSession
  BY <1>a DEF ReadyInv, NobodyReady
<1> USE DEF RunInv, InSession
<1>1. CASE ReadySetup(r) \/ ReadyNextGen(r)
  BY <1>a, <1>1 DEF ReadySetup, ReadyNextGen, escortVars
<1>2. CASE ReadyNewEscort(r)
  <2>1. Quiet
    BY <1>a, <1>2 DEF ReadyNewEscort, ReadyMoves, ReadyInv
  <2>2. PICK e \in Escorts : NewEscort(e) /\ estr' = e
    BY <1>2 DEF ReadyNewEscort, VpnObjects
  <2>3. runPc' \in [Escorts -> RunStates]
        /\ \A x \in Escorts : runPc'[x] \in {"none", "done"}
    BY <1>a, <2>1, <2>2 DEF NewEscort, SupTypeOK, Quiet, RunStates
  <2>4. \A x \in Escorts : /\ runPc'[x] # "none" => status'[x]
                           /\ NoProcess \notin escortProcess'[x]
    BY <1>a, <2>2 DEF NewEscort, SupTypeOK
  <2> QED
    BY <2>3, <2>4
<1>3. CASE ReadyRaise(r)
  <2>1. UNCHANGED <<status, runPc, cmd, alive, isRunning, estr, client>>
    BY <1>3 DEF ReadyRaise, EscortingUPV, runVars
  <2>2. \A x \in Escorts : /\ up[x] => up'[x]
                           /\ NoProcess \notin escortProcess'[x]
    BY <1>a, <1>3 DEF ReadyRaise, EscortingUPV, RaiseList, SupTypeOK
  <2> QED
    BY <1>a, <2>1, <2>2
<1>4. CASE ReadySpawn(r)
  <2>1. readyPc[r] = "spawn" /\ Quiet /\ status[estr] /\ up[estr] /\ InSession
    BY <1>a, <1>b, <1>4 DEF ReadySpawn, ReadyMoves, ReadyInv
  <2>2. UNCHANGED <<status, up, escortProcess, alive, isRunning, estr, client>>
    BY <1>4 DEF ReadySpawn, SpawnEscortRun
  <2>3. runPc' = [runPc EXCEPT ![estr] = "start"]
    BY <1>4 DEF ReadySpawn, SpawnEscortRun, GoEscortRun
  <2>4. \A x \in Escorts : x # estr => runPc'[x] \in {"none", "done"}
    BY <1>a, <2>1, <2>3 DEF Quiet, SupTypeOK
  <2>5. \A x \in Escorts : x = estr => runPc'[x] = "start"
    BY <1>a, <2>3 DEF SupTypeOK
  <2>6. \A x \in Escorts : runPc'[x] # "none" => status[x]
    BY <1>a, <2>1, <2>3 DEF SupTypeOK
  <2> QED
    BY <1>a, <2>1, <2>2, <2>4, <2>5, <2>6
<1> QED
  BY <1>1, <1>2, <1>3, <1>4 DEF ReadyStep

LEMMA RunItself ==
  ASSUME PatientInv, ~StartMayFail, ~crashed', NEW e \in Escorts,
         RunStep(e, StartFails(e)) \/ CloserQuits(e),
         UNCHANGED <<isRunning, estr, client>>
  PROVE  RunInv'
<1>a. SupTypeOK /\ CountInv /\ RunInv
  BY DEF PatientInv, Types
<1>b. runPc[e] = "start" => ~StartFails(e)
  BY DEF PatientInv, FdInv, StartFails
<1> USE DEF RunInv, InSession, SupTypeOK
<1>1. CASE RunStart(e, StartFails(e))
  BY <1>a, <1>b, <1>1 DEF RunStart, Panic
<1>2. CASE RunAppend(e)
  <2>1. cmd[e] # NoProcess
    BY <1>a, <1>2, RestartLimitAssumption
    DEF RunAppend, Children, NoProcess
  <2> QED
    BY <1>a, <1>2, <2>1 DEF RunAppend, Panic
<1>3. CASE RunWaited(e)
  BY <1>a, <1>3 DEF RunWaited
<1>4. CASE RunCheck(e)
  BY <1>a, <1>4 DEF RunCheck
<1>5. CASE RunExhausted(e) \/ RunSend(e)
  BY <1>a, <1>5 DEF RunExhausted, RunSend
<1>6. CASE CloserQuits(e)
  BY <1>a, <1>6 DEF CloserQuits, runVars
<1> QED
  BY <1>1, <1>2, <1>3, <1>4, <1>5, <1>6 DEF RunStep

LEMMA RunDown ==
  ASSUME PatientInv, ~crashed', NEW s \in Stops, DownStep(s),
         UNCHANGED <<isRunning, estr, client>>
  PROVE  RunInv'
<1>a. SupTypeOK /\ RunInv
  BY DEF PatientInv, Types
<1>b. ~isRunning /\ ~InSession
  <2>1. downPc[s] # "idle"
    BY DEF DownStep, DownCheck, DownKill, DownSend, DownClear
  <2> QED
    BY <2>1 DEF PatientInv, DownInv, WorkerInv, InSession
<1> USE DEF RunInv, InSession, SupTypeOK
<1>1. CASE DownCheck(s) \/ DownSend(s)
  BY <1>a, <1>b, <1>1 DEF DownCheck, DownSend, runVars
<1>2. CASE DownKill(s)
  BY <1>a, <1>b, <1>2 DEF DownKill, runVars, Panic
<1>3. CASE DownClear(s)
  BY <1>a, <1>b, <1>3 DEF DownClear, runVars
<1> QED
  BY <1>1, <1>2, <1>3 DEF DownStep

LEMMA RunWorkers ==
  ASSUME PatientInv, ~crashed',
         (\E p \in Starts : PointLoop(p)) \/ (\E s \in Stops : StopLoopW(s))
  PROVE  RunInv'
<1>a. /\ SupTypeOK /\ RunInv /\ ReadyInv /\ WorkerInv /\ ~rootList
      /\ startPc \in [Starts -> StartStates]
      /\ stopPc \in [Stops -> StopStates]
  BY DEF PatientInv, Types, SetupInv, WorkerInv
<1>b. InSession' => InSession
  BY <1>a DEF PointLoop, StartLoad, StartNew, StartMark, StartCore,
     StartBranch, StartEscort, StartRaise, StartGate, StartConf, StartVpn,
     StartScripts, StartTell, StopLoopW, StopMark, StopClose, StopBranch,
     StopFd, StopVpn, StopRoot, StopTell, InSession, clientVars
<1>c. InSession => InSession'
  <2>1. ASSUME NEW p \in Starts, PointLoop(p) PROVE InSession => InSession'
    BY <2>1 DEF PointLoop, StartLoad, StartNew, StartMark, StartCore,
       StartBranch, StartEscort, StartRaise, StartGate, StartConf, StartVpn,
       StartScripts, StartTell, InSession, clientVars
  <2>2. ASSUME NEW s \in Stops, StopLoopW(s) PROVE ~InSession
    BY <1>a, <2>2, StopLoopWMoves DEF WorkerInv, InSession
  <2> QED
    BY <2>1, <2>2
<1>d. InSession' <=> InSession
  BY <1>b, <1>c
<1> USE DEF RunInv, SupTypeOK
<1>1. ASSUME NEW p \in Starts, StartRaise(p) PROVE RunInv'
  <2>1. UNCHANGED <<status, runPc, cmd, alive, isRunning, estr>>
    BY <1>a, <1>1 DEF StartRaise, EscortingUP, RaiseList, runVars, vpnVars
  <2>2. \A x \in Escorts : /\ up[x] => up'[x]
                           /\ NoProcess \notin escortProcess'[x]
    BY <1>a, <1>1 DEF StartRaise, EscortingUP, RaiseList
  <2> QED
    BY <1>a, <1>d, <2>1, <2>2
<1>2. ASSUME NEW p \in Starts, StartMark(p) PROVE RunInv'
  <2>1. Quiet
    BY <1>a, <1>2 DEF StartMark, StartMoves, ReadyInv
  <2> QED
    BY <1>a, <1>d, <1>2, <2>1 DEF StartMark, Quiet, lowerVars, escortVars,
       vpnVars
<1>3. ASSUME NEW s \in Stops, StopMark(s) PROVE RunInv'
  BY <1>a, <1>d, <1>3 DEF StopMark, lowerVars, escortVars, vpnVars
<1>4. ASSUME NEW p \in Starts, PointLoop(p), ~StartRaise(p), ~StartMark(p)
      PROVE  UNCHANGED superVars
  BY <1>4 DEF PointLoop, StartLoad, StartNew, StartCore, StartBranch,
     StartEscort, StartGate, StartConf, AssignConf, StartVpn, VpnSetup,
     StartScripts, StartTell, lowerVars, escortVars, vpnVars, superVars
<1>5. ASSUME NEW s \in Stops, StopLoopW(s), ~StopMark(s)
      PROVE  UNCHANGED superVars
  BY <1>5 DEF StopLoopW, StopClose, StopBranch, StopFd, ShutdownFd, StopVpn,
     ShutdownEscort, ShutdownNextGen, StopRoot, CallEscortingDown,
     EscortingDownReturns, StopTell, lowerVars, escortVars, vpnVars, runVars,
     superVars
<1>6. UNCHANGED superVars => RunInv'
  BY <1>a, <1>d DEF superVars
<1> QED
  BY <1>1, <1>2, <1>3, <1>4, <1>5, <1>6

LEMMA RunClient ==
  ASSUME {"status", "settle"} \subseteq Manners, PatientInv, Client
  PROVE  RunInv'
<1>a. RunInv /\ NoEscort \notin Escorts
  BY NoEscortAssumption DEF PatientInv
<1>1. UNCHANGED superVars
  BY DEF Client, ClientSets, UpgradeToContext, ClientSetsVpn,
     SetVpnSupportSet, OptinNextGenerationTunInterface, RunLoop, StopLoop,
     NetworkInterrupted, IntMoves, lowerVars, escortVars, vpnVars, superVars
<1>2. CASE StopLoop
  <2>1. \A e \in Escorts : runPc[e] \notin {"start", "append"}
    BY <1>a, <1>2 DEF StopLoop, Waits, RunInv
  <2> QED
    BY <1>a, <1>1, <2>1 DEF RunInv, superVars
<1>3. CASE ~StopLoop
  <2>1. InSession => InSession'
    BY <1>3 DEF Client, ClientSets, UpgradeToContext, ClientSetsVpn, RunLoop,
       NetworkInterrupted, IntMoves, Remembers, InSession, pointVars,
       clientVars
  <2> QED
    BY <1>a, <1>1, <2>1 DEF RunInv, superVars
<1> QED
  BY <1>2, <1>3

LEMMA RunInductive ==
  ASSUME {"status", "settle"} \subseteq Manners, AllUsable,
         ~StartMayFail, ~ChildMayExit
  PROVE  PatientInv /\ [Moves]_moveVars => RunInv'
<1> SUFFICES ASSUME PatientInv, [Moves]_moveVars PROVE RunInv'
  OBVIOUS
<1>a. RunInv /\ ~crashed' /\ Stops = DownCallers
  BY NobodyPanics, StopsAreCallers DEF PatientInv
<1>1. ASSUME NEW r \in ReadyCallers, Ready(r) PROVE RunInv'
  BY <1>1, RunOwner DEF Ready, pointVars, clientVars
<1>2. ASSUME NEW e \in Escorts, Supervisor(e) \/ Closer(e) PROVE RunInv'
  BY <1>a, <1>2, RunItself DEF Supervisor, Closer, pointVars, clientVars,
     vpnVars
<1>3. ASSUME NEW s \in Stops, Down(s) PROVE RunInv'
  BY <1>a, <1>3, RunDown DEF Down, pointVars, clientVars, vpnVars
<1>4. ASSUME \/ \E r \in ReadyCallers : ClientReady(r)
             \/ \E i \in Interrupts : Restart(i)
             \/ TimerFires
             \/ UNCHANGED moveVars
      PROVE  UNCHANGED <<superVars, client>>
  BY <1>4 DEF ClientReady, VpnSupportReady, Restart, IntRead, IntCas,
     IntClose, IntStart, IntStore, IntMoves, TimerFires, moveVars, pointVars,
     clientVars, lowerVars, escortVars, vpnVars, superVars
<1>5. ASSUME UNCHANGED <<superVars, client>> PROVE RunInv'
  BY <1>a, <1>5 DEF RunInv, InSession, superVars
<1> QED
  BY <1>a, <1>1, <1>2, <1>3, <1>4, <1>5, RunWorkers, RunClient
  DEF Moves, Calls, ClientAnswers, Loop, Stopping, Interrupting, Timer, Child

-----------------------------------------------------------------------------
(* Steps preserve where EscortingDown runs.                                  *)

downInvVars == <<downPc, downOf, up, isRunning, stopPc>>

LEMMA DownStop ==
  ASSUME PatientInv, ~crashed', NEW s \in Stops, StopLoopW(s)
  PROVE  DownInv'
<1>a. /\ DownInv /\ WorkerInv
      /\ stopPc \in [Stops -> StopStates]
      /\ downPc \in [Stops -> DownStates]
      /\ downOf \in [Stops -> Escorts]
      /\ isRunning \in BOOLEAN
  BY StopsAreCallers
  DEF PatientInv, Types, SupTypeOK, WorkersOK, FieldsOK
<1>b. stopPc[s] # "idle" /\ \A t \in Stops : t # s => stopPc[t] = "idle"
  BY <1>a, StopLoopWMoves DEF WorkerInv
<1> USE DEF DownInv, StopMoves
<1>1. CASE StopMark(s)
  BY <1>a, <1>b, <1>1 DEF StopMark, lowerVars, escortVars
<1>2. CASE StopClose(s) \/ StopBranch(s) \/ StopTell(s)
  BY <1>a, <1>b, <1>2 DEF StopClose, StopBranch, StopTell, lowerVars,
     escortVars
<1>3. CASE StopFd(s)
  BY <1>a, <1>b, <1>3 DEF StopFd, ShutdownFd, escortVars
<1>4. CASE StopVpn(s)
  <2>1. ASSUME StopMoves(s, "vpnDown", "vpnWait"), ShutdownEscort(s)
        PROVE  DownInv'
    BY <1>a, <1>b, <1>4, <2>1 DEF StopVpn, ShutdownEscort, CallEscortingDown,
       Panic
  <2>2. ASSUME StopMoves(s, "vpnDown", "rootDown"), ShutdownNextGen
        PROVE  DownInv'
    BY <1>a, <1>b, <1>4, <2>2 DEF StopVpn, ShutdownNextGen, escortVars
  <2>3. ASSUME StopMoves(s, "vpnWait", "rootDown"), EscortingDownReturns(s)
        PROVE  DownInv'
    BY <1>a, <1>b, <1>4, <2>3 DEF StopVpn, EscortingDownReturns
  <2> QED
    BY <1>4, <2>1, <2>2, <2>3 DEF StopVpn
<1>5. CASE StopRoot(s)
  BY <1>a, <1>b, <1>5 DEF StopRoot, CallEscortingDown, EscortingDownReturns
<1> QED
  BY <1>1, <1>2, <1>3, <1>4, <1>5 DEF StopLoopW

LEMMA DownItself ==
  ASSUME PatientInv, ~crashed', NEW s \in Stops, DownStep(s),
         UNCHANGED <<isRunning, stopPc>>
  PROVE  DownInv'
<1>a. /\ DownInv /\ WorkerInv
      /\ downPc \in [Stops -> DownStates]
      /\ downOf \in [Stops -> Escorts]
      /\ up \in [Escorts -> BOOLEAN]
  BY StopsAreCallers DEF PatientInv, Types, SupTypeOK
<1>b. \A t \in Stops : t # s => downPc[t] = "idle"
  <2>1. downPc[s] # "idle"
    BY DEF DownStep, DownCheck, DownKill, DownSend, DownClear
  <2> QED
    BY <1>a, <2>1 DEF DownInv, WorkerInv
<1> USE DEF DownInv
<1>1. CASE DownCheck(s)
  BY <1>a, <1>b, <1>1 DEF DownCheck
<1>2. CASE DownKill(s)
  BY <1>a, <1>b, <1>2 DEF DownKill, Panic
<1>3. CASE DownSend(s)
  BY <1>a, <1>b, <1>3 DEF DownSend
<1>4. CASE DownClear(s)
  BY <1>a, <1>b, <1>4 DEF DownClear
<1> QED
  BY <1>1, <1>2, <1>3, <1>4 DEF DownStep

LEMMA DownInductive ==
  ASSUME AllUsable
  PROVE  PatientInv /\ [Moves]_moveVars => DownInv'
<1> SUFFICES ASSUME PatientInv, [Moves]_moveVars PROVE DownInv'
  OBVIOUS
<1>a. /\ DownInv /\ WorkerInv /\ ReadyInv /\ ~crashed'
      /\ stopPc \in [Stops -> StopStates]
      /\ up \in [Escorts -> BOOLEAN]
      /\ downOf \in [Stops -> Escorts]
      /\ Root \in Escorts /\ Stops = DownCallers
      /\ estr \in Escorts \cup {NoEscort}
  BY NobodyPanics, StopsAreCallers, RootAssumption
  DEF PatientInv, Types, SupTypeOK, VpnFieldsOK, VpnObjects, WorkerInv
<1>0. ASSUME UNCHANGED downInvVars PROVE DownInv'
  BY <1>a, <1>0 DEF DownInv, downInvVars
<1>1. ASSUME NEW p \in Starts, PointLoop(p) PROVE DownInv'
  <2>1. /\ UNCHANGED <<downPc, downOf>>
        /\ \A e \in Escorts : up[e] => up'[e]
    BY <1>a, <1>1 DEF PointLoop, StartLoad, StartNew, StartMark, StartCore,
       StartBranch, StartEscort, StartRaise, EscortingUP, RaiseList, StartGate,
       StartConf, AssignConf, StartVpn, VpnSetup, StartScripts, StartTell,
       lowerVars, escortVars, downVars
  <2>2. UNCHANGED stopPc /\ \A s \in Stops : stopPc[s] = "idle"
    <3>1. startPc[p] # "idle" /\ UNCHANGED stopPc
      BY <1>a, <1>1, PointLoopMoves DEF WorkerInv
    <3> QED
      BY <1>a, <3>1 DEF WorkerInv
  <2> QED
    BY <1>a, <2>1, <2>2 DEF DownInv
<1>2. ASSUME NEW r \in ReadyCallers, Ready(r) PROVE DownInv'
  <2>1. CASE ReadyNewEscort(r)
    <3>1. \A s \in Stops : stopPc[s] = "idle"
      BY <1>a, <2>1 DEF ReadyNewEscort, ReadyMoves, ReadyInv, NobodyReady,
         InSession, WorkerInv
    <3> QED
      BY <1>a, <1>2, <2>1, <3>1 DEF Ready, ReadyNewEscort, NewEscort, DownInv,
         downVars, pointVars
  <2>2. CASE ReadyRaise(r)
    BY <1>a, <1>2, <2>2 DEF Ready, ReadyRaise, EscortingUPV, RaiseList,
       DownInv, downVars, pointVars
  <2>3. CASE ReadySetup(r) \/ ReadySpawn(r) \/ ReadyNextGen(r)
    BY <1>0, <1>2, <2>3 DEF Ready, ReadySetup, ReadySpawn, SpawnEscortRun,
       ReadyNextGen, escortVars, downVars, pointVars, downInvVars
  <2> QED
    BY <1>2, <2>1, <2>2, <2>3 DEF Ready, ReadyStep
<1>3. CASE StopLoop
  BY <1>a, <1>3 DEF StopLoop, StopMoves, DownInv, lowerVars, escortVars
<1>4. ASSUME NEW s \in Stops, Down(s) PROVE DownInv'
  BY <1>a, <1>4, DownItself DEF Down, pointVars
<1>5. ASSUME \/ Client /\ ~StopLoop
             \/ \E r \in ReadyCallers : ClientReady(r)
             \/ \E i \in Interrupts : Restart(i)
             \/ TimerFires
             \/ \E e \in Escorts : Supervisor(e) \/ Closer(e) \/ Child(e)
             \/ UNCHANGED moveVars
      PROVE  UNCHANGED downInvVars
  <2>1. CASE \E e \in Escorts : Supervisor(e) \/ Closer(e) \/ Child(e)
    BY <2>1 DEF Supervisor, RunStep, RunStart, RunAppend, RunWaited, RunCheck,
       RunExhausted, RunSend, Closer, CloserQuits, Child, ChildExit, pointVars,
       downVars, downInvVars
  <2>2. CASE Client /\ ~StopLoop
    BY <2>2 DEF Client, ClientSets, UpgradeToContext, ClientSetsVpn,
       SetVpnSupportSet, OptinNextGenerationTunInterface, RunLoop,
       NetworkInterrupted, IntMoves, lowerVars, escortVars, pointVars,
       downInvVars
  <2>3. CASE ~(Client /\ ~StopLoop)
             /\ ~\E e \in Escorts : Supervisor(e) \/ Closer(e) \/ Child(e)
    BY <1>5, <2>3 DEF ClientReady, VpnSupportReady, Restart, IntRead, IntCas,
       IntClose, IntStart, IntStore, IntMoves, TimerFires, moveVars, lowerVars,
       escortVars, pointVars, downInvVars
  <2> QED
    BY <2>1, <2>2, <2>3
<1> QED
  BY <1>a, <1>0, <1>1, <1>2, <1>3, <1>4, <1>5, DownStop
  DEF Moves, Calls, ClientAnswers, Loop, Stopping, Interrupting, Timer

-----------------------------------------------------------------------------
(* Steps preserve when VpnSupportReady runs.                                 *)

readyInvVars == <<prepared, readyPc, runPc, nextGen, estr, status, up>>

LEMMA ReadyItself ==
  ASSUME PatientInv, NEW r \in ReadyCallers, Ready(r)
  PROVE  ReadyInv'
<1>a. /\ SupTypeOK /\ ReadyInv
      /\ readyPc \in [ReadyCallers -> ReadyStates]
      /\ VpnObjects \subseteq Escorts /\ NoEscort \notin Escorts
      /\ estr \in Escorts \cup {NoEscort}
  BY NoEscortAssumption DEF PatientInv, Types, VpnFieldsOK, VpnObjects
<1>b. /\ readyPc[r] # "idle" /\ InSession /\ ~prepared
      /\ \A q \in ReadyCallers : q # r => readyPc[q] = "idle"
      /\ \A p \in Starts : startPc[p] \in {"idle", "scripts", "tell"}
  <2>1. readyPc[r] # "idle"
    BY DEF Ready, ReadyStep, ReadySetup, ReadyNewEscort, ReadyRaise,
       ReadySpawn, ReadyNextGen, ReadyMoves
  <2> QED
    BY <1>a, <2>1 DEF ReadyInv, NobodyReady
<1>c. UNCHANGED <<client, startPc, prepared, nextGen>>
  BY DEF Ready, ReadyStep, ReadySetup, ReadyNewEscort, ReadyRaise, ReadySpawn,
     ReadyNextGen, ReadyMoves, pointVars, clientVars
<1>d. InSession'
  BY <1>b, <1>c DEF InSession
<1>e. ASSUME NEW x \in ReadyStates, readyPc' = [readyPc EXCEPT ![r] = x],
             x \in {"setup", "new", "raise", "spawn"} => Quiet',
             x = "nextGen" => nextGen,
             x \in {"new", "raise", "spawn"} => ~nextGen,
             x \in {"raise", "spawn"} => estr' # NoEscort /\ status'[estr'],
             x = "spawn" => up'[estr']
      PROVE  ReadyInv'
  BY <1>a, <1>b, <1>c, <1>d, <1>e DEF ReadyInv
<1> USE DEF Ready, ReadyMoves, ReadyStates
<1>1. CASE ReadySetup(r)
  <2>1. Quiet'
    BY <1>a, <1>1 DEF ReadySetup, ReadyInv, Quiet, escortVars
  <2> QED
    BY <1>e, <1>1, <2>1 DEF ReadySetup
<1>2. CASE ReadyNewEscort(r)
  <2>1. PICK e \in Escorts : NewEscort(e) /\ estr' = e
    BY <1>a, <1>2 DEF ReadyNewEscort
  <2>2. Quiet'
    BY <1>a, <1>2, <2>1 DEF ReadyNewEscort, NewEscort, ReadyInv, Quiet,
       SupTypeOK
  <2>3. estr' # NoEscort /\ status'[estr'] /\ ~nextGen
    BY <1>a, <1>2, <2>1 DEF ReadyNewEscort, NewEscort, ReadyInv, SupTypeOK
  <2> QED
    BY <1>e, <1>2, <2>2, <2>3 DEF ReadyNewEscort
<1>3. CASE ReadyRaise(r)
  <2>1. /\ readyPc[r] = "raise" /\ Quiet /\ ~nextGen
        /\ estr \in Escorts /\ status[estr]
    BY <1>a, <1>3 DEF ReadyRaise, ReadyInv
  <2>2. UNCHANGED <<runPc, status, estr>> /\ up'[estr]
    BY <1>a, <1>3, <2>1 DEF ReadyRaise, EscortingUPV, RaiseList, runVars,
       SupTypeOK
  <2>3. Quiet'
    BY <2>1, <2>2 DEF Quiet
  <2> QED
    BY <1>a, <1>e, <1>3, <2>1, <2>2, <2>3 DEF ReadyRaise
<1>4. CASE ReadySpawn(r)
  BY <1>e, <1>4 DEF ReadySpawn
<1>5. CASE ReadyNextGen(r)
  BY <1>e, <1>5 DEF ReadyNextGen
<1> QED
  BY <1>1, <1>2, <1>3, <1>4, <1>5 DEF ReadyStep

LEMMA ReadyStart ==
  ASSUME PatientInv, ~crashed', NEW p \in Starts, PointLoop(p)
  PROVE  ReadyInv'
<1>a. /\ SupTypeOK /\ ReadyInv /\ WorkerInv /\ ~rootList
      /\ startPc \in [Starts -> StartStates]
      /\ \A q \in Starts : q # p => startPc[q] = "idle"
      /\ client = "starting" /\ estr \in Escorts \cup {NoEscort}
  BY PointLoopMoves
  DEF PatientInv, Types, SetupInv, WorkerInv, VpnFieldsOK, VpnObjects
<1>b. InSession'
  BY <1>a DEF PointLoop, StartLoad, StartNew, StartMark, StartCore,
     StartBranch, StartEscort, StartRaise, StartGate, StartConf, StartVpn,
     StartScripts, StartTell, clientVars, InSession
<1>c. /\ UNCHANGED <<readyPc, runPc, nextGen, estr, status>>
      /\ \A e \in Escorts : up[e] => up'[e]
  BY <1>a DEF PointLoop, StartLoad, StartNew, StartMark, StartCore,
     StartBranch, StartEscort, StartRaise, EscortingUP, RaiseList, StartGate,
     StartConf, AssignConf, StartVpn, VpnSetup, StartScripts, StartTell,
     lowerVars, escortVars, vpnVars, runVars, SupTypeOK
<1>1. CASE StartVpn(p)
  <2>1. ~prepared /\ NobodyReady /\ Quiet
    BY <1>a, <1>1 DEF StartVpn, StartMoves, ReadyInv
  <2>2. \A q \in Starts : startPc'[q] \in {"idle", "scripts"}
    BY <1>a, <1>1 DEF StartVpn, StartMoves
  <2>3. NobodyReady' /\ Quiet'
    BY <1>c, <2>1 DEF NobodyReady, Quiet
  <2> QED
    BY <1>b, <2>2, <2>3 DEF ReadyInv, NobodyReady
<1>2. CASE ~StartVpn(p)
  <2>1. UNCHANGED prepared
    BY <1>2 DEF PointLoop, StartLoad, StartNew, StartMark, StartCore,
       StartBranch, StartEscort, StartRaise, StartGate, StartConf, AssignConf,
       StartScripts, StartTell, lowerVars, vpnVars
  <2>2. ASSUME NEW q \in Starts,
               startPc'[q] \notin {"idle", "scripts", "tell"}
        PROVE  startPc[q] \notin {"idle", "scripts", "tell"}
    BY <1>a, <1>2, <2>2 DEF PointLoop, StartLoad, StartNew, StartMark,
       StartCore, StartBranch, StartEscort, StartRaise, StartGate, StartConf,
       StartScripts, StartTell, StartMoves
  <2> QED
    BY <1>a, <1>b, <1>c, <2>1, <2>2 DEF ReadyInv, NobodyReady, Quiet
<1> QED
  BY <1>1, <1>2

LEMMA ReadyClient ==
  ASSUME {"status", "vpn", "settle"} \subseteq Manners, PatientInv, Client
  PROVE  ReadyInv'
<1>a. /\ RunInv /\ ReadyInv /\ WorkerInv
      /\ startPc \in [Starts -> StartStates]
  BY DEF PatientInv, WorkerInv
<1>1. CASE RunLoop
  <2>1. client = "idle"
    BY <1>1 DEF RunLoop, Waits
  <2>2. ~prepared /\ NobodyReady
    BY <1>a, <2>1 DEF ReadyInv, InSession
  <2>3. Quiet
    BY <1>a, <1>1, NoEscortAssumption DEF RunLoop, Waits, RunInv, Quiet
  <2>4. UNCHANGED readyInvVars
    BY <1>1 DEF RunLoop, lowerVars, escortVars, vpnVars, readyInvVars
  <2> QED
    BY <2>2, <2>3, <2>4 DEF ReadyInv, NobodyReady, Quiet, readyInvVars
<1>2. CASE StopLoop
  <2>1. ~prepared /\ NobodyReady /\ UNCHANGED <<startPc, readyInvVars>>
    BY <1>2 DEF StopLoop, Waits, NobodyReady, lowerVars,
       escortVars, vpnVars, readyInvVars
  <2> QED
    BY <1>a, <2>1 DEF ReadyInv, NobodyReady, Quiet, readyInvVars
<1>3. CASE ClientSetsVpn
  <2>1. /\ UNCHANGED <<prepared, readyPc, runPc, estr, status, up, startPc,
                       client>>
        /\ nextGen => nextGen'
        /\ nextGen' # nextGen => client = "idle"
    BY <1>3 DEF ClientSetsVpn, SetVpnSupportSet, Waits,
       OptinNextGenerationTunInterface, escortVars, pointVars,
       clientVars
  <2>2. client = "idle" => NobodyReady
    BY <1>a DEF ReadyInv, InSession
  <2> QED
    BY <1>a, <2>1, <2>2 DEF ReadyInv, NobodyReady, Quiet, InSession
<1>4. CASE \/ UpgradeToContext \/ NetworkInterrupted
           \/ \E c \in Configs : ClientSets(c)
  <2>1. UNCHANGED <<startPc, client, readyInvVars>>
    BY <1>4 DEF UpgradeToContext, NetworkInterrupted, IntMoves, ClientSets,
       clientVars, lowerVars, escortVars, vpnVars, readyInvVars
  <2> QED
    BY <1>a, <2>1 DEF ReadyInv, NobodyReady, Quiet, InSession, readyInvVars
<1> QED
  BY <1>1, <1>2, <1>3, <1>4 DEF Client

LEMMA ReadyInductive ==
  ASSUME {"status", "vpn", "settle"} \subseteq Manners, AllUsable,
         ~ChildMayExit
  PROVE  PatientInv /\ [Moves]_moveVars => ReadyInv'
<1> SUFFICES ASSUME PatientInv, [Moves]_moveVars PROVE ReadyInv'
  OBVIOUS
<1>a. /\ SupTypeOK /\ RunInv /\ DownInv /\ ReadyInv /\ WorkerInv /\ ~crashed'
      /\ readyPc \in [ReadyCallers -> ReadyStates]
      /\ stopPc \in [Stops -> StopStates]
      /\ Stops = DownCallers
  BY NobodyPanics, StopsAreCallers
  DEF PatientInv, Types, VpnFieldsOK, WorkerInv
<1>1. ASSUME NEW r \in ReadyCallers, ClientReady(r) PROVE ReadyInv'
  <2>1. prepared /\ NobodyReady /\ Quiet
    BY <1>a, <1>1 DEF ClientReady, VpnSupportReady, ReadyInv
  <2>2. /\ InSession
        /\ \A p \in Starts : startPc[p] \in {"idle", "scripts", "tell"}
    BY <1>a, <2>1 DEF ReadyInv
  <2>3. /\ ~prepared' /\ UNCHANGED <<startPc, client, runPc>>
        /\ readyPc' = [readyPc EXCEPT ![r] = "setup"]
    BY <1>1 DEF ClientReady, VpnSupportReady, pointVars,
       clientVars, escortVars
  <2>4. \A q \in ReadyCallers : readyPc'[q] = IF q = r THEN "setup" ELSE "idle"
    BY <1>a, <2>1, <2>3 DEF NobodyReady
  <2>5. InSession' /\ Quiet'
    BY <2>1, <2>2, <2>3 DEF InSession, Quiet
  <2> QED
    BY <2>2, <2>3, <2>4, <2>5 DEF ReadyInv
<1>2. ASSUME NEW s \in Stops, StopLoopW(s) PROVE ReadyInv'
  <2>1. client = "stopping"
    BY <1>a, <1>2, StopLoopWMoves DEF WorkerInv
  <2>2. ~prepared /\ NobodyReady
    BY <1>a, <2>1 DEF ReadyInv, InSession
  <2>3. UNCHANGED <<prepared, readyPc, startPc>>
    BY <1>2 DEF StopLoopW, StopMark, StopClose, StopBranch, StopFd,
       ShutdownFd, StopVpn, ShutdownEscort, ShutdownNextGen, StopRoot,
       StopTell, StopFrame, lowerVars, vpnVars
  <2>4. \A p \in Starts : startPc[p] = "idle"
    BY <1>a, <2>1 DEF WorkerInv
  <2> QED
    BY <2>2, <2>3, <2>4 DEF ReadyInv, NobodyReady
<1>3. ASSUME NEW s \in Stops, Down(s) PROVE ReadyInv'
  <2>1. client = "stopping"
    <3>1. downPc[s] # "idle"
      BY <1>3 DEF Down, DownStep, DownCheck, DownKill, DownSend, DownClear
    <3> QED
      BY <1>a, <3>1 DEF DownInv, WorkerInv
  <2>2. ~prepared /\ NobodyReady
    BY <1>a, <2>1 DEF ReadyInv, InSession
  <2>3. UNCHANGED <<prepared, readyPc, startPc>>
    BY <1>3 DEF Down, vpnVars, pointVars
  <2>4. \A p \in Starts : startPc[p] = "idle"
    BY <1>a, <2>1 DEF WorkerInv
  <2> QED
    BY <2>2, <2>3, <2>4 DEF ReadyInv, NobodyReady
<1>4. ASSUME NEW e \in Escorts, Supervisor(e) \/ Closer(e) PROVE ReadyInv'
  <2>1. UNCHANGED <<prepared, readyPc, startPc, client, nextGen, estr, status,
                    up>>
    BY <1>4 DEF Supervisor, RunStep, RunStart, RunAppend, RunWaited, RunCheck,
       RunExhausted, RunSend, Closer, CloserQuits, vpnVars, pointVars,
       clientVars
  <2>2. Quiet => Quiet'
    BY <1>a, <1>4 DEF Supervisor, RunStep, RunStart, RunAppend, RunWaited,
       RunCheck, RunExhausted, RunSend, Closer, CloserQuits, runVars, Quiet
  <2> QED
    BY <1>a, <2>1, <2>2 DEF ReadyInv, NobodyReady, InSession
<1>5. ASSUME \/ \E i \in Interrupts : Restart(i)
             \/ TimerFires
             \/ UNCHANGED moveVars
      PROVE  ReadyInv'
  <2>1. UNCHANGED <<startPc, client, readyInvVars>>
    BY <1>5 DEF Restart, IntRead, IntCas, IntClose, IntStart, IntStore,
       IntMoves, TimerFires, moveVars, pointVars, clientVars,
       lowerVars, escortVars, vpnVars, readyInvVars
  <2> QED
    BY <1>a, <2>1 DEF ReadyInv, NobodyReady, Quiet, InSession, readyInvVars
<1> QED
  BY <1>a, <1>1, <1>2, <1>3, <1>4, <1>5, ReadyItself, ReadyStart, ReadyClient
  DEF Moves, Calls, ClientAnswers, Loop, Stopping, Interrupting, Timer, Child

-----------------------------------------------------------------------------
(* Steps preserve that VpnShutdown has something to shut down.               *)

answerVars == <<prepared, readyPc, nextGen, lowerup, estr, confng, vpnConf>>

LEMMA AnswerReady ==
  ASSUME PatientInv, NEW r \in ReadyCallers, ClientReady(r) \/ Ready(r)
  PROVE  AnswerInv'
<1>a. /\ AnswerInv /\ ReadyInv
      /\ readyPc \in [ReadyCallers -> ReadyStates]
      /\ VpnObjects \subseteq Escorts /\ NoEscort \notin Escorts
  BY NoEscortAssumption DEF PatientInv, Types, VpnFieldsOK, VpnObjects
<1>b. UNCHANGED <<startPc, stopPc, client, confng, vpnConf, nextGen>>
  BY DEF ClientReady, VpnSupportReady, Ready, ReadyStep, ReadySetup,
     ReadyNewEscort, ReadyRaise, ReadySpawn, ReadyNextGen, ReadyMoves,
     pointVars, clientVars, confVars
<1>c. Equipped => Equipped'
  BY <1>a, <1>b DEF ClientReady, VpnSupportReady, Ready, ReadyStep,
     ReadySetup, ReadyNewEscort, ReadyRaise, ReadySpawn, ReadyNextGen, Equipped
<1>d. Answered'
  <2> USE DEF ReadyMoves, Answered, NobodyReady
  <2>1. CASE ClientReady(r)
    BY <1>a, <2>1 DEF ClientReady, VpnSupportReady
  <2>2. CASE ReadySetup(r) \/ ReadyNewEscort(r) \/ ReadyRaise(r)
    BY <1>a, <2>2 DEF ReadySetup, ReadyNewEscort, ReadyRaise
  <2>3. CASE ReadySpawn(r)
    BY <1>a, <1>b, <2>3 DEF ReadySpawn, ReadyInv, Equipped
  <2>4. CASE ReadyNextGen(r)
    BY <1>a, <1>b, <2>4 DEF ReadyNextGen, ReadyInv, Equipped
  <2> QED
    BY <2>1, <2>2, <2>3, <2>4 DEF Ready, ReadyStep
<1> QED
  BY <1>a, <1>b, <1>c, <1>d DEF AnswerInv, Using

LEMMA AnswerStart ==
  ASSUME PatientInv, ~crashed', NEW p \in Starts, PointLoop(p)
  PROVE  AnswerInv'
<1>a. /\ AnswerInv /\ WorkerInv
      /\ startPc \in [Starts -> StartStates]
      /\ \A q \in Starts : q # p => startPc[q] = "idle"
      /\ \A s \in Stops : stopPc[s] = "idle"
      /\ client = "starting" /\ UNCHANGED stopPc
  BY PointLoopMoves DEF PatientInv, WorkerInv
<1> USE DEF StartMoves
<1>1. CASE StartBranch(p)
  <2>1. \A q \in Starts :
            /\ startPc'[q] \in {"idle", "tell", "escort"}
            /\ startPc'[q] = "tell" => confng' = NoConf
    BY <1>a, <1>1 DEF StartBranch, confVars
  <2>2. client' = "starting"
    BY <1>a, <1>1 DEF StartBranch, clientVars
  <2> QED
    BY <1>a, <2>1, <2>2 DEF AnswerInv, Using
<1>2. CASE StartVpn(p)
  <2>1. \A q \in Starts : startPc'[q] \in {"idle", "scripts"}
    BY <1>a, <1>2 DEF StartVpn
  <2>2. client' = "starting"
    BY <1>a, <1>2 DEF StartVpn, clientVars
  <2>3. vpnConf' = "on" => prepared'
    BY <1>a, <1>2 DEF StartVpn, VpnSetup, Panic
  <2> QED
    BY <1>a, <2>1, <2>2, <2>3 DEF AnswerInv, Answered
<1>3. CASE StartScripts(p)
  <2>1. startPc[p] = "scripts" /\ UNCHANGED <<answerVars, client>>
    BY <1>3 DEF StartScripts, vpnVars, clientVars, answerVars
  <2>2. \A q \in Starts : startPc'[q] \in {"idle", "tell"}
    BY <1>a, <1>3 DEF StartScripts, Panic
  <2> QED
    BY <1>a, <2>1, <2>2 DEF AnswerInv, Answered, NobodyReady, Equipped, Using,
       answerVars
<1>4. CASE StartTell(p)
  <2>1. startPc[p] = "tell" /\ UNCHANGED answerVars
    BY <1>4 DEF StartTell, lowerVars, vpnVars, confVars, answerVars
  <2>2. \A q \in Starts : startPc'[q] = "idle"
    BY <1>a, <1>4 DEF StartTell
  <2> QED
    BY <1>a, <2>1, <2>2 DEF AnswerInv, Answered, NobodyReady, Equipped, Using,
       answerVars
<1>5. CASE \/ StartLoad(p) \/ StartNew(p) \/ StartMark(p) \/ StartCore(p)
           \/ StartEscort(p) \/ StartRaise(p) \/ StartGate(p) \/ StartConf(p)
  <2>1. client' = "starting"
    BY <1>a, <1>5 DEF StartLoad, StartNew, StartMark, StartCore, StartEscort,
       StartRaise, StartGate, StartConf, clientVars
  <2>2. \A q \in Starts : startPc'[q] \notin {"scripts", "tell"}
    BY <1>a, <1>5 DEF StartLoad, StartNew, StartMark, StartCore, StartEscort,
       StartRaise, StartGate, StartConf, Panic
  <2> QED
    BY <1>a, <2>1, <2>2 DEF AnswerInv
<1> QED
  BY <1>1, <1>2, <1>3, <1>4, <1>5 DEF PointLoop

LEMMA AnswerStop ==
  ASSUME PatientInv, ~crashed', NEW s \in Stops, StopLoopW(s)
  PROVE  AnswerInv'
<1>a. /\ AnswerInv /\ WorkerInv
      /\ stopPc \in [Stops -> StopStates]
      /\ \A t \in Stops : t # s => stopPc[t] = "idle"
      /\ \A p \in Starts : startPc[p] = "idle"
      /\ client = "stopping" /\ UNCHANGED startPc
  BY StopLoopWMoves DEF PatientInv, WorkerInv
<1>b. client' # "serving"
  BY <1>a DEF StopLoopW, StopMark, StopClose, StopBranch, StopFd, StopVpn,
     StopRoot, StopTell, clientVars
<1> USE DEF StopMoves
<1>1. CASE StopMark(s) \/ StopClose(s) \/ StopBranch(s) \/ StopFd(s)
  <2>1. UNCHANGED <<nextGen, lowerup, estr, confng, vpnConf>>
    BY <1>1 DEF StopMark, StopClose, StopBranch, StopFd, ShutdownFd,
       StopFrame, lowerVars, vpnVars, confVars
  <2>2. stopPc'[s] \in {"close", "branch", "fd", "vpnDown"} /\ Using =>
            Equipped
    BY <1>a, <1>1 DEF StopMark, StopClose, StopBranch, StopFd, AnswerInv,
       Using, Panic
  <2>3. /\ stopPc'[s] = "fd" => confng # NoConf
        /\ stopPc'[s] = "vpnDown" => Equipped
        /\ stopPc'[s] # "mark"
    BY <1>a, <1>1 DEF StopMark, StopClose, StopBranch, StopFd, AnswerInv
  <2>4. \A t \in Stops : t # s => stopPc'[t] = "idle"
    BY <1>a, <1>1 DEF StopMark, StopClose, StopBranch, StopFd
  <2> QED
    BY <1>a, <1>b, <2>1, <2>2, <2>3, <2>4 DEF AnswerInv, Using, Equipped
<1>2. CASE StopVpn(s) \/ StopRoot(s) \/ StopTell(s)
  <2>1. \A t \in Stops :
            stopPc'[t] \in {"idle", "vpnWait", "rootDown", "rootWait", "tell"}
    BY <1>a, <1>2 DEF StopVpn, StopRoot, StopTell
  <2> QED
    BY <1>a, <1>b, <2>1 DEF AnswerInv
<1> QED
  BY <1>1, <1>2 DEF StopLoopW

LEMMA AnswerClient ==
  ASSUME {"status", "vpn"} \subseteq Manners, PatientInv, Client
  PROVE  AnswerInv'
<1>a. /\ AnswerInv /\ WorkerInv
      /\ startPc \in [Starts -> StartStates]
      /\ stopPc \in [Stops -> StopStates]
  BY DEF PatientInv, WorkerInv
<1>b. client = "idle" => /\ \A p \in Starts : startPc[p] = "idle"
                         /\ \A s \in Stops : stopPc[s] = "idle"
  BY <1>a DEF WorkerInv
<1>1. CASE RunLoop
  <2>1. client = "idle" /\ client' = "starting" /\ UNCHANGED stopPc
    BY <1>1 DEF RunLoop, Waits, Remembers
  <2>2. \A p \in Starts : startPc'[p] \in {"idle", "load"}
    BY <1>a, <1>b, <1>1, <2>1 DEF RunLoop, StartMoves
  <2> QED
    BY <1>b, <2>1, <2>2 DEF AnswerInv
<1>2. CASE StopLoop
  <2>1. client = "serving" /\ ~prepared /\ NobodyReady
    BY <1>2 DEF StopLoop, Waits, NobodyReady
  <2>2. client' = "stopping" /\ UNCHANGED <<startPc, answerVars>>
    BY <1>2 DEF StopLoop, Remembers, lowerVars, vpnVars, confVars,
       answerVars
  <2>3. /\ \A p \in Starts : startPc[p] = "idle"
        /\ \A s \in Stops : stopPc[s] = "idle"
    BY <1>a, <2>1 DEF WorkerInv
  <2>4. \A s \in Stops : stopPc'[s] \in {"idle", "mark"}
    BY <1>a, <1>2, <2>3 DEF StopLoop, StopMoves
  <2>5. Using => Equipped
    BY <1>a, <2>1 DEF AnswerInv, Answered
  <2> QED
    BY <2>2, <2>3, <2>4, <2>5 DEF AnswerInv, Using, Equipped, answerVars
<1>3. CASE ClientSetsVpn
  <2>1. /\ UNCHANGED <<prepared, readyPc, lowerup, estr, confng, vpnConf,
                       startPc, stopPc, client>>
        /\ nextGen' # nextGen => client = "idle"
    BY <1>3 DEF ClientSetsVpn, SetVpnSupportSet, Waits,
       OptinNextGenerationTunInterface, pointVars, confVars,
       clientVars
  <2> QED
    BY <1>a, <1>b, <2>1 DEF AnswerInv, Answered, NobodyReady, Equipped, Using
<1>4. CASE \/ UpgradeToContext \/ NetworkInterrupted
           \/ \E c \in Configs : ClientSets(c)
  <2>1. UNCHANGED <<startPc, stopPc, client, answerVars>>
    BY <1>4 DEF UpgradeToContext, NetworkInterrupted, IntMoves, ClientSets,
       clientVars, lowerVars, vpnVars, confVars, answerVars
  <2> QED
    BY <1>a, <2>1 DEF AnswerInv, Answered, NobodyReady, Equipped, Using,
       answerVars
<1> QED
  BY <1>1, <1>2, <1>3, <1>4 DEF Client

LEMMA AnswerInductive ==
  ASSUME {"status", "vpn"} \subseteq Manners, AllUsable
  PROVE  PatientInv /\ [Moves]_moveVars => AnswerInv'
<1> SUFFICES ASSUME PatientInv, [Moves]_moveVars PROVE AnswerInv'
  OBVIOUS
<1>a. AnswerInv /\ ~crashed'
  BY NobodyPanics DEF PatientInv
<1>1. ASSUME \/ \E i \in Interrupts : Restart(i)
             \/ TimerFires
             \/ \E s \in Stops : Down(s)
             \/ \E e \in Escorts : Supervisor(e) \/ Closer(e) \/ Child(e)
             \/ UNCHANGED moveVars
      PROVE  AnswerInv'
  <2>1. UNCHANGED <<startPc, stopPc, client, answerVars>>
    BY <1>1 DEF Restart, IntRead, IntCas, IntClose, IntStart, IntStore,
       IntMoves, TimerFires, Down, Supervisor, Closer, Child, moveVars,
       pointVars, clientVars, lowerVars, vpnVars, confVars,
       answerVars
  <2> QED
    BY <1>a, <2>1 DEF AnswerInv, Answered, NobodyReady, Equipped, Using,
       answerVars
<1> QED
  BY <1>a, <1>1, AnswerReady, AnswerStart, AnswerStop, AnswerClient
  DEF Moves, Calls, ClientAnswers, Loop, Stopping, Interrupting, Timer

-----------------------------------------------------------------------------
(* Steps preserve that the process is started on an open tun descriptor.     *)

LEMMA FdReady ==
  ASSUME PatientInv, NEW r \in ReadyCallers, ClientReady(r) \/ Ready(r)
  PROVE  FdInv'
<1>a. /\ FdInv /\ runPc \in [Escorts -> RunStates]
      /\ readyPc \in [ReadyCallers -> ReadyStates]
  BY DEF PatientInv, Types, VpnFieldsOK, SupTypeOK
<1> USE DEF FdInv, ReadyMoves
<1>1. CASE ClientReady(r)
  BY <1>a, <1>1 DEF ClientReady, VpnSupportReady, escortVars
<1>2. CASE ReadySetup(r)
  BY <1>2 DEF ReadySetup
<1>3. CASE ReadyNewEscort(r)
  BY <1>a, <1>3 DEF ReadyNewEscort, NewEscort, VpnObjects
<1>4. CASE ReadyRaise(r)
  BY <1>a, <1>4 DEF ReadyRaise, EscortingUPV, runVars
<1>5. CASE ReadySpawn(r)
  BY <1>a, <1>5 DEF ReadySpawn
<1>6. CASE ReadyNextGen(r)
  BY <1>a, <1>6 DEF ReadyNextGen, escortVars
<1> QED
  BY <1>1, <1>2, <1>3, <1>4, <1>5, <1>6 DEF Ready, ReadyStep

LEMMA FdInductive ==
  PatientInv /\ [Moves]_moveVars => FdInv'
<1> SUFFICES ASSUME PatientInv, [Moves]_moveVars PROVE FdInv'
  OBVIOUS
<1>a. /\ FdInv /\ RunInv /\ ReadyInv /\ WorkerInv /\ ~rootList
      /\ SupTypeOK /\ VpnFieldsOK
  BY DEF PatientInv, Types, SetupInv
<1>0. ASSUME UNCHANGED <<readyPc, runPc, fd>> PROVE FdInv'
  BY <1>a, <1>0 DEF FdInv
<1>1. ASSUME NEW p \in Starts, PointLoop(p)
      PROVE  UNCHANGED <<readyPc, runPc, fd>>
  BY <1>a, <1>1 DEF PointLoop, StartLoad, StartNew, StartMark, StartCore,
     StartBranch, StartEscort, StartRaise, EscortingUP, StartGate, StartConf,
     AssignConf, StartVpn, VpnSetup, StartScripts, StartTell, lowerVars,
     escortVars, vpnVars, runVars
<1>2. ASSUME NEW s \in Stops, StopLoopW(s) PROVE FdInv'
  <2>1. client = "stopping"
    BY <1>a, <1>2, StopLoopWMoves DEF WorkerInv
  <2>2. /\ \A r \in ReadyCallers : readyPc[r] = "idle"
        /\ \A e \in Escorts : runPc[e] # "start"
    BY <1>a, <2>1 DEF ReadyInv, NobodyReady, RunInv, InSession
  <2>3. UNCHANGED <<readyPc, runPc>>
    BY <1>2 DEF StopLoopW, StopMark, StopClose, StopBranch, StopFd,
       ShutdownFd, StopVpn, ShutdownEscort, ShutdownNextGen, StopRoot,
       CallEscortingDown, EscortingDownReturns, StopTell, lowerVars,
       escortVars, vpnVars, runVars
  <2> QED
    BY <2>2, <2>3 DEF FdInv
<1>3. ASSUME NEW e \in Escorts, RunStep(e, StartFails(e)), UNCHANGED vpnVars
      PROVE  FdInv'
  <2>1. \A x \in Escorts : runPc'[x] = "start" => runPc[x] = "start"
    BY <1>a, <1>3 DEF RunStep, RunStart, RunAppend, RunWaited, RunCheck,
       RunExhausted, RunSend, runVars, RunInv, SupTypeOK
  <2> QED
    BY <1>a, <1>3, <2>1 DEF FdInv, vpnVars
<1>4. ASSUME \/ Client
             \/ \E i \in Interrupts : Restart(i)
             \/ TimerFires
             \/ \E s \in Stops : Down(s)
             \/ \E e \in Escorts : Closer(e) \/ Child(e)
             \/ UNCHANGED moveVars
      PROVE  UNCHANGED <<readyPc, runPc, fd>>
  BY <1>4 DEF Client, ClientSets, UpgradeToContext, ClientSetsVpn,
     SetVpnSupportSet, OptinNextGenerationTunInterface, RunLoop, StopLoop,
     NetworkInterrupted, Restart, IntRead, IntCas, IntClose, IntStart,
     IntStore, IntMoves, TimerFires, Down, DownStep, DownCheck, DownKill,
     DownSend, DownClear, Closer, CloserQuits, Child, ChildExit, moveVars,
     lowerVars, escortVars, vpnVars, runVars
<1> QED
  BY <1>0, <1>1, <1>2, <1>3, <1>4, FdReady
  DEF Moves, Calls, ClientAnswers, Loop, Stopping, Interrupting, Timer,
      Supervisor

-----------------------------------------------------------------------------
(* The theorem.                                                              *)

LEMMA PatientStep ==
  ASSUME {"status", "context", "vpn", "settle"} \subseteq Manners, AllUsable,
         ~CoreMayFail, ~StartMayFail, ~ChildMayExit
  PROVE  PatientInv /\ [Moves]_moveVars => PatientInv'
<1>1. PatientInv /\ [Moves]_moveVars =>
          ~crashed' /\ Types' /\ WorkerInv' /\ SetupInv' /\ CoreThere'
  BY NobodyPanics, TypesStep, WorkerInductive, SetupInductive,
     CoreThereInductive DEF PatientInv
<1>2. PatientInv /\ [Moves]_moveVars =>
          RunInv' /\ DownInv' /\ ReadyInv' /\ AnswerInv' /\ FdInv'
  BY RunInductive, DownInductive, ReadyInductive, AnswerInductive, FdInductive
<1>3. PatientInv /\ [Moves]_moveVars => MarkInv'
  BY MarkInductive DEF PatientInv
<1> QED
  BY <1>1, <1>2, <1>3 DEF PatientInv

\* The program does not panic under a client that waits for every callback,
\* upgrades its context, answers each Prepare and leaves the supervisor its
\* time, when its configurations are usable, the core starts and the process
\* neither fails to start nor ends by itself, until a finalizer closes the tun
\* descriptor; whatever the network does. So nothing is dereferenced before it
\* is assigned or after it is cleared (interact.go:189, 205, 247-260;
\* escort.go:37, 104; vpnservice_interact.go:51, 69, 74).
THEOREM NeverPanics ==
  ASSUME {"status", "context", "vpn", "settle"} \subseteq Manners, AllUsable,
         ~CoreMayFail, ~StartMayFail, ~ChildMayExit
  PROVE  Spec => []NoCrash
<1> DEFINE Inv == lost \/ PatientInv
<1>1. Init => Inv
  <2> SUFFICES ASSUME Init PROVE PatientInv
    OBVIOUS
  <2>1. Types
    BY InitTypes
  <2>2. WorkerInv /\ MarkInv
    BY DEF Init, WorkerInv, StartStates, StopStates, MarkInv, Between
  <2>3. SetupInv /\ CoreThere
    BY DEF Init, VpnInit, SetupInv, CoreThere, Assigned
  <2>4. RunInv /\ DownInv /\ FdInv
    BY StopsAreCallers DEF Init, VpnInit, EscortInit, RunInv, DownInv, FdInv
  <2>5. ReadyInv /\ AnswerInv
    BY DEF Init, VpnInit, EscortInit, ReadyInv, NobodyReady, Quiet, AnswerInv
  <2> QED
    BY <2>1, <2>2, <2>3, <2>4, <2>5 DEF Init, PatientInv
<1>2. Inv /\ [Next]_allVars => Inv'
  BY PatientStep, Harmless
<1>3. Inv => NoCrash
  BY DEF PatientInv, NoCrash
<1> QED
  BY <1>1, <1>2, <1>3, PTL DEF Spec
=============================================================================
