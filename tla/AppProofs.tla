------------------------------- MODULE AppProofs -------------------------------
(* Which steps of App touch which component, type correctness, and the       *)
(* scanner, for all values of the constants.                                 *)
EXTENDS App, TLAPS

-----------------------------------------------------------------------------
(* The steps of a component; all others leave it alone. *)

LEMMA ContextSteps ==
  ASSUME TypeOK, [Next]_vars
  PROVE  \/ UNCHANGED contextVars
         \/ \E c \in Contexts, p \in Paths : AssignConfigureFile(c, p)
         \/ \E c \in Contexts, d \in Dirs : SetPackageName(c, d)
         \/ PropTruncate \/ PropWrite \/ PropFail
         \/ \E l \in Lookers, c \in Contexts :
              LookTest(l, c) /\ (l \in Loaders => c = Service)
         \/ \E l \in Lookers : LookStep(l) \/ LookReturn(l)
         \/ Kill
<1> USE DEF contextVars, contextMemory
<1>1. CASE Pick \/ SaveProp
  BY <1>1, PickerAssumption, ThreadsAssumption DEF Pick, SaveProp
<1>2. CASE Scan
  <2>1. CASE FinishLooks
    BY <2>1, ScannerAssumption, ThreadsAssumption
    DEF FinishLooks, TypeOK, ScanTypeOK
  <2>2. CASE FinishLegacy \/ FinishGroup
    BY <2>2, ScannerAssumption DEF FinishLegacy, FinishGroup
  <2>3. CASE ~(FinishLegacy \/ FinishGroup \/ FinishLooks)
    BY <1>2, <2>3, ScannerAssumption
    DEF Scan, ScanStep, ScanCall, ScanQR, ScanLegacy, ScanForeign,
        ScanMalformed, ScanPiece, Discard, FinishPanics, FinishFails
  <2> QED
    BY <2>1, <2>2, <2>3
<1>3. ASSUME NEW l \in Loaders, LoadLook(l) \/ LoadGuess(l) \/ LoadRead(l)
      PROVE  LookTest(l, Service) \/ LookStep(l) \/ LookReturn(l)
  BY <1>3 DEF LoadLook, LoadGuess, LoadRead
<1>4. ASSUME NEW l \in Loaders, RunLoop(l) \/ Load(l) \/ Loaded(l)
      PROVE  \/ UNCHANGED contextVars
             \/ LookTest(l, Service) \/ LookStep(l) \/ LookReturn(l)
  BY <1>3, <1>4 DEF RunLoop, Load, Loaded, LoadStep, LoadBegin, LoadParse,
      LoadConvert, LoadDecode, LoadExport
<1>5. CASE Session \/ Close \/ \E d \in Dials : Connect(d)
  BY <1>5 DEF Session, Close, Connect
<1>6. CASE UNCHANGED vars
  BY <1>6 DEF vars
<1> QED
  BY <1>1, <1>2, <1>4, <1>5, <1>6, ServiceAssumption, LoadersAssumption DEF Next

LEMMA ExportSteps ==
  [Next]_vars =>
      \/ UNCHANGED exportVars
      \/ \E l \in Loaders : CheckAndExport(l) \/ ExportStep(l)
      \/ FirstRunForgets /\ (Upgrade \/ UNCHANGED exportState)
<1> USE DEF exportVars
<1>1. CASE Pick \/ SaveProp \/ Scan
  BY <1>1 DEF Pick, SaveProp, Scan
<1>2. ASSUME NEW l \in Loaders, RunLoop(l) \/ Loaded(l)
      PROVE  UNCHANGED exportVars
  BY <1>2 DEF RunLoop, Loaded, LoadBegin
<1>3. ASSUME NEW l \in Loaders, Load(l)
      PROVE  UNCHANGED exportVars \/ CheckAndExport(l) \/ ExportStep(l)
  BY <1>3 DEF Load, LoadStep, LoadLook, LoadGuess, LoadRead, LoadParse,
      LoadConvert, LoadDecode, LoadExport
<1>4. CASE Session \/ Close \/ \E d \in Dials : Connect(d)
  BY <1>4 DEF Session, Close, Connect
<1>5. CASE Kill
  BY <1>5 DEF Kill
<1>6. CASE UNCHANGED vars
  BY <1>6 DEF vars
<1> QED
  BY <1>1, <1>2, <1>3, <1>4, <1>5, <1>6 DEF Next

LEMMA LoadSteps ==
  [Next]_vars =>
      \/ UNCHANGED loadVars
      \/ \E l \in Loaders : LoadBegin(l) \/ LoadStep(l) \/ Loaded(l)
      \/ Kill
<1> USE DEF loadVars
<1>1. CASE Pick \/ SaveProp \/ Scan
  BY <1>1 DEF Pick, SaveProp, Scan
<1>2. ASSUME NEW l \in Loaders, RunLoop(l) \/ Load(l)
      PROVE  LoadBegin(l) \/ LoadStep(l)
  BY <1>2 DEF RunLoop, Load
<1>3. CASE Session \/ Close \/ \E d \in Dials : Connect(d)
  BY <1>3 DEF Session, Close, Connect
<1>4. CASE UNCHANGED vars
  BY <1>4 DEF vars
<1> QED
  BY <1>1, <1>2, <1>3, <1>4 DEF Next

LEMMA ScanSteps ==
  [Next]_vars => UNCHANGED scanVars \/ ScanStep \/ ScanForgets
<1> USE DEF scanVars
<1>1. CASE Pick \/ SaveProp \/ Scan
  BY <1>1 DEF Pick, SaveProp, Scan
<1>2. ASSUME NEW l \in Loaders, RunLoop(l) \/ Load(l) \/ Loaded(l)
      PROVE  UNCHANGED scanVars
  BY <1>2 DEF RunLoop, Load, Loaded
<1>3. CASE Session \/ Close \/ \E d \in Dials : Connect(d)
  BY <1>3 DEF Session, Close, Connect
<1>4. CASE Kill
  BY <1>4 DEF Kill
<1>5. CASE UNCHANGED vars
  BY <1>5 DEF vars
<1> QED
  BY <1>1, <1>2, <1>3, <1>4, <1>5 DEF Next

LEMMA DialerSteps ==
  [Next]_vars =>
      \/ UNCHANGED dialVars
      \/ SessionBegin \/ SessionPlain \/ SetV2RayDialer \/ SessionEnd
      \/ SessionStep
      \/ \E domains \in SUBSET Domains : VpnSetup(domains)
      \/ \E d \in Dials : DialStep(d) \/ \E e \in Entries : Dial(d, e)
      \/ CloseDescriptor
      \/ DialerForgets
<1> USE DEF dialVars
<1>1. CASE Pick \/ SaveProp \/ Scan
  BY <1>1 DEF Pick, SaveProp, Scan
<1>2. ASSUME NEW l \in Loaders, RunLoop(l) \/ Load(l) \/ Loaded(l)
      PROVE  UNCHANGED dialVars \/ SessionBegin
  BY <1>2 DEF RunLoop, Load, Loaded
<1>3. CASE Session
  BY <1>3 DEF Session, SetupVpn
<1>4. CASE Close \/ \E d \in Dials : Connect(d)
  BY <1>4 DEF Close, Connect
<1>5. CASE Kill
  BY <1>5 DEF Kill
<1>6. CASE UNCHANGED vars
  BY <1>6 DEF vars
<1> QED
  BY <1>1, <1>2, <1>3, <1>4, <1>5, <1>6 DEF Next

-----------------------------------------------------------------------------
(* Type correctness, component by component. *)

\* A thread inside GetConfigureFile has a receiver, pointloop the service's.
Looking ==
    \A l \in Lookers : lookPc[l] # "idle" =>
        /\ lookFor[l] \in Contexts
        /\ l \in Loaders => lookFor[l] = Service

LEMMA ContextTyped ==
  ASSUME TypeOK, Looking, [Next]_vars
  PROVE  ContextTypeOK' /\ Looking'
<1> USE NoPathAssumption, DefaultDirAssumption, NoAssignAssumption
    DEF TypeOK, ContextTypeOK, Assignments, Looking, lookVars, assignHistory
<1>1. CASE UNCHANGED contextVars
  BY <1>1 DEF contextVars, contextMemory
<1>2. ASSUME NEW c \in Contexts, NEW p \in Paths, AssignConfigureFile(c, p)
      PROVE  ContextTypeOK' /\ Looking'
  BY <1>2 DEF AssignConfigureFile
<1>3. ASSUME NEW c \in Contexts, NEW d \in Dirs, SetPackageName(c, d)
      PROVE  ContextTypeOK' /\ Looking'
  BY <1>3 DEF SetPackageName
<1>4. CASE PropTruncate
  BY <1>4 DEF PropTruncate
<1>5. CASE PropWrite
  BY <1>5 DEF PropWrite
<1>6. CASE PropFail
  BY <1>6 DEF PropFail
<1>7. ASSUME NEW l \in Lookers, NEW c \in Contexts, LookTest(l, c),
             l \in Loaders => c = Service
      PROVE  ContextTypeOK' /\ Looking'
  BY <1>7 DEF LookTest, LookMoves, LookStates
<1>8. ASSUME NEW l \in Lookers, LookStep(l) \/ LookReturn(l)
      PROVE  ContextTypeOK' /\ Looking'
  <2>1. CASE LookRead(l)
    BY <2>1 DEF LookRead, LookMoves, LookStates
  <2>2. CASE LookStore(l)
    BY <2>2 DEF LookStore, LookMoves, LookStates
  <2>3. CASE LookReturn(l)
    BY <2>3 DEF LookReturn, LookMoves, LookStates
  <2> QED
    BY <1>8, <2>1, <2>2, <2>3 DEF LookStep
<1>9. CASE Kill
  BY <1>9 DEF Kill, ContextForgets, LookStates
<1> QED
  BY <1>1, <1>2, <1>3, <1>4, <1>5, <1>6, <1>7, <1>8, <1>9, ContextSteps

LEMMA ExportTyped ==
  ASSUME TypeOK, [Next]_vars
  PROVE  FirstRunTypeOK'
<1>a. FirstRunTypeOK
  BY DEF TypeOK
<1>b. Torn \in AssetStates /\ version \in AssetStates
  BY <1>a, MaxVersionAssumption DEF FirstRunTypeOK, AssetStates, Torn, Versions
<1> USE <1>a, <1>b DEF FirstRunTypeOK, ExportStates, exportDisk, exportState
<1>1. CASE UNCHANGED exportVars
  BY <1>1 DEF exportVars, exportMemory
<1>2. ASSUME NEW l \in Loaders, CheckAndExport(l) \/ ExportStep(l)
      PROVE  FirstRunTypeOK'
  <2> USE DEF ExportMoves
  <2>1. CASE CheckAndExport(l)
    BY <2>1 DEF CheckAndExport
  <2>2. CASE ExportCheck(l)
    BY <2>2 DEF ExportCheck
  <2>3. ASSUME NEW a \in Assets, RestoreOpen(l, a) \/ RestoreFail(l, a)
        PROVE  FirstRunTypeOK'
    BY <2>3 DEF RestoreOpen, RestoreFail
  <2>4. CASE RestoreWrite(l)
    BY <2>4 DEF RestoreWrite
  <2>5. CASE ExportLink(l)
    BY <2>5 DEF ExportLink
  <2>6. CASE ExportMark(l)
    BY <2>6 DEF ExportMark
  <2> QED
    BY <1>2, <2>1, <2>2, <2>3, <2>4, <2>5, <2>6 DEF ExportStep
<1>3. CASE FirstRunForgets /\ (Upgrade \/ UNCHANGED exportState)
  <2>1. version' \in Versions
    BY <1>3, MaxVersionAssumption DEF Upgrade, Versions
  <2> QED
    BY <1>3, <2>1 DEF FirstRunForgets, Upgrade
<1> QED
  BY <1>1, <1>2, <1>3, ExportSteps

\* What Parse leaves in v.conf is a message.
LEMMA ParsedTyped ==
  ASSUME NEW f \in FileRecords, NEW p \in Paths, NEW m \in Parsed(f)
  PROVE  [path |-> p, filled |-> m.filled, part |-> m.part,
          rendered |-> m.rendered] \in Messages
<1>1. PICK q \in SUBSET InPart(f) :
        m = [filled |-> Filled(f), part |-> q, rendered |-> ~ParseFails(f)]
  BY Zenon DEF Parsed
<1>2. Reached(f) \subseteq Sections
  BY DEF Reached, Sections
<1>3. Filled(f) \in SUBSET Sections /\ q \in SUBSET Sections
  BY <1>2 DEF Filled, InPart
<1> QED
  BY <1>1, <1>3 DEF Messages, ParseFails

LEMMA LoadTyped ==
  ASSUME TypeOK, [Next]_vars
  PROVE  LoadTypeOK'
<1>a. LoadTypeOK /\ FirstRunTypeOK /\ ContextTypeOK
  BY DEF TypeOK
<1>b. configureFile[Service] \in Paths \cup {NoPath}
  BY <1>a, ServiceAssumption DEF ContextTypeOK
<1>c. \A p \in Paths : files[p] \in FileRecords
  BY <1>a DEF LoadTypeOK
<1> USE <1>a DEF LoadTypeOK, LoadStates, renderVars
<1>1. CASE UNCHANGED loadVars
  BY <1>1 DEF loadVars, loadMemory, loadDisk
<1>2. ASSUME NEW l \in Loaders, LoadBegin(l) \/ LoadStep(l) \/ Loaded(l)
      PROVE  LoadTypeOK'
  <2> USE DEF LoadMoves
  <2>1. CASE LoadBegin(l)
    BY <2>1 DEF LoadBegin
  <2>2. CASE LoadLook(l)
    BY <2>2 DEF LoadLook, loadVars, loadMemory, loadDisk
  <2>3. CASE LoadGuess(l)
    BY <1>b, <2>3 DEF LoadGuess, LoadIsOver
  <2>9. CASE LoadRead(l)
    BY <1>b, <2>9 DEF LoadRead
  <2>4. CASE LoadParse(l)
    <3>a. Render => rendered' \in AssetStates /\ unrendered' \in BOOLEAN
      BY TemplateAssumption DEF Render, TemplateContent, FirstRunTypeOK, Assets
    <3>1. CASE UNCHANGED <<loadPc, conf>>
      BY <2>4, <3>1, <3>a DEF LoadParse
    <3>2. CASE conf' = [conf EXCEPT ![l] = NoConf] /\ UNCHANGED renderVars
      BY <2>4, <3>2 DEF LoadParse
    <3>3. ASSUME Holds(reading[l], "json"), NEW m \in Parsed(files[reading[l]]),
                 conf' = [conf EXCEPT ![l] =
                     [path |-> reading[l], filled |-> m.filled,
                      part |-> m.part, rendered |-> m.rendered]],
                 IF Renders(m) THEN Render ELSE UNCHANGED renderVars
          PROVE  LoadTypeOK'
      <4>1. reading[l] \in Paths
        BY <3>3 DEF Holds
      <4>2. conf' \in [Loaders -> Messages \cup {NoConf}]
        BY <1>c, <4>1, <3>3, ParsedTyped
      <4> QED
        BY <2>4, <3>3, <3>a, <4>2 DEF LoadParse
    <3> QED
      BY <2>4, <3>1, <3>2, <3>3 DEF LoadParse
  <2>5. CASE LoadConvert(l)
    BY <2>5 DEF LoadConvert
  <2>6. CASE LoadDecode(l)
    <3>1. confng' \in Messages \cup {NoConf}
      BY <2>6 DEF LoadDecode, Holds, Messages
    <3> QED
      BY <2>6, <3>1 DEF LoadDecode
  <2>7. CASE LoadExport(l)
    BY <2>7 DEF LoadExport
  <2>8. CASE Loaded(l)
    BY <2>8 DEF Loaded, LoadIsOver
  <2> QED
    BY <1>2, <2>1, <2>2, <2>3, <2>4, <2>5, <2>6, <2>7, <2>8, <2>9 DEF LoadStep
<1>3. CASE Kill
  BY <1>3 DEF Kill, LoadForgets
<1> QED
  BY <1>1, <1>2, <1>3, LoadSteps

LEMMA ScanTyped ==
  ASSUME TypeOK, [Next]_vars
  PROVE  ScanTypeOK'
<1>a. ScanTypeOK
  BY DEF TypeOK
<1> USE <1>a DEF ScanTypeOK
<1>1. CASE UNCHANGED scanVars
  BY <1>1 DEF scanVars
<1>2. CASE ScanStep
  <2> USE DEF Announce, Surpressed
  <2>a. Decoder \in Decoders
    BY DEF Decoder, StartQRDecode, Decoders
  <2>1. ASSUME NEW c \in Contexts, ScanQR(c)
        PROVE  ScanTypeOK'
    BY <2>1 DEF ScanQR
  <2>2. ASSUME NEW x \in Legacy, ScanLegacy(x)
        PROVE  ScanTypeOK'
    BY <2>2, <2>a DEF ScanLegacy
  <2>3. ASSUME NEW g \in Groups, NEW i \in Pieces, ScanPiece(g, i)
        PROVE  ScanTypeOK'
    <3>1. Receive(g, i) \in Decoders
      BY <2>a DEF Receive, Decoders
    <3> QED
      BY <2>3, <3>1 DEF ScanPiece
  <2>4. CASE ScanForeign
    BY <2>4, <2>a DEF ScanForeign
  <2>5. CASE ScanMalformed \/ FinishPanics
    BY <2>5 DEF ScanMalformed, FinishPanics, scanVars
  <2>6. CASE Discard
    BY <2>6 DEF Discard
  <2>7. CASE FinishLegacy
    BY <2>7 DEF FinishLegacy, scanVars
  <2>8. CASE FinishGroup
    <3>1. qd.group \in Groups \cup {Nothing}
      BY <2>8 DEF FinishGroup, Decoders
    <3> QED
      BY <2>8, <3>1 DEF FinishGroup
  <2>9. CASE FinishFails
    BY <2>9 DEF FinishFails, scanVars
  <2>10. CASE UNCHANGED scanVars
    BY <2>10 DEF scanVars
  <2> QED
    BY <1>2, <2>1, <2>2, <2>3, <2>4, <2>5, <2>6, <2>7, <2>8, <2>9, <2>10
    DEF ScanStep, ScanCall, FinishLooks
<1>3. CASE ScanForgets
  BY <1>3 DEF ScanForgets
<1> QED
  BY <1>1, <1>2, <1>3, ScanSteps

LEMMA SessionTyped ==
  ASSUME DialerTypeOK,
         \/ SessionBegin \/ SessionPlain \/ SetV2RayDialer \/ SessionEnd
         \/ SessionStep
         \/ \E domains \in SUBSET Domains : VpnSetup(domains)
  PROVE  DialerTypeOK'
<1> USE NoWriteAssumption
    DEF DialerTypeOK, SessionStates, SessionMoves, descriptorVars
<1>1. CASE SessionBegin
  BY <1>1, MaxSessionsAssumption DEF SessionBegin
<1>2. CASE SessionPlain \/ SetV2RayDialer \/ SessionEnd
  BY <1>2 DEF SessionPlain, SetV2RayDialer, SessionEnd
<1>3. ASSUME NEW e \in Entries, PrepareResolve(e)
      PROVE  DialerTypeOK'
  BY <1>3 DEF PrepareResolve, Writes, Addresses
<1>4. CASE PrepareStore
  <2>1. writing \in Writes
    BY <1>4 DEF PrepareStore
  <2> QED
    BY <1>4, <2>1 DEF PrepareStore, Writes
<1>5. CASE PrepareEnd
  BY <1>5 DEF PrepareEnd
<1>6. ASSUME NEW domains \in SUBSET Domains, VpnSetup(domains)
      PROVE  DialerTypeOK'
  <2>1. Unprepared \in Addresses
    BY MaxSessionsAssumption DEF Unprepared, Addresses
  <2> QED
    BY <1>6, <2>1 DEF VpnSetup, NothingPrepared, Entries
<1> QED
  BY <1>1, <1>2, <1>3, <1>4, <1>5, <1>6 DEF SessionStep

\* A Dial past Socket has a descriptor.
Holding == \A d \in Dials : dialPc[d] \in {"connect", "conn"} => fd[d] \in Descriptors

LEMMA DialTyped ==
  ASSUME DialerTypeOK, Holding, NEW d \in Dials,
         DialStep(d) \/ \E e \in Entries : Dial(d, e)
  PROVE  DialerTypeOK' /\ Holding'
<1>a. Unprepared \in Addresses
  BY MaxSessionsAssumption DEF Unprepared, Addresses
<1> USE DescriptorsAssumption DEF DialerTypeOK, DialMoves, DialReturns,
        descriptorVars, sessionVars, Holding
<1>1. ASSUME NEW e \in Entries, Dial(d, e)
      PROVE  DialerTypeOK' /\ Holding'
  <2>1. Lookup(e) \subseteq Addresses
    BY NoWriteAssumption DEF Lookup, Writes
  <2> QED
    BY <1>1, <2>1, MaxSessionsAssumption DEF Dial
<1>2. CASE DialFail(d)
  BY <1>a, <1>2, MaxSessionsAssumption DEF DialFail
<1>3. CASE DialSocket(d)
  BY <1>3 DEF DialSocket
<1>4. CASE DialConnect(d)
  <2>1. fd[d] \in Descriptors
    BY <1>4 DEF DialConnect
  <2> QED
    BY <1>4, <1>a, <2>1, MaxSessionsAssumption DEF DialConnect
<1>5. CASE DialConn(d)
  <2>1. fd[d] \in Descriptors
    BY <1>5 DEF DialConn
  <2> QED
    BY <1>5, <1>a, <2>1, MaxSessionsAssumption DEF DialConn
<1> QED
  BY <1>1, <1>2, <1>3, <1>4, <1>5 DEF DialStep

LEMMA DialerTyped ==
  ASSUME DialerTypeOK, Holding, [Next]_vars
  PROVE  DialerTypeOK' /\ Holding'
<1>1. CASE UNCHANGED dialVars
  BY <1>1 DEF dialVars, sessionVars, descriptorVars, DialerTypeOK, Holding
<1>2. CASE \/ SessionBegin \/ SessionPlain \/ SetV2RayDialer \/ SessionEnd
           \/ SessionStep
           \/ \E domains \in SUBSET Domains : VpnSetup(domains)
  <2>1. UNCHANGED <<dialPc, fd>>
    BY <1>2 DEF SessionBegin, SessionPlain, SetV2RayDialer, SessionEnd,
        SessionStep, PrepareResolve, PrepareStore, PrepareEnd, VpnSetup,
        SessionMoves, descriptorVars
  <2> QED
    BY <1>2, <2>1, SessionTyped DEF Holding
<1>3. CASE \E d \in Dials : DialStep(d) \/ \E e \in Entries : Dial(d, e)
  BY <1>3, DialTyped
<1>4. CASE CloseDescriptor
  BY <1>4 DEF CloseDescriptor, DialerTypeOK, sessionVars, Holding
<1>5. CASE DialerForgets
  <2>1. 0 \in 0..MaxSessions /\ Unprepared \in Addresses
    BY MaxSessionsAssumption DEF Unprepared, Addresses
  <2> QED
    BY <1>5, <2>1 DEF DialerForgets, DialerTypeOK, SessionStates,
        NothingPrepared, NoneRunning, Holding
<1> QED
  BY <1>1, <1>2, <1>3, <1>4, <1>5, DialerSteps

\* A panic is in one of four places.
LEMMA CrashTyped ==
  ASSUME crashed \in Places \cup {"no"}, uses \in SUBSET Operations, [Next]_vars
  PROVE  crashed' \in Places \cup {"no"} /\ uses' \in SUBSET Operations
<1> USE DEF Panic, Places
<1>1. CASE Pick \/ SaveProp \/ Close \/ UNCHANGED vars
  BY <1>1 DEF Pick, SaveProp, Close, CloseDescriptor, vars
<1>2. CASE Scan
  BY <1>2 DEF Scan, ScanStep, ScanCall, ScanQR, ScanLegacy, ScanForeign,
      ScanMalformed, ScanPiece, Discard, FinishLooks, FinishLegacy,
      FinishPanics, FinishFails, FinishGroup
<1>3. ASSUME NEW l \in Loaders, RunLoop(l) \/ Load(l) \/ Loaded(l)
      PROVE  crashed' \in Places \cup {"no"} /\ UNCHANGED uses
  BY <1>3 DEF RunLoop, Load, Loaded, LoadBegin, LoadStep, LoadLook, LoadGuess,
      LoadRead, LoadParse, LoadConvert, LoadDecode, LoadExport, SessionBegin,
      SessionMoves
<1>4. CASE Session
  BY <1>4 DEF Session, SetupVpn, SessionStep, SessionPlain, VpnSetup,
      PrepareResolve, PrepareStore, PrepareEnd, SetV2RayDialer, SessionEnd,
      SessionMoves
<1>5. ASSUME NEW d \in Dials, Connect(d)
      PROVE  crashed' \in Places \cup {"no"} /\ UNCHANGED uses
  BY <1>5 DEF Connect, Dial, DialStep, DialFail, DialSocket, DialConnect,
      DialConn
<1>6. CASE Kill
  BY <1>6 DEF Kill
<1> QED
  BY <1>1, <1>2, <1>3, <1>4, <1>5, <1>6 DEF Next

TypeInv == TypeOK /\ Holding /\ Looking

LEMMA TypeInit == Init => TypeInv
<1> SUFFICES ASSUME Init PROVE TypeInv
  OBVIOUS
<1>1. PICK life \in Lives :
        /\ uses = life.uses
        /\ prop = life.prop
        /\ files = life.files
        /\ FirstRunInit(life.exported)
  BY DEF Init
<1>2. /\ life.uses \in SUBSET Operations
      /\ life.exported \in BOOLEAN
      /\ life.prop \in [Dirs -> Paths \cup {NoPath}]
      /\ life.files \in [Paths -> FileRecords]
  BY LivesAssumption
<1>3. ContextTypeOK /\ Looking
  BY <1>1, <1>2, DefaultDirAssumption
  DEF Init, ContextBegins, ContextTypeOK, LookStates, Looking
<1>4. FirstRunTypeOK
  BY <1>1, <1>2, MaxVersionAssumption
  DEF FirstRunInit, FirstRunTypeOK, Versions, AssetStates, Torn, ExportStates
<1>5. LoadTypeOK
  <2>1. unrendered \in BOOLEAN
    BY DEF Init
  <2>2. rendered \in AssetStates
    BY MaxVersionAssumption DEF Init, AssetStates, Torn
  <2> QED
    BY <1>1, <1>2, <2>1, <2>2 DEF Init, LoadBegins, LoadTypeOK, LoadStates
<1>6. ScanTypeOK
  BY DEF Init, ScanBegins, ScanTypeOK
<1>7. DialerTypeOK /\ Holding
  <2>1. 0 \in 0..MaxSessions /\ Unprepared \in Addresses
    BY MaxSessionsAssumption DEF Unprepared, Addresses
  <2> QED
    BY <2>1 DEF Init, DialerBegins, DialerTypeOK, SessionStates,
        NothingPrepared, NoneRunning, Holding
<1> QED
  BY <1>1, <1>2, <1>3, <1>4, <1>5, <1>6, <1>7 DEF TypeInv, TypeOK, Init

LEMMA TypeStep == TypeInv /\ [Next]_vars => TypeInv'
  BY ContextTyped, ExportTyped, LoadTyped, ScanTyped, DialerTyped, CrashTyped
  DEF TypeInv, TypeOK

\* Every variable of every component keeps its type, whatever lives, contexts,
\* loaders, assets, groups and dials there are.
THEOREM TypeCorrect == Spec => []TypeOK
<1>1. TypeInv => TypeOK
  BY DEF TypeInv
<1> QED
  BY <1>1, TypeInit, TypeStep, PTL DEF Spec

-----------------------------------------------------------------------------
(* The scanner: what the user is told and what is saved. *)

HasGroup == qd # Nothing /\ qd.group # Nothing

\* A legacy code, until Finish, was scanned.
LegacyNoted == legencyScanned # Nothing => legacySeen

\* The pieces of a decoder are of its group.
OneGroup ==
    qd # Nothing =>
        /\ qd.group = Nothing => qd = StartQRDecode
        /\ qd.group # Nothing => qd.got \subseteq {qd.group} \X Pieces

\* surpressFinish means that the decoder's group is announced, and is set once
\* the decoder has all it needs.
FlagTellsTruth ==
    ~legacySeen =>
        /\ announced # Nothing => HasGroup
        /\ surpressFinish /\ qd # Nothing => HasGroup /\ announced = qd.group
        /\ HasGroup /\ IsDecodeReady(qd) => surpressFinish

ScanInv == LegacyNoted /\ OneGroup /\ FlagTellsTruth

LEMMA ScanInvInit == Init => ScanInv
  BY DEF Init, ScanBegins, ScanInv, LegacyNoted, OneGroup, FlagTellsTruth, HasGroup

\* The decoder after one more piece.
LEMMA ReceiveOne ==
  ASSUME ScanTypeOK, OneGroup, NEW g \in Groups, NEW i \in Pieces
  PROVE  /\ Receive(g, i) \in Decoders
         /\ Receive(g, i) # Nothing
         /\ Receive(g, i).group = g /\ g # Nothing
         /\ Receive(g, i).got \subseteq {g} \X Pieces
<1>1. g # Nothing
  BY NothingAssumption
<1>2. Decoder \in Decoders
  BY DEF Decoder, StartQRDecode, Decoders, ScanTypeOK
<1>3. Decoder.group = g => Decoder.got \subseteq {g} \X Pieces
  BY <1>1 DEF Decoder, StartQRDecode, OneGroup
<1>4. Receive(g, i) \in Decoders
  BY <1>2 DEF Receive, Decoders
<1>5. Receive(g, i) # Nothing
  BY <1>4, NothingAssumption DEF Decoders
<1>6. Receive(g, i).group = g /\ Receive(g, i).got \subseteq {g} \X Pieces
  BY <1>3 DEF Receive
<1> QED
  BY <1>1, <1>4, <1>5, <1>6

LEMMA FreshDecoder ==
  /\ StartQRDecode # Nothing
  /\ StartQRDecode.group = Nothing
  BY NothingAssumption DEF StartQRDecode

LEMMA ScanInvStep ==
  ASSUME TypeInv, ScanInv, [Next]_vars
  PROVE  ScanInv'
<1>a. ScanTypeOK
  BY DEF TypeInv, TypeOK
<1> USE <1>a DEF ScanInv, LegacyNoted, OneGroup, FlagTellsTruth, HasGroup
<1>1. CASE UNCHANGED scanVars
  BY <1>1 DEF scanVars, IsDecodeReady, StartQRDecode
<1>2. CASE ScanStep
  <2>1. ASSUME NEW c \in Contexts, ScanQR(c)
        PROVE  ScanInv'
    BY <2>1 DEF ScanQR, IsDecodeReady, StartQRDecode
  <2>2. ASSUME NEW x \in Legacy, ScanLegacy(x)
        PROVE  ScanInv'
    BY <2>2, FreshDecoder DEF ScanLegacy, Decoder, StartQRDecode
  <2>3. ASSUME NEW g \in Groups, NEW i \in Pieces, ScanPiece(g, i)
        PROVE  ScanInv'
    <3> DEFINE surpressed == Surpressed /\ Decoder.group \in {g, Nothing}
    <3>1. /\ qd' # Nothing /\ qd'.group = g /\ g # Nothing
          /\ qd'.got \subseteq {g} \X Pieces
      BY <2>3, ReceiveOne DEF ScanPiece
    <3>2. ~legacySeen /\ surpressed => announced = g
      BY <3>1 DEF Surpressed, Decoder
    <3>3. IF IsDecodeReady(qd')
          THEN surpressFinish' /\ (surpressed \/ announced' = g)
               /\ (surpressed => announced' = announced)
          ELSE surpressFinish' = surpressed /\ announced' = announced
      BY <2>3 DEF ScanPiece, Announce
    <3>4. UNCHANGED <<legencyScanned, legacySeen>>
      BY <2>3 DEF ScanPiece
    <3>5. IsDecodeReady(qd)' = IsDecodeReady(qd')
      BY DEF IsDecodeReady
    <3> QED
      BY <3>1, <3>2, <3>3, <3>4, <3>5
  <2>4. CASE ScanForeign
    BY <2>4, FreshDecoder DEF ScanForeign, Decoder, Surpressed, IsDecodeReady,
        StartQRDecode
  <2>5. CASE ScanMalformed \/ FinishPanics
    BY <2>5, <1>1 DEF ScanMalformed, FinishPanics
  <2>6. CASE Discard
    BY <2>6 DEF Discard
  <2>7. CASE FinishLegacy
    BY <2>7, <1>1 DEF FinishLegacy
  <2>8. CASE FinishGroup \/ FinishFails
    BY <2>8, <1>1 DEF FinishGroup, FinishFails
  <2> QED
    BY <1>1, <1>2, <2>1, <2>2, <2>3, <2>4, <2>5, <2>6, <2>7, <2>8
    DEF ScanStep, ScanCall, FinishLooks
<1>3. CASE ScanForgets
  BY <1>3 DEF ScanForgets
<1> QED
  BY <1>1, <1>2, <1>3, ScanSteps

\* ReadyToFinish promises a Finish that does not panic (qrscan.go:58-60), as
\* long as no legacy code was scanned.
THEOREM FinishIsSafe == Spec => []AnnouncedFinishIsSafe
<1>1. ScanInv => AnnouncedFinishIsSafe
  BY FreshDecoder DEF ScanInv, FlagTellsTruth, HasGroup, AnnouncedFinishIsSafe
<1> QED
  BY <1>1, TypeInit, TypeStep, ScanInvInit, ScanInvStep, PTL DEF Spec

\* A decoder that has all its pieces was announced (qrscan.go:58).
THEOREM CompleteAnnounced == Spec => []CompleteIsAnnounced
<1>1. ScanInv => CompleteIsAnnounced
  BY DEF ScanInv, FlagTellsTruth, HasGroup, CompleteIsAnnounced
<1> QED
  BY <1>1, TypeInit, TypeStep, ScanInvInit, ScanInvStep, PTL DEF Spec

\* Finish saves the announced group (qrscan.go:94-113).
THEOREM SavesAnnounced == Spec => SavesWhatWasAnnounced
<1> DEFINE Good ==
      saved' \in Groups /\ saved' # saved /\ ~legacySeen =>
          /\ announced = saved'
          /\ qd.got \subseteq {saved'} \X Pieces
          /\ Cardinality(qd.got) >= Needed[saved']
<1>1. TypeInv /\ ScanInv /\ [Next]_vars => [Good]_<<crashed, scanVars>>
  <2> SUFFICES ASSUME TypeInv, ScanInv, [Next]_vars,
                      saved' \in Groups, saved' # saved, ~legacySeen
               PROVE  Good
    OBVIOUS
  <2>1. ScanStep
    BY ScanSteps, NothingAssumption DEF scanVars, ScanForgets
  <2>2. FinishGroup
    BY <2>1 DEF ScanStep, ScanCall, ScanQR, ScanLegacy, ScanPiece, ScanForeign,
        ScanMalformed, Discard, FinishLooks, FinishLegacy, FinishPanics,
        FinishFails, scanVars, ScanInv, LegacyNoted
  <2>3. saved' = qd.group /\ IsDecodeReady(qd) /\ qd # Nothing
    BY <2>2 DEF FinishGroup, scanVars
  <2>4. qd.group # Nothing
    BY <2>3, NothingAssumption
  <2> QED
    BY <2>3, <2>4 DEF ScanInv, OneGroup, FlagTellsTruth, HasGroup, IsDecodeReady
<1> QED
  BY <1>1, TypeInit, TypeStep, ScanInvInit, ScanInvStep, PTL
  DEF Spec, SavesWhatWasAnnounced
=============================================================================
