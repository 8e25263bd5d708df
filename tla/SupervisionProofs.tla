-------------------------- MODULE SupervisionProofs --------------------------
(* The service and the VPN mode own their Escorting objects as EscortSystem  *)
(* says, so that what is proved of the supervisor holds inside the service.  *)
EXTENDS PatientProofs

\* EscortSystem with its lemmas, by the refinement of UsesEscortsAsOwner.
Owned == INSTANCE EscortProofs WITH
    StartMayFail <- TRUE,
    Roots <- {Root},
    RootLists <- BOOLEAN,
    ownerPc <- OwnerPc

-----------------------------------------------------------------------------
(* VpnSupportReady runs on one thread at a time.                             *)

\* The client answers one Prepare at a time: it has one thread that does so,
\* or it waits for the status and for its own answers.  With two answers at a
\* time v.Estr is replaced between a NewEscort and its EscortingUPV.
AnswersOneByOne ==
    \/ \A r, q \in ReadyCallers : r = q
    \/ {"status", "vpn"} \subseteq Manners

OneReady ==
    \A r, q \in ReadyCallers :
        readyPc[r] # "idle" /\ readyPc[q] # "idle" => r = q

\* No Prepare is under way outside a session, nor while pointloop has not
\* called VpnSetup.
AnswerTurn ==
    /\ OneReady
    /\ prepared => NobodyReady
    /\ client \in {"idle", "stopping"} => ~prepared /\ NobodyReady
    /\ \A p \in Starts : startPc[p] \notin {"idle", "scripts", "tell"} =>
                             ~prepared /\ NobodyReady

\* The one Prepare of a session.
LEMMA AnswerTurnStart ==
  ASSUME WorkerInv, AnswerTurn, NEW p \in Starts, PointLoop(p)
  PROVE  AnswerTurn'
<1>a. /\ startPc \in [Starts -> StartStates]
      /\ \A q \in Starts : q # p => startPc[q] = "idle"
      /\ client = "starting"
  BY PointLoopMoves DEF WorkerInv
<1>b. UNCHANGED readyPc /\ client' \notin {"idle", "stopping"}
  BY <1>a DEF PointLoop, StartLoad, StartNew, StartMark, StartCore,
     StartBranch, StartEscort, StartRaise, StartGate, StartConf, AssignConf,
     StartVpn, VpnSetup, StartScripts, StartTell, lowerVars, vpnVars,
     clientVars
<1>1. CASE StartVpn(p)
  <2>1. ~prepared /\ NobodyReady
    BY <1>a, <1>1 DEF StartVpn, StartMoves, AnswerTurn
  <2>2. \A q \in Starts : startPc'[q] \in {"idle", "scripts"}
    BY <1>a, <1>1 DEF StartVpn, StartMoves
  <2> QED
    BY <1>b, <2>1, <2>2 DEF AnswerTurn, OneReady, NobodyReady
<1>2. CASE ~StartVpn(p)
  <2>1. UNCHANGED prepared
    BY <1>2 DEF PointLoop, StartLoad, StartNew, StartMark, StartCore,
       StartBranch, StartEscort, StartRaise, StartGate, StartConf, AssignConf,
       StartScripts, StartTell, lowerVars, vpnVars
  <2>2. ASSUME NEW q \in Starts,
               startPc'[q] \notin {"idle", "scripts", "tell"}
        PROVE  startPc[q] \notin {"idle", "scripts", "tell"}
    BY <1>a, <1>2, <2>2 DEF PointLoop, StartLoad, StartNew, StartMark,
       StartCore, StartBranch, StartEscort, StartRaise, StartGate, StartConf,
       StartScripts, StartTell, StartMoves
  <2> QED
    BY <1>b, <2>1, <2>2 DEF AnswerTurn, OneReady, NobodyReady
<1> QED
  BY <1>1, <1>2

LEMMA AnswerTurnInductive ==
  ASSUME {"status", "vpn"} \subseteq Manners
  PROVE  Types /\ WorkerInv /\ AnswerTurn /\ [Moves]_moveVars => AnswerTurn'
<1> SUFFICES ASSUME Types, WorkerInv, AnswerTurn, [Moves]_moveVars
             PROVE  AnswerTurn'
  OBVIOUS
<1>a. /\ readyPc \in [ReadyCallers -> ReadyStates]
      /\ startPc \in [Starts -> StartStates]
  BY DEF Types, VpnFieldsOK, WorkerInv
<1>1. ASSUME NEW r \in ReadyCallers, ClientReady(r) PROVE AnswerTurn'
  <2>1. prepared /\ NobodyReady
    BY <1>1 DEF ClientReady, VpnSupportReady, AnswerTurn
  <2>2. /\ client \notin {"idle", "stopping"}
        /\ \A p \in Starts : startPc[p] \in {"idle", "scripts", "tell"}
    BY <2>1 DEF AnswerTurn
  <2>3. /\ ~prepared' /\ UNCHANGED <<startPc, client>>
        /\ readyPc' = [readyPc EXCEPT ![r] = "setup"]
    BY <1>1 DEF ClientReady, VpnSupportReady, pointVars, clientVars
  <2>4. OneReady'
    BY <1>a, <2>1, <2>3 DEF NobodyReady, OneReady
  <2> QED
    BY <2>2, <2>3, <2>4 DEF AnswerTurn
<1>2. ASSUME NEW r \in ReadyCallers, Ready(r) PROVE AnswerTurn'
  <2>1. /\ readyPc[r] # "idle"
        /\ \E x \in ReadyStates : readyPc' = [readyPc EXCEPT ![r] = x]
        /\ UNCHANGED <<startPc, client, prepared>>
    BY <1>2 DEF Ready, ReadyStep, ReadySetup, ReadyNewEscort, ReadyRaise,
       ReadySpawn, ReadyNextGen, ReadyMoves, ReadyStates, pointVars,
       clientVars
  <2>2. /\ ~prepared /\ client \notin {"idle", "stopping"}
        /\ \A p \in Starts : startPc[p] \in {"idle", "scripts", "tell"}
    BY <2>1 DEF AnswerTurn, NobodyReady
  <2>3. OneReady'
    BY <1>a, <2>1 DEF AnswerTurn, OneReady
  <2> QED
    BY <2>1, <2>2, <2>3 DEF AnswerTurn
<1>3. ASSUME UNCHANGED <<prepared, readyPc>>, ~prepared, NobodyReady
      PROVE  AnswerTurn'
  BY <1>3 DEF AnswerTurn, OneReady, NobodyReady
<1>4. ASSUME NEW s \in Stops, StopLoopW(s) PROVE AnswerTurn'
  <2>1. ~prepared /\ NobodyReady
    BY <1>4, StopLoopWMoves DEF WorkerInv, AnswerTurn
  <2>2. UNCHANGED <<prepared, readyPc>>
    BY <1>4 DEF StopLoopW, StopMark, StopClose, StopBranch, StopFd,
       ShutdownFd, StopVpn, ShutdownEscort, ShutdownNextGen, StopRoot,
       StopTell, lowerVars, vpnVars
  <2> QED
    BY <1>3, <2>1, <2>2
<1>5. ASSUME RunLoop \/ StopLoop PROVE AnswerTurn'
  <2>1. ~prepared /\ NobodyReady
    BY <1>5 DEF RunLoop, StopLoop, Waits, AnswerTurn, NobodyReady
  <2>2. UNCHANGED <<prepared, readyPc>>
    BY <1>5 DEF RunLoop, StopLoop, lowerVars, vpnVars
  <2> QED
    BY <1>3, <2>1, <2>2
<1>6. ASSUME UNCHANGED tunVars, UNCHANGED <<startPc, stopPc, client>>
      PROVE  AnswerTurn'
  <2>1. UNCHANGED <<prepared, readyPc>>
    BY <1>6 DEF tunVars
  <2> QED
    BY <1>6, <2>1 DEF AnswerTurn, OneReady, NobodyReady
<1>7. ASSUME NEW s \in Stops, StopFd(s) PROVE StopLoopW(s)
  BY <1>7 DEF StopLoopW
<1>8. ASSUME NEW p \in Starts, StartConf(p) \/ StartVpn(p) PROVE PointLoop(p)
  BY <1>8 DEF PointLoop
<1>9. ASSUME NEW p \in Starts, PointLoop(p) PROVE AnswerTurn'
  BY <1>9, AnswerTurnStart
<1>10. ASSUME UNCHANGED tunVars PROVE AnswerTurn'
  BY <1>4, <1>5, <1>6, <1>9, <1>10, WorkerSteps
<1> QED
  BY <1>1, <1>2, <1>4, <1>7, <1>8, <1>9, <1>10, TunSteps

LEMMA OneReadyInvariant ==
  ASSUME AnswersOneByOne
  PROVE  Spec => []OneReady
<1>1. CASE \A r, q \in ReadyCallers : r = q
  <2>1. OneReady
    BY <1>1 DEF OneReady
  <2> QED
    BY <2>1, PTL
<1>2. CASE {"status", "vpn"} \subseteq Manners
  <2>a. Spec => []WorkerInv
    BY <1>2, WorkerInvariant
  <2>b. Types /\ WorkerInv /\ AnswerTurn /\ [Moves]_moveVars => AnswerTurn'
    BY <1>2, AnswerTurnInductive
  <2>1. Init => AnswerTurn
    BY DEF Init, VpnInit, AnswerTurn, OneReady, NobodyReady
  <2>2. AnswerTurn => OneReady
    BY DEF AnswerTurn
  <2>3. AnswerTurn /\ Collector => AnswerTurn'
    BY CollectorKeeps DEF AnswerTurn, OneReady, NobodyReady, clientVars
  <2>4. Types /\ WorkerInv /\ AnswerTurn /\ [Next]_allVars => AnswerTurn'
    BY <2>b, <2>3, NextMoves
  <2> QED
    BY <2>a, <2>1, <2>2, <2>4, TypesInvariant, PTL DEF Spec
<1> QED
  BY <1>1, <1>2 DEF AnswersOneByOne

-----------------------------------------------------------------------------
(* Where OwnerPc is.                                                         *)

\* The root object is never given its status; the object VpnSupportReady is at
\* work on has its own.
StatusInv ==
    /\ ~status[Root]
    /\ \A r \in ReadyCallers : readyPc[r] \in {"raise", "spawn"} =>
                                   estr \in VpnObjects /\ status[estr]

LEMMA StatusInductive == Types /\ StatusInv /\ [Moves]_moveVars => StatusInv'
<1> SUFFICES ASSUME Types, StatusInv, [Moves]_moveVars PROVE StatusInv'
  OBVIOUS
<1>a. /\ readyPc \in [ReadyCallers -> ReadyStates]
      /\ status \in [Escorts -> BOOLEAN]
      /\ estr \in VpnObjects \cup {NoEscort}
      /\ Root \in Escorts
  BY RootAssumption DEF Types, VpnFieldsOK, SupTypeOK
<1>1. ASSUME UNCHANGED <<status, estr, readyPc>> PROVE StatusInv'
  BY <1>1 DEF StatusInv
<1>2. ASSUME NEW r \in ReadyCallers, ClientReady(r) PROVE StatusInv'
  BY <1>a, <1>2 DEF ClientReady, VpnSupportReady, StatusInv, escortVars
<1>3. ASSUME NEW r \in ReadyCallers, Ready(r) PROVE StatusInv'
  <2>1. CASE ReadyNewEscort(r)
    BY <1>a, <2>1 DEF ReadyNewEscort, ReadyMoves, NewEscort, StatusInv,
       VpnObjects
  <2>2. CASE ReadySetup(r) \/ ReadyNextGen(r)
    BY <1>a, <2>2 DEF ReadySetup, ReadyNextGen, ReadyMoves, StatusInv,
       escortVars
  <2>3. CASE ReadyRaise(r) \/ ReadySpawn(r)
    BY <1>a, <2>3 DEF ReadyRaise, ReadySpawn, ReadyMoves, EscortingUPV,
       SpawnEscortRun, StatusInv
  <2> QED
    BY <1>3, <2>1, <2>2, <2>3 DEF Ready, ReadyStep
<1>4. ASSUME NEW p \in Starts, PointLoop(p)
      PROVE  UNCHANGED <<status, estr, readyPc>>
  BY <1>4 DEF PointLoop, StartLoad, StartNew, StartMark, StartCore,
     StartBranch, StartEscort, StartRaise, EscortingUP, StartGate, StartConf,
     AssignConf, StartVpn, VpnSetup, StartScripts, StartTell, lowerVars,
     escortVars, vpnVars
<1>5. ASSUME NEW s \in Stops, StopLoopW(s)
      PROVE  UNCHANGED <<status, estr, readyPc>>
  BY <1>5 DEF StopLoopW, StopMark, StopClose, StopBranch, StopFd, ShutdownFd,
     StopVpn, ShutdownEscort, ShutdownNextGen, CallEscortingDown,
     EscortingDownReturns, StopRoot, StopTell, lowerVars, escortVars, vpnVars
<1>6. ASSUME NEW s \in Stops, Down(s)
      PROVE  UNCHANGED <<status, estr, readyPc>>
  BY <1>6 DEF Down, DownStep, DownCheck, DownKill, DownSend, DownClear, vpnVars
<1>7. ASSUME NEW e \in Escorts, Supervisor(e) \/ Closer(e) \/ Child(e)
      PROVE  UNCHANGED <<status, estr, readyPc>>
  BY <1>7 DEF Supervisor, RunStep, RunStart, RunAppend, RunWaited, RunCheck,
     RunExhausted, RunSend, Closer, CloserQuits, Child, ChildExit, vpnVars
<1>8. ASSUME \/ Client
             \/ \E i \in Interrupts : Restart(i)
             \/ TimerFires
             \/ UNCHANGED moveVars
      PROVE  UNCHANGED <<status, estr, readyPc>>
  BY <1>8 DEF Client, ClientSets, UpgradeToContext, ClientSetsVpn,
     SetVpnSupportSet, OptinNextGenerationTunInterface, RunLoop, StopLoop,
     NetworkInterrupted, IntMoves, Restart, IntRead, IntCas, IntClose,
     IntStart, IntStore, TimerFires, lowerVars, escortVars, vpnVars, moveVars
<1> QED
  BY <1>1, <1>2, <1>3, <1>4, <1>5, <1>6, <1>7, <1>8
  DEF Moves, Calls, ClientAnswers, Loop, Stopping, Interrupting, Timer

\* What the mapping needs of a state.
Owning == Types /\ OneReady /\ StatusInv

LEMMA OwningInvariant ==
  ASSUME AnswersOneByOne
  PROVE  Spec => []Owning
<1>a. Spec => []OneReady
  BY OneReadyInvariant
<1>1. Init => StatusInv
  BY RootAssumption
  DEF Init, VpnInit, EscortInit, StatusInv
<1>2. Types /\ OneReady /\ StatusInv => Owning
  BY DEF Owning
<1>3. StatusInv /\ Collector => StatusInv'
  BY CollectorKeeps DEF StatusInv, escortVars
<1>4. Types /\ StatusInv /\ [Next]_allVars => StatusInv'
  BY <1>3, StatusInductive, NextMoves
<1> QED
  BY <1>a, <1>1, <1>2, <1>4, TypesInvariant, PTL DEF Spec

RootAtRaise == \E p \in Starts : startPc[p] = "raise"
ReadyAt(pc) == \E r \in ReadyCallers : readyPc[r] = pc

\* OwnerPc, object by object.
OwnerPcIs ==
    /\ OwnerPc \in [Escorts -> {"new", "made", "raised", "spawned"}]
    /\ OwnerPc[Root] = IF RootAtRaise THEN "made" ELSE "new"
    /\ ReadyAt("raise") => OwnerPc[estr] = "made"
    /\ ReadyAt("spawn") => OwnerPc[estr] = "raised"
    /\ \A e \in VpnObjects :
           e # estr \/ (~ReadyAt("raise") /\ ~ReadyAt("spawn")) =>
               OwnerPc[e] = IF status[e] THEN "spawned" ELSE "new"

LEMMA OwnerPcOf == Owning => OwnerPcIs
<1> SUFFICES ASSUME Owning PROVE OwnerPcIs
  OBVIOUS
<1>a. /\ estr \in VpnObjects \cup {NoEscort}
      /\ VpnObjects = Escorts \ {Root}
      /\ Root \in Escorts /\ NoEscort \notin Escorts
      /\ ~status[Root]
      /\ \A r \in ReadyCallers :
             readyPc[r] \in {"raise", "spawn"} => estr \in VpnObjects
      /\ ReadyAt("raise") => ~ReadyAt("spawn")
  BY RootAssumption, NoEscortAssumption
  DEF Owning, Types, VpnFieldsOK, StatusInv, OneReady, VpnObjects, ReadyAt
<1>1. OwnerPc = [e \in Escorts |->
                    CASE e = Root /\ RootAtRaise -> "made"
                      [] e = estr /\ ReadyAt("raise") -> "made"
                      [] e = estr /\ ReadyAt("spawn") -> "raised"
                      [] OTHER -> IF status[e] THEN "spawned" ELSE "new"]
  BY DEF OwnerPc, RootAtRaise, ReadyAt
<1>2. \A e \in Escorts :
          OwnerPc[e] = IF e = Root /\ RootAtRaise THEN "made"
                       ELSE IF e = estr /\ ReadyAt("raise") THEN "made"
                       ELSE IF e = estr /\ ReadyAt("spawn") THEN "raised"
                       ELSE IF status[e] THEN "spawned" ELSE "new"
  BY <1>1, <1>a
<1>3. OwnerPc \in [Escorts -> {"new", "made", "raised", "spawned"}]
  BY <1>1, <1>2
<1>4. OwnerPc[Root] = IF RootAtRaise THEN "made" ELSE "new"
  BY <1>2, <1>a
<1>5. ReadyAt("raise") \/ ReadyAt("spawn") => estr \in VpnObjects
  BY <1>a DEF ReadyAt
<1> QED
  BY <1>2, <1>3, <1>4, <1>5, <1>a DEF OwnerPcIs

LEMMA OwnerPcNext == Owning' => OwnerPcIs'
  BY OwnerPcOf, PTL

-----------------------------------------------------------------------------
(* Steps of the service are steps of EscortSystem.                           *)

\* The operations of Escort, which both modules extend; a start that fails
\* for want of the tun descriptor is one that fails.
LEMMA SameRun ==
  ASSUME NEW e
  PROVE  /\ RunStep(e, StartFails(e)) => Owned!RunStep(e, TRUE)
         /\ CloserQuits(e) => Owned!CloserQuits(e)
         /\ ChildExit(e) => Owned!ChildExit(e)
<1> USE DEF escortVars, closerVars, runVars, downVars, Owned!escortVars,
            Owned!closerVars, Owned!runVars, Owned!downVars, Panic,
            Owned!Panic, NoProcess, Owned!NoProcess
<1>1. RunStart(e, StartFails(e)) => Owned!RunStart(e, TRUE)
  BY DEF RunStart, Owned!RunStart
<1>2. RunAppend(e) => Owned!RunAppend(e)
  BY DEF RunAppend, Owned!RunAppend
<1>3. RunWaited(e) => Owned!RunWaited(e)
  BY DEF RunWaited, Owned!RunWaited
<1>4. RunCheck(e) => Owned!RunCheck(e)
  BY DEF RunCheck, Owned!RunCheck
<1>5. RunExhausted(e) => Owned!RunExhausted(e)
  BY DEF RunExhausted, Owned!RunExhausted
<1>6. RunSend(e) => Owned!RunSend(e)
  BY DEF RunSend, CloserReceives, Owned!RunSend, Owned!CloserReceives
<1>7. CloserQuits(e) => Owned!CloserQuits(e)
  BY DEF CloserQuits, Owned!CloserQuits
<1>8. ChildExit(e) => Owned!ChildExit(e)
  BY DEF ChildExit, Owned!ChildExit
<1> QED
  BY <1>1, <1>2, <1>3, <1>4, <1>5, <1>6, <1>7, <1>8
  DEF RunStep, Owned!RunStep

LEMMA SameDown ==
  ASSUME NEW d
  PROVE  /\ DownStep(d) => Owned!DownStep(d)
         /\ EscortingDownReturns(d) => Owned!EscortingDownReturns(d)
         /\ \A e : CallEscortingDown(d, e) => Owned!CallEscortingDown(d, e)
<1> USE DEF escortVars, closerVars, runVars, downVars, Owned!escortVars,
            Owned!closerVars, Owned!runVars, Owned!downVars, Panic,
            Owned!Panic, NoProcess, Owned!NoProcess
<1>1. DownCheck(d) => Owned!DownCheck(d)
  BY DEF DownCheck, Owned!DownCheck
<1>2. DownKill(d) => Owned!DownKill(d)
  BY DEF DownKill, Owned!DownKill
<1>3. DownSend(d) => Owned!DownSend(d)
  BY DEF DownSend, CloserReceives, Owned!DownSend, Owned!CloserReceives
<1>4. DownClear(d) => Owned!DownClear(d)
  BY DEF DownClear, Owned!DownClear
<1>5. EscortingDownReturns(d) => Owned!EscortingDownReturns(d)
  BY DEF EscortingDownReturns, Owned!EscortingDownReturns
<1>6. \A e : CallEscortingDown(d, e) => Owned!CallEscortingDown(d, e)
  BY DEF CallEscortingDown, Owned!CallEscortingDown
<1> QED
  BY <1>1, <1>2, <1>3, <1>4, <1>5, <1>6 DEF DownStep, Owned!DownStep

LEMMA SameOwner ==
  ASSUME NEW e
  PROVE  /\ NewEscort(e) => Owned!NewEscort(e)
         /\ EscortingUPV(e) => Owned!EscortingUPV(e)
         /\ SpawnEscortRun(e) => Owned!SpawnEscortRun(e)
         /\ \A b : EscortingUP(e, b) => Owned!EscortingUP(e, b)
         /\ Owned!Closers(e) = Closers(e)
<1> USE DEF closerVars, runVars, downVars, Owned!closerVars, Owned!runVars,
            Owned!downVars, Closers, Owned!Closers, RaiseList,
            Owned!RaiseList, GoEscortRun, Owned!GoEscortRun, NoProcess,
            Owned!NoProcess
<1>1. NewEscort(e) => Owned!NewEscort(e)
  BY DEF NewEscort, Garbage, Owned!NewEscort, Owned!Garbage
<1>2. EscortingUPV(e) => Owned!EscortingUPV(e)
  BY DEF EscortingUPV, Owned!EscortingUPV
<1>3. SpawnEscortRun(e) => Owned!SpawnEscortRun(e)
  BY DEF SpawnEscortRun, Owned!SpawnEscortRun
<1>4. \A b : EscortingUP(e, b) => Owned!EscortingUP(e, b)
  BY DEF EscortingUP, Owned!EscortingUP
<1> QED
  BY <1>1, <1>2, <1>3, <1>4

\* The two instances of EscortSystem, by the module with its proofs and by the
\* property, are the same.
LEMMA SameSystem ==
  /\ Owned!Init => Supervision!Init
  /\ [Owned!Next]_(Owned!systemVars) =>
         [Supervision!Next]_(Supervision!systemVars)
<1>1. Owned!Init => Supervision!Init
  BY DEF Owned!Init, Owned!EscortInit, Owned!NoProcess, Supervision!Init,
     Supervision!EscortInit, Supervision!NoProcess
<1>2. UNCHANGED Owned!systemVars => UNCHANGED Supervision!systemVars
  BY DEF Owned!systemVars, Owned!vars, Owned!escortVars,
     Supervision!systemVars, Supervision!vars, Supervision!escortVars
<1>3. ASSUME NEW e
      PROVE  /\ Owned!RunStart(e, TRUE) => Supervision!RunStart(e, TRUE)
             /\ Owned!RunAppend(e) => Supervision!RunAppend(e)
             /\ Owned!RunWaited(e) => Supervision!RunWaited(e)
             /\ Owned!RunCheck(e) => Supervision!RunCheck(e)
             /\ Owned!RunExhausted(e) => Supervision!RunExhausted(e)
             /\ Owned!RunSend(e) => Supervision!RunSend(e)
             /\ Owned!ChildExit(e) => Supervision!ChildExit(e)
             /\ Owned!CloserQuits(e) => Supervision!CloserQuits(e)
  <2> USE DEF Owned!escortVars, Supervision!escortVars, Owned!closerVars,
              Supervision!closerVars, Owned!runVars, Supervision!runVars,
              Owned!downVars, Supervision!downVars, Owned!Panic,
              Supervision!Panic, Owned!NoProcess, Supervision!NoProcess,
              Owned!CloserReceives, Supervision!CloserReceives,
              Owned!OwnerStep, Supervision!OwnerStep,
              Owned!NewEscort, Supervision!NewEscort, Owned!Garbage,
              Supervision!Garbage, Owned!Closers, Supervision!Closers,
              Owned!EscortingUPV, Supervision!EscortingUPV, Owned!RaiseList,
              Supervision!RaiseList, Owned!SpawnEscortRun,
              Supervision!SpawnEscortRun, Owned!GoEscortRun,
              Supervision!GoEscortRun, Owned!EscortingUP,
              Supervision!EscortingUP
  <2>1. Owned!RunStart(e, TRUE) => Supervision!RunStart(e, TRUE)
    BY DEF Owned!RunStart, Supervision!RunStart
  <2>2. Owned!RunAppend(e) => Supervision!RunAppend(e)
    BY DEF Owned!RunAppend, Supervision!RunAppend
  <2>3. Owned!RunWaited(e) => Supervision!RunWaited(e)
    BY DEF Owned!RunWaited, Supervision!RunWaited
  <2>4. Owned!RunCheck(e) => Supervision!RunCheck(e)
    BY DEF Owned!RunCheck, Supervision!RunCheck
  <2>5. Owned!RunExhausted(e) => Supervision!RunExhausted(e)
    BY DEF Owned!RunExhausted, Supervision!RunExhausted
  <2>6. Owned!RunSend(e) => Supervision!RunSend(e)
    BY DEF Owned!RunSend, Supervision!RunSend
  <2>7. Owned!ChildExit(e) => Supervision!ChildExit(e)
    BY DEF Owned!ChildExit, Supervision!ChildExit
  <2>8. Owned!CloserQuits(e) => Supervision!CloserQuits(e)
    BY DEF Owned!CloserQuits, Supervision!CloserQuits
  <2> QED
    BY <2>1, <2>2, <2>3, <2>4, <2>5, <2>6, <2>7, <2>8
<1>4. ASSUME NEW d
      PROVE  /\ Owned!DownCheck(d) => Supervision!DownCheck(d)
             /\ Owned!DownKill(d) => Supervision!DownKill(d)
             /\ Owned!DownSend(d) => Supervision!DownSend(d)
             /\ Owned!DownClear(d) => Supervision!DownClear(d)
             /\ Owned!EscortingDownReturns(d) =>
                    Supervision!EscortingDownReturns(d)
  <2> USE DEF Owned!escortVars, Supervision!escortVars, Owned!closerVars,
              Supervision!closerVars, Owned!runVars, Supervision!runVars,
              Owned!downVars, Supervision!downVars, Owned!Panic,
              Supervision!Panic, Owned!NoProcess, Supervision!NoProcess,
              Owned!CloserReceives, Supervision!CloserReceives,
              Owned!OwnerStep, Supervision!OwnerStep,
              Owned!NewEscort, Supervision!NewEscort, Owned!Garbage,
              Supervision!Garbage, Owned!Closers, Supervision!Closers,
              Owned!EscortingUPV, Supervision!EscortingUPV, Owned!RaiseList,
              Supervision!RaiseList, Owned!SpawnEscortRun,
              Supervision!SpawnEscortRun, Owned!GoEscortRun,
              Supervision!GoEscortRun, Owned!EscortingUP,
              Supervision!EscortingUP
  <2>1. Owned!DownCheck(d) => Supervision!DownCheck(d)
    BY DEF Owned!DownCheck, Supervision!DownCheck
  <2>2. Owned!DownKill(d) => Supervision!DownKill(d)
    BY DEF Owned!DownKill, Supervision!DownKill
  <2>3. Owned!DownSend(d) => Supervision!DownSend(d)
    BY DEF Owned!DownSend, Supervision!DownSend
  <2>4. Owned!DownClear(d) => Supervision!DownClear(d)
    BY DEF Owned!DownClear, Supervision!DownClear
  <2>5. Owned!EscortingDownReturns(d) => Supervision!EscortingDownReturns(d)
    BY DEF Owned!EscortingDownReturns, Supervision!EscortingDownReturns
  <2> QED
    BY <2>1, <2>2, <2>3, <2>4, <2>5
<1>5. ASSUME NEW e
      PROVE  /\ Owned!Make(e) => Supervision!Make(e)
             /\ Owned!Raise(e) => Supervision!Raise(e)
             /\ Owned!Spawn(e) => Supervision!Spawn(e)
             /\ Owned!CheckRoot(e) => Supervision!CheckRoot(e)
             /\ Owned!RaiseRoot(e) => Supervision!RaiseRoot(e)
  <2> USE DEF Owned!escortVars, Supervision!escortVars, Owned!closerVars,
              Supervision!closerVars, Owned!runVars, Supervision!runVars,
              Owned!downVars, Supervision!downVars, Owned!Panic,
              Supervision!Panic, Owned!NoProcess, Supervision!NoProcess,
              Owned!CloserReceives, Supervision!CloserReceives,
              Owned!OwnerStep, Supervision!OwnerStep,
              Owned!NewEscort, Supervision!NewEscort, Owned!Garbage,
              Supervision!Garbage, Owned!Closers, Supervision!Closers,
              Owned!EscortingUPV, Supervision!EscortingUPV, Owned!RaiseList,
              Supervision!RaiseList, Owned!SpawnEscortRun,
              Supervision!SpawnEscortRun, Owned!GoEscortRun,
              Supervision!GoEscortRun, Owned!EscortingUP,
              Supervision!EscortingUP
  <2>1. Owned!Make(e) => Supervision!Make(e)
    BY DEF Owned!Make, Supervision!Make
  <2>2. Owned!Raise(e) => Supervision!Raise(e)
    BY DEF Owned!Raise, Supervision!Raise
  <2>3. Owned!Spawn(e) => Supervision!Spawn(e)
    BY DEF Owned!Spawn, Supervision!Spawn
  <2>4. Owned!CheckRoot(e) => Supervision!CheckRoot(e)
    BY DEF Owned!CheckRoot, Supervision!CheckRoot
  <2>5. Owned!RaiseRoot(e) => Supervision!RaiseRoot(e)
    BY DEF Owned!RaiseRoot, Supervision!RaiseRoot
  <2> QED
    BY <2>1, <2>2, <2>3, <2>4, <2>5
<1>6. ASSUME NEW d, NEW e, Owned!CallEscortingDown(d, e)
      PROVE  Supervision!CallEscortingDown(d, e)
  BY <1>6 DEF Owned!CallEscortingDown, Supervision!CallEscortingDown,
              Owned!closerVars, Supervision!closerVars, Owned!runVars,
              Supervision!runVars
<1>7. Owned!SetRunning \/ Owned!ServicePanics =>
          Supervision!SetRunning \/ Supervision!ServicePanics
  BY DEF Owned!SetRunning, Supervision!SetRunning, Owned!ServicePanics,
         Supervision!ServicePanics, Owned!escortVars, Supervision!escortVars,
         Owned!Panic, Supervision!Panic
<1>8. Owned!Next => Supervision!Next
  <2>1. Owned!Owner => Supervision!Owner
    BY <1>4, <1>5, <1>6, <1>7 DEF Owned!Owner, Supervision!Owner
  <2>2. ASSUME NEW e \in Escorts
        PROVE  /\ Owned!Supervisor(e) => Supervision!Supervisor(e)
               /\ Owned!Closer(e) => Supervision!Closer(e)
               /\ Owned!Child(e) => Supervision!Child(e)
    BY <1>3 DEF Owned!Supervisor, Supervision!Supervisor, Owned!RunStep,
       Supervision!RunStep, Owned!Closer, Supervision!Closer, Owned!Child,
       Supervision!Child
  <2>3. ASSUME NEW d \in DownCallers, Owned!Down(d) PROVE Supervision!Down(d)
    BY <1>4, <2>3 DEF Owned!Down, Supervision!Down, Owned!DownStep,
       Supervision!DownStep
  <2> QED
    BY <2>1, <2>2, <2>3 DEF Owned!Next, Supervision!Next
<1> QED
  BY <1>1, <1>2, <1>8

\* OwnerPc depends on these only.
LEMMA OwnerPcStays ==
  ASSUME UNCHANGED <<status, estr>>,
         RootAtRaise' <=> RootAtRaise,
         ReadyAt("raise")' <=> ReadyAt("raise"),
         ReadyAt("spawn")' <=> ReadyAt("spawn")
  PROVE  UNCHANGED OwnerPc
BY DEF OwnerPc, RootAtRaise, ReadyAt

\* When one object is worked on, OwnerPc changes for that object.
LEMMA OwnerPcAt ==
  ASSUME Owning, Owning', NEW e \in Escorts,
         \A x \in Escorts : x # e => OwnerPc'[x] = OwnerPc[x]
  PROVE  OwnerPc' = [OwnerPc EXCEPT ![e] = OwnerPc'[e]]
<1>1. /\ OwnerPc \in [Escorts -> {"new", "made", "raised", "spawned"}]
      /\ OwnerPc' \in [Escorts -> {"new", "made", "raised", "spawned"}]
  BY OwnerPcOf, OwnerPcNext DEF OwnerPcIs
<1> QED
  BY <1>1

\* A pointloop that finds the root object down, or raises it.
LEMMA RootMoves ==
  ASSUME Owning, Owning', UNCHANGED <<status, estr, readyPc>>
  PROVE  OwnerPc' = [OwnerPc EXCEPT
                         ![Root] = IF RootAtRaise' THEN "made" ELSE "new"]
<1>1. OwnerPcIs /\ OwnerPcIs'
  BY OwnerPcOf, OwnerPcNext
<1>2. OwnerPc'[Root] = IF RootAtRaise' THEN "made" ELSE "new"
  BY <1>1 DEF OwnerPcIs
<1>3. ASSUME NEW x \in Escorts, x # Root PROVE OwnerPc'[x] = OwnerPc[x]
  BY <1>1, <1>3 DEF OwnerPcIs, VpnObjects, ReadyAt
<1> QED
  BY <1>2, <1>3, OwnerPcAt, RootAssumption

\* VpnSupportReady makes v.Estr or goes on with it.
LEMMA EstrMoves ==
  ASSUME Owning, Owning', NEW r \in ReadyCallers, NEW to \in ReadyStates,
         readyPc[r] # "idle",
         readyPc' = [readyPc EXCEPT ![r] = to],
         estr' \in VpnObjects,
         readyPc[r] \in {"raise", "spawn"} => estr' = estr,
         \A x \in Escorts : x # estr' => status'[x] = status[x],
         UNCHANGED startPc
  PROVE  OwnerPc' = [OwnerPc EXCEPT ![estr'] = OwnerPc'[estr']]
<1>1. OwnerPcIs /\ OwnerPcIs' /\ OneReady
  BY OwnerPcOf, OwnerPcNext DEF Owning
<1>2. readyPc \in [ReadyCallers -> ReadyStates] /\ estr' \in Escorts
  BY DEF Owning, Types, VpnFieldsOK, VpnObjects
<1>3. \A q \in ReadyCallers : q # r => readyPc[q] = "idle"
  BY <1>1 DEF OneReady
<1>4. ASSUME NEW x \in VpnObjects, x # estr'
      PROVE  OwnerPc'[x] = OwnerPc[x]
  <2>1. readyPc[r] \notin {"raise", "spawn"} =>
            ~ReadyAt("raise") /\ ~ReadyAt("spawn")
    BY <1>3 DEF ReadyAt
  <2>2. x \in Escorts
    BY DEF VpnObjects
  <2> QED
    BY <1>1, <1>4, <2>1, <2>2 DEF OwnerPcIs
<1>5. OwnerPc'[Root] = OwnerPc[Root]
  BY <1>1 DEF OwnerPcIs, RootAtRaise
<1> QED
  BY <1>2, <1>4, <1>5, OwnerPcAt DEF VpnObjects

\* Steps EscortSystem does not see, but for the panic.
LEMMA OwnerRests ==
  ASSUME ~crashed, UNCHANGED <<isRunning, escortVars, OwnerPc>>,
         UNCHANGED crashed \/ Panic
  PROVE  [Owned!Next]_(Owned!systemVars)
BY DEF Owned!Next, Owned!Owner, Owned!ServicePanics, Owned!systemVars,
   Owned!vars, Owned!escortVars, escortVars, Panic, Owned!Panic

\* What the owner does.
LEMMA OwnerActs ==
  ASSUME ~crashed
  PROVE  /\ Owned!SetRunning => Owned!Next
         /\ \A e \in Escorts :
                \/ Owned!Make(e) \/ Owned!Raise(e) \/ Owned!Spawn(e)
                \/ Owned!CheckRoot(e) \/ Owned!RaiseRoot(e)
                => Owned!Next
         /\ \A d \in DownCallers :
                /\ Owned!EscortingDownReturns(d)
                   \/ \E e \in Escorts : Owned!CallEscortingDown(d, e)
                /\ UNCHANGED <<isRunning, OwnerPc>>
                => Owned!Next
BY DEF Owned!Next, Owned!Owner

LEMMA PointLoopOwns ==
  ASSUME Owning, Owning', ~crashed, NEW p \in Starts, PointLoop(p)
  PROVE  [Owned!Next]_(Owned!systemVars)
<1>a. /\ startPc \in [Starts -> StartStates]
      /\ isRunning \in BOOLEAN /\ rootList \in BOOLEAN
      /\ Root \in Escorts
      /\ OwnerPc[Root] = IF RootAtRaise THEN "made" ELSE "new"
  BY RootAssumption, OwnerPcOf
  DEF Owning, Types, WorkersOK, FieldsOK, OwnerPcIs
<1>b. UNCHANGED readyPc =>
          /\ ReadyAt("raise")' <=> ReadyAt("raise")
          /\ ReadyAt("spawn")' <=> ReadyAt("spawn")
  BY DEF ReadyAt
<1>1. CASE StartMark(p)
  <2>1. /\ UNCHANGED <<crashed, escortVars, vpnVars>> /\ isRunning' = TRUE
        /\ RootAtRaise' <=> RootAtRaise
    BY <1>a, <1>1 DEF StartMark, StartMoves, RootAtRaise, lowerVars
  <2>2. UNCHANGED OwnerPc
    BY <1>b, <2>1, OwnerPcStays DEF escortVars, vpnVars
  <2>3. CASE isRunning
    BY <2>1, <2>2, <2>3, OwnerRests
  <2>4. CASE ~isRunning
    <3>1. Owned!SetRunning
      BY <2>1, <2>2, <2>4 DEF Owned!SetRunning, Owned!escortVars, escortVars
    <3> QED
      BY <3>1, OwnerActs
  <2> QED
    BY <2>3, <2>4
<1>2. CASE StartEscort(p)
  <2>1. UNCHANGED <<isRunning, escortVars, vpnVars>>
    BY <1>2 DEF StartEscort
  <2>2. CASE RootAtRaise' <=> RootAtRaise
    <3>1. UNCHANGED OwnerPc
      BY <1>b, <2>1, <2>2, OwnerPcStays DEF escortVars, vpnVars
    <3> QED
      BY <1>2, <2>1, <3>1, OwnerRests DEF StartEscort
  <2>3. CASE ~(RootAtRaise' <=> RootAtRaise)
    <3>1. /\ ~up[Root] /\ UNCHANGED crashed
          /\ ~RootAtRaise /\ RootAtRaise'
      BY <1>a, <1>2, <2>3 DEF StartEscort, StartMoves, RootAtRaise
    <3>2. OwnerPc[Root] = "new" /\ OwnerPc' = [OwnerPc EXCEPT ![Root] = "made"]
      BY <1>a, <2>1, <3>1, RootMoves DEF escortVars, vpnVars
    <3>3. Owned!CheckRoot(Root)
      BY <2>1, <3>1, <3>2
      DEF Owned!CheckRoot, Owned!OwnerStep, Owned!escortVars, escortVars
    <3> QED
      BY <1>a, <3>3, OwnerActs
  <2> QED
    BY <2>2, <2>3
<1>3. CASE StartRaise(p)
  <2>1. /\ UNCHANGED <<isRunning, vpnVars>> /\ Closers(Root) < MaxClosers
        /\ EscortingUP(Root, rootList) /\ RootAtRaise
    BY <1>3 DEF StartRaise, StartMoves, RootAtRaise
  <2>2. UNCHANGED <<status, estr, readyPc>>
    BY <2>1 DEF EscortingUP, vpnVars
  <2>3. /\ OwnerPc[Root] = "made"
        /\ \E to \in {"new", "made"} : OwnerPc' = [OwnerPc EXCEPT ![Root] = to]
    BY <1>a, <2>1, <2>2, RootMoves
  <2>4. /\ Owned!Closers(Root) < MaxClosers
        /\ \E configured \in BOOLEAN : Owned!EscortingUP(Root, configured)
    BY <1>a, <2>1, SameOwner
  <2>5. Owned!RaiseRoot(Root)
    BY <2>1, <2>3, <2>4 DEF Owned!RaiseRoot, Owned!OwnerStep
  <2> QED
    BY <1>a, <2>5, OwnerActs
<1>4. CASE ~StartMark(p) /\ ~StartEscort(p) /\ ~StartRaise(p)
  <2>1. /\ UNCHANGED <<isRunning, escortVars, estr, readyPc>>
        /\ UNCHANGED crashed \/ Panic
    BY <1>4 DEF PointLoop, StartLoad, StartNew, StartCore, StartBranch,
       StartGate, StartConf, AssignConf, StartVpn, VpnSetup, StartScripts,
       StartTell, lowerVars, vpnVars
  <2>2. RootAtRaise' <=> RootAtRaise
    BY <1>a, <1>4 DEF PointLoop, StartLoad, StartNew, StartCore, StartBranch,
       StartGate, StartConf, StartVpn, StartScripts, StartTell, StartMoves,
       RootAtRaise
  <2>3. UNCHANGED OwnerPc
    BY <1>b, <2>1, <2>2, OwnerPcStays DEF escortVars
  <2> QED
    BY <2>1, <2>3, OwnerRests
<1> QED
  BY <1>1, <1>2, <1>3, <1>4

LEMMA StopLoopWOwns ==
  ASSUME Owning, ~crashed, NEW s \in Stops, StopLoopW(s)
  PROVE  [Owned!Next]_(Owned!systemVars)
<1>a. /\ s \in DownCallers /\ Root \in Escorts
      /\ isRunning \in BOOLEAN
      /\ VpnObjects \subseteq Escorts
      /\ estr \in VpnObjects \cup {NoEscort}
  BY RootAssumption, StopsAreCallers
  DEF Owning, Types, FieldsOK, VpnFieldsOK, VpnObjects
<1>b. UNCHANGED <<startPc, readyPc, status, estr>>
  BY DEF StopLoopW, StopMark, StopClose, StopBranch, StopFd, ShutdownFd,
     StopVpn, ShutdownEscort, ShutdownNextGen, CallEscortingDown,
     EscortingDownReturns, StopRoot, StopTell, StopFrame, lowerVars,
     escortVars, vpnVars
<1>c. UNCHANGED OwnerPc
  BY <1>b DEF OwnerPc
<1>1. CASE StopMark(s)
  <2>1. /\ UNCHANGED <<crashed, escortVars>> /\ isRunning' = FALSE
    BY <1>1 DEF StopMark, lowerVars
  <2>2. CASE isRunning
    <3>1. Owned!SetRunning
      BY <1>c, <2>1, <2>2 DEF Owned!SetRunning, Owned!escortVars, escortVars
    <3> QED
      BY <3>1, OwnerActs
  <2>3. CASE ~isRunning
    BY <1>a, <1>c, <2>1, <2>3, OwnerRests
  <2> QED
    BY <2>2, <2>3
<1>2. CASE StopVpn(s) \/ StopRoot(s)
  <2>1. /\ UNCHANGED isRunning
        /\ \/ EscortingDownReturns(s)
           \/ \E e \in Escorts : CallEscortingDown(s, e)
           \/ UNCHANGED escortVars /\ (UNCHANGED crashed \/ Panic)
    BY <1>a, <1>2 DEF StopVpn, ShutdownEscort, ShutdownNextGen, StopRoot
  <2>2. CASE \/ EscortingDownReturns(s)
             \/ \E e \in Escorts : CallEscortingDown(s, e)
    <3>1. \/ Owned!EscortingDownReturns(s)
          \/ \E e \in Escorts : Owned!CallEscortingDown(s, e)
      BY <2>2, SameDown
    <3> QED
      BY <1>a, <1>c, <2>1, <3>1, OwnerActs
  <2>3. CASE UNCHANGED escortVars /\ (UNCHANGED crashed \/ Panic)
    BY <1>c, <2>1, <2>3, OwnerRests
  <2> QED
    BY <2>1, <2>2, <2>3
<1>3. CASE StopClose(s) \/ StopBranch(s) \/ StopFd(s) \/ StopTell(s)
  <2>1. /\ UNCHANGED <<isRunning, escortVars>>
        /\ UNCHANGED crashed \/ Panic
    BY <1>3 DEF StopClose, StopBranch, StopFd, ShutdownFd, StopTell, lowerVars
  <2> QED
    BY <1>c, <2>1, OwnerRests
<1> QED
  BY <1>1, <1>2, <1>3 DEF StopLoopW

\* VpnSupportReady makes, raises and spawns v.Estr in this order.
LEMMA ReadyOwns ==
  ASSUME Owning, Owning', ~crashed, NEW r \in ReadyCallers, Ready(r)
  PROVE  [Owned!Next]_(Owned!systemVars)
<1>a. /\ readyPc \in [ReadyCallers -> ReadyStates]
      /\ status \in [Escorts -> BOOLEAN]
      /\ VpnObjects = Escorts \ {Root}
      /\ readyPc[r] \in {"raise", "spawn"} =>
             estr \in VpnObjects /\ status[estr]
      /\ \A q \in ReadyCallers : q # r /\ readyPc[r] # "idle" =>
             readyPc[q] = "idle"
      /\ UNCHANGED <<isRunning, startPc>>
  BY DEF Owning, Types, VpnFieldsOK, SupTypeOK, VpnObjects, StatusInv,
     OneReady, Ready, pointVars
<1>b. OwnerPcIs /\ OwnerPcIs'
  BY OwnerPcOf, OwnerPcNext
<1>1. CASE ReadyNewEscort(r)
  <2>1. /\ readyPc[r] = "new"
        /\ readyPc' = [readyPc EXCEPT ![r] = "raise"]
        /\ estr' \in VpnObjects /\ NewEscort(estr')
    BY <1>1 DEF ReadyNewEscort, ReadyMoves
  <2>2. \A x \in Escorts : x # estr' => status'[x] = status[x]
    BY <1>a, <2>1 DEF NewEscort
  <2>3. OwnerPc' = [OwnerPc EXCEPT ![estr'] = OwnerPc'[estr']]
    BY <1>a, <2>1, <2>2, EstrMoves DEF ReadyStates
  <2>4. OwnerPc'[estr'] = "made"
    BY <1>a, <1>b, <2>1 DEF OwnerPcIs, ReadyAt
  <2>5. OwnerPc[estr'] \in {"new", "spawned"}
    BY <1>a, <1>b, <2>1 DEF OwnerPcIs, ReadyAt
  <2>6. Owned!NewEscort(estr')
    BY <2>1, SameOwner
  <2>7. Owned!Make(estr')
    BY <1>a, <2>1, <2>3, <2>4, <2>5, <2>6 DEF Owned!Make, Owned!OwnerStep
  <2> QED
    BY <1>a, <2>1, <2>7, OwnerActs
<1>2. CASE ReadyRaise(r)
  <2>1. /\ readyPc[r] = "raise"
        /\ readyPc' = [readyPc EXCEPT ![r] = "spawn"]
        /\ estr \in VpnObjects /\ estr' = estr /\ EscortingUPV(estr)
        /\ UNCHANGED status
    BY <1>a, <1>2 DEF ReadyRaise, ReadyMoves, EscortingUPV
  <2>2. OwnerPc' = [OwnerPc EXCEPT ![estr] = OwnerPc'[estr]]
    BY <1>a, <2>1, EstrMoves DEF ReadyStates
  <2>3. OwnerPc[estr] = "made" /\ OwnerPc'[estr] = "raised"
    BY <1>a, <1>b, <2>1 DEF OwnerPcIs, ReadyAt
  <2>4. Owned!EscortingUPV(estr)
    BY <2>1, SameOwner
  <2>5. Owned!Raise(estr)
    BY <1>a, <2>1, <2>2, <2>3, <2>4 DEF Owned!Raise, Owned!OwnerStep
  <2> QED
    BY <1>a, <2>1, <2>5, OwnerActs
<1>3. CASE ReadySpawn(r)
  <2>1. /\ readyPc[r] = "spawn"
        /\ readyPc' = [readyPc EXCEPT ![r] = "idle"]
        /\ estr \in VpnObjects /\ status[estr] /\ SpawnEscortRun(estr)
        /\ UNCHANGED <<estr, status>>
    BY <1>a, <1>3 DEF ReadySpawn, ReadyMoves, SpawnEscortRun
  <2>2. OwnerPc' = [OwnerPc EXCEPT ![estr] = OwnerPc'[estr]]
    BY <1>a, <2>1, EstrMoves DEF ReadyStates
  <2>3. ~ReadyAt("raise")' /\ ~ReadyAt("spawn")'
    BY <1>a, <2>1 DEF ReadyAt
  <2>4. OwnerPc[estr] = "raised" /\ OwnerPc'[estr] = "spawned"
    BY <1>a, <1>b, <2>1, <2>3 DEF OwnerPcIs, ReadyAt
  <2>5. Owned!SpawnEscortRun(estr)
    BY <2>1, SameOwner
  <2>6. Owned!Spawn(estr)
    BY <1>a, <2>1, <2>2, <2>4, <2>5 DEF Owned!Spawn, Owned!OwnerStep
  <2> QED
    BY <1>a, <2>1, <2>6, OwnerActs
<1>4. CASE ReadySetup(r) \/ ReadyNextGen(r)
  <2>1. /\ UNCHANGED <<crashed, escortVars, estr>>
        /\ readyPc[r] \in {"setup", "nextGen"}
        /\ \E x \in {"idle", "new", "nextGen"} :
               readyPc' = [readyPc EXCEPT ![r] = x]
    BY <1>4 DEF ReadySetup, ReadyNextGen, ReadyMoves
  <2>2. /\ ReadyAt("raise")' <=> ReadyAt("raise")
        /\ ReadyAt("spawn")' <=> ReadyAt("spawn")
    BY <1>a, <2>1 DEF ReadyAt
  <2>3. UNCHANGED OwnerPc
    BY <1>a, <2>1, <2>2, OwnerPcStays DEF RootAtRaise, escortVars
  <2> QED
    BY <1>a, <2>1, <2>3, OwnerRests
<1> QED
  BY <1>1, <1>2, <1>3, <1>4 DEF Ready, ReadyStep

LEMMA ServiceOwns ==
  Owning /\ Owning' /\ [Moves]_moveVars => [Owned!Next]_(Owned!systemVars)
<1> SUFFICES ASSUME Owning, Owning', [Moves]_moveVars
             PROVE  [Owned!Next]_(Owned!systemVars)
  OBVIOUS
<1>a. /\ readyPc \in [ReadyCallers -> ReadyStates]
      /\ startPc \in [Starts -> StartStates]
      /\ Stops = DownCallers
  BY StopsAreCallers DEF Owning, Types, VpnFieldsOK, WorkersOK
<1>1. ASSUME \/ Client
             \/ \E i \in Interrupts : Restart(i)
             \/ TimerFires
             \/ UNCHANGED moveVars
      PROVE  [Owned!Next]_(Owned!systemVars)
  <2>1. UNCHANGED <<isRunning, crashed, escortVars, readyPc, estr>>
    BY <1>1 DEF Client, ClientSets, UpgradeToContext, ClientSetsVpn,
       SetVpnSupportSet, OptinNextGenerationTunInterface, RunLoop, StopLoop,
       NetworkInterrupted, IntMoves, Restart, IntRead, IntCas, IntClose,
       IntStart, IntStore, TimerFires, lowerVars, vpnVars, moveVars
  <2>2. CASE RunLoop
    <3>1. RootAtRaise' <=> RootAtRaise
      BY <1>a, <2>2 DEF RunLoop, StartMoves, RootAtRaise
    <3>2. UNCHANGED OwnerPc
      BY <2>1, <3>1, OwnerPcStays DEF ReadyAt, escortVars
    <3> QED
      BY <2>1, <3>2 DEF Owned!systemVars, Owned!vars, Owned!escortVars,
         escortVars
  <2>3. CASE ~RunLoop
    <3>1. UNCHANGED startPc
      BY <1>1, <2>3 DEF Client, ClientSets, UpgradeToContext, ClientSetsVpn,
         StopLoop, NetworkInterrupted, IntMoves, Restart, IntRead, IntCas,
         IntClose, IntStart, IntStore, TimerFires, pointVars,
         moveVars
    <3>2. UNCHANGED OwnerPc
      BY <2>1, <3>1 DEF OwnerPc, escortVars
    <3> QED
      BY <2>1, <3>2 DEF Owned!systemVars, Owned!vars, Owned!escortVars,
         escortVars
  <2> QED
    BY <2>2, <2>3
<1>2. ASSUME NEW r \in ReadyCallers, ClientReady(r)
      PROVE  [Owned!Next]_(Owned!systemVars)
  <2>1. UNCHANGED <<isRunning, crashed, escortVars, estr, startPc>>
    BY <1>2 DEF ClientReady, VpnSupportReady, pointVars
  <2>2. /\ ReadyAt("raise")' <=> ReadyAt("raise")
        /\ ReadyAt("spawn")' <=> ReadyAt("spawn")
    BY <1>a, <1>2 DEF ClientReady, VpnSupportReady, ReadyAt
  <2>3. UNCHANGED OwnerPc
    BY <2>1, <2>2, OwnerPcStays DEF RootAtRaise, escortVars
  <2> QED
    BY <2>1, <2>3 DEF Owned!systemVars, Owned!vars, Owned!escortVars,
       escortVars
<1>3. ASSUME NEW e \in Escorts, Supervisor(e) \/ Closer(e) \/ Child(e)
      PROVE  [Owned!Next]_(Owned!systemVars)
  <2>1. UNCHANGED <<isRunning, startPc, readyPc, status, estr>>
    BY <1>3 DEF Supervisor, RunStep, RunStart, RunAppend, RunWaited, RunCheck,
       RunExhausted, RunSend, Closer, CloserQuits, Child, ChildExit, vpnVars,
       pointVars
  <2>2. UNCHANGED OwnerPc
    BY <2>1 DEF OwnerPc
  <2>3. Owned!Supervisor(e) \/ Owned!Closer(e) \/ Owned!Child(e)
    BY <1>3, <2>1, <2>2, SameRun DEF Supervisor, Closer, Child,
       Owned!Supervisor, Owned!Closer, Owned!Child
  <2> QED
    BY <2>3 DEF Owned!Next
<1>4. ASSUME NEW s \in Stops, Down(s)
      PROVE  [Owned!Next]_(Owned!systemVars)
  <2>1. UNCHANGED <<isRunning, startPc, readyPc, status, estr>>
    BY <1>4 DEF Down, DownStep, DownCheck, DownKill, DownSend, DownClear,
       vpnVars, pointVars
  <2>2. UNCHANGED OwnerPc
    BY <2>1 DEF OwnerPc
  <2>3. Owned!Down(s)
    BY <1>4, <2>1, <2>2, SameDown DEF Down, Owned!Down
  <2> QED
    BY <1>a, <2>3 DEF Owned!Next
<1> QED
  BY <1>1, <1>2, <1>3, <1>4, PointLoopOwns, StopLoopWOwns, ReadyOwns
  DEF Moves, Calls, ClientAnswers, Ready, Loop, Stopping, Interrupting, Timer

\* The supervisor knows nothing of the tun descriptor's files.
LEMMA ServiceOwnsAll ==
  Owning /\ Owning' /\ [Next]_allVars => [Owned!Next]_(Owned!systemVars)
<1>1. ASSUME Collector PROVE UNCHANGED Owned!systemVars
  <2>1. UNCHANGED <<isRunning, crashed, escortVars, estr, readyPc, startPc>>
    BY <1>1, CollectorKeeps
  <2>2. UNCHANGED OwnerPc
    BY <2>1 DEF OwnerPc, escortVars
  <2> QED
    BY <2>1, <2>2 DEF Owned!systemVars, Owned!vars, Owned!escortVars,
       escortVars
<1> QED
  BY <1>1, ServiceOwns, NextMoves

LEMMA InitOwns == Init => Owned!Init
<1> SUFFICES ASSUME Init PROVE Owned!Init
  OBVIOUS
<1>1. OwnerPc = [e \in Escorts |-> "new"]
  BY DEF Init, VpnInit, EscortInit, OwnerPc
<1> QED
  BY <1>1 DEF Init, VpnInit, EscortInit, NoProcess, Owned!Init,
     Owned!EscortInit, Owned!NoProcess

\* Whenever sessions start and end, and whatever the configurations are, the
\* service and the VPN mode use their Escorting objects as EscortSystem's owner
\* does: v.Estr is made, raised and given its one EscortRun in this order, the
\* root object is raised only by a pointloop that has found it down, and an
\* object that is down or in use is not made again (interact.go:189-190,
\* vpnservice_interact.go:37-40, 73-74). With several VpnSupportReady at a
\* time this is not so.
THEOREM OwnersKeepOrder ==
  ASSUME AnswersOneByOne
  PROVE  Spec => UsesEscortsAsOwner
<1>a. Spec => []Owning
  BY OwningInvariant
<1>1. Init => Supervision!Init
  BY InitOwns, SameSystem
<1>2. Owning /\ Owning' /\ [Next]_allVars =>
          [Supervision!Next]_(Supervision!systemVars)
  BY ServiceOwnsAll, SameSystem
<1> QED
  BY <1>a, <1>1, <1>2, PTL DEF Spec, UsesEscortsAsOwner, Supervision!Spec

-----------------------------------------------------------------------------
(* What the supervisor promises, inside the service.                         *)

\* EscortProofs' inductive invariant, of the service.
OwnedInv ==
    /\ Owned!TypeOK
    /\ Owned!CountInv
    /\ Owned!OwnerInv
    /\ Owned!ChildInv
    /\ Owned!CloserWaits

LEMMA OwnedInvariant ==
  ASSUME AnswersOneByOne
  PROVE  Spec => []OwnedInv
<1>a. Spec => []Owning
  BY OwningInvariant
<1>b. /\ {Root} \subseteq Escorts /\ TRUE \in BOOLEAN
      /\ Forgiveable \subseteq Escorts /\ RestartLimit \in Nat \ {0}
  BY RootAssumption, ForgiveableAssumption, RestartLimitAssumption
<1>1. Init => OwnedInv
  <2>1. Owned!Init => Owned!IInv
    BY <1>b, Owned!InitIInv
  <2> QED
    BY <2>1, InitOwns DEF Owned!IInv, OwnedInv
<1>2. OwnedInv /\ [Owned!Next]_(Owned!systemVars) => OwnedInv'
  <2> SUFFICES ASSUME OwnedInv, [Owned!Next]_(Owned!systemVars)
               PROVE  OwnedInv'
    OBVIOUS
  <2>1. (Owned!TypeOK)'
    BY <1>b, Owned!TypeStep DEF OwnedInv
  <2>2. (Owned!CountInv)'
    BY <1>b, Owned!CountStep DEF OwnedInv
  <2>3. (Owned!OwnerInv)'
    BY <1>b, Owned!OwnerInvStep DEF OwnedInv
  <2>4. (Owned!ChildInv)'
    BY <1>b, Owned!ChildStep DEF OwnedInv
  <2>5. (Owned!CloserWaits)'
    BY <1>b, Owned!CloserStep DEF OwnedInv
  <2> QED
    BY <2>1, <2>2, <2>3, <2>4, <2>5 DEF OwnedInv
<1> QED
  BY <1>a, <1>1, <1>2, ServiceOwnsAll, PTL DEF Spec

\* The token EscortingDown needs is not lost in any session: a closer waits
\* for it while the object is up, unless EscortRun has used up its restarts or
\* an EscortingDown is about to clear the list (escort.go:50-52, 60-79,
\* 98-112).
THEOREM ServiceKeepsToken ==
  ASSUME AnswersOneByOne
  PROVE  Spec => []CloserWaits
<1>a. Spec => []OwnedInv
  BY OwnedInvariant
<1>1. OwnedInv => CloserWaits
  BY DEF OwnedInv, Owned!CloserWaits, Owned!Spent, Owned!ClearPending,
     CloserWaits, Spent, ClearPending
<1> QED
  BY <1>a, <1>1, PTL

\* No session ever has two processes of one object (escort.go:15-48).
THEOREM ServiceRunsOneChild ==
  ASSUME AnswersOneByOne
  PROVE  Spec => []AtMostOneAlive
<1>a. Spec => []OwnedInv
  BY OwnedInvariant
<1>1. OwnedInv => AtMostOneAlive
  BY DEF OwnedInv, Owned!ChildInv, AtMostOneAlive
<1> QED
  BY <1>a, <1>1, PTL

\* While an object is up, the process that runs for it is in its list, or
\* EscortRun is about to append it (escort.go:31-37, 103-105). It says nothing
\* of an object that has been taken down: a process started between EscortRun's
\* test of IsRunning and its append outlives EscortingDown.
THEOREM ServiceTracksChildren ==
  ASSUME AnswersOneByOne
  PROVE  Spec => []TrackedOrInFlight
<1>a. Spec => []OwnedInv
  BY OwnedInvariant
<1>1. OwnedInv => TrackedOrInFlight
  BY DEF OwnedInv, Owned!ChildInv, TrackedOrInFlight
<1> QED
  BY <1>a, <1>1, PTL
=============================================================================
