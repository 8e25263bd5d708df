-------------------------- MODULE V2RayPointProofs --------------------------
(* Proofs about V2RayPoint, for all values of its constants.                 *)
EXTENDS V2RayPointProps, TLAPS

-----------------------------------------------------------------------------
(* The program's own steps, and the collector's.                             *)

\* A step that keeps the histories of the files, or is the collector's.
LEMMA NextMoves == [Next]_allVars => [Moves]_moveVars \/ Collector
  BY DEF Next, allVars

\* The collector touches nothing but the files and the tun descriptor.
LEMMA CollectorKeeps ==
  Collector =>
      UNCHANGED <<isRunning, crashed, escortVars, supportSet, vpnConf, estr,
                  nextGen, lowerup, staleClose, prepared, readyPc, startPc,
                  stopPc, intPc, gateVars, coreVars, confVars, clientVars>>
  BY DEF Collector, Finalize, pointVars

\* Only a finalizer that took the tun descriptor is more than a step of the
\* program or a stutter of it, and it is remembered.
LEMMA Harmless ==
  [Next]_allVars /\ ~lost' => ~lost /\ [Moves]_moveVars
<1>1. Moves => UNCHANGED lost
  BY DEF Moves, Calls, ClientAnswers, Ready, ReadyDropsFile, Loop, Stopping,
     Down, Interrupting, Timer, Supervisor, RunDropsFile, Closer, Child,
     KeepsFiles, fileVars
<1>2. Collector /\ ~lost' => ~lost /\ UNCHANGED moveVars
  BY DEF Collector, Finalize, moveVars, lowerVars, vpnVars
<1> QED
  BY <1>1, <1>2 DEF Next, allVars, fileVars

-----------------------------------------------------------------------------
(* Restarts and the gate.                                                    *)

GateTypeOK ==
    /\ intPc \in [Interrupts -> IntStates]
    /\ gate \in {0, 1}

\* Only these steps move a restart or the gate.
LEMMA GateSteps ==
  [Moves]_moveVars =>
      \/ UNCHANGED <<intPc, gateVars>>
      \/ TimerFires
      \/ \E p \in Starts : StartGate(p)
      \/ \E i \in Interrupts : Restart(i)
      \/ NetworkInterrupted
<1> USE DEF gateVars, pointVars
<1>1. ASSUME Client, ~NetworkInterrupted PROVE UNCHANGED <<intPc, gateVars>>
  BY <1>1 DEF Client, ClientSets, UpgradeToContext, ClientSetsVpn, RunLoop,
      StopLoop
<1>2. ASSUME NEW r \in ReadyCallers, ClientReady(r) \/ Ready(r)
      PROVE  UNCHANGED <<intPc, gateVars>>
  BY <1>2 DEF ClientReady, Ready
<1>3. ASSUME NEW p \in Starts, PointLoop(p), ~StartGate(p)
      PROVE  UNCHANGED <<intPc, gateVars>>
  BY <1>3 DEF PointLoop, StartLoad, StartNew, StartMark, StartCore,
      StartBranch, StartEscort, StartRaise, StartConf, StartVpn,
      StartScripts, StartTell
<1>4. ASSUME NEW s \in Stops, StopLoopW(s) \/ Down(s)
      PROVE  UNCHANGED <<intPc, gateVars>>
  BY <1>4 DEF Down, StopLoopW, StopMark, StopClose, StopBranch, StopFd,
      StopVpn, StopRoot, StopTell, StopFrame
<1>5. ASSUME NEW e \in Escorts, Supervisor(e) \/ Closer(e) \/ Child(e)
      PROVE  UNCHANGED <<intPc, gateVars>>
  BY <1>5 DEF Supervisor, Closer, Child
<1>6. CASE UNCHANGED moveVars
  BY <1>6 DEF moveVars
<1> QED
  BY <1>1, <1>2, <1>3, <1>4, <1>5, <1>6
  DEF Moves, Calls, ClientAnswers, Loop, Stopping, Interrupting, Timer

LEMMA GateInductive ==
  GateTypeOK /\ OverlapNeedsTimer /\ [Moves]_moveVars =>
      GateTypeOK' /\ OverlapNeedsTimer'
<1> SUFFICES ASSUME GateTypeOK, OverlapNeedsTimer, [Moves]_moveVars
             PROVE  GateTypeOK' /\ OverlapNeedsTimer'
  OBVIOUS
<1> USE DEF GateTypeOK, OverlapNeedsTimer, Restarting, IntStates, gateVars
<1>1. CASE UNCHANGED <<intPc, gateVars>>
  BY <1>1
<1>2. CASE TimerFires
  BY <1>2 DEF TimerFires
<1>3. ASSUME NEW p \in Starts, StartGate(p)
      PROVE  GateTypeOK' /\ OverlapNeedsTimer'
  BY <1>3 DEF StartGate
<1>4. ASSUME NEW i \in Interrupts, IntRead(i)
      PROVE  GateTypeOK' /\ OverlapNeedsTimer'
  BY <1>4 DEF IntRead, IntMoves
<1>5. ASSUME NEW i \in Interrupts, IntCas(i)
      PROVE  GateTypeOK' /\ OverlapNeedsTimer'
  BY <1>5 DEF IntCas, IntMoves
<1>6. ASSUME NEW i \in Interrupts, IntClose(i) \/ IntStart(i)
      PROVE  GateTypeOK' /\ OverlapNeedsTimer'
  <2>1. CASE intPc' = [intPc EXCEPT ![i] = "idle"] /\ Ends(i)
    BY <1>6, <2>1 DEF IntClose, IntStart, IntMoves, Ends
  <2>2. CASE reopened' = reopened
    BY <1>6, <2>2 DEF IntClose, IntStart, IntMoves
  <2> QED
    BY <1>6, <2>1, <2>2 DEF IntClose, IntStart, IntMoves
<1>7. ASSUME NEW i \in Interrupts, IntStore(i)
      PROVE  GateTypeOK' /\ OverlapNeedsTimer'
  BY <1>7 DEF IntStore, IntMoves, Ends
<1>8. CASE NetworkInterrupted
  BY <1>8 DEF NetworkInterrupted, IntMoves
<1> QED
  BY <1>1, <1>2, <1>3, <1>4, <1>5, <1>6, <1>7, <1>8, GateSteps DEF Restart

\* Any number of interruptions, sessions and timers: restarts overlap only
\* after a timer cleared the gate during one of them (interact.go:198-203 and
\* 325-330).
THEOREM RestartsExclude == Spec => []OverlapNeedsTimer
<1>1. Init => GateTypeOK /\ OverlapNeedsTimer
  BY DEF Init, GateTypeOK, OverlapNeedsTimer, Restarting, IntStates
<1>2. GateTypeOK /\ OverlapNeedsTimer /\ [Next]_allVars =>
          GateTypeOK' /\ OverlapNeedsTimer'
  <2>1. GateTypeOK /\ OverlapNeedsTimer /\ Collector =>
            GateTypeOK' /\ OverlapNeedsTimer'
    BY CollectorKeeps
    DEF GateTypeOK, OverlapNeedsTimer, Restarting, gateVars
  <2> QED
    BY <2>1, GateInductive, NextMoves
<1> QED
  BY <1>1, <1>2, PTL DEF Spec

-----------------------------------------------------------------------------
(* The workers of a client that waits for the status.                        *)

\* The client's phase says which worker runs, and it is the only one.
WorkerInv ==
    /\ startPc \in [Starts -> StartStates]
    /\ stopPc \in [Stops -> StopStates]
    /\ \A p \in Starts : startPc[p] # "idle" => client = "starting"
    /\ \A s \in Stops : stopPc[s] # "idle" => client = "stopping"
    /\ \A p, q \in Starts : startPc[p] # "idle" /\ startPc[q] # "idle" => p = q
    /\ \A s, t \in Stops : stopPc[s] # "idle" /\ stopPc[t] # "idle" => s = t

\* A step of pointloop moves that pointloop only, and tells the client only
\* when it ends.
LEMMA PointLoopMoves ==
  ASSUME NEW p \in Starts, PointLoop(p), startPc \in [Starts -> StartStates]
  PROVE  /\ startPc[p] # "idle"
         /\ \E x \in StartStates :
                /\ startPc' = [startPc EXCEPT ![p] = x]
                /\ client' = client \/ x = "idle"
         /\ UNCHANGED stopPc
<1> USE DEF StartMoves, StartStates, clientVars
<1>1. CASE StartLoad(p)
  BY <1>1 DEF StartLoad
<1>2. CASE StartNew(p) \/ StartMark(p) \/ StartCore(p) \/ StartBranch(p)
  BY <1>2 DEF StartNew, StartMark, StartCore, StartBranch
<1>3. CASE StartEscort(p) \/ StartRaise(p) \/ StartGate(p)
  BY <1>3 DEF StartEscort, StartRaise, StartGate
<1>4. CASE StartConf(p) \/ StartVpn(p) \/ StartScripts(p)
  BY <1>4 DEF StartConf, StartVpn, StartScripts
<1>5. CASE StartTell(p)
  BY <1>5 DEF StartTell
<1> QED
  BY <1>1, <1>2, <1>3, <1>4, <1>5 DEF PointLoop

\* The same of stopLoopW.
LEMMA StopLoopWMoves ==
  ASSUME NEW s \in Stops, StopLoopW(s), stopPc \in [Stops -> StopStates]
  PROVE  /\ stopPc[s] # "idle"
         /\ \E x \in StopStates :
                /\ stopPc' = [stopPc EXCEPT ![s] = x]
                /\ client' = client \/ x = "idle"
         /\ UNCHANGED startPc
<1> USE DEF StopMoves, StopFrame, StopStates, clientVars
<1>1. CASE StopMark(s) \/ StopClose(s) \/ StopBranch(s) \/ StopFd(s)
  BY <1>1 DEF StopMark, StopClose, StopBranch, StopFd
<1>2. CASE StopVpn(s) \/ StopRoot(s)
  BY <1>2 DEF StopVpn, StopRoot
<1>3. CASE StopTell(s)
  BY <1>3 DEF StopTell
<1> QED
  BY <1>1, <1>2, <1>3 DEF StopLoopW

\* Only the workers and the client's calls touch what WorkerInv speaks of.
LEMMA WorkerSteps ==
  [Moves]_moveVars =>
      \/ UNCHANGED <<startPc, stopPc, client>>
      \/ \E p \in Starts : PointLoop(p)
      \/ \E s \in Stops : StopLoopW(s)
      \/ RunLoop
      \/ StopLoop
<1> USE DEF clientVars, pointVars
<1>1. ASSUME Client, ~RunLoop, ~StopLoop
      PROVE  UNCHANGED <<startPc, stopPc, client>>
  BY <1>1 DEF Client, ClientSets, UpgradeToContext, ClientSetsVpn,
      NetworkInterrupted, IntMoves
<1>2. ASSUME NEW r \in ReadyCallers, ClientReady(r) \/ Ready(r)
      PROVE  UNCHANGED <<startPc, stopPc, client>>
  BY <1>2 DEF ClientReady, Ready
<1>3. ASSUME NEW s \in Stops, Down(s)
      PROVE  UNCHANGED <<startPc, stopPc, client>>
  BY <1>3 DEF Down
<1>4. ASSUME NEW i \in Interrupts, Restart(i)
      PROVE  UNCHANGED <<startPc, stopPc, client>>
  BY <1>4 DEF Restart, IntRead, IntCas, IntClose, IntStart, IntStore, IntMoves
<1>5. ASSUME TimerFires PROVE UNCHANGED <<startPc, stopPc, client>>
  BY <1>5 DEF TimerFires
<1>6. ASSUME NEW e \in Escorts, Supervisor(e) \/ Closer(e) \/ Child(e)
      PROVE  UNCHANGED <<startPc, stopPc, client>>
  BY <1>6 DEF Supervisor, Closer, Child
<1>7. CASE UNCHANGED moveVars
  BY <1>7 DEF moveVars
<1> QED
  BY <1>1, <1>2, <1>3, <1>4, <1>5, <1>6, <1>7
  DEF Moves, Calls, ClientAnswers, Loop, Stopping, Interrupting, Timer

LEMMA WorkerInductive ==
  ASSUME "status" \in Manners
  PROVE  WorkerInv /\ [Moves]_moveVars => WorkerInv'
<1> SUFFICES ASSUME WorkerInv, [Moves]_moveVars PROVE WorkerInv'
  OBVIOUS
<1> USE DEF WorkerInv
<1>1. CASE UNCHANGED <<startPc, stopPc, client>>
  BY <1>1
<1>2. ASSUME NEW p \in Starts, PointLoop(p) PROVE WorkerInv'
  BY <1>2, PointLoopMoves
<1>3. ASSUME NEW s \in Stops, StopLoopW(s) PROVE WorkerInv'
  BY <1>3, StopLoopWMoves
<1>4. CASE RunLoop
  BY <1>4 DEF RunLoop, Waits, Remembers, StartMoves, StartStates
<1>5. CASE StopLoop
  BY <1>5 DEF StopLoop, Waits, Remembers, StopMoves, StopStates
<1> QED
  BY <1>1, <1>2, <1>3, <1>4, <1>5, WorkerSteps

LEMMA WorkerInvariant ==
  ASSUME "status" \in Manners
  PROVE  Spec => []WorkerInv
<1>1. Init => WorkerInv
  BY DEF Init, WorkerInv, StartStates, StopStates
<1>2. WorkerInv /\ Collector => WorkerInv'
  BY CollectorKeeps DEF WorkerInv, clientVars
<1>3. WorkerInv /\ [Next]_allVars => WorkerInv'
  BY <1>2, WorkerInductive, NextMoves
<1> QED
  BY <1>1, <1>3, PTL DEF Spec

\* A client that waits for the status never has two workers at a time,
\* whatever its configurations and whatever else it does (interact.go:230-282).
THEOREM WorkersExclude ==
  ASSUME "status" \in Manners
  PROVE  Spec => []WorkersExclusive
<1>1. WorkerInv => WorkersExclusive
  BY DEF WorkerInv, WorkersExclusive
<1> QED
  BY <1>1, WorkerInvariant, PTL

-----------------------------------------------------------------------------
(* The core.                                                                 *)

\* Only these steps touch the core, IsRunning or the history of leaks.
LEMMA CoreSteps ==
  [Moves]_moveVars =>
      \/ UNCHANGED <<isRunning, coreVars>>
      \/ \E p \in Starts : StartNew(p) \/ StartMark(p) \/ StartCore(p)
      \/ \E s \in Stops : StopMark(s) \/ StopClose(s)
      \/ \E i \in Interrupts : IntClose(i) \/ IntStart(i)
<1> USE DEF coreVars, pointVars
<1>1. ASSUME Client PROVE UNCHANGED <<isRunning, coreVars>>
  BY <1>1 DEF Client, ClientSets, UpgradeToContext, ClientSetsVpn, RunLoop,
      StopLoop, NetworkInterrupted, IntMoves
<1>2. ASSUME NEW r \in ReadyCallers, ClientReady(r) \/ Ready(r)
      PROVE  UNCHANGED <<isRunning, coreVars>>
  BY <1>2 DEF ClientReady, Ready
<1>3. ASSUME NEW p \in Starts, PointLoop(p),
             ~StartNew(p), ~StartMark(p), ~StartCore(p)
      PROVE  UNCHANGED <<isRunning, coreVars>>
  BY <1>3 DEF PointLoop, StartLoad, StartBranch, StartEscort, StartRaise,
      StartGate, StartConf, StartVpn, StartScripts, StartTell
<1>4. ASSUME NEW s \in Stops, StopLoopW(s), ~StopMark(s), ~StopClose(s)
      PROVE  UNCHANGED <<isRunning, coreVars>>
  BY <1>4 DEF StopLoopW, StopBranch, StopFd, StopVpn, StopRoot, StopTell
<1>5. ASSUME NEW s \in Stops, Down(s)
      PROVE  UNCHANGED <<isRunning, coreVars>>
  BY <1>5 DEF Down
<1>6. ASSUME NEW i \in Interrupts, Restart(i), ~IntClose(i), ~IntStart(i)
      PROVE  UNCHANGED <<isRunning, coreVars>>
  BY <1>6 DEF Restart, IntRead, IntCas, IntStore, IntMoves
<1>7. ASSUME TimerFires PROVE UNCHANGED <<isRunning, coreVars>>
  BY <1>7 DEF TimerFires
<1>8. ASSUME NEW e \in Escorts, Supervisor(e) \/ Closer(e) \/ Child(e)
      PROVE  UNCHANGED <<isRunning, coreVars>>
  BY <1>8 DEF Supervisor, Closer, Child
<1>9. CASE UNCHANGED moveVars
  BY <1>9 DEF moveVars
<1> QED
  BY <1>1, <1>2, <1>3, <1>4, <1>5, <1>6, <1>7, <1>8, <1>9
  DEF Moves, Calls, ClientAnswers, Loop, Stopping, Interrupting, Timer

\* A pointloop that has called core.New and has not started the core yet.
Between(p) == startPc[p] \in {"mark", "start"}

\* IsRunning, and every pointloop past core.New, have a core in Vpoint, and a
\* failed one only until that pointloop has come past its Start.
MarkInv ==
    /\ startPc \in [Starts -> StartStates]
    /\ isRunning => vpoint # "nil"
    /\ \A p \in Starts : Between(p) => vpoint # "nil"
    /\ vpoint = "bad" /\ ~crashed => \E p \in Starts : Between(p)

\* Nobody clears Vpoint, and only core.New leaves the nil *Instance there.
LEMMA CoreStays ==
  [Moves]_moveVars =>
      /\ vpoint # "nil" => vpoint' # "nil"
      /\ vpoint' = "bad" => vpoint = "bad" \/ \E p \in Starts : StartNew(p)
<1>1. ASSUME NEW p \in Starts, StartNew(p) \/ StartMark(p) \/ StartCore(p)
      PROVE  /\ vpoint # "nil" => vpoint' # "nil"
             /\ vpoint' = "bad" => vpoint = "bad" \/ StartNew(p)
  BY <1>1 DEF StartNew, StartMark, StartCore, CoreNew, CoreStart, coreVars
<1>2. ASSUME NEW s \in Stops, StopMark(s) \/ StopClose(s)
      PROVE  /\ vpoint # "nil" => vpoint' # "nil"
             /\ vpoint' = "bad" => vpoint = "bad"
  BY <1>2 DEF StopMark, StopClose, CoreClose, coreVars
<1>3. ASSUME NEW i \in Interrupts, IntClose(i) \/ IntStart(i)
      PROVE  /\ vpoint # "nil" => vpoint' # "nil"
             /\ vpoint' = "bad" => vpoint = "bad"
  BY <1>3 DEF IntClose, IntStart, CoreClose, CoreStart, coreVars
<1> QED
  BY <1>1, <1>2, <1>3, CoreSteps DEF coreVars

\* A panic is for good.
LEMMA CrashStays == crashed /\ [Moves]_moveVars => crashed'
<1>1. ASSUME NEW e \in Escorts, Child(e) PROVE UNCHANGED crashed
  BY <1>1 DEF Child, ChildExit
<1>2. CASE UNCHANGED moveVars
  BY <1>2 DEF moveVars, lowerVars
<1> QED
  BY <1>1, <1>2 DEF Moves, Calls, ClientAnswers, Ready, Loop, Stopping, Down,
     Interrupting, Timer, Supervisor, Closer

\* Every way into pointloop's line 182 leads through core.New, and with a nil
\* *Instance the only way past line 183 is the panic.
LEMMA MarkInductive == MarkInv /\ [Moves]_moveVars => MarkInv'
<1> SUFFICES ASSUME MarkInv, [Moves]_moveVars PROVE MarkInv'
  OBVIOUS
<1>0. startPc \in [Starts -> StartStates]
  BY DEF MarkInv
<1>2. ASSUME NEW s \in Stops, StopLoopW(s) PROVE startPc' = startPc
  BY <1>2 DEF StopLoopW, StopMark, StopClose, StopBranch, StopFd, StopVpn,
     StopRoot, StopTell, StopFrame
<1>3. RunLoop => startPc' = startPc
                 \/ \E p \in Starts : /\ startPc[p] = "idle"
                                      /\ startPc' = [startPc EXCEPT ![p] = "load"]
  BY DEF RunLoop, StartMoves
<1>4. StopLoop => startPc' = startPc
  BY DEF StopLoop
<1>5. startPc' \in [Starts -> StartStates]
  BY <1>0, <1>2, <1>3, <1>4, WorkerSteps, PointLoopMoves DEF StartStates
<1>6. ASSUME NEW p \in Starts, Between(p)', ~Between(p) PROVE StartNew(p)
  <2>1. ASSUME NEW q \in Starts, PointLoop(q) PROVE StartNew(p)
    BY <1>0, <1>6, <2>1 DEF PointLoop, StartLoad, StartMark, StartCore,
       StartBranch, StartNew, StartEscort, StartRaise, StartGate, StartConf,
       StartVpn, StartScripts, StartTell, StartMoves, StartStates, Between
  <2> QED
    BY <1>0, <1>2, <1>3, <1>4, <1>6, <2>1, WorkerSteps DEF Between
<1>7. ASSUME NEW p \in Starts, Between(p)' PROVE vpoint' # "nil"
  BY <1>6, <1>7, CoreStays DEF MarkInv, StartNew, CoreNew
<1>8. isRunning' => isRunning \/ \E p \in Starts : StartMark(p)
  BY CoreSteps DEF StartNew, StartCore, StopMark, StopClose, IntClose,
     IntStart, IntMoves
<1>9. isRunning' => vpoint' # "nil"
  BY <1>8, CoreStays DEF MarkInv, StartMark, StartMoves, Between
<1>10. ASSUME NEW p \in Starts, StartNew(p) PROVE Between(p)'
  BY <1>0, <1>10 DEF StartNew, StartMoves, Between
<1>11. ASSUME NEW p \in Starts, Between(p), ~Between(p)', vpoint = "bad"
       PROVE  crashed' \/ vpoint' # "bad"
  <2>1. ASSUME NEW q \in Starts, PointLoop(q) PROVE crashed' \/ vpoint' # "bad"
    BY <1>0, <1>11, <2>1 DEF PointLoop, StartLoad, StartMark, StartCore,
       StartBranch, StartNew, StartEscort, StartRaise, StartGate, StartConf,
       StartVpn, StartScripts, StartTell, StartMoves, StartStates, Between,
       NoCore, Panic
  <2> QED
    BY <1>0, <1>2, <1>3, <1>4, <1>11, <2>1, WorkerSteps DEF Between
<1>12. vpoint' = "bad" /\ ~crashed' => \E p \in Starts : Between(p)'
  <2>1. ASSUME vpoint' = "bad", ~crashed', ~\E p \in Starts : StartNew(p)
        PROVE  \E p \in Starts : Between(p)'
    <3>1. vpoint = "bad" /\ ~crashed
      BY <2>1, CoreStays, CrashStays
    <3>2. PICK p \in Starts : Between(p)
      BY <3>1 DEF MarkInv
    <3> QED
      BY <1>11, <2>1, <3>1, <3>2
  <2> QED
    BY <1>10, <2>1
<1> QED
  BY <1>5, <1>7, <1>9, <1>12 DEF MarkInv

LEMMA MarkInvariant == Spec => []MarkInv
<1>1. Init => MarkInv
  BY DEF Init, MarkInv, StartStates, Between
<1>2. MarkInv /\ Collector => MarkInv'
  BY CollectorKeeps DEF MarkInv, Between, coreVars
<1>3. MarkInv /\ [Next]_allVars => MarkInv'
  BY <1>2, MarkInductive, NextMoves
<1> QED
  BY <1>1, <1>3, PTL DEF Spec

\* Whatever fails, and in whatever order RunLoop, StopLoop and
\* NetworkInterrupted are called and from however many threads: while IsRunning
\* and until a panic there is an instance in status.Vpoint, or the nil one of a
\* failed core.New whose pointloop has not come past Start yet, which is where
\* the program panics (interact.go:167-183, 246-247, 317-329).
THEOREM RunningMeansCore == Spec => []RunningHasCore
<1>1. MarkInv => RunningHasCore
  BY DEF MarkInv, Between, RunningHasCore, NoCore
<1> QED
  BY <1>1, MarkInvariant, PTL

\* Where the core of a client that waits for the status does not run.
CoreInv ==
    /\ ~leaked
    /\ client = "idle" => vpoint # "running"
    /\ \A p \in Starts : startPc[p] \in {"load", "new"} => vpoint # "running"
    /\ \A s \in Stops :
           stopPc[s] \notin {"idle", "mark", "close"} => vpoint # "running"

LEMMA CoreInductive ==
  ASSUME "status" \in Manners, Interrupts = {}
  PROVE  WorkerInv /\ CoreInv /\ [Moves]_moveVars => CoreInv'
<1> SUFFICES ASSUME WorkerInv, CoreInv, [Moves]_moveVars PROVE CoreInv'
  OBVIOUS
<1> USE DEF CoreInv, WorkerInv, StartMoves, StopMoves, coreVars
<1>1. ASSUME NEW p \in Starts, StartNew(p) PROVE CoreInv'
  BY <1>1 DEF StartNew, CoreNew, clientVars
<1>2. ASSUME NEW p \in Starts, StartCore(p) PROVE CoreInv'
  BY <1>2 DEF StartCore, CoreStart, clientVars
<1>3. ASSUME NEW s \in Stops, StopClose(s) PROVE CoreInv'
  BY <1>3 DEF StopClose, CoreClose, clientVars, StopFrame
<1>4. ASSUME UNCHANGED coreVars PROVE CoreInv'
  <2>1. ASSUME NEW p \in Starts, PointLoop(p) PROVE CoreInv'
    BY <1>4, <2>1 DEF PointLoop, StartLoad, StartNew, StartMark, StartCore,
       StartBranch, StartEscort, StartRaise, StartGate, StartConf, StartVpn,
       StartScripts, StartTell, clientVars
  <2>2. ASSUME NEW s \in Stops, StopLoopW(s), ~StopClose(s) PROVE CoreInv'
    BY <1>4, <2>2 DEF StopLoopW, StopMark, StopBranch, StopFd, StopVpn,
       StopRoot, StopTell, StopFrame, clientVars
  <2>3. CASE RunLoop
    BY <1>4, <2>3 DEF RunLoop, Waits, Remembers
  <2>4. CASE StopLoop
    BY <1>4, <2>4 DEF StopLoop, Waits, Remembers
  <2> QED
    BY <1>3, <1>4, <2>1, <2>2, <2>3, <2>4, WorkerSteps
<1> QED
  BY <1>1, <1>2, <1>3, <1>4, CoreSteps DEF StartMark, StopMark

\* Without network interruptions, a client that waits for the status never
\* has a running core replaced (interact.go:167, 247).
THEOREM CoreNotLeaked ==
  ASSUME "status" \in Manners, Interrupts = {}
  PROVE  Spec => []NoCoreLeaked
<1>1. Init => CoreInv
  BY DEF Init, CoreInv
<1>2. CoreInv => NoCoreLeaked
  BY DEF CoreInv, NoCoreLeaked
<1>3. WorkerInv /\ CoreInv /\ [Next]_allVars => CoreInv'
  <2>1. CoreInv /\ Collector => CoreInv'
    BY CollectorKeeps DEF CoreInv, coreVars, clientVars
  <2> QED
    BY <2>1, CoreInductive, NextMoves
<1> QED
  BY <1>1, <1>2, <1>3, WorkerInvariant, PTL DEF Spec

-----------------------------------------------------------------------------
(* The configuration in force.                                               *)

\* Only the client and the load of a pointloop touch the configurations.
LEMMA ConfSteps ==
  [Moves]_moveVars =>
      \/ UNCHANGED <<config, confng>>
      \/ \E c \in Configs : ClientSets(c)
      \/ \E p \in Starts : StartLoad(p)
<1> USE DEF clientVars, confVars, pointVars
<1>1. ASSUME Client, ~\E c \in Configs : ClientSets(c)
      PROVE  UNCHANGED <<config, confng>>
  BY <1>1 DEF Client, UpgradeToContext, ClientSetsVpn, RunLoop, StopLoop,
     NetworkInterrupted, IntMoves
<1>2. ASSUME NEW r \in ReadyCallers, ClientReady(r) \/ Ready(r)
      PROVE  UNCHANGED <<config, confng>>
  BY <1>2 DEF ClientReady, Ready
<1>3. ASSUME NEW p \in Starts, PointLoop(p), ~StartLoad(p)
      PROVE  UNCHANGED <<config, confng>>
  BY <1>3 DEF PointLoop, StartNew, StartMark, StartCore, StartBranch,
     StartEscort, StartRaise, StartGate, StartConf, StartVpn, StartScripts,
     StartTell
<1>4. ASSUME NEW s \in Stops, StopLoopW(s) \/ Down(s)
      PROVE  UNCHANGED <<config, confng>>
  BY <1>4 DEF Down, StopLoopW, StopMark, StopClose, StopBranch, StopFd,
     StopVpn, StopRoot, StopTell, StopFrame
<1>5. ASSUME NEW i \in Interrupts, Restart(i)
      PROVE  UNCHANGED <<config, confng>>
  BY <1>5 DEF Restart, IntRead, IntCas, IntClose, IntStart, IntStore, IntMoves
<1>6. ASSUME TimerFires PROVE UNCHANGED <<config, confng>>
  BY <1>6 DEF TimerFires
<1>7. ASSUME NEW e \in Escorts, Supervisor(e) \/ Closer(e) \/ Child(e)
      PROVE  UNCHANGED <<config, confng>>
  BY <1>7 DEF Supervisor, Closer, Child
<1>8. CASE UNCHANGED moveVars
  BY <1>8 DEF moveVars
<1> QED
  BY <1>1, <1>2, <1>3, <1>4, <1>5, <1>6, <1>7, <1>8
  DEF Moves, Calls, ClientAnswers, Loop, Stopping, Interrupting, Timer

\* What a step of pointloop after the load says of the program counter: it was
\* past the load before, and only its end serves the client.
LEMMA PastLoad ==
  ASSUME NEW p \in Starts, PointLoop(p), ~StartLoad(p),
         startPc \in [Starts -> StartStates]
  PROVE  /\ startPc[p] \notin {"idle", "load"}
         /\ startPc'[p] # "load"
         /\ \A q \in Starts : q # p => startPc'[q] = startPc[q]
         /\ client' = "serving" => client = "serving" \/ StartTell(p)
<1> USE DEF StartMoves, clientVars
<1>1. CASE StartNew(p) \/ StartMark(p) \/ StartCore(p) \/ StartBranch(p)
  BY <1>1 DEF StartNew, StartMark, StartCore, StartBranch
<1>2. CASE StartEscort(p) \/ StartRaise(p) \/ StartGate(p)
  BY <1>2 DEF StartEscort, StartRaise, StartGate
<1>3. CASE StartConf(p) \/ StartVpn(p) \/ StartScripts(p)
  BY <1>3 DEF StartConf, StartVpn, StartScripts
<1>4. CASE StartTell(p)
  BY <1>4 DEF StartTell
<1> QED
  BY <1>1, <1>2, <1>3, <1>4 DEF PointLoop

\* The configuration in force is the assigned one, or that is in protobuf and
\* has no part for this library.
InForce ==
    \/ confng = config.conf
    \/ config.kind \in {"protoText", "protoFile"} /\ config.conf = NoConf

\* So it is for a pointloop past the load, and for the client it serves.
ConfInv ==
    /\ client = "serving" => InForce
    /\ \A p \in Starts : startPc[p] \notin {"idle", "load"} => InForce

LEMMA ConfInductive ==
  ASSUME "status" \in Manners
  PROVE  WorkerInv /\ ConfInv /\ [Moves]_moveVars => ConfInv'
<1> SUFFICES ASSUME WorkerInv, ConfInv, [Moves]_moveVars PROVE ConfInv'
  OBVIOUS
<1>a. startPc \in [Starts -> StartStates]
  BY DEF WorkerInv
<1>1. ASSUME NEW c \in Configs, ClientSets(c) PROVE ConfInv'
  BY <1>1 DEF ClientSets, Waits, WorkerInv, ConfInv, clientVars
<1>2. ASSUME NEW p \in Starts, StartLoad(p) PROVE ConfInv'
  <2>1. startPc[p] = "load" /\ client = "starting" /\ UNCHANGED clientVars
    BY <1>2 DEF StartLoad, StartMoves, WorkerInv
  <2>2. \A q \in Starts : q # p => startPc[q] = "idle"
    BY <2>1 DEF WorkerInv
  <2>3. CASE startPc' = startPc
    BY <2>1, <2>2, <2>3 DEF ConfInv, clientVars
  <2>4. CASE startPc' = [startPc EXCEPT ![p] = "idle"]
    BY <1>a, <2>1, <2>2, <2>4 DEF ConfInv, clientVars
  <2>5. CASE confng' = LoadedConf(config, confng)
    BY <2>1, <2>5 DEF ConfInv, InForce, LoadedConf, clientVars
  <2> QED
    BY <1>2, <2>3, <2>4, <2>5 DEF StartLoad, StartMoves
<1>3. ASSUME UNCHANGED <<config, confng>> PROVE ConfInv'
  <2>0. InForce => InForce'
    BY <1>3 DEF InForce
  <2>1. ASSUME NEW p \in Starts, PointLoop(p), ~StartLoad(p) PROVE ConfInv'
    BY <1>a, <2>0, <2>1, PastLoad DEF ConfInv, StartTell, StartMoves
  <2>2. ASSUME NEW s \in Stops, StopLoopW(s) PROVE ConfInv'
    <3>1. client' = "serving" => client = "serving"
      BY <2>2 DEF StopLoopW, StopMark, StopClose, StopBranch, StopFd, StopVpn,
         StopRoot, StopTell, clientVars
    <3>2. startPc' = startPc
      BY <2>2, StopLoopWMoves DEF WorkerInv
    <3> QED
      BY <2>0, <3>1, <3>2 DEF ConfInv
  <2>3. CASE RunLoop
    BY <2>0, <2>3 DEF RunLoop, Waits, Remembers, StartMoves, ConfInv, WorkerInv
  <2>4. CASE StopLoop
    BY <2>0, <2>4 DEF StopLoop, Waits, Remembers, ConfInv
  <2>5. CASE UNCHANGED <<startPc, stopPc, client>>
    BY <2>0, <2>5 DEF ConfInv
  <2> QED
    BY <1>2, <2>1, <2>2, <2>3, <2>4, <2>5, WorkerSteps
<1> QED
  BY <1>1, <1>2, <1>3, ConfSteps

\* A client that waits for the status is served with the configuration it
\* assigned last, over any number of sessions, but for a protobuf message that
\* has no part for this library (interact.go:69-155).
THEOREM ConfigServed ==
  ASSUME "status" \in Manners
  PROVE  Spec => []ServesConfig
<1>1. Init => ConfInv
  BY DEF Init, ConfInv
<1>2. ConfInv => ServesConfig
  BY DEF ConfInv, InForce, ServesConfig
<1>3. WorkerInv /\ ConfInv /\ [Next]_allVars => ConfInv'
  <2>1. ConfInv /\ Collector => ConfInv'
    BY CollectorKeeps DEF ConfInv, InForce, clientVars, confVars
  <2> QED
    BY <2>1, ConfInductive, NextMoves
<1> QED
  BY <1>1, <1>2, <1>3, WorkerInvariant, PTL DEF Spec

-----------------------------------------------------------------------------
(* The tun descriptor.                                                       *)

tunVars == <<vpnConf, fd, staleClose, prepared, readyPc>>

\* Only these steps touch the tun descriptor and what decides about it.
LEMMA TunSteps ==
  [Moves]_moveVars =>
      \/ UNCHANGED tunVars
      \/ \E r \in ReadyCallers : ClientReady(r) \/ Ready(r)
      \/ \E p \in Starts : StartConf(p) \/ StartVpn(p)
      \/ \E s \in Stops : StopFd(s)
<1> USE DEF tunVars, vpnVars, lowerVars, pointVars
<1>1. ASSUME Client PROVE UNCHANGED tunVars
  BY <1>1 DEF Client, ClientSets, UpgradeToContext, ClientSetsVpn,
     SetVpnSupportSet, OptinNextGenerationTunInterface, RunLoop, StopLoop,
     NetworkInterrupted, IntMoves
<1>2. ASSUME NEW p \in Starts, PointLoop(p), ~StartConf(p), ~StartVpn(p)
      PROVE  UNCHANGED tunVars
  BY <1>2 DEF PointLoop, StartLoad, StartNew, StartMark, StartCore,
     StartBranch, StartEscort, StartRaise, StartGate, StartScripts, StartTell
<1>3. ASSUME NEW s \in Stops, StopLoopW(s), ~StopFd(s)
      PROVE  UNCHANGED tunVars
  BY <1>3 DEF StopLoopW, StopMark, StopClose, StopBranch, StopVpn,
     ShutdownEscort, ShutdownNextGen, StopRoot, StopTell
<1>4. ASSUME NEW s \in Stops, Down(s) PROVE UNCHANGED tunVars
  BY <1>4 DEF Down
<1>5. ASSUME NEW i \in Interrupts, Restart(i) PROVE UNCHANGED tunVars
  BY <1>5 DEF Restart, IntRead, IntCas, IntClose, IntStart, IntStore, IntMoves
<1>6. ASSUME TimerFires PROVE UNCHANGED tunVars
  BY <1>6 DEF TimerFires
<1>7. ASSUME NEW e \in Escorts, Supervisor(e) \/ Closer(e) \/ Child(e)
      PROVE  UNCHANGED tunVars
  BY <1>7 DEF Supervisor, Closer, Child
<1>8. CASE UNCHANGED moveVars
  BY <1>8 DEF moveVars
<1> QED
  BY <1>1, <1>2, <1>3, <1>4, <1>5, <1>6, <1>7, <1>8
  DEF Moves, Calls, ClientAnswers, Loop, Stopping, Interrupting, Timer

\* After a panic only the children go on.
LEMMA CrashedStays ==
  crashed /\ [Moves]_moveVars => UNCHANGED <<crashed, tunVars>>
<1> USE DEF tunVars, vpnVars, lowerVars
<1>1. ASSUME NEW e \in Escorts, Child(e) PROVE UNCHANGED <<crashed, tunVars>>
  BY <1>1 DEF Child, ChildExit
<1>2. CASE UNCHANGED moveVars
  BY <1>2 DEF moveVars
<1> QED
  BY <1>1, <1>2 DEF Moves, Calls, ClientAnswers, Ready, Loop, Stopping, Down,
     Interrupting, Timer, Supervisor, Closer

\* A tun interface is open, or the client has been asked for one and a thread
\* of it is on its way to open it.
Promised ==
    vpnConf = "on" => \/ prepared
                      \/ \E r \in ReadyCallers : readyPc[r] = "setup"
                      \/ fd = "open"
Held == vpnConf = "on" => fd = "open"

\* From VpnSetup on an interface is promised to the session, and StopLoop of a
\* client that has answered finds it open.
SessionHasTun ==
    /\ \A p \in Starts : startPc[p] = "scripts" => Promised
    /\ \A p \in Starts : startPc[p] = "tell" /\ confng # NoConf => Promised
    /\ client = "serving" /\ confng # NoConf => Promised
    /\ \A s \in Stops :
           stopPc[s] \in {"mark", "close", "branch"} /\ confng # NoConf => Held
    /\ \A s \in Stops : stopPc[s] = "fd" => Held

TunInv ==
    /\ readyPc \in [ReadyCallers -> ReadyStates]
    /\ ~staleClose
    /\ ~crashed => SessionHasTun

LEMMA TunInductive ==
  ASSUME {"status", "vpn"} \subseteq Manners
  PROVE  WorkerInv /\ TunInv /\ [Moves]_moveVars => TunInv'
<1> SUFFICES ASSUME WorkerInv, TunInv, [Moves]_moveVars PROVE TunInv'
  OBVIOUS
<1>a. startPc \in [Starts -> StartStates] /\ stopPc \in [Stops -> StopStates]
  BY DEF WorkerInv
<1>1. CASE crashed
  <2>1. crashed' /\ readyPc' = readyPc /\ staleClose' = staleClose
    BY <1>1, CrashedStays DEF tunVars
  <2> QED
    BY <2>1 DEF TunInv
<1>2. CASE ~crashed
  <2>a. SessionHasTun
    BY <1>2 DEF TunInv
  <2>b. readyPc \in [ReadyCallers -> ReadyStates] /\ ~staleClose
    BY DEF TunInv
  <2>1. ASSUME NEW r \in ReadyCallers,
               ClientReady(r) \/ Ready(r)
        PROVE  TunInv'
    <3>1. UNCHANGED <<startPc, stopPc, client, confng>>
      BY <2>1 DEF ClientReady, Ready, pointVars, clientVars,
         confVars
    <3>2. /\ readyPc' \in [ReadyCallers -> ReadyStates]
          /\ UNCHANGED <<vpnConf, staleClose>>
          /\ fd' \in {fd, "open"}
      BY <2>1, <2>b DEF ClientReady, Ready, VpnSupportReady, ReadyStep,
         ReadySetup, ReadyNewEscort, ReadyRaise, ReadySpawn, ReadyNextGen,
         ReadyMoves, ReadyStates
    <3>3. Promised => Promised'
      <4>1. CASE VpnSupportReady(r)
        BY <2>b, <4>1 DEF VpnSupportReady, Promised
      <4>2. CASE ReadySetup(r)
        BY <4>2 DEF ReadySetup, Promised
      <4>3. CASE ReadyStep(r) /\ ~ReadySetup(r)
        BY <2>b, <3>2, <4>3 DEF ReadyStep, ReadyNewEscort, ReadyRaise,
           ReadySpawn, ReadyNextGen, ReadyMoves, Promised
      <4> QED
        BY <2>1, <4>1, <4>2, <4>3 DEF ClientReady, Ready
    <3>4. Held => Held'
      BY <3>2 DEF Held
    <3> QED
      BY <2>a, <2>b, <3>1, <3>2, <3>3, <3>4 DEF TunInv, SessionHasTun
  <2>2. ASSUME NEW p \in Starts, StartConf(p) PROVE TunInv'
    BY <1>a, <2>2, <2>a, <2>b DEF StartConf, AssignConf, StartMoves,
       WorkerInv, TunInv, SessionHasTun, Promised, Held, vpnVars, confVars,
       clientVars
  <2>3. ASSUME NEW p \in Starts, StartVpn(p) PROVE TunInv'
    BY <1>a, <2>3, <2>a, <2>b DEF StartVpn, VpnSetup, Panic, StartMoves,
       WorkerInv, TunInv, SessionHasTun, Promised, Held, confVars, clientVars
  <2>4. ASSUME NEW s \in Stops, StopFd(s) PROVE TunInv'
    BY <1>a, <2>4, <2>a, <2>b DEF StopFd, ShutdownFd, Panic, StopMoves,
       StopFrame, WorkerInv, TunInv, SessionHasTun, Promised, Held,
       confVars, clientVars
  <2>5. ASSUME UNCHANGED tunVars PROVE TunInv'
    <3>a. /\ readyPc' \in [ReadyCallers -> ReadyStates]
          /\ ~staleClose'
          /\ Promised => Promised'
          /\ Held => Held'
      BY <2>5, <2>b DEF tunVars, Promised, Held
    <3>1. ASSUME NEW p \in Starts, StartLoad(p) PROVE SessionHasTun'
      BY <1>a, <3>1 DEF StartLoad, StartMoves, WorkerInv, SessionHasTun,
         clientVars
    <3>2. ASSUME NEW p \in Starts, PointLoop(p), UNCHANGED confng,
                 ~StartLoad(p), ~StartVpn(p)
          PROVE  SessionHasTun'
      <4>1. UNCHANGED stopPc /\ startPc[p] # "idle"
        BY <1>a, <3>2, PointLoopMoves
      <4>2. client = "starting"
        BY <4>1 DEF WorkerInv
      <4>3. CASE StartTell(p)
        BY <1>a, <2>a, <3>2, <3>a, <4>1, <4>2, <4>3
        DEF StartTell, StartMoves, WorkerInv, SessionHasTun
      <4>4. CASE StartScripts(p)
        BY <1>a, <2>a, <3>2, <3>a, <4>1, <4>2, <4>4
        DEF StartScripts, StartMoves, WorkerInv, SessionHasTun, clientVars
      <4>5. CASE StartBranch(p)
        BY <1>a, <2>a, <3>2, <3>a, <4>1, <4>2, <4>5
        DEF StartBranch, StartMoves, WorkerInv, SessionHasTun, clientVars
      <4>6. CASE \/ StartNew(p) \/ StartMark(p) \/ StartCore(p)
                 \/ StartEscort(p) \/ StartRaise(p) \/ StartGate(p)
                 \/ StartConf(p)
        BY <1>a, <2>a, <3>2, <3>a, <4>1, <4>2, <4>6
        DEF StartNew, StartMark, StartCore, StartEscort, StartRaise,
            StartGate, StartConf, StartMoves, WorkerInv, SessionHasTun,
            clientVars
      <4> QED
        BY <3>2, <4>3, <4>4, <4>5, <4>6 DEF PointLoop
    <3>3. ASSUME NEW s \in Stops, StopLoopW(s) PROVE SessionHasTun'
      <4>1. UNCHANGED <<startPc, confng>> /\ stopPc[s] # "idle"
        BY <1>a, <3>3, StopLoopWMoves DEF StopLoopW, StopMark, StopClose,
           StopBranch, StopFd, StopVpn, StopRoot, StopTell, StopFrame, confVars
      <4>2. client = "stopping" /\ client' # "serving"
        BY <3>3, <4>1 DEF WorkerInv, StopLoopW, StopMark, StopClose,
           StopBranch, StopFd, StopVpn, StopRoot, StopTell, clientVars
      <4>3. CASE StopMark(s) \/ StopClose(s) \/ StopBranch(s)
        BY <1>a, <2>a, <3>a, <4>1, <4>2, <4>3
        DEF StopMark, StopClose, StopBranch, StopMoves, WorkerInv,
            SessionHasTun
      <4>4. CASE StopFd(s) \/ StopVpn(s) \/ StopRoot(s) \/ StopTell(s)
        BY <1>a, <2>a, <3>a, <4>1, <4>2, <4>4
        DEF StopFd, StopVpn, StopRoot, StopTell, StopMoves, WorkerInv,
            SessionHasTun
      <4> QED
        BY <3>3, <4>3, <4>4 DEF StopLoopW
    <3>4. ASSUME RunLoop PROVE SessionHasTun'
      <4>1. client = "idle" /\ client' = "starting" /\ UNCHANGED stopPc
        BY <3>4 DEF RunLoop, Waits, Remembers
      <4>2. /\ \A p \in Starts : startPc[p] = "idle"
            /\ \A s \in Stops : stopPc[s] = "idle"
        BY <4>1 DEF WorkerInv
      <4>3. \A p \in Starts : startPc'[p] \in {"idle", "load"}
        BY <1>a, <3>4, <4>2 DEF RunLoop, StartMoves
      <4> QED
        BY <4>1, <4>2, <4>3 DEF SessionHasTun
    <3>5. ASSUME StopLoop PROVE SessionHasTun'
      <4>1. /\ client = "serving" /\ client' = "stopping"
            /\ ~prepared /\ \A r \in ReadyCallers : readyPc[r] = "idle"
            /\ UNCHANGED <<startPc, confng>>
        BY <3>5 DEF StopLoop, Waits, Remembers, confVars
      <4>2. confng # NoConf => Held
        BY <2>a, <4>1 DEF SessionHasTun, Promised, Held
      <4>3. \A q \in Starts : startPc[q] = "idle"
        BY <4>1 DEF WorkerInv
      <4> QED
        BY <1>a, <2>a, <3>5, <3>a, <4>1, <4>2, <4>3
        DEF StopLoop, StopMoves, WorkerInv, SessionHasTun
    <3>6. ASSUME UNCHANGED <<startPc, stopPc, client, confng>>
          PROVE  SessionHasTun'
      BY <2>a, <3>6, <3>a DEF SessionHasTun
    <3>7. ASSUME NEW c \in Configs, ClientSets(c)
          PROVE  UNCHANGED <<startPc, stopPc, client, confng>>
      BY <3>7 DEF ClientSets, confVars
    <3>8. ASSUME NEW p \in Starts, StartVpn(p) PROVE TunInv'
      BY <2>3, <3>8
    <3> QED
      BY <3>a, <3>1, <3>2, <3>3, <3>4, <3>5, <3>6, <3>7, <3>8, WorkerSteps,
         ConfSteps DEF TunInv
  <2> QED
    BY <2>1, <2>2, <2>3, <2>4, <2>5, TunSteps
<1> QED
  BY <1>1, <1>2

\* A client that waits for the status and answers every Prepare never makes
\* VpnShutdown close a descriptor the tun interface does not own, over any
\* number of sessions, until a finalizer closes the interface's descriptor
\* (vpnservice_interact.go:22-36, 57-69; escort.go:26).
THEOREM NothingStaleClosed ==
  ASSUME {"status", "vpn"} \subseteq Manners
  PROVE  Spec => []NoStaleClose
<1> DEFINE Inv == lost \/ TunInv
<1>a. Spec => []WorkerInv
  BY WorkerInvariant
<1>b. WorkerInv /\ Inv /\ [Next]_allVars => Inv'
  BY TunInductive, Harmless
<1>1. Init => Inv
  BY DEF Init, VpnInit, TunInv, SessionHasTun, ReadyStates
<1>2. Inv => NoStaleClose
  BY DEF TunInv, NoStaleClose
<1> QED
  BY <1>a, <1>b, <1>1, <1>2, PTL DEF Spec

-----------------------------------------------------------------------------
(* The service promised to the client.                                       *)

NobodySetsUp == ~prepared /\ \A r \in ReadyCallers : readyPc[r] # "setup"
Released == fd # "open"
\* The session was not told to use the VPN.
NoVpn == confng = NoConf \/ vpnConf # "on"

\* A session begins with the tun interface closed, and leaves it so unless it
\* uses the VPN; VpnShutdown closes it then.
SessionReleases ==
    /\ client = "idle" => Released
    /\ \A p \in Starts :
           /\ startPc[p] \notin {"idle", "scripts", "tell"} =>
                  NobodySetsUp /\ Released
           /\ startPc[p] = "scripts" /\ vpnConf # "on" =>
                  NobodySetsUp /\ Released
           /\ startPc[p] = "tell" /\ NoVpn => NobodySetsUp /\ Released
    /\ client = "serving" /\ NoVpn => NobodySetsUp /\ Released
    /\ \A s \in Stops :
           /\ stopPc[s] \in {"mark", "close", "branch"} /\ NoVpn => Released
           /\ stopPc[s] = "fd" /\ vpnConf # "on" => Released
           /\ stopPc[s] \notin {"idle", "mark", "close", "branch", "fd"} =>
                  Released

ReleaseInv ==
    /\ readyPc \in [ReadyCallers -> ReadyStates]
    /\ client \notin {"starting", "serving"} => NobodySetsUp
    /\ ~crashed => SessionReleases

LEMMA ReleaseWorker ==
  ASSUME WorkerInv, ReleaseInv, ~crashed, UNCHANGED tunVars,
         NEW p \in Starts, PointLoop(p), ~StartConf(p), ~StartVpn(p)
  PROVE  ReleaseInv'
<1>a. startPc \in [Starts -> StartStates] /\ stopPc \in [Stops -> StopStates]
  BY DEF WorkerInv
<1>b. UNCHANGED stopPc /\ startPc[p] # "idle"
  BY <1>a, PointLoopMoves
<1>c. /\ client = "starting"
      /\ \A q \in Starts : q # p => startPc[q] = "idle"
      /\ \A s \in Stops : stopPc[s] = "idle"
  BY <1>b DEF WorkerInv
<1>d. SessionReleases /\ readyPc' \in [ReadyCallers -> ReadyStates]
  BY DEF ReleaseInv, tunVars
<1>e. /\ NobodySetsUp => NobodySetsUp'
      /\ Released => Released'
      /\ vpnConf' = vpnConf
  BY DEF NobodySetsUp, Released, tunVars
<1>1. ASSUME StartLoad(p) PROVE SessionReleases' /\ client' = "starting"
  BY <1>a, <1>b, <1>c, <1>d, <1>e, <1>1
  DEF StartLoad, StartMoves, SessionReleases, clientVars
<1>2. ASSUME StartTell(p)
      PROVE  SessionReleases' /\ client' = "serving"
  BY <1>a, <1>b, <1>c, <1>d, <1>e, <1>2
  DEF StartTell, StartMoves, SessionReleases, NoVpn, confVars
<1>3. ASSUME StartScripts(p) PROVE SessionReleases' /\ client' = "starting"
  <2>1. confng # NoConf => (NoVpn <=> vpnConf # "on")
    BY DEF NoVpn
  <2> QED
    BY <1>a, <1>b, <1>c, <1>d, <1>e, <1>3, <2>1
    DEF StartScripts, StartMoves, SessionReleases, NoVpn, clientVars
<1>4. ASSUME StartBranch(p) PROVE SessionReleases' /\ client' = "starting"
  BY <1>a, <1>b, <1>c, <1>d, <1>e, <1>4
  DEF StartBranch, StartMoves, SessionReleases, clientVars
<1>5. ASSUME \/ StartNew(p) \/ StartMark(p) \/ StartCore(p)
             \/ StartEscort(p) \/ StartRaise(p) \/ StartGate(p)
      PROVE  SessionReleases' /\ client' = "starting"
  BY <1>a, <1>b, <1>c, <1>d, <1>e, <1>5
  DEF StartNew, StartMark, StartCore, StartEscort, StartRaise, StartGate,
      StartMoves, SessionReleases, clientVars
<1> QED
  BY <1>d, <1>1, <1>2, <1>3, <1>4, <1>5 DEF PointLoop, ReleaseInv

LEMMA ReleaseStop ==
  ASSUME WorkerInv, ReleaseInv, ~crashed, UNCHANGED tunVars,
         NEW s \in Stops, StopLoopW(s), ~StopFd(s)
  PROVE  ReleaseInv'
<1>a. startPc \in [Starts -> StartStates] /\ stopPc \in [Stops -> StopStates]
  BY DEF WorkerInv
<1>b. UNCHANGED <<startPc, confng>> /\ stopPc[s] # "idle"
  BY <1>a, StopLoopWMoves DEF StopLoopW, StopMark, StopClose, StopBranch,
     StopFd, StopVpn, StopRoot, StopTell, StopFrame, confVars
<1>c. /\ client = "stopping"
      /\ \A p \in Starts : startPc[p] = "idle"
      /\ \A t \in Stops : t # s => stopPc[t] = "idle"
  BY <1>b DEF WorkerInv
<1>d. /\ SessionReleases
      /\ readyPc' \in [ReadyCallers -> ReadyStates]
      /\ NobodySetsUp'
  BY <1>c DEF ReleaseInv, NobodySetsUp, tunVars
<1>e. /\ Released => Released'
      /\ NoVpn' => NoVpn
      /\ vpnConf' = vpnConf
  BY <1>b DEF NoVpn, Released, tunVars
<1>1. ASSUME StopMark(s) \/ StopClose(s) \/ StopBranch(s)
      PROVE  SessionReleases'
  BY <1>a, <1>b, <1>c, <1>d, <1>e, <1>1
  DEF StopMark, StopClose, StopBranch, StopMoves, SessionReleases, NoVpn,
      clientVars
<1>2. ASSUME StopVpn(s) \/ StopRoot(s) \/ StopTell(s)
      PROVE  SessionReleases'
  BY <1>a, <1>b, <1>c, <1>d, <1>e, <1>2
  DEF StopVpn, StopRoot, StopTell, StopMoves, SessionReleases, clientVars
<1> QED
  BY <1>d, <1>1, <1>2 DEF StopLoopW, ReleaseInv

LEMMA ReleaseInductive ==
  ASSUME {"status", "vpn"} \subseteq Manners
  PROVE  WorkerInv /\ ReleaseInv /\ [Moves]_moveVars => ReleaseInv'
<1> SUFFICES ASSUME WorkerInv, ReleaseInv, [Moves]_moveVars PROVE ReleaseInv'
  OBVIOUS
<1>a. startPc \in [Starts -> StartStates] /\ stopPc \in [Stops -> StopStates]
  BY DEF WorkerInv
<1>b. readyPc \in [ReadyCallers -> ReadyStates]
  BY DEF ReleaseInv
<1>1. ASSUME crashed PROVE ReleaseInv'
  <2>1. crashed' /\ UNCHANGED tunVars
    BY <1>1, CrashedStays
  <2>2. UNCHANGED client
    BY <1>1 DEF Moves, Calls, ClientAnswers, Ready, Loop, Stopping, Down,
       Interrupting, Timer, Supervisor, Closer, Child, moveVars, pointVars,
       clientVars
  <2> QED
    BY <2>1, <2>2 DEF ReleaseInv, NobodySetsUp, tunVars
<1>2. ASSUME ~crashed PROVE ReleaseInv'
  <2>a. SessionReleases
    BY <1>2 DEF ReleaseInv
  <2>1. ASSUME NEW r \in ReadyCallers, ClientReady(r) \/ Ready(r)
        PROVE  ReleaseInv'
    <3>1. UNCHANGED <<startPc, stopPc, client, confng>>
      BY <2>1 DEF ClientReady, Ready, pointVars, clientVars,
         confVars
    <3>2. readyPc' \in [ReadyCallers -> ReadyStates] /\ vpnConf' = vpnConf
      BY <2>1, <1>b DEF ClientReady, Ready, VpnSupportReady, ReadyStep,
         ReadySetup, ReadyNewEscort, ReadyRaise, ReadySpawn, ReadyNextGen,
         ReadyMoves, ReadyStates
    <3>3. CASE VpnSupportReady(r) \/ ReadySetup(r)
      <4>1. ~NobodySetsUp
        BY <3>3 DEF VpnSupportReady, ReadySetup, ReadyMoves, NobodySetsUp
      <4>2. client \in {"starting", "serving"}
        BY <4>1 DEF ReleaseInv
      <4>3. \A s \in Stops : stopPc[s] = "idle"
        BY <4>2 DEF WorkerInv
      <4> QED
        BY <2>a, <3>1, <3>2, <4>1, <4>2, <4>3
        DEF ReleaseInv, SessionReleases, NoVpn
    <3>4. CASE ReadyStep(r) /\ ~ReadySetup(r)
      <4>1. NobodySetsUp => NobodySetsUp'
        BY <1>b, <3>4 DEF ReadyStep, ReadyNewEscort, ReadyRaise, ReadySpawn,
           ReadyNextGen, ReadyMoves, NobodySetsUp
      <4>2. Released => Released'
        BY <3>4 DEF ReadyStep, ReadyNewEscort, ReadyRaise, ReadySpawn,
           ReadyNextGen, Released
      <4> QED
        BY <2>a, <3>1, <3>2, <4>1, <4>2
        DEF ReleaseInv, SessionReleases, NoVpn
    <3> QED
      BY <2>1, <3>3, <3>4 DEF ClientReady, Ready
  <2>2. ASSUME NEW p \in Starts, StartConf(p) PROVE ReleaseInv'
    BY <1>a, <1>b, <2>2, <2>a DEF StartConf, AssignConf, StartMoves,
       WorkerInv, ReleaseInv, SessionReleases, NobodySetsUp, Released, vpnVars,
       confVars, clientVars
  <2>3. ASSUME NEW p \in Starts, StartVpn(p) PROVE ReleaseInv'
    BY <1>a, <1>b, <2>3, <2>a DEF StartVpn, VpnSetup, Panic, StartMoves,
       WorkerInv, ReleaseInv, SessionReleases, NobodySetsUp, Released,
       confVars, clientVars
  <2>4. ASSUME NEW s \in Stops, StopFd(s) PROVE ReleaseInv'
    BY <1>a, <1>b, <2>4, <2>a DEF StopFd, ShutdownFd, Panic, StopMoves,
       StopFrame, WorkerInv, ReleaseInv, SessionReleases, NobodySetsUp,
       Released, NoVpn, confVars, clientVars
  <2>5. ASSUME UNCHANGED tunVars PROVE ReleaseInv'
    <3>a. /\ readyPc' \in [ReadyCallers -> ReadyStates]
          /\ NobodySetsUp => NobodySetsUp'
          /\ Released => Released'
          /\ vpnConf' = vpnConf
      BY <1>b, <2>5 DEF tunVars, NobodySetsUp, Released
    <3>1. ASSUME NEW p \in Starts, PointLoop(p) PROVE ReleaseInv'
      BY <1>2, <2>2, <2>3, <2>5, <3>1, ReleaseWorker
    <3>2. ASSUME NEW s \in Stops, StopLoopW(s) PROVE ReleaseInv'
      BY <1>2, <2>4, <2>5, <3>2, ReleaseStop
    <3>3. ASSUME RunLoop PROVE ReleaseInv'
      <4>1. client = "idle" /\ client' = "starting" /\ UNCHANGED stopPc
        BY <3>3 DEF RunLoop, Waits, Remembers
      <4>2. /\ \A p \in Starts : startPc[p] = "idle"
            /\ \A s \in Stops : stopPc[s] = "idle"
        BY <4>1 DEF WorkerInv
      <4>3. \A p \in Starts : startPc'[p] \in {"idle", "load"}
        BY <1>a, <3>3, <4>2 DEF RunLoop, StartMoves
      <4>4. NobodySetsUp /\ Released
        BY <2>a, <4>1 DEF ReleaseInv, SessionReleases
      <4> QED
        BY <3>a, <4>1, <4>2, <4>3, <4>4 DEF ReleaseInv, SessionReleases
    <3>4. ASSUME StopLoop PROVE ReleaseInv'
      <4>1. /\ client = "serving" /\ client' = "stopping" /\ NobodySetsUp
            /\ UNCHANGED <<startPc, confng>>
        BY <3>4 DEF StopLoop, Waits, Remembers, NobodySetsUp,
           confVars
      <4>2. NoVpn' => NoVpn
        BY <3>a, <4>1 DEF NoVpn
      <4>3. /\ \A p \in Starts : startPc[p] = "idle"
            /\ \A s \in Stops : stopPc[s] = "idle"
        BY <4>1 DEF WorkerInv
      <4>4. \A s \in Stops : stopPc'[s] \in {"idle", "mark"}
        BY <1>a, <3>4, <4>3 DEF StopLoop, StopMoves
      <4>5. NoVpn => Released
        BY <2>a, <4>1 DEF SessionReleases
      <4> QED
        BY <3>a, <4>1, <4>2, <4>3, <4>4, <4>5 DEF ReleaseInv, SessionReleases
    <3>5. ASSUME UNCHANGED <<startPc, stopPc, client, confng>>
          PROVE  ReleaseInv'
      BY <2>a, <3>5, <3>a DEF ReleaseInv, SessionReleases, NoVpn
    <3>6. ASSUME NEW c \in Configs, ClientSets(c)
          PROVE  UNCHANGED <<startPc, stopPc, client, confng>>
      BY <3>6 DEF ClientSets, confVars
    <3>7. ASSUME NEW p \in Starts, StartLoad(p) PROVE ReleaseInv'
      BY <3>1, <3>7 DEF PointLoop
    <3> QED
      BY <3>1, <3>2, <3>3, <3>4, <3>5, <3>6, <3>7, WorkerSteps, ConfSteps
  <2> QED
    BY <2>1, <2>2, <2>3, <2>4, <2>5, TunSteps
<1> QED
  BY <1>1, <1>2

\* A pointloop that is past the start of the core has it running.
CoreUp ==
    \A p \in Starts :
        startPc[p] \notin {"idle", "load", "new", "mark", "start"} =>
            vpoint = "running"

LEMMA CoreUpInductive ==
  ASSUME "status" \in Manners, Interrupts = {}, ~CoreMayFail
  PROVE  WorkerInv /\ CoreUp /\ [Moves]_moveVars => CoreUp'
<1> SUFFICES ASSUME WorkerInv, CoreUp, [Moves]_moveVars PROVE CoreUp'
  OBVIOUS
<1>a. startPc \in [Starts -> StartStates]
  BY DEF WorkerInv
<1>1. ASSUME NEW p \in Starts, PointLoop(p) PROVE CoreUp'
  <2>1. \A q \in Starts : q # p => startPc[q] = "idle"
    BY <1>a, <1>1, PointLoopMoves DEF WorkerInv
  <2>2. CASE StartLoad(p) \/ StartNew(p) \/ StartMark(p)
    BY <1>a, <2>1, <2>2 DEF StartLoad, StartNew, StartMark, StartMoves,
       CoreUp
  <2>3. CASE StartCore(p)
    BY <1>a, <2>1, <2>3 DEF StartCore, CoreStart, StartMoves, CoreUp, coreVars
  <2>4. CASE \/ StartBranch(p) \/ StartEscort(p) \/ StartRaise(p)
             \/ StartGate(p) \/ StartConf(p) \/ StartVpn(p)
             \/ StartScripts(p) \/ StartTell(p)
    BY <1>a, <2>1, <2>4 DEF StartBranch, StartEscort, StartRaise, StartGate,
       StartConf, StartVpn, StartScripts, StartTell, StartMoves, CoreUp,
       coreVars
  <2> QED
    BY <1>1, <2>2, <2>3, <2>4 DEF PointLoop
<1>2. ASSUME NEW s \in Stops, StopLoopW(s) PROVE CoreUp'
  BY <1>2, StopLoopWMoves DEF WorkerInv, CoreUp
<1>3. ASSUME RunLoop PROVE CoreUp'
  <2>1. \A p \in Starts : startPc'[p] \in {"idle", "load"}
    BY <1>a, <1>3 DEF RunLoop, Waits, StartMoves, WorkerInv
  <2> QED
    BY <2>1 DEF CoreUp
<1>4. ASSUME UNCHANGED <<startPc, vpoint>> PROVE CoreUp'
  BY <1>4 DEF CoreUp
<1>5. ASSUME StopLoop PROVE UNCHANGED <<startPc, vpoint>>
  BY <1>5 DEF StopLoop, coreVars
<1>6. ASSUME UNCHANGED <<startPc, stopPc, client>>,
             ~\E p \in Starts : PointLoop(p), ~\E s \in Stops : StopLoopW(s)
      PROVE  UNCHANGED <<startPc, vpoint>>
  BY <1>6, CoreSteps DEF PointLoop, StopLoopW, coreVars
<1> QED
  BY <1>1, <1>2, <1>3, <1>4, <1>5, <1>6, WorkerSteps

PromiseInv == WorkerInv /\ CoreInv /\ CoreUp /\ ReleaseInv

\* Every step of the program is one of the service, or changes nothing of it.
LEMMA ServiceStep ==
  ASSUME {"status", "vpn"} \subseteq Manners, Interrupts = {}, ~CoreMayFail
  PROVE  PromiseInv /\ [Moves]_moveVars =>
             [Promise!ServiceNext]_(Promise!serviceVars)
<1> SUFFICES ASSUME PromiseInv, [Moves]_moveVars
             PROVE  [Promise!ServiceNext]_(Promise!serviceVars)
  OBVIOUS
<1> USE DEF Promise!serviceVars
<1>a. /\ WorkerInv
      /\ startPc \in [Starts -> StartStates]
      /\ stopPc \in [Stops -> StopStates]
  BY DEF PromiseInv, WorkerInv
<1>b. crashed \/ SessionReleases
  BY DEF PromiseInv, ReleaseInv
<1>0. UNCHANGED <<client, vpoint, fd>> => UNCHANGED Promise!serviceVars
  OBVIOUS
<1>1. ASSUME NEW p \in Starts, PointLoop(p)
      PROVE  [Promise!ServiceNext]_(Promise!serviceVars)
  <2>1. client = "starting" /\ fd' = fd
    BY <1>a, <1>1, PointLoopMoves DEF WorkerInv, PointLoop, StartLoad,
       StartNew, StartMark, StartCore, StartBranch, StartEscort, StartRaise,
       StartGate, StartConf, StartVpn, StartScripts, StartTell, AssignConf,
       VpnSetup, lowerVars, vpnVars
  <2>2. CASE StartNew(p)
    <3>1. vpoint # "running" /\ vpoint' # "running" /\ client' = client
      BY <2>2 DEF StartNew, StartMoves, CoreNew, PromiseInv, CoreInv,
         clientVars
    <3> QED
      BY <2>1, <3>1
  <2>3. CASE StartCore(p)
    <3>1. client' = client /\ (vpoint' = vpoint \/ vpoint' = "running")
      BY <2>3 DEF StartCore, CoreStart, clientVars, coreVars
    <3> QED
      BY <2>1, <3>1 DEF Promise!ServiceNext, Promise!Acquire
  <2>4. CASE StartTell(p)
    <3>1. client' = "serving" /\ vpoint = "running" /\ vpoint' = vpoint
      BY <2>1, <2>4 DEF StartTell, StartMoves, PromiseInv, CoreUp, coreVars
    <3> QED
      BY <2>1, <3>1 DEF Promise!ServiceNext, Promise!Serve
  <2>5. CASE \/ StartLoad(p) \/ StartMark(p) \/ StartBranch(p)
             \/ StartEscort(p) \/ StartRaise(p) \/ StartGate(p)
             \/ StartConf(p) \/ StartVpn(p) \/ StartScripts(p)
    <3>1. UNCHANGED <<client, vpoint>>
      BY <2>5 DEF StartLoad, StartMark, StartBranch, StartEscort, StartRaise,
         StartGate, StartConf, StartVpn, StartScripts, clientVars, coreVars
    <3> QED
      BY <1>0, <2>1, <3>1
  <2> QED
    BY <1>1, <2>2, <2>3, <2>4, <2>5 DEF PointLoop
<1>2. ASSUME NEW s \in Stops, StopLoopW(s), ~crashed
      PROVE  [Promise!ServiceNext]_(Promise!serviceVars)
  <2>1. client = "stopping"
    BY <1>a, <1>2, StopLoopWMoves DEF WorkerInv
  <2>2. CASE StopClose(s)
    <3>1. /\ client' = client /\ fd' = fd
          /\ vpoint' = vpoint \/ vpoint' = "closed"
      BY <2>2 DEF StopClose, CoreClose, clientVars, coreVars, vpnVars
    <3> QED
      BY <2>1, <3>1 DEF Promise!ServiceNext, Promise!Release
  <2>3. CASE StopFd(s)
    <3>1. /\ client' = client /\ vpoint' = vpoint
          /\ fd' = fd \/ fd' = "closed"
      BY <2>3 DEF StopFd, ShutdownFd, clientVars, coreVars
    <3> QED
      BY <2>1, <3>1 DEF Promise!ServiceNext, Promise!Release
  <2>4. CASE StopTell(s)
    <3>1. client' = "idle" /\ UNCHANGED <<vpoint, fd>> /\ stopPc[s] = "tell"
      BY <2>1, <2>4 DEF StopTell, StopMoves, coreVars, lowerVars, vpnVars
    <3>2. vpoint # "running" /\ fd # "open"
      BY <1>2, <1>b, <3>1 DEF PromiseInv, CoreInv, SessionReleases, Released
    <3> QED
      BY <2>1, <3>1, <3>2 DEF Promise!ServiceNext, Promise!Close
  <2>5. CASE StopMark(s) \/ StopBranch(s) \/ StopVpn(s) \/ StopRoot(s)
    <3>1. UNCHANGED <<client, vpoint, fd>>
      BY <2>5 DEF StopMark, StopBranch, StopVpn, ShutdownEscort,
         ShutdownNextGen, StopRoot, clientVars, coreVars, lowerVars, vpnVars
    <3> QED
      BY <1>0, <3>1
  <2> QED
    BY <1>2, <2>2, <2>3, <2>4, <2>5 DEF StopLoopW
<1>3. ASSUME NEW r \in ReadyCallers, Ready(r)
      PROVE  [Promise!ServiceNext]_(Promise!serviceVars)
  <2>1. UNCHANGED <<client, vpoint>>
    BY <1>3 DEF Ready, pointVars, clientVars, coreVars
  <2>2. CASE ReadySetup(r)
    <3>1. fd' = "open" /\ ~NobodySetsUp
      BY <2>2 DEF ReadySetup, ReadyMoves, NobodySetsUp
    <3>2. client \in {"starting", "serving"}
      BY <3>1 DEF PromiseInv, ReleaseInv
    <3> QED
      BY <2>1, <3>1, <3>2 DEF Promise!ServiceNext, Promise!Acquire
  <2>3. CASE ~ReadySetup(r)
    <3>1. fd' = fd
      BY <1>3, <2>3 DEF Ready, ReadyStep, ReadyNewEscort, ReadyRaise,
         ReadySpawn, ReadyNextGen
    <3> QED
      BY <1>0, <2>1, <3>1
  <2> QED
    BY <2>2, <2>3
<1>4. ASSUME RunLoop \/ StopLoop
      PROVE  [Promise!ServiceNext]_(Promise!serviceVars)
  <2>1. /\ UNCHANGED <<vpoint, fd>>
        /\ \/ client = "idle" /\ client' = "starting"
           \/ client = "serving" /\ client' = "stopping"
    BY <1>4 DEF RunLoop, StopLoop, Waits, Remembers, lowerVars, vpnVars,
       coreVars
  <2> QED
    BY <2>1 DEF Promise!ServiceNext, Promise!Start, Promise!Stop
<1>5. ASSUME Client, ~RunLoop, ~StopLoop PROVE UNCHANGED <<client, vpoint, fd>>
  BY <1>5 DEF Client, ClientSets, UpgradeToContext, ClientSetsVpn,
     SetVpnSupportSet, OptinNextGenerationTunInterface, NetworkInterrupted,
     IntMoves, clientVars, coreVars, pointVars, lowerVars, vpnVars
<1>6. ASSUME NEW r \in ReadyCallers, ClientReady(r)
      PROVE  UNCHANGED <<client, vpoint, fd>>
  BY <1>6 DEF ClientReady, VpnSupportReady, pointVars, clientVars, coreVars
<1>7. ASSUME TimerFires \/ \E s \in Stops : Down(s)
      PROVE  UNCHANGED <<client, vpoint, fd>>
  BY <1>7 DEF TimerFires, Down, lowerVars, vpnVars, pointVars, clientVars,
     coreVars
<1>8. ASSUME NEW e \in Escorts, Supervisor(e) \/ Closer(e) \/ Child(e)
      PROVE  UNCHANGED <<client, vpoint, fd>>
  BY <1>8 DEF Supervisor, Closer, Child, vpnVars, pointVars, clientVars,
     coreVars
<1>9. CASE UNCHANGED moveVars
  BY <1>9 DEF moveVars, lowerVars, vpnVars, pointVars, clientVars, coreVars
<1> QED
  BY <1>0, <1>1, <1>2, <1>3, <1>4, <1>5, <1>6, <1>7, <1>8, <1>9
  DEF Moves, Calls, ClientAnswers, Loop, Stopping, Interrupting, Timer

\* Over any number of sessions, with or without the VPN and whatever the
\* configurations are, a client that waits for the status and answers every
\* Prepare is told "Running" only when the core runs and "Closed" only when
\* neither the core nor the tun interface is left, and nothing is acquired
\* outside a session, whatever finalizers do to the tun interface meanwhile
\* (interact.go:66-282, vpnservice_interact.go:22-76, escort.go:26).
\* A core that fails to start, and network interruptions, are excluded: with
\* either the promise is not kept.
THEOREM ServiceImplemented ==
  ASSUME {"status", "vpn"} \subseteq Manners, Interrupts = {}, ~CoreMayFail
  PROVE  Spec => ImplementsService
<1>a. Spec => []WorkerInv
  BY WorkerInvariant
<1>1. Init => CoreInv /\ CoreUp /\ ReleaseInv
  BY DEF Init, VpnInit, CoreInv, CoreUp, ReleaseInv, SessionReleases,
     NobodySetsUp, Released, ReadyStates
<1>b. CoreInv /\ CoreUp /\ ReleaseInv /\ Collector =>
          CoreInv' /\ CoreUp' /\ ReleaseInv'
  BY CollectorKeeps DEF CoreInv, CoreUp, ReleaseInv, SessionReleases, NoVpn,
     NobodySetsUp, Released, Collector, Finalize, coreVars, clientVars,
     confVars
<1>2. WorkerInv /\ CoreInv /\ CoreUp /\ ReleaseInv /\ [Next]_allVars =>
          CoreInv' /\ CoreUp' /\ ReleaseInv'
  BY <1>b, CoreInductive, CoreUpInductive, ReleaseInductive, NextMoves
<1>5. WorkerInv /\ CoreInv /\ CoreUp /\ ReleaseInv => PromiseInv
  BY DEF PromiseInv
<1>6. PromiseInv /\ [Next]_allVars =>
          [Promise!ServiceNext]_(Promise!serviceVars)
  <2>1. Collector => [Promise!ServiceNext]_(Promise!serviceVars)
    BY CollectorKeeps DEF Collector, Finalize, Promise!ServiceNext,
       Promise!Lose, Promise!serviceVars, coreVars, clientVars
  <2> QED
    BY <2>1, ServiceStep, NextMoves
<1>7. Init => Promise!ServiceInit
  BY DEF Init, VpnInit, Promise!ServiceInit
<1> QED
  BY <1>a, <1>1, <1>2, <1>5, <1>6, <1>7, PTL
  DEF Spec, ImplementsService, Promise!ServiceSpec
=============================================================================
