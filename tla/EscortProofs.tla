---------------------------- MODULE EscortProofs ----------------------------
(* Proofs about EscortSystem, for every number of objects, callers and       *)
(* restarts.                                                                 *)
EXTENDS EscortSystem, TLAPS

\* EscortRun's counter: positive inside the loop, zero after it.
CountInv ==
    \A e \in Escorts :
        /\ runPc[e] \in {"start", "append", "wait", "check"} => count[e] > 0
        /\ runPc[e] \in {"exhausted", "send"} => count[e] = 0

\* How far an owner is with an object: a root object has no status, hence no
\* child, and a VPN object that is not spawned has no EscortRun.
OwnerInv ==
    \A e \in Escorts :
        /\ e \in Roots =>
               /\ ownerPc[e] \in {"new", "made"}
               /\ ~status[e]
               /\ alive[e] = {}
        /\ e \notin Roots /\ ownerPc[e] \in {"made", "raised"} =>
               runPc[e] = "none"

\* The only child that can run is that of the current command, while EscortRun
\* is about to append it or waits for it; then it is in the list of an object
\* that is up.
ChildInv ==
    \A e \in Escorts :
        /\ alive[e] \subseteq {cmd[e]}
        /\ alive[e] # {} => runPc[e] \in {"append", "wait"}
        /\ up[e] /\ runPc[e] = "wait" => alive[e] \subseteq escortProcess[e]

IInv == TypeOK /\ CountInv /\ OwnerInv /\ ChildInv /\ CloserWaits

-----------------------------------------------------------------------------
\* What the proofs need of handles.
LEMMA HandleFacts ==
  /\ RestartLimit \in Nat /\ RestartLimit > 0
  /\ NoProcess \in Handles
  /\ Children \subseteq Handles
  /\ \A n \in 0..RestartLimit : n > 0 => n \in Children
  BY RestartLimitAssumption DEF NoProcess, Handles, Children

LEMMA InitIInv == Init => IInv
<1> SUFFICES ASSUME Init PROVE IInv
  OBVIOUS
<1> USE DEF Init, EscortInit
<1>1. /\ count \in [Escorts -> 0..RestartLimit]
      /\ cmd \in [Escorts -> Handles]
  BY HandleFacts
<1>2. /\ escortProcess \in [Escorts -> SUBSET Handles]
      /\ alive \in [Escorts -> SUBSET Children]
  OBVIOUS
<1>3. TypeOK
  BY <1>1, <1>2
  DEF TypeOK, EscortTypeOK, RunStates, DownStates, OwnerStates
<1>4. CountInv /\ OwnerInv /\ ChildInv /\ CloserWaits
  BY DEF CountInv, OwnerInv, ChildInv, CloserWaits
<1> QED
  BY <1>3, <1>4 DEF IInv

\* EscortRun takes the handle of a child from its counter, which CountInv keeps
\* positive.
LEMMA TypeStep ==
  TypeOK /\ CountInv /\ [Next]_systemVars => TypeOK'
<1> SUFFICES ASSUME TypeOK, CountInv, [Next]_systemVars
             PROVE  TypeOK'
  OBVIOUS
<1> USE DEF TypeOK, EscortTypeOK, CountInv, RunStates, DownStates, OwnerStates
<1>1. CASE SetRunning
  BY <1>1 DEF SetRunning, escortVars
<1>2. ASSUME NEW e \in Escorts, Make(e) PROVE TypeOK'
  BY <1>2 DEF Make, OwnerStep, NewEscort, closerVars, downVars
<1>3. ASSUME NEW e \in Escorts, Raise(e) PROVE TypeOK'
  <2>1. up' \in [Escorts -> BOOLEAN]
    BY <1>3 DEF Raise, OwnerStep, EscortingUPV, RaiseList, runVars, downVars
  <2>2. escortProcess' \in [Escorts -> SUBSET Handles]
    BY <1>3 DEF Raise, OwnerStep, EscortingUPV, RaiseList, runVars, downVars
  <2>3. recv' \in [Escorts -> Nat]
    BY <1>3 DEF Raise, OwnerStep, EscortingUPV, RaiseList, runVars, downVars
  <2>4. ownerPc' \in [Escorts -> OwnerStates]
    BY <1>3 DEF Raise, OwnerStep, EscortingUPV, RaiseList, runVars, downVars
  <2> QED
    BY <1>3, <2>1, <2>2, <2>3, <2>4 DEF Raise, OwnerStep, EscortingUPV,
        RaiseList, runVars, downVars
<1>4. ASSUME NEW e \in Escorts, Spawn(e) PROVE TypeOK'
  BY <1>4, HandleFacts DEF Spawn, OwnerStep, SpawnEscortRun, GoEscortRun,
      closerVars, downVars
<1>5. ASSUME NEW e \in Escorts, CheckRoot(e) PROVE TypeOK'
  BY <1>5 DEF CheckRoot, OwnerStep, escortVars
<1>6. ASSUME NEW e \in Escorts, RaiseRoot(e) PROVE TypeOK'
  BY <1>6, HandleFacts DEF RaiseRoot, OwnerStep, EscortingUP, RaiseList,
      GoEscortRun, runVars, downVars
<1>7. ASSUME NEW d \in DownCallers, EscortingDownReturns(d),
             UNCHANGED <<isRunning, ownerPc>>
      PROVE  TypeOK'
  BY <1>7 DEF EscortingDownReturns, closerVars, runVars
<1>8. ASSUME NEW d \in DownCallers, NEW e \in Escorts, CallEscortingDown(d, e),
             UNCHANGED <<isRunning, ownerPc>>
      PROVE  TypeOK'
  BY <1>8 DEF CallEscortingDown, closerVars, runVars
<1>9. ASSUME NEW e \in Escorts, RunStart(e, StartMayFail),
             UNCHANGED <<isRunning, ownerPc>>
      PROVE  TypeOK'
  <2>1. count[e] \in Children
    BY <1>9, HandleFacts DEF RunStart, Panic, runVars, closerVars, downVars
  <2>2. cmd' \in [Escorts -> Handles]
    BY <1>9, <2>1, HandleFacts DEF RunStart, Panic, runVars, closerVars,
        downVars
  <2>3. alive' \in [Escorts -> SUBSET Children]
    BY <1>9, <2>1 DEF RunStart, Panic, runVars, closerVars, downVars
  <2>4. runPc' \in [Escorts -> RunStates]
    BY <1>9 DEF RunStart, Panic, runVars, closerVars, downVars
  <2>5. crashed' \in BOOLEAN
    BY <1>9 DEF RunStart, Panic, runVars, closerVars, downVars
  <2> QED
    BY <1>9, <2>1, <2>2, <2>3, <2>4, <2>5 DEF RunStart, Panic, runVars,
        closerVars, downVars
<1>10. ASSUME NEW e \in Escorts, RunAppend(e),
             UNCHANGED <<isRunning, ownerPc>>
      PROVE  TypeOK'
  <2>1. escortProcess' \in [Escorts -> SUBSET Handles]
    BY <1>10 DEF RunAppend, Panic, closerVars, downVars
  <2> QED
    BY <1>10, <2>1 DEF RunAppend, Panic, closerVars, downVars
<1>11. ASSUME NEW e \in Escorts, RunWaited(e),
             UNCHANGED <<isRunning, ownerPc>>
      PROVE  TypeOK'
  BY <1>11 DEF RunWaited, closerVars, downVars
<1>12. ASSUME NEW e \in Escorts, RunCheck(e),
             UNCHANGED <<isRunning, ownerPc>>
      PROVE  TypeOK'
  BY <1>12, HandleFacts DEF RunCheck, closerVars, downVars
<1>13. ASSUME NEW e \in Escorts, RunExhausted(e),
             UNCHANGED <<isRunning, ownerPc>>
      PROVE  TypeOK'
  BY <1>13 DEF RunExhausted, closerVars, downVars
<1>14. ASSUME NEW e \in Escorts, RunSend(e),
             UNCHANGED <<isRunning, ownerPc>>
      PROVE  TypeOK'
  BY <1>14 DEF RunSend, CloserReceives, closerVars, downVars
<1>15. ASSUME NEW e \in Escorts, CloserQuits(e),
             UNCHANGED <<isRunning, ownerPc>>
      PROVE  TypeOK'
  BY <1>15 DEF CloserQuits, runVars, downVars
<1>16. ASSUME NEW e \in Escorts, ChildExit(e),
             UNCHANGED <<isRunning, ownerPc>>
      PROVE  TypeOK'
  BY <1>16 DEF ChildExit, closerVars, runVars, downVars
<1>17. ASSUME NEW d \in DownCallers, DownCheck(d),
             UNCHANGED <<isRunning, ownerPc>>
      PROVE  TypeOK'
  BY <1>17 DEF DownCheck, closerVars, runVars
<1>18. ASSUME NEW d \in DownCallers, DownKill(d),
             UNCHANGED <<isRunning, ownerPc>>
      PROVE  TypeOK'
  <2>1. alive' \in [Escorts -> SUBSET Children]
    BY <1>18 DEF DownKill, Panic, closerVars, runVars
  <2> QED
    BY <1>18, <2>1 DEF DownKill, Panic, closerVars, runVars
<1>19. ASSUME NEW d \in DownCallers, DownSend(d),
             UNCHANGED <<isRunning, ownerPc>>
      PROVE  TypeOK'
  BY <1>19 DEF DownSend, CloserReceives, closerVars, runVars
<1>20. ASSUME NEW d \in DownCallers, DownClear(d),
             UNCHANGED <<isRunning, ownerPc>>
      PROVE  TypeOK'
  BY <1>20 DEF DownClear, closerVars, runVars
<1>21. CASE UNCHANGED systemVars
  BY <1>21 DEF systemVars, vars, escortVars
<1>22. CASE ServicePanics
  BY <1>22 DEF ServicePanics, Panic, escortVars
<1> QED
  BY <1>1, <1>2, <1>3, <1>4, <1>5, <1>6, <1>7, <1>8, <1>9, <1>10, <1>11,
     <1>12, <1>13, <1>14, <1>15, <1>16, <1>17, <1>18, <1>19, <1>20, <1>21,
     <1>22
  DEF Next, Owner, Supervisor, RunStep, Closer, Child, Down, DownStep

\* One round of EscortRun's loop takes one from a counter that is not zero.
LEMMA CountStep ==
  TypeOK /\ CountInv /\ [Next]_systemVars => CountInv'
<1> SUFFICES ASSUME TypeOK, CountInv, [Next]_systemVars
             PROVE  CountInv'
  OBVIOUS
<1> USE DEF TypeOK, EscortTypeOK, CountInv
<1>1. CASE SetRunning
  BY <1>1 DEF SetRunning, escortVars
<1>2. ASSUME NEW e \in Escorts, Make(e) PROVE CountInv'
  BY <1>2 DEF Make, OwnerStep, NewEscort, closerVars, downVars
<1>3. ASSUME NEW e \in Escorts, Raise(e) PROVE CountInv'
  BY <1>3 DEF Raise, OwnerStep, EscortingUPV, RaiseList, runVars, downVars
<1>4. ASSUME NEW e \in Escorts, Spawn(e) PROVE CountInv'
  BY <1>4, HandleFacts DEF Spawn, OwnerStep, SpawnEscortRun, GoEscortRun,
      closerVars, downVars
<1>5. ASSUME NEW e \in Escorts, CheckRoot(e) PROVE CountInv'
  BY <1>5 DEF CheckRoot, OwnerStep, escortVars
<1>6. ASSUME NEW e \in Escorts, RaiseRoot(e) PROVE CountInv'
  BY <1>6, HandleFacts DEF RaiseRoot, OwnerStep, EscortingUP, RaiseList,
      GoEscortRun, runVars, downVars
<1>7. ASSUME NEW d \in DownCallers, EscortingDownReturns(d),
             UNCHANGED <<isRunning, ownerPc>>
      PROVE  CountInv'
  BY <1>7 DEF EscortingDownReturns, closerVars, runVars
<1>8. ASSUME NEW d \in DownCallers, NEW e \in Escorts, CallEscortingDown(d, e),
             UNCHANGED <<isRunning, ownerPc>>
      PROVE  CountInv'
  BY <1>8 DEF CallEscortingDown, closerVars, runVars
<1>9. ASSUME NEW e \in Escorts, RunStart(e, StartMayFail),
             UNCHANGED <<isRunning, ownerPc>>
      PROVE  CountInv'
  BY <1>9 DEF RunStart, Panic, runVars, closerVars, downVars
<1>10. ASSUME NEW e \in Escorts, RunAppend(e),
             UNCHANGED <<isRunning, ownerPc>>
      PROVE  CountInv'
  BY <1>10 DEF RunAppend, Panic, closerVars, downVars
<1>11. ASSUME NEW e \in Escorts, RunWaited(e),
             UNCHANGED <<isRunning, ownerPc>>
      PROVE  CountInv'
  BY <1>11 DEF RunWaited, closerVars, downVars
<1>12. ASSUME NEW e \in Escorts, RunCheck(e),
             UNCHANGED <<isRunning, ownerPc>>
      PROVE  CountInv'
  BY <1>12 DEF RunCheck, closerVars, downVars
<1>13. ASSUME NEW e \in Escorts, RunExhausted(e),
             UNCHANGED <<isRunning, ownerPc>>
      PROVE  CountInv'
  BY <1>13 DEF RunExhausted, closerVars, downVars
<1>14. ASSUME NEW e \in Escorts, RunSend(e),
             UNCHANGED <<isRunning, ownerPc>>
      PROVE  CountInv'
  BY <1>14 DEF RunSend, CloserReceives, closerVars, downVars
<1>15. ASSUME NEW e \in Escorts, CloserQuits(e),
             UNCHANGED <<isRunning, ownerPc>>
      PROVE  CountInv'
  BY <1>15 DEF CloserQuits, runVars, downVars
<1>16. ASSUME NEW e \in Escorts, ChildExit(e),
             UNCHANGED <<isRunning, ownerPc>>
      PROVE  CountInv'
  BY <1>16 DEF ChildExit, closerVars, runVars, downVars
<1>17. ASSUME NEW d \in DownCallers, DownCheck(d),
             UNCHANGED <<isRunning, ownerPc>>
      PROVE  CountInv'
  BY <1>17 DEF DownCheck, closerVars, runVars
<1>18. ASSUME NEW d \in DownCallers, DownKill(d),
             UNCHANGED <<isRunning, ownerPc>>
      PROVE  CountInv'
  BY <1>18 DEF DownKill, Panic, closerVars, runVars
<1>19. ASSUME NEW d \in DownCallers, DownSend(d),
             UNCHANGED <<isRunning, ownerPc>>
      PROVE  CountInv'
  BY <1>19 DEF DownSend, CloserReceives, closerVars, runVars
<1>20. ASSUME NEW d \in DownCallers, DownClear(d),
             UNCHANGED <<isRunning, ownerPc>>
      PROVE  CountInv'
  BY <1>20 DEF DownClear, closerVars, runVars
<1>21. CASE UNCHANGED systemVars
  BY <1>21 DEF systemVars, vars, escortVars
<1>22. CASE ServicePanics
  BY <1>22 DEF ServicePanics, Panic, escortVars
<1> QED
  BY <1>1, <1>2, <1>3, <1>4, <1>5, <1>6, <1>7, <1>8, <1>9, <1>10, <1>11,
     <1>12, <1>13, <1>14, <1>15, <1>16, <1>17, <1>18, <1>19, <1>20, <1>21,
     <1>22
  DEF Next, Owner, Supervisor, RunStep, Closer, Child, Down, DownStep

\* Only NewEscort gives a status, and only Spawn makes an EscortRun.
LEMMA OwnerInvStep ==
  TypeOK /\ OwnerInv /\ [Next]_systemVars => OwnerInv'
<1> SUFFICES ASSUME TypeOK, OwnerInv, [Next]_systemVars
             PROVE  OwnerInv'
  OBVIOUS
<1> USE DEF TypeOK, EscortTypeOK, OwnerInv
<1>1. CASE SetRunning
  BY <1>1 DEF SetRunning, escortVars
<1>2. ASSUME NEW e \in Escorts, Make(e) PROVE OwnerInv'
  BY <1>2 DEF Make, OwnerStep, NewEscort, closerVars, downVars
<1>3. ASSUME NEW e \in Escorts, Raise(e) PROVE OwnerInv'
  BY <1>3 DEF Raise, OwnerStep, EscortingUPV, RaiseList, runVars, downVars
<1>4. ASSUME NEW e \in Escorts, Spawn(e) PROVE OwnerInv'
  BY <1>4 DEF Spawn, OwnerStep, SpawnEscortRun, GoEscortRun, closerVars,
      downVars
<1>5. ASSUME NEW e \in Escorts, CheckRoot(e) PROVE OwnerInv'
  BY <1>5 DEF CheckRoot, OwnerStep, escortVars
<1>6. ASSUME NEW e \in Escorts, RaiseRoot(e) PROVE OwnerInv'
  BY <1>6 DEF RaiseRoot, OwnerStep, EscortingUP, RaiseList, GoEscortRun,
      runVars, downVars
<1>7. ASSUME NEW d \in DownCallers, EscortingDownReturns(d),
             UNCHANGED <<isRunning, ownerPc>>
      PROVE  OwnerInv'
  BY <1>7 DEF EscortingDownReturns, closerVars, runVars
<1>8. ASSUME NEW d \in DownCallers, NEW e \in Escorts, CallEscortingDown(d, e),
             UNCHANGED <<isRunning, ownerPc>>
      PROVE  OwnerInv'
  BY <1>8 DEF CallEscortingDown, closerVars, runVars
<1>9. ASSUME NEW e \in Escorts, RunStart(e, StartMayFail),
             UNCHANGED <<isRunning, ownerPc>>
      PROVE  OwnerInv'
  BY <1>9 DEF RunStart, Panic, runVars, closerVars, downVars
<1>10. ASSUME NEW e \in Escorts, RunAppend(e),
             UNCHANGED <<isRunning, ownerPc>>
      PROVE  OwnerInv'
  BY <1>10 DEF RunAppend, Panic, closerVars, downVars
<1>11. ASSUME NEW e \in Escorts, RunWaited(e),
             UNCHANGED <<isRunning, ownerPc>>
      PROVE  OwnerInv'
  BY <1>11 DEF RunWaited, closerVars, downVars
<1>12. ASSUME NEW e \in Escorts, RunCheck(e),
             UNCHANGED <<isRunning, ownerPc>>
      PROVE  OwnerInv'
  BY <1>12 DEF RunCheck, closerVars, downVars
<1>13. ASSUME NEW e \in Escorts, RunExhausted(e),
             UNCHANGED <<isRunning, ownerPc>>
      PROVE  OwnerInv'
  BY <1>13 DEF RunExhausted, closerVars, downVars
<1>14. ASSUME NEW e \in Escorts, RunSend(e),
             UNCHANGED <<isRunning, ownerPc>>
      PROVE  OwnerInv'
  BY <1>14 DEF RunSend, CloserReceives, closerVars, downVars
<1>15. ASSUME NEW e \in Escorts, CloserQuits(e),
             UNCHANGED <<isRunning, ownerPc>>
      PROVE  OwnerInv'
  BY <1>15 DEF CloserQuits, runVars, downVars
<1>16. ASSUME NEW e \in Escorts, ChildExit(e),
             UNCHANGED <<isRunning, ownerPc>>
      PROVE  OwnerInv'
  BY <1>16 DEF ChildExit, closerVars, runVars, downVars
<1>17. ASSUME NEW d \in DownCallers, DownCheck(d),
             UNCHANGED <<isRunning, ownerPc>>
      PROVE  OwnerInv'
  BY <1>17 DEF DownCheck, closerVars, runVars
<1>18. ASSUME NEW d \in DownCallers, DownKill(d),
             UNCHANGED <<isRunning, ownerPc>>
      PROVE  OwnerInv'
  BY <1>18 DEF DownKill, Panic, closerVars, runVars
<1>19. ASSUME NEW d \in DownCallers, DownSend(d),
             UNCHANGED <<isRunning, ownerPc>>
      PROVE  OwnerInv'
  BY <1>19 DEF DownSend, CloserReceives, closerVars, runVars
<1>20. ASSUME NEW d \in DownCallers, DownClear(d),
             UNCHANGED <<isRunning, ownerPc>>
      PROVE  OwnerInv'
  BY <1>20 DEF DownClear, closerVars, runVars
<1>21. CASE UNCHANGED systemVars
  BY <1>21 DEF systemVars, vars, escortVars
<1>22. CASE ServicePanics
  BY <1>22 DEF ServicePanics, Panic, escortVars
<1> QED
  BY <1>1, <1>2, <1>3, <1>4, <1>5, <1>6, <1>7, <1>8, <1>9, <1>10, <1>11,
     <1>12, <1>13, <1>14, <1>15, <1>16, <1>17, <1>18, <1>19, <1>20, <1>21,
     <1>22
  DEF Next, Owner, Supervisor, RunStep, Closer, Child, Down, DownStep

\* A child is started when there is none, and the VPN object is new when the
\* list is emptied; Wait returns only when the child has ended.
LEMMA ChildStep ==
  TypeOK /\ CountInv /\ OwnerInv /\ ChildInv /\ [Next]_systemVars => ChildInv'
<1> SUFFICES ASSUME TypeOK, CountInv, OwnerInv, ChildInv, [Next]_systemVars
             PROVE  ChildInv'
  OBVIOUS
<1> USE DEF TypeOK, EscortTypeOK, OwnerInv, ChildInv
<1>1. CASE SetRunning
  BY <1>1 DEF SetRunning, escortVars
<1>2. ASSUME NEW e \in Escorts, Make(e) PROVE ChildInv'
  BY <1>2 DEF Make, OwnerStep, NewEscort, closerVars, downVars, Garbage
<1>3. ASSUME NEW e \in Escorts, Raise(e) PROVE ChildInv'
  BY <1>3 DEF Raise, OwnerStep, EscortingUPV, RaiseList, runVars, downVars
<1>4. ASSUME NEW e \in Escorts, Spawn(e) PROVE ChildInv'
  BY <1>4 DEF Spawn, OwnerStep, SpawnEscortRun, GoEscortRun, closerVars,
      downVars
<1>5. ASSUME NEW e \in Escorts, CheckRoot(e) PROVE ChildInv'
  BY <1>5 DEF CheckRoot, OwnerStep, escortVars
<1>6. ASSUME NEW e \in Escorts, RaiseRoot(e) PROVE ChildInv'
  BY <1>6 DEF RaiseRoot, OwnerStep, EscortingUP, RaiseList, GoEscortRun,
      runVars, downVars
<1>7. ASSUME NEW d \in DownCallers, EscortingDownReturns(d),
             UNCHANGED <<isRunning, ownerPc>>
      PROVE  ChildInv'
  BY <1>7 DEF EscortingDownReturns, closerVars, runVars
<1>8. ASSUME NEW d \in DownCallers, NEW e \in Escorts, CallEscortingDown(d, e),
             UNCHANGED <<isRunning, ownerPc>>
      PROVE  ChildInv'
  BY <1>8 DEF CallEscortingDown, closerVars, runVars
<1>9. ASSUME NEW e \in Escorts, RunStart(e, StartMayFail),
             UNCHANGED <<isRunning, ownerPc>>
      PROVE  ChildInv'
  BY <1>9 DEF RunStart, Panic, runVars, closerVars, downVars, CountInv,
      Children
<1>10. ASSUME NEW e \in Escorts, RunAppend(e),
             UNCHANGED <<isRunning, ownerPc>>
      PROVE  ChildInv'
  BY <1>10 DEF RunAppend, Panic, closerVars, downVars
<1>11. ASSUME NEW e \in Escorts, RunWaited(e),
             UNCHANGED <<isRunning, ownerPc>>
      PROVE  ChildInv'
  BY <1>11 DEF RunWaited, closerVars, downVars
<1>12. ASSUME NEW e \in Escorts, RunCheck(e),
             UNCHANGED <<isRunning, ownerPc>>
      PROVE  ChildInv'
  BY <1>12 DEF RunCheck, closerVars, downVars
<1>13. ASSUME NEW e \in Escorts, RunExhausted(e),
             UNCHANGED <<isRunning, ownerPc>>
      PROVE  ChildInv'
  BY <1>13 DEF RunExhausted, closerVars, downVars
<1>14. ASSUME NEW e \in Escorts, RunSend(e),
             UNCHANGED <<isRunning, ownerPc>>
      PROVE  ChildInv'
  BY <1>14 DEF RunSend, CloserReceives, closerVars, downVars
<1>15. ASSUME NEW e \in Escorts, CloserQuits(e),
             UNCHANGED <<isRunning, ownerPc>>
      PROVE  ChildInv'
  BY <1>15 DEF CloserQuits, runVars, downVars
<1>16. ASSUME NEW e \in Escorts, ChildExit(e),
             UNCHANGED <<isRunning, ownerPc>>
      PROVE  ChildInv'
  BY <1>16 DEF ChildExit, closerVars, runVars, downVars
<1>17. ASSUME NEW d \in DownCallers, DownCheck(d),
             UNCHANGED <<isRunning, ownerPc>>
      PROVE  ChildInv'
  BY <1>17 DEF DownCheck, closerVars, runVars
<1>18. ASSUME NEW d \in DownCallers, DownKill(d),
             UNCHANGED <<isRunning, ownerPc>>
      PROVE  ChildInv'
  BY <1>18 DEF DownKill, Panic, closerVars, runVars
<1>19. ASSUME NEW d \in DownCallers, DownSend(d),
             UNCHANGED <<isRunning, ownerPc>>
      PROVE  ChildInv'
  BY <1>19 DEF DownSend, CloserReceives, closerVars, runVars
<1>20. ASSUME NEW d \in DownCallers, DownClear(d),
             UNCHANGED <<isRunning, ownerPc>>
      PROVE  ChildInv'
  BY <1>20 DEF DownClear, closerVars, runVars
<1>21. CASE UNCHANGED systemVars
  BY <1>21 DEF systemVars, vars, escortVars
<1>22. CASE ServicePanics
  BY <1>22 DEF ServicePanics, Panic, escortVars
<1> QED
  BY <1>1, <1>2, <1>3, <1>4, <1>5, <1>6, <1>7, <1>8, <1>9, <1>10, <1>11,
     <1>12, <1>13, <1>14, <1>15, <1>16, <1>17, <1>18, <1>19, <1>20, <1>21,
     <1>22
  DEF Next, Owner, Supervisor, RunStep, Closer, Child, Down, DownStep

\* The closer's first receive takes a token either from EscortRun, which has
\* then used up its restarts, or from an EscortingDown that goes on to clear.
LEMMA CloserStep ==
  TypeOK /\ CountInv /\ OwnerInv /\ CloserWaits /\ [Next]_systemVars =>
      CloserWaits'
<1> SUFFICES ASSUME TypeOK, CountInv, OwnerInv, CloserWaits, [Next]_systemVars
             PROVE  CloserWaits'
  OBVIOUS
<1> USE DEF TypeOK, EscortTypeOK, CountInv, OwnerInv, CloserWaits, Spent,
            ClearPending
<1>1. CASE SetRunning
  BY <1>1 DEF SetRunning, escortVars
<1>2. ASSUME NEW e \in Escorts, Make(e) PROVE CloserWaits'
  BY <1>2 DEF Make, OwnerStep, NewEscort, closerVars, downVars
<1>3. ASSUME NEW e \in Escorts, Raise(e) PROVE CloserWaits'
  BY <1>3 DEF Raise, OwnerStep, EscortingUPV, RaiseList, runVars, downVars
<1>4. ASSUME NEW e \in Escorts, Spawn(e) PROVE CloserWaits'
  BY <1>4 DEF Spawn, OwnerStep, SpawnEscortRun, GoEscortRun, closerVars,
      downVars
<1>5. ASSUME NEW e \in Escorts, CheckRoot(e) PROVE CloserWaits'
  BY <1>5 DEF CheckRoot, OwnerStep, escortVars
<1>6. ASSUME NEW e \in Escorts, RaiseRoot(e) PROVE CloserWaits'
  BY <1>6 DEF RaiseRoot, OwnerStep, EscortingUP, RaiseList, GoEscortRun,
      runVars, downVars
<1>7. ASSUME NEW d \in DownCallers, EscortingDownReturns(d),
             UNCHANGED <<isRunning, ownerPc>>
      PROVE  CloserWaits'
  BY <1>7 DEF EscortingDownReturns, closerVars, runVars
<1>8. ASSUME NEW d \in DownCallers, NEW e \in Escorts, CallEscortingDown(d, e),
             UNCHANGED <<isRunning, ownerPc>>
      PROVE  CloserWaits'
  BY <1>8 DEF CallEscortingDown, closerVars, runVars
<1>9. ASSUME NEW e \in Escorts, RunStart(e, StartMayFail),
             UNCHANGED <<isRunning, ownerPc>>
      PROVE  CloserWaits'
  BY <1>9 DEF RunStart, Panic, runVars, closerVars, downVars
<1>10. ASSUME NEW e \in Escorts, RunAppend(e),
             UNCHANGED <<isRunning, ownerPc>>
      PROVE  CloserWaits'
  BY <1>10 DEF RunAppend, Panic, closerVars, downVars
<1>11. ASSUME NEW e \in Escorts, RunWaited(e),
             UNCHANGED <<isRunning, ownerPc>>
      PROVE  CloserWaits'
  BY <1>11 DEF RunWaited, closerVars, downVars
<1>12. ASSUME NEW e \in Escorts, RunCheck(e),
             UNCHANGED <<isRunning, ownerPc>>
      PROVE  CloserWaits'
  BY <1>12 DEF RunCheck, closerVars, downVars
<1>13. ASSUME NEW e \in Escorts, RunExhausted(e),
             UNCHANGED <<isRunning, ownerPc>>
      PROVE  CloserWaits'
  BY <1>13 DEF RunExhausted, closerVars, downVars
<1>14. ASSUME NEW e \in Escorts, RunSend(e),
             UNCHANGED <<isRunning, ownerPc>>
      PROVE  CloserWaits'
  BY <1>14 DEF RunSend, CloserReceives, closerVars, downVars
<1>15. ASSUME NEW e \in Escorts, CloserQuits(e),
             UNCHANGED <<isRunning, ownerPc>>
      PROVE  CloserWaits'
  BY <1>15 DEF CloserQuits, runVars, downVars
<1>16. ASSUME NEW e \in Escorts, ChildExit(e),
             UNCHANGED <<isRunning, ownerPc>>
      PROVE  CloserWaits'
  BY <1>16 DEF ChildExit, closerVars, runVars, downVars
<1>17. ASSUME NEW d \in DownCallers, DownCheck(d),
             UNCHANGED <<isRunning, ownerPc>>
      PROVE  CloserWaits'
  BY <1>17 DEF DownCheck, closerVars, runVars
<1>18. ASSUME NEW d \in DownCallers, DownKill(d),
             UNCHANGED <<isRunning, ownerPc>>
      PROVE  CloserWaits'
  BY <1>18 DEF DownKill, Panic, closerVars, runVars
<1>19. ASSUME NEW d \in DownCallers, DownSend(d),
             UNCHANGED <<isRunning, ownerPc>>
      PROVE  CloserWaits'
  BY <1>19 DEF DownSend, CloserReceives, closerVars, runVars
<1>20. ASSUME NEW d \in DownCallers, DownClear(d),
             UNCHANGED <<isRunning, ownerPc>>
      PROVE  CloserWaits'
  BY <1>20 DEF DownClear, closerVars, runVars
<1>21. CASE UNCHANGED systemVars
  BY <1>21 DEF systemVars, vars, escortVars
<1>22. CASE ServicePanics
  BY <1>22 DEF ServicePanics, Panic, escortVars
<1> QED
  BY <1>1, <1>2, <1>3, <1>4, <1>5, <1>6, <1>7, <1>8, <1>9, <1>10, <1>11,
     <1>12, <1>13, <1>14, <1>15, <1>16, <1>17, <1>18, <1>19, <1>20, <1>21,
     <1>22
  DEF Next, Owner, Supervisor, RunStep, Closer, Child, Down, DownStep

-----------------------------------------------------------------------------
\* IInv is inductive: the conjuncts only use those before them.
LEMMA Inductive == Spec => []IInv
<1>1. IInv /\ [Next]_systemVars => IInv'
  BY TypeStep, CountStep, OwnerInvStep, ChildStep, CloserStep DEF IInv
<1> QED
  BY InitIInv, <1>1, PTL DEF Spec

\* Every field of an Escorting object keeps its type; the restart counter of
\* EscortRun (escort.go:15) never leaves 0..RestartLimit.
THEOREM TypeCorrect == Spec => []TypeOK
<1>1. IInv => TypeOK
  BY DEF IInv
<1> QED
  BY Inductive, <1>1, PTL

\* EscortRun never has two children of one object at a time
\* (escort.go:15-48).
THEOREM OneChild == Spec => []AtMostOneAlive
<1>1. IInv => AtMostOneAlive
  BY DEF IInv, ChildInv, AtMostOneAlive
<1> QED
  BY Inductive, <1>1, PTL

\* EscortingDown on an object that is up finds every child, or EscortRun is
\* about to append it (escort.go:31-37, 103-105).
THEOREM ChildrenTracked == Spec => []TrackedOrInFlight
<1>1. IInv => TrackedOrInFlight
  BY DEF IInv, ChildInv, TrackedOrInFlight
<1> QED
  BY Inductive, <1>1, PTL

\* The token of an object that is up is not lost (escort.go:60-79, 107-109).
THEOREM TokenKept == Spec => []CloserWaits
<1>1. IInv => CloserWaits
  BY DEF IInv
<1> QED
  BY Inductive, <1>1, PTL
=============================================================================
