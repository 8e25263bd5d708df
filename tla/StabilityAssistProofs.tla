------------------------ MODULE StabilityAssistProofs ------------------------
(* Proofs about StabilityAssist, for any number of monitors and callers.     *)
EXTENDS StabilityAssist, TLAPS

ControlOK ==
    /\ monPc \in [Monitors -> MonStates]
    /\ callPc \in [Callers -> CallStates]

\* Call c is a Start that has not yet made its monitor.
Starting(c) == callPc[c] \in {"disarm", "wake", "go"}
Runs(m) == monPc[m] # "idle"

\* A session that began with no monitor and no call under way has one Start and
\* then one monitor.
OneMonitor ==
    ~overlapped =>
        /\ \A c, d \in Callers : Starting(c) /\ Starting(d) => c = d
        /\ \A m, n \in Monitors : Runs(m) /\ Runs(n) => m = n
        /\ \A c \in Callers, m \in Monitors : ~(Starting(c) /\ Runs(m))

\* In it armed means that a probe of this session ended well, once Start has
\* reset it, and a report ends the session.
Session ==
    ~overlapped =>
        /\ armed => proved \/ \E c \in Callers : callPc[c] = "disarm"
        /\ \A c \in Callers : Starting(c) => ~reported
        /\ \A m \in Monitors :
               /\ monPc[m] \in {"disengage", "tell"} => proved
               /\ monPc[m] = "tell" => ~engaged
               /\ Runs(m) /\ reported => monPc[m] = "loop" /\ ~engaged

IInv == ControlOK /\ EngagedIsWatched /\ OneMonitor /\ Session

-----------------------------------------------------------------------------
LEMMA InitIInv == Init => IInv
  BY DEF Init, IInv, ControlOK, EngagedIsWatched, OneMonitor, Session,
     Starting, Runs, MonStates, CallStates

LEMMA IInvStep == IInv /\ [Next]_sasVars => IInv'
<1> SUFFICES ASSUME IInv, [Next]_sasVars PROVE IInv'
  OBVIOUS
<1> USE DEF IInv, ControlOK, EngagedIsWatched, OneMonitor, Session, Starting,
            Runs, MonStates, CallStates, monVars, history
<1>1. ASSUME NEW c \in Callers, StartEngage(c) PROVE IInv'
  BY <1>1 DEF StartEngage, Calls
<1>2. ASSUME NEW c \in Callers, StartDisarm(c) PROVE IInv'
  BY <1>2 DEF StartDisarm, Calls
<1>3. ASSUME NEW c \in Callers, Wake(c) PROVE IInv'
  BY <1>3 DEF Wake, Calls
<1>4. ASSUME NEW c \in Callers, StartGo(c) PROVE IInv'
  BY <1>4 DEF StartGo, Calls
<1>5. ASSUME NEW c \in Callers, StopDisengage(c) PROVE IInv'
  BY <1>5 DEF StopDisengage, Calls
<1>6. CASE ProbeNowOpi \/ SetForground
  BY <1>6 DEF ProbeNowOpi, SetForground
<1>7. ASSUME NEW m \in Monitors, Drain(m) \/ TimerFires(m) \/ Receive(m)
      PROVE  IInv'
  BY <1>7 DEF Drain, TimerFires, Receive, Moves
<1>8. ASSUME NEW m \in Monitors, Loop(m) PROVE IInv'
  BY <1>8 DEF Loop, Moves
<1>9. ASSUME NEW m \in Monitors, ProbeEnds(m) PROVE IInv'
  BY <1>9 DEF ProbeEnds, Moves
<1>10. ASSUME NEW m \in Monitors, ProbeFail(m) PROVE IInv'
  BY <1>10 DEF ProbeFail, Moves
<1>11. ASSUME NEW m \in Monitors, Disengage(m) PROVE IInv'
  BY <1>11 DEF Disengage, Moves
<1>12. ASSUME NEW m \in Monitors, Tell(m) PROVE IInv'
  BY <1>12 DEF Tell, Moves
<1>13. CASE UNCHANGED sasVars
  BY <1>13 DEF sasVars
<1> QED
  BY <1>1, <1>2, <1>3, <1>4, <1>5, <1>6, <1>7, <1>8, <1>9, <1>10, <1>11,
     <1>12, <1>13 DEF Next, Monitor, Call

LEMMA Inductive == Spec => []IInv
  BY InitIInv, IInvStep, PTL DEF Spec

-----------------------------------------------------------------------------
\* An engaged object is watched, whatever Start, Stop and probeFail do at the
\* same time (sas.go:27, 90, 95-103).
THEOREM Watched == Spec => []EngagedIsWatched
<1>1. IInv => EngagedIsWatched
  BY DEF IInv
<1> QED
  BY Inductive, <1>1, PTL

\* A report comes after a probe of the same session that ended well, unless
\* Start came while the last session was still ending (sas.go:83-97).
THEOREM LossReported == Spec => []ReportsLoss
<1>1. IInv => ReportsLoss
  BY DEF IInv, Session, ReportsLoss
<1> QED
  BY Inductive, <1>1, PTL

\* Under the same condition there is one report in a session (sas.go:27, 90).
THEOREM ReportedOnce == Spec => []ReportsOnce
<1>1. IInv => ReportsOnce
  BY DEF IInv, ControlOK, Session, Runs, ReportsOnce
<1> QED
  BY Inductive, <1>1, PTL

-----------------------------------------------------------------------------
(* Types, the length of the wait among them.                                 *)

\* What the monitors and the calls leave to show after ControlOK.
LocalsOK ==
    /\ first \in [Monitors -> BOOLEAN]
    /\ waitsec \in [Monitors -> Waits]

FlagsOK ==
    /\ engaged \in BOOLEAN
    /\ forground \in BOOLEAN
    /\ armed \in BOOLEAN
    /\ intr \in {0, 1, NoToken}
    /\ overlapped \in BOOLEAN
    /\ proved \in BOOLEAN
    /\ reported \in BOOLEAN

\* The back-off stays between the foreground's wait and the longest one.
LEMMA NextWaitInRange ==
  ASSUME NEW m \in Monitors, LocalsOK
  PROVE  NextWait(m) \in Waits
<1>1. waitsec[m] \in 15..MaxWait
  BY DEF LocalsOK, Waits
<1>2. PICK w \in Int : w = waitsec[m] /\ 15 <= w /\ w <= MaxWait
  BY <1>1, MaxWaitAssumption
<1>3. (w * 3) \div 2 \in Int /\ (w * 3) \div 2 >= 15
  BY <1>2
<1> QED
  BY <1>2, <1>3, MaxWaitAssumption DEF NextWait, Waits

LEMMA LocalsStep == LocalsOK /\ [Next]_sasVars => LocalsOK'
<1> SUFFICES ASSUME LocalsOK, [Next]_sasVars PROVE LocalsOK'
  OBVIOUS
<1> USE DEF monVars
<1>1. ASSUME NEW m \in Monitors, Loop(m) PROVE LocalsOK'
  <2>1. NextWait(m) \in Waits /\ 15 \in Waits
    BY NextWaitInRange, MaxWaitAssumption DEF Waits
  <2> QED
    BY <1>1, <2>1 DEF Loop, LocalsOK
<1>2. ASSUME NEW m \in Monitors, Monitor(m), ~Loop(m)
      PROVE  UNCHANGED <<first, waitsec>>
  BY <1>2 DEF Monitor, Drain, TimerFires, Receive, ProbeEnds, ProbeFail,
     Disengage, Tell
<1>3. ASSUME NEW c \in Callers,
             StartEngage(c) \/ StopDisengage(c) \/ Call(c)
      PROVE  UNCHANGED <<first, waitsec>>
  BY <1>3 DEF StartEngage, StopDisengage, Call, StartDisarm, Wake, StartGo
<1>4. ASSUME ProbeNowOpi \/ SetForground \/ UNCHANGED sasVars
      PROVE  UNCHANGED <<first, waitsec>>
  BY <1>4 DEF ProbeNowOpi, SetForground, sasVars
<1> QED
  BY <1>1, <1>2, <1>3, <1>4 DEF Next, LocalsOK

LEMMA FlagsStep == FlagsOK /\ [Next]_sasVars => FlagsOK'
<1> SUFFICES ASSUME FlagsOK, [Next]_sasVars PROVE FlagsOK'
  OBVIOUS
<1> USE DEF FlagsOK, monVars, history, NoToken
<1>1. ASSUME NEW c \in Callers, StartEngage(c) \/ StopDisengage(c)
      PROVE  FlagsOK'
  BY <1>1 DEF StartEngage, StopDisengage, Calls
<1>2. ASSUME NEW c \in Callers, Call(c) PROVE FlagsOK'
  BY <1>2 DEF Call, StartDisarm, Wake, StartGo, Send, Calls
<1>3. CASE ProbeNowOpi \/ SetForground \/ UNCHANGED sasVars
  BY <1>3 DEF ProbeNowOpi, SetForground, Send, sasVars
<1>4. ASSUME NEW m \in Monitors,
             Drain(m) \/ Loop(m) \/ TimerFires(m) \/ Receive(m)
      PROVE  FlagsOK'
  BY <1>4 DEF Drain, Loop, TimerFires, Receive, Moves
<1>5. ASSUME NEW m \in Monitors,
             ProbeEnds(m) \/ ProbeFail(m) \/ Disengage(m) \/ Tell(m)
      PROVE  FlagsOK'
  BY <1>5 DEF ProbeEnds, ProbeFail, Disengage, Tell, Moves
<1> QED
  BY <1>1, <1>2, <1>3, <1>4, <1>5 DEF Next, Monitor

\* Among the types is the wait: the back-off of a watchdog in the background
\* grows by half, and is capped, so that it never leaves 15..MaxWait seconds
\* (sas.go:28-40).
THEOREM TypeCorrect == Spec => []TypeOK
<1>a. 15 \in Waits
  BY MaxWaitAssumption DEF Waits
<1>b. Init => LocalsOK
  BY <1>a DEF Init, LocalsOK
<1>c. Init => FlagsOK
  BY DEF Init, FlagsOK, NoToken
<1>1. Init => LocalsOK /\ FlagsOK
  BY <1>b, <1>c
<1>2. IInv /\ LocalsOK /\ FlagsOK => TypeOK
  BY DEF IInv, ControlOK, LocalsOK, FlagsOK, TypeOK
<1> QED
  BY Inductive, LocalsStep, FlagsStep, <1>1, <1>2, PTL DEF Spec
=============================================================================
