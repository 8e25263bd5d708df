--------------------------- MODULE StabilityAssist ---------------------------
(***************************************************************************)
(* The connection watchdog of src/sas.go.                                  *)
(*                                                                         *)
(* Start runs a monitor on a goroutine of its own.  While the object is    *)
(* engaged the monitor waits for a timer or for a token of the channel     *)
(* intr, probes the network, and on the first failure after a success      *)
(* disengages the object and tells the client.  Start, Stop and            *)
(* ProbeNowOpi put a token into intr, which holds one, or drop it.         *)
(*                                                                         *)
(* There is no lock, and nothing ties a monitor to its Start: a monitor    *)
(* that has not yet seen Stop goes on when Start engages the object again, *)
(* beside the new one.                                                     *)
(*                                                                         *)
(* The network is external: a probe ends well or fails.  A timer may fire  *)
(* at any moment; the length of the wait is kept because the back-off      *)
(* computes with it.                                                       *)
(***************************************************************************)
EXTENDS Integers

CONSTANTS
    Monitors,   \* goroutines that run monitor; bound: monitors at a time
    Callers,    \* client threads that call Start and Stop
    MaxWait     \* the longest wait (500 s in the code)

ASSUME MaxWaitAssumption == MaxWait \in Nat /\ MaxWait >= 30

VARIABLES
    engaged,    \* sa.Engaged
    forground,  \* sa.Forground
    armed,      \* sa.armed
    intr,       \* the token in the channel, NoToken when it is empty
    monPc,      \* [Monitors -> MonStates]
    first,      \* [Monitors -> BOOLEAN]: the local variable first
    waitsec,    \* [Monitors -> Waits]: the local variable waitsec
    callPc,     \* [Callers -> CallStates]
    overlapped, \* history: at the last Start a monitor or a call was under
                \* way
    proved,     \* history: a probe ended well since the last Start
    reported    \* history: OnProbeFailed was called since the last Start

monVars == <<monPc, first, waitsec>>
history == <<overlapped, proved, reported>>
sasVars == <<engaged, forground, armed, intr, monVars, callPc, history>>

NoToken == 2
Waits == 15..MaxWait

\* "drain": lines 20-23, "loop": 27-40, "select": 41-49, "probe": 61-85,
\* "fail": 89, "disengage": 90, "tell": 91.
MonStates == {"idle", "drain", "loop", "select", "probe", "fail", "disengage",
              "tell"}
\* "disarm": 97, "wake": 98-101, "go": 102; "wakeOnly": 107-110.
CallStates == {"idle", "disarm", "wake", "go", "wakeOnly"}

TypeOK ==
    /\ engaged \in BOOLEAN
    /\ forground \in BOOLEAN
    /\ armed \in BOOLEAN
    /\ intr \in {0, 1, NoToken}
    /\ monPc \in [Monitors -> MonStates]
    /\ first \in [Monitors -> BOOLEAN]
    /\ waitsec \in [Monitors -> Waits]
    /\ callPc \in [Callers -> CallStates]
    /\ overlapped \in BOOLEAN
    /\ proved \in BOOLEAN
    /\ reported \in BOOLEAN

\* GetStabilityAssist.
Init ==
    /\ engaged = FALSE
    /\ forground = TRUE
    /\ armed = FALSE
    /\ intr = NoToken
    /\ monPc = [m \in Monitors |-> "idle"]
    /\ first = [m \in Monitors |-> TRUE]
    /\ waitsec = [m \in Monitors |-> 15]
    /\ callPc = [c \in Callers |-> "idle"]
    /\ overlapped = FALSE
    /\ proved = FALSE
    /\ reported = FALSE

-----------------------------------------------------------------------------
(* Calls of the client. *)

\* A send that drops the token when the channel is full.
Send(token) == intr' = IF intr = NoToken THEN token ELSE intr

Calls(c, from, to) ==
    /\ callPc[c] = from
    /\ callPc' = [callPc EXCEPT ![c] = to]
    /\ UNCHANGED forground

\* Line 96, the call of Start.
StartEngage(c) ==
    /\ Calls(c, "idle", "disarm")
    /\ engaged' = TRUE
    /\ overlapped' = (\/ \E m \in Monitors : monPc[m] # "idle"
                      \/ \E d \in Callers : callPc[d] # "idle")
    /\ proved' = FALSE
    /\ reported' = FALSE
    /\ UNCHANGED <<armed, intr, monVars>>

\* Mutant: armed keeps the value of the last session.
StartDisarm_Keeps(c) ==
    /\ Calls(c, "disarm", "wake")
    /\ UNCHANGED <<engaged, armed, intr, monVars, history>>

\* Line 97.
StartDisarm(c) ==
    /\ Calls(c, "disarm", "wake")
    /\ armed' = FALSE
    /\ UNCHANGED <<engaged, intr, monVars, history>>

\* Mutant: a full channel ends the call (default: return).
Wake_Returns(c) ==
    /\ \/ Calls(c, "wake", IF intr = NoToken THEN "go" ELSE "idle")
       \/ Calls(c, "wakeOnly", "idle")
    /\ Send(0)
    /\ UNCHANGED <<engaged, armed, monVars, history>>

\* Lines 98-101 and 107-110.
Wake(c) ==
    /\ Calls(c, "wake", "go") \/ Calls(c, "wakeOnly", "idle")
    /\ Send(0)
    /\ UNCHANGED <<engaged, armed, monVars, history>>

\* Line 102.
StartGo(c) ==
    /\ Calls(c, "go", "idle")
    /\ \E m \in Monitors :
           /\ monPc[m] = "idle"
           /\ monPc' = [monPc EXCEPT ![m] = "drain"]
    /\ UNCHANGED <<engaged, armed, intr, first, waitsec, history>>

\* Line 106, the call of Stop.
StopDisengage(c) ==
    /\ Calls(c, "idle", "wakeOnly")
    /\ engaged' = FALSE
    /\ UNCHANGED <<armed, intr, monVars, history>>

ProbeNowOpi ==
    /\ Send(1)
    /\ UNCHANGED <<engaged, forground, armed, monVars, callPc, history>>

\* The client assigns the exported field.
SetForground ==
    /\ forground' = ~forground
    /\ UNCHANGED <<engaged, armed, intr, monVars, callPc, history>>

-----------------------------------------------------------------------------
(* monitor, probe and probeFail. *)

Moves(m, from, to) ==
    /\ monPc[m] = from
    /\ monPc' = [monPc EXCEPT ![m] = to]
    /\ UNCHANGED <<forground, callPc, overlapped>>

\* Lines 20-23: the token may be one that was meant for another monitor.
Drain(m) ==
    /\ Moves(m, "drain", "loop")
    /\ intr' = NoToken
    /\ UNCHANGED <<engaged, armed, first, waitsec, proved, reported>>

\* Mutant: the wait is not capped.
NextWait_Uncapped(m) ==
    IF first[m] THEN 30
    ELSE IF forground THEN 15
    ELSE (waitsec[m] * 3) \div 2

\* Lines 28-40.
NextWait(m) ==
    IF first[m] THEN 30
    ELSE IF forground THEN 15
    ELSE IF (waitsec[m] * 3) \div 2 > MaxWait THEN MaxWait
    ELSE (waitsec[m] * 3) \div 2

\* Mutant: the loop ends only after a report, not after Stop.
Loop_IgnoresStop(m) ==
    /\ IF engaged \/ ~reported
       THEN /\ Moves(m, "loop", "select")
            /\ waitsec' = [waitsec EXCEPT ![m] = NextWait(m)]
            /\ first' = [first EXCEPT ![m] = FALSE]
       ELSE /\ Moves(m, "loop", "idle")
            /\ UNCHANGED <<first, waitsec>>
    /\ UNCHANGED <<engaged, armed, intr, proved, reported>>

\* Line 27 and the computation of the wait; the locals die with the monitor.
Loop(m) ==
    /\ IF engaged
       THEN /\ Moves(m, "loop", "select")
            /\ waitsec' = [waitsec EXCEPT ![m] = NextWait(m)]
            /\ first' = [first EXCEPT ![m] = FALSE]
       ELSE /\ Moves(m, "loop", "idle")
            /\ first' = [first EXCEPT ![m] = TRUE]
            /\ waitsec' = [waitsec EXCEPT ![m] = 15]
    /\ UNCHANGED <<engaged, armed, intr, proved, reported>>

\* Line 43.
TimerFires(m) ==
    /\ Moves(m, "select", "probe")
    /\ UNCHANGED <<engaged, armed, intr, first, waitsec, proved, reported>>

\* Mutant: a request only begins the wait anew.
Receive_Forgets(m) ==
    /\ intr # NoToken
    /\ Moves(m, "select", "loop")
    /\ intr' = NoToken
    /\ UNCHANGED <<engaged, armed, first, waitsec, proved, reported>>

\* Lines 45-49.
Receive(m) ==
    /\ intr # NoToken
    /\ Moves(m, "select", IF intr # 0 THEN "probe" ELSE "loop")
    /\ intr' = NoToken
    /\ UNCHANGED <<engaged, armed, first, waitsec, proved, reported>>

\* Lines 70-84: the request succeeds, or its head or its body fails.
ProbeEnds(m) ==
    /\ \/ /\ Moves(m, "probe", "loop")
          /\ armed' = TRUE
          /\ proved' = TRUE
       \/ /\ Moves(m, "probe", "fail")
          /\ UNCHANGED <<armed, proved>>
    /\ UNCHANGED <<engaged, intr, first, waitsec, reported>>

\* Line 89.
ProbeFail(m) ==
    /\ Moves(m, "fail", IF armed THEN "disengage" ELSE "loop")
    /\ UNCHANGED <<engaged, armed, intr, first, waitsec, proved, reported>>

\* Mutant: the object stays engaged after the report.
Disengage_Forgets(m) ==
    /\ Moves(m, "disengage", "tell")
    /\ UNCHANGED <<engaged, armed, intr, first, waitsec, proved, reported>>

\* Line 90.
Disengage(m) ==
    /\ Moves(m, "disengage", "tell")
    /\ engaged' = FALSE
    /\ UNCHANGED <<armed, intr, first, waitsec, proved, reported>>

\* Line 91: OnProbeFailed.
Tell(m) ==
    /\ Moves(m, "tell", "loop")
    /\ reported' = TRUE
    /\ UNCHANGED <<engaged, armed, intr, first, waitsec, proved>>

Monitor(m) ==
    \/ Drain(m) \/ Loop(m) \/ TimerFires(m) \/ Receive(m) \/ ProbeEnds(m)
    \/ ProbeFail(m) \/ Disengage(m) \/ Tell(m)

\* A call that has begun goes on.
Call(c) == StartDisarm(c) \/ Wake(c) \/ StartGo(c)

Next ==
    \/ \E c \in Callers : StartEngage(c) \/ StopDisengage(c) \/ Call(c)
    \/ ProbeNowOpi
    \/ SetForground
    \/ \E m \in Monitors : Monitor(m)

Spec == Init /\ [][Next]_sasVars

\* The scheduler runs what can run, a timer fires, and a probe ends within the
\* 20 s of its HTTP client.  Calls begin when they begin.
Fairness ==
    /\ \A m \in Monitors : WF_sasVars(Monitor(m))
    /\ \A c \in Callers : WF_sasVars(Call(c))

FairSpec == Spec /\ Fairness

-----------------------------------------------------------------------------
(* What the watchdog promises. *)

\* An engaged object is watched: a monitor runs, or the Start that engaged it
\* has yet to start one, whatever Start, Stop and probeFail do to Engaged at
\* the same time (sas.go:27, 90, 95-103).
EngagedIsWatched ==
    engaged => \/ \E m \in Monitors : monPc[m] # "idle"
               \/ \E c \in Callers : callPc[c] \in {"disarm", "wake", "go"}

\* The client is told of a lost connection, not of one that never was: a probe
\* of this session ended well before (sas.go:83, 89, 97), unless Start
\* came while the last session was still ending.
ReportsLoss ==
    ~overlapped => \A m \in Monitors : monPc[m] = "tell" => proved

\* Under the same condition it is told once in a session (sas.go:27, 90).
ReportsOnce ==
    ~overlapped => \A m \in Monitors : monPc[m] = "tell" => ~reported

\* However many monitors Start and Stop have left, they end once the object
\* stays disengaged: none waits for a token that another one has drained
\* (sas.go:20-23, 41-48, 105-111).
MonitorsEnd == []~engaged ~> \A m \in Monitors : monPc[m] = "idle"

\* An engaged object is probed again and again, although wake-ups are dropped
\* and drained (sas.go:27-50).  A client that calls Start for ever without Stop
\* is not covered: it finds no free monitor here.
KeepsProbing == []<>(~engaged \/ \E m \in Monitors : monPc[m] = "probe")
=============================================================================
