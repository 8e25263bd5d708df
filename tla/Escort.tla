------------------------------- MODULE Escort -------------------------------
(***************************************************************************)
(* The process supervisor of src/Process/Escort/escort.go.                 *)
(*                                                                         *)
(* An Escorting object owns a list of child processes (escortProcess, nil  *)
(* while the object is down) and one unbuffered channel, unforgivnesschan. *)
(* Around it run three kinds of goroutine:                                 *)
(*   - EscortRun starts the child, records it, waits for it and starts it  *)
(*     again while the service runs, at most RestartLimit times;           *)
(*   - unforgivenessCloser takes one token from the channel, drains the    *)
(*     senders that are already waiting, and quits;                        *)
(*   - EscortingDown, on the goroutine of its caller, kills the recorded   *)
(*     children, sends a token and clears the list.                        *)
(* No lock protects the object: every field access below is a step.        *)
(*                                                                         *)
(* A handle (the *os.Process of a child) is the value the loop counter had *)
(* when the child was started; NoProcess is the nil handle that Start      *)
(* leaves behind when it fails.  An object has one EscortRun: VPNSupport   *)
(* makes a new object for each VPN process, and every EscortRun of the     *)
(* root-mode object panics in its first step, so a second one adds nothing.*)
(*                                                                         *)
(* A panic in any goroutine ends the whole program: crashed.               *)
(***************************************************************************)
EXTENDS Integers, FiniteSets

CONSTANTS
    Escorts,       \* the Escorting objects
    DownCallers,   \* the goroutines that call EscortingDown
    RestartLimit,  \* the initial value of EscortRun's counter (42 in the code)
    Forgiveable,   \* the objects whose process has Forgiveable = true
    StartMayFail,  \* whether cmd.Start() can fail (a missing executable)
    MaxClosers     \* bound: closers of one object that have not quit

ASSUME RestartLimitAssumption == RestartLimit \in Nat \ {0}
ASSUME ForgiveableAssumption == Forgiveable \subseteq Escorts
ASSUME StartMayFailAssumption == StartMayFail \in BOOLEAN

VARIABLES
    isRunning,      \* CoreI.Status.IsRunning, shared with the whole service
    crashed,        \* some goroutine panicked
    status,         \* [Escorts -> BOOLEAN]: v.status is not nil
    up,             \* [Escorts -> BOOLEAN]: v.escortProcess is not nil
    escortProcess,  \* [Escorts -> SUBSET Handles]: *v.escortProcess
    recv,           \* [Escorts -> Nat]: closers at their first receive
    drain,          \* [Escorts -> Nat]: closers in their drain loop
    runPc,          \* [Escorts -> RunStates]: control point of EscortRun
    count,          \* [Escorts -> 0..RestartLimit]: EscortRun's counter
    cmd,            \* [Escorts -> Handles]: cmd.Process of the current command
    alive,          \* [Escorts -> SUBSET Children]: children that run
    downPc,         \* [DownCallers -> DownStates]: control point of the call
    downOf          \* [DownCallers -> Escorts]: the object it was called on

escortVars == <<status, up, escortProcess, recv, drain, runPc, count, cmd,
                alive, downPc, downOf>>
vars == <<isRunning, crashed, escortVars>>

-----------------------------------------------------------------------------

NoProcess == 0
Children == 1..RestartLimit
Handles == Children \cup {NoProcess}

\* "none": not started.  "start", "append", "wait", "check": lines 31, 37, 39
\* and 42.  "exhausted": line 50.  "send": line 51.  "done": returned.
RunStates == {"none", "start", "append", "wait", "check", "exhausted",
              "send", "done"}
\* "check", "kill", "send", "clear": lines 100, 103-105, 107-109 and 110.
DownStates == {"idle", "check", "kill", "send", "clear", "returned"}

EscortTypeOK ==
    /\ isRunning \in BOOLEAN
    /\ crashed \in BOOLEAN
    /\ status \in [Escorts -> BOOLEAN]
    /\ up \in [Escorts -> BOOLEAN]
    /\ escortProcess \in [Escorts -> SUBSET Handles]
    /\ recv \in [Escorts -> Nat]
    /\ drain \in [Escorts -> Nat]
    /\ runPc \in [Escorts -> RunStates]
    /\ count \in [Escorts -> 0..RestartLimit]
    /\ cmd \in [Escorts -> Handles]
    /\ alive \in [Escorts -> SUBSET Children]
    /\ downPc \in [DownCallers -> DownStates]
    /\ downOf \in [DownCallers -> Escorts]

EscortInit ==
    /\ status = [e \in Escorts |-> FALSE]
    /\ up = [e \in Escorts |-> FALSE]
    /\ escortProcess = [e \in Escorts |-> {}]
    /\ recv = [e \in Escorts |-> 0]
    /\ drain = [e \in Escorts |-> 0]
    /\ runPc = [e \in Escorts |-> "none"]
    /\ count = [e \in Escorts |-> RestartLimit]
    /\ cmd = [e \in Escorts |-> NoProcess]
    /\ alive = [e \in Escorts |-> {}]
    /\ downPc = [d \in DownCallers |-> "idle"]
    /\ downOf \in [DownCallers -> Escorts]

Panic == crashed' = TRUE

runVars == <<runPc, count, cmd>>
closerVars == <<recv, drain>>
downVars == <<downPc, downOf>>

-----------------------------------------------------------------------------
(* Operations the owner calls. *)

Closers(e) == recv[e] + drain[e]

\* No goroutine can reach the object any more.
Garbage(e) ==
    /\ runPc[e] \in {"none", "done"}
    /\ alive[e] = {}
    /\ Closers(e) = 0
    /\ \A d \in DownCallers : downOf[d] = e => downPc[d] = "idle"

\* NewEscort and SetStatus, called one after the other on an object nobody
\* else has.  The element of Escorts that stands for it may have stood for
\* an object that is garbage by now.
NewEscort(e) ==
    /\ Garbage(e)
    /\ status' = [status EXCEPT ![e] = TRUE]
    /\ up' = [up EXCEPT ![e] = FALSE]
    /\ escortProcess' = [escortProcess EXCEPT ![e] = {}]
    /\ runPc' = [runPc EXCEPT ![e] = "none"]
    /\ UNCHANGED <<crashed, closerVars, count, cmd, alive, downVars>>

\* Mutant: the closer is forgotten.
RaiseList_NoCloser(e) ==
    /\ up' = [up EXCEPT ![e] = TRUE]
    /\ escortProcess' = [escortProcess EXCEPT ![e] = {}]
    /\ UNCHANGED recv

\* Lines 85-86 and 95-96; the callers test for a nil list first (lines 82
\* and 92), which is a step of its own where two of them can meet.
RaiseList(e) ==
    /\ up' = [up EXCEPT ![e] = TRUE]
    /\ escortProcess' = [escortProcess EXCEPT ![e] = {}]
    /\ recv' = [recv EXCEPT ![e] = @ + 1]

EscortingUPV(e) ==
    /\ IF up[e] THEN UNCHANGED <<up, escortProcess, recv>> ELSE RaiseList(e)
    /\ UNCHANGED <<crashed, status, drain, runVars, alive, downVars>>

\* go v.EscortRun(...)
GoEscortRun(e) ==
    /\ runPc' = [runPc EXCEPT ![e] = "start"]
    /\ count' = [count EXCEPT ![e] = RestartLimit]
    /\ cmd' = [cmd EXCEPT ![e] = NoProcess]

SpawnEscortRun(e) ==
    /\ GoEscortRun(e)
    /\ UNCHANGED <<crashed, status, up, escortProcess, closerVars, alive,
                   downVars>>

\* EscortingUP after its test; configured: v.Configure lists a process.
EscortingUP(e, configured) ==
    /\ RaiseList(e)
    /\ IF configured THEN GoEscortRun(e) ELSE UNCHANGED runVars
    /\ UNCHANGED <<crashed, status, drain, alive, downVars>>

CallEscortingDown(d, e) ==
    /\ downPc[d] = "idle"
    /\ downPc' = [downPc EXCEPT ![d] = "check"]
    /\ downOf' = [downOf EXCEPT ![d] = e]
    /\ UNCHANGED <<crashed, status, up, escortProcess, closerVars, runVars,
                   alive>>

EscortingDownReturns(d) ==
    /\ downPc[d] = "returned"
    /\ downPc' = [downPc EXCEPT ![d] = "idle"]
    /\ UNCHANGED <<crashed, status, up, escortProcess, closerVars, runVars,
                   alive, downOf>>

-----------------------------------------------------------------------------
(* EscortRun. *)

\* Lines 19-31.  GetEnvironment dereferences the Status pointer first.
\* mayFail: the executable is missing, or the number that lines 25-29 hand to
\* the child as a file is closed.
RunStart(e, mayFail) ==
    /\ runPc[e] = "start"
    /\ \/ /\ ~status[e]
          /\ Panic
          /\ UNCHANGED <<runVars, alive>>
       \/ /\ status[e]
          /\ cmd' = [cmd EXCEPT ![e] = count[e]]
          /\ alive' = [alive EXCEPT ![e] = @ \cup {count[e]}]
          /\ runPc' = [runPc EXCEPT ![e] = "append"]
          /\ UNCHANGED <<crashed, count>>
       \/ /\ status[e]
          /\ mayFail
          /\ cmd' = [cmd EXCEPT ![e] = NoProcess]
          /\ runPc' = [runPc EXCEPT ![e] = "append"]
          /\ UNCHANGED <<crashed, count, alive>>
    /\ UNCHANGED <<status, up, escortProcess, closerVars, downVars>>

\* Mutant: only the first process is recorded (append moved out of the loop).
RunAppend_FirstOnly(e) ==
    /\ runPc[e] = "append"
    /\ runPc' = [runPc EXCEPT ![e] = "wait"]
    /\ escortProcess' = IF count[e] = RestartLimit
                        THEN [escortProcess EXCEPT ![e] = @ \cup {cmd[e]}]
                        ELSE escortProcess
    /\ UNCHANGED <<crashed, status, up, closerVars, count, cmd, alive,
                   downVars>>

\* Line 37, which dereferences the list EscortingDown may have set to nil.
RunAppend(e) ==
    /\ runPc[e] = "append"
    /\ IF up[e]
       THEN /\ escortProcess' =
                   [escortProcess EXCEPT ![e] = @ \cup {cmd[e]}]
            /\ runPc' = [runPc EXCEPT ![e] = "wait"]
            /\ UNCHANGED crashed
       ELSE /\ Panic
            /\ UNCHANGED <<escortProcess, runPc>>
    /\ UNCHANGED <<status, up, closerVars, count, cmd, alive, downVars>>

\* Mutant: the loop does not wait for the child.
RunWaited_NoWait(e) ==
    /\ runPc[e] = "wait"
    /\ runPc' = [runPc EXCEPT ![e] = "check"]
    /\ UNCHANGED <<crashed, status, up, escortProcess, closerVars, count, cmd,
                   alive, downVars>>

\* Line 39: Wait returns at once, with an error, when there is no process.
RunWaited(e) ==
    /\ runPc[e] = "wait"
    /\ cmd[e] \notin alive[e]
    /\ runPc' = [runPc EXCEPT ![e] = "check"]
    /\ UNCHANGED <<crashed, status, up, escortProcess, closerVars, count, cmd,
                   alive, downVars>>

\* Mutants: the loop condition is count >= 0; and the branch that returns when
\* the service has stopped is dropped.
RunCheck_OffByOne(e) ==
    /\ runPc[e] = "check"
    /\ count' = [count EXCEPT ![e] = @ - 1]
    /\ runPc' = [runPc EXCEPT ![e] = "start"]
    /\ UNCHANGED <<crashed, status, up, escortProcess, closerVars, cmd, alive,
                   downVars>>
RunCheck_NoReturn(e) ==
    /\ runPc[e] = "check"
    /\ count' = IF isRunning THEN [count EXCEPT ![e] = @ - 1] ELSE count
    /\ runPc' = [runPc EXCEPT ![e] =
                     IF count'[e] > 0 THEN "start" ELSE "exhausted"]
    /\ UNCHANGED <<crashed, status, up, escortProcess, closerVars, cmd, alive,
                   downVars>>

\* Lines 42-47 and the loop condition of line 15.
RunCheck(e) ==
    /\ runPc[e] = "check"
    /\ IF isRunning
       THEN /\ count' = [count EXCEPT ![e] = @ - 1]
            /\ runPc' = [runPc EXCEPT ![e] =
                             IF count[e] > 1 THEN "start" ELSE "exhausted"]
       ELSE /\ runPc' = [runPc EXCEPT ![e] = "done"]
            /\ UNCHANGED count
    /\ UNCHANGED <<crashed, status, up, escortProcess, closerVars, cmd, alive,
                   downVars>>

\* Line 50.
RunExhausted(e) ==
    /\ runPc[e] = "exhausted"
    /\ runPc' = [runPc EXCEPT ![e] =
                     IF isRunning /\ e \notin Forgiveable THEN "send"
                                                          ELSE "done"]
    /\ UNCHANGED <<crashed, status, up, escortProcess, closerVars, count, cmd,
                   alive, downVars>>

\* The child ends by itself.
ChildExit(e) ==
    /\ alive[e] # {}
    /\ \E n \in alive[e] : alive' = [alive EXCEPT ![e] = @ \ {n}]
    /\ UNCHANGED <<crashed, status, up, escortProcess, closerVars, runVars,
                   downVars>>

-----------------------------------------------------------------------------
(* EscortingDown. *)

\* Line 100.
DownCheck(d) ==
    /\ downPc[d] = "check"
    /\ downPc' = [downPc EXCEPT ![d] =
                      IF up[downOf[d]] THEN "kill" ELSE "returned"]
    /\ UNCHANGED <<crashed, status, up, escortProcess, closerVars, runVars,
                   alive, downOf>>

\* Lines 103-105: Kill of a nil handle panics, and so does the dereference of
\* a list another caller has set to nil since the check.
DownKill(d) ==
    LET e == downOf[d] IN
    /\ downPc[d] = "kill"
    /\ IF up[e] /\ NoProcess \notin escortProcess[e]
       THEN /\ alive' = [alive EXCEPT ![e] = @ \ escortProcess[e]]
            /\ downPc' = [downPc EXCEPT ![d] = "send"]
            /\ UNCHANGED crashed
       ELSE /\ Panic
            /\ UNCHANGED <<alive, downPc>>
    /\ UNCHANGED <<status, up, escortProcess, closerVars, runVars, downOf>>

\* Line 110.
DownClear(d) ==
    /\ downPc[d] = "clear"
    /\ up' = [up EXCEPT ![downOf[d]] = FALSE]
    /\ escortProcess' = [escortProcess EXCEPT ![downOf[d]] = {}]
    /\ downPc' = [downPc EXCEPT ![d] = "returned"]
    /\ UNCHANGED <<crashed, status, closerVars, runVars, alive, downOf>>

-----------------------------------------------------------------------------
(* The channel and unforgivenessCloser. *)

\* A send on the unbuffered channel completes together with the receive of a
\* closer: the first receive (line 62), or one of its drain loop (line 71).
CloserReceives(e) ==
    \/ /\ recv[e] > 0
       /\ recv' = [recv EXCEPT ![e] = @ - 1]
       /\ drain' = [drain EXCEPT ![e] = @ + 1]
    \/ /\ drain[e] > 0
       /\ UNCHANGED closerVars

RunSend(e) ==
    /\ runPc[e] = "send"
    /\ CloserReceives(e)
    /\ runPc' = [runPc EXCEPT ![e] = "done"]
    /\ UNCHANGED <<crashed, status, up, escortProcess, count, cmd, alive,
                   downVars>>

DownSend(d) ==
    /\ downPc[d] = "send"
    /\ CloserReceives(downOf[d])
    /\ downPc' = [downPc EXCEPT ![d] = "clear"]
    /\ UNCHANGED <<crashed, status, up, escortProcess, runVars, alive, downOf>>

\* Mutant: the first, blocking receive of line 62 is missing.
CloserQuits_NoFirstReceive(e) ==
    /\ \/ drain[e] > 0 /\ drain' = [drain EXCEPT ![e] = @ - 1] /\ UNCHANGED recv
       \/ recv[e] > 0 /\ recv' = [recv EXCEPT ![e] = @ - 1] /\ UNCHANGED drain
    /\ UNCHANGED <<crashed, status, up, escortProcess, runVars, alive,
                   downVars>>

\* Lines 74-78.  The default branch is taken when no sender is parked on the
\* channel; a sender that has come to its send may still miss the closer.
CloserQuits(e) ==
    /\ drain[e] > 0
    /\ drain' = [drain EXCEPT ![e] = @ - 1]
    /\ UNCHANGED <<crashed, status, up, escortProcess, recv, runVars, alive,
                   downVars>>

-----------------------------------------------------------------------------
(* The steps goroutines take by themselves, for modules that compose this    *)
(* one; a crashed program takes none.                                        *)

RunStep(e, mayFail) ==
    \/ RunStart(e, mayFail) \/ RunAppend(e) \/ RunWaited(e)
    \/ RunCheck(e) \/ RunExhausted(e) \/ RunSend(e)
DownStep(d) == DownCheck(d) \/ DownKill(d) \/ DownSend(d) \/ DownClear(d)

-----------------------------------------------------------------------------
(* What the supervisor promises, whoever owns it. *)

\* An EscortRun never has two children at a time: a child is started only
\* after Wait has returned for the one before it (escort.go:15-48).
AtMostOneAlive ==
    \A e \in Escorts : \A m, n \in alive[e] : m = n

\* While an object is up, EscortingDown can find every child: it is in the
\* list, or it is the one EscortRun is about to append (escort.go:31-37).
TrackedOrInFlight ==
    \A e \in Escorts : up[e] /\ ~crashed =>
        \A n \in alive[e] : \/ n \in escortProcess[e]
                            \/ runPc[e] = "append" /\ cmd[e] = n

\* EscortRun gave up: it used all its restarts.
Spent(e) == runPc[e] = "done" /\ count[e] = 0

ClearPending(e) == \E d \in DownCallers : downPc[d] = "clear" /\ downOf[d] = e

\* The one token an object in use needs is not lost: while it is up a closer
\* waits for its first token, unless the process used up its restarts and
\* EscortRun sent that token (escort.go:51), or an EscortingDown has sent it
\* and is about to clear the list.  So EscortingDown finds no receiver only
\* when EscortRun gave up first, or when two calls race.
CloserWaits ==
    \A e \in Escorts : up[e] => recv[e] > 0 \/ Spent(e) \/ ClearPending(e)
=============================================================================
