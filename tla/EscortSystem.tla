---------------------------- MODULE EscortSystem ----------------------------
(***************************************************************************)
(* Escorting objects together with an owner that uses them the way         *)
(* src/VPN/vpnservice_interact.go and src/interact.go do:                  *)
(*   - a VPN object is made, given its status, raised and given its one    *)
(*     EscortRun (startVPNRequire);                                        *)
(*   - a root object is never given a status and is raised in every        *)
(*     session (pointloop);                                                *)
(*   - any object is taken down from any of the DownCallers goroutines, at *)
(*     any moment, because stopLoopW runs on a goroutine of its own.       *)
(* The owner also sets and clears IsRunning.                               *)
(***************************************************************************)
EXTENDS Escort

CONSTANTS
    Roots,          \* the objects that belong to a V2RayPoint
    RootLists       \* whether Configure may list a process: subset of BOOLEAN

ASSUME RootsAssumption == Roots \subseteq Escorts

VARIABLE ownerPc    \* [Escorts -> OwnerStates]: progress of startVPNRequire

systemVars == <<vars, ownerPc>>

\* A root object is "made" while a pointloop that has found it down in
\* EscortingUP has not raised it yet.
OwnerStates == {"new", "made", "raised", "spawned"}

Init ==
    /\ EscortInit
    /\ isRunning = FALSE
    /\ crashed = FALSE
    /\ ownerPc = [e \in Escorts |-> "new"]

TypeOK == EscortTypeOK /\ ownerPc \in [Escorts -> OwnerStates]

-----------------------------------------------------------------------------

SetRunning ==
    /\ \E b \in BOOLEAN : b # isRunning /\ isRunning' = b
    /\ UNCHANGED <<crashed, escortVars, ownerPc>>

OwnerStep(e, from, to) ==
    /\ ownerPc[e] = from
    /\ ownerPc' = [ownerPc EXCEPT ![e] = to]
    /\ UNCHANGED isRunning

Make(e) ==
    /\ e \notin Roots
    /\ \/ OwnerStep(e, "new", "made")
       \/ OwnerStep(e, "spawned", "made")
    /\ NewEscort(e)

Raise(e) ==
    e \notin Roots /\ OwnerStep(e, "made", "raised") /\ EscortingUPV(e)

Spawn(e) == OwnerStep(e, "raised", "spawned") /\ SpawnEscortRun(e)

CheckRoot(e) ==
    /\ e \in Roots
    /\ ~up[e]
    /\ OwnerStep(e, "new", "made")
    /\ UNCHANGED <<crashed, escortVars>>

\* Another pointloop may have made the test too and raise it once more.
RaiseRoot(e) ==
    /\ e \in Roots
    /\ Closers(e) < MaxClosers
    /\ \E to \in {"new", "made"} : OwnerStep(e, "made", to)
    /\ \E configured \in RootLists : EscortingUP(e, configured)

\* pointloop or stopLoopW dereferences something else that is nil.
ServicePanics ==
    /\ Panic
    /\ UNCHANGED <<isRunning, escortVars, ownerPc>>

Owner ==
    \/ SetRunning \/ ServicePanics
    \/ \E e \in Escorts : \/ Make(e) \/ Raise(e) \/ Spawn(e)
                            \/ CheckRoot(e) \/ RaiseRoot(e)
    \/ /\ UNCHANGED <<isRunning, ownerPc>>
       /\ \E d \in DownCallers : \/ EscortingDownReturns(d)
                                 \/ \E e \in Escorts : CallEscortingDown(d, e)

Supervisor(e) ==
    /\ ~crashed
    /\ RunStep(e, StartMayFail)
    /\ UNCHANGED <<isRunning, ownerPc>>

Closer(e) ==
    /\ ~crashed
    /\ CloserQuits(e)
    /\ UNCHANGED <<isRunning, ownerPc>>

Down(d) ==
    /\ ~crashed
    /\ DownStep(d)
    /\ UNCHANGED <<isRunning, ownerPc>>

\* Children outlive the program that started them.
Child(e) ==
    /\ ChildExit(e)
    /\ UNCHANGED <<isRunning, ownerPc>>

Next ==
    \/ ~crashed /\ Owner
    \/ \E e \in Escorts : Supervisor(e) \/ Closer(e) \/ Child(e)
    \/ \E d \in DownCallers : Down(d)

Spec == Init /\ [][Next]_systemVars

\* The Go scheduler runs every goroutine that can take a step.  Nothing makes
\* the owner call, and nothing makes a child end.
Fairness ==
    /\ \A e \in Escorts : WF_systemVars(Supervisor(e)) /\ WF_systemVars(Closer(e))
    /\ \A d \in DownCallers : WF_systemVars(Down(d))

FairSpec == Spec /\ Fairness

-----------------------------------------------------------------------------
(* What the supervisor promises. *)

\* With one caller, EscortingDown returns unless the process used up its
\* restarts or the program crashed (escort.go:98-112).
DownReturnsUnlessSpent ==
    \A d \in DownCallers :
        downPc[d] = "check" ~> \/ downPc[d] = "returned"
                               \/ crashed
                               \/ Spent(downOf[d])

\* Once the service stays stopped, EscortRun stops restarting: it returns, or
\* waits for a child that still runs, or hangs on its token because the closer
\* is gone (escort.go:42-52).
RestartsStop ==
    \A e \in Escorts :
        []~isRunning ~> \/ crashed
                        \/ runPc[e] \in {"none", "done"}
                        \/ runPc[e] = "wait" /\ alive[e] # {}
                        \/ runPc[e] = "send" /\ recv[e] = 0
=============================================================================
