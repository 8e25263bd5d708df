------------------------------ MODULE Service ------------------------------
(***************************************************************************)
(* What a V2RayPoint promises to the application that embeds it            *)
(* (src/interact.go: RunLoop, StopLoop, OnEmitStatus): each RunLoop is     *)
(* answered by "Running", each StopLoop by "Closed", and between "Closed"  *)
(* and the next RunLoop the service holds nothing: the proxy core does not *)
(* run and the tun interface is not open.  The tun interface alone may go  *)
(* away at any time (escort.go:26).                                        *)
(***************************************************************************)
VARIABLES
    phase,  \* "idle", "starting", "serving" or "stopping"
    core,   \* the proxy core runs
    tun     \* the tun interface is open

serviceVars == <<phase, core, tun>>

ServiceInit == phase = "idle" /\ core = FALSE /\ tun = FALSE

Start ==
    /\ phase = "idle"
    /\ phase' = "starting"
    /\ UNCHANGED <<core, tun>>

\* The core comes up before "Running" is told; the client may open the tun
\* interface after that.
Acquire ==
    \/ phase = "starting" /\ core' = TRUE /\ UNCHANGED <<phase, tun>>
    \/ phase \in {"starting", "serving"} /\ tun' = TRUE
       /\ UNCHANGED <<phase, core>>

Serve ==
    /\ phase = "starting"
    /\ core
    /\ phase' = "serving"
    /\ UNCHANGED <<core, tun>>

Stop ==
    /\ phase = "serving"
    /\ phase' = "stopping"
    /\ UNCHANGED <<core, tun>>

Release ==
    /\ phase = "stopping"
    /\ \/ core' = FALSE /\ UNCHANGED tun
       \/ tun' = FALSE /\ UNCHANGED core
    /\ UNCHANGED phase

\* The tun descriptor is lost; what the client asked for stays.
Lose ==
    /\ tun' = FALSE
    /\ UNCHANGED <<phase, core>>

Close ==
    /\ phase = "stopping"
    /\ ~core
    /\ ~tun
    /\ phase' = "idle"
    /\ UNCHANGED <<core, tun>>

ServiceNext == Start \/ Acquire \/ Serve \/ Stop \/ Release \/ Lose \/ Close

\* Every request is answered.
ServiceLive ==
    /\ phase = "starting" ~> phase = "serving"
    /\ phase = "stopping" ~> phase = "idle"

ServiceSpec == ServiceInit /\ [][ServiceNext]_serviceVars
=============================================================================
