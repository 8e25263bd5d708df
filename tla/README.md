# A verification project for AndroidLibV2ray

AndroidLibV2ray is a Go library that an Android application embeds to run the
V2Ray proxy core in its own process. This directory holds TLA+ models of the
parts of it that are concurrent, TLC configurations that check them on small
instances, and theorems about them that TLAPS has checked. Line numbers refer
to the files under `src/`.

## 1. The system

### Components

| Component | Source | State | Operations | Module |
|---|---|---|---|---|
| Service object | `interact.go` (V2RayPoint) | IsRunning, Vpoint, confng, interuptDeferto, Context | RunLoop, StopLoop, NetworkInterrupted, UpgradeToContext, VPN setters | `V2RayPoint` |
| Process supervisor | `Process/Escort/escort.go` (Escorting) | process list, channel, status | EscortingUP, EscortingUPV, EscortRun, EscortingDown | `Escort`, `EscortSystem` |
| VPN mode | `VPN/vpnservice_interact.go` (VPNSupport) | Conf, Estr, lowerup, tun descriptor | VpnSetup, VpnSupportReady, VpnShutdown, next-generation tunnel | `VPNSupport` |
| Stability assistant | `sas.go` | Engaged, armed, channel, monitors | Start, Stop, ProbeNowOpi | `StabilityAssist` |
| Context | `context.go` (V2RayContext) | selected file, property file, package name | AssignConfigureFile, GetConfigureFile, ReadProp, WriteProp, SetPackageName | `Context` |
| QR scanning | `qrscan.go` | decoder (vendored `QRDecoding.go`), legacy result, surpressFinish, CurrentScan | ScanQR, OnNewScanResult, Finish, Discard | `QRScan` |
| Shipped binaries | `shippedBinarys/firstrun.go` | files and a marker | CheckAndExport | `FirstRun` |
| Configuration conversion | `configure/jsonConvert` | v.conf while it converts | LoadFromFile, Parse, parseConf, ToPb, renderAll | `Converter`, `Loading` |
| Protected dialer | `VPN/vpnservice_support.go`, `vpnservice_dnsloopfix.go` | prepared addresses, sockets | Dial, prepareDomainName, setV2RayDialer | `Dialer` |
| The process of the app | Android, the Go runtime | what is on disk, what is in memory | panic, kill, start, upgrade | `AppProcess`, `App` |
| Scripts, environment | `Process/UpDownScript`, `Process/environment.go` | Configure, Status pointers | RunUpScript, RunDownScript | inside `V2RayPoint` |
| Counters, assets, versions | `stat.go`, `assertOverwrite.go`, ... | almost none | conversions | not modelled |
| Build scripts | `data/*.sh` | files, tags | build and release | not modelled |
| Vendored libraries, but the QR decoder | `vendor/` | - | - | not modelled |

### How they interact

The application calls the exported methods from any thread. `RunLoop` takes the
mutex `v2rayOP`, tests `IsRunning` and starts the goroutine `pointloop`;
`StopLoop` does the same with `stopLoopW`. The mutex covers only the test and
the `go` statement: `pointloop` itself sets `IsRunning`, so a second call in
between starts a second goroutine. `NetworkInterrupted` starts a goroutine that
closes the core, sleeps and starts it again, under a compare-and-swap on
`interuptDeferto`; `pointloop` also writes that variable and has a 5 s timer
clear it. None of the fields is protected further.

`pointloop` loads the configuration (text or file, JSON or protobuf), makes the
core, sets `IsRunning`, starts the core, and, when the configuration has a part
for this library, raises the root-mode `Escorting` object, closes the gate
`interuptDeferto`, sets the VPN up, runs the up script and tells the client
"Running". `VpnSetup` asks the client to prepare its VpnService; the client
answers on a thread of its own with `VpnSupportReady`, which opens the tun
interface and makes a new `Escorting` object for tun2socks (or starts the
tunnel of a library). `stopLoopW` undoes all this in order and tells "Closed".

An `Escorting` object runs `EscortRun` (start, record, wait, start again up to
42 times while the service runs) and one `unforgivenessCloser`, the only
receiver of an unbuffered channel on which `EscortingDown` and an exhausted
`EscortRun` send. A panic in any goroutine ends the program; only
`NetworkInterrupted` recovers.

Several things outlive a session and even the process. The selected
configuration file is cached in a `V2RayContext` and kept in a property file
that every context of the same package shares; pointloop looks it up twice, to
guess its type and to read it. Converting it renders a file from an asset that
`CheckAndExport` puts on disk a few steps later, once for each version of the
app, under a marker file. The QR scanner writes new configuration files into
the directory of the selected one. The dialer that `VpnSupportReady` installs
stays installed: the core of a later session dials through it while that
session's `VpnSetup` writes the maps of prepared addresses the dialer reads.

`StabilityAssist` stands alone: it probes the network while engaged and tells
the client of a loss, and the client decides what to do.

### What is hard, and what makes each part correct

* **Escorting.** Fields are read and written between two steps of other
  goroutines; the receiver of the channel serves one round of tokens. Correct
  means: never two children at a time, no child that EscortingDown cannot find,
  the one token an object needs is not lost, EscortingDown returns, restarts
  stop when the service stops.
* **V2RayPoint.** Two entry points whose goroutines may overlap with each
  other, with restarts and with a timer; every failure (core.New, Start, the
  loader) is only logged. Correct means: workers exclude each other for a
  client that waits for the callbacks, IsRunning implies a core, no running core
  is dropped, the gate admits one restart and opens again, the client is
  answered, nothing is held after "Closed".
* **VPNSupport.** Set up in the client's thread, taken down in another; the
  descriptor has to be closed exactly once. An `os.File` is made of its number
  for each child (`escort.go:26`) and never closed, so a finalizer may close the
  number long after, whoever owns it then. Correct means: until that happens
  nothing is closed twice, and nothing panics.
* **Context.** A cache, a file written in two steps whose errors are dropped,
  several objects over one file, and lookups that test, read and store without
  a lock. Correct means: a context shows what the next process will read, and
  pointloop reads the file whose type it guessed, unless a race or failure that
  can be named came between.
* **Shipped binaries.** The process can end, and a write can fail, between any
  two steps; two pointloops may export at once. Correct means: of every binary that
  was written in full the marker tells the truth, and a session has it in the
  installed version.
* **Conversion.** An error leaves half a configuration, which is then used; an
  environment with an entry that is no string vanishes without an error.
  Correct means: what is served is the whole or exactly the part before the
  error, but for such an environment.
* **QRScan.** The decoder is kept, replaced or dropped by six calls that come
  in any order. Correct means: what was announced can be finished, and what is
  saved was announced.
* **Dialer.** A descriptor passes from Dial to an os.File to the collector;
  maps are shared with the next session. Correct means: no descriptor but that
  of a failed connect is lost, none has two holders, no address of an earlier
  session is used, and the first session cannot panic.
* **StabilityAssist.** A monitor is not tied to its session. Correct means: an
  engaged object is watched and probed, reports are due and come once, and
  monitors end.

`PROJECT.json` lists every hazard at its line, with the properties that watch it.

## 2. The modules

| Module | What it is |
|---|---|
| `Escort` | The supervisor: every step of EscortRun, unforgivenessCloser and EscortingDown as an action over shared fields, and the supervisor's safety properties. No specification of its own. |
| `EscortSystem` | `Escort` with an owner that makes, raises and takes down objects as the VPN and root modes do, sets IsRunning at will, and may panic elsewhere. Several pointloops may have found a root object down and raise it. |
| `VPNSupport` | Extends `Escort` with VPN mode: Prepare, Setup, Shutdown, both backends, and the finalizers of the files made of the tun number. |
| `V2RayPoint` | Extends `VPNSupport` with pointloop, stopLoopW, the restart goroutine, the timer, the core and the client: the whole program. |
| `Service` | The abstract promise: idle, starting, serving, stopping; what the core and the tun interface may do in each; each request answered. |
| `V2RayPointProps` | The properties of `V2RayPoint`, and `Promise == INSTANCE Service` with the refinement mapping `core <- vpoint = "running"`, `tun <- fd = "open"`, `phase <- client`. `Supervision == INSTANCE EscortSystem` is the other abstraction: `ownerPc <- OwnerPc`, how far pointloop and VpnSupportReady are with each Escorting object. |
| `StabilityAssist` | The watchdog, with its properties. |
| `AppProcess` | The process: alive, or ended by a panic and where. |
| `Context` | The file selection. AssignConfigureFile is its cache update and the two steps of WriteProp; GetConfigureFile is a test, a read, a store and a return, each a step of the thread that calls it. |
| `FirstRun` | CheckAndExport, each write of each asset a step that may fail. |
| `Converter` | Operators only: what parseConf makes of a file abstracted to the state of its sections. |
| `Loading` | Composes the three: pointloop from line 104 to 155, several of them at once. |
| `QRScan` | The scanner with its decoder; Finish looks the selection up through `Context`, as one more thread. |
| `Dialer` | VpnSetup's DNS preparation over the sessions of a process, and Dial. |
| `App` | Composes `Loading`, `QRScan` and `Dialer`, with kills, restarts and upgrades. |
| `MCEscort`, `MCV2RayPoint`, `MCStabilityAssist`, `MCApp` | Model values and instances for TLC. |
| `EscortProofs`, `V2RayPointProofs`, `StabilityAssistProofs` | Theorems. |
| `PatientProofs` | Extends `V2RayPointProofs`: the types of `V2RayPoint`, and that a patient client never sees a panic. |
| `SupervisionProofs` | Extends `PatientProofs`: `V2RayPoint` implements `EscortSystem`, so that what `EscortProofs` proves holds inside the service. |
| `AppProofs` | Which steps of `App` touch which component, its type correctness and the safety of the scanner; the next two extend it. |
| `LoadingProofs`, `DialerProofs` | The safety of the other parts, as theorems of the whole `App`. |

There are two compositions. `V2RayPoint` is one session after another in fine
detail, with the configuration taken from a set; `App` is everything around the
sessions in fine detail, with pointloop a loader until line 155 and then a
session of a few states. They meet at line 155: `Loading` says what `confng` can
be, `V2RayPoint` takes it from `Configs`.

Conventions. A goroutine is a control-point variable (`runPc`, `downPc`,
`startPc`, `stopPc`, `intPc`, `readyPc`, `monPc`, `callPc`), whose values are
documented with the lines they stand for; an action is what the goroutine does
between two accesses of shared state. `crashed` is a panic: every action of the
program except a child's exit is disabled after it; so is the collector. An operator whose comment
begins "Mutant" is a plausible bug of the definition below it; nothing uses it
in a run of the project itself, it records what the properties can tell apart.

Abstractions. A configuration is a record of what the code tests (kind, whether
the core's part parses, which library messages are present). A core is "nil",
"bad" (core.New failed and a nil pointer is stored), "new", "running" or
"closed". A child is the value of EscortRun's counter. Environment, command
lines, logging and the contents of scripts are left out.

In `App` a configuration file is abstracted to its kind (the name's and the
content's), whether the library's part is there, and for each of its five
sections whether it is absent, well formed or malformed; an environment, or the
arguments to render with, may also lack an "=", and an environment may have an
entry that is no string. An asset on disk is the version it is of, or
torn. An address is the session that resolved it and whether it is nil. A piece
of a QR group is its number. `Kill` resets what is in memory and keeps what is
on disk.

History variables, read by properties only: `leaked`, `staleClose`, `reopened`
(`V2RayPoint`), `lost` (`VPNSupport`), `overlapped`, `proved`, `reported`
(`StabilityAssist`), `assigners`, `unsaved`, `renamed`, `outrun`, `doubled`
(`Context`), `spoiled` (`FirstRun`, a set of assets), `markedBefore`,
`unrendered` (`Loading`), `announced`, `legacySeen`, `saved` (`QRScan`),
`failed`, `overtaken`, `looked`, `refused` (`Dialer`). Most name what a property
makes an exception for, so that the exceptions are as narrow as the code allows.
`client` in `V2RayPoint` is what the client has asked for and been answered;
it also guards the calls of a client that waits.

## 3. The runs

Runs that must pass:

| Run | Question | States, about |
|---|---|---|
| `escort` | With one caller of EscortingDown, a VPN and a root object, and starts that fail: are children found and alone, is the token kept, does EscortingDown return, do restarts stop? | 175 000 |
| `pt_patient` | Does the program implement `Service` and answer every call, for a client that waits for every callback, over endless sessions of four kinds of configuration? Does it use its Escorting objects as `EscortSystem`'s owner does? Does it panic, or close a descriptor twice, before a finalizer has closed the tun interface? Is what was assigned in force, but for protobuf text without the library's part? | 121 000 |
| `pt_restart` | Two restarts at a time, with core.New and Start failing: is overlap explained by a timer, does the gate reopen unless the program panics, and is the nil core of a failed core.New found only before pointloop panics on it? | 52 000 |
| `pt_status` | Is waiting for the status and VpnSupportReady enough to keep workers apart and to lose no core, for every incomplete configuration and every failure? (No network interruptions: `pt_zombie` shows what they do.) | 956 000 |
| `sas` | Is an engaged object watched and probed, are reports due and single, do monitors end? Reports are excepted in a session whose Start came while the last one was ending: a late probe may then report for it. | 100 000 |
| `app` | Several small lives of an app: does the selection agree with the disk, does the marker tell the truth, is half a configuration the half before the error, is what was announced saved, are descriptors and addresses kept apart? | 264 000 |

Runs that must find a violation; each quotes, in `PROJECT.json`, what the
repository says:

| Run | What it shows |
|---|---|
| `pt_overlap` | pointloop's timer stores 0 into `interuptDeferto` while a restart holds it (`interact.go:202`), so two restarts run at once, although "any Interruption Message will be surpressed". |
| `pt_zombie` | A restart that sleeps while StopLoop runs starts the core again after "Closed" (`interact.go:329`). |
| `pt_hang` | After its 42 restarts EscortRun sends the token that the only closer takes; EscortingDown then blocks for ever, and StopLoop with it (`escort.go:107`). |
| `pt_quick` | RunLoop soon after "Closed" sets IsRunning before the old EscortRun tests it: the killed process is started again and its append dereferences nil (`escort.go:37, 42`). |
| `pt_left` | EscortRun has started the process and not yet recorded it when StopLoop comes: EscortingDown does not find it, "Closed" is told, and it still runs (`escort.go:31-37, 103`). |
| `pt_stale` | A protobuf configuration without the library's part is served with the last session's root, VPN and script settings (`interact.go:92-100, 133-139`). |

`pt_hang`, `pt_quick` and `pt_left` are why `DownReturnsUnlessSpent`,
`CloserWaits` and `TrackedOrInFlight` have the exceptions they have, and why the
patient client of `pt_patient` waits for the supervisor; `pt_stale` is the
exception of `ServesConfig`.

### Bounds

* `RestartLimit = 2` for 42: one restart and the exhaustion both happen; the
  theorems hold for every limit.
* `MaxClosers`: closers of one object at a time. A closer whose token never
  comes stays for ever, so sessions without it would grow without bound. 2
  lets an old and a new closer compete.
* `MaxTimers`: pending 5 s timers. One is enough for a timer to hit a
  restart; `pt_patient` has two.
* One or two goroutines of each kind: every race described above needs two.
  A caller that finds no free control point waits, which bounds how many
  goroutines of one kind run, not how often they run.
* `Escorts = {root, v1}` in `pt_patient`, whose client makes a new VPN object only
  when the supervisor of the last has returned; an element is used again only when
  nothing can reach the object it stood for (`Garbage`).
* `MaxWait = 30` for 500 in `sas`: the back-off reaches its cap in one step.
* `Lives` in `app`: what one client does is a set of operations and a disk to
  begin with. The parts of `App` share little, so a run of everything with
  everything would be mostly product; each life lets the parts that do interact
  interact. `Picking`: two contexts over one property file or two, looked up
  and assigned to by a picker while one or two pointloops load, before a
  renaming, and before the process is killed.
  `Installing`: nothing exported yet, two pointloops at once, or upgrades, on a
  disk that fails at any write. `Converting`: each of the 432 states a file's
  sections can be in, and each other kind of file. `Scanning`: two groups of
  three pieces, two of which suffice, a legacy code, foreign and malformed
  codes, Discard and Finish in any order. `Dialling`: whole and malformed VPN
  configurations, two sessions, two dials, two descriptors. The theorems hold
  for every set of lives, so also for the product.
* `MaxSessions = 2`, `MaxVersion = 2`: what a session or a version leaves behind
  for the next one. `Descriptors = {1, 2}`: a number is used again while another
  is open.
* `WorkerSymmetry` is used in `pt_status`, which has invariants only;
  `LoaderSymmetry` in `app`, whose one temporal formula is of single steps and
  does not speak of loaders.

`CHECK_DEADLOCK FALSE` appears where a crash, a client that asks no more, or a
client stuck behind a lost answer is a legitimate end; in `app` every life
ends when its client asks no more. `pt_patient` and `sas`
are checked for deadlock.

### The client

`Manners` in `V2RayPoint` says what the client waits for, because what is true
of this code depends on it: the status callbacks and its own VpnSupportReady
(`pt_status`), or everything (`pt_patient`, `pt_restart`). The theorems
`RunningMeansCore`, `RestartsExclude` and `TypeCorrect` are about a client that
waits for nothing.
"settle", waiting for the supervisor to act, is something an application can do
only by taking its time; `pt_quick` shows what happens without it.

### Fairness

Weak fairness per goroutine: the Go scheduler runs a goroutine that can run.
A `time.Sleep` or a timer bounds a delay from below only, and the calls around
it have no upper bound, so it is modelled as a point where others may run, and
it ends by fairness. `App` has no
fairness: its properties are of safety, and its loading waits for nothing.
The client is assumed
to answer Prepare with VpnSupportReady, and nothing else; children need not ever end.
Nothing makes the collector run: a finalizer may come or not. A probe ends
because its HTTP client has a 20 s timeout.

## 4. The proofs

All are for arbitrary values of the constants, under the `ASSUME`s of the
modules only.

**EscortProofs.** `TypeCorrect`, `OneChild`, `ChildrenTracked` and `TokenKept`
prove TypeOK, AtMostOneAlive, TrackedOrInFlight and CloserWaits of
`EscortSystem`. None is inductive alone. The inductive invariant has four
parts. `CountInv` ties EscortRun's counter to its control point: positive in
the loop, zero after it; without it a handle may be 0, the nil handle, and a
token sent by EscortRun could not be recognised as its last. `OwnerInv` says
what the owner has not done yet: a VPN object before Spawn has no EscortRun, and
a root object never has a status, hence never a child. `ChildInv` says the only
living child is the current command's, that EscortRun is then appending or
waiting, and that it is in the list when the object is up. `CloserWaits` is the
last part: a first receive takes a token only from an EscortRun that is `Spent`
or from an EscortingDown that then has `ClearPending`, and neither ends without
the list being cleared or the object replaced.

**V2RayPointProofs.** For the whole composed program. `RestartsExclude`
(OverlapNeedsTimer) follows from the gate alone: it is 1 while a restart runs
unless a timer has cleared it. `RunningMeansCore` (RunningHasCore) has
`MarkInv`: a pointloop past core.New has assigned something, and a nil instance
is found while IsRunning only between that and its own Start, where the program
panics; another pointloop may have assigned meanwhile. `WorkersExclude`
(WorkersExclusive), for a client that waits for the status: the client's phase
says which worker runs. `CoreNotLeaked` (NoCoreLeaked) adds where the core does
not run; it assumes that there are no network interruptions, which `pt_zombie`
shows to be necessary. Each begins with a lemma naming the only steps that
touch what the invariant speaks of (`GateSteps`, `WorkerSteps`, `CoreSteps`,
`ConfSteps`, `TunSteps`). `NextMoves` splits a step into what the program's
goroutines do (`Moves`) and the collector, which changes `fd`, `garbage` and
`lost` only (`CollectorKeeps`). `Harmless` is how the finalizers are dealt with: what the
moves preserve while `fd` is theirs holds until the first finalizer that takes
the tun descriptor, and `lost` says from then on that it did.

* `ConfigServed` (ServesConfig), for a client that waits for the status:
  `ConfInv` says that a pointloop past the load uses what the client assigned, or
  that this is a protobuf configuration without the part for this library.
* `NothingStaleClosed` (NoStaleClose), when the client also answers Prepare
  before StopLoop: `SessionHasTun` says that from VpnSetup on an interface is
  promised to a session that uses the VPN (Prepare is unanswered, or a thread is
  about to open it, or it is open), so that StopLoop finds it open, until a
  finalizer has closed it.
* `ServiceImplemented` (ImplementsService) is the refinement: for the same
  client, without interruptions and with a core that starts, every step of the
  program is a step of `Service` or changes nothing of it (`ServiceStep`); a
  finalizer's is `Lose`. The
  invariant adds to `CoreInv` that a pointloop past the start has the core
  running (`CoreUp`) and where the tun interface is closed and nobody is about
  to open it (`SessionReleases`): before VpnSetup, in a session without the VPN,
  and after VpnShutdown. A crash only stops the program, so the invariants speak
  of a program that has not crashed.

**PatientProofs.** `TypeCorrect` (TypeOK of `V2RayPoint`): the counter of
EscortRun is positive inside its loop (`CountInv`), so that a handle made of it
is one. `NeverPanics` (NoCrash) is for a client with all four manners, usable
configurations (`AllUsable`: the messages that pointloop dereferences are there
and no root-mode process is listed, whose nil Status would panic, `escort.go:19`), a
core that starts, and children that start and end only when they are killed;
NetworkInterrupted may come at any time. It holds until a finalizer closes the
tun descriptor: a child that is started after that fails to start, and
EscortingDown then kills a nil handle. `PatientInv` has one part for each
thing a panic would dereference. `SetupInv`: a session has assigned what stopLoopW
reads. `CoreThere`: there is a core where it is started or closed. `RunInv`:
EscortRun finds its status, its list and its child, and only v.Estr has one that
runs. `DownInv`: EscortingDown runs only in a service marked as stopped, and the
list it found stays. `ReadyInv`: VpnSupportReady runs only between VpnSetup and
StopLoop, one at a time, from a supervisor at rest (`Quiet`). `AnswerInv`:
VpnShutdown finds an Escorting object or a tunnel. `NobodyPanics` shows that
under these no step panics; the proof that they last may then assume that none
did. TLC first checked the invariant, with interruptions, on the instance of
`pt_patient`.

**SupervisionProofs.** `OwnersKeepOrder` (UsesEscortsAsOwner): every step of the
service is a step of `EscortSystem` or changes nothing of it (`ServiceOwns`), for
any number of goroutines and sessions, whatever the client waits for, fails or
panics. Its one hypothesis, `AnswersOneByOne`, is that VpnSupportReady runs on one
thread at a time: the client has one thread for it, or it waits for the status
and for its own answers. With two at a time v.Estr can be replaced between its
making and its raising (`vpnservice_interact.go:37-40`), and then one object is
raised twice and the token has no closer. The mapping needs three facts of a
state (`Owning`): the types; `OneReady`, which for a client that waits follows from
`AnswerTurn`, saying that no answer is under way outside a session or before
VpnSetup; and `StatusInv`, that the root object has no status and the object that
VpnSupportReady is at work on has one. `OwnerPcIs` then reads `OwnerPc` off the
control points. `EscortProofs` is instanced with the same mapping, in which a Start
may always fail (the tun number may be closed), so that its step lemmas hold of
the service's steps (`ServiceOwnsAll`), and `ServiceKeepsToken` (CloserWaits),
`ServiceRunsOneChild` (AtMostOneAlive) and `ServiceTracksChildren`
(TrackedOrInFlight) follow for the composed program. The last is about objects
that are up: of one that is down `pt_left` shows that its process may survive.

**StabilityAssistProofs.** `Watched`, `LossReported` and `ReportedOnce`. The
invariant says that a session which began with nothing under way has one Start
and then one monitor (`OneMonitor`), and what armed, the report and Engaged are
in it (`Session`). `TypeCorrect` needs arithmetic for one field: a wait grown by
half and capped stays in 15..MaxWait (`NextWaitInRange`).

**AppProofs** and the two modules that extend it are about the whole `App`.
`AppProofs` first says which steps touch which component (`ContextSteps`,
`ExportSteps`, `LoadSteps`, `ScanSteps`, `DialerSteps`), then proves
`TypeCorrect` from `TypeInv`: TypeOK with `Holding`, without which DialConn
could hand on the missing descriptor. Each later proof is an invariant over one
component's variables, by cases on those steps.

* `LoadingProofs`, shipped binaries: `MarkerIsTrue`, `BinariesServed`, `RenderedFromCurrent`.
  `ExportInv` says of each asset that is not left to a goroutine, and of all once
  the marker is there, that it is exported, unless it was last not written in
  full (`spoiled`) or is being written over; `ExportedStays` that no other
  goroutine's step takes that away. `ServeInv` carries the marker from the test
  to the session, and `RenderInv` back to what Parse has read.
* `LoadingProofs`, contexts: `SelectionIsKept`, `OneFileRead`. `AssignInv` says that
  while an assignment is being written the context it is for shows its path in
  its directory; `StoreInv` that no lookup is about to store over a file that was
  assigned, except in a context assigned to during the lookup (`outrun`), and
  that one about to fill an empty cache holds what the property file holds, or
  nothing, unless the context has moved to another directory (`renamed`);
  `GuessInv` that between the two lookups the guessed file is in the service's
  cache and, with `AloneInv`, that at most one thread is about to fill that
  cache, unless the service was assigned to or two were at once (`doubled`).
* `LoadingProofs`, conversion: `WholeOrPrefixServed`. `FirstMalformed` picks the
  section at which parseConf gives up, `ParsedWholeOrPrefix` shows that Parse
  returns all of a file or what is before that section (`AllReached`,
  `PrefixReached`), and `ServedInv` that nothing else reaches a loader's conf or
  confng. No step of `App` changes the content of a file, so what was read stays
  what the file says.
* `AppProofs`, the scanner: `FinishIsSafe`, `CompleteAnnounced`, `SavesAnnounced`.
  `FlagTellsTruth` ties surpressFinish to the announcement of the decoder's own
  group; `OneGroup` keeps pieces of other groups out.
* `DialerProofs`: `OnlyRefusedLost`, `CurrentAddress`, `FirstSessionSafe`.
  `MapInv` says that maps are written only in "prepare", hold only what this
  session resolved once it asked Prepare, and that the dialer is installed in
  "prepare" only if an earlier session did it; `NilInv` that a nil address
  comes from a failed name.

Every invariant and every step property that a passing run checks is stated by
one of these theorems. Only model-checked are the liveness properties, because
the prover has no liveness under fairness: DownReturnsUnlessSpent, RestartsStop,
AnswersClient, GateReopens, MonitorsEnd and KeepsProbing.

## 5. Not modelled, and the plan

Modelled, and seen in the models, but not stated as a property of its own, most
often because nothing in the repository says that it should be otherwise. Where a
property above has to make an exception for it, that property is named.

* A finalizer closes the tun interface under a running session
  (`escort.go:26`): `lost` in NoCrash and NoStaleClose, `Lose` in `Service`.
* The root-mode object never gets a Status (`escort.go:19`), so the first
  configured process ends the program; `conf/config_mobile.json:129-138` lists one.
* A core that could not be made panics in pointloop (`interact.go:183`), and may
  be met by NetworkInterrupted before, whose recover leaves the gate closed:
  RunningHasCore, GateReopens.
* The store of `interact.go:330` cuts short the 5 s of line 196; the model has no
  clock to say so.
* A session started while the last is ending: a late probe may report for it, and
  clear its Engaged (`sas.go:89-91`): ReportsLoss, ReportsOnce.
* A lookup that found the cache empty stores what it read over what was assigned
  meanwhile (`context.go:92-93`), also between the two lookups of pointloop:
  `outrun` in SelectionAgrees, `doubled` in LoadsWhatItGuessed. A process that ends
  between WriteProp's truncation and its write leaves no selection
  (`context.go:124`).
* A marker is written although an asset was not (`firstrun.go:49`): `spoiled` in
  MarkedIsExported and ServesItsBinaries. A second exporter truncates a binary
  that is in use (`firstrun.go:44`): `Writing` in both.
* In the first session after an installation or an upgrade the rendered file is
  empty or the older version's, because Parse runs before CheckAndExport
  (`interact.go:117, 152`): `markedBefore` in RenderedIsCurrent.
* An environment with an entry that is no string is dropped without an error
  (`simplejson.go:226-228`): ServesWholeOrPrefix. One without "=" panics, and so do
  arguments to render with (`legacyJsonStructToPb.go:45`, `rendercfg.go:34`).
* Finish of a legacy code writes the file and then always panics (`qrscan.go:89`);
  a fresh decoder counts as ready, and its Finish panics; a malformed code makes
  OnNewScanResult call itself until the stack ends (`qrscan.go:55`).
* The maps of prepared addresses are written while the dialer of an earlier
  session reads them (`vpnservice_dnsloopfix.go:24`), and a plain session keeps
  them: FirstVpnSessionDialsSafely, DialsCurrentAddress.

Left out, and why:

* What else a finalizer of a tun number may close: any descriptor of the process
  can have the number by then. The files of `escort.go:26` are modelled in
  `V2RayPoint`, the sockets of `Dialer` in `App`, and not one with the other.
* A client that answers Prepare twice (`vpnservice_interact.go:37`).
* A StopLoop before the client has answered Prepare, in `Dialer` only;
  `V2RayPoint` has it, for a client that does not wait.
* The texts that the converter handles: JSON syntax and comments, the expansion
  of variables in scripts and arguments, and whether a file name ends in the
  suffix it was guessed by.
* `LibV2Ray.proto:44` gives `NoAutoConvert` a meaning no code implements.
* The listings of `context.go` and its callbacks, and a client that writes the
  property with WriteProp itself.
* `oceanDialer.go`: it resolves and calls `core.Dial`, and keeps nothing; the
  core is not in the repository. The counters of `stat.go` (a read and a
  conversion), the embedded assets and the map that overrides them, build
  scripts, vendored code other than the QR decoder, contents of scripts.

Next: the client that answers twice.
