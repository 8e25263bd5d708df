--------------------------- MODULE LoadingProofs ---------------------------
(* What pointloop loads, for any number of assets, loaders, versions,        *)
(* contexts, files and directories: the marker tells the truth about the     *)
(* shipped binaries whatever crashes and whatever write fails, and the file  *)
(* a context shows, the property file and the file pointloop reads agree.    *)
EXTENDS AppProofs

-----------------------------------------------------------------------------
(* The shipped binaries.                                                     *)

\* What is not left to a goroutine is exported, and no marker is there for
\* anything else; a file that is being written over exists.
ExportInv ==
    /\ markers \subseteq 1..version
    /\ version \in markers => \A a \in Assets : Exported(a)
    /\ \A l \in Loaders :
         /\ Exporting(l) => \A a \in Assets \ left[l] : Exported(a)
         /\ exportPc[l] \in {"write", "link"} => current[l] \in Assets
         /\ exportPc[l] = "write" => asset[current[l]] # 0
         /\ exportPc[l] = "link" =>
              \/ current[l] \in spoiled
              \/ asset[current[l]] = version
              \/ Writing(current[l])

LEMMA ExportInvInit == Init => ExportInv
<1> SUFFICES ASSUME Init PROVE ExportInv
  OBVIOUS
<1>1. PICK life \in Lives : FirstRunInit(life.exported)
  BY DEF Init
<1>2. life.exported \in BOOLEAN
  BY LivesAssumption
<1> QED
  BY <1>1, <1>2 DEF FirstRunInit, ExportInv, Exported, Exporting

\* What is exported stays so, whatever another goroutine does to it, as long as
\* the process lives.
LEMMA ExportedStays ==
  ASSUME TypeInv, ExportInv, NEW l \in Loaders,
         CheckAndExport(l) \/ ExportStep(l), NEW a \in Assets, Exported(a)
  PROVE  Exported(a)'
<1>a. FirstRunTypeOK /\ version # 0
  BY DEF TypeInv, TypeOK, FirstRunTypeOK, Versions
<1> USE <1>a DEF FirstRunTypeOK, Exported, Writing, ExportMoves, ExportStates,
        exportDisk, exportState
<1>1. CASE CheckAndExport(l)
  BY <1>1 DEF CheckAndExport
<1>2. CASE ExportCheck(l)
  BY <1>2 DEF ExportCheck
<1>3. ASSUME NEW b \in Assets, RestoreOpen(l, b)
      PROVE  Exported(a)'
  BY <1>3 DEF RestoreOpen
<1>4. ASSUME NEW b \in Assets, RestoreFail(l, b)
      PROVE  Exported(a)'
  BY <1>4 DEF RestoreFail
<1>5. CASE RestoreWrite(l)
  BY <1>5 DEF RestoreWrite
<1>6. CASE ExportLink(l)
  <2>1. CASE a # current[l]
    BY <1>6, <2>1 DEF ExportLink
  <2>2. CASE a = current[l] /\ asset[a] = version
    BY <1>6, <2>2 DEF ExportLink
  <2>3. CASE a = current[l] /\ asset[a] # version
    <3>1. a \in spoiled \/ (Writing(a) /\ asset[a] # 0)
      BY <1>6, <2>3 DEF ExportInv, ExportLink
    <3> QED
      BY <1>6, <2>3, <3>1 DEF ExportLink
  <2> QED
    BY <2>1, <2>2, <2>3
<1>7. CASE ExportMark(l)
  BY <1>7 DEF ExportMark
<1> QED
  BY <1>1, <1>2, <1>3, <1>4, <1>5, <1>6, <1>7 DEF ExportStep

LEMMA ExportInvStep ==
  ASSUME TypeInv, ExportInv, [Next]_vars
  PROVE  ExportInv'
<1>a. FirstRunTypeOK
  BY DEF TypeInv, TypeOK
<1>b. version \in 1..MaxVersion /\ 0 # version /\ Torn # 0
  BY <1>a, MaxVersionAssumption DEF FirstRunTypeOK, Versions, Torn
<1>c. version \in 1..version
  BY <1>b, MaxVersionAssumption
<1> USE <1>a DEF Exporting, ExportMoves, ExportStates, exportDisk, exportState
<1>1. CASE UNCHANGED exportVars
  BY <1>1 DEF ExportInv, Exported, Writing, exportVars, exportMemory
<1>2. ASSUME NEW l \in Loaders, CheckAndExport(l) \/ ExportStep(l)
      PROVE  ExportInv'
  <2>a. \A a \in Assets : Exported(a) => Exported(a)'
    BY <1>2, ExportedStays
  <2> USE <2>a DEF FirstRunTypeOK, ExportInv, Writing
  <2>1. CASE CheckAndExport(l)
    BY <2>1 DEF CheckAndExport
  <2>2. CASE ExportCheck(l)
    BY <2>2 DEF ExportCheck
  <2>3. ASSUME NEW a \in Assets, RestoreOpen(l, a)
        PROVE  ExportInv'
    BY <1>b, <2>3 DEF RestoreOpen
  <2>4. ASSUME NEW a \in Assets, RestoreFail(l, a)
        PROVE  ExportInv'
    BY <2>4 DEF RestoreFail
  <2>5. CASE RestoreWrite(l)
    BY <1>b, <2>5 DEF RestoreWrite
  <2>6. CASE ExportLink(l)
    <3>1. current[l] \in Assets /\ Exported(current[l])'
      <4>1. CASE asset[current[l]] = version
        BY <1>b, <2>6, <4>1 DEF ExportLink, Exported
      <4>2. CASE asset[current[l]] # version
        <5>1. current[l] \in spoiled \/ (Writing(current[l]) /\ asset[current[l]] # 0)
          BY <2>6, <4>2 DEF ExportLink
        <5>2. CASE current[l] \in spoiled
          BY <2>6, <4>2, <5>2 DEF ExportLink, Exported
        <5>3. CASE Writing(current[l]) /\ asset[current[l]] # 0
          <6>1. current[l] \in Assets /\ usable'[current[l]] /\ UNCHANGED current
            BY <2>6, <5>3 DEF ExportLink
          <6>2. Writing(current[l])'
            BY <2>6, <5>3 DEF ExportLink
          <6> QED
            BY <6>1, <6>2 DEF Exported
        <5> QED
          BY <5>1, <5>2, <5>3
      <4> QED
        BY <2>6, <4>1, <4>2 DEF ExportLink
    <3>2. ASSUME NEW k \in Loaders, NEW a \in Assets \ left'[k],
                 exportPc'[k] \notin {"idle", "check"}
          PROVE  Exported(a)'
      BY <2>6, <3>1, <3>2 DEF ExportLink
    <3>3. ASSUME NEW k \in Loaders, exportPc'[k] = "link"
          PROVE  \/ current'[k] \in spoiled'
                 \/ asset'[current'[k]] = version'
                 \/ Writing(current[k])'
      <4>1. exportPc[k] = "link" /\ UNCHANGED <<current, asset, version>>
        BY <2>6, <3>3 DEF ExportLink
      <4>2. ASSUME Writing(current[k])
            PROVE  Writing(current[k])' /\ UNCHANGED current
        BY <2>6, <4>2 DEF ExportLink
      <4>3. ASSUME current[k] \in spoiled
            PROVE  current[k] \in spoiled' \/ asset[current[k]] = version
        BY <2>6, <4>3 DEF ExportLink
      <4>4. CASE Writing(current[k])
        BY <4>2, <4>4
      <4> QED
        BY <4>1, <4>3, <4>4
    <3> QED
      BY <2>6, <3>2, <3>3 DEF ExportLink
  <2>7. CASE ExportMark(l)
    <3>1. \A a \in Assets : Exported(a)'
      BY <2>7 DEF ExportMark
    <3>2. markers' \subseteq 1..version
      <4>1. markers' \subseteq markers \cup {version}
        BY <2>7 DEF ExportMark
      <4> QED
        BY <1>c, <4>1
    <3> QED
      BY <2>7, <3>1, <3>2 DEF ExportMark
  <2> QED
    BY <1>2, <2>1, <2>2, <2>3, <2>4, <2>5, <2>6, <2>7 DEF ExportStep
<1>3. CASE FirstRunForgets /\ UNCHANGED exportState
  BY <1>3 DEF ExportInv, Exported, Writing, FirstRunForgets
<1>4. CASE FirstRunForgets /\ Upgrade
  <2>1. version' \notin markers' /\ markers' \subseteq 1..version'
    BY <1>b, <1>4 DEF ExportInv, Upgrade
  <2> QED
    BY <1>4, <2>1 DEF ExportInv, FirstRunForgets
<1> QED
  BY <1>1, <1>2, <1>3, <1>4, ExportSteps

\* A marker of the installed version means that each binary is there and can be
\* started or is being written over, however many goroutines export and whenever
\* the process is ended (firstrun.go:15-53); the exception are the binaries that
\* were last not written in full.
THEOREM MarkerIsTrue == Spec => []MarkedIsExported
<1>1. Init => TypeInv /\ ExportInv
  BY TypeInit, ExportInvInit
<1>2. TypeInv /\ ExportInv /\ [Next]_vars => (TypeInv /\ ExportInv)'
  BY TypeStep, ExportInvStep
<1>3. ExportInv => MarkedIsExported
  BY DEF ExportInv, MarkedIsExported
<1> QED
  BY <1>1, <1>2, <1>3, PTL DEF Spec

-----------------------------------------------------------------------------
(* What pointloop makes of it. *)

\* CheckAndExport of l has returned.
Checked(l) ==
    loadPc[l] = "loaded" \/ (loadPc[l] = "exporting" /\ exportPc[l] = "idle")

ServeInv ==
    \A l \in Loaders :
        /\ Checked(l) => \A a \in Assets : Exported(a)
        /\ markedBefore[l] => version \in markers

\* A step of another kind than an export's does not touch the binaries.
LEMMA ExportOnlyInLoad ==
  ASSUME [Next]_vars, ~Kill, ~UNCHANGED exportVars
  PROVE  \E l \in Loaders : LoadExport(l) /\ (CheckAndExport(l) \/ ExportStep(l))
<1>1. \E l \in Loaders : Load(l)
  BY DEF Next, vars, Pick, SaveProp, Scan, RunLoop, LoadBegin, Loaded,
      Session, Connect, Close
<1> QED
  BY <1>1 DEF Load, LoadStep, LoadLook, LoadGuess, LoadRead, LoadParse,
      LoadConvert, LoadDecode, LoadExport

\* In a process the installed version stays, and so do its marker and what is
\* exported of it.
LEMMA Monotone ==
  ASSUME TypeInv, ExportInv, [Next]_vars, ~Kill
  PROVE  /\ version' = version
         /\ version \in markers => version \in markers'
         /\ \A a \in Assets : Exported(a) => Exported(a)'
<1>1. CASE UNCHANGED exportVars
  BY <1>1 DEF exportVars, exportMemory, exportDisk, exportState, Exported, Writing
<1>2. ASSUME NEW l \in Loaders, CheckAndExport(l) \/ ExportStep(l)
      PROVE  version' = version /\ (version \in markers => version \in markers')
  BY <1>2 DEF CheckAndExport, ExportStep, ExportCheck, RestoreOpen, RestoreFail,
      RestoreWrite, ExportLink, ExportMark, exportDisk, exportState
<1> QED
  BY <1>1, <1>2, ExportedStays, ExportOnlyInLoad

LEMMA ServeInvStep ==
  ASSUME TypeInv, ExportInv, ServeInv, [Next]_vars
  PROVE  ServeInv'
<1>a. /\ loadPc \in [Loaders -> LoadStates]
      /\ markedBefore \in [Loaders -> BOOLEAN]
      /\ exportPc \in [Loaders -> ExportStates]
  BY DEF TypeInv, TypeOK, LoadTypeOK, FirstRunTypeOK
<1>1. CASE Kill
  BY <1>1 DEF Kill, LoadForgets, FirstRunForgets, ServeInv, Checked
<1>2. CASE ~Kill
  <2> DEFINE All == \A a \in Assets : Exported(a)
  <2>1. SUFFICES ASSUME NEW l \in Loaders
                 PROVE  /\ Checked(l)' => Checked(l) \/ All'
                        /\ markedBefore'[l] => markedBefore[l] \/ version' \in markers'
    BY <1>2, Monotone DEF ServeInv
  <2> DEFINE Goal ==
        /\ Checked(l)' => Checked(l) \/ All'
        /\ markedBefore'[l] => markedBefore[l] \/ version' \in markers'
  <2> HIDE DEF All
  <2> USE <1>a DEF Checked, LoadMoves
  <2>2. CASE UNCHANGED <<loadPc, exportPc, markedBefore>>
    BY <2>2
  <2>3. ASSUME NEW k \in Loaders, RunLoop(k)
        PROVE  Goal
    BY <2>3 DEF RunLoop, LoadBegin, exportVars, exportMemory, exportDisk,
        exportState
  <2>4. ASSUME NEW k \in Loaders, Loaded(k) \/ (Load(k) /\ ~LoadExport(k))
        PROVE  Goal
    BY <2>4 DEF Loaded, Load, LoadStep, LoadLook, LoadGuess, LoadRead, LoadParse,
        LoadConvert, LoadDecode, LoadIsOver, exportVars, exportMemory, loadVars,
        loadMemory
  <2>5. ASSUME NEW k \in Loaders, LoadExport(k)
        PROVE  Goal
    <3>1. UNCHANGED markedBefore
      BY <2>5 DEF LoadExport
    <3>2. CASE LoadMoves(k, "export", "exporting") /\ CheckAndExport(k)
      BY <3>1, <3>2 DEF CheckAndExport, ExportMoves
    <3>3. CASE /\ LoadMoves(k, "exporting", "loaded")
               /\ exportPc[k] = "idle"
               /\ UNCHANGED exportVars
      BY <3>1, <3>3 DEF exportVars, exportMemory
    <3>4. CASE ExportStep(k) /\ UNCHANGED <<files, loadPc>>
      <4>1. exportPc'[k] # "idle" \/ All'
        <5>1. CASE ExportCheck(k)
          <6>1. exportPc'[k] # "idle" \/ version \in markers
            BY <5>1 DEF ExportCheck, ExportMoves
          <6>2. version \in markers => All
            BY DEF ExportInv, All
          <6>3. All => All'
            BY <1>2, Monotone DEF All
          <6> QED
            BY <6>1, <6>2, <6>3
        <5>2. CASE ExportMark(k)
          <6>1. Exporting(k) /\ left[k] = {}
            BY <5>2 DEF ExportMark, ExportMoves, Exporting
          <6> QED
            BY <1>2, <6>1, Monotone DEF ExportInv, All
        <5> QED
          BY <3>4, <5>1, <5>2 DEF ExportStep, RestoreOpen, RestoreFail,
              RestoreWrite, ExportLink, ExportMoves
      <4>2. l # k => exportPc'[l] = exportPc[l]
        BY <3>4 DEF ExportStep, ExportCheck, RestoreOpen, RestoreFail,
            RestoreWrite, ExportLink, ExportMark, ExportMoves
      <4> QED
        BY <3>1, <3>4, <4>1, <4>2
    <3> QED
      BY <2>5, <3>2, <3>3, <3>4 DEF LoadExport
  <2>6. CASE UNCHANGED loadVars /\ UNCHANGED exportVars
    BY <2>2, <2>6 DEF loadVars, loadMemory, exportVars, exportMemory
  <2>7. ASSUME ~UNCHANGED <<loadVars, exportVars>>
        PROVE  \E k \in Loaders : RunLoop(k) \/ Load(k) \/ Loaded(k)
    BY <1>2, <2>7 DEF Next, vars, Pick, SaveProp, Scan,
        Session, Connect, Close
  <2> QED
    BY <2>3, <2>4, <2>5, <2>6, <2>7
<1> QED
  BY <1>1, <1>2

LEMMA AllInit == Init => TypeInv /\ ExportInv /\ ServeInv
<1>1. Init => ServeInv
  BY DEF Init, LoadBegins, ServeInv, Checked
<1> QED
  BY <1>1, TypeInit, ExportInvInit

LEMMA AllStep ==
  TypeInv /\ ExportInv /\ ServeInv /\ [Next]_vars =>
      TypeInv' /\ ExportInv' /\ ServeInv'
  BY TypeStep, ExportInvStep, ServeInvStep

\* A pointloop past CheckAndExport (interact.go:152) has the binaries of the
\* installed version, but for those that were last not written in full and for
\* one that another pointloop is writing over.
THEOREM BinariesServed == Spec => []ServesItsBinaries
<1>1. ServeInv => ServesItsBinaries
  BY DEF ServeInv, ServesItsBinaries, Checked
<1> QED
  BY <1>1, AllInit, AllStep, PTL DEF Spec

-----------------------------------------------------------------------------
(* The rendered file. *)

Early == {"idle", "guess", "read", "parse", "decode"}

RenderInv ==
    /\ RenderedIsCurrent
    /\ \A l \in Loaders : loadPc[l] \in Early => conf[l] = NoConf

LEMMA RenderInvStep ==
  ASSUME TypeInv, ExportInv, ServeInv, RenderInv, [Next]_vars
  PROVE  RenderInv'
<1>a. /\ loadPc \in [Loaders -> LoadStates]
      /\ markedBefore \in [Loaders -> BOOLEAN]
      /\ conf \in [Loaders -> Messages \cup {NoConf}]
  BY DEF TypeInv, TypeOK, LoadTypeOK
<1> USE <1>a DEF RenderInv, RenderedIsCurrent, Early, LoadStates, LoadMoves,
        renderVars
<1>1. CASE Kill
  BY <1>1 DEF Kill, LoadForgets
<1>2. ASSUME ~Kill, NEW l \in Loaders, LoadBegin(l) \/ Loaded(l) \/ LoadStep(l),
             UNCHANGED renderVars, UNCHANGED conf \/ LoadIsOver(l)
      PROVE  RenderInv'
  <2>1. \A k \in Loaders : k # l =>
          /\ loadPc'[k] = loadPc[k]
          /\ conf'[k] = conf[k]
          /\ markedBefore'[k] = markedBefore[k]
    BY <1>2 DEF LoadBegin, Loaded, LoadStep, LoadLook, LoadGuess, LoadRead,
        LoadParse, LoadConvert, LoadDecode, LoadExport, LoadIsOver, loadVars,
        loadMemory
  <2>2. \/ /\ conf'[l] = conf[l]
           /\ markedBefore'[l] = markedBefore[l]
           /\ loadPc'[l] \in Early => loadPc[l] \in Early
           /\ loadPc'[l] \notin Early /\ loadPc[l] \in Early => conf[l] = NoConf
        \/ loadPc'[l] = "idle" /\ conf'[l] = NoConf
        \/ loadPc'[l] = "guess" /\ conf'[l] = conf[l] /\ loadPc[l] = "idle"
    BY <1>2 DEF LoadBegin, Loaded, LoadStep, LoadLook, LoadGuess, LoadRead,
        LoadParse, LoadConvert, LoadDecode, LoadExport, LoadIsOver, loadVars,
        loadMemory
  <2> QED
    BY <1>2, <2>1, <2>2, Monotone
<1>3. ASSUME ~Kill, NEW l \in Loaders, LoadParse(l)
      PROVE  RenderInv'
  <2>1. ASSUME NEW k \in Loaders, markedBefore[k], Render
        PROVE  ~unrendered' => rendered' = version
    <3>1. Template \in Assets /\ Exported(Template)
      BY <2>1, TemplateAssumption DEF ServeInv, ExportInv, Assets
    <3> QED
      BY <2>1, <3>1 DEF Render, TemplateContent, Exported
  <2>2. UNCHANGED <<markedBefore, version>>
    BY <1>3 DEF LoadParse, exportVars, exportDisk, exportState
  <2>3. /\ \A k \in Loaders : k # l => loadPc'[k] = loadPc[k] /\ conf'[k] = conf[k]
        /\ loadPc'[l] = "convert" \/ UNCHANGED <<loadPc, conf>>
        /\ loadPc'[l] = "convert" => conf'[l] = NoConf \/ ~Renders(conf'[l]) \/ Render
    <3>1. CASE UNCHANGED loadPc /\ UNCHANGED conf
      BY <1>3, <3>1 DEF LoadParse
    <3>2. CASE /\ LoadMoves(l, "parse", "convert")
               /\ conf' = [conf EXCEPT ![l] = NoConf]
      BY <3>2
    <3>3. CASE /\ LoadMoves(l, "parse", "convert")
               /\ \E m \in Parsed(files[reading[l]]) :
                    /\ conf' = [conf EXCEPT ![l] =
                           [path |-> reading[l], filled |-> m.filled,
                            part |-> m.part, rendered |-> m.rendered]]
                    /\ IF Renders(m) THEN Render ELSE UNCHANGED renderVars
      <4>1. PICK m \in Parsed(files[reading[l]]) :
                    /\ conf' = [conf EXCEPT ![l] =
                           [path |-> reading[l], filled |-> m.filled,
                            part |-> m.part, rendered |-> m.rendered]]
                    /\ IF Renders(m) THEN Render ELSE UNCHANGED renderVars
        BY <3>3
      <4>2. Renders(conf'[l]) = Renders(m)
        BY <4>1 DEF Renders
      <4>3. Renders(conf'[l]) => Render
        BY <4>1, <4>2
      <4> QED
        BY <3>3, <4>1, <4>3
    <3> QED
      BY <1>3, <3>1, <3>2, <3>3 DEF LoadParse
  <2>4. Render \/ UNCHANGED renderVars
    BY <1>3 DEF LoadParse
  <2>5. CASE Render
    BY <2>1, <2>2, <2>3, <2>5
  <2>6. CASE UNCHANGED renderVars /\ ~Render
    BY <2>2, <2>3, <2>6
  <2> QED
    BY <2>4, <2>5, <2>6
<1>4. CASE UNCHANGED loadVars /\ ~Kill
  BY <1>4, Monotone DEF loadVars, loadMemory, loadDisk
<1>5. ASSUME NEW l \in Loaders, LoadStep(l), ~LoadParse(l)
      PROVE  UNCHANGED renderVars /\ (UNCHANGED conf \/ LoadIsOver(l))
  BY <1>5 DEF LoadStep, LoadLook, LoadGuess, LoadRead, LoadConvert, LoadDecode,
      LoadExport, loadVars, loadMemory, loadDisk
<1>6. ASSUME NEW l \in Loaders, LoadBegin(l) \/ Loaded(l)
      PROVE  UNCHANGED renderVars /\ (UNCHANGED conf \/ LoadIsOver(l))
  BY <1>6 DEF LoadBegin, Loaded
<1> QED
  BY <1>1, <1>2, <1>3, <1>4, <1>5, <1>6, LoadSteps DEF LoadStep

\* What Parse rendered before CheckAndExport (interact.go:117 and 152) is that
\* of the installed version, for a pointloop that found its marker there, unless
\* the template was last not written in full, or was just being written over.
THEOREM RenderedFromCurrent == Spec => []RenderedIsCurrent
<1>1. Init => RenderInv
  BY DEF Init, LoadBegins, RenderInv, RenderedIsCurrent
<1>2. RenderInv => RenderedIsCurrent
  BY DEF RenderInv
<1> QED
  BY <1>1, <1>2, AllInit, AllStep, RenderInvStep, PTL DEF Spec

-----------------------------------------------------------------------------
(* The contexts and their files.                                             *)

\* While an assignment is written, the context it is for shows its path and
\* has its directory, if it is the only one assigned to.
AssignInv ==
    assigning # NoAssign =>
        /\ assigning.by \in assigners
        /\ \A c \in Contexts :
             assigners \subseteq {c} /\ c \notin renamed \cup outrun =>
                 /\ configureFile[c] = assigning.path
                 /\ dirOf[c] = assigning.dir

\* No lookup is about to store over a file assigned, except those that outrun
\* it; one that is about to fill an empty cache does so with the property.
StoreInv ==
    /\ \A c \in assigners \ outrun :
         /\ configureFile[c] # NoPath
         /\ \A l \in Lookers : ~Pending(l, c)
    /\ \A l \in Lookers :
         lookPc[l] = "store" /\ assigners = {} /\ lookFor[l] \notin renamed =>
             found[l] \in {NoPath, prop[dirOf[lookFor[l]]]}

ContextInv == AssignInv /\ StoreInv /\ SelectionAgrees

LEMMA ContextInvStep ==
  ASSUME TypeInv, ContextInv, [Next]_vars
  PROVE  ContextInv'
<1>a. ContextTypeOK /\ Looking
  BY DEF TypeInv, TypeOK
<1>b. assigning # NoAssign =>
        /\ assigning \in Assignments
        /\ assigning.by \in Contexts
        /\ assigning.dir \in Dirs
        /\ assigning.path \in Paths /\ assigning.path # NoPath
  BY <1>a, NoPathAssumption DEF ContextTypeOK, Assignments
<1> USE <1>a DEF ContextTypeOK, Looking, ContextInv, AssignInv, StoreInv,
        SelectionAgrees, Pending, lookVars, assignHistory
<1>1. CASE UNCHANGED contextVars
  BY <1>1 DEF contextVars, contextMemory
<1>2. ASSUME NEW c \in Contexts, NEW p \in Paths, AssignConfigureFile(c, p)
      PROVE  ContextInv'
  <2>1. /\ assigning' = [by |-> c, path |-> p, dir |-> dirOf[c], at |-> "open"]
        /\ assigning' # NoAssign
        /\ assigners' = assigners \cup {c}
        /\ configureFile' = [configureFile EXCEPT ![c] = p]
        /\ p # NoPath
        /\ UNCHANGED <<lookPc, lookFor, found, dirOf, renamed>>
    BY <1>2, NoAssignAssumption, NoPathAssumption DEF AssignConfigureFile
  <2>2. AssignInv'
    BY <2>1
  <2>3. \A d \in assigners' \ outrun' :
          /\ configureFile'[d] # NoPath
          /\ \A l \in Lookers : ~Pending(l, d)'
    BY <1>2, <2>1 DEF AssignConfigureFile
  <2>4. assigners' # {}
    BY <2>1
  <2> QED
    BY <2>1, <2>2, <2>3, <2>4
<1>3. ASSUME NEW c \in Contexts, NEW d \in Dirs, SetPackageName(c, d)
      PROVE  ContextInv'
  <2>1. AssignInv' /\ SelectionAgrees'
    BY <1>3, <1>b DEF SetPackageName
  <2>2. StoreInv'
    BY <1>3 DEF SetPackageName
  <2> QED
    BY <2>1, <2>2
<1>4. CASE PropTruncate
  <2>1. assigning' \in Assignments /\ assigning' # NoAssign
    BY <1>4, <1>b, NoAssignAssumption DEF PropTruncate, Assignments
  <2>2. /\ assigning'.by = assigning.by
        /\ assigning'.path = assigning.path
        /\ assigning'.dir = assigning.dir
    BY <1>4, <1>b DEF PropTruncate, Assignments
  <2> QED
    BY <1>4, <2>1, <2>2 DEF PropTruncate
<1>5. CASE PropWrite
  BY <1>5, <1>b DEF PropWrite
<1>6. CASE PropFail
  BY <1>6 DEF PropFail
<1>7. ASSUME NEW l \in Lookers, NEW c \in Contexts, LookTest(l, c)
      PROVE  ContextInv'
  BY <1>7 DEF LookTest, LookMoves, LookStates
<1>8. ASSUME NEW l \in Lookers, LookRead(l)
      PROVE  ContextInv'
  BY <1>8 DEF LookRead, LookMoves
<1>9. ASSUME NEW l \in Lookers, LookStore(l)
      PROVE  ContextInv'
  <2> DEFINE c == lookFor[l]
  <2>1. c \in Contexts /\ Pending(l, c) /\ c \notin assigners \ outrun
    BY <1>9 DEF LookStore, LookMoves
  <2>2. /\ configureFile' = [configureFile EXCEPT ![c] = found[l]]
        /\ \A k \in Lookers : k # l => lookPc'[k] = lookPc[k] /\ found'[k] = found[k]
        /\ lookPc'[l] = "return"
        /\ lookPc[l] = "store"
        /\ UNCHANGED <<lookFor, dirOf, prop, assigning, assigners, unsaved,
                       renamed, outrun>>
    BY <1>9 DEF LookStore, LookMoves
  <2> HIDE DEF c
  <2>3. ASSUME NEW d \in Contexts, assigners \subseteq {d},
               d \notin renamed \cup outrun, d = c
        PROVE  /\ assigners = {}
               /\ found[l] \in {NoPath, prop[dirOf[d]]}
    <3>1. assigners = {}
      BY <2>1, <2>3
    <3> QED
      BY <2>2, <2>3, <3>1 DEF c
  <2>4. AssignInv'
    BY <2>1, <2>2, <2>3
  <2>5. StoreInv'
    BY <2>1, <2>2
  <2>6. SelectionAgrees'
    BY <2>1, <2>2, <2>3
  <2> QED
    BY <2>4, <2>5, <2>6
<1>10. ASSUME NEW l \in Lookers, LookReturn(l)
       PROVE  ContextInv'
  BY <1>10 DEF LookReturn, LookMoves
<1>11. CASE Kill
  BY <1>11 DEF Kill, ContextForgets
<1> QED
  BY <1>1, <1>2, <1>3, <1>4, <1>5, <1>6, <1>7, <1>8, <1>9, <1>10, <1>11,
     ContextSteps
  DEF TypeInv, LookStep

LEMMA ContextInvInit == Init => ContextInv
  BY DEF Init, ContextBegins, ContextInv, AssignInv, StoreInv, SelectionAgrees

\* The cache of context.go:91-96, which never looks at the property again,
\* agrees with it for a context that is the only one assigned to, however many
\* threads look it up, unless the assignment came between the test and the
\* store of one of them, its write failed, or the package name was set late.
THEOREM SelectionIsKept == Spec => []SelectionAgrees
<1>1. ContextInv => SelectionAgrees
  BY DEF ContextInv
<1> QED
  BY <1>1, TypeInit, TypeStep, ContextInvInit, ContextInvStep, PTL DEF Spec

-----------------------------------------------------------------------------
(* The two lookups of pointloop. *)

\* One thread at most is about to store into the service's cache, and it is
\* empty then.
AloneInv ==
    Service \notin assigners \cup doubled =>
        \A l \in Lookers : Pending(l, Service) =>
            /\ configureFile[Service] = NoPath
            /\ \A k \in Lookers : Pending(k, Service) => k = l

\* Between the lookups the guessed file is in the cache of the service.
GuessInv ==
    /\ AloneInv
    /\ LoadsWhatItGuessed
    /\ \A l \in Loaders :
         loadPc[l] = "read" /\ Service \notin assigners \cup doubled =>
             guessed[l] # NoPath /\ guessed[l] = configureFile[Service]

\* What one step does to the selection of the service.
LEMMA ServiceKept ==
  ASSUME TypeInv, AloneInv, [Next]_vars, ~Kill
  PROVE  /\ AloneInv'
         /\ assigners \cup doubled \subseteq assigners' \cup doubled'
         /\ \/ Service \in assigners' \cup doubled'
            \/ configureFile[Service] = NoPath
            \/ configureFile'[Service] = configureFile[Service]
<1>a. ContextTypeOK /\ Looking
  BY DEF TypeInv, TypeOK
<1> USE <1>a, ServiceAssumption
    DEF ContextTypeOK, Looking, AloneInv, Pending, LookMoves, LookStates,
        lookVars, assignHistory
<1> DEFINE Goal ==
         /\ AloneInv'
         /\ assigners \cup doubled \subseteq assigners' \cup doubled'
         /\ \/ Service \in assigners' \cup doubled'
            \/ configureFile[Service] = NoPath
            \/ configureFile'[Service] = configureFile[Service]
<1>1. CASE UNCHANGED contextVars
  BY <1>1 DEF contextVars, contextMemory
<1>2. ASSUME NEW c \in Contexts, NEW p \in Paths, AssignConfigureFile(c, p)
      PROVE  Goal
  BY <1>2 DEF AssignConfigureFile
<1>3. ASSUME NEW l \in Lookers, NEW c \in Contexts, LookTest(l, c)
      PROVE  Goal
  BY <1>3 DEF LookTest
<1>4. ASSUME NEW l \in Lookers, LookRead(l)
      PROVE  Goal
  BY <1>4 DEF LookRead
<1>5. ASSUME NEW l \in Lookers, LookStore(l)
      PROVE  Goal
  BY <1>5 DEF LookStore
<1>6. ASSUME NEW l \in Lookers, LookReturn(l)
      PROVE  Goal
  BY <1>6 DEF LookReturn
<1>7. ASSUME \/ \E c \in Contexts, d \in Dirs : SetPackageName(c, d)
             \/ PropTruncate \/ PropWrite \/ PropFail
      PROVE  Goal
  BY <1>7 DEF SetPackageName, PropTruncate, PropWrite, PropFail
<1> QED
  BY <1>1, <1>2, <1>3, <1>4, <1>5, <1>6, <1>7, ContextSteps
  DEF TypeInv, LookStep

LEMMA GuessInvStep ==
  ASSUME TypeInv, GuessInv, [Next]_vars
  PROVE  GuessInv'
<1>a. /\ loadPc \in [Loaders -> LoadStates]
      /\ guessed \in [Loaders -> Paths \cup {NoPath}]
      /\ reading \in [Loaders -> Paths \cup {NoPath}]
      /\ configureFile \in [Contexts -> Paths \cup {NoPath}]
  BY DEF TypeInv, TypeOK, LoadTypeOK, ContextTypeOK
<1>1. CASE Kill
  BY <1>1
  DEF Kill, LoadForgets, ContextForgets, GuessInv, LoadsWhatItGuessed, AloneInv,
      Pending, LookStates
<1>2. CASE ~Kill
  <2>a. /\ AloneInv'
        /\ assigners \cup doubled \subseteq assigners' \cup doubled'
        /\ \/ Service \in assigners' \cup doubled'
           \/ configureFile[Service] = NoPath
           \/ configureFile'[Service] = configureFile[Service]
    BY <1>2, ServiceKept DEF GuessInv
  <2> USE <1>a, <2>a, ServiceAssumption
      DEF GuessInv, LoadsWhatItGuessed, LoadStates, LoadMoves
  <2>1. ASSUME NEW l \in Loaders, LoadGuess(l)
        PROVE  GuessInv'
    BY <2>1 DEF LoadGuess, LookReturn, LoadIsOver
  <2>2. ASSUME NEW l \in Loaders, LoadRead(l)
        PROVE  GuessInv'
    BY <2>2 DEF LoadRead, LookReturn
  <2>3. ASSUME NEW l \in Loaders,
               \/ LoadBegin(l) \/ Loaded(l)
               \/ LoadStep(l) /\ ~LoadGuess(l) /\ ~LoadRead(l) /\ ~LoadLook(l)
        PROVE  GuessInv'
    <3>1. \A k \in Loaders : k # l =>
            /\ loadPc'[k] = loadPc[k]
            /\ guessed'[k] = guessed[k]
            /\ reading'[k] = reading[k]
      BY <2>3 DEF LoadBegin, Loaded, LoadStep, LoadParse, LoadConvert, LoadDecode,
          LoadExport, LoadIsOver
    <3>2. \/ loadPc'[l] \in {"idle", "guess"}
          \/ /\ loadPc'[l] # "read"
             /\ loadPc[l] \in LoadStates \ {"idle", "guess", "read"}
             /\ guessed'[l] = guessed[l]
             /\ reading'[l] = reading[l]
      <4>1. CASE LoadBegin(l) \/ Loaded(l)
        BY <4>1 DEF LoadBegin, Loaded, LoadIsOver
      <4>2. CASE LoadParse(l)
        BY <4>2 DEF LoadParse
      <4>3. CASE LoadConvert(l) \/ LoadDecode(l)
        BY <4>3 DEF LoadConvert, LoadDecode
      <4>4. CASE LoadExport(l)
        BY <4>4 DEF LoadExport
      <4> QED
        BY <2>3, <4>1, <4>2, <4>3, <4>4 DEF LoadStep
    <3> QED
      BY <2>3, <3>1, <3>2
  <2>4. CASE UNCHANGED <<loadPc, guessed, reading>>
    BY <2>4
  <2>5. CASE UNCHANGED loadVars \/ \E l \in Loaders : LoadLook(l)
    BY <2>4, <2>5 DEF LoadLook, loadVars, loadMemory
  <2> QED
    BY <1>2, <2>1, <2>2, <2>3, <2>5, LoadSteps
<1> QED
  BY <1>1, <1>2

\* pointloop looks the file up twice (interact.go:104 and 115 or 130) and reads
\* the one it guessed, unless the service's own context was assigned to, or two
\* threads found its cache empty at once.
THEOREM OneFileRead == Spec => []LoadsWhatItGuessed
<1>1. Init => GuessInv
  BY DEF Init, LoadBegins, ContextBegins, GuessInv, LoadsWhatItGuessed, AloneInv,
     Pending
<1>2. GuessInv => LoadsWhatItGuessed
  BY DEF GuessInv
<1> QED
  BY <1>1, <1>2, TypeInit, TypeStep, GuessInvStep, PTL DEF Spec

-----------------------------------------------------------------------------
(* What pointloop serves of the file. *)

LEMMA OrderFacts ==
  /\ DOMAIN Order = 1..5
  /\ \A i, j \in 1..5 : Order[i] = Order[j] => i = j
  /\ \A i \in 1..5 : Order[i] \in Sections
  /\ \A s \in Sections : \E i \in 1..5 : s = Order[i]
<1>1. DOMAIN Order = 1..5
  BY DEF Order
<1>2. /\ Order[1] = "env" /\ Order[2] = "escort" /\ Order[3] = "render"
      /\ Order[4] = "vpnservice" /\ Order[5] = "preparedDomainName"
  BY DEF Order
<1>3. \A i \in 1..5 : i = 1 \/ i = 2 \/ i = 3 \/ i = 4 \/ i = 5
  OBVIOUS
<1>4. \A i, j \in 1..5 : Order[i] = Order[j] => i = j
  BY <1>2, <1>3
<1> QED
  BY <1>1, <1>4 DEF Sections

\* parseConf stops at one section: the first that it cannot read.
LEMMA FirstMalformed ==
  ASSUME NEW f \in FileRecords, Malformed(f) # {}
  PROVE  \E i \in 1..5 :
           /\ f.section[Order[i]] = "bad"
           /\ \A k \in 1..(i - 1) : f.section[Order[k]] # "bad"
<1> DEFINE B(i) == f.section[Order[i]] = "bad"
<1>1. \E i \in 1..5 : B(i)
  BY OrderFacts DEF Malformed
<1>2. \E i \in 1..5 : B(i) /\ \A k \in 1..(i - 1) : ~B(k)
  <2> HIDE DEF B
  <2>1. CASE B(1)
    BY <2>1
  <2>2. CASE ~B(1) /\ B(2)
    BY <2>2
  <2>3. CASE ~B(1) /\ ~B(2) /\ B(3)
    BY <2>3
  <2>4. CASE ~B(1) /\ ~B(2) /\ ~B(3) /\ B(4)
    BY <2>4
  <2>5. CASE ~B(1) /\ ~B(2) /\ ~B(3) /\ ~B(4)
    BY <1>1, <2>5
  <2> QED
    BY <2>1, <2>2, <2>3, <2>4, <2>5
<1> QED
  BY <1>2

\* A file with no malformed section is read to its end.
LEMMA AllReached ==
  ASSUME NEW f \in FileRecords, Malformed(f) = {}
  PROVE  Reached(f) = Sections
<1>1. \A k \in 1..5 : f.section[Order[k]] # "bad"
  BY OrderFacts DEF Malformed
<1>2. \A i \in 1..5 : 1..(i - 1) \subseteq 1..5
  OBVIOUS
<1>3. {j \in DOMAIN Order :
         \A k \in 1..(j - 1) : f.section[Order[k]] # "bad"} = DOMAIN Order
  BY <1>1, <1>2, OrderFacts
<1> QED
  BY <1>3 DEF Reached, Sections

\* Of any other, what is reached is what comes before, and that section.
LEMMA PrefixReached ==
  ASSUME NEW f \in FileRecords, NEW i \in 1..5, f.section[Order[i]] = "bad",
         \A k \in 1..(i - 1) : f.section[Order[k]] # "bad"
  PROVE  Reached(f) = {Order[j] : j \in 1..i}
<1>1. {j \in DOMAIN Order :
         \A k \in 1..(j - 1) : f.section[Order[k]] # "bad"} = 1..i
  <2>1. ASSUME NEW j \in 1..5, j > i
        PROVE  ~ \A k \in 1..(j - 1) : f.section[Order[k]] # "bad"
    BY <2>1
  <2>2. ASSUME NEW j \in 1..i
        PROVE  j \in 1..5 /\ 1..(j - 1) \subseteq 1..(i - 1)
    OBVIOUS
  <2> QED
    BY <2>1, <2>2, OrderFacts
<1> QED
  BY <1>1 DEF Reached

\* What ServesWholeOrPrefix says of a message and the file it is made from.
Present(f) == {s \in Sections : f.section[s] \notin {"absent", "mixed"}}

WholeOrPrefix(f, m) ==
    IF Malformed(f) = {}
    THEN m.rendered /\ m.filled = Present(f)
    ELSE /\ ~m.rendered
         /\ \E bad \in Malformed(f) : \E i \in DOMAIN Order :
              /\ Order[i] = bad
              /\ m.part \subseteq {bad}
              /\ m.filled =
                   {s \in Present(f) : \E j \in 1..(i - 1) : s = Order[j]}

LEMMA ParsedWholeOrPrefix ==
  ASSUME NEW f \in FileRecords, f.lib = "on", NEW m \in Parsed(f)
  PROVE  WholeOrPrefix(f, m)
<1>1. PICK p \in SUBSET InPart(f) :
        m = [filled |-> Filled(f), part |-> p, rendered |-> ~ParseFails(f)]
  BY Zenon DEF Parsed
<1>2. \A s \in Sections : f.section[s] \in {"absent", "ok", "bad", "noEq", "mixed"}
  BY DEF FileRecords
<1>3. CASE Malformed(f) = {}
  <2>1. m.rendered
    BY <1>1, <1>3 DEF ParseFails
  <2>2. Filled(f) = Present(f)
    BY <1>2, <1>3, AllReached DEF Filled, Present, Malformed
  <2> QED
    BY <1>1, <1>3, <2>1, <2>2 DEF WholeOrPrefix
<1>4. CASE Malformed(f) # {}
  <2>1. PICK i \in 1..5 :
          /\ f.section[Order[i]] = "bad"
          /\ \A k \in 1..(i - 1) : f.section[Order[k]] # "bad"
    BY <1>4, FirstMalformed
  <2>2. Reached(f) = {Order[j] : j \in 1..i}
    BY <2>1, PrefixReached
  <2>3. /\ 1..i = (1..(i - 1)) \cup {i}
        /\ 1..i \subseteq 1..5
    OBVIOUS
  <2>4. Order[i] \in Malformed(f) /\ i \in DOMAIN Order
    BY <2>1, OrderFacts DEF Malformed
  <2>5. m.part \subseteq {Order[i]}
    <3>1. Reached(f) \cap Malformed(f) \subseteq {Order[i]}
      BY <2>1, <2>2, <2>3 DEF Malformed
    <3> QED
      BY <1>1, <3>1 DEF InPart
  <2>6. Filled(f) =
          {s \in Present(f) : \E j \in 1..(i - 1) : s = Order[j]}
    <3>1. ASSUME NEW s \in Filled(f)
          PROVE  s \in Present(f) /\ \E j \in 1..(i - 1) : s = Order[j]
      <4>1. PICK j \in 1..i : s = Order[j]
        BY <2>2 DEF Filled
      <4>2. f.section[s] \in {"ok", "noEq"}
        BY DEF Filled
      <4>3. j # i
        BY <2>1, <4>1, <4>2
      <4>4. j \in 1..(i - 1) /\ s \in Sections
        BY <2>3, <4>1, <4>3, OrderFacts
      <4> QED
        BY <4>1, <4>2, <4>4 DEF Present
    <3>2. ASSUME NEW s \in Present(f), NEW j \in 1..(i - 1), s = Order[j]
          PROVE  s \in Filled(f)
      BY <1>2, <2>1, <2>2, <2>3, <3>2, OrderFacts DEF Filled, Present
    <3> QED
      BY <3>1, <3>2
  <2>7. ~m.rendered
    BY <1>1, <1>4 DEF ParseFails
  <2> QED
    BY <1>1, <1>4, <2>4, <2>5, <2>6, <2>7 DEF WholeOrPrefix
<1> QED
  BY <1>3, <1>4

\* Every message pointloop has made of a JSON file, in jc.conf and in v.confng.
Honest(m) ==
    m # NoConf /\ files[m.path].body = "json" => WholeOrPrefix(files[m.path], m)

ServedInv == Honest(confng) /\ \A l \in Loaders : Honest(conf[l])

LEMMA ServedInvStep ==
  ASSUME TypeInv, ServedInv, [Next]_vars
  PROVE  ServedInv'
<1>a. LoadTypeOK
  BY DEF TypeInv, TypeOK
<1>1. UNCHANGED files
  BY LoadSteps DEF loadVars, loadDisk, Kill, LoadBegin, LoadStep, Loaded,
     LoadMoves, LoadLook, LoadGuess, LoadRead, LoadParse, LoadConvert, LoadDecode,
     LoadExport
<1> DEFINE Goal ==
        /\ confng' \in {confng, NoConf} \/ Honest(confng')
        /\ \A l \in Loaders :
             conf'[l] \in {conf[l], NoConf} \/ Honest(conf'[l])
<1>2. SUFFICES Goal
  BY <1>1 DEF ServedInv, Honest
<1> USE <1>a DEF LoadTypeOK
<1>3. CASE UNCHANGED loadVars
  BY <1>3 DEF loadVars, loadMemory
<1>4. CASE Kill
  BY <1>4 DEF Kill, LoadForgets
<1>5. ASSUME NEW k \in Loaders, LoadBegin(k) \/ Loaded(k)
      PROVE  Goal
  BY <1>5 DEF LoadBegin, Loaded, LoadIsOver
<1>6. ASSUME NEW k \in Loaders,
             LoadLook(k) \/ LoadGuess(k) \/ LoadRead(k) \/ LoadExport(k)
      PROVE  Goal
  BY <1>6 DEF LoadLook, LoadGuess, LoadRead, LoadExport, LoadIsOver, loadVars,
      loadMemory
<1>7. ASSUME NEW k \in Loaders, LoadConvert(k)
      PROVE  Goal
  BY <1>7 DEF LoadConvert, ServedInv
<1>8. ASSUME NEW k \in Loaders, LoadDecode(k)
      PROVE  Goal
  <2>1. CASE Holds(reading[k], "proto")
    <3>1. files[confng'.path].body = "proto"
      BY <1>8, <2>1 DEF LoadDecode, Holds
    <3> QED
      BY <1>8, <3>1 DEF LoadDecode, Honest
  <2>2. CASE ~Holds(reading[k], "proto")
    BY <1>8, <2>2 DEF LoadDecode
  <2> QED
    BY <2>1, <2>2
<1>9. ASSUME NEW k \in Loaders, LoadParse(k)
      PROVE  Goal
  <2>1. CASE UNCHANGED conf \/ conf' = [conf EXCEPT ![k] = NoConf]
    BY <1>9, <2>1 DEF LoadParse
  <2>2. ASSUME Holds(reading[k], "json"), NEW m \in Parsed(files[reading[k]]),
               conf' = [conf EXCEPT ![k] =
                   [path |-> reading[k], filled |-> m.filled,
                    part |-> m.part, rendered |-> m.rendered]]
        PROVE  Goal
    <3>1. reading[k] \in Paths /\ files[reading[k]].lib = "on"
      BY <2>2 DEF Holds
    <3>2. WholeOrPrefix(files[reading[k]], m)
      BY <3>1, ParsedWholeOrPrefix
    <3>3. Honest([path |-> reading[k], filled |-> m.filled,
                  part |-> m.part, rendered |-> m.rendered])
      BY <3>2 DEF Honest, WholeOrPrefix
    <3> QED
      BY <1>9, <2>2, <3>3 DEF LoadParse
  <2> QED
    BY <1>9, <2>1, <2>2 DEF LoadParse
<1> QED
  BY <1>3, <1>4, <1>5, <1>6, <1>7, <1>8, <1>9, LoadSteps DEF LoadStep

\* parseConf stops at the first section it cannot read (configure.go:68-76) and
\* pointloop serves what is there (interact.go:117-118): everything that the
\* file has, rendered, or exactly what it has before that section, unrendered.
THEOREM WholeOrPrefixServed == Spec => []ServesWholeOrPrefix
<1>1. Init => ServedInv
  BY DEF Init, LoadBegins, ServedInv, Honest
<1>2. ServedInv => ServesWholeOrPrefix
  BY DEF ServedInv, Honest, ServesWholeOrPrefix, WholeOrPrefix, Present
<1> QED
  BY <1>1, <1>2, TypeInit, TypeStep, ServedInvStep, PTL DEF Spec
=============================================================================
