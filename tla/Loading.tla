------------------------------- MODULE Loading -------------------------------
(***************************************************************************)
(* How pointloop gets its configuration from a file (src/interact.go,      *)
(* lines 102-155), step by step, where V2RayPoint has one step: it looks   *)
(* the file up in the Context twice, once to guess its type and once to    *)
(* read it, converts it, and only then exports the shipped binaries.  The  *)
(* client may assign another file in between, also within a lookup, and    *)
(* two pointloops may run at once.                                         *)
(*                                                                         *)
(* Composes Context, FirstRun and Converter.  Left out: what becomes of    *)
(* the core's part of the file, and what follows, which are V2RayPoint's.  *)
(***************************************************************************)
EXTENDS Context, FirstRun, Converter

CONSTANTS
    Service,   \* v.Context
    Template   \* the asset that configurations name as the Source to render

ASSUME ServiceAssumption == Service \in Contexts
ASSUME LoadersAssumption == Loaders \subseteq Lookers
ASSUME TemplateAssumption == Template \in Indep

VARIABLES
    files,         \* on disk, [Paths -> FileRecords]: what the files hold
    rendered,      \* on disk, what the rendered file was made from; 0 when
                   \* it is missing or its source was
    loadPc,        \* [Loaders -> LoadStates]
    guessed,       \* [Loaders -> Paths \cup {NoPath}]: the file of line 104
    reading,       \* [Loaders -> Paths \cup {NoPath}]: the file of 115 or 130
    conf,          \* [Loaders -> Messages \cup {NoConf}]: jc.conf
    confng,        \* v.confng
    unrendered,    \* history, on disk: the rendered file was last made of a
                   \* template that was not written in full, or just written
    markedBefore   \* history, [Loaders -> BOOLEAN]: the binaries of this
                   \* version were exported when this pointloop began

loadMemory == <<loadPc, guessed, reading, conf, confng, markedBefore>>
loadDisk == <<files, rendered, unrendered>>
renderVars == <<rendered, unrendered>>
loadVars == <<loadMemory, loadDisk>>

\* "guess": 104, "read": 115 or 130, "parse": 116-117, "convert": 118,
\* "decode": 130-140, "export" and "exporting": 150-152, "loaded": 155 on.
LoadStates == {"idle", "guess", "read", "parse", "convert", "decode",
               "export", "exporting", "loaded"}

Messages == [path : Paths, filled : SUBSET Sections, part : SUBSET Sections,
             rendered : BOOLEAN]

ASSUME NoConfAssumption == NoConf \notin Messages

LoadTypeOK ==
    /\ files \in [Paths -> FileRecords]
    /\ rendered \in AssetStates
    /\ unrendered \in BOOLEAN
    /\ loadPc \in [Loaders -> LoadStates]
    /\ guessed \in [Loaders -> Paths \cup {NoPath}]
    /\ reading \in [Loaders -> Paths \cup {NoPath}]
    /\ conf \in [Loaders -> Messages \cup {NoConf}]
    /\ confng \in Messages \cup {NoConf}
    /\ markedBefore \in [Loaders -> BOOLEAN]

LoadBegins ==
    /\ loadPc = [l \in Loaders |-> "idle"]
    /\ guessed = [l \in Loaders |-> NoPath]
    /\ reading = [l \in Loaders |-> NoPath]
    /\ conf = [l \in Loaders |-> NoConf]
    /\ confng = NoConf
    /\ markedBefore = [l \in Loaders |-> FALSE]

LoadForgets ==
    /\ loadPc' = [l \in Loaders |-> "idle"]
    /\ guessed' = [l \in Loaders |-> NoPath]
    /\ reading' = [l \in Loaders |-> NoPath]
    /\ conf' = [l \in Loaders |-> NoConf]
    /\ confng' = NoConf
    /\ markedBefore' = [l \in Loaders |-> FALSE]

-----------------------------------------------------------------------------
LoadMoves(l, from, to) ==
    /\ loadPc[l] = from
    /\ loadPc' = [loadPc EXCEPT ![l] = to]
    /\ UNCHANGED files

\* The locals of a pointloop end with it.
LoadIsOver(l) ==
    /\ guessed' = [guessed EXCEPT ![l] = NoPath]
    /\ reading' = [reading EXCEPT ![l] = NoPath]
    /\ conf' = [conf EXCEPT ![l] = NoConf]
    /\ markedBefore' = [markedBefore EXCEPT ![l] = FALSE]

\* RunLoop's "go v.pointloop()".
LoadBegin(l) ==
    /\ LoadMoves(l, "idle", "guess")
    /\ markedBefore' = [markedBefore EXCEPT ![l] = version \in markers]
    /\ UNCHANGED <<crashed, contextVars, exportVars, renderVars, guessed, reading,
                   conf, confng>>

\* GetConfigureFile of lines 104, 115 and 130, up to its return.
LoadLook(l) ==
    /\ loadPc[l] \in {"guess", "read"}
    /\ LookTest(l, Service) \/ LookStep(l)
    /\ UNCHANGED <<crashed, exportVars, loadVars>>

\* Lines 104-108: a name of another type, or none, ends pointloop.
LoadGuess(l) ==
    LET p == configureFile[Service] IN
    /\ LookReturn(l)
    /\ IF p = NoPath \/ files[p].kind = "other"
       THEN /\ LoadMoves(l, "guess", "idle")
            /\ LoadIsOver(l)
       ELSE /\ LoadMoves(l, "guess", "read")
            /\ guessed' = [guessed EXCEPT ![l] = p]
            /\ UNCHANGED <<reading, conf, markedBefore>>
    /\ UNCHANGED <<crashed, exportVars, renderVars, confng>>

\* Lines 110-116 and 129-130: the branch is that of the guessed name, the
\* file is the one selected now.
LoadRead(l) ==
    /\ LoadMoves(l, "read",
                 IF files[guessed[l]].kind = "json" THEN "parse" ELSE "decode")
    /\ LookReturn(l)
    /\ reading' = [reading EXCEPT ![l] = configureFile[Service]]
    /\ UNCHANGED <<crashed, exportVars, renderVars, guessed, conf, confng,
                   markedBefore>>

\* The file holds a library part parseConf, or proto.Unmarshal, makes sense of.
Holds(p, body) ==
    p # NoPath /\ files[p].body = body /\ files[p].lib = "on"

\* What os.Open and ReadAll (rendercfg.go 42-49) find; errors are dropped, and
\* an empty file is rendered.
TemplateContent == asset[Template]

\* renderAll runs only when there was no error; a render section makes the file.
Renders(m) == m.rendered /\ "render" \in m.filled

Render ==
    /\ rendered' = TemplateContent
    /\ unrendered' = (Template \in spoiled \/ Writing(Template))

\* Line 117: Parse.  It may panic after some of the templates are rendered.
LoadParse(l) ==
    LET f == files[reading[l]]
        parsed == Holds(reading[l], "json") IN
    /\ loadPc[l] = "parse"
    /\ \/ /\ ~parsed
          /\ LoadMoves(l, "parse", "convert")
          /\ conf' = [conf EXCEPT ![l] = NoConf]
          /\ UNCHANGED <<crashed, renderVars>>
       \/ /\ parsed /\ ~ParseFails(f)
          /\ \/ EnvPanics(f) /\ UNCHANGED renderVars
             \/ ~EnvPanics(f) /\ RenderMayPanic(f) /\ (Render \/ UNCHANGED renderVars)
          /\ Panic("parse")
          /\ UNCHANGED <<loadPc, files, conf>>
       \/ /\ parsed /\ (ParseFails(f) \/ ~EnvPanics(f))
          /\ LoadMoves(l, "parse", "convert")
          /\ \E m \in Parsed(f) :
               /\ conf' = [conf EXCEPT ![l] =
                      [path |-> reading[l], filled |-> m.filled, part |-> m.part,
                       rendered |-> m.rendered]]
               /\ IF Renders(m) THEN Render ELSE UNCHANGED renderVars
          /\ UNCHANGED crashed
    /\ UNCHANGED <<contextVars, exportVars, guessed, reading, confng, markedBefore>>

\* Line 118: ToPb returns nil for a nil v.conf, and converts the environment
\* of one that Parse left half filled.
LoadConvert(l) ==
    LET m == conf[l] IN
    /\ loadPc[l] = "convert"
    /\ IF m # NoConf /\ "env" \in m.filled /\ EnvPanics(files[m.path])
       THEN Panic("parse") /\ UNCHANGED <<loadPc, files, confng>>
       ELSE /\ LoadMoves(l, "convert", "export")
            /\ confng' = m
            /\ UNCHANGED crashed
    /\ UNCHANGED <<contextVars, exportVars, renderVars, guessed, reading, conf,
                   markedBefore>>

\* Lines 130-140: the error of Unmarshal is dropped, and confng stays when the
\* extension is not there.
LoadDecode(l) ==
    LET p == reading[l] IN
    /\ LoadMoves(l, "decode", "export")
    /\ confng' = IF Holds(p, "proto")
                 THEN [path |-> p, part |-> {}, rendered |-> FALSE,
                       filled |-> {s \in Sections : files[p].section[s] = "ok"}]
                 ELSE confng
    /\ UNCHANGED <<crashed, contextVars, exportVars, renderVars, guessed, reading,
                   conf, markedBefore>>

\* Lines 150-155.
LoadExport(l) ==
    /\ \/ LoadMoves(l, "export", "exporting") /\ CheckAndExport(l)
       \/ /\ LoadMoves(l, "exporting", "loaded")
          /\ exportPc[l] = "idle"
          /\ UNCHANGED exportVars
       \/ /\ loadPc[l] = "exporting"
          /\ ExportStep(l)
          /\ UNCHANGED <<files, loadPc>>
    /\ UNCHANGED <<crashed, contextVars, renderVars, guessed, reading, conf, confng,
                   markedBefore>>

LoadStep(l) ==
    \/ LoadLook(l) \/ LoadGuess(l) \/ LoadRead(l) \/ LoadParse(l)
    \/ LoadConvert(l) \/ LoadDecode(l) \/ LoadExport(l)

-----------------------------------------------------------------------------
\* pointloop looks the file up twice (interact.go:104 and 115 or 130).  It
\* reads the one whose type it guessed, whatever happens to the property file
\* meanwhile, unless the service's own context was assigned to, or two lookups
\* found its cache empty at once: the second then stores over the first.
LoadsWhatItGuessed ==
    \A l \in Loaders :
        loadPc[l] \in LoadStates \ {"idle", "guess", "read"} =>
            reading[l] = guessed[l] \/ Service \in assigners \cup doubled

\* Once CheckAndExport (interact.go:152) is done, the session that follows
\* starts the binaries of the installed version, unless one could not be
\* written or another pointloop is writing it over at that moment.
ServesItsBinaries ==
    \A l \in Loaders : loadPc[l] = "loaded" => \A a \in Assets : Exported(a)

\* Parse (interact.go:117) renders from the exported template before
\* CheckAndExport (152) has exported it.  The rendered file is that of the
\* installed version if an earlier pointloop of this version has exported it;
\* in the first session it is empty or an older version's.
RenderedIsCurrent ==
    \A l \in Loaders :
        /\ loadPc[l] \in {"convert", "export", "exporting", "loaded"}
        /\ conf[l] # NoConf
        /\ Renders(conf[l])
        /\ markedBefore[l] /\ ~unrendered
        => rendered = version

\* Parse leaves a half-filled v.conf when parseConf fails (configure.go:68-76),
\* and pointloop serves it (interact.go:117-118).  What is served is whole and
\* rendered, or holds no section behind the malformed one and is not rendered;
\* in both an environment with an entry that is no string is left out without
\* an error (simplejson.go:226-228).
ServesWholeOrPrefix ==
    /\ confng # NoConf
    /\ files[confng.path].body = "json"
    => LET f == files[confng.path]
           present == {s \in Sections : f.section[s] \notin {"absent", "mixed"}}
       IN  IF Malformed(f) = {}
           THEN confng.rendered /\ confng.filled = present
           ELSE /\ ~confng.rendered
                /\ \E bad \in Malformed(f) : \E i \in DOMAIN Order :
                     /\ Order[i] = bad
                     /\ confng.part \subseteq {bad}
                     /\ confng.filled =
                          {s \in present : \E j \in 1..(i - 1) : s = Order[j]}
=============================================================================
