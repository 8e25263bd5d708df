------------------------------- MODULE Context -------------------------------
(***************************************************************************)
(* V2RayContext (src/context.go): the configuration file the user selected *)
(* is cached in a field and kept in a property file of the data directory. *)
(*                                                                         *)
(* An app has several contexts: the service's, which pointloop reads, and  *)
(* those NewLib2rayContext makes, for a file picker, say.  Each has its    *)
(* own cache; all use the same property file once they have the same       *)
(* package name.                                                           *)
(*                                                                         *)
(* WriteProp is ioutil.WriteFile: it opens and truncates the file, then    *)
(* writes.  A missing property file, an unreadable one and an empty one    *)
(* are alike to the code, which drops the errors: all are NoPath.          *)
(*                                                                         *)
(* Left out: the listings made from the directory, the two callbacks that  *)
(* refresh the client's view (a path that ends in ".." calls them and      *)
(* changes nothing), clients that write the property by themselves, and    *)
(* two threads inside AssignConfigureFile at once: it belongs to the user  *)
(* interface.                                                              *)
(*                                                                         *)
(* GetConfigureFile runs on any thread and takes no lock: it tests the     *)
(* cache, reads the property file, stores what it read, and reads the      *)
(* cache once more for its result.  Others may come between any two.       *)
(***************************************************************************)
EXTENDS AppProcess

CONSTANTS
    Contexts,    \* the V2RayContext objects
    Paths,       \* the configuration files
    NoPath,      \* the empty string
    Dirs,        \* data directories, one for each package name
    DefaultDir,  \* the directory of an empty package name
    NoAssign,    \* no AssignConfigureFile is going on
    Lookers,     \* the threads that call GetConfigureFile
    NoContext    \* such a thread is elsewhere

ASSUME NoPathAssumption == NoPath \notin Paths
ASSUME DefaultDirAssumption == DefaultDir \in Dirs
ASSUME NoContextAssumption == NoContext \notin Contexts
ASSUME NoAssignAssumption ==
    NoAssign \notin [by : Contexts, path : Paths, dir : Dirs,
                     at : {"open", "write"}]

VARIABLES
    configureFile,  \* [Contexts -> Paths \cup {NoPath}]: the cache
    dirOf,          \* [Contexts -> Dirs]: Status.GetDataDir()
    prop,           \* on disk, [Dirs -> Paths \cup {NoPath}]: the property
    assigning,      \* the AssignConfigureFile going on
    lookPc,         \* [Lookers -> LookStates]
    lookFor,        \* [Lookers -> Contexts \cup {NoContext}]: the receiver
    found,          \* [Lookers -> Paths \cup {NoPath}]: what ReadProp returned
    assigners,      \* history: contexts assigned to since the process began
    unsaved,        \* history: those of them whose WriteProp failed
    renamed,        \* history: contexts that had a file cached, or on its way
                    \* into the cache, when their package name was set
    outrun,         \* history: contexts assigned to, last, while a lookup was
                    \* between its test and its store
    doubled         \* history: contexts with two such lookups at once

lookVars == <<lookPc, lookFor, found>>
assignHistory == <<assigners, unsaved, renamed, outrun>>
contextMemory == <<configureFile, dirOf, assigning, lookVars, assignHistory, doubled>>
contextVars == <<contextMemory, prop>>

\* "read": past the test of line 92, with the cache empty; "store": ReadProp has
\* returned; "return": about to read the field for line 95.
LookStates == {"idle", "read", "store", "return"}

\* l may still overwrite the cache of c.
Pending(l, c) == lookFor[l] = c /\ lookPc[l] \in {"read", "store"}

Assignments == [by : Contexts, path : Paths, dir : Dirs, at : {"open", "write"}]

ContextTypeOK ==
    /\ configureFile \in [Contexts -> Paths \cup {NoPath}]
    /\ dirOf \in [Contexts -> Dirs]
    /\ prop \in [Dirs -> Paths \cup {NoPath}]
    /\ assigning \in Assignments \cup {NoAssign}
    /\ assigners \in SUBSET Contexts
    /\ unsaved \in SUBSET Contexts
    /\ renamed \in SUBSET Contexts
    /\ outrun \in SUBSET Contexts
    /\ doubled \in SUBSET Contexts
    /\ lookPc \in [Lookers -> LookStates]
    /\ lookFor \in [Lookers -> Contexts \cup {NoContext}]
    /\ found \in [Lookers -> Paths \cup {NoPath}]

\* What a process has in memory when it begins.
ContextBegins ==
    /\ configureFile = [c \in Contexts |-> NoPath]
    /\ dirOf = [c \in Contexts |-> DefaultDir]
    /\ assigning = NoAssign
    /\ assigners = {}
    /\ unsaved = {}
    /\ renamed = {}
    /\ outrun = {}
    /\ doubled = {}
    /\ lookPc = [l \in Lookers |-> "idle"]
    /\ lookFor = [l \in Lookers |-> NoContext]
    /\ found = [l \in Lookers |-> NoPath]

\* The process ends.
ContextForgets ==
    /\ configureFile' = [c \in Contexts |-> NoPath]
    /\ dirOf' = [c \in Contexts |-> DefaultDir]
    /\ assigning' = NoAssign
    /\ assigners' = {}
    /\ unsaved' = {}
    /\ renamed' = {}
    /\ outrun' = {}
    /\ doubled' = {}
    /\ lookPc' = [l \in Lookers |-> "idle"]
    /\ lookFor' = [l \in Lookers |-> NoContext]
    /\ found' = [l \in Lookers |-> NoPath]

-----------------------------------------------------------------------------
SetPackageName(c, d) ==
    /\ dirOf' = [dirOf EXCEPT ![c] = d]
    /\ renamed' = IF \/ configureFile[c] # NoPath
                     \/ \E l \in Lookers : Pending(l, c) /\ found[l] # NoPath
                  THEN renamed \cup {c} ELSE renamed
    /\ UNCHANGED <<configureFile, prop, assigning, lookVars, assigners, unsaved,
                   outrun, doubled>>

\* Mutant: only an empty cache is filled.
AssignConfigureFile_FillsOnly(c, p) ==
    /\ assigning = NoAssign
    /\ configureFile' = IF configureFile[c] = NoPath
                        THEN [configureFile EXCEPT ![c] = p]
                        ELSE configureFile
    /\ assigning' = [by |-> c, path |-> p, dir |-> dirOf[c], at |-> "open"]
    /\ assigners' = assigners \cup {c}
    /\ UNCHANGED <<dirOf, prop, lookVars, unsaved, renamed, outrun, doubled>>

\* AssignConfigureFile up to WriteProp.
AssignConfigureFile(c, p) ==
    /\ assigning = NoAssign
    /\ configureFile' = [configureFile EXCEPT ![c] = p]
    /\ assigning' = [by |-> c, path |-> p, dir |-> dirOf[c], at |-> "open"]
    /\ assigners' = assigners \cup {c}
    /\ outrun' = IF \E l \in Lookers : Pending(l, c)
                 THEN outrun \cup {c} ELSE outrun \ {c}
    /\ UNCHANGED <<dirOf, prop, lookVars, unsaved, renamed, doubled>>

\* WriteProp opens the file and so truncates it, ...
PropTruncate ==
    /\ assigning # NoAssign /\ assigning.at = "open"
    /\ prop' = [prop EXCEPT ![assigning.dir] = NoPath]
    /\ assigning' = [assigning EXCEPT !.at = "write"]
    /\ UNCHANGED <<configureFile, dirOf, lookVars, assignHistory, doubled>>

\* ... writes it, ...
PropWrite ==
    /\ assigning # NoAssign /\ assigning.at = "write"
    /\ prop' = [prop EXCEPT ![assigning.dir] = assigning.path]
    /\ assigning' = NoAssign
    /\ unsaved' = unsaved \ {assigning.by}
    /\ UNCHANGED <<configureFile, dirOf, lookVars, assigners, renamed, outrun,
                   doubled>>

\* ... or fails in one of the two, and AssignConfigureFile drops the error.
PropFail ==
    /\ assigning # NoAssign
    /\ assigning' = NoAssign
    /\ unsaved' = unsaved \cup {assigning.by}
    /\ UNCHANGED <<configureFile, dirOf, prop, lookVars, assigners, renamed, outrun,
                   doubled>>

-----------------------------------------------------------------------------
(* GetConfigureFile, called by the thread l. *)

LookMoves(l, from, to) ==
    /\ lookPc[l] = from
    /\ lookPc' = [lookPc EXCEPT ![l] = to]
    /\ UNCHANGED <<dirOf, prop, assigning, assignHistory>>

\* Mutant: the property is read each time.
LookTest_Rereads(l, c) ==
    /\ LookMoves(l, "idle", "read")
    /\ lookFor' = [lookFor EXCEPT ![l] = c]
    /\ doubled' = IF \E k \in Lookers : Pending(k, c)
                  THEN doubled \cup {c} ELSE doubled
    /\ UNCHANGED <<configureFile, found>>

\* Line 92.
LookTest(l, c) ==
    /\ lookFor' = [lookFor EXCEPT ![l] = c]
    /\ IF configureFile[c] = NoPath
       THEN /\ LookMoves(l, "idle", "read")
            /\ doubled' = IF \E k \in Lookers : Pending(k, c)
                          THEN doubled \cup {c} ELSE doubled
       ELSE LookMoves(l, "idle", "return") /\ UNCHANGED doubled
    /\ UNCHANGED <<configureFile, found>>

\* ReadProp.
LookRead(l) ==
    /\ LookMoves(l, "read", "store")
    /\ found' = [found EXCEPT ![l] = prop[dirOf[lookFor[l]]]]
    /\ UNCHANGED <<configureFile, lookFor, doubled>>

\* Line 93 stores it, whatever the cache holds by now.
LookStore(l) ==
    /\ LookMoves(l, "store", "return")
    /\ configureFile' = [configureFile EXCEPT ![lookFor[l]] = found[l]]
    /\ found' = [found EXCEPT ![l] = NoPath]
    /\ UNCHANGED <<lookFor, doubled>>

\* Line 95: the caller gets the field as it is now.
LookReturn(l) ==
    /\ LookMoves(l, "return", "idle")
    /\ lookFor' = [lookFor EXCEPT ![l] = NoContext]
    /\ UNCHANGED <<configureFile, found, doubled>>

LookStep(l) == LookRead(l) \/ LookStore(l)

-----------------------------------------------------------------------------
\* GetConfigureFile (context.go:91-96) never looks at the property again once
\* it has a value.  What a context shows is still what a new process would
\* read, unless another context was assigned to since, the write failed, the
\* package name was set too late, or a lookup that had found the cache empty
\* stored what it read over the file assigned meanwhile.
SelectionAgrees ==
    \A c \in Contexts :
        /\ configureFile[c] # NoPath
        /\ assigners \subseteq {c}
        /\ c \notin unsaved \cup renamed \cup outrun
        /\ assigning = NoAssign
        => configureFile[c] = prop[dirOf[c]]
=============================================================================
