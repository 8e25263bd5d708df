------------------------------ MODULE Converter ------------------------------
(***************************************************************************)
(* src/configure/jsonConvert: how the "#lib2ray" object of a JSON          *)
(* configuration becomes the LibV2RayConf message that pointloop uses.     *)
(*                                                                         *)
(* parseConf reads the sections in order and returns at the first it       *)
(* cannot read; v.conf is then half filled.  Parse renders only when there *)
(* was no error, but pointloop drops the error and calls ToPb all the      *)
(* same, and ToPb converts whatever v.conf holds.                          *)
(*                                                                         *)
(* A file is abstracted to the state of each section.  JSON syntax, the    *)
(* comments it may hold, and the texts os.Expand works on are left out.    *)
(***************************************************************************)
EXTENDS Naturals, Sequences

CONSTANT NoConf  \* the nil v.conf, and the nil LibV2RayConf

\* The order of parseConf: lines 70-76, 78, 100, 115 and 130 of configure.go.
Order == <<"env", "escort", "render", "vpnservice", "preparedDomainName">>
Sections == {Order[i] : i \in DOMAIN Order}

\* kind: what GuessConfigType makes of the name; body: what the file holds;
\* lib: the library's part is there and enabled, is not, or cannot be read.
\* A section is absent, well formed or malformed; only "env" must be there
\* ("bad" otherwise).  "noEq" has an entry, or an argument to render with, that
\* has no "="; a null entry is such a one.  "mixed" is an "env" with an entry
\* that is no string, for which StringArray returns nothing and no error.
SectionStates(s) ==
    CASE s = "env"    -> {"ok", "bad", "noEq", "mixed"}
      [] s = "render" -> {"absent", "ok", "bad", "noEq"}
      [] OTHER        -> {"absent", "ok", "bad"}

FileRecords ==
    [kind : {"json", "proto", "other"}, body : {"json", "proto"},
     lib : {"on", "off", "bad"},
     section : {f \in [Sections -> {"absent", "ok", "bad", "noEq", "mixed"}] :
                    \A s \in Sections : f[s] \in SectionStates(s)}]

\* The sections parseConf gets to: all before the first malformed one, and it.
Reached(f) ==
    {Order[i] : i \in {j \in DOMAIN Order :
        \A k \in 1..(j - 1) : f.section[Order[k]] # "bad"}}

Malformed(f) == {s \in Sections : f.section[s] = "bad"}

\* Mutant: parseConf logs a malformed section and goes on.
ParseFails_Never(f) == FALSE

\* Whether parseConf returns an error; it does not for a "mixed" environment.
ParseFails(f) == f.lib = "bad" \/ (f.lib = "on" /\ Malformed(f) # {})

\* The sections v.conf holds as they were written; a "mixed" environment is
\* dropped.
Filled(f) == {s \in Reached(f) : f.section[s] \in {"ok", "noEq"}}

\* encoding/json leaves in the target what it could decode of a malformed
\* section, so such a section may be there in part; "env" is not decoded so.
InPart(f) == (Reached(f) \cap Malformed(f)) \ {"env"}

\* v.conf after Parse, for a file whose v.conf is set at line 68 at all.
Parsed(f) ==
    {[filled |-> Filled(f), part |-> p, rendered |-> ~ParseFails(f)] :
        p \in SUBSET InPart(f)}

\* envToMap slices at index -1 for an environment entry without "=": in Parse
\* (186) when there was no error, in ConvertToPb (35) otherwise.
EnvPanics(f) == f.section["env"] = "noEq"

\* renderptm calls it with the arguments to render with, once a "$" is expanded
\* in the names or the template (rendercfg.go:34); whether there is one is left
\* open.
RenderMayPanic(f) == f.section["render"] = "noEq"
=============================================================================
