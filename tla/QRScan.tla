-------------------------------- MODULE QRScan --------------------------------
(***************************************************************************)
(* Scanning QR codes (src/qrscan.go).  A configuration is spread over      *)
(* several codes, the pieces of a group, any number "Needed" of which      *)
(* suffice; a legacy code (vmess://) holds one by itself.                  *)
(*                                                                         *)
(* The scanner calls OnNewScanResult with each code it sees and is told    *)
(* ReadyToFinish; the user then names the file and Finish writes it into   *)
(* the directory of the selected configuration file, or calls Discard.     *)
(* CurrentScan is global: ScanQR returns it whichever context it is called *)
(* on.  All calls come from the user interface and do not overlap.         *)
(*                                                                         *)
(* The decoder is vendored (V2RayConfigureFileUtil/encoding).  A fresh one *)
(* needs 0 pieces and has 0, so it is ready, but it has no first message,  *)
(* which its Finish dereferences.  Left out: what UnpackV2RayConfB         *)
(* decodes, and clients that call back from inside ReadyToFinish.          *)
(*                                                                         *)
(* Finish looks up the selected file, on the thread Scanner, for the       *)
(* directory to write to.  As no call overlaps another, what Finish does   *)
(* to the scan around the lookup is one step after it.                     *)
(***************************************************************************)
EXTENDS Context, FiniteSets, Naturals

CONSTANTS
    Groups,     \* configurations spread over several codes
    Pieces,     \* the codes of a group
    Needed,     \* [Groups -> Nat \ {0}]: PieceNeeded
    Legacy,     \* configurations in a legacy code
    Scanner,    \* the thread that calls the scanner
    Nothing     \* no group, no decoder, no legacy code, no file

ASSUME NeededAssumption ==
    /\ IsFiniteSet(Pieces)
    /\ Needed \in [Groups -> 1..Cardinality(Pieces)]
ASSUME ScannerAssumption == Scanner \in Lookers
ASSUME NothingAssumption ==
    Nothing \notin Groups \cup Legacy \cup Contexts
        \cup [group : Groups \cup {Nothing}, got : SUBSET (Groups \X Pieces)]

VARIABLES
    scan,            \* the context CurrentScan was made for, or Nothing
    qd,              \* the decoder: its group and the pieces it got
    surpressFinish,  \* ReadyToFinish was told for this decoder
    legencyScanned,  \* the legacy code scanned, if legencyScanned is set
    announced,       \* history: what the user was last told ReadyToFinish
                     \* for, until Finish or Discard
    legacySeen,      \* history: a legacy code was scanned in this process
    saved            \* history: what Finish wrote last in this process

scanVars == <<scan, qd, surpressFinish, legencyScanned, announced, legacySeen,
              saved>>

Decoders == [group : Groups \cup {Nothing}, got : SUBSET (Groups \X Pieces)]

\* Encoder.StartQRDecode: every field is zero.
StartQRDecode == [group |-> Nothing, got |-> {}]

\* QRDecoder.IsDecodeReady.
IsDecodeReady(d) == d.group = Nothing \/ Cardinality(d.got) >= Needed[d.group]

ScanTypeOK ==
    /\ scan \in Contexts \cup {Nothing}
    /\ qd \in Decoders \cup {Nothing}
    /\ surpressFinish \in BOOLEAN
    /\ legencyScanned \in Legacy \cup {Nothing}
    /\ announced \in Groups \cup Legacy \cup {Nothing}
    /\ legacySeen \in BOOLEAN
    /\ saved \in Groups \cup Legacy \cup {Nothing}

ScanBegins ==
    /\ scan = Nothing
    /\ qd = Nothing
    /\ surpressFinish = FALSE
    /\ legencyScanned = Nothing
    /\ announced = Nothing
    /\ legacySeen = FALSE
    /\ saved = Nothing

ScanForgets ==
    /\ scan' = Nothing
    /\ qd' = Nothing
    /\ surpressFinish' = FALSE
    /\ legencyScanned' = Nothing
    /\ announced' = Nothing
    /\ legacySeen' = FALSE
    /\ saved' = Nothing

-----------------------------------------------------------------------------
\* ScanQR and Init: only the first call makes a scan.
ScanQR(c) ==
    /\ scan = Nothing
    /\ scan' = c
    /\ UNCHANGED <<crashed, contextVars, qd, surpressFinish, legencyScanned,
                   announced, legacySeen, saved>>

\* Lines 27-30.
Decoder == IF qd = Nothing THEN StartQRDecode ELSE qd
Surpressed == qd # Nothing /\ surpressFinish

\* ReadyToFinish, at most once for a decoder.
Announce(what, surpressed) ==
    /\ surpressFinish' = TRUE
    /\ announced' = IF surpressed THEN announced ELSE what

\* Lines 32-44.
ScanLegacy(x) ==
    /\ scan # Nothing
    /\ qd' = Decoder
    /\ legencyScanned' = x
    /\ legacySeen' = TRUE
    /\ Announce(x, Surpressed)
    /\ UNCHANGED <<crashed, contextVars, scan, saved>>

\* Mutant: a code of neither scheme discards what was scanned.
ScanForeign_Discards ==
    /\ scan # Nothing
    /\ qd' = StartQRDecode
    /\ surpressFinish' = FALSE
    /\ UNCHANGED <<crashed, contextVars, scan, legencyScanned, announced,
                   legacySeen, saved>>

\* Lines 45-48: neither scheme.
ScanForeign ==
    /\ scan # Nothing
    /\ qd' = Decoder
    /\ surpressFinish' = Surpressed
    /\ UNCHANGED <<crashed, contextVars, scan, legencyScanned, announced,
                   legacySeen, saved>>

\* Lines 49-56: a malformed code, or one with a wrong checksum, is refused by
\* every fresh decoder too, so the call recurs until the stack is full.
ScanMalformed ==
    /\ scan # Nothing
    /\ Panic("scan")
    /\ UNCHANGED <<contextVars, scanVars>>

\* Mutant: the decoder of another group is kept, with its pieces.
Receive_Mixes(g, i) == [group |-> g, got |-> Decoder.got \cup {<<g, i>>}]

\* The decoder that has taken piece i of group g: this one, or when it has
\* another group a fresh one (lines 52-54; "|| true" makes the test void).
Receive(g, i) ==
    [group |-> g,
     got |-> IF Decoder.group = g THEN Decoder.got \cup {<<g, i>>} ELSE {<<g, i>>}]

\* Mutant: a decoder given up for another group leaves surpressFinish set.
ScanPiece_KeepsFlag(g, i) ==
    LET new == Receive(g, i)
    IN  /\ scan # Nothing
        /\ qd' = new
        /\ IF IsDecodeReady(new)
           THEN Announce(g, Surpressed)
           ELSE surpressFinish' = Surpressed /\ UNCHANGED announced
        /\ UNCHANGED <<crashed, contextVars, scan, legencyScanned, legacySeen,
                       saved>>

\* Lines 49-64.
ScanPiece(g, i) ==
    LET new == Receive(g, i)
        surpressed == Surpressed /\ Decoder.group \in {g, Nothing}
    IN  /\ scan # Nothing
        /\ qd' = new
        /\ IF IsDecodeReady(new)
           THEN Announce(g, surpressed)
           ELSE surpressFinish' = surpressed /\ UNCHANGED announced
        /\ UNCHANGED <<crashed, contextVars, scan, legencyScanned, legacySeen,
                       saved>>

Discard ==
    /\ scan # Nothing
    /\ qd' = Nothing
    /\ announced' = Nothing
    /\ UNCHANGED <<crashed, contextVars, scan, surpressFinish, legencyScanned,
                   legacySeen, saved>>

\* Finish on its way to write a file: lines 79 and 104.
FinishLooks ==
    /\ scan # Nothing
    /\ \/ legencyScanned # Nothing
       \/ qd # Nothing /\ qd # StartQRDecode /\ IsDecodeReady(qd)
    /\ LookTest(Scanner, scan)
    /\ UNCHANGED <<crashed, scanVars>>

\* Finish after a legacy code, lines 79-89: the file is written and the
\* decoder discarded, and then asked whether it is ready; or the write fails.
FinishLegacy ==
    /\ scan # Nothing /\ legencyScanned # Nothing
    /\ LookReturn(Scanner)
    /\ \/ UNCHANGED <<crashed, scanVars>>
       \/ /\ saved' = legencyScanned
          /\ legencyScanned' = Nothing
          /\ qd' = Nothing
          /\ announced' = Nothing
          /\ Panic("finish")
          /\ UNCHANGED <<scan, surpressFinish, legacySeen>>

\* Lines 89-97: no decoder, or one that has got no code yet.
FinishPanics ==
    /\ scan # Nothing /\ legencyScanned = Nothing
    /\ qd = Nothing \/ qd = StartQRDecode
    /\ Panic("finish")
    /\ UNCHANGED <<contextVars, scanVars>>

\* Lines 89-103: a decoder that is not ready, or cannot reconstruct, is kept;
\* what it gives may not unpack, when it is dropped already.
FinishFails ==
    /\ scan # Nothing /\ legencyScanned = Nothing
    /\ qd # Nothing /\ qd # StartQRDecode
    /\ \/ UNCHANGED scanVars
       \/ /\ IsDecodeReady(qd)
          /\ qd' = Nothing
          /\ announced' = Nothing
          /\ UNCHANGED <<scan, surpressFinish, legencyScanned, legacySeen, saved>>
    /\ UNCHANGED <<crashed, contextVars>>

\* Lines 98-110: it is dropped, also when the file cannot be written.
FinishGroup ==
    /\ scan # Nothing /\ legencyScanned = Nothing
    /\ qd # Nothing /\ qd # StartQRDecode /\ IsDecodeReady(qd)
    /\ LookReturn(Scanner)
    /\ qd' = Nothing
    /\ announced' = Nothing
    /\ saved' \in {saved, qd.group}
    /\ UNCHANGED <<crashed, scan, surpressFinish, legencyScanned, legacySeen>>

\* A call of the client, which ends in the step unless it looks the file up.
ScanCall ==
    \/ \E c \in Contexts : ScanQR(c)
    \/ \E x \in Legacy : ScanLegacy(x)
    \/ \E g \in Groups, i \in Pieces : ScanPiece(g, i)
    \/ ScanForeign \/ ScanMalformed \/ Discard
    \/ FinishLooks \/ FinishPanics \/ FinishFails

ScanStep ==
    \/ lookPc[Scanner] = "idle" /\ ScanCall
    \/ LookStep(Scanner) /\ UNCHANGED <<crashed, scanVars>>
    \/ FinishLegacy \/ FinishGroup

-----------------------------------------------------------------------------
\* ReadyToFinish promises that Finish can be called (qrscan.go:58-60): as long
\* as no legacy code was scanned, a Finish after it finds a decoder that holds
\* a group, whatever was scanned in between.  After a legacy code it never
\* does (line 89).
AnnouncedFinishIsSafe ==
    announced # Nothing /\ ~legacySeen => qd # Nothing /\ qd # StartQRDecode

\* A decoder that has all it needs has been announced (qrscan.go:58), also
\* when its first piece displaced another group; legacy codes take the
\* announcement away from it.
CompleteIsAnnounced ==
    /\ qd # Nothing /\ qd.group # Nothing
    /\ IsDecodeReady(qd) /\ ~legacySeen
    => announced = qd.group

\* Finish saves what the user was told (qrscan.go:94-113): the pieces of one
\* group, enough of them, and that group was announced.
SavesWhatWasAnnounced ==
    [][saved' \in Groups /\ saved' # saved /\ ~legacySeen =>
          /\ announced = saved'
          /\ qd.got \subseteq {saved'} \X Pieces
          /\ Cardinality(qd.got) >= Needed[saved']]_<<crashed, scanVars>>
=============================================================================
