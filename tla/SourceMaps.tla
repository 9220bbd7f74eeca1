----------------------------- MODULE SourceMaps -----------------------------
(* The build of a customer's application and its source maps: the Vite plugin *)
(* that stamps a debug ID into each chunk and its map, the command line tool  *)
(* that does the same to a directory another bundler wrote, and the uploader  *)
(* they share (packages/sdk: vite-plugin, sourcemaps-cli, src/build).         *)
(*                                                                            *)
(* A debug ID is the fingerprint of a map with its own debugId left out.  What *)
(* may go wrong is that the code, the map beside it and the map the server    *)
(* keeps come apart: the steps that rewrite them are many, and either tool may *)
(* be stopped, refused or followed by another plugin between two of them.     *)
EXTENDS Integers, FiniteSets

CONSTANTS
    Files,         \* the chunks of the build
    Heads,         \* Heads[f]: the shape of its prologue of directives, see below
    MaxMeddles,    \* bound: changes by other plugins
    MaxCliRuns,    \* bound: runs of the command line tool
    MaxMapFaults   \* bound: stops, refusals and failed writes

ASSUME MapsAssumption ==
    /\ Heads \in [Files -> Nat]
    /\ MaxMeddles \in Nat /\ MaxCliRuns \in Nat /\ MaxMapFaults \in Nat

VARIABLES
    cfg,       \* the plugin's configuration, as config and configResolved leave it
    dir,       \* the bundle, and then the build directory
    stage,     \* where the build, or the run over its directory, stands
    promised,  \* stampedIds or uploadPayloads: what the tool holds to upload
    work,      \* where the tool is with each file
    stored,    \* the debug IDs the server keeps the map of
    blamed,    \* files a tool told its user it could not serve
    touched,   \* files whose map another plugin changed
    left       \* what remains of the bounds

mapsVars == <<cfg, dir, stage, promised, work, stored, blamed, touched, left>>

NoId == <<>>

(* A map: where it lies, what it maps, by how many lines it was shifted, and  *)
(* its debugId field.  Code: how it got into the bundle, its prologue, the    *)
(* lines put in front of it, its debug ID, and whether a sourceMappingURL     *)
(* directive points to its map.  A prologue of head 0 ends with its line, or  *)
(* there is none; one of head n ends on its n-th line, before other code.     *)
NoMap == [at |-> "nowhere", form |-> "built", lines |-> 0, id |-> NoId]
PlainMap == [NoMap EXCEPT !.at = "sibling"]
PlainCode(f) == [kind |-> "chunk", head |-> Heads[f], lines |-> 0, id |-> NoId, points |-> TRUE]

(* computeDebugId: the whole content counts but for the root's debugId.       *)
Fingerprint(f, map) == <<f, map.form, map.lines>>

(* preludeInsertion: a prologue that shares its last line with other code is  *)
(* written again in front of the prelude, and two lines are counted.          *)
AddedLines(code) == IF code.head = 0 THEN 1 ELSE 2

(* The prelude, and the prologue in front of it, in the code.                 *)
Preluded(code, id) == [code EXCEPT !.lines = @ + code.head + 1, !.id = id]

(* stampCodeAndMap: empty lines of mappings for the lines counted, and the    *)
(* fingerprint of the corrected map in both.                                  *)
Stamped(f, art) ==
    LET map == [art.map EXCEPT !.lines = @ + AddedLines(art.code)]
        id == Fingerprint(f, map)
    IN  [code |-> Preluded(art.code, id), map |-> [map EXCEPT !.id = id]]

\* Mutant: code that bears an ID is stamped again as it is.
StillStamped(art) == art

(* unstamp: prelude and trailer are cut out again.  A prologue that was       *)
(* written in front of the prelude stays, and there are two of it.            *)
Unstamped(art) ==
    [art EXCEPT !.code = [@ EXCEPT !.lines = @ - 1, !.head = 2 * @, !.id = NoId]]

(* stripSourceMappingURLDirectives *)
Stripped(art) == [art EXCEPT !.code.points = FALSE]

Consistent(f, art) == /\ art.code.id # NoId
                      /\ art.map.at # "nowhere"
                      /\ Fingerprint(f, art.map) = art.code.id

-----------------------------------------------------------------------------
(* The Vite plugin. *)

(* config and configResolved: the plugin asks for maps when the project has   *)
(* no setting of its own, and an integrity plugin switches the stamping off   *)
(* after that.                                                                *)
Configured(setting, stamp, sri, keep, key) ==
    [requested |-> setting = "default" /\ stamp,
     maps |-> setting = "on" \/ (setting = "default" /\ stamp),
     stamping |-> stamp /\ setting # "off" /\ ~sri,
     keep |-> keep, key |-> key]

\* mapsWillShip
Ships == ~cfg.requested \/ cfg.keep

(* What the bundle holds of a file: a chunk with its map, or code a nested    *)
(* build emitted: stamped with its map, stamped beside the map of the parent's *)
(* chunk, never stamped, or with no map.                                      *)
Emitted(maps, f) ==
    LET chunk == [code |-> PlainCode(f), map |-> IF maps THEN PlainMap ELSE NoMap]
        asset == [chunk EXCEPT !.code.kind = "asset"]
        nested == Stamped(f, asset)
    IN  IF maps
        THEN {chunk, asset, nested, [nested EXCEPT !.map = PlainMap],
              [chunk EXCEPT !.map = NoMap]}
        ELSE {chunk, asset}

(* What the plugin has to stamp itself. *)
ToStamp(f, art) ==
    /\ cfg.stamping /\ art.map.at # "nowhere"
    /\ art.code.kind = "chunk" \/ (art.code.id # NoId /\ ~Consistent(f, art))

(* generateBundle for one chunk, and restampEmittedAsset for code of another  *)
(* build.                                                                     *)
InBundle(f, art, sound) ==
    LET own == IF Ships \/ (~cfg.stamping /\ art.code.kind = "asset") THEN art
               ELSE Stripped(art)
    IN  IF ~sound \/ ~ToStamp(f, art) THEN own
        ELSE Stamped(f, IF art.code.kind = "chunk" THEN own ELSE Unstamped(own))

(* generateBundle: every file of the bundle, and then discardRetiredMaps.  A  *)
(* map that is too large or cannot be fingerprinted leaves its file as it is. *)
(* uploadPayloads and stampedIds remember the maps that were stamped.         *)
GenerateBundle ==
    /\ stage = "bundle"
    /\ \E unsound \in SUBSET {f \in Files : ToStamp(f, dir[f])} :
         LET made == [f \in Files |-> InBundle(f, dir[f], f \notin unsound)]
         IN  /\ promised' = [f \in Files |-> IF cfg.stamping /\ Consistent(f, made[f])
                                             THEN made[f].map ELSE NoMap]
             /\ dir' = IF Ships THEN made
                       ELSE [f \in Files |-> [made[f] EXCEPT !.map = NoMap]]
             /\ blamed' = unsound
    /\ stage' = "generated"
    /\ UNCHANGED <<cfg, work, stored, touched, left>>

(* Another plugin, ordered after this one, drops a map, rewrites it, or puts  *)
(* back the one that was removed: from chunk.map, which has the stamped bytes. *)
Meddle(f) ==
    /\ stage \in {"generated", "written", "verified"}
    /\ left.meddles > 0
    /\ left' = [left EXCEPT !.meddles = @ - 1]
    /\ \E map \in {NoMap, promised[f]} \cup
                  (IF dir[f].map.at = "nowhere" THEN {}
                   ELSE {[dir[f].map EXCEPT !.form = "other"]}) :
         /\ map # dir[f].map
         /\ dir' = [dir EXCEPT ![f].map = map]
    /\ touched' = touched \cup {f}
    /\ UNCHANGED <<cfg, stage, promised, work, stored, blamed>>

Write ==
    /\ stage = "generated"
    /\ stage' = "written"
    /\ work' = [f \in Files |-> IF dir[f].map.at = "nowhere" THEN "dropped" ELSE "bundled"]
    /\ UNCHANGED <<cfg, dir, promised, stored, blamed, touched, left>>

(* writeBundle: a map that was still in the bundle has to be on disk with the *)
(* bytes that were stamped.  Only maps that ship are checked.                 *)
VerifyFails(f) == /\ Ships
                  /\ promised[f] # NoMap
                  /\ work[f] = "bundled"
                  /\ ~Consistent(f, dir[f])

WriteBundle ==
    /\ stage = "written"
    /\ stage' = "verified"
    /\ blamed' = blamed \cup {f \in Files : VerifyFails(f)}
    /\ UNCHANGED <<cfg, dir, promised, work, stored, touched, left>>

(* closeBundle's entries: maps that ship are read again from disk, and only   *)
(* those that still have their fingerprint are sent.                          *)
Entries(f) == /\ cfg.key
              /\ promised[f] # NoMap
              /\ Ships => f \notin blamed /\ Consistent(f, dir[f])

CloseBundle ==
    /\ stage = "verified"
    /\ stage' = "uploading"
    /\ work' = [f \in Files |-> IF Entries(f) THEN "queued" ELSE "idle"]
    /\ promised' = [f \in Files |-> IF Ships THEN dir[f].map ELSE promised[f]]
    /\ UNCHANGED <<cfg, dir, stored, blamed, touched, left>>

ViteEnds ==
    /\ stage = "uploading"
    /\ \A f \in Files : work[f] # "queued"
    /\ stage' = "built"
    /\ blamed' = blamed \cup {f \in Files : work[f] = "failed"}
    /\ work' = [f \in Files |-> "idle"]
    /\ promised' = [f \in Files |-> NoMap]
    /\ UNCHANGED <<cfg, dir, stored, touched, left>>

-----------------------------------------------------------------------------
(* uploadSourceMaps, for both tools, and UploadSourceMap, which answers it.   *)

Fault == /\ left.faults > 0
         /\ left' = [left EXCEPT !.faults = @ - 1]

Sending(f) == stage \in {"uploading", "sending"} /\ work[f] = "queued"

(* The server recomputes the fingerprint of what it was sent.                 *)
Accepts(f) == Fingerprint(f, promised[f]) = promised[f].id

Accepted(f) ==
    /\ Sending(f) /\ Accepts(f)
    /\ stored' = stored \cup {promised[f].id}
    /\ work' = [work EXCEPT ![f] = "sent"]
    /\ UNCHANGED <<cfg, dir, stage, promised, blamed, touched, left>>

(* An HTTP error, a map over the limit, the eighth 429 or a second network    *)
(* error.                                                                     *)
Refused(f) ==
    /\ Sending(f) /\ Fault
    /\ work' = [work EXCEPT ![f] = "failed"]
    /\ UNCHANGED <<cfg, dir, stage, promised, stored, blamed, touched>>

(* The map is stored and the answer lost: the first time it is sent again.    *)
AnswerLost(f) ==
    /\ Sending(f) /\ Accepts(f) /\ Fault
    /\ stored' = stored \cup {promised[f].id}
    /\ \E w \in {"queued", "failed"} : work' = [work EXCEPT ![f] = w]
    /\ UNCHANGED <<cfg, dir, stage, promised, blamed, touched>>

-----------------------------------------------------------------------------
(* The command line tool. *)

(* mapFor: the map a directive names, the sibling, or the one map that was    *)
(* retained under the code's debug ID.                                        *)
Finds(art) == \/ art.map.at = "sibling"
              \/ art.map.at = "aside" /\ art.code.points
              \/ art.map.at = "aside" /\ art.code.id # NoId /\ art.map.id = art.code.id

(* Code or map bears a stamp already: all three have to agree.                *)
Marked(art) == art.code.id # NoId \/ art.map.id # NoId
Agrees(f, art) == Consistent(f, art) /\ art.map.id = art.code.id

(* What runSourcemapsCli makes of a file it can read.                         *)
Verdict(f, art) ==
    CASE art.code.kind = "none" -> "skipped"
      [] art.code.kind # "none" /\ art.map.at = "nowhere" /\ art.code.points -> "failed"
      [] art.code.kind # "none" /\ ~Finds(art) /\ ~art.code.points -> "skipped"
      [] art.code.kind # "none" /\ Finds(art) /\ Marked(art) ->
           IF Agrees(f, art) THEN "queued" ELSE "failed"
      [] OTHER -> "dirty"

(* The directory is read: every file is stamped in memory, checked or failed. *)
CliStarts ==
    /\ stage \in {"built", "clean", "failed"}
    /\ left.runs > 0
    /\ left' = [left EXCEPT !.runs = @ - 1]
    /\ stage' = "writing"
    /\ \E keep \in BOOLEAN : cfg' = [cfg EXCEPT !.keep = keep]
    /\ \E sound \in {Files} \cup {Files \ {f} : f \in Files} :
         work' = [f \in Files |-> LET v == Verdict(f, dir[f]) IN
                                  IF v = "dirty" /\ f \notin sound THEN "failed" ELSE v]
    /\ promised' = [f \in Files |-> IF work'[f] = "dirty" THEN Stamped(f, dir[f]).map
                                    ELSE dir[f].map]
    /\ UNCHANGED <<dir, stored, blamed, touched>>

WriteMap(f) ==
    /\ stage = "writing" /\ work[f] = "dirty"
    /\ work' = [work EXCEPT ![f] = "mapped"]
    /\ dir' = [dir EXCEPT ![f].map = promised[f]]
    /\ UNCHANGED <<cfg, stage, promised, stored, blamed, touched, left>>

WriteCode(f) ==
    /\ stage = "writing" /\ work[f] = "mapped"
    /\ work' = [work EXCEPT ![f] = "queued"]
    /\ dir' = [dir EXCEPT ![f].code = Preluded(@, promised[f].id)]
    /\ UNCHANGED <<cfg, stage, promised, stored, blamed, touched, left>>

(* A write or a removal fails: its file has failed, the others go on. *)
StepFails(f) ==
    /\ \/ stage = "writing" /\ work[f] \in {"dirty", "mapped"}
       \/ stage = "retiring" /\ work[f] \in {"sent", "stripped"}
    /\ Fault
    /\ work' = [work EXCEPT ![f] = "failed"]
    /\ UNCHANGED <<cfg, dir, stage, promised, stored, blamed, touched>>

CliUploads ==
    /\ stage = "writing"
    /\ \A f \in Files : work[f] \notin {"dirty", "mapped"}
    /\ stage' = "sending"
    /\ UNCHANGED <<cfg, dir, promised, work, stored, blamed, touched, left>>

CliUploaded ==
    /\ stage = "sending"
    /\ \A f \in Files : work[f] # "queued"
    /\ stage' = "retiring"
    /\ UNCHANGED <<cfg, dir, promised, work, stored, blamed, touched, left>>

(* Of an uploaded file the directive is stripped, and then the map removed.   *)
Strip(f) ==
    /\ stage = "retiring" /\ work[f] = "sent"
    /\ work' = [work EXCEPT ![f] = IF cfg.keep THEN "done" ELSE "stripped"]
    /\ dir' = [dir EXCEPT ![f] = Stripped(@)]
    /\ UNCHANGED <<cfg, stage, promised, stored, blamed, touched, left>>

RemoveMap(f) ==
    /\ stage = "retiring" /\ work[f] = "stripped"
    /\ work' = [work EXCEPT ![f] = "done"]
    /\ dir' = [dir EXCEPT ![f].map = NoMap]
    /\ UNCHANGED <<cfg, stage, promised, stored, blamed, touched, left>>

(* The residual maps are removed only after a run in which nothing failed. *)
Clean == \A f \in Files : work[f] # "failed"

(* The end of a run, with the removal of residual maps, all or up to a map    *)
(* that cannot be removed.                                                    *)
CliEnds ==
    /\ stage = "retiring"
    /\ \A f \in Files : work[f] \notin {"sent", "stripped"}
    /\ \/ /\ stage' = (IF \A f \in Files : work[f] # "failed" THEN "clean" ELSE "failed")
          /\ dir' = (IF Clean /\ ~cfg.keep THEN [f \in Files |-> [dir[f] EXCEPT !.map = NoMap]]
                     ELSE dir)
          /\ UNCHANGED left
       \/ /\ Clean /\ ~cfg.keep /\ Fault
          /\ stage' = "failed"
          /\ \E kept \in SUBSET Files :
               dir' = [f \in Files |-> IF f \in kept THEN dir[f]
                                       ELSE [dir[f] EXCEPT !.map = NoMap]]
    /\ work' = [f \in Files |-> "idle"]
    /\ UNCHANGED <<cfg, promised, stored, blamed, touched>>

(* The tool is stopped. *)
CliDies ==
    /\ stage \in {"writing", "sending", "retiring"} /\ Fault
    /\ stage' = "failed"
    /\ work' = [f \in Files |-> "idle"]
    /\ UNCHANGED <<cfg, dir, promised, stored, blamed, touched>>

-----------------------------------------------------------------------------
(* What another bundler, or another run of a tool, may have left of a file:   *)
(* its map beside it, hidden or not, or elsewhere; none; a map of no code; a  *)
(* stamped pair; a stamped pair whose map was rewritten since.                *)
Outside(f) ==
    LET plain == [code |-> PlainCode(f), map |-> PlainMap]
        stamped == Stamped(f, plain)
    IN  {plain, Stripped(plain), [plain EXCEPT !.map.at = "aside"],
         [plain EXCEPT !.map = NoMap], [Stripped(plain) EXCEPT !.map.at = "aside"],
         [plain EXCEPT !.code.kind = "none", !.map.at = "aside"],
         stamped, [stamped EXCEPT !.map.form = "other"]}

NoBuild == Configured("on", TRUE, FALSE, FALSE, TRUE)

MapsInit ==
    /\ \/ /\ stage = "bundle"
          /\ \E setting \in {"default", "on", "off"}, stamp, sri, keep, key \in BOOLEAN :
               cfg = Configured(setting, stamp, sri, keep, key)
          /\ \E made \in [Files -> UNION {Emitted(cfg.maps, f) : f \in Files}] :
               /\ \A f \in Files : made[f] \in Emitted(cfg.maps, f)
               /\ dir = made
          /\ touched = {}
       \/ /\ stage = "built"
          /\ cfg = NoBuild
          /\ \E made \in [Files -> UNION {Outside(f) : f \in Files}] :
               /\ \A f \in Files : made[f] \in Outside(f)
               /\ dir = made
               /\ touched = {f \in Files : made[f].map.form = "other"}
    /\ promised = [f \in Files |-> NoMap]
    /\ work = [f \in Files |-> "idle"]
    /\ stored = {}
    /\ blamed = {}
    /\ left = [meddles |-> MaxMeddles, runs |-> MaxCliRuns, faults |-> MaxMapFaults]

MapsNext ==
    \/ GenerateBundle \/ Write \/ WriteBundle \/ CloseBundle \/ ViteEnds
    \/ CliStarts \/ CliUploads \/ CliUploaded \/ CliEnds \/ CliDies
    \/ \E f \in Files :
         \/ Meddle(f) \/ Accepted(f) \/ Refused(f) \/ AnswerLost(f)
         \/ WriteMap(f) \/ WriteCode(f) \/ StepFails(f) \/ Strip(f) \/ RemoveMap(f)

MapsSpec == MapsInit /\ [][MapsNext]_mapsVars

-----------------------------------------------------------------------------
Vite == {"bundle", "generated", "written", "verified", "uploading"}

(* The map the server keeps under the ID of a file's code is shifted by as    *)
(* many lines as were put in front of the code, whichever tools stamped,      *)
(* unstamped and stamped it again; but for a prologue over several lines that *)
(* shares its last one, of which unstamping makes one out of any that shares  *)
(* its line.                                                                  *)
MapsItsCode == \A f \in Files : (dir[f].code.id \in stored /\ dir[f].code.head <= 1) =>
                 dir[f].code.id = <<f, dir[f].code.id[2], dir[f].code.lines>>

(* Neither tool sends a map under an ID it does not have: the server would    *)
(* refuse it, whatever was retried.                                           *)
SentIsAccepted == \A f \in Files : Sending(f) => Accepts(f)

(* Code does not bear the ID of a map that nobody has: the server has it, or  *)
(* it is still in the directory to be sent, or another plugin changed it, or  *)
(* the plugin said that it failed, or it was told not to stamp, or had no key *)
(* to send with.                                                              *)
NothingLost ==
    stage \notin Vite =>
      \A f \in Files : \/ dir[f].code.id \in stored \cup {NoId}
                        \/ Consistent(f, dir[f])
                        \/ f \in blamed \cup touched
                        \/ ~cfg.key \/ ~cfg.stamping

(* A map the plugin made the build write and was to remove is not in the      *)
(* output unless another plugin put it there.                                 *)
KeptPrivate ==
    (stage \in Vite \ {"bundle"} /\ ~Ships) =>
      \A f \in Files : dir[f].map.at = "nowhere" \/ f \in touched

(* A run that ends without a failure leaves no map to deploy, and has left    *)
(* none out.                                                                  *)
CleanIsServed ==
    (stage = "clean" /\ ~cfg.keep) => \A f \in Files : dir[f].map.at = "nowhere"

(* The code, the map beside it and the map the server keeps stay together,    *)
(* through the plugin, the command line tool, and the failures of either.     *)
SourceMapsAgree ==
    MapsItsCode /\ SentIsAccepted /\ NothingLost /\ KeptPrivate /\ CleanIsServed

(* stamp.ts says that `addedLines` "counts every generated line the pair       *)
(* introduces": the map whose ID a file is given is shifted as far as the code. *)
AddedLinesCounted ==
    [][\A f \in Files : (dir[f].code.id = NoId /\ dir'[f].code.id # NoId) =>
          dir'[f].code.id = <<f, dir'[f].code.id[2], dir'[f].code.lines>>]_mapsVars
=============================================================================
