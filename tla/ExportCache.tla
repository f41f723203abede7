---------------------------- MODULE ExportCache ----------------------------
(***************************************************************************)
(* The result exports of one project in one format: the export file, the   *)
(* metadata beside it that says what it was made from, and the manifest of *)
(* result layers that all formats of the project share.  Requests and job  *)
(* threads build the export or find it cached; nothing orders them among   *)
(* each other, nor against a save of the project, which replaces the       *)
(* layer files first and project.json afterwards, in place.  A version of  *)
(* a file stands for its size and mtime.                                   *)
(***************************************************************************)
EXTENDS Naturals

CONSTANTS
  Builders,   \* the calls of build_temporal_results_export_file
  MaxSaves,   \* bounds the saves of the project
  Faults      \* what may go wrong, a subset of FaultKinds

FaultKinds == {"crash", "interrupted_save", "build_error"}

ASSUME SavesAssumption == MaxSaves \in Nat
ASSUME ExportFaultsAssumption == Faults \subseteq FaultKinds

VARIABLES
  json,      \* project.json: its version, and whether it is written to its end
  layers,    \* the version of the layer files
  saving,    \* where the one save at a time is
  manifest,  \* the layer manifest: what it lists was read from and as of
  partial,   \* its temporary file, of one name for all writers
  file,      \* the export file: the versions its content shows
  metadata,  \* the key of the build that wrote the metadata
  pc,        \* where each builder is
  loaded,    \* the versions a builder read
  key,       \* the key a builder computed
  crossed,   \* history: a save and a build met, and no save met none since
  since,     \* history, kept while ~crossed: the project's states during each request
  met        \* history: who ran at the same time as another builder

disk     == <<json, layers, saving>>
cache    == <<manifest, partial, file, metadata>>
builds   == <<pc, loaded, key>>
history  == <<crossed, since, met>>

Versions == 0 .. MaxSaves
Shown    == [json : Versions, layers : Versions]
Manifests == [of : Shown, layers : Versions]
JsonStates == [version : Versions, whole : BOOLEAN]
Keys     == [json : JsonStates, layers : Versions, manifest : Manifests]
Nothing  == {}             \* no such file; a file is the set of its content

Ended   == {"done", "failed", "crashed"}
Window  == {"load", "hydrate", "manifest", "move", "clean", "clean_failed", "stamp",
            "check", "build", "file", "metadata"}
Places  == Window \cup Ended \cup {"start", "answer", "raised"}
Active(b) == pc[b] \notin Ended \cup {"start"}

Go(b, place) == pc' = [pc EXCEPT ![b] = place]
Shown0 == [json |-> 0, layers |-> 0]
NoKey  == [json |-> [version |-> 0, whole |-> TRUE], layers |-> 0,
           manifest |-> [of |-> Shown0, layers |-> 0]]
Now == [json |-> json.version, layers |-> layers]

\* A request begins: from here on it may be answered with what the project was.
Begin(b) ==
  /\ since' = [since EXCEPT ![b] = IF crossed THEN {} ELSE {Now}]
  /\ met' = met \cup (IF \E c \in Builders : Active(c)
                      THEN {b} \cup {c \in Builders : Active(c)} ELSE {})

\* It ends: its variables are gone.
End(b, place) ==
  /\ Go(b, place)
  /\ loaded' = [loaded EXCEPT ![b] = Shown0]
  /\ key' = [key EXCEPT ![b] = NoKey]
  /\ since' = [since EXCEPT ![b] = {}]
  /\ met' = met \ {b}

-----------------------------------------------------------------------------
\* Mutant: the fast lookup does not look at project.json.
CachedByLayers ==
  /\ file # Nothing
  /\ \E k \in metadata, m \in manifest :
       /\ k.layers = layers
       /\ m.layers = layers /\ m = k.manifest

\* _fast_cached_temporal_results_export_file: the versions in the metadata and
\* in the manifest are those on disk now.
Cached ==
  /\ file # Nothing
  /\ \E k \in metadata, m \in manifest :
       /\ k.json = json /\ k.layers = layers
       /\ m.layers = layers /\ m = k.manifest

FastLookup(b) ==
  /\ pc[b] = "start"
  /\ Go(b, IF Cached THEN "answer" ELSE "load")
  /\ Begin(b)
  /\ UNCHANGED <<disk, cache, loaded, key, crossed>>

\* project.json is read; one that a save has only begun does not parse.
Load(b) ==
  /\ pc[b] = "load"
  /\ loaded' = [loaded EXCEPT ![b].json = json.version]
  /\ Go(b, IF json.whole THEN "hydrate" ELSE "raised")
  /\ crossed' = (crossed \/ saving # "idle")
  /\ since' = IF crossed' THEN [c \in Builders |-> {}] ELSE since
  /\ UNCHANGED <<disk, cache, key, met>>

\* The layers that project.json leaves to files are read.
Hydrate(b) ==
  /\ pc[b] = "hydrate"
  /\ loaded' = [loaded EXCEPT ![b].layers = layers]
  /\ Go(b, "manifest")
  /\ UNCHANGED <<disk, cache, key, history>>

\* Mutant: the temporary file must not exist yet.
WriteManifestExclusive(b) ==
  /\ pc[b] = "manifest"
  /\ LET m == [of |-> loaded[b], layers |-> layers] IN
       IF partial # Nothing THEN Go(b, "raised") /\ UNCHANGED <<partial, key>>
       ELSE Go(b, "move") /\ partial' = {m} /\ key' = [key EXCEPT ![b].manifest = m]
  /\ UNCHANGED <<disk, manifest, file, metadata, loaded, history>>

\* _build_or_refresh_export_artifact_manifest, first step of _atomic_write_json.
WriteManifest(b) ==
  /\ pc[b] = "manifest"
  /\ LET m == [of |-> loaded[b], layers |-> layers] IN
       /\ partial' = {m}
       /\ key' = [key EXCEPT ![b].manifest = m]
  /\ Go(b, "move")
  /\ UNCHANGED <<disk, manifest, file, metadata, loaded, history>>

\* tmp_path.replace, which raises when another writer took the file away.
MoveManifest(b) ==
  /\ pc[b] = "move"
  /\ IF partial = Nothing
     THEN Go(b, "clean_failed") /\ UNCHANGED <<manifest, partial>>
     ELSE Go(b, "clean") /\ manifest' = partial /\ partial' = Nothing
  /\ UNCHANGED <<disk, file, metadata, loaded, key, history>>

\* The finally clause: whatever lies there now is removed.
CleanManifest(b) ==
  /\ pc[b] \in {"clean", "clean_failed"}
  /\ partial' = Nothing
  /\ Go(b, IF pc[b] = "clean" THEN "stamp" ELSE "raised")
  /\ UNCHANGED <<disk, manifest, file, metadata, loaded, key, history>>

\* The versions of project.json and of the layers are taken, after the load.
Stamp(b) ==
  /\ pc[b] = "stamp"
  /\ key' = [key EXCEPT ![b].json = json, ![b].layers = layers]
  /\ Go(b, "check")
  /\ UNCHANGED <<disk, cache, loaded, history>>

\* _export_cache_is_valid: the metadata on disk has this key.
Check(b) ==
  /\ pc[b] = "check"
  /\ Go(b, IF file # Nothing /\ metadata = {key[b]} THEN "answer" ELSE "build")
  /\ UNCHANGED <<disk, cache, loaded, key, history>>

\* The builder of the format makes the content of what was loaded, or raises.
Build(b) ==
  /\ pc[b] = "build"
  /\ \/ Go(b, "file")
     \/ "build_error" \in Faults /\ Go(b, "raised")
  /\ UNCHANGED <<disk, cache, loaded, key, history>>

\* Mutant: the metadata is written before the file.
WriteFileLast(b) ==
  /\ pc[b] \in {"file", "metadata"}
  /\ IF pc[b] = "file"
     THEN metadata' = {key[b]} /\ file' = file /\ Go(b, "metadata")
     ELSE file' = {loaded[b]} /\ metadata' = metadata /\ Go(b, "answer")
  /\ UNCHANGED <<disk, manifest, partial, loaded, key, history>>

\* Two files, each replaced in one step under a temporary name of its own.
WriteFile(b) ==
  /\ pc[b] = "file"
  /\ file' = {loaded[b]}
  /\ Go(b, "metadata")
  /\ UNCHANGED <<disk, manifest, partial, metadata, loaded, key, history>>

WriteMetadata(b) ==
  /\ pc[b] = "metadata"
  /\ metadata' = {key[b]}
  /\ Go(b, "answer")
  /\ UNCHANGED <<disk, manifest, partial, file, loaded, key, history>>

BuildStep(b) ==
  \/ FastLookup(b) \/ Load(b) \/ Hydrate(b) \/ WriteManifest(b) \/ MoveManifest(b)
  \/ CleanManifest(b) \/ Stamp(b) \/ Check(b) \/ Build(b) \/ WriteFile(b)
  \/ WriteMetadata(b)

\* _results_export_file_response: the file at the path, as it is by now ...
Answer(b) ==
  /\ pc[b] = "answer"
  /\ End(b, "done")
  /\ UNCHANGED <<disk, cache, crossed>>

\* ... or the error the build raised.
Raise(b) ==
  /\ pc[b] = "raised"
  /\ End(b, "failed")
  /\ UNCHANGED <<disk, cache, crossed>>

Crash(b) ==
  /\ "crash" \in Faults /\ Active(b)
  /\ End(b, "crashed")
  /\ UNCHANGED <<disk, cache, crossed>>

-----------------------------------------------------------------------------
\* What a step of a save means for the requests under way.
SaveTouches ==
  /\ since' = [b \in Builders |->
                 IF Active(b) /\ ~crossed'
                 THEN since[b] \cup {[json |-> json'.version, layers |-> layers']} ELSE {}]
  /\ met' = met

\* _save_project: the layer files that changed ...
SaveLayers ==
  /\ saving = "idle" /\ json.version < MaxSaves
  /\ \/ layers' = layers
     \/ layers < MaxSaves /\ layers' = layers + 1
  /\ saving' = "layers" /\ json' = json
  /\ crossed' = (crossed \/ \E b \in Builders : pc[b] \in Window)
  /\ SaveTouches
  /\ UNCHANGED <<cache, builds>>

\* ... then project.json, opened for writing, which empties it ...
SaveOpens ==
  /\ saving = "layers"
  /\ json' = [version |-> json.version + 1, whole |-> FALSE]
  /\ saving' = "json" /\ layers' = layers
  /\ crossed' = (crossed \/ \E b \in Builders : pc[b] \in Window)
  /\ SaveTouches
  /\ UNCHANGED <<cache, builds>>

\* ... and written.
SaveWrites ==
  /\ saving = "json"
  /\ json' = [json EXCEPT !.whole = TRUE]
  /\ saving' = "idle" /\ layers' = layers
  /\ crossed' = \E b \in Builders : Active(b)
  /\ SaveTouches
  /\ UNCHANGED <<cache, builds>>

Interrupt ==
  /\ "interrupted_save" \in Faults /\ saving # "idle"
  /\ saving' = "idle"
  /\ UNCHANGED <<json, layers, cache, builds, history>>

Save == SaveLayers \/ SaveOpens \/ SaveWrites \/ Interrupt

vars == <<disk, cache, builds, history>>

InitCache ==
  /\ json = [version |-> 0, whole |-> TRUE] /\ layers = 0 /\ saving = "idle"
  /\ manifest = Nothing /\ partial = Nothing /\ file = Nothing /\ metadata = Nothing
  /\ loaded = [b \in Builders |-> Shown0] /\ key = [b \in Builders |-> NoKey]
  /\ crossed = FALSE /\ since = [b \in Builders |-> {}] /\ met = {}

Init == InitCache /\ pc = [b \in Builders |-> "start"]
Next == Save \/ \E b \in Builders : BuildStep(b) \/ Answer(b) \/ Raise(b) \/ Crash(b)
Spec == Init /\ [][Next]_vars

-----------------------------------------------------------------------------
\* A file holds one content, and no metadata lies where no export file does.
TypeOK ==
  /\ json \in JsonStates /\ layers \in Versions
  /\ saving \in {"idle", "layers", "json"}
  /\ manifest \subseteq Manifests /\ partial \subseteq Manifests
  /\ file \subseteq Shown /\ metadata \subseteq Keys
  /\ file = Nothing => metadata = Nothing
  /\ pc \in [Builders -> Places]
  /\ loaded \in [Builders -> Shown] /\ key \in [Builders -> Keys]
  /\ crossed \in BOOLEAN /\ since \in [Builders -> SUBSET Shown] /\ met \subseteq Builders

\* A request is answered with what the project was at some moment between the
\* request and the answer, whatever was cached before, however many builds and
\* saves were cut short - as long as no save met a build.  When one did, the
\* next save that meets none puts the cache right again.
\* (_fast_cached_temporal_results_export_file; the order of the two writes.)
ServedWasCurrent ==
  [][\A b \in Builders :
       pc[b] = "answer" /\ pc'[b] = "done" /\ ~crossed
         => file # Nothing /\ file \subseteq since[b]]_vars

\* A build that no other build and no save met succeeds if its builder does,
\* whatever earlier ones left behind (_atomic_write_json and its fixed name).
AloneSucceeds ==
  [][\A b \in Builders :
       pc[b] \in Window \ {"build"} /\ pc'[b] = "raised" /\ json.whole => b \in met]_vars
=============================================================================
