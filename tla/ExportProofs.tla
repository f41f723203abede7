---------------------------- MODULE ExportProofs ----------------------------
(***************************************************************************)
(* What ExportCache and ExportJobs promise for any builders and any number *)
(* of saves, whatever was cached before: what is cached under the versions *)
(* on disk was made from them, as long as no save met a build (Current),   *)
(* since a save that ends gives project.json a version no key has (Dated). *)
(***************************************************************************)
EXTENDS ExportJobs, TLAPS

Steps     == Places \cup {"marking"}
Keyed     == {"check", "build", "file", "metadata"}
Hydrated  == {"manifest", "move", "clean", "clean_failed", "stamp"} \cup Keyed

CacheTypes ==
  /\ json \in JsonStates /\ layers \in Versions /\ saving \in {"idle", "layers", "json"}
  /\ manifest \subseteq Manifests /\ partial \subseteq Manifests
  /\ file \subseteq Shown /\ metadata \subseteq Keys
  /\ loaded \in [Builders -> Shown] /\ key \in [Builders -> Keys]
  /\ crossed \in BOOLEAN /\ since \in [Builders -> SUBSET Shown] /\ met \subseteq Builders

Filed ==
  /\ file = Nothing => metadata = Nothing
  /\ \A b \in Builders : pc[b] \in {"metadata", "answer"} => file # Nothing

Saved ==
  /\ saving = "layers" => json.version < MaxSaves
  /\ saving = "json" => ~json.whole

CacheInv == CacheTypes /\ Filed /\ Saved /\ pc \in [Builders -> Steps]

-----------------------------------------------------------------------------
\* A key never runs ahead of the disk.
Behind(k) ==
  /\ k.json.version <= json.version /\ k.layers <= layers
  /\ k.json.version = json.version /\ k.json.whole => json.whole

Dated ==
  /\ \A k \in metadata : Behind(k)
  /\ \A b \in Builders : pc[b] \in Keyed => Behind(key[b])

\* As long as no save met a build.
Current ==
  ~crossed =>
    /\ \A b \in Builders :
         /\ Active(b) => Now \in since[b]
         /\ pc[b] \in {"hydrate"} \cup Hydrated => saving = "idle" /\ loaded[b].json = json.version
         /\ pc[b] \in Hydrated => loaded[b] = Now
         /\ pc[b] \in Keyed => key[b].json = json /\ key[b].layers = layers
         /\ pc[b] = "metadata" => file = {Now}
         /\ pc[b] = "answer" => file \subseteq since[b]
    /\ \A k \in metadata : k.json = json /\ k.layers = layers => file \subseteq {Now}

\* A builder that met no other.
Single ==
  \A b \in Builders \ met :
    /\ Active(b) => \A c \in Builders : Active(c) => c = b
    /\ pc[b] = "move" => partial # Nothing
    /\ pc[b] # "clean_failed"

-----------------------------------------------------------------------------
LEMMA PlainTypes ==
  /\ Shown0 \in Shown /\ NoKey \in Keys
  /\ Places \subseteq Steps /\ Ended \subseteq Steps /\ Nothing = {}
  /\ Window \cap (Ended \cup {"start", "answer", "raised", "marking"}) = {}
  BY SavesAssumption DEF Shown0, NoKey, Shown, Keys, JsonStates, Manifests, Versions, Places, Steps,
     Ended, Window, Nothing

LEMMA CacheInit == Init => CacheInv /\ Dated /\ Current /\ Single
<1> SUFFICES ASSUME Init PROVE CacheInv /\ Dated /\ Current /\ Single
  OBVIOUS
<1> USE DEF Init, InitCache
<1>1. json \in JsonStates /\ layers \in Versions
  BY SavesAssumption DEF JsonStates, Versions
<1>2. \A b \in Builders : pc[b] = "start" /\ ~Active(b)
  BY DEF Active
<1>3. pc \in [Builders -> Steps]
  BY DEF Steps, Places
<1>. HIDE DEF Shown0, NoKey
<1>4. loaded \in [Builders -> Shown] /\ key \in [Builders -> Keys]
  BY PlainTypes
<1>5. CacheInv
  BY <1>1, <1>2, <1>3, <1>4 DEF CacheInv, CacheTypes, Filed, Saved, Nothing
<1>6. Dated /\ Current /\ Single
  BY <1>2 DEF Dated, Current, Single, Keyed, Hydrated, Nothing
<1>. QED
  BY <1>5, <1>6

\* What is so of the record a builder keeps while it changes one part of it.
LEMMA RecordParts ==
  ASSUME CacheTypes, NEW b \in Builders
  PROVE  /\ loaded[b] \in Shown /\ key[b] \in Keys /\ since[b] \in SUBSET Shown
         /\ Now \in Shown
  BY DEF CacheTypes, Now, JsonStates, Shown

LEMMA EndTypes ==
  ASSUME CacheInv, NEW b \in Builders, NEW place \in Ended, End(b, place), UNCHANGED <<disk, cache, crossed>>
  PROVE  CacheInv'
<1>1. CacheTypes'
  <2>. HIDE DEF Shown0, NoKey
  <2>. QED
    BY PlainTypes DEF End, CacheInv, CacheTypes, disk, cache
<1>2. pc' \in [Builders -> Steps] /\ Filed'
  BY PlainTypes DEF End, Go, CacheInv, Filed, disk, cache, Ended
<1>. QED
  BY <1>1, <1>2 DEF CacheInv, Saved, disk

LEMMA BuildTypes ==
  ASSUME CacheInv, NEW b \in Builders, BuildStep(b)
  PROVE  CacheInv'
<1> USE DEF disk, cache, builds, history, Go
<1>0. /\ CacheTypes /\ Filed /\ Saved /\ pc \in [Builders -> Steps]
      /\ loaded[b] \in Shown /\ key[b] \in Keys /\ Now \in Shown
  BY RecordParts DEF CacheInv
<1>1. CASE FastLookup(b)
  <2>1. Cached => file # Nothing
    BY DEF Cached
  <2>2. since' \in [Builders -> SUBSET Shown] /\ met' \subseteq Builders
    BY <1>0, <1>1 DEF FastLookup, Begin, CacheTypes
  <2>3. pc' \in [Builders -> Steps] /\ Filed'
    BY <1>0, <1>1, <2>1 DEF FastLookup, Filed, Steps, Places, Window
  <2>. QED
    BY <1>0, <1>1, <2>2, <2>3 DEF FastLookup, CacheInv, CacheTypes, Saved
<1>2. CASE Load(b)
  <2>1. [loaded[b] EXCEPT !.json = json.version] \in Shown
    BY <1>0 DEF Shown, CacheTypes, JsonStates
  <2>2. loaded' \in [Builders -> Shown]
    BY <1>0, <1>2, <2>1 DEF Load, CacheTypes
  <2>3. since' \in [Builders -> SUBSET Shown] /\ crossed' \in BOOLEAN
    BY <1>0, <1>2 DEF Load, CacheTypes
  <2>4. pc' \in [Builders -> Steps] /\ Filed'
    BY <1>0, <1>2 DEF Load, Filed, Steps, Places, Window
  <2>. QED
    BY <1>0, <1>2, <2>2, <2>3, <2>4 DEF Load, CacheInv, CacheTypes, Saved
<1>3. CASE Hydrate(b)
  <2>1. [loaded[b] EXCEPT !.layers = layers] \in Shown
    BY <1>0 DEF Shown, CacheTypes
  <2>2. loaded' \in [Builders -> Shown]
    BY <1>0, <1>3, <2>1 DEF Hydrate, CacheTypes
  <2>4. pc' \in [Builders -> Steps] /\ Filed'
    BY <1>0, <1>3 DEF Hydrate, Filed, Steps, Places, Window
  <2>. QED
    BY <1>0, <1>3, <2>2, <2>4 DEF Hydrate, CacheInv, CacheTypes, Saved
<1>4. CASE WriteManifest(b)
  <2> DEFINE m == [of |-> loaded[b], layers |-> layers]
  <2>1. m \in Manifests
    BY <1>0 DEF Manifests, CacheTypes
  <2>5. partial' = {m} /\ key' = [key EXCEPT ![b].manifest = m]
    BY <1>4 DEF WriteManifest
  <2>. HIDE DEF m
  <2>2. [key[b] EXCEPT !.manifest = m] \in Keys
    BY <1>0, <2>1 DEF Keys
  <2>3. key' \in [Builders -> Keys] /\ partial' \subseteq Manifests
    BY <1>0, <2>1, <2>2, <2>5 DEF CacheTypes
  <2>4. pc' \in [Builders -> Steps] /\ Filed'
    BY <1>0, <1>4 DEF WriteManifest, Filed, Steps, Places, Window
  <2>. QED
    BY <1>0, <1>4, <2>3, <2>4 DEF WriteManifest, CacheInv, CacheTypes, Saved
<1>5. CASE MoveManifest(b) \/ CleanManifest(b)
  <2>1. manifest' \subseteq Manifests /\ partial' \subseteq Manifests
    BY <1>0, <1>5 DEF MoveManifest, CleanManifest, CacheTypes, Nothing
  <2>2. pc' \in [Builders -> Steps] /\ Filed'
    BY <1>0, <1>5 DEF MoveManifest, CleanManifest, Filed, Steps, Places, Window
  <2>. QED
    BY <1>0, <1>5, <2>1, <2>2 DEF MoveManifest, CleanManifest, CacheInv, CacheTypes, Saved
<1>6. CASE Stamp(b)
  <2>1. [key[b] EXCEPT !.json = json, !.layers = layers] \in Keys
    BY <1>0 DEF Keys, CacheTypes
  <2>2. key' \in [Builders -> Keys]
    BY <1>0, <1>6, <2>1 DEF Stamp, CacheTypes
  <2>4. pc' \in [Builders -> Steps] /\ Filed'
    BY <1>0, <1>6 DEF Stamp, Filed, Steps, Places, Window
  <2>. QED
    BY <1>0, <1>6, <2>2, <2>4 DEF Stamp, CacheInv, CacheTypes, Saved
<1>7. CASE Check(b) \/ Build(b)
  <2>1. pc' \in [Builders -> Steps] /\ Filed'
    BY <1>0, <1>7 DEF Check, Build, Filed, Steps, Places, Window
  <2>. QED
    BY <1>0, <1>7, <2>1 DEF Check, Build, CacheInv, CacheTypes, Saved
<1>8. CASE WriteFile(b) \/ WriteMetadata(b)
  <2>1. file' \subseteq Shown /\ metadata' \subseteq Keys
    BY <1>0, <1>8 DEF WriteFile, WriteMetadata, CacheTypes
  <2>2. pc' \in [Builders -> Steps] /\ Filed'
    BY <1>0, <1>8 DEF WriteFile, WriteMetadata, Filed, Steps, Places, Window, Nothing
  <2>. QED
    BY <1>0, <1>8, <2>1, <2>2 DEF WriteFile, WriteMetadata, CacheInv, CacheTypes, Saved
<1>. QED
  BY <1>1, <1>2, <1>3, <1>4, <1>5, <1>6, <1>7, <1>8 DEF BuildStep

LEMMA SaveTypes ==
  ASSUME CacheInv, Save
  PROVE  CacheInv'
<1> USE DEF disk, cache, builds, history
<1>0. /\ CacheTypes /\ Filed /\ Saved /\ pc \in [Builders -> Steps]
      /\ json \in JsonStates /\ json.version \in Versions /\ layers \in Versions
  BY DEF CacheInv, CacheTypes, JsonStates
<1>1. json' \in JsonStates /\ layers' \in Versions /\ saving' \in {"idle", "layers", "json"} /\ Saved'
  <2>1. CASE SaveLayers
    BY <1>0, <2>1, SavesAssumption DEF SaveLayers, Versions, Saved
  <2>2. CASE SaveOpens
    BY <1>0, <2>2, SavesAssumption DEF SaveOpens, Versions, Saved, JsonStates
  <2>3. CASE SaveWrites
    BY <1>0, <2>3 DEF SaveWrites, Saved, JsonStates
  <2>4. CASE Interrupt
    BY <1>0, <2>4 DEF Interrupt, Saved
  <2>. QED
    BY <2>1, <2>2, <2>3, <2>4 DEF Save
<1>2. crossed' \in BOOLEAN
  BY <1>0 DEF Save, SaveLayers, SaveOpens, SaveWrites, Interrupt, CacheTypes
<1>3. [json |-> json'.version, layers |-> layers'] \in Shown
  BY <1>1 DEF JsonStates, Shown
<1>4. since' \in [Builders -> SUBSET Shown] /\ met' = met
  BY <1>0, <1>3 DEF Save, SaveLayers, SaveOpens, SaveWrites, Interrupt, SaveTouches, CacheTypes
<1>5. UNCHANGED <<manifest, partial, file, metadata, pc, loaded, key>>
  BY DEF Save, SaveLayers, SaveOpens, SaveWrites, Interrupt
<1>. QED
  BY <1>0, <1>1, <1>2, <1>4, <1>5 DEF CacheInv, CacheTypes, Filed

LEMMA CacheStep == CacheInv /\ [Next]_vars => CacheInv'
<1>1. ASSUME CacheInv, UNCHANGED vars PROVE CacheInv'
  BY <1>1 DEF vars, disk, cache, builds, history, CacheInv, CacheTypes, Filed, Saved
<1>2. ASSUME CacheInv, NEW b \in Builders, Answer(b) \/ Raise(b) \/ Crash(b) PROVE CacheInv'
  BY <1>2, EndTypes DEF Answer, Raise, Crash, Ended
<1>. QED
  BY <1>1, <1>2, BuildTypes, SaveTypes DEF Next

(* The variables of the cache keep to their ranges, and no metadata lies     *)
(* where no export file does.                                               *)
THEOREM CacheTypesHold == Spec => []TypeOK
<1> DEFINE Inv == CacheInv /\ pc \in [Builders -> Places]
<1>1. Init => Inv
  BY CacheInit DEF Init, InitCache, Places
<1>2. Inv /\ [Next]_vars => Inv'
  <2> SUFFICES ASSUME Inv, [Next]_vars PROVE pc' \in [Builders -> Places]
    BY CacheStep
  <2>1. ASSUME NEW b \in Builders, BuildStep(b) PROVE pc' \in [Builders -> Places]
    BY <2>1 DEF BuildStep, FastLookup, Load, Hydrate, WriteManifest, MoveManifest, CleanManifest,
       Stamp, Check, Build, WriteFile, WriteMetadata, Go, Places, Window
  <2>2. ASSUME NEW b \in Builders, Answer(b) \/ Raise(b) \/ Crash(b) PROVE pc' \in [Builders -> Places]
    BY <2>2 DEF Answer, Raise, Crash, End, Go, Places, Ended
  <2>3. CASE Save \/ UNCHANGED vars
    BY <2>3 DEF Save, SaveLayers, SaveOpens, SaveWrites, Interrupt, builds, vars
  <2>. QED
    BY <2>1, <2>2, <2>3 DEF Next
<1>3. Inv => TypeOK
  BY DEF CacheInv, CacheTypes, Filed, TypeOK
<1>. HIDE DEF Inv
<1>. QED
  BY <1>1, <1>2, <1>3, PTL DEF Spec

-----------------------------------------------------------------------------
(* Keys and the disk.                                                       *)

LEMMA DatedStep == CacheInv /\ Dated /\ [Next]_vars => Dated'
<1> SUFFICES ASSUME CacheInv, Dated, [Next]_vars PROVE Dated'
  OBVIOUS
<1> USE DEF disk, cache, builds, history, Go
<1>0. /\ pc \in [Builders -> Steps] /\ key \in [Builders -> Keys] /\ metadata \subseteq Keys
      /\ json \in JsonStates /\ layers \in Nat /\ json.version \in Nat
      /\ \A k \in Keys : k.json.version \in Nat /\ k.layers \in Nat
  BY DEF CacheInv, CacheTypes, Versions, JsonStates, Keys
\* Keys fall behind, they do not catch up.
<1>1. CASE Save \/ UNCHANGED vars
  <2>1. \A k \in Keys : Behind(k) => Behind(k)'
    <3>1. CASE SaveLayers
      BY <1>0, <3>1 DEF SaveLayers, Behind
    <3>2. CASE SaveOpens
      BY <1>0, <3>2 DEF SaveOpens, Behind
    <3>3. CASE SaveWrites
      BY <1>0, <3>3 DEF SaveWrites, Behind, JsonStates
    <3>4. CASE Interrupt \/ UNCHANGED vars
      BY <3>4 DEF Interrupt, Behind, vars
    <3>. QED
      BY <1>1, <3>1, <3>2, <3>3, <3>4 DEF Save
  <2>2. UNCHANGED <<metadata, pc, key>>
    BY <1>1 DEF Save, SaveLayers, SaveOpens, SaveWrites, Interrupt, vars
  <2>. QED
    BY <1>0, <2>1, <2>2 DEF Dated
<1>2. ASSUME NEW b \in Builders, Answer(b) \/ Raise(b) \/ Crash(b) PROVE Dated'
  <2>1. /\ UNCHANGED <<json, layers, metadata>> /\ pc'[b] \in Ended
        /\ \A c \in Builders : c # b => pc'[c] = pc[c] /\ key'[c] = key[c]
    BY <1>0, <1>2 DEF Answer, Raise, Crash, End, Ended
  <2>. QED
    BY <2>1 DEF Dated, Behind, Keyed, Ended
<1>3. ASSUME NEW b \in Builders, BuildStep(b) PROVE Dated'
  <2>0. UNCHANGED <<json, layers>>
    BY <1>3 DEF BuildStep, FastLookup, Load, Hydrate, WriteManifest, MoveManifest, CleanManifest,
       Stamp, Check, Build, WriteFile, WriteMetadata
  <2>1. \A c \in Builders : c # b => pc'[c] = pc[c] /\ key'[c] = key[c]
    BY <1>0, <1>3 DEF BuildStep, FastLookup, Load, Hydrate, WriteManifest, MoveManifest,
       CleanManifest, Stamp, Check, Build, WriteFile, WriteMetadata
  <2>2. CASE Stamp(b)
    <3>1. key'[b].json = json /\ key'[b].layers = layers
      BY <1>0, <2>2 DEF Stamp, Keys
    <3>. QED
      BY <1>0, <2>0, <2>1, <2>2, <3>1 DEF Stamp, Dated, Behind
  <2>3. CASE Check(b) \/ Build(b) \/ WriteFile(b)
    BY <1>0, <2>0, <2>1, <2>3 DEF Check, Build, WriteFile, Dated, Behind, Keyed
  <2>4. CASE WriteMetadata(b)
    BY <1>0, <2>0, <2>1, <2>4 DEF WriteMetadata, Dated, Behind, Keyed
  <2>5. CASE FastLookup(b) \/ Load(b) \/ Hydrate(b) \/ WriteManifest(b) \/ MoveManifest(b) \/ CleanManifest(b)
    <3>1. metadata' = metadata /\ pc'[b] \notin Keyed
      BY <1>0, <2>5 DEF FastLookup, Load, Hydrate, WriteManifest, MoveManifest, CleanManifest, Keyed
    <3>. QED
      BY <2>0, <2>1, <3>1 DEF Dated, Behind
  <2>. QED
    BY <1>3, <2>2, <2>3, <2>4, <2>5 DEF BuildStep
<1>. QED
  BY <1>1, <1>2, <1>3 DEF Next

-----------------------------------------------------------------------------
(* Builders that meet no other.                                             *)

LEMMA SingleStep == CacheInv /\ Single /\ [Next]_vars => Single'
<1> SUFFICES ASSUME CacheInv, Single, [Next]_vars PROVE Single'
  OBVIOUS
<1> USE DEF disk, cache, builds, history, Go
<1>0. pc \in [Builders -> Steps] /\ met \subseteq Builders
  BY DEF CacheInv, CacheTypes
<1>1. CASE Save \/ UNCHANGED vars
  BY <1>1 DEF Save, SaveLayers, SaveOpens, SaveWrites, Interrupt, SaveTouches, vars, Single, Active
<1>2. ASSUME NEW b \in Builders, Answer(b) \/ Raise(b) \/ Crash(b) PROVE Single'
  <2>1. /\ pc'[b] \in Ended /\ partial' = partial /\ met' = met \ {b}
        /\ \A c \in Builders : c # b => pc'[c] = pc[c]
    BY <1>0, <1>2 DEF Answer, Raise, Crash, End, Ended
  <2>2. ~Active(b)' /\ pc'[b] \notin {"move", "clean_failed"}
    BY <2>1 DEF Active, Ended
  <2>3. ASSUME NEW c \in Builders, c # b PROVE Active(c)' <=> Active(c)
    BY <2>1, <2>3 DEF Active
  <2>. QED
    BY <2>1, <2>2, <2>3 DEF Single
<1>3. ASSUME NEW b \in Builders, FastLookup(b) PROVE Single'
  <2>1. /\ pc[b] = "start" /\ pc'[b] \in {"answer", "load"} /\ partial' = partial
        /\ \A c \in Builders : c # b => pc'[c] = pc[c]
        /\ met' = met \cup (IF \E c \in Builders : Active(c)
                            THEN {b} \cup {c \in Builders : Active(c)} ELSE {})
    BY <1>0, <1>3 DEF FastLookup, Begin
  <2>2. ASSUME NEW c \in Builders, c # b PROVE Active(c)' <=> Active(c)
    BY <2>1, <2>2 DEF Active
  <2>. QED
    BY <2>1, <2>2 DEF Single
<1>4. ASSUME NEW b \in Builders, BuildStep(b), ~FastLookup(b) PROVE Single'
  <2>1. /\ Active(b) /\ Active(b)' /\ met' = met
        /\ \A c \in Builders : c # b => pc'[c] = pc[c]
    BY <1>0, <1>4 DEF BuildStep, Load, Hydrate, WriteManifest, MoveManifest, CleanManifest,
       Stamp, Check, Build, WriteFile, WriteMetadata, Active, Ended
  <2>2. ASSUME NEW c \in Builders PROVE Active(c)' <=> Active(c)
    BY <2>1 DEF Active
  <2>3. \A c \in Builders \ met : c # b => ~Active(c)
    BY <2>1 DEF Single
  <2>4. ASSUME b \notin met PROVE (pc'[b] = "move" => partial' # Nothing) /\ pc'[b] # "clean_failed"
    <3>1. pc[b] = "move" => partial # Nothing
      BY <2>4 DEF Single
    <3>2. pc[b] # "clean_failed"
      BY <2>4 DEF Single
    <3>3. CASE WriteManifest(b)
      BY <1>0, <3>3 DEF WriteManifest, Nothing
    <3>4. CASE MoveManifest(b)
      BY <1>0, <3>1, <3>4 DEF MoveManifest
    <3>5. CASE CleanManifest(b)
      BY <1>0, <3>2, <3>5 DEF CleanManifest
    <3>. QED
      BY <1>0, <1>4, <3>3, <3>4, <3>5 DEF BuildStep, Load, Hydrate, Stamp, Check, Build, WriteFile,
         WriteMetadata
  <2>5. ASSUME NEW c \in Builders \ met, c # b
        PROVE  (pc'[c] = "move" => partial' # Nothing) /\ pc'[c] # "clean_failed"
    BY <2>1, <2>3, <2>5 DEF Active, Ended
  <2>. QED
    BY <2>1, <2>2, <2>4, <2>5 DEF Single
<1>. QED
  BY <1>1, <1>2, <1>3, <1>4 DEF Next

(* A build that no other build met does not fail for what others left: only *)
(* its builder, or a project.json cut short, makes it fail.                 *)
THEOREM AloneBuildsSucceed == Spec => AloneSucceeds
<1> DEFINE Inv == CacheInv /\ Single
<1> DEFINE Good == \A b \in Builders :
       pc[b] \in Window \ {"build"} /\ pc'[b] = "raised" /\ json.whole => b \in met
<1>1. Init => Inv
  BY CacheInit
<1>2. Inv /\ [Next]_vars => Inv'
  BY CacheStep, SingleStep
<1>3. Inv /\ [Next]_vars => [Good]_vars
  <2> SUFFICES ASSUME Inv, Next, NEW b \in Builders, pc[b] \in Window \ {"build"},
                      pc'[b] = "raised", json.whole
               PROVE  b \in met
    BY DEF vars
  <2>0. pc \in [Builders -> Steps] /\ pc[b] # "raised"
    BY DEF CacheInv, Window
  <2>1. CASE Save
    BY <2>0, <2>1 DEF Save, SaveLayers, SaveOpens, SaveWrites, Interrupt, builds
  <2>2. ASSUME NEW c \in Builders, Answer(c) \/ Raise(c) \/ Crash(c) PROVE FALSE
    BY <2>0, <2>2 DEF Answer, Raise, Crash, End, Go
  <2>3. ASSUME NEW c \in Builders, BuildStep(c) PROVE b \in met
    <3>1. c = b
      BY <2>0, <2>3 DEF BuildStep, FastLookup, Load, Hydrate, WriteManifest, MoveManifest,
         CleanManifest, Stamp, Check, Build, WriteFile, WriteMetadata, Go
    <3>2. pc[b] = "clean_failed"
      BY <2>0, <2>3, <3>1 DEF BuildStep, FastLookup, Load, Hydrate, WriteManifest, MoveManifest,
         CleanManifest, Stamp, Check, Build, WriteFile, WriteMetadata, Go
    <3>. QED
      BY <3>2 DEF Single
  <2>. QED
    BY <2>1, <2>2, <2>3 DEF Next
<1>. QED
  BY <1>1, <1>2, <1>3, PTL DEF Spec, AloneSucceeds

-----------------------------------------------------------------------------
(* What is cached under the versions on disk was made from them.            *)

CurrentAt(b) ==
  /\ Active(b) => Now \in since[b]
  /\ pc[b] \in {"hydrate"} \cup Hydrated => saving = "idle" /\ loaded[b].json = json.version
  /\ pc[b] \in Hydrated => loaded[b] = Now
  /\ pc[b] \in Keyed => key[b].json = json /\ key[b].layers = layers
  /\ pc[b] = "metadata" => file = {Now}
  /\ pc[b] = "answer" => file \subseteq since[b]

CurrentCache == \A k \in metadata : k.json = json /\ k.layers = layers => file \subseteq {Now}

LEMMA CurrentParts == Current <=> (~crossed => CurrentCache /\ \A b \in Builders : CurrentAt(b))
  BY DEF Current, CurrentAt, CurrentCache

LEMMA Places3 ==
  /\ Keyed \subseteq Hydrated /\ Hydrated \subseteq Window
  /\ "load" \notin Hydrated /\ "hydrate" \notin Hydrated
  /\ \A b \in Builders : pc[b] \in Window \cup {"answer", "raised"} => Active(b)
  BY DEF Keyed, Hydrated, Window, Active, Ended

(* A step of one builder changes nothing of the project.                    *)
LEMMA CurrentMoves ==
  ASSUME Current, NEW b \in Builders, UNCHANGED <<json, layers, saving, crossed>>,
         \A c \in Builders : c # b => /\ pc'[c] = pc[c] /\ loaded'[c] = loaded[c]
                                      /\ key'[c] = key[c] /\ since'[c] = since[c],
         file' = file \/ (~crossed => file' = {Now}),
         ~crossed => CurrentAt(b)' /\ CurrentCache'
  PROVE  Current'
<1>1. Now' = Now
  BY DEF Now
<1>2. ASSUME ~crossed, NEW c \in Builders, c # b PROVE CurrentAt(c)'
  <2>1. CurrentAt(c)
    BY <1>2, CurrentParts
  <2>2. pc[c] = "answer" => Active(c)
    BY Places3
  <2>. QED
    BY <1>1, <1>2, <2>1, <2>2 DEF CurrentAt, Active
<1>. QED
  BY <1>2 DEF Current, CurrentAt, CurrentCache

LEMMA CurrentSave ==
  ASSUME CacheInv, Dated, Current, Save
  PROVE  Current'
<1> USE DEF disk, cache, builds, history
<1>0. /\ metadata \subseteq Keys /\ json \in JsonStates /\ layers \in Nat /\ json.version \in Nat
      /\ saving = "json" => ~json.whole
      /\ \A k \in Keys : k.layers \in Nat /\ k.json.version \in Nat
      /\ since \in [Builders -> SUBSET Shown]
  BY DEF CacheInv, CacheTypes, Saved, JsonStates, Versions, Keys
<1>1. UNCHANGED <<metadata, file, pc, loaded, key>>
  BY DEF Save, SaveLayers, SaveOpens, SaveWrites, Interrupt
<1>2. CASE Interrupt
  BY <1>1, <1>2 DEF Interrupt, Current, Active, Now
<1>3. CASE SaveLayers \/ SaveOpens \/ SaveWrites
  <2> SUFFICES ASSUME ~crossed' PROVE CurrentCache' /\ \A b \in Builders : CurrentAt(b)'
    BY DEF Current, CurrentAt, CurrentCache
  <2>1. \A b \in Builders : pc[b] \notin Window
    BY <1>3, Places3 DEF SaveLayers, SaveOpens, SaveWrites
  <2>2. \A b \in Builders : Active(b) => ~crossed /\ Now' \in since'[b] /\ since[b] \subseteq since'[b]
    <3>1. \A b \in Builders : Active(b) => ~crossed
      BY <1>3 DEF SaveLayers, SaveOpens, SaveWrites
    <3>2. since' = [b \in Builders |->
                     IF Active(b) /\ ~crossed'
                     THEN since[b] \cup {[json |-> json'.version, layers |-> layers']} ELSE {}]
      BY <1>3 DEF SaveLayers, SaveOpens, SaveWrites, SaveTouches
    <3>. QED
      BY <3>1, <3>2 DEF Now
  <2>3. ASSUME NEW b \in Builders PROVE CurrentAt(b)'
    <3>1. pc'[b] \notin Window /\ (Active(b)' <=> Active(b))
      BY <1>1, <2>1 DEF Active
    <3>2. pc[b] = "answer" => Active(b) /\ file \subseteq since[b]
      BY <2>2, Places3 DEF Current
    <3>3. pc'[b] \notin {"hydrate", "metadata"} \cup Hydrated \cup Keyed
      BY <3>1, Places3 DEF Window
    <3>4. file' \subseteq since'[b] \/ pc'[b] # "answer"
      BY <1>1, <2>2, <3>2
    <3>. QED
      BY <2>2, <3>1, <3>3, <3>4 DEF CurrentAt
  <2>4. ASSUME NEW k \in metadata, k.json = json', k.layers = layers' PROVE file \subseteq {Now'}
    <3>1. Behind(k) /\ k \in Keys
      BY <1>0 DEF Dated
    <3>2. CASE SaveLayers
      <4>1. json' = json /\ layers' = layers
        BY <1>0, <2>4, <3>1, <3>2 DEF SaveLayers, Behind
      <4>2. ~crossed
        BY <3>2 DEF SaveLayers
      <4>. QED
        BY <2>4, <4>1, <4>2 DEF Current, Now
    <3>3. CASE SaveOpens
      <4>1. json'.version = json.version + 1
        BY <3>3 DEF SaveOpens
      <4>. QED
        BY <1>0, <2>4, <3>1, <4>1 DEF Behind
    <3>4. CASE SaveWrites
      <4>1. ~json.whole /\ json'.whole /\ json'.version = json.version
        BY <1>0, <3>4 DEF SaveWrites, JsonStates
      <4>. QED
        BY <2>4, <3>1, <4>1 DEF Behind
    <3>. QED
      BY <1>3, <3>2, <3>3, <3>4
  <2>. QED
    BY <1>1, <2>3, <2>4 DEF CurrentCache
<1>. QED
  BY <1>2, <1>3 DEF Save

LEMMA CurrentBuild ==
  ASSUME CacheInv, Current, NEW b \in Builders, BuildStep(b)
  PROVE  Current'
<1> USE DEF disk, cache, builds, history, Go
<1>0. /\ pc \in [Builders -> Steps] /\ loaded \in [Builders -> Shown] /\ key \in [Builders -> Keys]
      /\ since \in [Builders -> SUBSET Shown] /\ loaded[b] \in Shown /\ key[b] \in Keys
  BY RecordParts DEF CacheInv, CacheTypes
<1>1. Now' = Now /\ UNCHANGED <<json, layers, saving>>
  BY DEF Now, BuildStep, FastLookup, Load, Hydrate, WriteManifest, MoveManifest, CleanManifest,
     Stamp, Check, Build, WriteFile, WriteMetadata
<1>2. \A c \in Builders : c # b => pc'[c] = pc[c] /\ loaded'[c] = loaded[c] /\ key'[c] = key[c]
  BY <1>0 DEF BuildStep, FastLookup, Load, Hydrate, WriteManifest, MoveManifest, CleanManifest,
     Stamp, Check, Build, WriteFile, WriteMetadata
<1>c. ~crossed => CurrentCache /\ CurrentAt(b)
  BY CurrentParts
<1>3. CASE FastLookup(b)
  <2>1. /\ UNCHANGED <<crossed, file, metadata>> /\ pc'[b] = (IF Cached THEN "answer" ELSE "load")
        /\ since'[b] = (IF crossed THEN {} ELSE {Now})
        /\ \A c \in Builders : c # b => since'[c] = since[c]
    BY <1>0, <1>3 DEF FastLookup, Begin
  <2>2. ~crossed /\ Cached => file \subseteq {Now}
    BY <1>c DEF Cached, CurrentCache
  <2>3. pc'[b] \notin {"hydrate", "metadata"} \cup Hydrated \cup Keyed
    BY <2>1 DEF Hydrated, Keyed
  <2>4. ~crossed => CurrentAt(b)'
    <3>1. pc'[b] = "answer" => Cached
      BY <2>1
    <3>. QED
      BY <1>1, <2>1, <2>2, <2>3, <3>1 DEF CurrentAt
  <2>5. ~crossed => CurrentCache'
    BY <1>c, <1>1, <2>1 DEF CurrentCache
  <2>. QED
    BY <1>1, <1>2, <2>1, <2>4, <2>5, CurrentMoves
<1>4. CASE Load(b)
  <2> SUFFICES ASSUME ~crossed' PROVE Current'
    BY DEF Current
  <2>0. ~crossed /\ saving = "idle" /\ since' = since
    BY <1>4 DEF Load
  <2>6. crossed \in BOOLEAN /\ crossed' \in BOOLEAN
    BY BuildTypes DEF CacheInv, CacheTypes
  <2>7. UNCHANGED crossed
    BY <2>0, <2>6
  <2>1. /\ UNCHANGED <<since, file, metadata>> /\ saving = "idle"
        /\ pc[b] = "load" /\ pc'[b] \in {"hydrate", "raised"}
    BY <1>0, <1>4, <2>0 DEF Load
  <2>2. loaded'[b].json = json.version
    BY <1>0, <1>4 DEF Load, Shown
  <2>3. Active(b) /\ pc'[b] \notin {"metadata", "answer"} \cup Hydrated \cup Keyed
    BY <2>1 DEF Active, Ended, Hydrated, Keyed
  <2>4. CurrentAt(b)'
    BY <1>1, <1>c, <2>0, <2>1, <2>2, <2>3 DEF CurrentAt
  <2>5. CurrentCache'
    BY <1>c, <1>1, <2>0, <2>1 DEF CurrentCache
  <2>. QED
    BY <1>1, <1>2, <2>1, <2>4, <2>5, <2>7, CurrentMoves
<1>5. CASE /\ ~FastLookup(b) /\ ~Load(b)
  <2>1. UNCHANGED <<crossed, since, met>> /\ Active(b)
    BY <1>0, <1>5 DEF BuildStep, Hydrate, WriteManifest, MoveManifest, CleanManifest,
       Stamp, Check, Build, WriteFile, WriteMetadata, Active, Ended
  <2>2. CASE Hydrate(b)
    <3>1. /\ pc[b] = "hydrate" /\ pc'[b] = "manifest" /\ UNCHANGED <<file, metadata>>
          /\ loaded'[b] = [loaded[b] EXCEPT !.layers = layers]
      BY <1>0, <2>2 DEF Hydrate
    <3>2. loaded'[b].json = loaded[b].json /\ loaded'[b].layers = layers /\ loaded'[b] \in Shown
      BY <1>0, <3>1, RecordParts DEF Shown, CacheInv, CacheTypes
    <3>3. ~crossed => loaded'[b] = Now
      BY <1>c, <3>1, <3>2 DEF CurrentAt, Shown, Now
    <3>4. ~crossed => CurrentAt(b)'
      BY <1>1, <1>c, <2>1, <3>1, <3>2, <3>3 DEF CurrentAt, Hydrated, Keyed
    <3>5. ~crossed => CurrentCache'
      BY <1>c, <1>1, <3>1 DEF CurrentCache
    <3>. QED
      BY <1>1, <1>2, <2>1, <3>1, <3>4, <3>5, CurrentMoves
  <2>3. CASE WriteManifest(b) \/ MoveManifest(b) \/ CleanManifest(b)
    <3>1. /\ pc[b] \in Hydrated /\ pc'[b] \in {"move", "clean", "clean_failed", "stamp", "raised"}
          /\ UNCHANGED <<file, metadata, loaded>>
      BY <1>0, <2>3 DEF WriteManifest, MoveManifest, CleanManifest, Hydrated
    <3>2. pc'[b] \notin {"hydrate", "metadata", "answer"} \cup Keyed
      BY <3>1 DEF Keyed
    <3>3. ~crossed => CurrentAt(b)'
      BY <1>1, <1>c, <2>1, <3>1, <3>2 DEF CurrentAt
    <3>4. ~crossed => CurrentCache'
      BY <1>c, <1>1, <3>1 DEF CurrentCache
    <3>. QED
      BY <1>1, <1>2, <2>1, <3>1, <3>3, <3>4, CurrentMoves
  <2>4. CASE Stamp(b)
    <3>1. /\ pc[b] = "stamp" /\ pc'[b] = "check" /\ UNCHANGED <<file, metadata, loaded>>
          /\ key'[b].json = json /\ key'[b].layers = layers
      BY <1>0, <2>4 DEF Stamp, Keys
    <3>3. ~crossed => CurrentAt(b)'
      BY <1>1, <1>c, <2>1, <3>1 DEF CurrentAt, Hydrated, Keyed
    <3>4. ~crossed => CurrentCache'
      BY <1>c, <1>1, <3>1 DEF CurrentCache
    <3>. QED
      BY <1>1, <1>2, <2>1, <3>1, <3>3, <3>4, CurrentMoves
  <2>5. CASE Check(b) \/ Build(b)
    <3>1. /\ pc[b] \in {"check", "build"} /\ pc'[b] \in {"answer", "build", "file", "raised"}
          /\ UNCHANGED <<file, metadata, loaded, key>>
          /\ pc'[b] = "answer" => metadata = {key[b]}
      BY <1>0, <2>5 DEF Check, Build
    <3>2. ~crossed /\ pc'[b] = "answer" => file \subseteq {Now}
      BY <1>c, <3>1 DEF CurrentAt, CurrentCache, Keyed
    <3>3. ~crossed => CurrentAt(b)'
      BY <1>1, <1>c, <2>1, <3>1, <3>2 DEF CurrentAt, Hydrated, Keyed
    <3>4. ~crossed => CurrentCache'
      BY <1>c, <1>1, <3>1 DEF CurrentCache
    <3>. QED
      BY <1>1, <1>2, <2>1, <3>1, <3>3, <3>4, CurrentMoves
  <2>6. CASE WriteFile(b)
    <3>1. /\ pc[b] = "file" /\ pc'[b] = "metadata" /\ file' = {loaded[b]}
          /\ UNCHANGED <<metadata, loaded, key>>
      BY <1>0, <2>6 DEF WriteFile
    <3>2. ~crossed => file' = {Now}
      BY <1>c, <3>1 DEF CurrentAt, Hydrated, Keyed
    <3>3. ~crossed => CurrentAt(b)'
      BY <1>1, <1>c, <2>1, <3>1, <3>2 DEF CurrentAt, Hydrated, Keyed
    <3>4. ~crossed => CurrentCache'
      BY <1>1, <3>2 DEF CurrentCache
    <3>. QED
      BY <1>1, <1>2, <2>1, <3>2, <3>3, <3>4, CurrentMoves
  <2>7. CASE WriteMetadata(b)
    <3>1. /\ pc[b] = "metadata" /\ pc'[b] = "answer" /\ metadata' = {key[b]}
          /\ UNCHANGED <<file, loaded, key>>
      BY <1>0, <2>7 DEF WriteMetadata
    <3>2. ~crossed => file = {Now} /\ Now \in since[b]
      BY <1>c, <2>1, <3>1 DEF CurrentAt
    <3>3. ~crossed => CurrentAt(b)'
      BY <1>1, <2>1, <3>1, <3>2 DEF CurrentAt, Hydrated, Keyed
    <3>4. ~crossed => CurrentCache'
      BY <1>1, <3>1, <3>2 DEF CurrentCache
    <3>. QED
      BY <1>1, <1>2, <2>1, <3>1, <3>3, <3>4, CurrentMoves
  <2>. QED
    BY <1>5, <2>2, <2>3, <2>4, <2>5, <2>6, <2>7 DEF BuildStep
<1>. QED
  BY <1>3, <1>4, <1>5

LEMMA CurrentStep == CacheInv /\ Dated /\ Current /\ [Next]_vars => Current'
<1> SUFFICES ASSUME CacheInv, Dated, Current, [Next]_vars PROVE Current'
  OBVIOUS
<1> USE DEF disk, cache, builds, history
<1>1. ASSUME NEW b \in Builders, Answer(b) \/ Raise(b) \/ Crash(b) PROVE Current'
  <2>1. pc \in [Builders -> Steps] /\ loaded \in [Builders -> Shown] /\ key \in [Builders -> Keys]
        /\ since \in [Builders -> SUBSET Shown]
    BY DEF CacheInv, CacheTypes
  <2>2. /\ UNCHANGED <<json, layers, saving, crossed, file, metadata>> /\ pc'[b] \in Ended
        /\ \A c \in Builders : c # b => /\ pc'[c] = pc[c] /\ loaded'[c] = loaded[c]
                                       /\ key'[c] = key[c] /\ since'[c] = since[c]
    BY <1>1, <2>1 DEF Answer, Raise, Crash, End, Go, Ended
  <2>3. CurrentAt(b)'
    BY <2>2 DEF CurrentAt, Active, Hydrated, Keyed, Ended
  <2>4. ~crossed => CurrentCache'
    BY <2>2, CurrentParts DEF CurrentCache, Now
  <2>. QED
    BY <2>2, <2>3, <2>4, CurrentMoves
<1>2. CASE UNCHANGED vars
  BY <1>2 DEF vars, Current, Active, Now
<1>. QED
  BY <1>1, <1>2, CurrentSave, CurrentBuild DEF Next

(* A request is answered with what the project was at a moment of the        *)
(* request, for any builders and saves, as long as no save met a build.     *)
THEOREM ServedIsCurrent == Spec => ServedWasCurrent
<1> DEFINE Inv == CacheInv /\ Dated /\ Current
<1> DEFINE Good == \A b \in Builders :
       pc[b] = "answer" /\ pc'[b] = "done" /\ ~crossed => file # Nothing /\ file \subseteq since[b]
<1>1. Init => Inv
  BY CacheInit
<1>2. Inv /\ [Next]_vars => Inv'
  BY CacheStep, DatedStep, CurrentStep
<1>3. Inv => Good
  BY DEF CacheInv, Filed, Current
<1>. HIDE DEF Inv
<1>4. Inv /\ [Next]_vars => [Good]_vars
  BY <1>3
<1>. QED
  BY <1>1, <1>2, <1>4, PTL DEF Spec, ServedWasCurrent

-----------------------------------------------------------------------------
(* The jobs around the cache.                                               *)

Statuses == Settled \cup {"none", "queued", "running", "lost"}

\* What waits in the queue is queued, once; what no browser has registered is no
\* job yet.
Queued ==
  /\ \A i \in 1 .. Len(queue) : status[queue[i]] = "queued"
  /\ \A i, k \in 1 .. Len(queue) : queue[i] = queue[k] => i = k
  /\ \A j \in Builders : client[j] \in {"idle", "found", "missing"} => status[j] = "none"

\* The exports that are there.
Linked ==
  /\ \A j \in Builders : status[j] = "succeeded" \/ client[j] = "found" => file # Nothing
  /\ \A j \in Builders : client[j] = "ready" /\ status[j] # "lost" => status[j] = "succeeded" /\ link[j]

JobTypes ==
  /\ status \in [Builders -> Statuses] /\ link \in [Builders -> BOOLEAN]
  /\ queue \in Seq(Builders)
  /\ client \in [Builders -> ClientPlaces] /\ polls \in [Builders -> 0 .. MaxPolls]

JobInv == CacheInv /\ JobTypes /\ Queued /\ Linked

LEMMA JobInitial == JobInit => JobInv
<1> SUFFICES ASSUME JobInit PROVE JobInv
  OBVIOUS
<1>1. CacheInv
  BY CacheInit DEF JobInit
<1>2. JobTypes /\ Queued /\ Linked
  BY PoolAssumption DEF JobInit, JobTypes, Queued, Linked, Statuses, ClientPlaces
<1>. QED
  BY <1>1, <1>2 DEF JobInv

\* An export file stays.
LEMMA FileStays ==
  ASSUME NEW j \in Builders, BuildStep(j) \/ Save \/ UNCHANGED <<cache>>, file # Nothing
  PROVE  file' # Nothing
  BY DEF BuildStep, FastLookup, Load, Hydrate, WriteManifest, MoveManifest, CleanManifest,
     Stamp, Check, Build, WriteFile, WriteMetadata, Save, SaveLayers, SaveOpens, SaveWrites,
     Interrupt, cache, Nothing

\* One job's status changes while its browser stands still, and it is in no queue.
LEMMA OneStatus ==
  ASSUME JobInv, NEW j \in Builders, status[j] = "running", NEW s \in Statuses,
         SetStatus(j, s), UNCHANGED <<cache, link, queue, clients>>,
         s = "succeeded" => file # Nothing
  PROVE  JobTypes' /\ Queued' /\ Linked'
<1>1. /\ status' \in [Builders -> Statuses] /\ status'[j] = s
      /\ \A k \in Builders : k # j => status'[k] = status[k]
  BY DEF SetStatus, JobInv, JobTypes
<1>2. JobTypes'
  BY <1>1 DEF JobInv, JobTypes, clients
<1>3. Queued'
  <2>1. \A i \in 1 .. Len(queue) : queue[i] \in Builders /\ queue[i] # j
    BY DEF JobInv, Queued, JobTypes
  <2>2. client[j] \notin {"idle", "found", "missing"}
    BY DEF JobInv, Queued
  <2>. QED
    BY <1>1, <2>1, <2>2 DEF JobInv, Queued, clients
<1>4. client[j] # "ready"
  BY DEF JobInv, Linked
<1>5. Linked'
  BY <1>1, <1>4 DEF JobInv, Linked, clients, cache
<1>. QED
  BY <1>2, <1>3, <1>5

LEMMA ThreadJobs ==
  ASSUME JobInv, NEW j \in Builders, ThreadStep(j)
  PROVE  JobInv'
<1>0. CacheInv /\ JobTypes /\ Queued /\ Linked /\ pc \in [Builders -> Steps]
  BY DEF JobInv, CacheInv
<1>1. CASE Start(j)
  <2>1. /\ queue \in Seq(Builders) /\ queue # <<>> /\ queue[1] = j
        /\ queue' = Tail(queue) /\ SetStatus(j, "running")
        /\ UNCHANGED <<cache, link, clients>>
    BY <1>0, <1>1 DEF Start, JobTypes
  <2>2. /\ queue' \in Seq(Builders) /\ Len(queue') = Len(queue) - 1 /\ Len(queue) \in Nat \ {0}
        /\ \A i \in 1 .. Len(queue') : queue'[i] = queue[i + 1]
    BY <2>1
  <2>3. /\ status[j] = "queued" /\ client[j] # "ready"
        /\ client[j] \notin {"idle", "found", "missing"}
    BY <1>0, <2>1, <2>2 DEF Queued, Linked
  <2>4. /\ status' \in [Builders -> Statuses] /\ status'[j] = "running"
        /\ \A k \in Builders : k # j => status'[k] = status[k]
    BY <1>0, <2>1 DEF SetStatus, JobTypes, Statuses
  <2>5. CacheInv'
    BY <1>0, <1>1 DEF Start, CacheInv, CacheTypes, Filed, Saved, disk, cache, builds, history
  <2>6. JobTypes'
    BY <1>0, <2>1, <2>2, <2>4 DEF JobTypes, clients
  <2>7. Queued'
    <3>1. \A i \in 1 .. Len(queue') : queue[i + 1] # j /\ i + 1 \in 1 .. Len(queue) /\ queue[i + 1] \in Builders
      BY <1>0, <2>1, <2>2 DEF Queued
    <3>2. \A i \in 1 .. Len(queue') : status'[queue'[i]] = "queued"
      BY <1>0, <2>2, <2>4, <3>1 DEF Queued
    <3>3. \A i, k \in 1 .. Len(queue') : queue'[i] = queue'[k] => i = k
      <4> SUFFICES ASSUME NEW i \in 1 .. Len(queue'), NEW k \in 1 .. Len(queue'), queue'[i] = queue'[k]
                   PROVE  i = k
        OBVIOUS
      <4>1. queue[i + 1] = queue[k + 1]
        BY <2>2
      <4>2. i + 1 = k + 1
        BY <1>0, <3>1, <4>1 DEF Queued
      <4>. QED
        BY <2>2, <4>2
    <3>. QED
      BY <1>0, <2>1, <2>3, <2>4, <3>2, <3>3 DEF Queued, clients
  <2>8. Linked'
    BY <1>0, <2>1, <2>3, <2>4 DEF Linked, clients, cache
  <2>. QED
    BY <2>5, <2>6, <2>7, <2>8 DEF JobInv
<1>2. CASE Run(j)
  <2>1. CacheInv'
    BY <1>0, <1>2, BuildTypes DEF Run
  <2>2. file # Nothing => file' # Nothing
    BY <1>2, FileStays DEF Run
  <2>. QED
    BY <1>0, <1>2, <2>1, <2>2 DEF Run, JobInv, JobTypes, Queued, Linked, jobs, clients
<1>3. CASE MarkSucceeded(j)
  <2>1. CacheInv'
    <3>1. pc' \in [Builders -> Steps] /\ Filed'
      BY <1>0, <1>3 DEF MarkSucceeded, Go, CacheInv, Filed, Steps, cache
    <3>. QED
      BY <1>0, <1>3, <3>1 DEF MarkSucceeded, CacheInv, CacheTypes, Saved, disk, cache, history
  <2>2. file # Nothing
    BY <1>0, <1>3 DEF MarkSucceeded, CacheInv, Filed
  <2>. QED
    BY <1>3, <2>1, <2>2, OneStatus DEF MarkSucceeded, JobInv, Statuses, Settled
<1>4. CASE MarkLink(j)
  <2>1. CacheInv'
    BY <1>0, <1>4, EndTypes DEF MarkLink, Ended
  <2>2. link' \in [Builders -> BOOLEAN] /\ \A k \in Builders : link[k] => link'[k]
    BY <1>0, <1>4 DEF MarkLink, JobTypes
  <2>. QED
    BY <1>0, <1>4, <2>1, <2>2 DEF MarkLink, JobInv, JobTypes, Queued, Linked, clients, cache
<1>5. CASE MarkFailed(j)
  <2>1. CacheInv'
    BY <1>0, <1>5, EndTypes DEF MarkFailed, Ended
  <2>. QED
    BY <1>5, <2>1, OneStatus DEF MarkFailed, JobInv, Statuses, Settled
<1>. QED
  BY <1>1, <1>2, <1>3, <1>4, <1>5 DEF ThreadStep

\* A browser's step that leaves the records alone.
LEMMA OneClient ==
  ASSUME JobInv, NEW j \in Builders, NEW place \in ClientPlaces, Client(j, place),
         UNCHANGED <<cache, jobs>>,
         place \in {"idle", "found", "missing"} => status[j] = "none",
         place = "found" => file # Nothing,
         place = "ready" => status[j] = "succeeded" /\ link[j]
  PROVE  client' \in [Builders -> ClientPlaces] /\ Queued' /\ Linked'
<1>1. /\ client' \in [Builders -> ClientPlaces] /\ client'[j] = place
      /\ \A k \in Builders : k # j => client'[k] = client[k]
  BY DEF Client, JobInv, JobTypes
<1>2. Queued'
  BY <1>1 DEF JobInv, Queued, jobs
<1>3. Linked'
  BY <1>1 DEF JobInv, Linked, jobs, cache
<1>. QED
  BY <1>1, <1>2, <1>3

LEMMA ClientJobs ==
  ASSUME JobInv, NEW j \in Builders, ClientStep(j)
  PROVE  JobInv'
<1>0. CacheInv /\ JobTypes /\ Queued /\ Linked
  BY DEF JobInv
<1>1. CacheInv'
  BY <1>0 DEF ClientStep, Create, RegisterReady, RegisterQueued, Poll, GiveUp, Download,
     CacheInv, CacheTypes, Filed, Saved, disk, cache, builds, history
<1>2. CASE Create(j)
  <2>1. PICK place \in {"found", "missing"} : Client(j, place) /\ (place = "found" => Cached)
    BY <1>2 DEF Create
  <2>2. status[j] = "none" /\ (place = "found" => file # Nothing)
    BY <1>0, <1>2, <2>1 DEF Create, Queued, Cached
  <2>3. client' \in [Builders -> ClientPlaces] /\ Queued' /\ Linked'
    BY <1>2, <2>1, <2>2, OneClient DEF Create, ClientPlaces
  <2>. QED
    BY <1>0, <1>1, <1>2, <2>3 DEF Create, JobInv, JobTypes, jobs
<1>3. CASE RegisterReady(j)
  <2>1. /\ status' \in [Builders -> Statuses] /\ status'[j] = "succeeded"
        /\ link' \in [Builders -> BOOLEAN] /\ link'[j]
        /\ client' \in [Builders -> ClientPlaces] /\ client'[j] = "ready"
        /\ \A k \in Builders : k # j => status'[k] = status[k] /\ link'[k] = link[k] /\ client'[k] = client[k]
    BY <1>0, <1>3 DEF RegisterReady, SetStatus, Client, JobTypes, Statuses, Settled, ClientPlaces
  <2>2. status[j] = "none" /\ file # Nothing /\ UNCHANGED <<queue, polls, file>>
    BY <1>0, <1>3 DEF RegisterReady, Queued, Linked, cache
  <2>3. \A i \in 1 .. Len(queue) : queue[i] \in Builders /\ queue[i] # j
    BY <1>0, <2>2 DEF Queued, JobTypes
  <2>4. JobTypes'
    BY <1>0, <2>1, <2>2 DEF JobTypes
  <2>5. Queued'
    BY <1>0, <2>1, <2>2, <2>3 DEF Queued
  <2>6. Linked'
    BY <1>0, <2>1, <2>2 DEF Linked
  <2>. QED
    BY <1>1, <2>4, <2>5, <2>6 DEF JobInv
<1>4. CASE RegisterQueued(j)
  <2>1. /\ status' \in [Builders -> Statuses] /\ status'[j] = "queued"
        /\ client' \in [Builders -> ClientPlaces] /\ client'[j] = "waiting"
        /\ \A k \in Builders : k # j => status'[k] = status[k] /\ client'[k] = client[k]
    BY <1>0, <1>4 DEF RegisterQueued, SetStatus, Client, JobTypes, Statuses, ClientPlaces
  <2>2. status[j] = "none" /\ UNCHANGED <<link, polls, file>>
    BY <1>0, <1>4 DEF RegisterQueued, Queued, cache
  <2>3. /\ queue' \in Seq(Builders) /\ Len(queue') = Len(queue) + 1 /\ Len(queue) \in Nat
        /\ queue'[Len(queue) + 1] = j
        /\ \A i \in 1 .. Len(queue) : queue'[i] = queue[i] /\ queue[i] \in Builders /\ queue[i] # j
    BY <1>0, <1>4, <2>2 DEF RegisterQueued, JobTypes, Queued
  <2>4. JobTypes'
    BY <1>0, <2>1, <2>2, <2>3 DEF JobTypes
  <2>5. Queued'
    <3>1. \A i \in 1 .. Len(queue') : i \in 1 .. Len(queue) \/ i = Len(queue) + 1
      BY <2>3
    <3>2. \A i \in 1 .. Len(queue') : status'[queue'[i]] = "queued"
      BY <1>0, <2>1, <2>3, <3>1 DEF Queued
    <3>3. \A i, k \in 1 .. Len(queue') : queue'[i] = queue'[k] => i = k
      BY <1>0, <2>3, <3>1 DEF Queued
    <3>. QED
      BY <1>0, <2>1, <3>2, <3>3 DEF Queued
  <2>6. Linked'
    BY <1>0, <2>1, <2>2 DEF Linked
  <2>. QED
    BY <1>1, <2>4, <2>5, <2>6 DEF JobInv
<1>5. CASE Poll(j)
  <2>1. polls[j] < MaxPolls /\ polls' = [polls EXCEPT ![j] = polls[j] + 1]
    BY <1>5 DEF Poll
  <2>2. MaxPolls \in Nat /\ polls \in [Builders -> 0 .. MaxPolls]
    BY <1>0, PoolAssumption DEF JobTypes
  <2>3. \A n \in 0 .. MaxPolls : n < MaxPolls => n + 1 \in 0 .. MaxPolls
    BY <2>2
  <2>4. polls[j] \in 0 .. MaxPolls
    BY <2>2
  <2>5. polls[j] + 1 \in 0 .. MaxPolls
    BY <2>1, <2>3, <2>4
  <2>6. polls' \in [Builders -> 0 .. MaxPolls]
    BY <2>1, <2>2, <2>5
  <2>7. PICK place \in {"ready", "no link", "failed", "waiting"} :
           Client(j, place) /\ (place = "ready" => status[j] = "succeeded" /\ link[j])
    BY <1>0, <1>5 DEF Poll, JobTypes, Statuses, Settled
  <2>8. client' \in [Builders -> ClientPlaces] /\ Queued' /\ Linked'
    BY <1>5, <2>7, OneClient DEF Poll, ClientPlaces, ClientEnds
  <2>. QED
    BY <1>0, <1>1, <1>5, <2>6, <2>8 DEF Poll, JobInv, JobTypes, jobs
<1>6. CASE GiveUp(j) \/ Download(j)
  <2>1. PICK place \in ClientEnds : Client(j, place)
    BY <1>6 DEF GiveUp, Download, ClientEnds
  <2>2. client' \in [Builders -> ClientPlaces] /\ Queued' /\ Linked'
    BY <1>6, <2>1, OneClient DEF GiveUp, Download, ClientPlaces, ClientEnds
  <2>. QED
    BY <1>0, <1>1, <1>6, <2>2 DEF GiveUp, Download, JobInv, JobTypes, jobs
<1>. QED
  BY <1>2, <1>3, <1>4, <1>5, <1>6 DEF ClientStep

LEMMA RestartJobs ==
  ASSUME JobInv, Restart
  PROVE  JobInv'
<1>0. CacheInv /\ JobTypes /\ Queued /\ Linked /\ pc \in [Builders -> Steps]
  BY DEF JobInv, CacheInv
<1>. HIDE DEF Shown0, NoKey
<1>1. /\ pc' \in [Builders -> Steps]
      /\ \A j \in Builders : pc'[j] \in {"metadata", "answer"} => FALSE
  BY <1>0 DEF Restart, Active, Ended, Steps, Places, Window
<1>2. CacheInv'
  BY <1>0, <1>1, PlainTypes DEF Restart, CacheInv, CacheTypes, Filed, Saved, disk, cache
<1>3. JobTypes'
  <2>1. status' \in [Builders -> Statuses] /\ link' \in [Builders -> BOOLEAN]
    BY <1>0 DEF Restart, Statuses
  <2>2. client' \in [Builders -> ClientPlaces]
    BY <1>0 DEF Restart, JobTypes, ClientPlaces, ClientEnds
  <2>3. queue' \in Seq(Builders) /\ polls' = polls
    BY DEF Restart
  <2>. QED
    BY <1>0, <2>1, <2>2, <2>3 DEF JobTypes
<1>4. /\ queue' = <<>> /\ file' = file
      /\ \A j \in Builders : /\ status'[j] = (IF status[j] = "none" THEN "none" ELSE "lost")
                             /\ client'[j] = (IF client[j] \in {"found", "missing"} THEN "failed" ELSE client[j])
  BY <1>0 DEF Restart, JobTypes, cache
<1>5. Queued' /\ Linked'
  BY <1>0, <1>4 DEF Queued, Linked
<1>. QED
  BY <1>2, <1>3, <1>5 DEF JobInv

LEMMA JobStep == JobInv /\ [JobNext]_jobVars => JobInv'
<1> SUFFICES ASSUME JobInv, [JobNext]_jobVars PROVE JobInv'
  OBVIOUS
<1>1. CASE Save /\ UNCHANGED <<jobs, clients, restarted>>
  <2>1. CacheInv' /\ UNCHANGED file
    BY <1>1, SaveTypes DEF JobInv, Save, SaveLayers, SaveOpens, SaveWrites, Interrupt, cache
  <2>. QED
    BY <1>1, <2>1 DEF JobInv, JobTypes, Queued, Linked, jobs, clients
<1>2. CASE UNCHANGED jobVars
  BY <1>2 DEF jobVars, JobInv, JobTypes, Queued, Linked, jobs, clients, CacheInv, CacheTypes,
     Filed, Saved, disk, cache, builds, history
<1>. QED
  BY <1>1, <1>2, ThreadJobs, ClientJobs, RestartJobs DEF JobNext

LEMMA JobsKeepInv == JobSpec => []JobInv
<1>. QED
  BY JobInitial, JobStep, PTL DEF JobSpec

(* The variables of the jobs keep to their ranges.                           *)
THEOREM JobTypesHold == JobSpec => []JobTypeOK
<1>1. JobInv => JobTypeOK
  BY DEF JobInv, JobTypes, JobTypeOK, CacheInv, Steps, Statuses, ToSet
<1>. QED
  BY <1>1, JobsKeepInv, PTL

(* A browser that holds a link finds a file behind it until the process goes *)
(* - for any number of jobs, threads, polls and saves.                      *)
THEOREM LinksLeadToFiles == JobSpec => []LinksLead
<1>1. JobInv => LinksLead
  BY DEF JobInv, Linked, LinksLead
<1>. QED
  BY <1>1, JobsKeepInv, PTL
=============================================================================
