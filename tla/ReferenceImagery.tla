-------------------------- MODULE ReferenceImagery --------------------------
(***************************************************************************)
(* The reference imagery of temporal projects.  A canonical COG is cut to  *)
(* an area from the raster of a detection, which may have been made for    *)
(* another area; its key has the area and the bounds of the raster, not    *)
(* the raster.  Each project has a path that is materialized from a        *)
(* canonical COG by a hard link, a symbolic link or a copy.  A path holds  *)
(* a file or a symbolic link; a file may have several paths.               *)
(***************************************************************************)
EXTENDS Naturals, FiniteSets

CONSTANTS
  Projects, Areas,
  Bounds,     \* the bounds of rasters
  BoundsOf,   \* those of the raster of a detection on an area: of its tiles
  Operations,
  Mode,       \* reference_imagery_materialization
  Works       \* the ways that work between the two directories

Ways   == {"hardlink", "symlink", "copy"}
Nobody == "nobody"
Keys   == [area : Areas, bounds : Bounds]

ASSUME WaysAssumption == Mode \in Ways /\ Works \subseteq Ways

ASSUME BoundsAssumption == BoundsOf \in [Areas -> Bounds]

ASSUME NamesAssumption == Projects \cap Keys = {} /\ Nobody \notin Projects \cup Areas

VARIABLES
  fs,        \* what is at a path: at most one file or symbolic link
  image,     \* the area that a file is cut to and the detection it shows
  metadata,  \* the key that the metadata.json beside a canonical COG names
  area,      \* the area of a project; Nobody before it is saved
  detected,  \* the area of the detection whose response its milestone names
  reference, \* the key of the canonical COG its milestone refers to
  op,        \* the operations
  doubt,     \* history: the projects that a stop, a failure or a dropped
             \* reference left in doubt
  crossed,   \* history: the projects whose canonical COG was replaced under them
  met        \* history: have two operations on a project met

saved   == <<area, detected, reference>>
history == <<doubt, crossed, met>>
vars    == <<fs, image, metadata, saved, op, history>>

Nothing   == {}
None      == [area |-> Nobody, bounds |-> Nobody]
Blank     == [area |-> Nobody, of |-> Nobody]
Cut(a, d) == [area |-> a, of |-> d]
Key(a, d) == [area |-> a, bounds |-> BoundsOf[d]]
KeyOf(i)  == Key(i.area, i.of)

\* A file is known by the operation that made it, as a canonical COG or a copy.
Made(o)   == [file |-> o, copy |-> FALSE]
Copied(o) == [file |-> o, copy |-> TRUE]
Files     == [file : Operations, copy : BOOLEAN]
Link(x)   == [to |-> x]
Paths     == Projects \cup Keys
Links     == {Link(x) : x \in Paths}
Kinds     == {"save", "repair", "load"}
Places    == {"idle", "ensure", "find", "materialize", "link", "note", "save", "ended"}

\* of, from, key: the area, detection and reference of the project it holds.
\* target, source: the paths of the project's and of the canonical COG,
\* resolved.  tried: the ways it has tried.
Idle == [at |-> "idle", on |-> Nobody, kind |-> "load", finding |-> FALSE,
         of |-> Nobody, from |-> Nobody, key |-> None,
         target |-> None, source |-> None, tried |-> {}]

Under(p)  == {o \in Operations : op[o].on = p}
Go(o, at) == op' = [op EXCEPT ![o].at = at]
End(o)    == op' = [op EXCEPT ![o] = [Idle EXCEPT !.at = "ended"]]

Follow(x)  == IF fs[x] \in {{l} : l \in Links} THEN CHOOSE y \in Paths : Link(y) \in fs[x] ELSE x
Resolve(x) == Follow(Follow(Follow(x)))
File(x)    == fs[Resolve(x)] \cap Files
Imagery(x) == {image[f] : f \in File(x)}

Init ==
  /\ fs = [x \in Paths |-> Nothing] /\ image = [f \in Files |-> Blank]
  /\ metadata = [k \in Keys |-> None]
  /\ area = [p \in Projects |-> Nobody] /\ detected = [p \in Projects |-> Nobody]
  /\ reference = [p \in Projects |-> None]
  /\ op = [o \in Operations |-> Idle] /\ doubt = {} /\ crossed = {} /\ met = FALSE

Begin(o, p, at, kind, a, d, k) ==
  /\ op[o].at = "idle"
  /\ op' = [op EXCEPT ![o] = [Idle EXCEPT !.at = at, !.on = p, !.kind = kind,
                                          !.of = a, !.from = d, !.key = k]]
  /\ met' = (met \/ Under(p) # {})
  /\ UNCHANGED <<fs, image, metadata, saved, crossed>>

\* The area and the detection are those of a run or what a client sends.
BeginBuild(o, p, a, d) ==
  Begin(o, p, "ensure", "save", a, d, Key(a, d)) /\ UNCHANGED doubt

\* No raster is there: the reference is what the client sends, or is dropped
\* with a detection whose response has gone.
BeginSave(o, p, a, k) ==
  /\ k \in {reference[p], None}
  /\ Begin(o, p, "find", "save", a, Nobody, k)
  /\ doubt' = IF k = reference[p] THEN doubt ELSE doubt \cup {p}

BeginRepair(o, p) ==
  /\ area[p] # Nobody
  /\ Begin(o, p, "find", "repair", area[p], detected[p], reference[p]) /\ UNCHANGED doubt

\* An export loads the project with its imagery and does not save it.
BeginLoad(o, p) ==
  /\ area[p] # Nobody /\ detected[p] # Nobody
  /\ Begin(o, p, "ensure", "load", area[p], detected[p], Key(area[p], detected[p]))
  /\ UNCHANGED doubt

Stop(o) ==
  /\ op[o].on # Nobody
  /\ End(o) /\ doubt' = doubt \cup {op[o].on}
  /\ UNCHANGED <<fs, image, metadata, saved, crossed, met>>

Fail(o) == End(o) /\ doubt' = doubt \cup {op[o].on} /\ UNCHANGED <<crossed, met>>

-----------------------------------------------------------------------------
(* The canonical COG *)

\* Mutant: the file that was there stays at the path.
EnsureCogBeside(o) ==
  LET x == Resolve(op[o].key) IN
  /\ op[o].at = "ensure"
  /\ fs' = [fs EXCEPT ![x] = @ \cup {Made(o)}]
  /\ image' = [image EXCEPT ![Made(o)] = Cut(op[o].of, op[o].from)]
  /\ Go(o, "materialize")
  /\ UNCHANGED <<metadata, saved, history>>

\* Mutant: any COG that is there under the key is kept.
EnsureCogByKey(o) ==
  LET x == Resolve(op[o].key) IN
  /\ op[o].at = "ensure"
  /\ IF File(x) # {} THEN UNCHANGED <<fs, image>>
     ELSE /\ fs' = [fs EXCEPT ![x] = {Made(o)}]
          /\ image' = [image EXCEPT ![Made(o)] = Cut(op[o].of, op[o].from)]
  /\ Go(o, "materialize")
  /\ UNCHANGED <<metadata, saved, history>>

\* Those that rely on the canonical COG but with the raster of another detection.
Misled(o) ==
  {op[q].on : q \in {r \in Operations : /\ op[r].at \in {"materialize", "link"}
                                        /\ op[r].key = op[o].key /\ op[r].from # op[o].from}}

\* One that is newer than the raster and has its valid mask's time is kept,
\* else a new file replaces the one its path leads to.
EnsureCog(o) ==
  LET k == op[o].key IN
  /\ op[o].at = "ensure"
  /\ \/ /\ File(k) # {} /\ \A i \in Imagery(k) : i.of = op[o].from
        /\ crossed' = crossed \ {op[o].on}
        /\ UNCHANGED <<fs, image>>
     \/ /\ fs' = [fs EXCEPT ![Resolve(k)] = {Made(o)}]
        /\ image' = [image EXCEPT ![Made(o)] = Cut(op[o].of, op[o].from)]
        /\ crossed' = (crossed \ {op[o].on}) \cup Misled(o)
  /\ Go(o, "materialize")
  /\ UNCHANGED <<metadata, saved, doubt, met>>

\* A canonical COG that is there and whose metadata names the area.
Matching(a) == {k \in Keys : metadata[k].area = a /\ File(metadata[k]) # {}}

\* A complete reference is kept, whatever its area.  So is one without a single
\* match; the COGs that detections promote in the same directory may prevent
\* it.  A COG that is at the project's path is taken for the one that matches.
FindCog(o) ==
  LET p == op[o].on IN
  /\ op[o].at = "find"
  /\ \/ Go(o, "save")
     \/ /\ File(p) = {} \/ op[o].key = None
        /\ Cardinality(Matching(op[o].of)) = 1
        /\ \E k \in Matching(op[o].of) :
             op' = [op EXCEPT ![o].at = IF File(p) = {} THEN "materialize" ELSE "note",
                              ![o].finding = TRUE, ![o].tried = {},
                              ![o].key = metadata[k], ![o].source = Resolve(metadata[k])]
  /\ UNCHANGED <<fs, image, metadata, saved, history>>

-----------------------------------------------------------------------------
(* materialize_reference_imagery_cog *)

\* Both paths are resolved: what is removed is the file the project's link
\* leads to.
Materialize(o) ==
  LET source == Resolve(op[o].key)
      target == Resolve(op[o].on) IN
  /\ op[o].at = "materialize"
  /\ IF fs[source] \cap Files = {}
     THEN Fail(o) /\ UNCHANGED fs
     ELSE LET same == fs[target] = fs[source] IN
          /\ fs' = IF same THEN fs ELSE [fs EXCEPT ![target] = Nothing]
          /\ op' = [op EXCEPT ![o].at = IF same THEN "note" ELSE "link",
                              ![o].source = source, ![o].target = target]
          /\ UNCHANGED history
  /\ UNCHANGED <<image, metadata, saved>>

\* Mutant: a symbolic link comes first.
WaySymlinkFirst(tried) == IF "symlink" \notin tried THEN "symlink"
                          ELSE IF Mode \notin tried THEN Mode ELSE "copy"

\* The ways in their order: the mode's, then a symbolic link, then a copy.
Way(tried) == IF Mode \notin tried THEN Mode
              ELSE IF "symlink" \notin tried THEN "symlink" ELSE "copy"

\* What a way puts at the target; nothing if it fails.
Put(o, way) ==
  LET there == fs[op[o].target]
      file  == fs[op[o].source] \cap Files IN
  IF way \notin Works THEN {}
  ELSE CASE way = "hardlink" -> IF there = Nothing THEN file ELSE {}
         [] way = "symlink"  -> IF there = Nothing THEN {Link(op[o].source)} ELSE {}
         [] way = "copy"     -> IF file = {} \/ there = file THEN {}
                                ELSE IF there \subseteq Files /\ there # Nothing THEN there
                                ELSE {Copied(o)}

\* A copy is written into the file that is there; after a way that fails what
\* is there is removed, whoever put it there.
LinkCog(o) ==
  LET way == Way(op[o].tried)
      new == Put(o, way) IN
  /\ op[o].at = "link"
  /\ fs' = [fs EXCEPT ![op[o].target] = new]
  /\ image' = IF way = "copy" /\ new # {}
              THEN [f \in Files |-> IF f \in new THEN CHOOSE i \in Imagery(op[o].source) : TRUE
                                    ELSE image[f]]
              ELSE image
  /\ IF new # {} THEN Go(o, "note") /\ UNCHANGED history
     ELSE IF op[o].tried \cup {way, Mode} # {"symlink", "copy", Mode}
     THEN op' = [op EXCEPT ![o].tried = @ \cup {way}] /\ UNCHANGED history
     ELSE Fail(o)
  /\ UNCHANGED <<metadata, saved>>

-----------------------------------------------------------------------------
(* The metadata and the project *)

\* A match's metadata is written beside the COG that its path leads to.  A save
\* that has built goes on to complete what is still without a reference.
NoteCog(o) ==
  LET x == op[o] IN
  /\ x.at = "note"
  /\ metadata' = [metadata EXCEPT ![IF x.finding THEN x.source ELSE x.key] = x.key]
  /\ IF x.finding THEN Go(o, "save")
     ELSE IF x.kind = "load" THEN End(o) ELSE Go(o, "find")
  /\ UNCHANGED <<fs, image, saved, history>>

\* A save that has built the imagery settles what was in doubt.
Save(o) ==
  LET x == op[o] IN
  /\ x.at = "save"
  /\ area' = [area EXCEPT ![x.on] = x.of]
  /\ detected' = [detected EXCEPT ![x.on] = x.from]
  /\ reference' = [reference EXCEPT ![x.on] = x.key]
  /\ doubt' = IF x.kind = "save" /\ x.from # Nobody THEN doubt \ {x.on} ELSE doubt
  /\ End(o)
  /\ UNCHANGED <<fs, image, metadata, crossed, met>>

Step(o) ==
  \/ EnsureCog(o) \/ FindCog(o) \/ Materialize(o) \/ LinkCog(o)
  \/ NoteCog(o) \/ Save(o)

Next ==
  \E o \in Operations :
    \/ \E p \in Projects :
         \/ \E a, d \in Areas : BeginBuild(o, p, a, d)
         \/ \E a \in Areas, k \in Keys \cup {None} : BeginSave(o, p, a, k)
         \/ BeginRepair(o, p) \/ BeginLoad(o, p)
    \/ Step(o) \/ Stop(o)

Spec == Init /\ [][Next]_vars

-----------------------------------------------------------------------------
(* Properties *)

\* The type invariant: a path holds one file or one link, a file the imagery of
\* one detection cut to one area, and an operation what it was begun with.
TypeOK ==
  /\ \A x \in Paths : fs[x] \in SUBSET (Files \cup Links) /\ Cardinality(fs[x]) <= 1
  /\ image \in [Files -> [area : Areas \cup {Nobody}, of : Areas \cup {Nobody}]]
  /\ metadata \in [Keys -> Keys \cup {None}]
  /\ area \in [Projects -> Areas \cup {Nobody}] /\ detected \in [Projects -> Areas \cup {Nobody}]
  /\ reference \in [Projects -> Keys \cup {None}]
  /\ doubt \in SUBSET Projects /\ crossed \in SUBSET Projects /\ met \in BOOLEAN
  /\ \A o \in Operations :
       /\ op[o].at \in Places /\ op[o].kind \in Kinds /\ op[o].finding \in BOOLEAN
       /\ op[o].on \in Projects \cup {Nobody}
       /\ {op[o].of, op[o].from} \subseteq Areas \cup {Nobody}
       /\ op[o].key \in Keys \cup {None}
       /\ {op[o].target, op[o].source} \subseteq Paths \cup {None}
       /\ op[o].tried \in SUBSET Ways

\* A canonical COG holds imagery of its own key, cut to the area and with the
\* bounds that the key says, whatever is materialized from it, edited, stopped
\* or repaired, unless two operations on a project met.  It may be the raster
\* of a detection on another area with these bounds.
CanonicalOwn == ~met => \A k \in Keys : \A i \in Imagery(k) : KeyOf(i) = k

\* The COG of a project that nothing is working on is there and is of the key
\* that its milestone refers to.  If the milestone names a detection it shows
\* that detection's raster cut to the present area, unless another build has
\* replaced the canonical COG between its two steps.
ReferenceShown ==
  ~met => \A p \in Projects \ doubt :
    reference[p] # None /\ Under(p) = {} =>
      \E i \in Imagery(p) :
        /\ Imagery(p) = {i} /\ KeyOf(i) = reference[p]
        /\ detected[p] # Nobody /\ p \notin crossed => i = Cut(area[p], detected[p])

=============================================================================
