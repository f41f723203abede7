---------------------- MODULE ReferenceImageryProofs -----------------------
(***************************************************************************)
(* What ReferenceImagery promises for any projects, areas, bounds and      *)
(* operations while the configured way of materializing is a hard link or  *)
(* a copy and works: a canonical COG has imagery of its own key and a      *)
(* project shows what it refers to.  The argument is that paths then hold  *)
(* files only (Plain), so that a path resolves to itself, that an          *)
(* operation makes files nobody else has (New), and what is at the         *)
(* project's path at each place of its one operation (OnItsWay).           *)
(***************************************************************************)
EXTENDS ReferenceImagery, FiniteSetTheorems, TLAPS

Operation ==
  [at : Places, on : Projects \cup {Nobody}, kind : Kinds, finding : BOOLEAN,
   of : Areas \cup {Nobody}, from : Areas \cup {Nobody}, key : Keys \cup {None},
   target : Paths \cup {None}, source : Paths \cup {None}, tried : SUBSET Ways]

AtMostOne(s) == s = {} \/ \E e \in Files \cup Links : s = {e}

\* It makes, or has made, a canonical COG of the raster of a detection.
Built(x) == ~x.finding /\ x.kind # "repair" /\ x.from # Nobody

PlacedAt(x) ==
  /\ x.on = Nobody <=> x.at \in {"idle", "ended"}
  /\ x.on # Nobody => x.of \in Areas
  /\ x.at \in {"ensure", "materialize", "link", "note"} => x.key \in Keys
  /\ x.at = "ensure" => Built(x)
  /\ x.at = "link" => {x.target, x.source} \subseteq Paths

OpsOK == op \in [Operations -> Operation] /\ \A o \in Operations : PlacedAt(op[o])

Images == [area : Areas, of : Areas]

TypeInv ==
  /\ fs \in [Paths -> SUBSET (Files \cup Links)] /\ \A x \in Paths : AtMostOne(fs[x])
  /\ image \in [Files -> Images \cup {Blank}]
  /\ \A x \in Paths : \A f \in fs[x] \cap Files : image[f] \in Images
  /\ metadata \in [Keys -> Keys \cup {None}]
  /\ area \in [Projects -> Areas \cup {Nobody}] /\ detected \in [Projects -> Areas \cup {Nobody}]
  /\ reference \in [Projects -> Keys \cup {None}]
  /\ OpsOK
  /\ doubt \in SUBSET Projects /\ crossed \in SUBSET Projects /\ met \in BOOLEAN

Fits(x, k)     == fs[x] # {} /\ \A f \in fs[x] : KeyOf(image[f]) = k
Exact(x, a, d) == \A f \in fs[x] : image[f] = Cut(a, d)

\* A project whose milestone refers to k and names the detection on d.
ShowsAs(p, k, a, d) ==
  IF k = None THEN fs[p] = {} /\ d = Nobody
  ELSE Fits(p, k) /\ (d # Nobody => k = Key(a, d) /\ (p \notin crossed => Exact(p, a, d)))

Shows(p) == ShowsAs(p, reference[p], area[p], detected[p])

Plain == \A x \in Paths : fs[x] \subseteq Files
Own   == \A k \in Keys : \A f \in fs[k] : KeyOf(image[f]) = k
NewOf(o) ==
  \A x \in Paths :
    /\ op[o].at \in {"idle", "ensure"} => Made(o) \notin fs[x]
    /\ op[o].at \in {"idle", "ensure", "materialize", "link"}
       \/ (op[o].at = "find" /\ ~Built(op[o])) => Copied(o) \notin fs[x]
New   == \A o \in Operations : NewOf(o)
Alone == \A o, q \in Operations : op[o].on # Nobody /\ op[o].on = op[q].on => o = q

\* What the record of an operation says by itself.
Honest(x) ==
  /\ x.at \in {"ensure", "materialize", "link", "note"} => x.finding \/ Built(x)
  /\ x.at = "find" => ~x.finding
  /\ x.at \in {"find", "save"} => x.kind # "load"
  /\ x.finding => x.kind # "load" /\ (x.kind = "save" => x.from = Nobody)
  /\ x.at \in {"ensure", "materialize", "link"} => x.tried = {}
  /\ Built(x) => x.key = Key(x.of, x.from)

OnItsWay(o) ==
  LET x == op[o] IN
  /\ Honest(x)
  /\ x.at \in {"materialize", "link"} =>
       /\ fs[x.key] # {}
       /\ Built(x) /\ x.on \notin crossed => Exact(x.key, x.of, x.from)
       /\ ~Built(x) /\ x.on \notin doubt => x.from = Nobody
  /\ x.at = "link" => x.target = x.on /\ x.source = x.key /\ fs[x.on] = {}
  /\ x.at \in {"find", "note", "save"} /\ (Built(x) \/ x.on \notin doubt)
       => ShowsAs(x.on, x.key, x.of, x.from)
  /\ x.on # Nobody /\ x.kind = "load" /\ x.on \notin doubt
       => x.key = reference[x.on] /\ x.of = area[x.on] /\ x.from = detected[x.on]

Linking(p) ==
  \E o \in Operations :
    /\ op[o].on = p
    /\ op[o].at \in {"materialize", "link", "note", "save"} \/ (op[o].at = "find" /\ Built(op[o]))


-----------------------------------------------------------------------------
(* Paths *)

(* A file is not a link.                                                   *)
LEMMA FilesAreNoLinks == Files \cap Links = {}
<1> SUFFICES ASSUME NEW f \in Files, NEW x \in Paths, f = Link(x) PROVE FALSE
  BY DEF Links
<1>1. DOMAIN f = {"file", "copy"}
  BY DEF Files
<1>2. DOMAIN f = {"to"}
  BY DEF Link
<1>. QED
  BY <1>1, <1>2

LEMMA MadeInFiles ==
  ASSUME NEW o \in Operations
  PROVE  /\ Made(o) \in Files /\ Copied(o) \in Files /\ Made(o) # Copied(o)
         /\ \A q \in Operations : /\ Made(o) = Made(q) => o = q
                                  /\ Copied(o) = Copied(q) => o = q
                                  /\ Made(o) # Copied(q)
<1>1. Made(o) \in Files /\ Copied(o) \in Files
  BY DEF Made, Copied, Files
<1>2. \A q \in Operations : /\ Made(q).file = q /\ Made(q).copy = FALSE
                            /\ Copied(q).file = q /\ Copied(q).copy = TRUE
  BY DEF Made, Copied
<1>. QED
  BY <1>1, <1>2

(* A path leads to a path, and to itself unless it holds a link.           *)
LEMMA FollowsToPaths ==
  ASSUME NEW x \in Paths
  PROVE  /\ Follow(x) \in Paths
         /\ fs[x] \subseteq Files => Follow(x) = x
<1>1. CASE fs[x] \in {{l} : l \in Links}
  <2>1. PICK l \in Links : fs[x] = {l}
    BY <1>1
  <2>2. \E y \in Paths : Link(y) \in fs[x]
    BY <2>1 DEF Links
  <2>3. Follow(x) \in Paths
    BY <1>1, <2>2 DEF Follow
  <2>4. l \notin Files
    BY FilesAreNoLinks
  <2>. QED
    BY <2>1, <2>3, <2>4
<1>2. CASE fs[x] \notin {{l} : l \in Links}
  BY <1>2 DEF Follow
<1>. QED
  BY <1>1, <1>2

LEMMA ResolvesToPaths ==
  ASSUME NEW x \in Paths
  PROVE  /\ Resolve(x) \in Paths
         /\ fs[x] \subseteq Files => Resolve(x) = x /\ File(x) = fs[x]
<1>1. Follow(x) \in Paths /\ Follow(Follow(x)) \in Paths /\ Resolve(x) \in Paths
  BY FollowsToPaths DEF Resolve
<1>2. fs[x] \subseteq Files => Follow(x) = x
  BY FollowsToPaths
<1>3. fs[x] \subseteq Files => Resolve(x) = x
  BY <1>2 DEF Resolve
<1>. QED
  BY <1>1, <1>3 DEF File

LEMMA InPaths == Projects \subseteq Paths /\ Keys \subseteq Paths
  BY DEF Paths

LEMMA KeyFacts ==
  ASSUME NEW a \in Areas, NEW d \in Areas
  PROVE  /\ Key(a, d) \in Keys /\ Key(a, d) # None /\ None \notin Keys
         /\ Cut(a, d) \in Images /\ KeyOf(Cut(a, d)) = Key(a, d)
         /\ \A i \in Images : KeyOf(i) = Key(a, d) => i.area = a
<1>1. BoundsOf[d] \in Bounds /\ Key(a, d) \in Keys
  BY BoundsAssumption DEF Key, Keys
<1>2. None \notin Keys
  <2>1. None.area = Nobody /\ \A k \in Keys : k.area \in Areas
    BY DEF None, Keys
  <2>. QED
    BY <2>1, NamesAssumption
<1>3. Cut(a, d) \in Images /\ Cut(a, d).area = a /\ Cut(a, d).of = d
  BY DEF Cut, Images
<1>4. \A i : KeyOf(i).area = i.area /\ Key(a, d).area = a
  BY DEF KeyOf, Key
<1>. QED
  BY <1>1, <1>2, <1>3, <1>4 DEF KeyOf
-----------------------------------------------------------------------------
(* Operations *)

\* A step of one operation leaves the records of the others.
OnlyMoves(o) == \A q \in Operations \ {o} : op'[q] = op[q]

\* The record x is y at another place.
Carries(x, y) ==
  /\ x.on = y.on /\ x.kind = y.kind /\ x.finding = y.finding /\ x.of = y.of /\ x.from = y.from
  /\ x.key = y.key /\ x.tried = y.tried

(* What Go and End make of the record of an operation.                     *)
LEMMA GoesOn ==
  ASSUME OpsOK, NEW o \in Operations, op[o].on # Nobody,
         NEW at \in {"find", "materialize", "note", "save"}, Go(o, at),
         at \in {"materialize", "note"} => op[o].key \in Keys
  PROVE  /\ OpsOK' /\ OnlyMoves(o) /\ op'[o].at = at /\ Carries(op'[o], op[o])
         /\ op'[o].source = op[o].source /\ op'[o].target = op[o].target
<1>1. op[o] \in Operation /\ PlacedAt(op[o]) /\ op \in [Operations -> Operation]
  BY DEF OpsOK
<1>2. PICK x : x = [op[o] EXCEPT !.at = at]
  OBVIOUS
<1>3. x \in Operation /\ x.at = at /\ Carries(x, op[o]) /\ x.source = op[o].source /\ x.target = op[o].target
  BY <1>1, <1>2 DEF Operation, Places, Carries
<1>4. op'[o] = x /\ OnlyMoves(o) /\ op' \in [Operations -> Operation]
  BY <1>1, <1>2, <1>3 DEF Go, OnlyMoves
<1>5. PlacedAt(x)
  BY <1>1, <1>3 DEF PlacedAt, Carries
<1>6. \A q \in Operations : PlacedAt(op'[q])
  BY <1>4, <1>5 DEF OpsOK, OnlyMoves
<1>. QED
  BY <1>3, <1>4, <1>6 DEF OpsOK

LEMMA Ends ==
  ASSUME OpsOK, NEW o \in Operations, End(o)
  PROVE  /\ OpsOK' /\ OnlyMoves(o) /\ op'[o].at = "ended" /\ op'[o].on = Nobody
         /\ ~Built(op'[o]) /\ ~op'[o].finding
<1>1. PICK x : x = [Idle EXCEPT !.at = "ended"]
  OBVIOUS
<1>2. Idle \in Operation /\ Idle.on = Nobody /\ ~Built(Idle) /\ ~Idle.finding
  BY DEF Idle, Operation, Places, Kinds, Built
<1>3. x \in Operation /\ x.at = "ended" /\ x.on = Nobody /\ ~Built(x) /\ ~x.finding
  BY <1>1, <1>2 DEF Operation, Places, Built, Idle
<1>4. op'[o] = x /\ OnlyMoves(o) /\ op' \in [Operations -> Operation]
  BY <1>1, <1>3 DEF End, OpsOK, OnlyMoves
<1>5. PlacedAt(x)
  BY <1>3 DEF PlacedAt
<1>6. \A q \in Operations : PlacedAt(op'[q])
  BY <1>4, <1>5 DEF OpsOK, OnlyMoves
<1>. QED
  BY <1>3, <1>4, <1>6 DEF OpsOK

(* The records that the operations begin with.                             *)
LEMMA IdleRecord == Idle \in Operation /\ PlacedAt(Idle) /\ ~Built(Idle) /\ ~Idle.finding
BY DEF Idle, Operation, Places, Kinds, PlacedAt, Built

\* x begins on p with a, d and k.
BeginsWith(x, p, kind, a, d, k) ==
  /\ x.on = p /\ x.kind = kind /\ ~x.finding
  /\ x.of = a /\ x.from = d /\ x.key = k /\ x.tried = {}

LEMMA Begins ==
  ASSUME OpsOK, NEW o \in Operations, NEW p \in Projects, NEW a \in Areas,
         NEW at \in {"ensure", "find"}, NEW kind \in Kinds, NEW d \in Areas \cup {Nobody},
         NEW k \in Keys \cup {None},
         at = "ensure" => kind # "repair" /\ d # Nobody /\ k \in Keys,
         Begin(o, p, at, kind, a, d, k)
  PROVE  OpsOK' /\ OnlyMoves(o) /\ op'[o].at = at /\ BeginsWith(op'[o], p, kind, a, d, k)
<1> PICK x : x = [Idle EXCEPT !.at = at, !.on = p, !.kind = kind, !.of = a, !.from = d, !.key = k]
  OBVIOUS
<1>1. x \in Operation
  BY IdleRecord DEF Operation, Places, Kinds
<1>2. x.at = at /\ x.on = p /\ x.kind = kind /\ x.of = a /\ x.from = d /\ x.key = k
  BY IdleRecord DEF Operation
<1>3. x.finding = Idle.finding /\ x.tried = Idle.tried
  BY IdleRecord DEF Operation
<1>4. ~x.finding /\ x.tried = {}
  BY <1>3, IdleRecord DEF Idle
<1>5. p # Nobody
  BY NamesAssumption
<1>6. PlacedAt(x)
  BY <1>2, <1>4, <1>5 DEF PlacedAt, Built
<1>7. op' = [op EXCEPT ![o] = x]
  BY DEF Begin
<1>8. op' \in [Operations -> Operation] /\ op'[o] = x /\ OnlyMoves(o)
  BY <1>1, <1>7 DEF OpsOK, OnlyMoves
<1>9. \A q \in Operations : PlacedAt(op'[q])
  BY <1>6, <1>8 DEF OpsOK, OnlyMoves
<1>. QED
  BY <1>2, <1>4, <1>8, <1>9 DEF OpsOK, BeginsWith
-----------------------------------------------------------------------------
(* Types *)

FsOK(f) == f \in [Paths -> SUBSET (Files \cup Links)] /\ \A x \in Paths : AtMostOne(f[x])

LEMMA PutsOne ==
  ASSUME FsOK(fs), NEW x \in Paths, NEW s \in SUBSET (Files \cup Links), AtMostOne(s)
  PROVE  FsOK([fs EXCEPT ![x] = s])
<1>1. \A y \in Paths : [fs EXCEPT ![x] = s][y] = IF y = x THEN s ELSE fs[y]
  BY DEF FsOK
<1>2. [fs EXCEPT ![x] = s] \in [Paths -> SUBSET (Files \cup Links)]
  BY DEF FsOK
<1>. QED
  BY <1>1, <1>2 DEF FsOK

LEMMA PutTyped ==
  ASSUME TypeInv, NEW o \in Operations, op[o].at = "link", NEW way
  PROVE  /\ Put(o, way) \in SUBSET (Files \cup Links) /\ AtMostOne(Put(o, way))
         /\ way = "copy" /\ Put(o, way) # {} =>
              /\ fs[op[o].source] \cap Files # {}
              /\ Put(o, way) \in {fs[op[o].target], {Copied(o)}} /\ Put(o, way) \subseteq Files
<1> DEFINE there == fs[op[o].target]
           file  == fs[op[o].source] \cap Files
<1>1. op[o].target \in Paths /\ op[o].source \in Paths
  BY DEF TypeInv, OpsOK, PlacedAt
<1>2. AtMostOne(there) /\ AtMostOne(fs[op[o].source]) /\ there \subseteq Files \cup Links
  BY <1>1 DEF TypeInv
<1>3. AtMostOne(file)
  BY <1>2 DEF AtMostOne
<1>4. Link(op[o].source) \in Links /\ Copied(o) \in Files
  BY <1>1, MadeInFiles DEF Links
<1>5. AtMostOne({}) /\ AtMostOne({Link(op[o].source)}) /\ AtMostOne({Copied(o)})
  BY <1>4 DEF AtMostOne
<1> HIDE DEF there, file
<1>6. Put(o, way) \in {{}, file, {Link(op[o].source)}, there, {Copied(o)}}
  <2>1. CASE way \notin Works
    BY <2>1 DEF Put
  <2>2. CASE way = "hardlink"
    BY <2>2 DEF Put, there, file
  <2>3. CASE way = "symlink"
    BY <2>3 DEF Put, there, file
  <2>4. CASE way = "copy"
    BY <2>4 DEF Put, there, file
  <2>5. way \in Works => way \in {"hardlink", "symlink", "copy"}
    BY WaysAssumption DEF Ways
  <2>. QED
    BY <2>1, <2>2, <2>3, <2>4, <2>5
<1>7. file \subseteq Files
  BY DEF file
<1>8. ASSUME way = "copy", Put(o, way) # {}
      PROVE  file # {} /\ Put(o, way) \in {there, {Copied(o)}} /\ Put(o, way) \subseteq Files
  BY <1>8, <1>4 DEF Put, there, file
<1>9. Put(o, way) \in SUBSET (Files \cup Links) /\ AtMostOne(Put(o, way))
  BY <1>2, <1>3, <1>4, <1>5, <1>6, <1>7
<1>. QED
  BY <1>8, <1>9 DEF there, file

(* The paths and images that a step leaves keep to their ranges.           *)
FilesInv ==
  /\ FsOK(fs) /\ image \in [Files -> Images \cup {Blank}]
  /\ \A x \in Paths : \A f \in fs[x] \cap Files : image[f] \in Images

LEMMA StepKeepsFiles ==
  ASSUME TypeInv, [Next]_vars
  PROVE  FilesInv'
<1>1. FilesInv
  BY DEF TypeInv, FilesInv, FsOK
<1>2. CASE UNCHANGED <<fs, image>>
  BY <1>1, <1>2 DEF FilesInv, FsOK
<1>3. ASSUME NEW o \in Operations, EnsureCog(o)
      PROVE  FilesInv'
  <2> DEFINE a == Cut(op[o].of, op[o].from)
             x == Resolve(op[o].key)
  <2>0. op[o].at = "ensure" /\ op[o] \in Operation /\ PlacedAt(op[o])
    BY <1>3 DEF EnsureCog, TypeInv, OpsOK
  <2>1. a \in Images /\ op[o].key \in Keys
    BY <2>0, KeyFacts DEF PlacedAt, Built, Operation
  <2>2. x \in Paths
    BY <2>1, InPaths, ResolvesToPaths
  <2>3. Made(o) \in Files /\ AtMostOne({Made(o)})
    BY MadeInFiles DEF AtMostOne
  <2>4. CASE UNCHANGED <<fs, image>>
    BY <2>4, <1>2
  <2>5. CASE fs' = [fs EXCEPT ![x] = {Made(o)}] /\ image' = [image EXCEPT ![Made(o)] = a]
    <3>1. FsOK(fs')
      BY <1>1, <2>2, <2>3, <2>5, PutsOne DEF FilesInv
    <3>2. image' \in [Files -> Images \cup {Blank}]
      BY <1>1, <2>1, <2>3, <2>5 DEF FilesInv
    <3>3. \A f \in Files : image[f] \in Images => image'[f] \in Images
      BY <1>1, <2>1, <2>5 DEF FilesInv
    <3>4. image'[Made(o)] \in Images
      BY <1>1, <2>1, <2>3, <2>5 DEF FilesInv
    <3>5. ASSUME NEW y \in Paths, NEW f \in fs'[y] \cap Files PROVE image'[f] \in Images
      BY <1>1, <2>5, <3>3, <3>4, <3>5 DEF FilesInv, FsOK
    <3>. QED
      BY <3>1, <3>2, <3>5 DEF FilesInv, FsOK
  <2>. QED
    BY <1>3, <2>4, <2>5 DEF EnsureCog
<1>4. ASSUME NEW o \in Operations, Materialize(o)
      PROVE  FilesInv'
  <2> DEFINE p == Resolve(op[o].on)
  <2>1. op[o].on \in Projects
    BY <1>4 DEF Materialize, TypeInv, OpsOK, PlacedAt, Operation
  <2>2. p \in Paths
    BY <2>1, InPaths, ResolvesToPaths
  <2>3. image' = image /\ fs' \in {fs, [fs EXCEPT ![p] = Nothing]}
    BY <1>4 DEF Materialize
  <2>4. AtMostOne(Nothing)
    BY DEF AtMostOne, Nothing
  <2>5. FsOK([fs EXCEPT ![p] = Nothing])
    BY <1>1, <2>2, <2>4, PutsOne DEF FilesInv, Nothing
  <2>6. \A y \in Paths : [fs EXCEPT ![p] = Nothing][y] \subseteq fs[y]
    BY <1>1 DEF FilesInv, FsOK, Nothing
  <2>. QED
    BY <1>1, <2>3, <2>5, <2>6 DEF FilesInv, FsOK
<1>5. ASSUME NEW o \in Operations, LinkCog(o)
      PROVE  FilesInv'
  <2> DEFINE way == Way(op[o].tried)
             new == Put(o, way)
             t   == op[o].target
             s   == op[o].source
  <2>1. t \in Paths /\ s \in Paths /\ op[o].at = "link"
    BY <1>5 DEF LinkCog, TypeInv, OpsOK, PlacedAt
  <2>2. /\ new \in SUBSET (Files \cup Links) /\ AtMostOne(new)
        /\ way = "copy" /\ new # {} =>
             fs[s] \cap Files # {} /\ new \in {fs[t], {Copied(o)}} /\ new \subseteq Files
    BY <2>1, PutTyped
  <2>3. fs' = [fs EXCEPT ![t] = new]
    BY <1>5 DEF LinkCog
  <2>4. FsOK(fs')
    BY <1>1, <2>1, <2>2, <2>3, PutsOne DEF FilesInv
  <2>5. CASE way = "copy" /\ new # {}
    <3>1. PICK g \in Files : g \in fs[s]
      BY <2>2, <2>5
    <3>2. fs[s] \subseteq Files
      BY <1>1, <2>1, <3>1 DEF FilesInv, FsOK, AtMostOne
    <3>3. image[g] \in Imagery(s) /\ image[g] \in Images
      BY <1>1, <2>1, <3>1, <3>2, ResolvesToPaths DEF Imagery, FilesInv
    <3> DEFINE c == CHOOSE i \in Imagery(s) : TRUE
    <3>4. c \in Images
      <4>1. Imagery(s) = {image[f] : f \in fs[s]}
        BY <2>1, <3>2, ResolvesToPaths DEF Imagery
      <4>2. \A i \in Imagery(s) : i \in Images
        BY <1>1, <2>1, <3>2, <4>1 DEF FilesInv
      <4>. QED
        BY <3>3, <4>2
    <3>5. image' = [f \in Files |-> IF f \in new THEN c ELSE image[f]]
      BY <1>5, <2>5 DEF LinkCog
    <3> HIDE DEF c, new
    <3>6. image' \in [Files -> Images \cup {Blank}]
      BY <1>1, <3>4, <3>5 DEF FilesInv
    <3>7. ASSUME NEW y \in Paths, NEW f \in fs'[y] \cap Files PROVE image'[f] \in Images
      BY <1>1, <2>3, <3>4, <3>5, <3>7 DEF FilesInv, FsOK
    <3>. QED
      BY <2>4, <3>6, <3>7 DEF FilesInv, FsOK
  <2>6. CASE ~(way = "copy" /\ new # {})
    <3>1. image' = image
      BY <1>5, <2>6 DEF LinkCog
    <3>2. \A f \in new \cap Files : image[f] \in Images
      <4>1. new \in {{}, fs[s] \cap Files, {Link(s)}}
        <5>1. way \in {"hardlink", "symlink", "copy"}
          BY WaysAssumption DEF Way, Ways
        <5>. QED
          BY <5>1, <2>6 DEF Put
      <4>2. Link(s) \notin Files
        BY <2>1, FilesAreNoLinks DEF Links
      <4>. QED
        BY <1>1, <2>1, <4>1, <4>2 DEF FilesInv
    <3> HIDE DEF new, t
    <3>. QED
      BY <1>1, <2>1, <2>3, <2>4, <3>1, <3>2 DEF FilesInv, FsOK
  <2>. QED
    BY <2>5, <2>6
<1>6. ASSUME NEW o \in Operations, NEW p \in Projects,
             \/ \E a, d \in Areas : BeginBuild(o, p, a, d)
             \/ \E a \in Areas, k \in Keys \cup {None} : BeginSave(o, p, a, k)
             \/ BeginRepair(o, p) \/ BeginLoad(o, p)
      PROVE  UNCHANGED <<fs, image>>
  BY <1>6 DEF Begin, BeginBuild, BeginSave, BeginRepair, BeginLoad
<1>7. ASSUME NEW o \in Operations, FindCog(o) \/ NoteCog(o) \/ Save(o) \/ Stop(o)
      PROVE  UNCHANGED <<fs, image>>
  BY <1>7 DEF Stop, FindCog, NoteCog, Save
<1>8. UNCHANGED vars => UNCHANGED <<fs, image>>
  BY DEF vars
<1>. QED
  BY <1>2, <1>3, <1>4, <1>5, <1>6, <1>7, <1>8 DEF Next, Step

(* The operations keep to theirs.                                          *)
SavedOK ==
  /\ metadata \in [Keys -> Keys \cup {None}]
  /\ area \in [Projects -> Areas \cup {Nobody}] /\ detected \in [Projects -> Areas \cup {Nobody}]
  /\ reference \in [Projects -> Keys \cup {None}]
  /\ doubt \in SUBSET Projects /\ crossed \in SUBSET Projects /\ met \in BOOLEAN

(* Where an operation is, it has a project, and what it needs.             *)
LEMMA UnderWay ==
  ASSUME OpsOK, NEW o \in Operations
  PROVE  /\ op[o] \in Operation
         /\ op[o].on # Nobody <=> op[o].at \notin {"idle", "ended"}
         /\ op[o].on # Nobody => op[o].on \in Projects /\ op[o].of \in Areas
         /\ op[o].from \in Areas \cup {Nobody} /\ op[o].key \in Keys \cup {None}
         /\ op[o].at \in {"ensure", "materialize", "link", "note"} => op[o].key \in Keys
         /\ op[o].at = "ensure" => Built(op[o])
BY DEF OpsOK, PlacedAt, Operation

(* A record changed in several places.                                     *)
LEMMA Finds ==
  ASSUME OpsOK, NEW o \in Operations, op[o].at = "find", NEW k \in Keys, NEW s \in Paths,
         NEW at \in {"materialize", "note"},
         op' = [op EXCEPT ![o].at = at, ![o].finding = TRUE, ![o].tried = {},
                          ![o].key = k, ![o].source = s]
  PROVE  /\ OpsOK' /\ OnlyMoves(o) /\ op'[o].at = at /\ op'[o].finding /\ op'[o].tried = {}
         /\ op'[o].key = k /\ op'[o].source = s
         /\ op'[o].on = op[o].on /\ op'[o].kind = op[o].kind
         /\ op'[o].of = op[o].of /\ op'[o].from = op[o].from
<1> PICK x : x = [op[o] EXCEPT !.at = at, !.finding = TRUE, !.tried = {}, !.key = k, !.source = s]
  OBVIOUS
<1>1. op[o] \in Operation /\ PlacedAt(op[o]) /\ op \in [Operations -> Operation]
  BY DEF OpsOK
<1>2. x \in Operation
  BY <1>1 DEF Operation, Places
<1>3. /\ x.at = at /\ x.tried = {} /\ x.key = k /\ x.source = s
      /\ x.on = op[o].on /\ x.kind = op[o].kind /\ x.of = op[o].of /\ x.from = op[o].from
  BY <1>1 DEF Operation
<1>4. x.finding
  BY <1>1 DEF Operation
<1>5. PlacedAt(x)
  BY <1>1, <1>3 DEF PlacedAt
<1>6. op'[o] = x /\ OnlyMoves(o) /\ op' \in [Operations -> Operation]
  BY <1>1, <1>2 DEF OnlyMoves
<1>7. \A q \in Operations : PlacedAt(op'[q])
  BY <1>5, <1>6 DEF OpsOK, OnlyMoves
<1>. QED
  BY <1>3, <1>4, <1>6, <1>7 DEF OpsOK

LEMMA Materializes ==
  ASSUME OpsOK, NEW o \in Operations, op[o].at = "materialize", NEW s \in Paths, NEW t \in Paths,
         NEW at \in {"link", "note"},
         op' = [op EXCEPT ![o].at = at, ![o].source = s, ![o].target = t]
  PROVE  /\ OpsOK' /\ OnlyMoves(o) /\ op'[o].at = at /\ Carries(op'[o], op[o])
         /\ op'[o].source = s /\ op'[o].target = t
<1> PICK x : x = [op[o] EXCEPT !.at = at, !.source = s, !.target = t]
  OBVIOUS
<1>1. op[o] \in Operation /\ PlacedAt(op[o]) /\ op \in [Operations -> Operation]
  BY DEF OpsOK
<1>2. x \in Operation
  BY <1>1 DEF Operation, Places
<1>3. x.at = at /\ x.source = s /\ x.target = t /\ Carries(x, op[o])
  BY <1>1 DEF Operation, Carries
<1>5. PlacedAt(x)
  BY <1>1, <1>3 DEF PlacedAt, Carries
<1>6. op'[o] = x /\ OnlyMoves(o) /\ op' \in [Operations -> Operation]
  BY <1>1, <1>2 DEF OnlyMoves
<1>7. \A q \in Operations : PlacedAt(op'[q])
  BY <1>5, <1>6 DEF OpsOK, OnlyMoves
<1>. QED
  BY <1>3, <1>6, <1>7 DEF OpsOK

LEMMA Retries ==
  ASSUME OpsOK, NEW o \in Operations, op[o].at = "link", NEW way \in Ways,
         op' = [op EXCEPT ![o].tried = @ \cup {way}]
  PROVE  OpsOK'
<1> PICK x : x = [op[o] EXCEPT !.tried = op[o].tried \cup {way}]
  OBVIOUS
<1>1. op[o] \in Operation /\ PlacedAt(op[o]) /\ op \in [Operations -> Operation]
  BY DEF OpsOK
<1>2. x \in Operation
  BY <1>1 DEF Operation
<1>3. /\ x.at = op[o].at /\ x.on = op[o].on /\ x.of = op[o].of /\ x.key = op[o].key
      /\ x.source = op[o].source /\ x.target = op[o].target
  BY <1>1 DEF Operation
<1>5. PlacedAt(x)
  BY <1>1, <1>3 DEF PlacedAt
<1>6. op'[o] = x /\ OnlyMoves(o) /\ op' \in [Operations -> Operation]
  BY <1>1, <1>2 DEF OnlyMoves
<1>7. \A q \in Operations : PlacedAt(op'[q])
  BY <1>5, <1>6 DEF OpsOK, OnlyMoves
<1>. QED
  BY <1>6, <1>7 DEF OpsOK

(* A match is a key.                                                       *)
LEMMA MatchIsKey ==
  ASSUME SavedOK, NEW a \in Areas, NEW k \in Matching(a)
  PROVE  k \in Keys /\ metadata[k] \in Keys /\ File(metadata[k]) # {} /\ Resolve(metadata[k]) \in Paths
<1>1. k \in Keys /\ metadata[k].area = a /\ File(metadata[k]) # {} /\ metadata[k] \in Keys \cup {None}
  BY DEF Matching, SavedOK
<1>2. None.area = Nobody /\ a # Nobody
  BY NamesAssumption DEF None
<1>3. metadata[k] \in Keys
  BY <1>1, <1>2
<1>. QED
  BY <1>1, <1>3, InPaths, ResolvesToPaths

LEMMA StepKeepsOps ==
  ASSUME TypeInv, [Next]_vars
  PROVE  OpsOK' /\ SavedOK'
<1>t. OpsOK /\ SavedOK
  BY DEF TypeInv, SavedOK
<1>u. ASSUME NEW o \in Operations, op[o].on # Nobody,
             UNCHANGED <<metadata, saved, crossed, met>>, doubt' \in {doubt, doubt \cup {op[o].on}}
      PROVE  SavedOK'
  BY <1>t, <1>u, UnderWay DEF SavedOK, saved
<1>1. ASSUME NEW o \in Operations, NEW p \in Projects, NEW a \in Areas,
             NEW at \in {"ensure", "find"}, NEW kind \in Kinds, NEW d \in Areas \cup {Nobody},
             NEW k \in Keys \cup {None},
             at = "ensure" => kind # "repair" /\ d # Nobody /\ k \in Keys,
             Begin(o, p, at, kind, a, d, k), doubt' \in {doubt, doubt \cup {p}}
      PROVE  OpsOK' /\ SavedOK'
  <2>1. OpsOK'
    BY <1>1, <1>t, Begins
  <2>2. SavedOK'
    BY <1>1, <1>t DEF Begin, SavedOK, saved
  <2>. QED
    BY <2>1, <2>2
<1>2. ASSUME NEW o \in Operations, NEW p \in Projects,
             \/ \E a, d \in Areas : BeginBuild(o, p, a, d)
             \/ \E a \in Areas, k \in Keys \cup {None} : BeginSave(o, p, a, k)
             \/ BeginRepair(o, p) \/ BeginLoad(o, p)
      PROVE  OpsOK' /\ SavedOK'
  <2>1. /\ area[p] \in Areas \cup {Nobody} /\ detected[p] \in Areas \cup {Nobody}
        /\ reference[p] \in Keys \cup {None}
    BY <1>t DEF SavedOK
  <2>2. ASSUME NEW a \in Areas, NEW d \in Areas, BeginBuild(o, p, a, d) PROVE OpsOK' /\ SavedOK'
    <3>1. Key(a, d) \in Keys /\ d # Nobody
      BY KeyFacts, NamesAssumption
    <3>. QED
      BY <1>1, <2>2, <3>1 DEF BeginBuild, Kinds
  <2>3. ASSUME NEW a \in Areas, NEW k \in Keys \cup {None}, BeginSave(o, p, a, k)
        PROVE  OpsOK' /\ SavedOK'
    BY <1>1, <2>3 DEF BeginSave, Kinds
  <2>4. CASE BeginRepair(o, p)
    BY <1>1, <2>1, <2>4 DEF BeginRepair, Kinds
  <2>5. CASE BeginLoad(o, p)
    <3>1. Key(area[p], detected[p]) \in Keys /\ area[p] \in Areas /\ detected[p] \in Areas
      BY <2>1, <2>5, KeyFacts DEF BeginLoad
    <3>. QED
      BY <1>1, <2>1, <2>5, <3>1 DEF BeginLoad, Kinds
  <2>. QED
    BY <1>2, <2>2, <2>3, <2>4, <2>5
<1>3. ASSUME NEW o \in Operations, Stop(o)
      PROVE  OpsOK' /\ SavedOK'
  BY <1>3, <1>t, <1>u, Ends DEF Stop
<1>f. ASSUME NEW o \in Operations, op[o].on # Nobody, Fail(o), UNCHANGED <<metadata, saved>>
      PROVE  OpsOK' /\ SavedOK'
  BY <1>f, <1>t, <1>u, Ends DEF Fail
<1>4. ASSUME NEW o \in Operations, EnsureCog(o)
      PROVE  OpsOK' /\ SavedOK'
  <2>1. op[o].at = "ensure" /\ op[o].on \in Projects /\ op[o].on # Nobody /\ op[o].key \in Keys
    BY <1>4, <1>t, UnderWay, NamesAssumption DEF EnsureCog
  <2>2. OpsOK'
    BY <1>4, <1>t, <2>1, GoesOn DEF EnsureCog
  <2>3. Misled(o) \subseteq Projects
    <3> SUFFICES ASSUME NEW r \in Operations, op[r].at \in {"materialize", "link"}
                 PROVE  op[r].on \in Projects
      BY DEF Misled
    <3>. QED
      BY <1>t, UnderWay
  <2>4. crossed' \in SUBSET Projects
    BY <1>4, <1>t, <2>3 DEF EnsureCog, SavedOK
  <2>. QED
    BY <1>4, <1>t, <2>2, <2>4 DEF EnsureCog, SavedOK, saved
<1>5. ASSUME NEW o \in Operations, FindCog(o)
      PROVE  OpsOK' /\ SavedOK'
  <2>1. op[o].at = "find" /\ op[o].on # Nobody /\ op[o].of \in Areas
    BY <1>5, <1>t, UnderWay DEF FindCog
  <2>2. SavedOK'
    BY <1>5, <1>t DEF FindCog, SavedOK, saved, history
  <2>3. CASE Go(o, "save")
    BY <1>t, <2>1, <2>2, <2>3, GoesOn
  <2>4. ASSUME NEW k \in Matching(op[o].of),
               op' = [op EXCEPT ![o].at = IF File(op[o].on) = {} THEN "materialize" ELSE "note",
                                ![o].finding = TRUE, ![o].tried = {},
                                ![o].key = metadata[k], ![o].source = Resolve(metadata[k])]
        PROVE  OpsOK'
    <3>1. metadata[k] \in Keys /\ Resolve(metadata[k]) \in Paths
      BY <1>t, <2>1, MatchIsKey
    <3>2. (IF File(op[o].on) = {} THEN "materialize" ELSE "note") \in {"materialize", "note"}
      OBVIOUS
    <3>. QED
      BY <1>t, <2>1, <2>4, <3>1, <3>2, Finds
  <2>. QED
    BY <1>5, <2>2, <2>3, <2>4 DEF FindCog
<1>6. ASSUME NEW o \in Operations, Materialize(o)
      PROVE  OpsOK' /\ SavedOK'
  <2> DEFINE source == Resolve(op[o].key)
             target == Resolve(op[o].on)
             at     == IF fs[target] = fs[source] THEN "note" ELSE "link"
  <2>1. op[o].at = "materialize" /\ op[o].on \in Projects /\ op[o].on # Nobody /\ op[o].key \in Keys
    BY <1>6, <1>t, UnderWay DEF Materialize
  <2>2. source \in Paths /\ target \in Paths
    BY <2>1, InPaths, ResolvesToPaths
  <2>3. CASE Fail(o)
    BY <1>6, <1>f, <2>1, <2>3 DEF Materialize
  <2>4. CASE /\ op' = [op EXCEPT ![o].at = at, ![o].source = source, ![o].target = target]
             /\ UNCHANGED history
    <3>1. at \in {"note", "link"}
      OBVIOUS
    <3> HIDE DEF at, source, target
    <3>2. OpsOK'
      BY <1>t, <2>1, <2>2, <2>4, <3>1, Materializes
    <3>. QED
      BY <1>6, <1>t, <2>4, <3>2 DEF Materialize, SavedOK, saved, history
  <2>. QED
    BY <1>6, <2>3, <2>4 DEF Materialize
<1>7. ASSUME NEW o \in Operations, LinkCog(o)
      PROVE  OpsOK' /\ SavedOK'
  <2> DEFINE way == Way(op[o].tried)
  <2>1. op[o].at = "link" /\ op[o].on # Nobody /\ op[o].key \in Keys
    BY <1>7, <1>t, UnderWay DEF LinkCog
  <2>2. UNCHANGED history => SavedOK'
    BY <1>7, <1>t DEF LinkCog, SavedOK, saved, history
  <2>3. CASE Go(o, "note") /\ UNCHANGED history
    BY <1>t, <2>1, <2>2, <2>3, GoesOn
  <2>4. CASE op' = [op EXCEPT ![o].tried = @ \cup {way}] /\ UNCHANGED history
    <3>1. way \in Ways
      BY WaysAssumption DEF Way, Ways
    <3>. QED
      BY <1>t, <2>1, <2>2, <2>4, <3>1, Retries
  <2>5. CASE Fail(o)
    BY <1>7, <1>f, <2>1, <2>5 DEF LinkCog
  <2>. QED
    BY <1>7, <2>3, <2>4, <2>5 DEF LinkCog
<1>8. ASSUME NEW o \in Operations, NoteCog(o)
      PROVE  OpsOK' /\ SavedOK'
  <2>1. op[o].at = "note" /\ op[o].on # Nobody /\ op[o].key \in Keys
    BY <1>8, <1>t, UnderWay DEF NoteCog
  <2>2. metadata' \in [Keys -> Keys \cup {None}]
    BY <1>8, <1>t, <2>1 DEF NoteCog, SavedOK
  <2>3. Go(o, "save") \/ End(o) \/ Go(o, "find")
    BY <1>8 DEF NoteCog
  <2>4. OpsOK'
    BY <1>t, <2>1, <2>3, GoesOn, Ends
  <2>. QED
    BY <1>8, <1>t, <2>2, <2>4 DEF NoteCog, SavedOK, saved, history
<1>9. ASSUME NEW o \in Operations, Save(o)
      PROVE  OpsOK' /\ SavedOK'
  <2>1. /\ op[o].on \in Projects /\ op[o].of \in Areas /\ op[o].from \in Areas \cup {Nobody}
        /\ op[o].key \in Keys \cup {None}
    BY <1>9, <1>t, UnderWay DEF Save
  <2>2. OpsOK'
    BY <1>9, <1>t, Ends DEF Save
  <2>3. /\ area' \in [Projects -> Areas \cup {Nobody}] /\ detected' \in [Projects -> Areas \cup {Nobody}]
        /\ reference' \in [Projects -> Keys \cup {None}] /\ doubt' \in SUBSET Projects
    BY <1>9, <1>t, <2>1 DEF Save, SavedOK
  <2>. QED
    BY <1>9, <1>t, <2>2, <2>3 DEF Save, SavedOK
<1>10. CASE UNCHANGED vars
  BY <1>10, <1>t DEF vars, saved, history, OpsOK, SavedOK
<1>. QED
  BY <1>2, <1>3, <1>4, <1>5, <1>6, <1>7, <1>8, <1>9, <1>10 DEF Next, Step

LEMMA TypeStep == TypeInv /\ [Next]_vars => TypeInv'
<1> SUFFICES ASSUME TypeInv, [Next]_vars PROVE TypeInv'
  OBVIOUS
<1>1. FilesInv' /\ OpsOK' /\ SavedOK'
  BY StepKeepsFiles, StepKeepsOps
<1>. QED
  BY <1>1 DEF TypeInv, FilesInv, FsOK, SavedOK

LEMMA TypeInit == Init => TypeInv
<1> SUFFICES ASSUME Init PROVE TypeInv
  OBVIOUS
<1>2. \A x \in Paths : fs[x] = {}
  BY DEF Init, Nothing
<1>3. OpsOK
  BY IdleRecord DEF Init, OpsOK
<1>. QED
  BY <1>2, <1>3 DEF Init, TypeInv, AtMostOne

(* The variables keep to their ranges, whatever way is configured and works: *)
(* a path holds one file or one link, a file the imagery of one detection cut *)
(* to one area.                                                              *)
THEOREM ImageryTypes == Spec => []TypeOK
<1>1. Init => TypeInv
  BY TypeInit
<1>2. TypeInv /\ [Next]_vars => TypeInv'
  BY TypeStep
<1>3. TypeInv => TypeOK
  <2> SUFFICES ASSUME TypeInv PROVE TypeOK
    OBVIOUS
  <2>1. \A s \in SUBSET (Files \cup Links) : AtMostOne(s) => Cardinality(s) <= 1
    <3> SUFFICES ASSUME NEW s \in SUBSET (Files \cup Links), AtMostOne(s) PROVE Cardinality(s) <= 1
      OBVIOUS
    <3>1. Cardinality({}) = 0 /\ \A e : Cardinality({e}) = 1
      BY FS_EmptySet, FS_Singleton
    <3>2. CASE s = {}
      BY <3>1, <3>2
    <3>3. CASE \E e \in Files \cup Links : s = {e}
      <4>1. PICK e \in Files \cup Links : s = {e}
        BY <3>3
      <4>2. Cardinality(s) = 1
        BY <3>1, <4>1
      <4>. QED
        BY <4>2
    <3>. QED
      BY <3>2, <3>3 DEF AtMostOne
  <2>2. ASSUME NEW o \in Operations
        PROVE  /\ op[o].at \in Places /\ op[o].kind \in Kinds /\ op[o].finding \in BOOLEAN
               /\ op[o].on \in Projects \cup {Nobody}
               /\ {op[o].of, op[o].from} \subseteq Areas \cup {Nobody}
               /\ op[o].key \in Keys \cup {None}
               /\ {op[o].target, op[o].source} \subseteq Paths \cup {None}
               /\ op[o].tried \in SUBSET Ways
    <3>1. op[o] \in Operation
      BY DEF TypeInv, OpsOK
    <3>. QED
      BY <3>1 DEF Operation
  <2>3. image \in [Files -> [area : Areas \cup {Nobody}, of : Areas \cup {Nobody}]]
    <3>1. Images \cup {Blank} \subseteq [area : Areas \cup {Nobody}, of : Areas \cup {Nobody}]
      BY DEF Images, Blank
    <3>. QED
      BY <3>1 DEF TypeInv
  <2>. QED
    BY <2>1, <2>2, <2>3 DEF TypeInv, TypeOK
<1>. QED
  BY <1>1, <1>2, <1>3, PTL DEF Spec
-----------------------------------------------------------------------------
(* What holds while operations on a project do not meet *)

Parts ==
  /\ Plain /\ Own /\ New /\ Alone
  /\ \A o \in Operations : OnItsWay(o)
  /\ \A p \in Projects \ doubt : Shows(p) \/ Linking(p)

(* What a project shows is kept with its file.                             *)
LEMMA KeepsShows ==
  ASSUME NEW p, NEW k, NEW a, NEW d, ShowsAs(p, k, a, d),
         fs'[p] = fs[p], \A f \in fs[p] : image'[f] = image[f], p \in crossed => p \in crossed'
  PROVE  ShowsAs(p, k, a, d)'
BY DEF ShowsAs, Fits, Exact

(* What is left at the path of a project while another one is worked on.   *)
Left(z) ==
  /\ fs'[z] = fs[z] /\ \A f \in fs[z] : image'[f] = image[f]
  /\ z \in crossed => z \in crossed'
  /\ z \in doubt' <=> z \in doubt
  /\ reference'[z] = reference[z] /\ area'[z] = area[z] /\ detected'[z] = detected[z]

(* An operation on another project is on its way as before.                *)
LEMMA KeepsWay ==
  ASSUME OpsOK, NEW q \in Operations, op'[q] = op[q], OnItsWay(q),
         op[q].on # Nobody => Left(op[q].on),
         op[q].at \in {"materialize", "link"} =>
           /\ fs'[op[q].key] # {}
           /\ Built(op[q]) /\ op[q].on \notin crossed'
                => \A f \in fs'[op[q].key] : image'[f] = Cut(op[q].of, op[q].from)
  PROVE  OnItsWay(q)'
<1> PICK x : x = op[q]
  OBVIOUS
<1>1. op'[q] = x /\ (x.on = Nobody <=> x.at \in {"idle", "ended"}) /\ x.on \in Projects \cup {Nobody}
  BY UnderWay DEF OpsOK, PlacedAt
<1>2. Honest(x)
  BY DEF OnItsWay
<1>3. x.on # Nobody => Left(x.on)
  OBVIOUS
<1>4. x.at \in {"materialize", "link"} =>
        /\ fs'[x.key] # {}
        /\ Built(x) /\ x.on \notin crossed' => \A f \in fs'[x.key] : image'[f] = Cut(x.of, x.from)
        /\ ~Built(x) /\ x.on \notin doubt' => x.from = Nobody
  BY <1>1, <1>3 DEF OnItsWay, Left
<1>5. x.at = "link" => x.target = x.on /\ x.source = x.key /\ fs'[x.on] = {}
  BY <1>1, <1>3 DEF OnItsWay, Left
<1>6. x.at \in {"find", "note", "save"} /\ (Built(x) \/ x.on \notin doubt')
        => ShowsAs(x.on, x.key, x.of, x.from)'
  <2> SUFFICES ASSUME x.at \in {"find", "note", "save"}, Built(x) \/ x.on \notin doubt'
               PROVE  ShowsAs(x.on, x.key, x.of, x.from)'
    OBVIOUS
  <2>1. ShowsAs(x.on, x.key, x.of, x.from)
    BY <1>1, <1>3 DEF OnItsWay, Left
  <2>. QED
    BY <1>1, <1>3, <2>1, KeepsShows DEF Left
<1>7. x.on # Nobody /\ x.kind = "load" /\ x.on \notin doubt'
        => x.key = reference'[x.on] /\ x.of = area'[x.on] /\ x.from = detected'[x.on]
  BY <1>3 DEF OnItsWay, Left
<1>. QED
  BY <1>1, <1>2, <1>4, <1>5, <1>6, <1>7 DEF OnItsWay, Exact

(* A step of o on p leaves the other projects, and a canonical COG that it *)
(* replaces is of its key and not another's that rely on it.               *)
Replaced(o, k) ==
  /\ fs'[k] # {} /\ \A f \in fs'[k] : KeyOf(image'[f]) = k
  /\ \A q \in Operations \ {o} :
       op[q].at \in {"materialize", "link"} /\ op[q].key = k /\ Built(op[q]) /\ op[q].on \notin crossed'
         => \A f \in fs'[k] : image'[f] = Cut(op[q].of, op[q].from)

LEMMA PartsMove ==
  ASSUME TypeInv, Parts, OpsOK', NEW o \in Operations, NEW p \in Projects, OnlyMoves(o),
         \A q \in Operations \ {o} : op[q].on # p,
         op[o].on \in {p, Nobody}, op'[o].on \in {p, Nobody},
         \A z \in Projects \ {p} : Left(z),
         \A x \in Paths : \A f \in fs[x] : image'[f] = image[f],
         \A x \in Paths : fs'[x] \subseteq Files,
         \A k \in Keys : fs'[k] = fs[k] \/ Replaced(o, k),
         \A x \in Paths : \A f \in fs'[x] :
           f \in {Made(o), Copied(o)} \/ \E y \in Paths : f \in fs[y],
         NewOf(o)', OnItsWay(o)',
         p \in doubt' \/ Shows(p)' \/ Linking(p)'
  PROVE  Parts'
<1>1. Plain'
  BY DEF Plain
<1>2. Own'
  <2> SUFFICES ASSUME NEW k \in Keys, NEW f \in fs'[k] PROVE KeyOf(image'[f]) = k
    BY DEF Own
  <2>1. CASE fs'[k] = fs[k]
    BY <2>1, InPaths DEF Parts, Own
  <2>2. CASE Replaced(o, k)
    BY <2>2 DEF Replaced
  <2>. QED
    BY <2>1, <2>2
<1>3. New'
  <2> SUFFICES ASSUME NEW q \in Operations \ {o} PROVE NewOf(q)'
    BY DEF New
  <2>1. NewOf(q) /\ op'[q] = op[q]
    BY DEF Parts, New, OnlyMoves
  <2>2. \A x \in Paths : Made(q) \in fs'[x] => \E y \in Paths : Made(q) \in fs[y]
    BY MadeInFiles
  <2>3. \A x \in Paths : Copied(q) \in fs'[x] => \E y \in Paths : Copied(q) \in fs[y]
    BY MadeInFiles
  <2>. QED
    BY <2>1, <2>2, <2>3 DEF NewOf
<1>4. Alone'
  <2> SUFFICES ASSUME NEW q \in Operations, NEW r \in Operations, op'[q].on # Nobody,
                      op'[q].on = op'[r].on
               PROVE  q = r
    BY DEF Alone
  <2>. QED
    BY DEF Parts, Alone, OnlyMoves
<1>5. \A q \in Operations : OnItsWay(q)'
  <2> SUFFICES ASSUME NEW q \in Operations \ {o} PROVE OnItsWay(q)'
    OBVIOUS
  <2>1. OnItsWay(q) /\ op'[q] = op[q] /\ OpsOK
    BY DEF Parts, OnlyMoves, TypeInv
  <2>2. op[q].on # Nobody => op[q].on \in Projects \ {p}
    BY <2>1, UnderWay
  <2>3. op[q].on # Nobody => Left(op[q].on)
    BY <2>2
  <2>4. op[q].at \in {"materialize", "link"} =>
           /\ fs'[op[q].key] # {}
           /\ Built(op[q]) /\ op[q].on \notin crossed'
                => \A f \in fs'[op[q].key] : image'[f] = Cut(op[q].of, op[q].from)
    <3> SUFFICES ASSUME op[q].at \in {"materialize", "link"}
                 PROVE  /\ fs'[op[q].key] # {}
                        /\ Built(op[q]) /\ op[q].on \notin crossed'
                             => \A f \in fs'[op[q].key] : image'[f] = Cut(op[q].of, op[q].from)
      OBVIOUS
    <3>1. op[q].key \in Keys /\ op[q].on # Nobody
      BY <2>1, UnderWay
    <3>2. CASE Replaced(o, op[q].key)
      BY <3>1, <3>2 DEF Replaced
    <3>3. CASE fs'[op[q].key] = fs[op[q].key]
      <4>1. fs[op[q].key] # {} /\ (Built(op[q]) /\ op[q].on \notin crossed
              => \A f \in fs[op[q].key] : image[f] = Cut(op[q].of, op[q].from))
        BY <2>1 DEF OnItsWay, Exact
      <4>2. op[q].on \notin crossed' => op[q].on \notin crossed
        BY <2>3, <3>1 DEF Left
      <4>3. \A f \in fs[op[q].key] : image'[f] = image[f]
        BY <3>1, InPaths
      <4>. QED
        BY <3>3, <4>1, <4>2, <4>3
    <3>. QED
      BY <3>1, <3>2, <3>3
  <2>. QED
    BY <2>1, <2>3, <2>4, KeepsWay
<1>6. \A z \in Projects \ doubt' : Shows(z)' \/ Linking(z)'
  <2> SUFFICES ASSUME NEW z \in Projects \ {p}, z \notin doubt' PROVE Shows(z)' \/ Linking(z)'
    OBVIOUS
  <2>1. Left(z) /\ z \notin doubt
    BY DEF Left
  <2>2. CASE Shows(z)
    <3> PICK k, a, d : k = reference[z] /\ a = area[z] /\ d = detected[z]
      OBVIOUS
    <3>1. ShowsAs(z, k, a, d)'
      BY <2>1, <2>2, KeepsShows DEF Left, Shows
    <3>2. k = reference'[z] /\ a = area'[z] /\ d = detected'[z]
      BY <2>1 DEF Left
    <3>. QED
      BY <3>1, <3>2 DEF Shows
  <2>3. CASE Linking(z)
    <3>1. PICK q \in Operations : /\ op[q].on = z
                                  /\ op[q].at \in {"materialize", "link", "note", "save"}
                                     \/ (op[q].at = "find" /\ Built(op[q]))
      BY <2>3 DEF Linking
    <3>2. q # o
      BY <3>1, NamesAssumption
    <3>3. op'[q] = op[q]
      BY <3>2 DEF OnlyMoves
    <3>. QED
      BY <3>1, <3>3 DEF Linking
  <2>. QED
    BY <2>1, <2>2, <2>3 DEF Parts
<1>. QED
  BY <1>1, <1>2, <1>3, <1>4, <1>5, <1>6 DEF Parts

(* A step that leaves all the files.                                       *)
LEMMA QuietMove ==
  ASSUME TypeInv, Parts, OpsOK', NEW o \in Operations, NEW p \in Projects, OnlyMoves(o),
         \A q \in Operations \ {o} : op[q].on # p,
         op[o].on \in {p, Nobody}, op'[o].on \in {p, Nobody},
         UNCHANGED <<fs, image>>,
         \A z \in Projects \ {p} : Left(z),
         NewOf(o)', OnItsWay(o)',
         p \in doubt' \/ Shows(p)' \/ Linking(p)'
  PROVE  Parts'
<1>1. \A x \in Paths : \A f \in fs[x] : image'[f] = image[f]
  OBVIOUS
<1>2. \A x \in Paths : fs'[x] \subseteq Files
  BY DEF Parts, Plain
<1>3. \A k \in Keys : fs'[k] = fs[k] \/ Replaced(o, k)
  OBVIOUS
<1>4. \A x \in Paths : \A f \in fs'[x] : f \in {Made(o), Copied(o)} \/ \E y \in Paths : f \in fs[y]
  OBVIOUS
<1>. QED
  BY <1>1, <1>2, <1>3, <1>4, PartsMove

(* The one operation on its project.                                       *)
LEMMA AtWork ==
  ASSUME TypeInv, Parts, NEW o \in Operations, op[o].at \notin {"idle", "ended"}
  PROVE  /\ op[o].on \in Projects /\ op[o].on # Nobody /\ op[o].of \in Areas
         /\ op[o].from \in Areas \cup {Nobody}
         /\ op[o].at \in {"ensure", "materialize", "link", "note"} => op[o].key \in Keys
         /\ op[o].at = "ensure" => Built(op[o])
         /\ \A q \in Operations \ {o} : op[q].on # op[o].on
         /\ OnItsWay(o) /\ Honest(op[o]) /\ NewOf(o) /\ OpsOK
<1>1. OpsOK
  BY DEF TypeInv
<1>2. \A q \in Operations \ {o} : op[o].on # Nobody => op[q].on # op[o].on
  BY DEF Parts, Alone
<1>. QED
  BY <1>1, <1>2, UnderWay DEF Parts, New, OnItsWay

(* What nothing works on is shown.                                         *)
LEMMA IdleShows ==
  ASSUME Parts, NEW p \in Projects, p \notin doubt, \A q \in Operations : op[q].on # p
  PROVE  Shows(p)
BY DEF Parts, Linking

LEMMA BeginParts ==
  ASSUME TypeInv, Parts, ~met', NEW o \in Operations, NEW p \in Projects, NEW a \in Areas,
         NEW at \in {"ensure", "find"}, NEW kind \in Kinds, NEW d \in Areas \cup {Nobody},
         NEW k \in Keys \cup {None}, Begin(o, p, at, kind, a, d, k),
         doubt' \in {doubt, doubt \cup {p}},
         at = "ensure" => kind # "repair" /\ d # Nobody /\ k \in Keys /\ k = Key(a, d),
         at = "find" => kind # "load" /\ (kind = "repair" \/ d = Nobody),
         Shows(p) /\ p \notin doubt' =>
           /\ at = "find" => ShowsAs(p, k, a, d)
           /\ kind = "load" => k = reference[p] /\ a = area[p] /\ d = detected[p]
  PROVE  Parts'
<1> PICK x : x = op'[o]
  OBVIOUS
<1>1. OpsOK /\ op[o].at = "idle" /\ met \in BOOLEAN
  BY DEF TypeInv, Begin
<1>2. OpsOK' /\ OnlyMoves(o) /\ x.at = at /\ BeginsWith(x, p, kind, a, d, k)
  BY <1>1, Begins
<1>3. UNCHANGED <<fs, image, crossed, area, detected, reference>>
  BY DEF Begin, saved
<1>4. \A q \in Operations : op[q].on # p
  BY DEF Begin, Under
<1>5. op[o].on = Nobody /\ x.on = p
  BY <1>1, <1>2, UnderWay DEF BeginsWith
<1>6. \A z \in Projects \ {p} : Left(z)
  BY <1>3 DEF Left
<1>7. Built(x) => at = "ensure"
  BY <1>2 DEF BeginsWith, Built
<1>8. NewOf(o)'
  BY <1>1, <1>2, <1>3, <1>7 DEF Parts, New, NewOf
<1>9. Honest(x)
  <2>1. at = "ensure" => Built(x)
    BY <1>2 DEF BeginsWith, Built
  <2>. QED
    BY <1>2, <1>7, <2>1 DEF Honest, BeginsWith
<1>10. p \notin doubt' => Shows(p) /\ Shows(p)'
  <2> SUFFICES ASSUME p \notin doubt' PROVE Shows(p) /\ Shows(p)'
    OBVIOUS
  <2>1. Shows(p)
    BY <1>4, IdleShows
  <2>. QED
    BY <1>3, <2>1 DEF Shows, ShowsAs, Fits, Exact
<1>11. at = "find" /\ p \notin doubt' => ShowsAs(p, k, a, d)'
  <2> SUFFICES ASSUME at = "find", p \notin doubt' PROVE ShowsAs(p, k, a, d)'
    OBVIOUS
  <2>1. ShowsAs(p, k, a, d)
    BY <1>10
  <2>. QED
    BY <1>3, <2>1, KeepsShows
<1>12. kind = "load" /\ p \notin doubt' => k = reference'[p] /\ a = area'[p] /\ d = detected'[p]
  BY <1>3, <1>10
<1>13. OnItsWay(o)'
  BY <1>2, <1>7, <1>9, <1>11, <1>12 DEF OnItsWay, BeginsWith
<1>. QED
  BY <1>2, <1>3, <1>4, <1>5, <1>6, <1>8, <1>10, <1>13, QuietMove

LEMMA BeginsInParts ==
  ASSUME TypeInv, Parts, ~met', NEW o \in Operations, NEW p \in Projects,
         \/ \E a, d \in Areas : BeginBuild(o, p, a, d)
         \/ \E a \in Areas, k \in Keys \cup {None} : BeginSave(o, p, a, k)
         \/ BeginRepair(o, p) \/ BeginLoad(o, p)
  PROVE  Parts'
<1>1. /\ area[p] \in Areas \cup {Nobody} /\ detected[p] \in Areas \cup {Nobody}
      /\ reference[p] \in Keys \cup {None}
  BY DEF TypeInv
<1>2. ASSUME NEW a \in Areas, NEW d \in Areas, BeginBuild(o, p, a, d) PROVE Parts'
  <2>1. Key(a, d) \in Keys /\ d # Nobody
    BY KeyFacts, NamesAssumption
  <2>. QED
    BY <1>2, <2>1, BeginParts DEF BeginBuild, Kinds
<1>3. ASSUME NEW a \in Areas, NEW k \in Keys \cup {None}, BeginSave(o, p, a, k) PROVE Parts'
  <2>1. Shows(p) /\ p \notin doubt' => ShowsAs(p, k, a, Nobody)
    <3> SUFFICES ASSUME Shows(p), p \notin doubt' PROVE ShowsAs(p, k, a, Nobody)
      OBVIOUS
    <3>1. k = reference[p]
      BY <1>3 DEF BeginSave
    <3>. QED
      BY <3>1 DEF Shows, ShowsAs
  <2>. QED
    BY <1>3, <2>1, BeginParts DEF BeginSave, Kinds
<1>4. CASE BeginRepair(o, p)
  BY <1>1, <1>4, BeginParts DEF BeginRepair, Kinds, Shows
<1>5. CASE BeginLoad(o, p)
  <2>1. Key(area[p], detected[p]) \in Keys /\ area[p] \in Areas /\ detected[p] \in Areas
    BY <1>1, <1>5, KeyFacts DEF BeginLoad
  <2>2. detected[p] # Nobody
    BY <1>5 DEF BeginLoad
  <2>3. Shows(p) => Key(area[p], detected[p]) = reference[p]
    BY <2>2 DEF Shows, ShowsAs
  <2>. QED
    BY <1>5, <2>1, <2>2, <2>3, BeginParts DEF BeginLoad, Kinds
<1>. QED
  BY <1>2, <1>3, <1>4, <1>5

(* An operation that has ended says nothing.                               *)
LEMMA EndedWay ==
  ASSUME NEW o, op'[o].at = "ended", op'[o].on = Nobody, ~Built(op'[o]), ~op'[o].finding
  PROVE  NewOf(o)' /\ OnItsWay(o)'
<1> PICK x : x = op'[o]
  OBVIOUS
<1>1. Honest(x) /\ x.at = "ended" /\ x.on = Nobody
  BY DEF Honest
<1>. QED
  BY <1>1 DEF NewOf, OnItsWay

LEMMA StopInParts ==
  ASSUME TypeInv, Parts, NEW o \in Operations, Stop(o)
  PROVE  Parts'
<1> PICK p : p = op[o].on
  OBVIOUS
<1>1. op[o].at \notin {"idle", "ended"} /\ OpsOK
  BY UnderWay DEF Stop, TypeInv
<1>2. p \in Projects /\ \A q \in Operations \ {o} : op[q].on # p
  BY <1>1, AtWork
<1>3. OpsOK' /\ OnlyMoves(o) /\ op'[o].on = Nobody /\ NewOf(o)' /\ OnItsWay(o)'
  BY <1>1, Ends, EndedWay DEF Stop
<1>4. UNCHANGED <<fs, image, crossed, area, detected, reference>> /\ doubt' = doubt \cup {p}
  BY DEF Stop, saved
<1>5. \A z \in Projects \ {p} : Left(z)
  BY <1>4 DEF Left
<1>. QED
  BY <1>2, <1>3, <1>4, <1>5, QuietMove

(* The canonical COG is of the raster of the operation, and of no other.   *)
LEMMA EnsureInParts ==
  ASSUME TypeInv, Parts, NEW o \in Operations, EnsureCog(o)
  PROVE  Parts'
<1> PICK x, p, k : x = op[o] /\ p = x.on /\ k = x.key
  OBVIOUS
<1>1. x.at = "ensure"
  BY DEF EnsureCog
<1>2. /\ p \in Projects /\ p # Nobody /\ k \in Keys /\ x.of \in Areas /\ x.from \in Areas /\ Built(x)
      /\ \A q \in Operations \ {o} : op[q].on # p
      /\ OnItsWay(o) /\ Honest(x) /\ NewOf(o) /\ OpsOK
  BY <1>1, AtWork DEF Built
<1>3. k = Key(x.of, x.from) /\ k \in Paths /\ k \notin Projects
  BY <1>2, InPaths, NamesAssumption DEF Honest
<1>4. fs[k] \subseteq Files /\ Resolve(k) = k /\ File(k) = fs[k]
  BY <1>3, ResolvesToPaths DEF Parts, Plain
<1>5. Go(o, "materialize") /\ UNCHANGED <<metadata, area, detected, reference, doubt, met>>
  BY DEF EnsureCog, saved
<1>6. PICK y : y = op'[o]
  OBVIOUS
<1>7. OpsOK' /\ OnlyMoves(o) /\ y.at = "materialize" /\ Carries(y, x)
  BY <1>2, <1>5, <1>6, GoesOn
<1>8. Built(y) /\ Honest(y) /\ y.on = p /\ y.key = k /\ y.of = x.of /\ y.from = x.from
  BY <1>1, <1>2, <1>3, <1>7 DEF Carries, Honest, Built
<1>9. Linking(p)'
  BY <1>6, <1>7, <1>8 DEF Linking
<1>10. y.kind = "load" /\ p \notin doubt'
        => k = reference'[p] /\ y.of = area'[p] /\ y.from = detected'[p]
  BY <1>2, <1>5, <1>7 DEF OnItsWay, Carries
<1>11. ASSUME fs'[k] # {}, \A f \in fs'[k] : image'[f] = Cut(x.of, x.from)
       PROVE  OnItsWay(o)'
  BY <1>6, <1>7, <1>8, <1>10, <1>11 DEF OnItsWay, Exact
<1>12. CASE /\ File(k) # {} /\ \A i \in Imagery(k) : i.of = x.from
            /\ crossed' = crossed \ {p} /\ UNCHANGED <<fs, image>>
  <2>1. ASSUME NEW f \in fs[k] PROVE image[f] = Cut(x.of, x.from)
    <3>1. image[f] \in Images /\ KeyOf(image[f]) = Key(x.of, x.from)
      BY <1>2, <1>3, <1>4 DEF TypeInv, Parts, Own
    <3>2. image[f].of = x.from
      BY <1>4, <1>12 DEF Imagery
    <3>3. image[f].area = x.of
      BY <1>2, <3>1, KeyFacts
    <3>. QED
      BY <3>1, <3>2, <3>3 DEF Images, Cut
  <2>2. OnItsWay(o)'
    BY <1>4, <1>11, <1>12, <2>1
  <2>3. NewOf(o)'
    BY <1>1, <1>2, <1>6, <1>7, <1>12 DEF NewOf
  <2>4. \A z \in Projects \ {p} : Left(z)
    BY <1>5, <1>12 DEF Left
  <2>. QED
    BY <1>2, <1>6, <1>7, <1>8, <1>9, <1>12, <2>2, <2>3, <2>4, QuietMove
<1>13. CASE /\ fs' = [fs EXCEPT ![Resolve(k)] = {Made(o)}]
            /\ image' = [image EXCEPT ![Made(o)] = Cut(x.of, x.from)]
            /\ crossed' = (crossed \ {p}) \cup Misled(o)
  <2>1. fs'[k] = {Made(o)} /\ \A z \in Paths \ {k} : fs'[z] = fs[z]
    BY <1>3, <1>4, <1>13 DEF TypeInv
  <2>2. image'[Made(o)] = Cut(x.of, x.from) /\ \A f \in Files \ {Made(o)} : image'[f] = image[f]
    BY <1>13, MadeInFiles DEF TypeInv
  <2>3. \A z \in Paths : Made(o) \notin fs[z] /\ Copied(o) \notin fs[z]
    BY <1>1, <1>2 DEF NewOf
  <2>4. \A z \in Paths : \A f \in fs[z] : image'[f] = image[f]
    BY <2>2, <2>3 DEF Parts, Plain
  <2>5. OnItsWay(o)'
    BY <1>11, <2>1, <2>2
  <2>6. NewOf(o)'
    BY <1>6, <1>7, <2>1, <2>3, MadeInFiles DEF NewOf
  <2>7. \A z \in Projects \ {p} : Left(z)
    <3> SUFFICES ASSUME NEW z \in Projects \ {p} PROVE Left(z)
      OBVIOUS
    <3>1. fs'[z] = fs[z] /\ \A f \in fs[z] : image'[f] = image[f]
      BY <1>3, <2>1, <2>4, InPaths
    <3>. QED
      BY <1>5, <1>13, <3>1 DEF Left
  <2>8. \A z \in Paths : fs'[z] \subseteq Files
    BY <2>1, MadeInFiles DEF Parts, Plain
  <2>9. Replaced(o, k)
    <3>1. KeyOf(Cut(x.of, x.from)) = k
      BY <1>2, <1>3, KeyFacts
    <3>2. ASSUME NEW q \in Operations \ {o}, op[q].at \in {"materialize", "link"}, op[q].key = k,
                 Built(op[q]), op[q].on \notin crossed'
          PROVE  Cut(x.of, x.from) = Cut(op[q].of, op[q].from)
      <4>1. op[q].from = x.from
        BY <1>13, <3>2 DEF Misled
      <4>2. op[q].of \in Areas /\ k = Key(op[q].of, op[q].from)
        BY <3>2, AtWork DEF Honest
      <4>3. op[q].of = x.of
        BY <1>3, <4>2 DEF Key
      <4>. QED
        BY <4>1, <4>3
    <3>. QED
      BY <2>1, <2>2, <3>1, <3>2 DEF Replaced
  <2>10. \A z \in Keys : fs'[z] = fs[z] \/ Replaced(o, z)
    BY <2>1, <2>9, InPaths
  <2>11. \A z \in Paths : \A f \in fs'[z] : f \in {Made(o), Copied(o)} \/ \E w \in Paths : f \in fs[w]
    BY <2>1
  <2>. QED
    BY <1>2, <1>6, <1>7, <1>8, <1>9, <2>4, <2>5, <2>6, <2>7, <2>8, <2>10, <2>11, PartsMove
<1>. QED
  BY <1>12, <1>13 DEF EnsureCog

(* What is found is shown, or the project was in doubt.                    *)
LEMMA FindInParts ==
  ASSUME TypeInv, Parts, NEW o \in Operations, FindCog(o)
  PROVE  Parts'
<1> PICK x, p : x = op[o] /\ p = x.on
  OBVIOUS
<1>1. x.at = "find"
  BY DEF FindCog
<1>2. /\ p \in Projects /\ p # Nobody /\ x.of \in Areas /\ x.from \in Areas \cup {Nobody}
      /\ \A q \in Operations \ {o} : op[q].on # p
      /\ OnItsWay(o) /\ Honest(x) /\ NewOf(o) /\ OpsOK
  BY <1>1, AtWork
<1>3. UNCHANGED <<fs, image, metadata, area, detected, reference, doubt, crossed, met>>
  BY DEF FindCog, saved, history
<1>4. \A z \in Projects \ {p} : Left(z)
  BY <1>3 DEF Left
<1>5. PICK y : y = op'[o]
  OBVIOUS
<1>6. Built(x) \/ p \notin doubt => ShowsAs(p, x.key, x.of, x.from)
  BY <1>1, <1>2 DEF OnItsWay
<1>7. x.kind # "load" /\ ~x.finding
  BY <1>1, <1>2 DEF Honest
<1>8. CASE Go(o, "save")
  <2>1. OpsOK' /\ OnlyMoves(o) /\ y.at = "save" /\ Carries(y, x)
    BY <1>2, <1>5, <1>8, GoesOn
  <2>2. Honest(y) /\ (Built(y) <=> Built(x))
    BY <1>2, <1>7, <2>1 DEF Honest, Carries, Built
  <2>3. Built(x) \/ p \notin doubt => ShowsAs(p, x.key, x.of, x.from)'
    <3> PICK k, a, d : k = x.key /\ a = x.of /\ d = x.from
      OBVIOUS
    <3>. QED
      BY <1>3, <1>6, KeepsShows
  <2>4. OnItsWay(o)' /\ NewOf(o)'
    BY <1>3, <1>5, <1>7, <2>1, <2>2, <2>3 DEF OnItsWay, NewOf, Carries
  <2>5. Linking(p)' /\ op'[o].on = p
    BY <1>5, <2>1 DEF Linking, Carries
  <2>. QED
    BY <1>2, <1>3, <1>4, <2>1, <2>4, <2>5, QuietMove
<1>9. CASE /\ File(p) = {} \/ x.key = None
           /\ \E k \in Matching(x.of) :
                op' = [op EXCEPT ![o].at = IF File(p) = {} THEN "materialize" ELSE "note",
                                 ![o].finding = TRUE, ![o].tried = {},
                                 ![o].key = metadata[k], ![o].source = Resolve(metadata[k])]
  <2>k. PICK k \in Matching(x.of) :
         op' = [op EXCEPT ![o].at = IF File(p) = {} THEN "materialize" ELSE "note",
                          ![o].finding = TRUE, ![o].tried = {},
                          ![o].key = metadata[k], ![o].source = Resolve(metadata[k])]
    BY <1>9
  <2>m. PICK m, s, at : /\ m = metadata[k] /\ s = Resolve(metadata[k])
                      /\ at = IF File(p) = {} THEN "materialize" ELSE "note"
    OBVIOUS
  <2>1. m \in Keys /\ File(m) # {} /\ s \in Paths /\ at \in {"materialize", "note"}
    BY <1>2, <2>m, MatchIsKey DEF SavedOK, TypeInv
  <2>2. /\ OpsOK' /\ OnlyMoves(o) /\ y.at = at /\ y.finding /\ y.tried = {}
        /\ y.key = m /\ y.on = p /\ y.kind = x.kind /\ y.of = x.of /\ y.from = x.from
    <3>1. op' = [op EXCEPT ![o].at = at, ![o].finding = TRUE, ![o].tried = {},
                           ![o].key = m, ![o].source = s]
      BY <2>k, <2>m
    <3>2. op[o].at = "find" /\ OpsOK
      BY <1>1, <1>2
    <3>3. /\ OpsOK' /\ OnlyMoves(o) /\ op'[o].at = at /\ op'[o].finding /\ op'[o].tried = {}
          /\ op'[o].key = m
          /\ op'[o].on = op[o].on /\ op'[o].kind = op[o].kind
          /\ op'[o].of = op[o].of /\ op'[o].from = op[o].from
      BY <2>1, <3>1, <3>2, Finds
    <3>. QED
      BY <1>5, <3>3
  <2>3. m \in Paths /\ p \in Paths
    BY <1>2, <2>1, InPaths
  <2>4. File(m) = fs[m] /\ File(p) = fs[p] /\ fs[m] # {}
    BY <2>1, <2>3, ResolvesToPaths DEF Parts, Plain
  <2>5. (at = "materialize" <=> fs[p] = {}) /\ (fs[p] # {} => x.key = None)
    BY <1>9, <2>m, <2>4
  <2>6. ~Built(x)
    BY <1>6, <2>5 DEF Built, ShowsAs, Fits
  <2>7. p \notin doubt => fs[p] = {} /\ x.from = Nobody
    BY <1>6, <2>5 DEF ShowsAs, Fits
  <2>8. ~Built(y) /\ Honest(y)
    BY <1>7, <2>1, <2>2, <2>6 DEF Built, Honest
  <2>9. OnItsWay(o)'
    <3>1. fs'[y.key] # {} /\ (y.on \notin doubt' => y.at = "materialize" /\ y.from = Nobody)
      BY <1>3, <2>2, <2>4, <2>5, <2>7
    <3>2. y.at \notin {"link", "find", "save"} /\ y.kind # "load"
      BY <1>7, <2>1, <2>2
    <3>. QED
      BY <1>5, <2>8, <3>1, <3>2 DEF OnItsWay
  <2>10. NewOf(o)'
    BY <1>1, <1>2, <1>3, <1>5, <2>1, <2>2, <2>6 DEF NewOf
  <2>11. Linking(p)'
    BY <1>5, <2>1, <2>2 DEF Linking
  <2>. QED
    BY <1>2, <1>3, <1>4, <1>5, <2>2, <2>9, <2>10, <2>11, QuietMove
<1>. QED
  BY <1>8, <1>9 DEF FindCog

(* What is at the project's path is the canonical COG already, or removed. *)
LEMMA MaterializeInParts ==
  ASSUME TypeInv, Parts, NEW o \in Operations, Materialize(o)
  PROVE  Parts'
<1>x. PICK x, p, k : x = op[o] /\ p = x.on /\ k = x.key
  OBVIOUS
<1>1. x.at = "materialize"
  BY <1>x DEF Materialize
<1>2. /\ p \in Projects /\ p # Nobody /\ k \in Keys /\ x.of \in Areas /\ x.from \in Areas \cup {Nobody}
      /\ \A q \in Operations \ {o} : op[q].on # p
      /\ OnItsWay(o) /\ Honest(x) /\ NewOf(o) /\ OpsOK
  BY <1>x, <1>1, AtWork
<1>3. p \in Paths /\ k \in Paths /\ k \notin Projects
  BY <1>2, InPaths, NamesAssumption
<1>4. Resolve(k) = k /\ Resolve(p) = p /\ fs[k] \subseteq Files /\ fs[k] # {}
  BY <1>x, <1>1, <1>2, <1>3, ResolvesToPaths DEF Parts, Plain, OnItsWay
<1>5. PICK at : at = IF fs[p] = fs[k] THEN "note" ELSE "link"
  OBVIOUS
<1>6. /\ fs' = IF fs[p] = fs[k] THEN fs ELSE [fs EXCEPT ![p] = Nothing]
      /\ op' = [op EXCEPT ![o].at = at, ![o].source = k, ![o].target = p]
      /\ UNCHANGED <<image, metadata, area, detected, reference, doubt, crossed, met>>
  BY <1>x, <1>4, <1>5 DEF Materialize, saved, history
<1>7. PICK y : y = op'[o]
  OBVIOUS
<1>8. at \in {"link", "note"}
  BY <1>5
<1>9. op[o].at = "materialize" /\ OpsOK
  BY <1>x, <1>1, <1>2
<1>10. /\ OpsOK' /\ OnlyMoves(o) /\ op'[o].at = at /\ Carries(op'[o], op[o])
       /\ op'[o].source = k /\ op'[o].target = p
  BY <1>3, <1>6, <1>8, <1>9, Materializes
<1>11. Carries(y, x) /\ y.at = at /\ y.source = k /\ y.target = p
  BY <1>x, <1>7, <1>10
<1>12. Honest(y) /\ (Built(y) <=> Built(x)) /\ x.tried = {}
  BY <1>1, <1>2, <1>8, <1>11 DEF Honest, Carries, Built
<1>13. fs'[k] = fs[k] /\ \A z \in Paths \ {p} : fs'[z] = fs[z]
  BY <1>2, <1>3, <1>6
<1>14. \A z \in Projects \ {p} : Left(z)
  BY <1>6, <1>13, InPaths DEF Left
<1>15. x.kind = "load" /\ p \notin doubt
         => k = reference[p] /\ x.of = area[p] /\ x.from = detected[p]
  BY <1>x, <1>2 DEF OnItsWay
<1>16. /\ Built(x) /\ p \notin crossed => Exact(k, x.of, x.from)
       /\ ~Built(x) /\ p \notin doubt => x.from = Nobody
  BY <1>x, <1>1, <1>2 DEF OnItsWay
<1>17. Linking(p)'
  BY <1>7, <1>8, <1>11, <1>x DEF Linking, Carries
<1>18. CASE fs[p] = fs[k]
  <2>1. fs' = fs /\ at = "note"
    BY <1>5, <1>6, <1>18
  <2>2. Built(x) \/ p \notin doubt => ShowsAs(p, k, x.of, x.from)
    <3> SUFFICES ASSUME Built(x) \/ p \notin doubt PROVE ShowsAs(p, k, x.of, x.from)
      OBVIOUS
    <3>1. k # None /\ Fits(p, k)
      BY <1>2, <1>4, <1>18, KeyFacts DEF Fits, Parts, Own
    <3>2. x.from # Nobody => Built(x) /\ k = Key(x.of, x.from)
      BY <1>2, <1>16, <1>x DEF Honest
    <3>3. x.from # Nobody /\ p \notin crossed => Exact(p, x.of, x.from)
      BY <1>16, <1>18, <3>2 DEF Exact
    <3>. QED
      BY <3>1, <3>2, <3>3 DEF ShowsAs
  <2>3. Built(x) \/ p \notin doubt => ShowsAs(p, k, x.of, x.from)'
    <3> PICK a, d : a = x.of /\ d = x.from
      OBVIOUS
    <3>. QED
      BY <1>6, <2>1, <2>2, KeepsShows
  <2>4. OnItsWay(o)' /\ NewOf(o)'
    <3>1. /\ y.at = "note" /\ y.on = p /\ y.key = k /\ y.of = x.of /\ y.from = x.from
          /\ y.kind = x.kind
      BY <1>x, <1>11, <2>1 DEF Carries
    <3>2. /\ Built(y) \/ p \notin doubt' => ShowsAs(y.on, y.key, y.of, y.from)'
          /\ y.kind = "load" /\ p \notin doubt'
               => y.key = reference'[p] /\ y.of = area'[p] /\ y.from = detected'[p]
      BY <1>6, <1>12, <1>15, <2>3, <3>1
    <3>. QED
      BY <1>7, <1>12, <3>1, <3>2 DEF OnItsWay, NewOf
  <2>. QED
    BY <1>x, <1>2, <1>6, <1>7, <1>10, <1>11, <1>14, <1>17, <2>1, <2>4, QuietMove DEF Carries
<1>19. CASE fs[p] # fs[k]
  <2>1. fs'[p] = {} /\ at = "link"
    BY <1>3, <1>5, <1>6, <1>19 DEF TypeInv, Nothing
  <2>2. Built(x) /\ p \notin crossed => Exact(k, x.of, x.from)'
    BY <1>6, <1>13, <1>16 DEF Exact
  <2>3. OnItsWay(o)'
    <3>1. /\ y.at = "link" /\ y.on = p /\ y.key = k /\ y.of = x.of /\ y.from = x.from
          /\ y.kind = x.kind /\ y.target = p /\ y.source = k
      BY <1>x, <1>11, <2>1 DEF Carries
    <3>2. /\ fs'[k] # {} /\ fs'[p] = {}
          /\ Built(y) /\ p \notin crossed' => Exact(y.key, y.of, y.from)'
          /\ ~Built(y) /\ p \notin doubt' => y.from = Nobody
          /\ y.kind = "load" /\ p \notin doubt'
               => y.key = reference'[p] /\ y.of = area'[p] /\ y.from = detected'[p]
      BY <1>4, <1>6, <1>12, <1>13, <1>15, <1>16, <2>1, <2>2, <3>1
    <3>. QED
      BY <1>7, <1>12, <3>1, <3>2 DEF OnItsWay
  <2>4. NewOf(o)'
    BY <1>x, <1>1, <1>2, <1>7, <1>11, <1>13, <2>1 DEF NewOf
  <2>5. \A z \in Paths : fs'[z] \subseteq fs[z]
    BY <1>13, <2>1
  <2>6. \A z \in Paths : fs'[z] \subseteq Files
    BY <2>5 DEF Parts, Plain
  <2>7. \A z \in Keys : fs'[z] = fs[z] \/ Replaced(o, z)
    BY <1>2, <1>13, InPaths, NamesAssumption
  <2>8. \A z \in Paths : \A f \in fs[z] : image'[f] = image[f]
    BY <1>6
  <2>9. \A z \in Paths : \A f \in fs'[z] : f \in {Made(o), Copied(o)} \/ \E w \in Paths : f \in fs[w]
    BY <2>5
  <2>. QED
    BY <1>x, <1>2, <1>7, <1>10, <1>11, <1>14, <1>17, <2>3, <2>4, <2>6, <2>7, <2>8, <2>9, PartsMove DEF Carries
<1>. QED
  BY <1>18, <1>19

(* The way that works puts what the canonical COG shows at the path.       *)
LEMMA LinkInParts ==
  ASSUME TypeInv, Parts, NEW o \in Operations, LinkCog(o), Mode \in Works, Mode # "symlink"
  PROVE  Parts'
<1>x. PICK x, p, k : x = op[o] /\ p = x.on /\ k = x.key
  OBVIOUS
<1>1. x.at = "link"
  BY <1>x DEF LinkCog
<1>2. /\ p \in Projects /\ p # Nobody /\ k \in Keys /\ x.of \in Areas /\ x.from \in Areas \cup {Nobody}
      /\ \A q \in Operations \ {o} : op[q].on # p
      /\ OnItsWay(o) /\ Honest(x) /\ NewOf(o) /\ OpsOK
  BY <1>x, <1>1, AtWork
<1>3. p \in Paths /\ k \in Paths /\ k \notin Projects
  BY <1>2, InPaths, NamesAssumption
<1>4. File(k) = fs[k] /\ fs[k] \subseteq Files /\ fs[k] # {} /\ x.target = p /\ x.source = k /\ fs[p] = {}
  BY <1>x, <1>1, <1>2, <1>3, ResolvesToPaths DEF Parts, Plain, OnItsWay
<1>5. x.tried = {} /\ Way(x.tried) = Mode /\ Mode \in {"hardlink", "copy"}
  BY <1>1, <1>2, WaysAssumption DEF Honest, Way, Ways
<1>6. PICK new : new = Put(o, Mode)
  OBVIOUS
<1>7. new = (IF Mode = "hardlink" THEN fs[k] ELSE {Copied(o)}) /\ new # {}
  BY <1>x, <1>4, <1>5, <1>6 DEF Put, Nothing
<1>8. /\ fs' = [fs EXCEPT ![p] = new] /\ Go(o, "note")
      /\ image' = IF Mode = "copy"
                  THEN [f \in Files |-> IF f \in new THEN CHOOSE i \in Imagery(k) : TRUE ELSE image[f]]
                  ELSE image
      /\ UNCHANGED <<metadata, area, detected, reference, doubt, crossed, met>>
  <2>1. Way(op[o].tried) = Mode /\ op[o].target = p /\ op[o].source = k
    BY <1>x, <1>4, <1>5
  <2>2. Put(o, Way(op[o].tried)) = new
    BY <1>6, <2>1
  <2>3. /\ fs' = [fs EXCEPT ![p] = new] /\ Go(o, "note") /\ UNCHANGED history
        /\ UNCHANGED <<metadata, saved>>
    BY <1>7, <2>1, <2>2 DEF LinkCog
  <2>4. image' = IF Mode = "copy"
                 THEN [f \in Files |-> IF f \in new THEN CHOOSE i \in Imagery(k) : TRUE ELSE image[f]]
                 ELSE image
    BY <1>7, <2>1, <2>2 DEF LinkCog
  <2>. QED
    BY <2>3, <2>4 DEF saved, history
<1>9. op[o].on # Nobody /\ op[o].key \in Keys /\ OpsOK
  BY <1>x, <1>2
<1>10. /\ OpsOK' /\ OnlyMoves(o) /\ op'[o].at = "note" /\ Carries(op'[o], op[o])
  BY <1>8, <1>9, GoesOn
<1>11. PICK y : y = op'[o]
  OBVIOUS
<1>12. Carries(y, x) /\ y.at = "note"
  BY <1>x, <1>10, <1>11
<1>13. Honest(y) /\ (Built(y) <=> Built(x))
  BY <1>1, <1>2, <1>12 DEF Honest, Carries, Built
<1>14. fs'[p] = new /\ \A z \in Paths \ {p} : fs'[z] = fs[z]
  BY <1>3, <1>8 DEF TypeInv
<1>15. \A z \in Paths : Copied(o) \notin fs[z]
  BY <1>x, <1>1, <1>2 DEF NewOf
<1>16. \A z \in Paths : \A f \in fs[z] : image'[f] = image[f]
  BY <1>5, <1>7, <1>8, <1>15 DEF Parts, Plain
<1>17. \A f \in fs'[p] : \E g \in fs[k] : image'[f] = image[g]
  <2>1. CASE Mode = "hardlink"
    BY <1>7, <1>14, <1>16, <1>3, <2>1
  <2>2. CASE Mode = "copy"
    <3>1. (CHOOSE i \in Imagery(k) : TRUE) \in Imagery(k)
      BY <1>4 DEF Imagery
    <3>2. \A f \in fs'[p] : image'[f] = CHOOSE i \in Imagery(k) : TRUE
      BY <1>7, <1>8, <1>14, <2>2, MadeInFiles
    <3>. QED
      BY <1>4, <3>1, <3>2 DEF Imagery
  <2>. QED
    BY <1>5, <2>1, <2>2
<1>18. \A z \in Projects \ {p} : Left(z)
  BY <1>8, <1>14, <1>16, InPaths DEF Left
<1>19. Linking(p)'
  BY <1>x, <1>11, <1>12 DEF Linking, Carries
<1>20. /\ Built(x) /\ p \notin crossed => \A g \in fs[k] : image[g] = Cut(x.of, x.from)
       /\ ~Built(x) /\ p \notin doubt => x.from = Nobody
  BY <1>x, <1>1, <1>2 DEF OnItsWay, Exact
<1>21. Built(x) \/ p \notin doubt => ShowsAs(p, k, x.of, x.from)'
  <2> SUFFICES ASSUME Built(x) \/ p \notin doubt PROVE ShowsAs(p, k, x.of, x.from)'
    OBVIOUS
  <2> PICK a, d : a = x.of /\ d = x.from
    OBVIOUS
  <2>1. fs'[p] # {} /\ \A f \in fs'[p] : KeyOf(image'[f]) = k
    BY <1>2, <1>7, <1>14, <1>17 DEF Parts, Own
  <2>2. k # None
    BY <1>2, KeyFacts
  <2>3. d # Nobody => Built(x) /\ k = Key(a, d)
    BY <1>x, <1>2, <1>20 DEF Honest
  <2>4. d # Nobody /\ p \notin crossed' => \A f \in fs'[p] : image'[f] = Cut(a, d)
    BY <1>8, <1>17, <1>20, <2>3
  <2>5. ShowsAs(p, k, a, d)'
    BY <2>1, <2>2, <2>3, <2>4 DEF ShowsAs, Fits, Exact
  <2>. QED
    BY <2>5
<1>22. x.kind = "load" /\ p \notin doubt
         => k = reference[p] /\ x.of = area[p] /\ x.from = detected[p]
  BY <1>x, <1>2 DEF OnItsWay
<1>23. OnItsWay(o)' /\ NewOf(o)'
  BY <1>x, <1>8, <1>11, <1>12, <1>13, <1>21, <1>22 DEF OnItsWay, NewOf, Carries
<1>24. \A z \in Paths : fs'[z] \subseteq Files
  BY <1>4, <1>7, <1>14, MadeInFiles DEF Parts, Plain
<1>25. \A z \in Keys : fs'[z] = fs[z] \/ Replaced(o, z)
  BY <1>2, <1>14, InPaths, NamesAssumption
<1>26. \A z \in Paths : \A f \in fs'[z] : f \in {Made(o), Copied(o)} \/ \E w \in Paths : f \in fs[w]
  BY <1>3, <1>7, <1>14
<1>. QED
  BY <1>x, <1>2, <1>10, <1>11, <1>12, <1>16, <1>18, <1>19, <1>23, <1>24, <1>25, <1>26, PartsMove DEF Carries

(* What is noted is shown already.                                         *)
LEMMA NoteInParts ==
  ASSUME TypeInv, Parts, NEW o \in Operations, NoteCog(o)
  PROVE  Parts'
<1>x. PICK x, p, k : x = op[o] /\ p = x.on /\ k = x.key
  OBVIOUS
<1>1. x.at = "note"
  BY <1>x DEF NoteCog
<1>2. /\ p \in Projects /\ p # Nobody /\ k \in Keys /\ x.of \in Areas /\ x.from \in Areas \cup {Nobody}
      /\ \A q \in Operations \ {o} : op[q].on # p
      /\ OnItsWay(o) /\ Honest(x) /\ NewOf(o) /\ OpsOK
  BY <1>x, <1>1, AtWork
<1>3. UNCHANGED <<fs, image, area, detected, reference, doubt, crossed, met>>
  BY DEF NoteCog, saved, history
<1>4. \A z \in Projects \ {p} : Left(z)
  BY <1>3 DEF Left
<1>5. PICK y : y = op'[o]
  OBVIOUS
<1>6. Built(x) \/ p \notin doubt => ShowsAs(p, k, x.of, x.from)
  BY <1>x, <1>1, <1>2 DEF OnItsWay
<1>7. Built(x) \/ p \notin doubt => ShowsAs(p, k, x.of, x.from)'
  <2> PICK a, d : a = x.of /\ d = x.from
    OBVIOUS
  <2>. QED
    BY <1>3, <1>6, KeepsShows
<1>8. ASSUME NEW at \in {"find", "save"}, Go(o, at), x.kind # "load",
             at = "find" => ~x.finding /\ Built(x)
      PROVE  Parts'
  <2>1. op[o].on # Nobody /\ OpsOK
    BY <1>x, <1>2
  <2>2. OpsOK' /\ OnlyMoves(o) /\ op'[o].at = at /\ Carries(op'[o], op[o])
    BY <1>8, <2>1, GoesOn
  <2>3. /\ y.at = at /\ y.on = p /\ y.key = k /\ y.of = x.of /\ y.from = x.from
        /\ y.kind = x.kind /\ Carries(y, x)
    BY <1>x, <1>5, <2>2 DEF Carries
  <2>4. Honest(y) /\ (Built(y) <=> Built(x))
    BY <1>1, <1>2, <1>8, <2>3 DEF Honest, Carries, Built
  <2>5. Built(y) \/ p \notin doubt' => ShowsAs(y.on, y.key, y.of, y.from)'
    BY <1>3, <1>7, <2>3, <2>4
  <2>6. OnItsWay(o)' /\ NewOf(o)'
    BY <1>5, <1>8, <2>3, <2>4, <2>5 DEF OnItsWay, NewOf
  <2>7. Linking(p)' /\ op'[o].on = p
    BY <1>5, <1>8, <2>3, <2>4 DEF Linking
  <2>. QED
    BY <1>x, <1>2, <1>3, <1>4, <2>2, <2>6, <2>7, QuietMove
<1>9. CASE x.finding
  BY <1>x, <1>2, <1>8, <1>9 DEF NoteCog, Honest
<1>10. CASE ~x.finding /\ x.kind # "load"
  BY <1>x, <1>1, <1>2, <1>8, <1>10 DEF NoteCog, Honest
<1>11. CASE ~x.finding /\ x.kind = "load"
  <2>1. End(o)
    BY <1>x, <1>11 DEF NoteCog
  <2>2. OpsOK' /\ OnlyMoves(o) /\ op'[o].on = Nobody /\ OnItsWay(o)' /\ NewOf(o)'
    BY <1>2, <2>1, Ends, EndedWay
  <2>3. p \notin doubt' => Shows(p)'
    <3> SUFFICES ASSUME p \notin doubt' PROVE Shows(p)'
      OBVIOUS
    <3>1. k = reference[p] /\ x.of = area[p] /\ x.from = detected[p]
      BY <1>x, <1>2, <1>3, <1>11 DEF OnItsWay
    <3>2. k = reference'[p] /\ x.of = area'[p] /\ x.from = detected'[p]
      BY <1>3, <3>1
    <3>. QED
      BY <1>3, <1>7, <3>2 DEF Shows
  <2>. QED
    BY <1>x, <1>2, <1>3, <1>4, <2>2, <2>3, QuietMove
<1>. QED
  BY <1>9, <1>10, <1>11

(* What is saved is what is shown.                                         *)
LEMMA SaveInParts ==
  ASSUME TypeInv, Parts, NEW o \in Operations, Save(o)
  PROVE  Parts'
<1>x. PICK x, p, k : x = op[o] /\ p = x.on /\ k = x.key
  OBVIOUS
<1>1. x.at = "save"
  BY <1>x DEF Save
<1>2. /\ p \in Projects /\ p # Nobody /\ x.of \in Areas /\ x.from \in Areas \cup {Nobody}
      /\ \A q \in Operations \ {o} : op[q].on # p
      /\ OnItsWay(o) /\ Honest(x) /\ OpsOK
  BY <1>x, <1>1, AtWork
<1>3. /\ UNCHANGED <<fs, image, crossed, met>> /\ End(o)
      /\ reference' = [reference EXCEPT ![p] = k]
      /\ area' = [area EXCEPT ![p] = x.of] /\ detected' = [detected EXCEPT ![p] = x.from]
      /\ doubt' = IF x.kind = "save" /\ x.from # Nobody THEN doubt \ {p} ELSE doubt
  BY <1>x DEF Save
<1>4. /\ reference'[p] = k /\ area'[p] = x.of /\ detected'[p] = x.from
      /\ \A z \in Projects \ {p} : reference'[z] = reference[z] /\ area'[z] = area[z]
                                   /\ detected'[z] = detected[z] /\ (z \in doubt' <=> z \in doubt)
  BY <1>2, <1>3 DEF TypeInv
<1>5. \A z \in Projects \ {p} : Left(z)
  BY <1>3, <1>4 DEF Left
<1>6. OpsOK' /\ OnlyMoves(o) /\ op'[o].on = Nobody /\ OnItsWay(o)' /\ NewOf(o)'
  BY <1>2, <1>3, Ends, EndedWay
<1>7. p \notin doubt' => Shows(p)'
  <2> SUFFICES ASSUME p \notin doubt' PROVE Shows(p)'
    OBVIOUS
  <2>1. Built(x) \/ p \notin doubt
    BY <1>2, <1>3 DEF Honest, Built
  <2> PICK a, d : a = x.of /\ d = x.from
    OBVIOUS
  <2>2. ShowsAs(p, k, a, d)
    BY <1>x, <1>1, <1>2, <2>1 DEF OnItsWay
  <2>3. ShowsAs(p, k, a, d)'
    BY <1>3, <2>2, KeepsShows
  <2>. QED
    BY <1>4, <2>3 DEF Shows
<1>. QED
  BY <1>x, <1>2, <1>3, <1>5, <1>6, <1>7, QuietMove

-----------------------------------------------------------------------------
(* What the theorems rest on *)

Good == ~met => Parts

LEMMA GoodInit == Init => Good
<1> SUFFICES ASSUME Init PROVE Parts
  BY DEF Good
<1>1. /\ \A x \in Paths : fs[x] = {}
      /\ \A p \in Projects : reference[p] = None /\ detected[p] = Nobody
      /\ \A o \in Operations : op[o] = Idle
  BY DEF Init, Nothing
<1>2. Idle.at = "idle" /\ Idle.on = Nobody /\ Honest(Idle)
  BY IdleRecord DEF Idle, Honest
<1>. QED
  BY <1>1, <1>2, InPaths DEF Parts, Plain, Own, New, NewOf, Alone, OnItsWay, Shows, ShowsAs

LEMMA GoodStep ==
  ASSUME Mode \in Works, Mode # "symlink", TypeInv, Good, [Next]_vars
  PROVE  Good'
<1>1. met \in BOOLEAN /\ met' \in BOOLEAN
  BY TypeStep DEF TypeInv
<1>2. met => met'
  <2>1. ASSUME NEW o \in Operations, NEW p \in Projects,
               \/ \E a, d \in Areas : BeginBuild(o, p, a, d)
               \/ \E a \in Areas, k \in Keys \cup {None} : BeginSave(o, p, a, k)
               \/ BeginRepair(o, p) \/ BeginLoad(o, p)
        PROVE  met => met'
    BY <1>1, <2>1 DEF BeginBuild, BeginSave, BeginRepair, BeginLoad, Begin
  <2>2. ASSUME NEW o \in Operations, Step(o) \/ Stop(o)
        PROVE  met' = met
    BY <2>2 DEF Step, Stop, EnsureCog, FindCog, Materialize, LinkCog, NoteCog, Save, Fail, history
  <2>3. CASE UNCHANGED vars
    BY <2>3 DEF vars, history
  <2>. QED
    BY <2>1, <2>2, <2>3 DEF Next
<1> SUFFICES ASSUME ~met' PROVE Parts'
  BY DEF Good
<1>3. Parts
  BY <1>1, <1>2 DEF Good
<1>4. ASSUME NEW o \in Operations, NEW p \in Projects,
             \/ \E a, d \in Areas : BeginBuild(o, p, a, d)
             \/ \E a \in Areas, k \in Keys \cup {None} : BeginSave(o, p, a, k)
             \/ BeginRepair(o, p) \/ BeginLoad(o, p)
      PROVE  Parts'
  BY <1>3, <1>4, BeginsInParts
<1>5. ASSUME NEW o \in Operations, Step(o) PROVE Parts'
  <2>1. CASE EnsureCog(o)   BY <1>3, <2>1, EnsureInParts
  <2>2. CASE FindCog(o)     BY <1>3, <2>2, FindInParts
  <2>3. CASE Materialize(o) BY <1>3, <2>3, MaterializeInParts
  <2>4. CASE LinkCog(o)     BY <1>3, <2>4, LinkInParts
  <2>5. CASE NoteCog(o)     BY <1>3, <2>5, NoteInParts
  <2>6. CASE Save(o)        BY <1>3, <2>6, SaveInParts
  <2>. QED
    BY <1>5, <2>1, <2>2, <2>3, <2>4, <2>5, <2>6 DEF Step
<1>6. ASSUME NEW o \in Operations, Stop(o) PROVE Parts'
  BY <1>3, <1>6, StopInParts
<1>7. CASE UNCHANGED vars
  <2>1. UNCHANGED <<fs, image, area, detected, reference, op, doubt, crossed>>
    BY <1>7 DEF vars, history, saved
  <2>. QED
    BY <1>3, <2>1 DEF Parts, Plain, Own, New, NewOf, Alone, OnItsWay, Shows, ShowsAs, Fits, Exact,
                      Linking
<1>. QED
  BY <1>4, <1>5, <1>6, <1>7 DEF Next

LEMMA ImageryIs ==
  ASSUME Parts
  PROVE  \A x \in Paths : Imagery(x) = {image[f] : f \in fs[x]}
BY ResolvesToPaths DEF Parts, Plain, Imagery

(* Where the configured way is a hard link or a copy and works, a canonical  *)
(* COG holds imagery of its own key, cut to the area and with the bounds     *)
(* that the key says, whatever is built, materialized, repaired or stopped   *)
(* and from whichever detection's raster, unless two operations on a project *)
(* met.                                                                      *)
THEOREM CanonicalIsOwn ==
  ASSUME Mode \in Works, Mode # "symlink"
  PROVE  Spec => []CanonicalOwn
<1>1. Init => TypeInv /\ Good
  BY TypeInit, GoodInit
<1>2. TypeInv /\ Good /\ [Next]_vars => TypeInv' /\ Good'
  BY TypeStep, GoodStep
<1>3. Good => CanonicalOwn
  <2> SUFFICES ASSUME Parts, NEW k \in Keys, NEW i \in Imagery(k) PROVE KeyOf(i) = k
    BY DEF Good, CanonicalOwn
  <2>1. i \in {image[f] : f \in fs[k]}
    BY InPaths, ImageryIs
  <2>. QED
    BY <2>1 DEF Parts, Own
<1>. QED
  BY <1>1, <1>2, <1>3, PTL DEF Spec

(* There, the COG of a project that nothing is working on, and that no stop, *)
(* failure or dropped reference left in doubt, is of the key its milestone   *)
(* refers to; if the milestone names a detection it shows that detection's   *)
(* raster cut to the present area, unless another build replaced the         *)
(* canonical COG between the two steps of its own.                           *)
THEOREM ReferenceIsShown ==
  ASSUME Mode \in Works, Mode # "symlink"
  PROVE  Spec => []ReferenceShown
<1>1. Init => TypeInv /\ Good
  BY TypeInit, GoodInit
<1>2. TypeInv /\ Good /\ [Next]_vars => TypeInv' /\ Good'
  BY TypeStep, GoodStep
<1>3. TypeInv /\ Good => ReferenceShown
  <2> SUFFICES ASSUME TypeInv, Parts, NEW p \in Projects \ doubt, reference[p] # None, Under(p) = {}
               PROVE  \E i \in Imagery(p) :
                        /\ Imagery(p) = {i} /\ KeyOf(i) = reference[p]
                        /\ detected[p] # Nobody /\ p \notin crossed => i = Cut(area[p], detected[p])
    BY DEF Good, ReferenceShown
  <2>1. p \in Paths /\ Imagery(p) = {image[f] : f \in fs[p]}
    BY InPaths, ImageryIs
  <2>2. ~Linking(p)
    BY DEF Linking, Under
  <2>3. ShowsAs(p, reference[p], area[p], detected[p])
    BY <2>2 DEF Parts, Shows
  <2>4. fs[p] # {} /\ AtMostOne(fs[p])
    BY <2>1, <2>3 DEF ShowsAs, Fits, TypeInv
  <2>5. PICK f : fs[p] = {f}
    BY <2>4 DEF AtMostOne
  <2>6. Imagery(p) = {image[f]}
    BY <2>1, <2>5
  <2>. QED
    BY <2>3, <2>5, <2>6 DEF ShowsAs, Fits, Exact
<1>. QED
  BY <1>1, <1>2, <1>3, PTL DEF Spec
=============================================================================
