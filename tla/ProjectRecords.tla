-------------------------- MODULE ProjectRecords ---------------------------
(***************************************************************************)
(* The copies of a temporal project: project.json with its compact         *)
(* metadata, the registry of all projects, and with persistence_backend    *)
(* postgres the rows of the database with the payload files they refer to. *)
(* Every operation writes its own copy of the project to each of them in   *)
(* turn; only the rows are written in a transaction.                       *)
(* A write is known by the operation that made it and by its number there. *)
(***************************************************************************)
EXTENDS Naturals, FiniteSets

CONSTANTS
  Projects,
  Operations,  \* operations on projects; the data one writes is named after it
  Kinds,       \* what they are, a subset of OperationKinds
  Limit        \* bound: how many are under way at once

\* save: a client's copy.  change: an override or a run, from a loaded copy.
\* bundle: an export that notes its path, no record.  repair: a load that
\* writes what it completed.
OperationKinds == {"save", "change", "bundle", "repair"}

ASSUME NamesAssumption == "nobody" \notin Projects \cup Operations
ASSUME KindsAssumption == Kinds \subseteq OperationKinds
ASSUME LimitAssumption == Limit \in Nat

VARIABLES
  json,      \* project.json, at most one write; a torn one has no data
  compact,   \* project_compact_metadata.json: its data, and whose mtime it notes
  registry,  \* the set of the projects listed, none if it does not parse
  temp,      \* .project.json.tmp
  row,       \* the row and its milestones: data, and the write whose hash it has
  layers,    \* the AOI layers beside them
  payload,   \* the payload files the rows refer to
  op,        \* the operations
  holder,    \* the transaction that has locked the rows of a project
  latest,    \* history: the data of the last operation that met no other
  doubt,     \* history: the copies that met or stopped operations left in doubt
  unlisted   \* history: did two updates of the registry meet, or one stop

files   == <<json, compact, temp>>
rows    == <<row, layers, payload, holder>>
history == <<latest, doubt, unlisted>>
vars    == <<files, registry, rows, op, history>>

Nobody == "nobody"
Nothing == {}

Data   == Operations \cup {Nobody}
Half   == [of |-> Nobody]
Writes == [of : Operations, by : Operations, nr : 1 .. 2] \cup {Half}
Noted  == [of : Operations, json : Writes]
Rows   == [of : Operations, hash : Writes]

Places == {"idle", "load", "registry", "reopen", "relist", "open", "write", "stat",
           "sidecar", "temp", "move", "hash", "insert", "lock", "payload", "commit",
           "done", "failed", "stopped"}
Ended  == {"done", "failed", "stopped"}

\* nr: how many times it wrote project.json.  listed, write, under: the
\* registry, the write of project.json and the layers it read.
Idle == [at |-> "idle", on |-> Nobody, kind |-> Nobody, data |-> Nobody, nr |-> 0,
         listed |-> {}, write |-> {}, under |-> {}, met |-> FALSE]

Under(p)  == {o \in Operations : op[o].on = p /\ op[o].at \notin Ended}
Active    == {o \in Operations : op[o].at \notin Ended \cup {"idle"}}
Listing   == {o \in Operations : op[o].at \in {"reopen", "relist"}}
Go(o, at) == op' = [op EXCEPT ![o].at = at]
Seen(o, at) == op' = [op EXCEPT ![o].at = at, ![o].write = {}]
Over(at)  == [Idle EXCEPT !.at = at]

Write(o) == [of |-> op[o].data, by |-> o, nr |-> op[o].nr + 1]
Records(kind) == kind \in {"save", "change"}

Init ==
  /\ json = [p \in Projects |-> Nothing] /\ compact = [p \in Projects |-> Nothing]
  /\ temp = [p \in Projects |-> Nothing] /\ registry = {{}}
  /\ row = [p \in Projects |-> Nothing] /\ layers = [p \in Projects |-> {}]
  /\ payload = [p \in Projects |-> Nobody] /\ holder = [p \in Projects |-> Nobody]
  /\ op = [o \in Operations |-> Idle]
  /\ latest = [p \in Projects |-> Nobody] /\ doubt = [p \in Projects |-> {}]
  /\ unlisted = FALSE

-----------------------------------------------------------------------------
(* Operations begin, end and stop *)

\* A project comes into being by a save of a client.
Begin(o, p, kind) ==
  /\ op[o].at = "idle" /\ Cardinality(Active) < Limit
  /\ kind = "save" \/ json[p] # Nothing
  /\ op' = [q \in Operations |->
              IF q = o THEN [Idle EXCEPT !.at = IF kind = "save" THEN "registry" ELSE "load",
                                         !.on = p, !.kind = kind,
                                         !.data = IF kind = "repair" THEN Nobody ELSE o,
                                         !.met = Under(p) # {}]
              ELSE IF q \in Under(p) THEN [op[q] EXCEPT !.met = TRUE] ELSE op[q]]
  /\ UNCHANGED <<files, registry, rows, history>>

\* What an operation that did not meet another leaves in doubt: it has settled
\* all it wrote.
DoubtAfter(o) ==
  LET known == doubt[op[o].on] IN
  IF op[o].met THEN {"files", "rows", "hash"}
  ELSE CASE Records(op[o].kind)   -> {}
         [] op[o].kind = "bundle" -> (known \ {"files"}) \cup {"rows", "hash"}
         [] op[o].kind = "repair" -> known \cup {"hash"}

End(o) ==
  /\ op' = [op EXCEPT ![o] = Over("done")]
  /\ doubt' = [doubt EXCEPT ![op[o].on] = DoubtAfter(o)]
  /\ latest' = [latest EXCEPT ![op[o].on] = IF op[o].kind = "repair" THEN @ ELSE op[o].data]
  /\ UNCHANGED unlisted

\* An exception: what is written stays written, the transaction is rolled back.
Fail(o, at) ==
  /\ op' = [op EXCEPT ![o] = Over(at)]
  /\ doubt' = [doubt EXCEPT ![op[o].on] = {"files", "rows", "hash"}]
  /\ unlisted' = (unlisted \/ op[o].at = "relist")
  /\ holder' = [p \in Projects |-> IF holder[p] = o THEN Nobody ELSE holder[p]]
  /\ UNCHANGED latest

Stop(o) ==
  /\ o \in Active
  /\ Fail(o, "stopped")
  /\ UNCHANGED <<files, registry, row, layers, payload>>

-----------------------------------------------------------------------------
(* _load_project and _save_project: the files *)

\* A load fails on a project.json that does not parse.
Load(o) ==
  /\ op[o].at = "load"
  /\ LET p == op[o].on IN \E w \in json[p] :
       \/ /\ w = Half /\ Fail(o, "failed")
       \/ /\ w # Half /\ op[o].kind # "repair" /\ Go(o, "registry")
          /\ UNCHANGED <<holder, history>>
       \/ /\ w # Half /\ op[o].kind = "repair"
          /\ \E at \in {"open", "stat"} : op' = [op EXCEPT ![o].at = at, ![o].data = w.of]
          /\ UNCHANGED <<holder, history>>
  /\ UNCHANGED <<files, registry, row, layers, payload>>

\* _load_project_registry takes one that does not parse for an empty one.
ReadRegistry(o) ==
  /\ op[o].at = "registry"
  /\ op' = [op EXCEPT ![o].at = "reopen", ![o].listed = UNION registry]
  /\ unlisted' = (unlisted \/ Listing # {})
  /\ UNCHANGED <<files, registry, rows, latest, doubt>>

OpenRegistry(o) ==
  /\ op[o].at = "reopen"
  /\ registry' = {}
  /\ Go(o, "relist")
  /\ UNCHANGED <<files, rows, history>>

\* Mutant: only the project itself is listed.
WriteRegistryAlone(o) ==
  /\ op[o].at = "relist"
  /\ registry' = {{op[o].on}}
  /\ op' = [op EXCEPT ![o].at = "open", ![o].listed = {}]
  /\ UNCHANGED <<files, rows, history>>

WriteRegistry(o) ==
  /\ op[o].at = "relist"
  /\ registry' = {op[o].listed \cup {op[o].on}}
  /\ op' = [op EXCEPT ![o].at = "open", ![o].listed = {}]
  /\ UNCHANGED <<files, rows, history>>

\* project.json is written in place.
OpenJson(o) ==
  /\ op[o].at = "open"
  /\ json' = [json EXCEPT ![op[o].on] = {Half}]
  /\ Go(o, "write")
  /\ UNCHANGED <<compact, temp, registry, rows, history>>

WriteJson(o) ==
  /\ op[o].at = "write"
  /\ json' = [json EXCEPT ![op[o].on] = {Write(o)}]
  /\ op' = [op EXCEPT ![o].at = "stat", ![o].nr = @ + 1]
  /\ UNCHANGED <<compact, temp, registry, rows, history>>

\* The compact metadata notes the mtime project.json has by then.
Stat(o) ==
  /\ op[o].at = "stat"
  /\ op' = [op EXCEPT ![o].at = "sidecar", ![o].write = json[op[o].on]]
  /\ UNCHANGED <<files, registry, rows, history>>

\* Mutant: the metadata written with the rows keeps the mtime of the first file.
WriteSidecarOnce(o) ==
  /\ op[o].at = "sidecar"
  /\ compact' = [compact EXCEPT ![op[o].on] =
       IF op[o].nr = 2 THEN @ ELSE {[of |-> op[o].data, json |-> w] : w \in op[o].write}]
  /\ IF op[o].nr = 2 THEN Seen(o, "hash") /\ UNCHANGED history
     ELSE IF Records(op[o].kind) THEN Seen(o, "temp") /\ UNCHANGED history
     ELSE End(o)
  /\ UNCHANGED <<json, temp, registry, rows>>

\* ... and ends the operations that do not go on to the record.
WriteSidecar(o) ==
  /\ op[o].at = "sidecar"
  /\ compact' = [compact EXCEPT ![op[o].on] =
                   {[of |-> op[o].data, json |-> w] : w \in op[o].write}]
  /\ IF op[o].nr = 2 THEN Seen(o, "hash") /\ UNCHANGED history
     ELSE IF Records(op[o].kind) THEN Seen(o, "temp") /\ UNCHANGED history
     ELSE End(o)
  /\ UNCHANGED <<json, temp, registry, rows>>

-----------------------------------------------------------------------------
(* save_project of the repository: the files again, then one transaction *)

\* The temporary file has one name for all.
WriteTemp(o) ==
  /\ op[o].at = "temp"
  /\ temp' = [temp EXCEPT ![op[o].on] = {Write(o)}]
  /\ Go(o, "move")
  /\ UNCHANGED <<json, compact, registry, rows, history>>

MoveTemp(o) ==
  /\ op[o].at = "move"
  /\ LET p == op[o].on IN
       \/ /\ temp[p] = Nothing /\ Fail(o, "failed") /\ UNCHANGED <<json, temp>>
       \/ /\ temp[p] # Nothing
          /\ json' = [json EXCEPT ![p] = temp[p]] /\ temp' = [temp EXCEPT ![p] = Nothing]
          /\ op' = [op EXCEPT ![o].at = "stat", ![o].nr = @ + 1]
          /\ UNCHANGED <<holder, history>>
  /\ UNCHANGED <<compact, registry, row, layers, payload>>

\* The hash of what project.json holds by then goes into the row; the row is
\* looked up without a lock.
Hash(o) ==
  /\ op[o].at = "hash"
  /\ op' = [op EXCEPT ![o].at = IF row[op[o].on] = Nothing THEN "insert" ELSE "lock",
                      ![o].write = json[op[o].on], ![o].under = layers[op[o].on]]
  /\ UNCHANGED <<files, registry, rows, history>>

\* The first record of a project: a second insert waits for the first and then
\* breaks the unique key of projects.
Insert(o) ==
  /\ op[o].at = "insert" /\ holder[op[o].on] = Nobody
  /\ IF row[op[o].on] = Nothing
     THEN holder' = [holder EXCEPT ![op[o].on] = o] /\ Go(o, "payload") /\ UNCHANGED history
     ELSE Fail(o, "failed")
  /\ UNCHANGED <<files, registry, row, layers, payload>>

\* The deletes wait for another transaction's.  The first of them, of the
\* layers, goes by what was there when it began; the later ones see what the
\* other has put there.
Lock(o) ==
  /\ op[o].at = "lock" /\ holder[op[o].on] = Nobody
  /\ holder' = [holder EXCEPT ![op[o].on] = o]
  /\ Go(o, "payload")
  /\ UNCHANGED <<files, registry, row, layers, payload, history>>

\* Payload files are replaced before the commit.
WritePayload(o) ==
  /\ op[o].at = "payload"
  /\ payload' = [payload EXCEPT ![op[o].on] = op[o].data]
  /\ Go(o, "commit")
  /\ UNCHANGED <<files, registry, row, layers, holder, history>>

\* Mutant: the milestones' rows are replaced, the layers beside them are not.
CommitKeepingLayers(o) ==
  LET p == op[o].on IN
  /\ op[o].at = "commit"
  /\ row' = [row EXCEPT ![p] = {[of |-> op[o].data, hash |-> w] : w \in op[o].write}]
  /\ layers' = [layers EXCEPT ![p] = @ \cup {op[o].data}]
  /\ holder' = [holder EXCEPT ![p] = Nobody]
  /\ End(o)
  /\ UNCHANGED <<files, registry, payload>>

\* Mutant: the rows of the save before are left beside the new ones.
CommitAdding(o) ==
  LET p == op[o].on IN
  /\ op[o].at = "commit"
  /\ row' = [row EXCEPT ![p] = @ \cup {[of |-> op[o].data, hash |-> w] : w \in op[o].write}]
  /\ layers' = [layers EXCEPT ![p] = (@ \ op[o].under) \cup {op[o].data}]
  /\ holder' = [holder EXCEPT ![p] = Nobody]
  /\ End(o)
  /\ UNCHANGED <<files, registry, payload>>

Commit(o) ==
  LET p == op[o].on IN
  /\ op[o].at = "commit"
  /\ row' = [row EXCEPT ![p] = {[of |-> op[o].data, hash |-> w] : w \in op[o].write}]
  /\ layers' = [layers EXCEPT ![p] = (@ \ op[o].under) \cup {op[o].data}]
  /\ holder' = [holder EXCEPT ![p] = Nobody]
  /\ End(o)
  /\ UNCHANGED <<files, registry, payload>>

Step(o) ==
  \/ Load(o)
  \/ ReadRegistry(o) \/ OpenRegistry(o) \/ WriteRegistry(o)
  \/ OpenJson(o) \/ WriteJson(o) \/ Stat(o) \/ WriteSidecar(o)
  \/ WriteTemp(o) \/ MoveTemp(o) \/ Hash(o)
  \/ Insert(o) \/ Lock(o) \/ WritePayload(o) \/ Commit(o)

Next ==
  \E o \in Operations :
    \/ \E p \in Projects, kind \in Kinds : Begin(o, p, kind)
    \/ Step(o)
    \/ Stop(o)

Spec == Init /\ [][Next]_vars

-----------------------------------------------------------------------------
(* Properties *)

AtMostOne(S) == \A x, y \in S : x = y

Operation ==
  [at : Places, on : Projects \cup {Nobody}, kind : Kinds \cup {Nobody}, data : Data,
   nr : 0 .. 2, listed : SUBSET Projects, write : SUBSET Writes,
   under : SUBSET Operations, met : BOOLEAN]

\* The type invariant.
TypeOK ==
  /\ json \in [Projects -> SUBSET Writes] /\ temp \in [Projects -> SUBSET Writes]
  /\ compact \in [Projects -> SUBSET Noted] /\ row \in [Projects -> SUBSET Rows]
  /\ \A p \in Projects :
       AtMostOne(json[p]) /\ AtMostOne(temp[p]) /\ AtMostOne(compact[p]) /\ AtMostOne(row[p])
  /\ layers \in [Projects -> SUBSET Operations]
  /\ payload \in [Projects -> Data] /\ latest \in [Projects -> Data]
  /\ holder \in [Projects -> Data]
  /\ doubt \in [Projects -> SUBSET {"files", "rows", "hash"}]
  /\ registry \in SUBSET SUBSET Projects /\ AtMostOne(registry)
  /\ unlisted \in BOOLEAN
  /\ op \in [Operations -> Operation]

AtRest(p) == Under(p) = {} /\ latest[p] # Nobody

\* Between operations project.json is the last one's and the compact metadata
\* passes for its own (_load_project_compact_metadata), even after operations
\* that met or stopped anywhere, once one went through alone.
FilesAgree ==
  \A p \in Projects : AtRest(p) /\ "files" \notin doubt[p] =>
    \E w \in json[p] : w.of = latest[p] /\ compact[p] = {[of |-> w.of, json |-> w]}

\* So do the rows, the layers beside them, the payload files and the hash of
\* project.json: what the list shows and what a reference resolves to.
RowsAgree ==
  \A p \in Projects : AtRest(p) /\ "rows" \notin doubt[p] =>
    \E r \in row[p] :
      /\ r.of = latest[p] /\ layers[p] = {r.of} /\ payload[p] = r.of
      /\ "hash" \notin doubt[p] => json[p] = {r.hash}

\* A project stays listed unless two updates of the registry met or one was
\* stopped in its write.
StaysListed ==
  ~unlisted /\ Listing = {} => \A p \in Projects : json[p] # Nothing => p \in UNION registry

=============================================================================
