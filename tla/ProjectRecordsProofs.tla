------------------------ MODULE ProjectRecordsProofs ------------------------
(***************************************************************************)
(* What ProjectRecords promises for any projects, operations and kinds of  *)
(* operations, however many are under way.  Each operation knows how far it *)
(* has come with the copies it writes (Staged, FilesStage, RowsStage); one *)
(* that met no other is alone on its project (Alone), so that what it has  *)
(* written is there when it ends.                                          *)
(***************************************************************************)
EXTENDS ProjectRecords, TLAPS

First       == {"registry", "reopen", "relist"}
Recording   == {"temp", "move"}
Transaction == {"hash", "insert", "lock", "payload", "commit"}

StagedAt(x) ==
  /\ x.at \in Ended \cup {"idle"} => x.on = Nobody
  /\ x.at \notin Ended \cup {"idle"} => x.on \in Projects /\ x.kind \in Kinds
  /\ x.at \notin Ended \cup {"idle", "load"} => x.data \in Operations
  /\ x.at = "load" => x.kind # "save" /\ (x.kind # "repair" => x.data \in Operations)
  /\ x.at \in First => x.kind # "repair"
  /\ x.at \in First \cup {"load", "open", "write"} => x.nr = 0
  /\ x.at \in {"stat", "sidecar"} => (x.nr = 2 => Records(x.kind))
                                     /\ (x.nr = 0 => x.kind = "repair")
  /\ x.at \in Recording => x.nr = 1 /\ Records(x.kind)
  /\ x.at \in Transaction => x.nr = 2 /\ Records(x.kind)
  /\ AtMostOne(x.write)

Staged == \A o \in Operations : StagedAt(op[o])

TypeInv == TypeOK /\ Staged

-----------------------------------------------------------------------------
(* A step of one operation is a change of its record and of some copies. *)
LEMMA OneOperation ==
  ASSUME TypeInv, NEW o \in Operations, NEW x \in Operation, StagedAt(x),
         op' = [op EXCEPT ![o] = x]
  PROVE  op' \in [Operations -> Operation] /\ Staged'
  BY DEF TypeInv, TypeOK, Staged

LEMMA OverIsOperation ==
  ASSUME NEW at \in Ended
  PROVE  Over(at) \in Operation /\ StagedAt(Over(at))
<1>1. Idle \in Operation /\ Idle.on = Nobody /\ AtMostOne(Idle.write)
  BY DEF Idle, Operation, Places, Data, AtMostOne
<1>2. at \in Places
  BY DEF Places, Ended
<1>. HIDE DEF Idle
<1>3. Over(at) \in Operation /\ Over(at).at = at /\ Over(at).on = Nobody
      /\ AtMostOne(Over(at).write)
  BY <1>1, <1>2 DEF Over, Operation
<1>. QED
  BY <1>3 DEF Ended, StagedAt, First, Recording, Transaction

LEMMA TypeInit == Init => TypeInv
<1> SUFFICES ASSUME Init PROVE TypeInv
  OBVIOUS
<1>1. Idle \in Operation /\ StagedAt(Idle)
  BY DEF Idle, Operation, Places, Ended, Data, StagedAt, First, Recording, Transaction, AtMostOne
<1>. QED
  BY <1>1 DEF Init, TypeInv, TypeOK, Staged, AtMostOne, Nothing, Data

LEMMA FailTypes ==
  ASSUME TypeInv, NEW o \in Operations, NEW at \in Ended, o \in Active, Fail(o, at)
  PROVE  /\ op' \in [Operations -> Operation] /\ Staged'
         /\ doubt' \in [Projects -> SUBSET {"files", "rows", "hash"}]
         /\ latest' \in [Projects -> Data] /\ unlisted' \in BOOLEAN
         /\ holder' \in [Projects -> Data]
<1>1. op' \in [Operations -> Operation] /\ Staged'
  BY OverIsOperation, OneOperation DEF Fail
<1>. QED
  BY <1>1 DEF Fail, TypeInv, TypeOK, Data

LEMMA EndTypes ==
  ASSUME TypeInv, NEW o \in Operations, o \in Active, op[o].at # "load", End(o)
  PROVE  /\ op' \in [Operations -> Operation] /\ Staged'
         /\ doubt' \in [Projects -> SUBSET {"files", "rows", "hash"}]
         /\ latest' \in [Projects -> Data] /\ unlisted' \in BOOLEAN
<1>1. op' \in [Operations -> Operation] /\ Staged'
  BY OverIsOperation, OneOperation DEF End, Ended
<1>2. op[o].on \in Projects /\ op[o].kind \in OperationKinds /\ op[o].data \in Data
  BY KindsAssumption DEF TypeInv, Staged, StagedAt, Active, Data
<1>3. doubt[op[o].on] \in SUBSET {"files", "rows", "hash"}
  BY <1>2 DEF TypeInv, TypeOK
<1>4. DoubtAfter(o) \in SUBSET {"files", "rows", "hash"}
  BY <1>2, <1>3 DEF DoubtAfter, OperationKinds, Records
<1>. QED
  BY <1>1, <1>2, <1>4 DEF End, TypeInv, TypeOK

(* A write of the present operation, and what it reads, are of their types. *)
LEMMA OwnWrite ==
  ASSUME TypeInv, NEW o \in Operations, op[o].data \in Operations, op[o].nr \in 0 .. 1
  PROVE  Write(o) \in Writes /\ Write(o).of = op[o].data
  BY DEF Write, Writes

LEMMA BegunOperation ==
  ASSUME NEW o \in Operations, NEW p \in Projects, NEW kind \in Kinds, NEW met \in BOOLEAN
  PROVE  LET x == [Idle EXCEPT !.at = IF kind = "save" THEN "registry" ELSE "load",
                               !.on = p, !.kind = kind,
                               !.data = IF kind = "repair" THEN Nobody ELSE o,
                               !.met = met]
         IN  x \in Operation /\ StagedAt(x)
<1> DEFINE at == IF kind = "save" THEN "registry" ELSE "load"
<1> DEFINE data == IF kind = "repair" THEN Nobody ELSE o
<1> DEFINE x == [Idle EXCEPT !.at = at, !.on = p, !.kind = kind, !.data = data, !.met = met]
<1>1. at \in Places /\ data \in Data
  BY DEF Places, Data
<1>2. Idle \in Operation /\ Idle.nr = 0 /\ AtMostOne(Idle.write)
  BY DEF Idle, Operation, Places, Data, AtMostOne
<1>. HIDE DEF at, data, Idle
<1>3. /\ x \in Operation /\ x.at = at /\ x.on = p /\ x.kind = kind /\ x.data = data
      /\ x.nr = 0 /\ AtMostOne(x.write)
  BY <1>1, <1>2 DEF Operation
<1>. HIDE DEF x
<1>4. StagedAt(x)
  BY <1>3 DEF StagedAt, Ended, First, Recording, Transaction, at, data
<1>. QED
  BY <1>3, <1>4 DEF x, at, data

LEMMA OneIsAtMostOne == \A x : AtMostOne({x})
  BY DEF AtMostOne

(* project.json was written once more. *)
LEMMA NumberedOperation ==
  ASSUME NEW x \in Operation, NEW n \in 0 .. 2
  PROVE  LET y == [x EXCEPT !.at = "stat", !.nr = n]
         IN  /\ y \in Operation /\ y.at = "stat" /\ y.nr = n /\ y.on = x.on
             /\ y.kind = x.kind /\ y.data = x.data /\ y.write = x.write
  BY DEF Operation, Places

LEMMA PresentOperation ==
  ASSUME TypeInv, NEW o \in Operations
  PROVE  op[o] \in Operation /\ StagedAt(op[o])
  BY DEF TypeInv, TypeOK, Staged

LEMMA PresentCopies ==
  ASSUME TypeInv, NEW p \in Projects
  PROVE  /\ json[p] \in SUBSET Writes /\ AtMostOne(json[p])
         /\ temp[p] \in SUBSET Writes /\ AtMostOne(temp[p])
         /\ layers[p] \in SUBSET Operations
  BY DEF TypeInv, TypeOK

LEMMA TypeStep == TypeInv /\ [Next]_vars => TypeInv'
<1> SUFFICES ASSUME TypeInv, [Next]_vars PROVE TypeInv'
  OBVIOUS
<1> USE DEF files, rows, history, Go, Seen
<1>1. ASSUME NEW o \in Operations, NEW p \in Projects, NEW kind \in Kinds, Begin(o, p, kind)
      PROVE TypeInv'
  <2> DEFINE x == [Idle EXCEPT !.at = IF kind = "save" THEN "registry" ELSE "load",
                               !.on = p, !.kind = kind,
                               !.data = IF kind = "repair" THEN Nobody ELSE o,
                               !.met = Under(p) # {}]
  <2>1. x \in Operation /\ StagedAt(x)
    <3> DEFINE met == Under(p) # {}
    <3>1. met \in BOOLEAN
      OBVIOUS
    <3>. HIDE DEF met
    <3>2. LET z == [Idle EXCEPT !.at = IF kind = "save" THEN "registry" ELSE "load",
                                !.on = p, !.kind = kind,
                                !.data = IF kind = "repair" THEN Nobody ELSE o,
                                !.met = met]
          IN  z \in Operation /\ StagedAt(z)
      BY <3>1, BegunOperation
    <3>. QED
      BY <3>2 DEF met
  <2>2. ASSUME NEW q \in Operations
        PROVE  LET z == [op[q] EXCEPT !.met = TRUE] IN z \in Operation /\ StagedAt(z)
    <3>1. op[q] \in Operation /\ StagedAt(op[q])
      BY PresentOperation
    <3>. QED
      BY <3>1 DEF Operation, StagedAt
  <2>3. op' \in [Operations -> Operation] /\ Staged'
    BY <1>1, <2>1, <2>2 DEF Begin, TypeInv, TypeOK, Staged
  <2>. QED
    BY <1>1, <2>3 DEF Begin, TypeInv, TypeOK
<1>2. ASSUME NEW o \in Operations, Stop(o) PROVE TypeInv'
  BY <1>2, FailTypes DEF Stop, TypeInv, TypeOK, Ended
<1>3. ASSUME NEW o \in Operations, Load(o) PROVE TypeInv'
  <2>1. PICK w \in json[op[o].on] :
          \/ w = Half /\ Fail(o, "failed")
          \/ w # Half /\ op[o].kind # "repair" /\ Go(o, "registry") /\ UNCHANGED <<holder, history>>
          \/ /\ w # Half /\ op[o].kind = "repair"
             /\ \E at \in {"open", "stat"} : op' = [op EXCEPT ![o].at = at, ![o].data = w.of]
             /\ UNCHANGED <<holder, history>>
    BY <1>3 DEF Load
  <2>2. o \in Active /\ op[o].at = "load" /\ op[o].on \in Projects
    BY <1>3 DEF Load, Active, Ended, TypeInv, Staged, StagedAt
  <2>3. CASE Fail(o, "failed")
    BY <1>3, <2>2, <2>3, FailTypes DEF Load, TypeInv, TypeOK, Ended
  <2>4. CASE op[o].kind # "repair" /\ Go(o, "registry") /\ UNCHANGED <<holder, history>>
    <3> DEFINE y == [op[o] EXCEPT !.at = "registry"]
    <3>1. op[o] \in Operation /\ StagedAt(op[o])
      BY PresentOperation
    <3>2. y \in Operation
      BY <3>1 DEF Operation, Places
    <3>3. StagedAt(y)
      BY <2>2, <2>4, <3>1 DEF StagedAt, Operation, Ended, First, Recording, Transaction
    <3>4. op' \in [Operations -> Operation] /\ Staged'
      BY <2>4, <3>2, <3>3, OneOperation
    <3>. QED
      BY <1>3, <2>4, <3>4 DEF Load, TypeInv, TypeOK
  <2>5. ASSUME NEW at \in {"open", "stat"}, w # Half, op[o].kind = "repair",
               op' = [op EXCEPT ![o].at = at, ![o].data = w.of], UNCHANGED <<holder, history>>
        PROVE  TypeInv'
    <3> DEFINE y == [op[o] EXCEPT !.at = at, !.data = w.of]
    <3>1. w.of \in Operations
      BY <2>2, <2>5 DEF TypeInv, TypeOK, Writes
    <3>4. op[o] \in Operation /\ StagedAt(op[o])
      BY PresentOperation
    <3>5. y \in Operation
      BY <3>1, <3>4 DEF Operation, Places, Data
    <3>2. y \in Operation /\ StagedAt(y)
      BY <2>2, <2>5, <3>1, <3>4, <3>5 DEF StagedAt, Operation, Ended, First, Recording,
         Transaction, Records
    <3>3. op' \in [Operations -> Operation] /\ Staged'
      BY <2>5, <3>2, OneOperation
    <3>. QED
      BY <1>3, <2>5, <3>3 DEF Load, TypeInv, TypeOK
  <2>. QED
    BY <2>1, <2>3, <2>4, <2>5
<1>4. ASSUME NEW o \in Operations, ReadRegistry(o) PROVE TypeInv'
  <2>0. op[o] \in Operation /\ StagedAt(op[o])
    BY PresentOperation
  <2>9. UNION registry \in SUBSET Projects
    BY DEF TypeInv, TypeOK
  <2> DEFINE y == [op[o] EXCEPT !.at = "reopen", !.listed = UNION registry]
  <2>1. y \in Operation /\ StagedAt(y)
    BY <1>4, <2>0, <2>9 DEF ReadRegistry, StagedAt, Operation, Places, Ended, First, Recording, Transaction, Records
  <2>2. op' \in [Operations -> Operation] /\ Staged'
    BY <1>4, <2>1, OneOperation DEF ReadRegistry
  <2>. QED
    BY <1>4, <2>2 DEF ReadRegistry, TypeInv, TypeOK, AtMostOne
<1>5. ASSUME NEW o \in Operations, OpenRegistry(o) PROVE TypeInv'
  <2> DEFINE y == [op[o] EXCEPT !.at = "relist"]
  <2>1. op[o] \in Operation /\ StagedAt(op[o])
    BY PresentOperation
  <2>2. y \in Operation /\ StagedAt(y)
    BY <1>5, <2>1 DEF OpenRegistry, StagedAt, Operation, Places, Ended, First, Recording, Transaction
  <2>3. op' \in [Operations -> Operation] /\ Staged'
    BY <1>5, <2>2, OneOperation DEF OpenRegistry
  <2>. QED
    BY <1>5, <2>3 DEF OpenRegistry, TypeInv, TypeOK, AtMostOne
<1>6. ASSUME NEW o \in Operations, WriteRegistry(o) PROVE TypeInv'
  <2>0. op[o] \in Operation /\ StagedAt(op[o])
    BY PresentOperation
  <2> DEFINE y == [op[o] EXCEPT !.at = "open", !.listed = {}]
  <2>1. y \in Operation /\ StagedAt(y)
    BY <1>6, <2>0 DEF WriteRegistry, StagedAt, Operation, Places, Ended, First, Recording, Transaction, Records
  <2>2. op' \in [Operations -> Operation] /\ Staged'
    BY <1>6, <2>1, OneOperation DEF WriteRegistry
  <2>. QED
    <3>1. op[o].listed \in SUBSET Projects /\ op[o].on \in Projects
      BY <1>6, <2>0 DEF WriteRegistry, Operation, StagedAt, Ended
    <3>. QED
      BY <1>6, <2>2, <3>1 DEF WriteRegistry, TypeInv, TypeOK, AtMostOne
<1>7. ASSUME NEW o \in Operations, OpenJson(o) PROVE TypeInv'
  BY <1>7 DEF OpenJson, Half, Writes, TypeInv, TypeOK, Staged, StagedAt, Operation, Places, Ended, First, Recording, Transaction,
         Data, AtMostOne, Nothing
<1>8. ASSUME NEW o \in Operations, WriteJson(o) PROVE TypeInv'
  <2>0. op[o] \in Operation /\ StagedAt(op[o])
    BY PresentOperation
  <2> DEFINE y == [op[o] EXCEPT !.at = "stat", !.nr = op[o].nr + 1]
  <2>8. op[o].at = "write" /\ op[o].nr = 0 /\ op[o].on \in Projects /\ op[o].data \in Operations
    BY <1>8, <2>0 DEF WriteJson, StagedAt, First, Ended
  <2>7. Write(o) \in Writes
    BY <2>8, OwnWrite
  <2>6. op[o].nr + 1 \in 0 .. 2
    BY <2>8
  <2>1. y \in Operation /\ StagedAt(y)
    <3>1. /\ y \in Operation /\ y.at = "stat" /\ y.nr = op[o].nr + 1 /\ y.on = op[o].on
          /\ y.kind = op[o].kind /\ y.data = op[o].data /\ y.write = op[o].write
      BY <2>0, <2>6, NumberedOperation
    <3>. QED
      BY <2>0, <2>8, <3>1 DEF StagedAt, Ended, First, Recording, Transaction
  <2>2. op' \in [Operations -> Operation] /\ Staged'
    <3>1. op' = [op EXCEPT ![o] = y]
      BY <1>8, <2>0 DEF WriteJson
    <3>. QED
      BY <2>1, <3>1, OneOperation
  <2>. QED
    <3>1. json' \in [Projects -> SUBSET Writes] /\ \A p \in Projects : AtMostOne(json'[p])
      BY <1>8, <2>7, <2>8, OneIsAtMostOne DEF WriteJson, TypeInv, TypeOK
    <3>. QED
      BY <1>8, <2>2, <3>1 DEF WriteJson, TypeInv, TypeOK
<1>9. ASSUME NEW o \in Operations, Stat(o) PROVE TypeInv'
  <2>0. op[o] \in Operation /\ StagedAt(op[o])
    BY PresentOperation
  <2>9. json[op[o].on] \in SUBSET Writes /\ AtMostOne(json[op[o].on])
    BY <1>9, <2>0, PresentCopies DEF Stat, StagedAt, Ended
  <2> DEFINE y == [op[o] EXCEPT !.at = "sidecar", !.write = json[op[o].on]]
  <2>1. y \in Operation /\ StagedAt(y)
    BY <1>9, <2>0, <2>9 DEF Stat, StagedAt, Operation, Places, Ended, First, Recording, Transaction, Records
  <2>2. op' \in [Operations -> Operation] /\ Staged'
    BY <1>9, <2>1, OneOperation DEF Stat
  <2>. QED
    BY <1>9, <2>2 DEF Stat, TypeInv, TypeOK, AtMostOne
<1>10. ASSUME NEW o \in Operations, WriteSidecar(o) PROVE TypeInv'
  <2>1. o \in Active /\ op[o].at # "load" /\ op[o].on \in Projects /\ op[o].data \in Operations
    BY <1>10 DEF WriteSidecar, Active, Ended, TypeInv, Staged, StagedAt
  <2> DEFINE note == {[of |-> op[o].data, json |-> w] : w \in op[o].write}
  <2>5. op[o] \in Operation /\ StagedAt(op[o])
    BY PresentOperation
  <2>6. note \in SUBSET Noted
    BY <2>1, <2>5 DEF Operation, Noted
  <2>7. AtMostOne(op[o].write)
    BY <2>5 DEF StagedAt
  <2>8. AtMostOne(note)
    BY <2>7 DEF AtMostOne
  <2>9. compact' = [compact EXCEPT ![op[o].on] = note]
    BY <1>10 DEF WriteSidecar
  <2>. HIDE DEF note
  <2>2. compact' \in [Projects -> SUBSET Noted] /\ \A p \in Projects : AtMostOne(compact'[p])
    BY <2>6, <2>8, <2>9 DEF TypeInv, TypeOK
  <2>3. CASE End(o)
    BY <1>10, <2>1, <2>2, <2>3, EndTypes DEF WriteSidecar, TypeInv, TypeOK
  <2>10. Records(op[o].kind) /\ op[o].nr # 2 => op[o].nr = 1
    BY <1>10, <2>5 DEF WriteSidecar, StagedAt, Operation, Records
  <2> DEFINE y(at) == [op[o] EXCEPT !.at = at, !.write = {}]
  <2>4. ASSUME NEW at \in {"hash", "temp"}, Seen(o, at), UNCHANGED history,
               at = "hash" => op[o].nr = 2,
               at = "temp" => op[o].nr = 1 /\ Records(op[o].kind)
        PROVE  TypeInv'
    <3>1. /\ y(at) \in Operation /\ y(at).at = at /\ y(at).nr = op[o].nr
          /\ y(at).on = op[o].on /\ y(at).kind = op[o].kind /\ y(at).data = op[o].data
          /\ y(at).write = {}
      BY <2>5 DEF Operation, Places
    <3>2. StagedAt(y(at))
      BY <1>10, <2>1, <2>4, <2>5, <3>1 DEF WriteSidecar, StagedAt, AtMostOne, Ended, First,
         Recording, Transaction
    <3>3. op' \in [Operations -> Operation] /\ Staged'
      BY <2>4, <3>1, <3>2, OneOperation
    <3>. QED
      BY <1>10, <2>2, <2>4, <3>3 DEF WriteSidecar, TypeInv, TypeOK
  <2>. QED
    BY <1>10, <2>3, <2>4, <2>10 DEF WriteSidecar
<1>11. ASSUME NEW o \in Operations, WriteTemp(o) PROVE TypeInv'
  <2>1. Write(o) \in Writes
    BY <1>11, OwnWrite DEF WriteTemp, TypeInv, Staged, StagedAt, Ended, Recording
  <2>. QED
    BY <1>11, <2>1 DEF WriteTemp, TypeInv, TypeOK, Staged, StagedAt, Operation, Places, Ended, First, Recording, Transaction, AtMostOne, Data
<1>12. ASSUME NEW o \in Operations, MoveTemp(o) PROVE TypeInv'
  <2>0. op[o] \in Operation /\ StagedAt(op[o])
    BY PresentOperation
  <2>1. o \in Active
    BY <1>12 DEF MoveTemp, Active, Ended
  <2>2. ASSUME Fail(o, "failed"), UNCHANGED <<json, temp>> PROVE TypeInv'
    BY <1>12, <2>1, <2>2, FailTypes DEF MoveTemp, TypeInv, TypeOK, Ended
  <2> DEFINE y == [op[o] EXCEPT !.at = "stat", !.nr = op[o].nr + 1]
  <2>3. y \in Operation /\ StagedAt(y)
    <3>1. op[o].at = "move" /\ op[o].nr = 1 /\ Records(op[o].kind) /\ op[o].on \in Projects
          /\ op[o].data \in Operations
      BY <1>12, <2>0 DEF MoveTemp, StagedAt, Recording, Ended
    <3>4. op[o].nr + 1 \in 0 .. 2
      BY <3>1
    <3>2. /\ y \in Operation /\ y.at = "stat" /\ y.nr = op[o].nr + 1 /\ y.on = op[o].on
          /\ y.kind = op[o].kind /\ y.data = op[o].data /\ y.write = op[o].write
      BY <2>0, <3>4, NumberedOperation
    <3>. QED
      BY <2>0, <3>1, <3>2 DEF StagedAt, Ended, First, Recording, Transaction
  <2>4. ASSUME op' = [op EXCEPT ![o].at = "stat", ![o].nr = @ + 1]
        PROVE  op' \in [Operations -> Operation] /\ Staged'
    <3>1. op[o].nr = 1
      BY <1>12, <2>0 DEF MoveTemp, StagedAt, Recording
    <3>2. op' = [op EXCEPT ![o] = y]
      BY <2>0, <2>4, <3>1
    <3>. QED
      BY <2>3, <3>2, OneOperation
  <2>. QED
    BY <1>12, <2>2, <2>4 DEF MoveTemp, TypeInv, TypeOK, AtMostOne, Nothing
<1>13. ASSUME NEW o \in Operations, Hash(o) PROVE TypeInv'
  <2>0. op[o] \in Operation /\ StagedAt(op[o])
    BY PresentOperation
  <2>9. json[op[o].on] \in SUBSET Writes /\ AtMostOne(json[op[o].on]) /\ layers[op[o].on] \in SUBSET Operations
    BY <1>13, <2>0, PresentCopies DEF Hash, StagedAt, Ended
  <2> DEFINE y == [op[o] EXCEPT !.at = IF row[op[o].on] = Nothing THEN "insert" ELSE "lock",
                              !.write = json[op[o].on], !.under = layers[op[o].on]]
  <2>1. y \in Operation /\ StagedAt(y)
    BY <1>13, <2>0, <2>9 DEF Hash, StagedAt, Operation, Places, Ended, First, Recording, Transaction, Records
  <2>2. op' \in [Operations -> Operation] /\ Staged'
    BY <1>13, <2>1, OneOperation DEF Hash
  <2>. QED
    BY <1>13, <2>2 DEF Hash, TypeInv, TypeOK, AtMostOne
<1>14. ASSUME NEW o \in Operations, Insert(o) PROVE TypeInv'
  <2>1. o \in Active
    BY <1>14 DEF Insert, Active, Ended
  <2>2. CASE Fail(o, "failed")
    BY <1>14, <2>1, <2>2, FailTypes DEF Insert, TypeInv, TypeOK, Ended
  <2>3. CASE holder' = [holder EXCEPT ![op[o].on] = o] /\ Go(o, "payload") /\ UNCHANGED history
    BY <1>14, <2>3 DEF Insert, TypeInv, TypeOK, Staged, StagedAt, Operation, Places, Ended, First, Recording, Transaction, Data
  <2>. QED
    BY <1>14, <2>2, <2>3 DEF Insert
<1>15. ASSUME NEW o \in Operations, Lock(o) PROVE TypeInv'
  <2> DEFINE y == [op[o] EXCEPT !.at = "payload"]
  <2>1. op[o] \in Operation /\ StagedAt(op[o])
    BY PresentOperation
  <2>2. y \in Operation /\ StagedAt(y)
    BY <1>15, <2>1 DEF Lock, StagedAt, Operation, Places, Ended, First, Recording, Transaction
  <2>3. op' \in [Operations -> Operation] /\ Staged'
    BY <1>15, <2>2, OneOperation DEF Lock
  <2>. QED
    BY <1>15, <2>3 DEF Lock, TypeInv, TypeOK, Data
<1>16. ASSUME NEW o \in Operations, WritePayload(o) PROVE TypeInv'
  BY <1>16 DEF WritePayload, Half, Writes, TypeInv, TypeOK, Staged, StagedAt, Operation, Places, Ended, First, Recording, Transaction,
         Data, AtMostOne, Nothing
<1>17. ASSUME NEW o \in Operations, Commit(o) PROVE TypeInv'
  <2>1. o \in Active /\ op[o].at # "load" /\ op[o].on \in Projects /\ op[o].data \in Operations
    BY <1>17 DEF Commit, Active, Ended, TypeInv, Staged, StagedAt
  <2> DEFINE new == {[of |-> op[o].data, hash |-> w] : w \in op[o].write}
  <2>3. op[o] \in Operation /\ StagedAt(op[o])
    BY PresentOperation
  <2>4. new \in SUBSET Rows
    BY <2>1, <2>3 DEF Operation, Rows
  <2>5. AtMostOne(op[o].write)
    BY <2>3 DEF StagedAt
  <2>6. AtMostOne(new)
    BY <2>5 DEF AtMostOne
  <2>7. row' = [row EXCEPT ![op[o].on] = new]
    BY <1>17 DEF Commit
  <2>. HIDE DEF new
  <2>2. row' \in [Projects -> SUBSET Rows] /\ \A p \in Projects : AtMostOne(row'[p])
    BY <2>4, <2>6, <2>7 DEF TypeInv, TypeOK
  <2>8. layers' \in [Projects -> SUBSET Operations] /\ holder' \in [Projects -> Data]
    BY <1>17, <2>1 DEF Commit, TypeInv, TypeOK, Data
  <2>. QED
    BY <1>17, <2>1, <2>2, <2>8, EndTypes DEF Commit, TypeInv, TypeOK
<1>18. CASE UNCHANGED vars
  BY <1>18 DEF vars, TypeInv, TypeOK, Staged
<1>. QED
  BY <1>1, <1>2, <1>3, <1>4, <1>5, <1>6, <1>7, <1>8, <1>9, <1>10, <1>11, <1>12, <1>13, <1>14,
     <1>15, <1>16, <1>17, <1>18 DEF Next, Step

(* The variables keep to their ranges, and operations to their course. *)
THEOREM RecordTypes == Spec => []TypeOK
<1>1. TypeInv /\ [Next]_vars => TypeInv'
  BY TypeStep
<1>2. TypeInv => TypeOK
  BY DEF TypeInv
<1>. QED
  BY <1>1, <1>2, TypeInit, PTL DEF Spec

-----------------------------------------------------------------------------
(* The registry: a project that has a project.json, or an operation on its   *)
(* way to write one, is in the registry and in every copy of it.             *)

Past  == {"open", "write", "stat", "sidecar"} \cup Recording \cup Transaction
Known ==
  {p \in Projects : json[p] # Nothing \/ \E o \in Operations : op[o].on = p /\ op[o].at \in Past}

ListInv ==
  ~unlisted =>
    /\ \A o, q \in Listing : o = q
    /\ \A o \in Listing : Known \subseteq op[o].listed
    /\ (\A o \in Operations : op[o].at # "relist") => Known \subseteq UNION registry

(* A step that neither reads nor writes the registry, makes no project known *)
(* and leaves an update of the registry only with the note that it did.      *)
LEMMA ListQuiet ==
  ASSUME ListInv, registry' = registry, unlisted => unlisted',
         \A p \in Projects : json'[p] # Nothing => p \in Known,
         \A o \in Operations : op'[o].at \in Past /\ op'[o].on \in Projects => op'[o].on \in Known,
         \A o \in Operations : op'[o].at \in {"reopen", "relist"} =>
                                op'[o].at = op[o].at /\ op'[o].listed = op[o].listed,
         \A o \in Operations : op[o].at = "relist" /\ op'[o].at # "relist" => unlisted'
  PROVE  ListInv'
<1>1. Known' \subseteq Known
  BY DEF Known
<1>2. Listing' \subseteq Listing
  BY DEF Listing
<1>. QED
  BY <1>1, <1>2 DEF ListInv, Listing

LEMMA ListInit == Init => ListInv
  BY DEF Init, ListInv, Known, Listing, Idle, Past, Recording, Transaction, Nothing

LEMMA ListStep == TypeInv /\ ListInv /\ [Next]_vars => ListInv'
<1> SUFFICES ASSUME TypeInv, ListInv, [Next]_vars PROVE ListInv'
  OBVIOUS
<1> USE DEF files, rows, history, Go, Seen
<1>0. op \in [Operations -> Operation] /\ Staged
  BY DEF TypeInv, TypeOK
<1>k. /\ \A p \in Projects : json[p] # Nothing => p \in Known
      /\ \A o \in Operations : op[o].at \in Past /\ op[o].on \in Projects => op[o].on \in Known
  BY DEF Known
<1>f. ASSUME NEW o \in Operations, NEW at \in Ended, Fail(o, at), UNCHANGED <<registry, json>>
      PROVE ListInv'
  <2>1. \A q \in Operations : q # o => op'[q] = op[q]
    BY <1>f, <1>0 DEF Fail
  <2>2. op'[o].at = at /\ (op[o].at = "relist" => unlisted') /\ (unlisted => unlisted')
    BY <1>f, <1>0, OverIsOperation DEF Fail, Over, Idle
  <2>3. at \notin Past \cup {"reopen", "relist"}
    BY DEF Ended, Past, Recording, Transaction
  <2>. QED
    BY <1>k, <1>f, <2>1, <2>2, <2>3, ListQuiet
<1>1. ASSUME NEW o \in Operations, NEW p \in Projects, NEW kind \in Kinds, Begin(o, p, kind)
      PROVE ListInv'
  <2>1. \A q \in Operations : q # o => /\ op'[q].at = op[q].at /\ op'[q].on = op[q].on
                                     /\ op'[q].listed = op[q].listed
    <3>1. ASSUME NEW q \in Operations, q # o
          PROVE  op'[q] = op[q] \/ op'[q] = [op[q] EXCEPT !.met = TRUE]
      BY <1>1, <3>1 DEF Begin
    <3>2. ASSUME NEW q \in Operations
          PROVE  LET y == [op[q] EXCEPT !.met = TRUE]
                 IN  y.at = op[q].at /\ y.on = op[q].on /\ y.listed = op[q].listed
      BY <1>0 DEF Operation
    <3>. QED
      BY <3>1, <3>2
  <2>2. op'[o].at \in {"registry", "load"} /\ op[o].at = "idle"
    BY <1>1, <1>0 DEF Begin, Idle
  <2>. QED
    BY <1>1, <1>k, <2>1, <2>2, ListQuiet DEF Begin, Past, Recording, Transaction
<1>2. ASSUME NEW o \in Operations, Stop(o) PROVE ListInv'
  BY <1>2, <1>f DEF Stop, Ended
<1>3. ASSUME NEW o \in Operations, Load(o) PROVE ListInv'
  <2>1. op[o].at = "load" /\ UNCHANGED <<registry, json>> /\ op[o].on \in Projects
    BY <1>3, <1>0 DEF Load, Staged, StagedAt, Ended
  <2>2. CASE Fail(o, "failed")
    BY <1>f, <2>1, <2>2 DEF Ended
  <2>3. CASE ~Fail(o, "failed")
    <3>1. unlisted' = unlisted /\ json[op[o].on] # Nothing
      BY <1>3, <2>3 DEF Load, Nothing
    <3>2. \A q \in Operations : q # o => op'[q] = op[q]
      BY <1>3, <2>3, <1>0 DEF Load
    <3>3. op'[o].on = op[o].on /\ op'[o].at \notin {"reopen", "relist"}
      BY <1>3, <2>3, <1>0 DEF Load, Operation
    <3>. QED
      BY <1>k, <2>1, <3>1, <3>2, <3>3, ListQuiet DEF Known
  <2>. QED
    BY <2>2, <2>3
<1>4. ASSUME NEW o \in Operations, ReadRegistry(o) PROVE ListInv'
  <2>1. \A q \in Operations : q # o => op'[q] = op[q]
    BY <1>4, <1>0 DEF ReadRegistry
  <2>2. op[o].at = "registry" /\ op'[o].at = "reopen" /\ op'[o].on = op[o].on
        /\ op'[o].listed = UNION registry
    BY <1>4, <1>0 DEF ReadRegistry, Operation
  <2>3. json' = json /\ registry' = registry /\ unlisted' = (unlisted \/ Listing # {})
    BY <1>4 DEF ReadRegistry
  <2>4. Known' \subseteq Known
    BY <2>1, <2>2, <2>3 DEF Known, Past, Recording, Transaction
  <2>5. ~unlisted' => Listing = {} /\ Listing' = {o} /\ ~unlisted
    BY <2>1, <2>2, <2>3 DEF Listing
  <2>. QED
    BY <2>1, <2>2, <2>3, <2>4, <2>5 DEF ListInv, Listing
<1>5. ASSUME NEW o \in Operations, OpenRegistry(o) PROVE ListInv'
  <2>1. \A q \in Operations : q # o => op'[q] = op[q]
    BY <1>5, <1>0 DEF OpenRegistry
  <2>2. op[o].at = "reopen" /\ op'[o].at = "relist" /\ op'[o].on = op[o].on
        /\ op'[o].listed = op[o].listed
    BY <1>5, <1>0 DEF OpenRegistry, Operation
  <2>3. json' = json /\ unlisted' = unlisted
    BY <1>5 DEF OpenRegistry
  <2>4. Known' \subseteq Known
    BY <2>1, <2>2, <2>3 DEF Known, Past, Recording, Transaction
  <2>5. Listing' = Listing /\ Listing \subseteq Operations
    BY <2>1, <2>2 DEF Listing
  <2>6. \A q \in Operations : op'[q].listed = op[q].listed
    BY <2>1, <2>2
  <2>. QED
    BY <2>2, <2>3, <2>4, <2>5, <2>6 DEF ListInv
<1>6. ASSUME NEW o \in Operations, WriteRegistry(o) PROVE ListInv'
  <2>1. \A q \in Operations : q # o => op'[q] = op[q]
    BY <1>6, <1>0 DEF WriteRegistry
  <2>2. op[o].at = "relist" /\ op'[o].at = "open" /\ op'[o].on = op[o].on
    BY <1>6, <1>0 DEF WriteRegistry, Operation
  <2>3. json' = json /\ unlisted' = unlisted /\ registry' = {op[o].listed \cup {op[o].on}}
    BY <1>6 DEF WriteRegistry
  <2>4. Known' \subseteq Known \cup {op[o].on}
    BY <2>1, <2>2, <2>3 DEF Known
  <2>5. ~unlisted => Listing = {o} /\ Listing' = {} /\ Known \subseteq op[o].listed
    BY <2>1, <2>2 DEF Listing, ListInv
  <2>6. UNION registry' = op[o].listed \cup {op[o].on}
    BY <2>3
  <2>. QED
    BY <2>3, <2>4, <2>5, <2>6 DEF ListInv
<1>7. ASSUME NEW o \in Operations,
             \/ OpenJson(o) \/ WriteJson(o) \/ Stat(o) \/ WriteTemp(o) \/ Hash(o) \/ Lock(o)
             \/ WritePayload(o)
      PROVE  ListInv'
  <2>1. \A q \in Operations : q # o => op'[q] = op[q]
    BY <1>7, <1>0 DEF OpenJson, WriteJson, Stat, WriteTemp, Hash, Lock, WritePayload
  <2>2. op[o].at \in Past /\ op'[o].on = op[o].on /\ op'[o].at \notin {"reopen", "relist"}
    <3>1. CASE OpenJson(o)
      BY <3>1, <1>0 DEF OpenJson, Operation, Past
    <3>2. CASE WriteJson(o)
      BY <3>2, <1>0 DEF WriteJson, Operation, Past
    <3>3. CASE Stat(o)
      BY <3>3, <1>0 DEF Stat, Operation, Past
    <3>4. CASE WriteTemp(o)
      BY <3>4, <1>0 DEF WriteTemp, Operation, Past, Recording
    <3>5. CASE Hash(o)
      BY <3>5, <1>0 DEF Hash, Operation, Past, Transaction
    <3>6. CASE Lock(o) \/ WritePayload(o)
      BY <3>6, <1>0 DEF Lock, WritePayload, Operation, Past, Transaction
    <3>. QED
      BY <1>7, <3>1, <3>2, <3>3, <3>4, <3>5, <3>6
  <2>3. registry' = registry /\ unlisted' = unlisted
    BY <1>7 DEF OpenJson, WriteJson, Stat, WriteTemp, Hash, Lock, WritePayload
  <2>4. \A p \in Projects : p # op[o].on => json'[p] = json[p]
    BY <1>7, <1>0 DEF OpenJson, WriteJson, Stat, WriteTemp, Hash, Lock, WritePayload, TypeInv, TypeOK
  <2>5. op[o].at # "relist"
    BY <2>2 DEF Past, Recording, Transaction
  <2>. QED
    BY <1>k, <2>1, <2>2, <2>3, <2>4, <2>5, ListQuiet
<1>8. ASSUME NEW o \in Operations, WriteSidecar(o) \/ Commit(o) PROVE ListInv'
  <2>1. op[o].at \in Past /\ op[o].at # "relist" /\ UNCHANGED <<registry, json>>
    BY <1>8 DEF WriteSidecar, Commit, Past, Transaction
  <2>2. CASE End(o)
    <3>1. \A q \in Operations : q # o => op'[q] = op[q]
      BY <2>2, <1>0 DEF End
    <3>2. op'[o].at = "done" /\ unlisted' = unlisted
      BY <2>2, <1>0, OverIsOperation DEF End, Over, Idle
    <3>. QED
      BY <1>k, <2>1, <3>1, <3>2, ListQuiet DEF Past, Recording, Transaction
  <2>3. ASSUME NEW at \in {"hash", "temp"}, Seen(o, at), UNCHANGED history PROVE ListInv'
    <3>1. \A q \in Operations : q # o => op'[q] = op[q]
      BY <2>3, <1>0
    <3>2. op'[o].at = at /\ op'[o].on = op[o].on /\ unlisted' = unlisted
      BY <2>3, <1>0 DEF Operation
    <3>. QED
      BY <1>k, <2>1, <3>1, <3>2, ListQuiet
  <2>. QED
    BY <1>8, <2>2, <2>3 DEF WriteSidecar, Commit
<1>9. ASSUME NEW o \in Operations, MoveTemp(o) \/ Insert(o) PROVE ListInv'
  <2>1. op[o].at \in Past /\ op[o].at # "relist" /\ registry' = registry
    BY <1>9 DEF MoveTemp, Insert, Past, Recording, Transaction
  <2>2. CASE Fail(o, "failed") /\ UNCHANGED json
    BY <1>f, <2>1, <2>2 DEF Ended
  <2>3. CASE ~(Fail(o, "failed") /\ UNCHANGED json)
    <3>1. \A q \in Operations : q # o => op'[q] = op[q]
      BY <1>9, <2>3, <1>0 DEF MoveTemp, Insert
    <3>2. op'[o].on = op[o].on /\ op'[o].at \in {"stat", "payload"} /\ unlisted' = unlisted
      BY <1>9, <2>3, <1>0 DEF MoveTemp, Insert, Operation
    <3>3. \A p \in Projects : p # op[o].on => json'[p] = json[p]
      BY <1>9, <2>3, <1>0 DEF MoveTemp, Insert, TypeInv, TypeOK
    <3>. QED
      BY <1>k, <2>1, <3>1, <3>2, <3>3, ListQuiet
  <2>. QED
    BY <2>2, <2>3
<1>10. CASE UNCHANGED vars
  BY <1>k, <1>10, ListQuiet DEF vars
<1>. QED
  BY <1>1, <1>2, <1>3, <1>4, <1>5, <1>6, <1>7, <1>8, <1>9, <1>10 DEF Next, Step

(* A project that has been written stays in the registry, for any number of  *)
(* operations, unless two updates met or one was stopped within its write.   *)
THEOREM ProjectsStayListed == Spec => []StaysListed
<1>1. TypeInv /\ ListInv /\ [Next]_vars => TypeInv' /\ ListInv'
  BY TypeStep, ListStep
<1>2. ListInv => StaysListed
  BY DEF ListInv, StaysListed, Listing, Known
<1>. QED
  BY <1>1, <1>2, TypeInit, ListInit, PTL DEF Spec

-----------------------------------------------------------------------------
(* The copies of a project: what an operation that met no other has written  *)
(* so far is there, and while nothing is under way the copies agree.         *)

Alone ==
  \A o, q \in Active : o # q /\ op[o].on = op[q].on => op[o].met

FilesOk(p) ==
  latest[p] # Nobody /\ "files" \notin doubt[p] =>
    \E w \in json[p] : w.of = latest[p] /\ compact[p] = {[of |-> w.of, json |-> w]}

RowOf(p, r) == r.of = latest[p] /\ layers[p] = {r.of} /\ payload[p] = r.of

RowsKept(p) ==
  latest[p] # Nobody /\ "rows" \notin doubt[p] => \E r \in row[p] : RowOf(p, r)

RowsOk(p) ==
  latest[p] # Nobody /\ "rows" \notin doubt[p] =>
    \E r \in row[p] : RowOf(p, r) /\ ("hash" \notin doubt[p] => json[p] = {r.hash})

\* What an operation x on the project p has settled at its place.
FilesStage(x, p) ==
  /\ x.at = "load" => FilesOk(p)
  /\ x.kind = "repair" /\ x.at # "load" /\ latest[p] # Nobody /\ "files" \notin doubt[p]
       => x.data = latest[p]
  /\ x.at \in {"stat", "sidecar"} \cup Recording \cup Transaction
       => \E w \in json[p] : w.of = x.data
  /\ x.at = "sidecar" => x.write = json[p]
  /\ x.at = "move" => \E w \in temp[p] : w.of = x.data
  /\ x.at \in Transaction => compact[p] = {[of |-> x.data, json |-> w] : w \in json[p]}

RowsStage(x, p) ==
  /\ x.kind = "repair" => RowsKept(p)
  /\ x.at \in Transaction \ {"hash"} => x.write = json[p] /\ x.under = layers[p]
  /\ x.at = "commit" => payload[p] = x.data

SettledInv ==
  /\ Alone
  /\ \A p \in Projects : Under(p) = {} => FilesOk(p) /\ RowsOk(p)
  /\ \A o \in Active : ~op[o].met => FilesStage(op[o], op[o].on) /\ RowsStage(op[o], op[o].on)

OthersStay(o) ==
  \A p \in Projects : p # op[o].on =>
    /\ json'[p] = json[p] /\ compact'[p] = compact[p] /\ temp'[p] = temp[p]
    /\ row'[p] = row[p] /\ layers'[p] = layers[p] /\ payload'[p] = payload[p]
    /\ latest'[p] = latest[p] /\ doubt'[p] = doubt[p]

LEMMA ActiveOnProject ==
  ASSUME TypeInv
  PROVE  /\ \A o \in Active : op[o].on \in Projects
         /\ \A p \in Projects : Under(p) = {o \in Active : op[o].on = p}
  BY NamesAssumption DEF TypeInv, Staged, StagedAt, Active, Under, Nobody

(* A step of an operation that goes on owes nothing but its own stage. *)
LEMMA GoesOn ==
  ASSUME TypeInv, TypeInv', SettledInv, NEW o \in Active, OthersStay(o),
         \A q \in Operations : q # o => op'[q] = op[q],
         op'[o].on = op[o].on, op'[o].met = op[o].met, op'[o].at \notin Ended \cup {"idle"},
         ~op[o].met => (FilesStage(op[o], op[o].on))' /\ (RowsStage(op[o], op[o].on))'
  PROVE  SettledInv'
<1>1. Active' = Active
  BY DEF Active
<1>2. Alone'
  BY <1>1 DEF SettledInv, Alone, Active
<1>3. \A p \in Projects : Under(p)' = Under(p)
  BY <1>1, ActiveOnProject DEF Active, Under, Ended
<1>4. ASSUME NEW p \in Projects, Under(p)' = {} PROVE FilesOk(p)' /\ RowsOk(p)'
  <2>1. Under(p) = {} /\ p # op[o].on
    BY <1>3, <1>4, ActiveOnProject
  <2>. QED
    BY <2>1 DEF OthersStay, SettledInv, FilesOk, RowsOk, RowOf
<1>5. ASSUME NEW q \in Active, ~op'[q].met
      PROVE  (FilesStage(op[q], op[q].on))' /\ (RowsStage(op[q], op[q].on))'
  <2>1. CASE q = o
    BY <1>5, <2>1
  <2>2. CASE q # o
    <3>1. op'[q] = op[q] /\ op[q].on \in Projects /\ op[q].on # op[o].on
      BY <1>5, <2>2, ActiveOnProject DEF SettledInv, Alone, Active
    <3>2. FilesStage(op[q], op[q].on) /\ RowsStage(op[q], op[q].on)
      BY <1>5, <3>1 DEF SettledInv
    <3>. QED
      BY <3>1, <3>2 DEF OthersStay, FilesStage, RowsStage, FilesOk, RowsKept, RowOf
  <2>. QED
    BY <2>1, <2>2
<1>. QED
  BY <1>1, <1>2, <1>4, <1>5 DEF SettledInv

(* One that ends owes the agreement of the copies it leaves behind. *)
LEMMA ComesToEnd ==
  ASSUME TypeInv, TypeInv', SettledInv, NEW o \in Active, OthersStay(o),
         \A q \in Operations : q # o => op'[q] = op[q], op'[o].at \in Ended,
         \A p \in Projects : p = op[o].on => FilesOk(p)' /\ RowsOk(p)'
  PROVE  SettledInv'
<1>1. Active' = Active \ {o}
  BY DEF Active, Ended
<1>2. Alone'
  BY <1>1 DEF SettledInv, Alone, Active
<1>4. ASSUME NEW p \in Projects, Under(p)' = {} PROVE FilesOk(p)' /\ RowsOk(p)'
  <2>1. CASE p = op[o].on
    BY <2>1
  <2>2. CASE p # op[o].on
    <3>1. Under(p) = {}
      BY <1>4, <2>2 DEF Under
    <3>. QED
      BY <2>2, <3>1 DEF OthersStay, SettledInv, FilesOk, RowsOk, RowOf
  <2>. QED
    BY <2>1, <2>2
<1>5. ASSUME NEW q \in Active \ {o}, ~op'[q].met
      PROVE  (FilesStage(op[q], op[q].on))' /\ (RowsStage(op[q], op[q].on))'
  <2>1. op'[q] = op[q] /\ op[q].on \in Projects /\ op[q].on # op[o].on
    BY <1>5, ActiveOnProject DEF SettledInv, Alone, Active
  <2>2. FilesStage(op[q], op[q].on) /\ RowsStage(op[q], op[q].on)
    BY <1>5, <2>1 DEF SettledInv
  <2>. QED
    BY <2>1, <2>2 DEF OthersStay, FilesStage, RowsStage, FilesOk, RowsKept, RowOf
<1>. QED
  BY <1>1, <1>2, <1>4, <1>5 DEF SettledInv

LEMMA SettledBegin ==
  ASSUME TypeInv, TypeInv', SettledInv, NEW o \in Operations, NEW p \in Projects,
         NEW kind \in Kinds, Begin(o, p, kind)
  PROVE  SettledInv'
<1> USE DEF files, rows, history
<1>0. op \in [Operations -> Operation]
  BY DEF TypeInv, TypeOK
<1>1. \A q \in Operations : q # o /\ q \notin Under(p) => op'[q] = op[q]
  BY DEF Begin
<1>2. ASSUME NEW q \in Operations, q # o, q \in Under(p)
      PROVE  op'[q].at = op[q].at /\ op'[q].on = op[q].on /\ op'[q].met
  <2>1. op'[q] = [op[q] EXCEPT !.met = TRUE]
    BY <1>2 DEF Begin
  <2>. QED
    BY <2>1, <1>0 DEF Operation
<1>3. /\ op'[o].at = (IF kind = "save" THEN "registry" ELSE "load") /\ op'[o].on = p
      /\ op'[o].kind = kind /\ op'[o].met = (Under(p) # {}) /\ op[o].at = "idle"
  <2> DEFINE met == Under(p) # {}
  <2>. HIDE DEF met
  <2>1. op'[o] = [Idle EXCEPT !.at = IF kind = "save" THEN "registry" ELSE "load",
                              !.on = p, !.kind = kind,
                              !.data = IF kind = "repair" THEN Nobody ELSE o,
                              !.met = met] /\ op[o].at = "idle"
    BY DEF Begin, met
  <2>. QED
    BY <2>1 DEF Idle, met
<1>4. Active' = Active \cup {o} /\ o \notin Active /\ Active \subseteq Operations
  <2>1. \A q \in Operations : q # o => op'[q].at = op[q].at
    BY <1>1, <1>2
  <2>. QED
    BY <1>3, <2>1 DEF Active, Ended
<1>5. Under(p) = {q \in Active : op[q].on = p}
  BY ActiveOnProject
<1>6. Alone'
  <2>1. \A q \in Active : op'[q].on = op[q].on /\ (op[q].met => op'[q].met)
    BY <1>1, <1>2, <1>4
  <2>2. ASSUME NEW q \in Active, op'[q].on = p PROVE op'[q].met /\ op'[o].met
    <3>1. q \in Under(p) /\ q # o
      BY <1>4, <1>5, <2>1, <2>2
    <3>. QED
      BY <1>2, <1>3, <3>1 DEF Under
  <2>. QED
    BY <1>3, <1>4, <2>1, <2>2 DEF SettledInv, Alone
<1>7. UNCHANGED <<json, compact, temp, row, layers, payload, latest, doubt>>
  BY DEF Begin
<1>8. ASSUME NEW r \in Projects, Under(r)' = {} PROVE FilesOk(r)' /\ RowsOk(r)'
  <2>1. r # p /\ Under(r) = {}
    <3>1. Under(r)' = {q \in Active' : op'[q].on = r}
      BY NamesAssumption DEF TypeInv, Staged, StagedAt, Active, Under, Nobody
    <3>2. Under(r) = {q \in Active : op[q].on = r}
      BY ActiveOnProject
    <3>3. \A q \in Active : op'[q].on = op[q].on
      BY <1>1, <1>2, <1>4
    <3>. QED
      BY <1>3, <1>4, <1>8, <3>1, <3>2, <3>3
  <2>. QED
    BY <1>7, <2>1 DEF SettledInv, FilesOk, RowsOk, RowOf
<1>9. ASSUME NEW q \in Active', ~op'[q].met
      PROVE  (FilesStage(op[q], op[q].on))' /\ (RowsStage(op[q], op[q].on))'
  <2>1. CASE q = o
    <3>1. FilesOk(p) /\ RowsKept(p)
      BY <1>3, <1>9, <2>1 DEF SettledInv, RowsOk, RowsKept
    <3>2. FilesOk(p)' /\ RowsKept(p)'
      BY <1>7, <3>1 DEF FilesOk, RowsKept, RowOf
    <3>. QED
      BY <1>3, <2>1, <3>2, TypeInv' DEF FilesStage, RowsStage, TypeInv, Staged, StagedAt, First, Recording, Transaction
  <2>2. CASE q # o
    <3>1. op'[q] = op[q] /\ q \in Active
      BY <1>1, <1>2, <1>4, <1>9, <2>2
    <3>2. FilesStage(op[q], op[q].on) /\ RowsStage(op[q], op[q].on)
      BY <1>9, <3>1 DEF SettledInv
    <3>. QED
      BY <1>7, <3>1, <3>2 DEF FilesStage, RowsStage, FilesOk, RowsKept, RowOf
  <2>. QED
    BY <2>1, <2>2
<1>. QED
  BY <1>6, <1>8, <1>9 DEF SettledInv

(* An exception leaves every copy of its project in doubt. *)
LEMMA SettledFail ==
  ASSUME TypeInv, TypeInv', SettledInv, NEW o \in Active, NEW at \in Ended, Fail(o, at),
         UNCHANGED <<json, compact, temp, row, layers, payload>>
  PROVE  SettledInv'
<1>0. op \in [Operations -> Operation] /\ doubt \in [Projects -> SUBSET {"files", "rows", "hash"}]
      /\ op[o].on \in Projects /\ o \in Operations
  BY ActiveOnProject DEF TypeInv, TypeOK, Active
<1>1. (\A q \in Operations : q # o => op'[q] = op[q]) /\ op'[o].at = at
  BY <1>0, OverIsOperation DEF Fail, Over, Idle
<1>2. doubt'[op[o].on] = {"files", "rows", "hash"} /\ OthersStay(o)
  BY <1>0 DEF Fail, OthersStay
<1>. QED
  BY <1>1, <1>2, ComesToEnd DEF FilesOk, RowsOk

LEMMA EndsAt ==
  ASSUME TypeInv, NEW o \in Active, End(o)
  PROVE  /\ \A q \in Operations : q # o => op'[q] = op[q]
         /\ op'[o].at = "done"
         /\ doubt'[op[o].on] = DoubtAfter(o)
         /\ latest'[op[o].on] = IF op[o].kind = "repair" THEN latest[op[o].on] ELSE op[o].data
         /\ \A p \in Projects : p # op[o].on => doubt'[p] = doubt[p] /\ latest'[p] = latest[p]
<1>0. op \in [Operations -> Operation] /\ doubt \in [Projects -> SUBSET {"files", "rows", "hash"}]
      /\ latest \in [Projects -> Data] /\ op[o].on \in Projects /\ o \in Operations
  BY ActiveOnProject DEF TypeInv, TypeOK, Active
<1>. QED
  BY <1>0, OverIsOperation DEF End, Over, Idle

(* The last step of an operation leaves what it has settled. *)
LEMMA SettledSidecarEnd ==
  ASSUME TypeInv, TypeInv', SettledInv, NEW o \in Operations, WriteSidecar(o), End(o),
         ~Records(op[o].kind)
  PROVE  SettledInv'
<1>0. o \in Active /\ op[o].at = "sidecar"
  BY DEF WriteSidecar, Active, Ended
<1> PICK p \in Projects : p = op[o].on
  BY <1>0, ActiveOnProject
<1>1. /\ p \in Projects /\ op[o].kind \in {"bundle", "repair"} /\ op[o].data \in Operations
      /\ compact \in [Projects -> SUBSET Noted] /\ AtMostOne(json[p])
  BY <1>0, KindsAssumption, ActiveOnProject DEF TypeInv, TypeOK, Staged, StagedAt, Active, Ended,
     Records, OperationKinds
<1>2. UNCHANGED <<json, temp, row, layers, payload>>
      /\ compact'[p] = {[of |-> op[o].data, json |-> w] : w \in op[o].write}
      /\ \A q \in Projects : q # p => compact'[q] = compact[q]
  BY <1>1 DEF WriteSidecar, rows
<1>3. OthersStay(o)
  BY <1>0, <1>2, EndsAt DEF OthersStay
<1>4. CASE op[o].met
  <2>1. doubt'[p] = {"files", "rows", "hash"}
    BY <1>0, <1>4, EndsAt DEF DoubtAfter
  <2>. QED
    BY <1>0, <1>3, <2>1, EndsAt, ComesToEnd DEF FilesOk, RowsOk, Ended
<1>5. CASE ~op[o].met
  <2>1. FilesStage(op[o], p) /\ RowsStage(op[o], p)
    BY <1>0, <1>5 DEF SettledInv
  <2>2. PICK w \in json[p] : w.of = op[o].data
    BY <1>0, <2>1 DEF FilesStage
  <2>3. json'[p] = {w} /\ compact'[p] = {[of |-> w.of, json |-> w]}
    BY <1>0, <1>1, <1>2, <2>1, <2>2 DEF FilesStage, AtMostOne
  <2>4. CASE op[o].kind = "bundle"
    <3>1. latest'[p] = op[o].data /\ "rows" \in doubt'[p]
      BY <1>0, <1>5, <2>4, EndsAt DEF DoubtAfter, Records
    <3>2. FilesOk(p)' /\ RowsOk(p)'
      BY <2>2, <2>3, <3>1 DEF FilesOk, RowsOk
    <3>. QED
      BY <1>0, <1>3, <3>2, EndsAt, ComesToEnd DEF Ended
  <2>5. CASE op[o].kind = "repair"
    <3>1. latest'[p] = latest[p] /\ doubt'[p] = doubt[p] \cup {"hash"}
      BY <1>0, <1>5, <2>5, EndsAt DEF DoubtAfter, Records
    <3>2. latest[p] # Nobody /\ "files" \notin doubt[p] => w.of = latest[p]
      BY <1>0, <2>1, <2>2, <2>5 DEF FilesStage
    <3>3. FilesOk(p)'
      BY <2>3, <3>1, <3>2 DEF FilesOk
    <3>4. RowsOk(p)'
      BY <1>2, <2>1, <2>5, <3>1 DEF RowsOk, RowsStage, RowsKept, RowOf
    <3>. QED
      BY <1>0, <1>3, <3>3, <3>4, EndsAt, ComesToEnd DEF Ended
  <2>. QED
    BY <1>1, <2>4, <2>5
<1>. QED
  BY <1>4, <1>5

LEMMA SettledCommit ==
  ASSUME TypeInv, TypeInv', SettledInv, NEW o \in Operations, Commit(o)
  PROVE  SettledInv'
<1>0. o \in Active /\ op[o].at = "commit" /\ End(o)
  BY DEF Commit, Active, Ended
<1> PICK p \in Projects : p = op[o].on
  BY <1>0, ActiveOnProject
<1>1. /\ p \in Projects /\ Records(op[o].kind) /\ op[o].data \in Operations
      /\ row \in [Projects -> SUBSET Rows] /\ layers \in [Projects -> SUBSET Operations]
      /\ AtMostOne(json[p])
  BY <1>0, ActiveOnProject DEF TypeInv, TypeOK, Staged, StagedAt, Active, Ended, Transaction
<1>2. /\ UNCHANGED <<json, compact, temp, payload>>
      /\ row'[p] = {[of |-> op[o].data, hash |-> w] : w \in op[o].write}
      /\ layers'[p] = (layers[p] \ op[o].under) \cup {op[o].data}
      /\ \A q \in Projects : q # p => row'[q] = row[q] /\ layers'[q] = layers[q]
  BY <1>1 DEF Commit, files
<1>3. OthersStay(o)
  BY <1>0, <1>2, EndsAt DEF OthersStay
<1>4. CASE op[o].met
  <2>1. doubt'[p] = {"files", "rows", "hash"}
    BY <1>0, <1>4, EndsAt DEF DoubtAfter
  <2>. QED
    BY <1>0, <1>3, <2>1, EndsAt, ComesToEnd DEF FilesOk, RowsOk, Ended
<1>5. CASE ~op[o].met
  <2>1. FilesStage(op[o], p) /\ RowsStage(op[o], p)
    BY <1>0, <1>5 DEF SettledInv
  <2>2. PICK w \in json[p] : w.of = op[o].data
    BY <1>0, <2>1 DEF FilesStage, Transaction
  <2>3. json[p] = {w} /\ op[o].write = {w} /\ op[o].under = layers[p] /\ payload[p] = w.of
    BY <1>0, <1>1, <2>1, <2>2 DEF RowsStage, AtMostOne, Transaction
  <2>4. compact[p] = {[of |-> w.of, json |-> w]}
    BY <1>0, <2>1, <2>2, <2>3 DEF FilesStage, Transaction
  <2>5. latest'[p] = w.of
    BY <1>0, <1>1, <2>2, EndsAt DEF Records
  <2>6. FilesOk(p)'
    BY <1>2, <2>3, <2>4, <2>5 DEF FilesOk
  <2>7. row'[p] = {[of |-> w.of, hash |-> w]} /\ layers'[p] = {w.of}
    BY <1>2, <2>2, <2>3
  <2>8. RowsOk(p)'
    <3> DEFINE r == [of |-> w.of, hash |-> w]
    <3>1. r \in row'[p] /\ r.of = w.of /\ r.hash = w
      BY <2>7
    <3>2. payload'[p] = w.of /\ json'[p] = {w}
      BY <1>2, <2>3
    <3>. HIDE DEF r
    <3>. QED
      BY <2>5, <2>7, <3>1, <3>2 DEF RowsOk, RowOf
  <2>. QED
    BY <1>0, <1>3, <2>6, <2>8, EndsAt, ComesToEnd DEF Ended
<1>. QED
  BY <1>4, <1>5

LEMMA SettledStep == TypeInv /\ SettledInv /\ [Next]_vars => SettledInv'
<1> SUFFICES ASSUME TypeInv, SettledInv, [Next]_vars PROVE SettledInv'
  OBVIOUS
<1> USE DEF files, rows, history, Go, Seen
<1>0. /\ TypeInv' /\ op \in [Operations -> Operation]
      /\ json \in [Projects -> SUBSET Writes] /\ temp \in [Projects -> SUBSET Writes]
      /\ payload \in [Projects -> Data] /\ compact \in [Projects -> SUBSET Noted]
  BY TypeStep DEF TypeInv, TypeOK
<1>a. ASSUME NEW o \in Operations, op[o].at \notin Ended \cup {"idle"}
      PROVE  /\ o \in Active /\ op[o].on \in Projects
             /\ op[o] \in Operation /\ StagedAt(op[o])
             /\ ~op[o].met => FilesStage(op[o], op[o].on) /\ RowsStage(op[o], op[o].on)
  BY <1>a, PresentOperation, ActiveOnProject DEF Active, SettledInv
<1>1. ASSUME NEW o \in Operations, NEW p \in Projects, NEW kind \in Kinds, Begin(o, p, kind)
      PROVE  SettledInv'
  BY <1>0, <1>1, SettledBegin
<1>2. ASSUME NEW o \in Operations, Stop(o) PROVE SettledInv'
  BY <1>0, <1>2, SettledFail DEF Stop, Ended
<1>3. ASSUME NEW o \in Operations, Load(o) PROVE SettledInv'
  <2>0. op[o].at = "load" /\ UNCHANGED <<json, compact, temp, row, layers, payload>>
    BY <1>3 DEF Load
  <2>1. /\ o \in Active /\ op[o] \in Operation
        /\ ~op[o].met => FilesStage(op[o], op[o].on) /\ RowsStage(op[o], op[o].on)
    BY <1>a, <2>0 DEF Ended
  <2> PICK p \in Projects : p = op[o].on
    BY <1>a, <2>0 DEF Ended
  <2>2. PICK w \in json[p] :
          \/ w = Half /\ Fail(o, "failed")
          \/ w # Half /\ op[o].kind # "repair" /\ Go(o, "registry") /\ UNCHANGED <<holder, history>>
          \/ /\ w # Half /\ op[o].kind = "repair"
             /\ \E at \in {"open", "stat"} : op' = [op EXCEPT ![o].at = at, ![o].data = w.of]
             /\ UNCHANGED <<holder, history>>
    BY <1>3 DEF Load
  <2>3. CASE Fail(o, "failed")
    BY <1>0, <2>0, <2>1, <2>3, SettledFail DEF Ended
  <2>4. CASE op[o].kind # "repair" /\ Go(o, "registry") /\ UNCHANGED <<holder, history>>
    <3>1. \A q \in Operations : q # o => op'[q] = op[q]
      BY <1>0, <2>4
    <3>2. op'[o].at = "registry" /\ op'[o].on = p /\ op'[o].met = op[o].met /\ op'[o].kind # "repair"
      BY <2>1, <2>4, <1>0 DEF Operation
    <3>3. OthersStay(o)
      BY <2>0, <2>4 DEF OthersStay
    <3>4. (FilesStage(op[o], p))' /\ (RowsStage(op[o], p))'
      BY <3>2 DEF FilesStage, RowsStage, Recording, Transaction
    <3>. QED
      BY <1>0, <2>1, <3>1, <3>2, <3>3, <3>4, GoesOn DEF Ended
  <2>5. ASSUME NEW at \in {"open", "stat"}, op[o].kind = "repair",
               op' = [op EXCEPT ![o].at = at, ![o].data = w.of], UNCHANGED <<holder, history>>
        PROVE  SettledInv'
    <3>1. \A q \in Operations : q # o => op'[q] = op[q]
      BY <1>0, <2>5
    <3>2. /\ op'[o].at = at /\ op'[o].on = p /\ op'[o].met = op[o].met
          /\ op'[o].kind = "repair" /\ op'[o].data = w.of
      BY <2>1, <2>5, <1>0 DEF Operation
    <3>3. OthersStay(o)
      BY <2>0, <2>5 DEF OthersStay
    <3>4. AtMostOne(json[p]) /\ json'[p] = json[p] /\ latest'[p] = latest[p] /\ doubt'[p] = doubt[p]
      BY <2>0, <2>5, PresentCopies
    <3>5. ASSUME ~op[o].met PROVE (FilesStage(op[o], p))' /\ (RowsStage(op[o], p))'
      <4>1. FilesOk(p) /\ RowsKept(p)
        BY <2>0, <2>1, <2>5, <3>5 DEF FilesStage, RowsStage
      <4>2. latest[p] # Nobody /\ "files" \notin doubt[p] => w.of = latest[p]
        BY <3>4, <4>1 DEF FilesOk, AtMostOne
      <4>3. RowsKept(p)'
        BY <2>0, <3>4, <4>1 DEF RowsKept, RowOf
      <4>. QED
        BY <2>5, <3>2, <3>4, <4>2, <4>3 DEF FilesStage, RowsStage, Recording, Transaction
    <3>. QED
      BY <1>0, <2>1, <3>1, <3>2, <3>3, <3>5, GoesOn DEF Ended
  <2>. QED
    BY <2>2, <2>3, <2>4, <2>5
<1>4. ASSUME NEW o \in Operations, ReadRegistry(o) \/ OpenRegistry(o) \/ WriteRegistry(o)
      PROVE  SettledInv'
  <2>0. op[o].at \in First
    BY <1>4 DEF ReadRegistry, OpenRegistry, WriteRegistry, First
  <2>1. o \in Active /\ op[o] \in Operation /\ op[o].kind # "repair"
    BY <1>a, <2>0 DEF Ended, First, StagedAt
  <2> PICK p \in Projects : p = op[o].on
    BY <1>a, <2>0 DEF Ended, First
  <2>2. \A q \in Operations : q # o => op'[q] = op[q]
    BY <1>0, <1>4 DEF ReadRegistry, OpenRegistry, WriteRegistry
  <2>3. /\ op'[o].at \in {"reopen", "relist", "open"} /\ op'[o].on = p
        /\ op'[o].met = op[o].met /\ op'[o].kind = op[o].kind
    <3>1. CASE ReadRegistry(o)
      BY <1>0, <2>1, <3>1 DEF ReadRegistry, Operation
    <3>2. CASE OpenRegistry(o)
      BY <1>0, <2>1, <3>2 DEF OpenRegistry, Operation
    <3>3. CASE WriteRegistry(o)
      BY <1>0, <2>1, <3>3 DEF WriteRegistry, Operation
    <3>. QED
      BY <1>4, <3>1, <3>2, <3>3
  <2>4. OthersStay(o)
    BY <1>4 DEF ReadRegistry, OpenRegistry, WriteRegistry, OthersStay
  <2>5. (FilesStage(op[o], p))' /\ (RowsStage(op[o], p))'
    BY <2>1, <2>3 DEF FilesStage, RowsStage, Recording, Transaction
  <2>. QED
    BY <1>0, <2>1, <2>2, <2>3, <2>4, <2>5, GoesOn DEF Ended
<1>5. ASSUME NEW o \in Operations, OpenJson(o) PROVE SettledInv'
  <2>0. op[o].at = "open"
    BY <1>5 DEF OpenJson
  <2>1. /\ o \in Active /\ op[o] \in Operation
        /\ ~op[o].met => FilesStage(op[o], op[o].on) /\ RowsStage(op[o], op[o].on)
    BY <1>a, <2>0 DEF Ended
  <2> PICK p \in Projects : p = op[o].on
    BY <1>a, <2>0 DEF Ended
  <2>2. \A q \in Operations : q # o => op'[q] = op[q]
    BY <1>0, <1>5 DEF OpenJson
  <2>3. /\ op'[o].at = "write" /\ op'[o].on = p /\ op'[o].met = op[o].met
        /\ op'[o].kind = op[o].kind /\ op'[o].data = op[o].data
    BY <1>0, <1>5, <2>1 DEF OpenJson, Operation
  <2>4. OthersStay(o) /\ UNCHANGED <<row, layers, payload, latest, doubt>>
    BY <1>0, <1>5 DEF OpenJson, OthersStay
  <2>5. ASSUME ~op[o].met PROVE (FilesStage(op[o], p))' /\ (RowsStage(op[o], p))'
    BY <2>0, <2>1, <2>3, <2>4, <2>5 DEF FilesStage, RowsStage, RowsKept, RowOf, Recording, Transaction
  <2>. QED
    BY <1>0, <2>1, <2>2, <2>3, <2>4, <2>5, GoesOn DEF Ended
<1>6. ASSUME NEW o \in Operations, WriteJson(o) PROVE SettledInv'
  <2>0. op[o].at = "write"
    BY <1>6 DEF WriteJson
  <2>1. /\ o \in Active /\ op[o] \in Operation
        /\ ~op[o].met => FilesStage(op[o], op[o].on) /\ RowsStage(op[o], op[o].on)
    BY <1>a, <2>0 DEF Ended
  <2> PICK p \in Projects : p = op[o].on
    BY <1>a, <2>0 DEF Ended
  <2>2. \A q \in Operations : q # o => op'[q] = op[q]
    BY <1>0, <1>6 DEF WriteJson
  <2>3. /\ op'[o].at = "stat" /\ op'[o].on = p /\ op'[o].met = op[o].met
        /\ op'[o].kind = op[o].kind /\ op'[o].data = op[o].data
    BY <1>0, <1>6, <2>1 DEF WriteJson, Operation
  <2>4. OthersStay(o) /\ UNCHANGED <<row, layers, payload, latest, doubt>>
    BY <1>0, <1>6 DEF WriteJson, OthersStay
  <2>6. json'[p] = {Write(o)} /\ Write(o).of = op[o].data
    BY <1>0, <1>6 DEF WriteJson, Write
  <2>5. ASSUME ~op[o].met PROVE (FilesStage(op[o], p))' /\ (RowsStage(op[o], p))'
    <3>1. \E w \in json'[p] : w.of = op'[o].data
      BY <2>3, <2>6
    <3>. QED
      BY <2>0, <2>1, <2>3, <2>4, <2>5, <3>1
         DEF FilesStage, RowsStage, RowsKept, RowOf, Recording, Transaction
  <2>. QED
    BY <1>0, <2>1, <2>2, <2>3, <2>4, <2>5, GoesOn DEF Ended
<1>7. ASSUME NEW o \in Operations, Stat(o) PROVE SettledInv'
  <2>0. op[o].at = "stat"
    BY <1>7 DEF Stat
  <2>1. /\ o \in Active /\ op[o] \in Operation
        /\ ~op[o].met => FilesStage(op[o], op[o].on) /\ RowsStage(op[o], op[o].on)
    BY <1>a, <2>0 DEF Ended
  <2> PICK p \in Projects : p = op[o].on
    BY <1>a, <2>0 DEF Ended
  <2>2. \A q \in Operations : q # o => op'[q] = op[q]
    BY <1>0, <1>7 DEF Stat
  <2>3. /\ op'[o].at = "sidecar" /\ op'[o].on = p /\ op'[o].met = op[o].met
        /\ op'[o].kind = op[o].kind /\ op'[o].data = op[o].data /\ op'[o].write = json[p]
    BY <1>0, <1>7, <2>1 DEF Stat, Operation
  <2>4. OthersStay(o) /\ UNCHANGED <<json, row, layers, payload, latest, doubt>>
    BY <1>0, <1>7 DEF Stat, OthersStay
  <2>5. ASSUME ~op[o].met PROVE (FilesStage(op[o], p))' /\ (RowsStage(op[o], p))'
    BY <2>0, <2>1, <2>3, <2>4, <2>5 DEF FilesStage, RowsStage, RowsKept, RowOf, Recording, Transaction
  <2>. QED
    BY <1>0, <2>1, <2>2, <2>3, <2>4, <2>5, GoesOn DEF Ended
<1>8. ASSUME NEW o \in Operations, WriteSidecar(o) PROVE SettledInv'
  <2>0. op[o].at = "sidecar"
    BY <1>8 DEF WriteSidecar
  <2>1. /\ o \in Active /\ op[o] \in Operation /\ StagedAt(op[o])
        /\ ~op[o].met => FilesStage(op[o], op[o].on) /\ RowsStage(op[o], op[o].on)
    BY <1>a, <2>0 DEF Ended
  <2> PICK p \in Projects : p = op[o].on
    BY <1>a, <2>0 DEF Ended
  <2>2. CASE End(o) /\ ~Records(op[o].kind)
    BY <1>0, <1>8, <2>2, SettledSidecarEnd
  <2>3. ASSUME NEW at \in {"hash", "temp"}, Seen(o, at), UNCHANGED history, Records(op[o].kind)
        PROVE  SettledInv'
    <3>1. \A q \in Operations : q # o => op'[q] = op[q]
      BY <1>0, <2>3
    <3>2. /\ op'[o].at = at /\ op'[o].on = p /\ op'[o].met = op[o].met
          /\ op'[o].kind = op[o].kind /\ op'[o].data = op[o].data
      BY <1>0, <2>1, <2>3 DEF Operation
    <3>3. UNCHANGED <<json, row, layers, payload, latest, doubt, temp>>
          /\ compact'[p] = {[of |-> op[o].data, json |-> w] : w \in op[o].write}
          /\ \A q \in Projects : q # p => compact'[q] = compact[q]
      BY <1>0, <1>8, <2>3 DEF WriteSidecar
    <3>4. OthersStay(o)
      BY <3>3 DEF OthersStay
    <3>5. ASSUME ~op[o].met PROVE (FilesStage(op[o], p))' /\ (RowsStage(op[o], p))'
      <4>1. FilesStage(op[o], p)
        BY <2>1, <3>5
      <4>2. (\E w \in json[p] : w.of = op[o].data) /\ op[o].write = json[p]
        BY <2>0, <4>1 DEF FilesStage
      <4>3. compact'[p] = {[of |-> op[o].data, json |-> w] : w \in json[p]}
        BY <3>3, <4>2
      <4>. QED
        BY <2>3, <3>2, <3>3, <4>2, <4>3
           DEF FilesStage, RowsStage, RowsKept, RowOf, Recording, Transaction, Records
    <3>. QED
      BY <1>0, <2>1, <3>1, <3>2, <3>4, <3>5, GoesOn DEF Ended
  <2>. QED
    <3>1. op[o].nr = 2 => Records(op[o].kind)
      BY <2>0, <2>1 DEF StagedAt
    <3>. QED
      BY <1>8, <2>2, <2>3, <3>1 DEF WriteSidecar
<1>9. ASSUME NEW o \in Operations, WriteTemp(o) PROVE SettledInv'
  <2>0. op[o].at = "temp"
    BY <1>9 DEF WriteTemp
  <2>1. /\ o \in Active /\ op[o] \in Operation
        /\ ~op[o].met => FilesStage(op[o], op[o].on) /\ RowsStage(op[o], op[o].on)
    BY <1>a, <2>0 DEF Ended
  <2> PICK p \in Projects : p = op[o].on
    BY <1>a, <2>0 DEF Ended
  <2>2. \A q \in Operations : q # o => op'[q] = op[q]
    BY <1>0, <1>9 DEF WriteTemp
  <2>3. /\ op'[o].at = "move" /\ op'[o].on = p /\ op'[o].met = op[o].met
        /\ op'[o].kind = op[o].kind /\ op'[o].data = op[o].data
    BY <1>0, <1>9, <2>1 DEF WriteTemp, Operation
  <2>4. OthersStay(o) /\ UNCHANGED <<json, row, layers, payload, latest, doubt>>
    BY <1>0, <1>9 DEF WriteTemp, OthersStay
  <2>6. temp'[p] = {Write(o)} /\ Write(o).of = op[o].data
    BY <1>0, <1>9 DEF WriteTemp, Write
  <2>5. ASSUME ~op[o].met PROVE (FilesStage(op[o], p))' /\ (RowsStage(op[o], p))'
    <3>1. \E w \in temp'[p] : w.of = op'[o].data
      BY <2>3, <2>6
    <3>. QED
      BY <2>0, <2>1, <2>3, <2>4, <2>5, <3>1
         DEF FilesStage, RowsStage, RowsKept, RowOf, Recording, Transaction
  <2>. QED
    BY <1>0, <2>1, <2>2, <2>3, <2>4, <2>5, GoesOn DEF Ended
<1>10. ASSUME NEW o \in Operations, MoveTemp(o) PROVE SettledInv'
  <2>0. op[o].at = "move" /\ UNCHANGED <<compact, row, layers, payload>>
    BY <1>10 DEF MoveTemp
  <2>1. /\ o \in Active /\ op[o] \in Operation
        /\ ~op[o].met => FilesStage(op[o], op[o].on) /\ RowsStage(op[o], op[o].on)
    BY <1>a, <2>0 DEF Ended
  <2> PICK p \in Projects : p = op[o].on
    BY <1>a, <2>0 DEF Ended
  <2>2. CASE Fail(o, "failed") /\ UNCHANGED <<json, temp>>
    BY <1>0, <2>0, <2>1, <2>2, SettledFail DEF Ended
  <2>3. CASE ~(Fail(o, "failed") /\ UNCHANGED <<json, temp>>)
    <3>0. /\ json' = [json EXCEPT ![p] = temp[p]] /\ temp' = [temp EXCEPT ![p] = Nothing]
          /\ op' = [op EXCEPT ![o].at = "stat", ![o].nr = @ + 1] /\ UNCHANGED <<holder, history>>
      BY <1>10, <2>3 DEF MoveTemp
    <3>1. \A q \in Operations : q # o => op'[q] = op[q]
      BY <1>0, <3>0
    <3>2. /\ op'[o].at = "stat" /\ op'[o].on = p /\ op'[o].met = op[o].met
          /\ op'[o].kind = op[o].kind /\ op'[o].data = op[o].data
      BY <1>0, <2>1, <3>0 DEF Operation
    <3>3. OthersStay(o) /\ json'[p] = temp[p] /\ UNCHANGED <<latest, doubt>>
      BY <1>0, <2>0, <3>0 DEF OthersStay
    <3>4. ASSUME ~op[o].met PROVE (FilesStage(op[o], p))' /\ (RowsStage(op[o], p))'
      BY <2>0, <2>1, <3>2, <3>3, <3>4 DEF FilesStage, RowsStage, RowsKept, RowOf, Recording, Transaction
    <3>. QED
      BY <1>0, <2>1, <3>1, <3>2, <3>3, <3>4, GoesOn DEF Ended
  <2>. QED
    BY <2>2, <2>3
<1>11. ASSUME NEW o \in Operations, Hash(o) PROVE SettledInv'
  <2>0. op[o].at = "hash"
    BY <1>11 DEF Hash
  <2>1. /\ o \in Active /\ op[o] \in Operation /\ StagedAt(op[o])
        /\ ~op[o].met => FilesStage(op[o], op[o].on) /\ RowsStage(op[o], op[o].on)
    BY <1>a, <2>0 DEF Ended
  <2> PICK p \in Projects : p = op[o].on
    BY <1>a, <2>0 DEF Ended
  <2>2. \A q \in Operations : q # o => op'[q] = op[q]
    BY <1>0, <1>11 DEF Hash
  <2> DEFINE at == IF row[op[o].on] = Nothing THEN "insert" ELSE "lock"
  <2>6. at \in {"insert", "lock"}
    OBVIOUS
  <2>7. op' = [op EXCEPT ![o].at = at, ![o].write = json[op[o].on], ![o].under = layers[op[o].on]]
    BY <1>11 DEF Hash
  <2>. HIDE DEF at
  <2>3. /\ op'[o].at \in {"insert", "lock"} /\ op'[o].on = p /\ op'[o].met = op[o].met
        /\ op'[o].kind = op[o].kind /\ op'[o].data = op[o].data
        /\ op'[o].write = json[p] /\ op'[o].under = layers[p]
    BY <1>0, <2>1, <2>6, <2>7 DEF Operation
  <2>4. OthersStay(o) /\ UNCHANGED <<json, compact, row, layers, payload, latest, doubt>>
    BY <1>0, <1>11 DEF Hash, OthersStay
  <2>8. op[o].kind # "repair"
    BY <2>0, <2>1 DEF StagedAt, Transaction, Records
  <2>5. ASSUME ~op[o].met PROVE (FilesStage(op[o], p))' /\ (RowsStage(op[o], p))'
    BY <2>0, <2>1, <2>3, <2>4, <2>5, <2>8
       DEF FilesStage, RowsStage, RowsKept, RowOf, Recording, Transaction
  <2>. QED
    BY <1>0, <2>1, <2>2, <2>3, <2>4, <2>5, GoesOn DEF Ended
<1>12. ASSUME NEW o \in Operations, Insert(o) \/ Lock(o) \/ WritePayload(o) PROVE SettledInv'
  <2>0. op[o].at \in {"insert", "lock", "payload"} /\ UNCHANGED <<json, compact, temp, row, layers>>
    BY <1>12 DEF Insert, Lock, WritePayload
  <2>1. /\ o \in Active /\ op[o] \in Operation /\ StagedAt(op[o])
        /\ ~op[o].met => FilesStage(op[o], op[o].on) /\ RowsStage(op[o], op[o].on)
    BY <1>a, <2>0 DEF Ended
  <2> PICK p \in Projects : p = op[o].on
    BY <1>a, <2>0 DEF Ended
  <2>2. CASE Fail(o, "failed") /\ UNCHANGED payload
    BY <1>0, <2>0, <2>1, <2>2, SettledFail DEF Ended
  <2>3. CASE ~(Fail(o, "failed") /\ UNCHANGED payload)
    <3>0. \E at \in {"payload", "commit"} :
            /\ Go(o, at) /\ UNCHANGED <<latest, doubt>>
            /\ \A q \in Projects : q # p => payload'[q] = payload[q]
            /\ at = "commit" => payload'[p] = op[o].data
      BY <1>0, <1>12, <2>3 DEF Insert, Lock, WritePayload
    <3>1. \A q \in Operations : q # o => op'[q] = op[q]
      BY <1>0, <3>0
    <3>2. /\ op'[o].at \in {"payload", "commit"} /\ op'[o].on = p /\ op'[o].met = op[o].met
          /\ op'[o].kind = op[o].kind /\ op'[o].data = op[o].data
          /\ op'[o].write = op[o].write /\ op'[o].under = op[o].under
          /\ (op'[o].at = "commit" => payload'[p] = op[o].data)
      BY <1>0, <2>1, <3>0 DEF Operation
    <3>3. OthersStay(o)
      BY <2>0, <3>0 DEF OthersStay
    <3>5. op[o].kind # "repair"
      BY <2>0, <2>1 DEF StagedAt, Transaction, Records
    <3>4. ASSUME ~op[o].met PROVE (FilesStage(op[o], p))' /\ (RowsStage(op[o], p))'
      BY <2>0, <2>1, <3>2, <3>4, <3>5 DEF FilesStage, RowsStage, Recording, Transaction
    <3>. QED
      BY <1>0, <2>1, <3>1, <3>2, <3>3, <3>4, GoesOn DEF Ended
  <2>. QED
    BY <2>2, <2>3
<1>13. ASSUME NEW o \in Operations, Commit(o) PROVE SettledInv'
  BY <1>0, <1>13, SettledCommit
<1>14. CASE UNCHANGED vars
  BY <1>14 DEF vars, SettledInv, Alone, Active, Under, FilesOk, RowsOk, RowOf, FilesStage, RowsStage,
     RowsKept
<1>. QED
  BY <1>1, <1>2, <1>3, <1>4, <1>5, <1>6, <1>7, <1>8, <1>9, <1>10, <1>11, <1>12, <1>13, <1>14
     DEF Next, Step

LEMMA SettledInit == Init => SettledInv
  BY NamesAssumption DEF Init, SettledInv, Alone, Active, FilesOk, RowsOk, Idle, Nobody

(* Between operations project.json and the compact metadata are those of the *)
(* last one, for any number of operations, whatever met or stopped before.   *)
THEOREM FilesSettle == Spec => []FilesAgree
<1>1. TypeInv /\ SettledInv /\ [Next]_vars => TypeInv' /\ SettledInv'
  BY TypeStep, SettledStep
<1>2. SettledInv => FilesAgree
  BY DEF SettledInv, FilesAgree, AtRest, FilesOk
<1>. QED
  BY <1>1, <1>2, TypeInit, SettledInit, PTL DEF Spec

(* So are the rows, the layers and payload files beside them and the hash of *)
(* project.json in the row.                                                  *)
THEOREM RowsSettle == Spec => []RowsAgree
<1>1. TypeInv /\ SettledInv /\ [Next]_vars => TypeInv' /\ SettledInv'
  BY TypeStep, SettledStep
<1>2. SettledInv => RowsAgree
  BY DEF SettledInv, RowsAgree, AtRest, RowsOk, RowOf
<1>. QED
  BY <1>1, <1>2, TypeInit, SettledInit, PTL DEF Spec
=============================================================================
