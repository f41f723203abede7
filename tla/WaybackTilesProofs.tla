------------------------- MODULE WaybackTilesProofs -------------------------
(***************************************************************************)
(* What WaybackTiles promises for any area, settings and failures.  The    *)
(* check of a zoom knows every tile the service has there unless a check   *)
(* failed (Preflight); the download has every wanted tile the service has  *)
(* waiting, in the batch or on the mosaic unless an attempt failed         *)
(* (Accounted); so a mosaic that will be reused is whole (Made).           *)
(***************************************************************************)
EXTENDS WaybackTiles, FiniteSetTheorems, TLAPS

CheckState == [zoom : Zooms, next : Nat \ {0}, available : SUBSET Tiles, failed : Nat,
               workers : Nat]

TileState == [at       : {"queued", "running", "available", "missing_404", "raised",
                          "transient_failed"},
              attempt  : Nat,
              timeouts : Nat]

TypeInv ==
  /\ service \subseteq Tiles /\ stored \subseteq service
  /\ requests \in 0 .. MaxRequests /\ at \in Places /\ zoom \in Zooms
  /\ kind \in {None, "run", "prefetch"} /\ (at # "idle" => kind # None)
  /\ check \in CheckState
  /\ concurrency \in {0} \cup MinConcurrency .. MaxConcurrency
  /\ failed \in Nat
  /\ \A t \in DOMAIN tile : tile[t] \in TileState
  /\ DOMAIN mosaic = Zooms

Staffed ==
  /\ check.workers <= Larger(1, MaxWorkers)
  /\ at = "check" => check.workers \in LeastWorkers(check.zoom) .. FirstWorkers(check.zoom)

\* What the preflight knows.
Preflight ==
  /\ check.available \subseteq service \cap TilesAt(check.zoom) /\ found = check.available
  /\ at = "idle" => found = {}
  /\ Complete => \A i \in 1 .. Count[check.zoom] :
                   i < check.next /\ <<check.zoom, i>> \in service
                     => <<check.zoom, i>> \in check.available
  /\ at \notin {"idle", "check"} =>
       check.next > Count[check.zoom] /\ (zoom = check.zoom \/ check.available = {})
  /\ at \in {"look"} \cup Downloading /\ kind = "run" /\ Complete => zoom = check.zoom

\* Where the tiles of a download are.
Accounted ==
  /\ at \in Downloading => left \cup DOMAIN tile \cup pasted \subseteq Wanted
  /\ at \notin Downloading => left = {} /\ DOMAIN tile = {} /\ pasted = {} /\ failed = 0
  /\ at \in {"submit", "publish"} => DOMAIN tile = {}
  /\ at = "publish" => left = {}
  /\ at \in {"submit", "batch", "publish"} /\ failed = 0 =>
       Wanted \cap service \subseteq left \cup DOMAIN tile \cup pasted
  /\ \A t \in DOMAIN tile : tile[t].at = "missing_404" => t \notin service

Pool == Cardinality({t \in DOMAIN tile : Running(t)}) <= concurrency

\* The mosaics that are there.
Made ==
  \A z \in Zooms : \A m \in mosaic[z] :
    m.reusable =>
      /\ service \cap Aoi \cap TilesAt(z) \subseteq m.pasted
      /\ m.kind = "run" => m.actual = IF m.complete THEN service \cap Aoi \cap TilesAt(z)
                                                    ELSE Aoi \cap TilesAt(z)

Inv == TypeInv /\ Staffed /\ Preflight /\ Accounted /\ Pool /\ Made

-----------------------------------------------------------------------------
(* The settings, and the tiles of a zoom. *)

LEMMA ZoomFacts ==
  /\ Zooms \subseteq Nat /\ MinZoom \in Zooms /\ Preferred \in Zooms
  /\ \A z \in Zooms : Count[z] \in Nat \ {0} /\ (z # MinZoom => z - 1 \in Zooms)
  BY SettingsAssumption DEF Zooms

LEMMA TilesFinite ==
  ASSUME NEW z \in Zooms
  PROVE  IsFiniteSet(TilesAt(z)) /\ TilesAt(z) \subseteq Tiles
<1> DEFINE n == Count[z]
<1> DEFINE S == TilesAt(z)
<1> DEFINE f == [t \in S |-> t[2]]
<1>1. n \in Nat
  BY ZoomFacts
<1>2. f \in [S -> 1 .. n] /\ \A s, t \in S : f[s] = f[t] => s = t
  BY DEF TilesAt
<1>. HIDE DEF f, S, n
<1>3. f \in Injection(S, 1 .. n)
  BY <1>2 DEF Injection, IsInjective
<1>4. IsFiniteSet(1 .. n)
  BY <1>1, FS_Interval
<1>5. IsFiniteSet(S)
  BY <1>3, <1>4, FS_Injection
<1>. QED
  BY <1>5 DEF S, Tiles

\* The larger and the smaller of two numbers are one of them.
LEMMA LargerSmaller ==
  ASSUME NEW m \in Int, NEW n \in Int
  PROVE  /\ Larger(m, n) \in {m, n} /\ m <= Larger(m, n) /\ n <= Larger(m, n)
         /\ Smaller(m, n) \in {m, n} /\ Smaller(m, n) <= m /\ Smaller(m, n) <= n
  BY DEF Larger, Smaller

LEMMA WorkerBounds ==
  ASSUME NEW z \in Zooms
  PROVE  /\ LeastWorkers(z) \in Nat /\ FirstWorkers(z) \in Nat
         /\ LeastWorkers(z) <= FirstWorkers(z) /\ FirstWorkers(z) <= Larger(1, MaxWorkers)
         /\ Larger(1, MaxWorkers) \in Nat
<1>1. Count[z] \in Nat /\ MaxWorkers \in Nat /\ MinWorkers \in Nat
  BY ZoomFacts, SettingsAssumption
<1>. HIDE DEF Zooms
<1>. QED
  BY <1>1 DEF LeastWorkers, FirstWorkers, Larger, Smaller

\* The wanted tiles, by what the preflight knows.
LEMMA WantedParts ==
  ASSUME TypeInv, Preflight
  PROVE  /\ Wanted \subseteq Tiles /\ IsFiniteSet(Wanted)
         /\ at \in Downloading => Wanted \subseteq TilesAt(zoom)
         /\ at \in {"look"} \cup Downloading /\ kind = "run" =>
              Wanted = IF Complete THEN service \cap Aoi \cap TilesAt(zoom)
                                   ELSE Aoi \cap TilesAt(zoom)
         /\ at \in {"look"} \cup Downloading /\ Wanted # {} =>
              service \cap Aoi \cap TilesAt(zoom) \subseteq Wanted
<1>1. zoom \in Zooms /\ check.zoom \in Zooms /\ (at # "idle" => kind \in {"run", "prefetch"})
  BY DEF TypeInv, CheckState
<1>2. /\ IsFiniteSet(TilesAt(zoom)) /\ TilesAt(zoom) \subseteq Tiles
      /\ IsFiniteSet(TilesAt(check.zoom)) /\ TilesAt(check.zoom) \subseteq Tiles
  BY <1>1, TilesFinite
<1>3. /\ check.available \subseteq service /\ check.available \subseteq TilesAt(check.zoom)
  BY DEF Preflight
<1>4. Wanted \subseteq check.available \/ Wanted \subseteq TilesAt(zoom)
  BY DEF Wanted
<1>5. Wanted \in SUBSET TilesAt(check.zoom) \/ Wanted \in SUBSET TilesAt(zoom)
  BY <1>3, <1>4
<1>6. Wanted \subseteq Tiles /\ IsFiniteSet(Wanted)
  BY <1>2, <1>5, FS_Subset
<1>7. ASSUME at \in {"look"} \cup Downloading
      PROVE  /\ zoom = check.zoom \/ check.available = {}
             /\ kind = "run" /\ Complete => zoom = check.zoom
             /\ check.next > Count[check.zoom] /\ at # "idle"
  BY <1>7 DEF Preflight, Downloading
<1>8. ASSUME at \in {"look"} \cup Downloading, Complete
      PROVE  check.available = service \cap TilesAt(check.zoom)
  <2>1. check.next \in Nat /\ Count[check.zoom] \in Nat /\ check.next > Count[check.zoom]
    BY <1>1, <1>7, <1>8, ZoomFacts DEF TypeInv, CheckState
  <2>2. \A i \in 1 .. Count[check.zoom] : i < check.next
    BY <2>1
  <2>3. \A i \in 1 .. Count[check.zoom] : <<check.zoom, i>> \in service
                                            => <<check.zoom, i>> \in check.available
    BY <1>8, <2>2 DEF Preflight
  <2>. QED
    BY <1>3, <2>3 DEF TilesAt
<1>9. at \in Downloading => Wanted \subseteq TilesAt(zoom)
  BY <1>3, <1>4, <1>7
<1>10. at \in {"look"} \cup Downloading /\ kind = "run" =>
          Wanted = IF Complete THEN service \cap Aoi \cap TilesAt(zoom) ELSE Aoi \cap TilesAt(zoom)
  BY <1>7, <1>8 DEF Wanted
<1>11. at \in {"look"} \cup Downloading /\ kind # "run" /\ Wanted # {} =>
          service \cap Aoi \cap TilesAt(zoom) \subseteq Wanted
  BY <1>7, <1>8 DEF Wanted
<1>. QED
  BY <1>6, <1>9, <1>10, <1>11

-----------------------------------------------------------------------------
(* Types. *)

LEMMA EndParts ==
  ASSUME End
  PROVE  /\ at' = "idle" /\ kind' = None /\ check' = NoCheck /\ zoom' = Preferred /\ found' = {}
         /\ left' = {} /\ DOMAIN tile' = {} /\ concurrency' = 0 /\ pasted' = {} /\ failed' = 0
         /\ NoCheck \in CheckState /\ NoCheck.zoom = Preferred /\ NoCheck.available = {}
         /\ NoCheck.next = 1 /\ NoCheck.workers = 0 /\ NoCheck.failed = 0
  BY ZoomFacts DEF End, NoCheck, CheckState

LEMMA StartCheckParts ==
  ASSUME NEW z \in Zooms, StartCheck(z)
  PROVE  /\ check' \in CheckState /\ check'.zoom = z /\ check'.next = 1
         /\ check'.available = {} /\ check'.failed = 0 /\ check'.workers = FirstWorkers(z)
<1>1. PICK w \in Nat : w = FirstWorkers(z)
  BY WorkerBounds
<1>2. check' = [zoom |-> z, next |-> 1, available |-> {}, failed |-> 0, workers |-> w]
  BY <1>1 DEF StartCheck, NoCheck
<1>. QED
  BY <1>1, <1>2 DEF CheckState

LEMMA NextWorkersBounds ==
  ASSUME NEW z \in Zooms, NEW w \in LeastWorkers(z) .. FirstWorkers(z), w > LeastWorkers(z)
  PROVE  NextWorkers(z, w) \in LeastWorkers(z) .. FirstWorkers(z)
<1>1. LeastWorkers(z) \in Nat /\ FirstWorkers(z) \in Nat /\ WorkerStep \in Nat
  BY WorkerBounds, SettingsAssumption
<1>. QED
  BY <1>1 DEF NextWorkers, Larger

\* What a window of checks adds.
LEMMA WindowParts ==
  ASSUME TypeInv, Preflight, Staffed, CheckWindow
  PROVE  LET z      == check.zoom
             last   == Smaller(check.next + Window - 1, Count[z])
             window == {<<z, i>> : i \in check.next .. last}
         IN  /\ check' \in CheckState /\ check'.zoom = z
             /\ last \in Nat /\ check'.next = last + 1 /\ last <= Count[z]
             /\ check'.workers \in LeastWorkers(z) .. FirstWorkers(z)
             /\ \E errors \in SUBSET window :
                  /\ check'.available = check.available \cup ((window \ errors) \cap service)
                  /\ found' = found \cup ((window \ errors) \cap service)
                  /\ (check'.failed = 0 => check.failed = 0 /\ errors = {})
<1> DEFINE z == check.zoom
<1> DEFINE last == Smaller(check.next + Window - 1, Count[z])
<1> DEFINE window == {<<z, i>> : i \in check.next .. last}
<1>1. /\ check \in CheckState /\ z \in Zooms /\ check.next \in Nat \ {0} /\ check.failed \in Nat
      /\ check.available \in SUBSET Tiles /\ at = "check" /\ check.next <= Count[z]
      /\ check.workers \in LeastWorkers(z) .. FirstWorkers(z)
  BY DEF TypeInv, CheckState, CheckWindow, Staffed
<1>2. Window \in Nat \ {0} /\ Count[z] \in Nat
  BY <1>1, ZoomFacts, SettingsAssumption
<1>3. last \in Nat /\ last <= Count[z]
  BY <1>1, <1>2 DEF Smaller
<1>4. PICK errors \in SUBSET window, exhausted \in BOOLEAN :
        LET new == (window \ errors) \cap service IN
        /\ check' = [check EXCEPT !.next = last + 1, !.available = @ \cup new,
                       !.failed = @ + Cardinality(errors),
                       !.workers = IF /\ Unstable(Cardinality(errors), exhausted, Cardinality(window))
                                      /\ @ > LeastWorkers(z)
                                   THEN NextWorkers(z, @) ELSE @]
        /\ found' = found \cup new
  BY DEF CheckWindow
<1>5. PICK workers \in LeastWorkers(z) .. FirstWorkers(z) :
        workers = IF /\ Unstable(Cardinality(errors), exhausted, Cardinality(window))
                     /\ check.workers > LeastWorkers(z)
                  THEN NextWorkers(z, check.workers) ELSE check.workers
  BY <1>1, NextWorkersBounds
<1>6. window \in SUBSET TilesAt(z) /\ IsFiniteSet(window)
  <2>1. \A i \in check.next .. last : i \in 1 .. Count[z]
    <3>1. \A n \in Nat \ {0}, l, c \in Nat : l <= c => \A i \in n .. l : i \in 1 .. c
      OBVIOUS
    <3>. HIDE DEF last, z
    <3>. QED
      BY <1>1, <1>2, <1>3, <3>1
  <2>2. window \in SUBSET TilesAt(z)
    BY <2>1 DEF TilesAt
  <2>. QED
    BY <1>1, <2>2, TilesFinite, FS_Subset
<1>. DEFINE new == (window \ errors) \cap service
<1>. HIDE DEF window, last
<1>7. IsFiniteSet(errors) /\ Cardinality(errors) \in Nat /\ (Cardinality(errors) = 0 <=> errors = {})
  BY <1>6, FS_Subset, FS_CardinalityType, FS_EmptySet
<1>8. new \subseteq Tiles
  BY DEF TypeInv
<1>9. check' = [check EXCEPT !.next = last + 1, !.available = check.available \cup new,
                  !.failed = check.failed + Cardinality(errors), !.workers = workers]
  BY <1>4, <1>5
<1>10. PICK next \in Nat \ {0} : next = last + 1
  BY <1>3
<1>11. PICK failures \in Nat : failures = check.failed + Cardinality(errors)
  BY <1>1, <1>7
<1>12. workers \in Nat
  BY <1>1, WorkerBounds
<1>. HIDE DEF new
<1>13. /\ check' \in CheckState /\ check'.zoom = z /\ check'.next = next
       /\ check'.available = check.available \cup new /\ check'.failed = failures
       /\ check'.workers = workers
  BY <1>1, <1>8, <1>9, <1>10, <1>11, <1>12 DEF CheckState
<1>14. failures = 0 => check.failed = 0 /\ Cardinality(errors) = 0
  BY <1>1, <1>7, <1>11
<1>15. found' = found \cup new
  BY <1>4 DEF new
<1>. QED
  BY <1>3, <1>7, <1>10, <1>13, <1>14, <1>15 DEF window, last, new

\* What choosing a zoom does.
LEMMA ChooseParts ==
  ASSUME TypeInv, ChooseZoom
  PROVE  /\ at = "check" /\ check.next > Count[check.zoom]
         /\ \/ at' = "select" /\ check' = check /\ zoom' = check.zoom
            \/ at' = "select" /\ check' = check /\ zoom' = Preferred /\ check.available = {}
            \/ /\ at' = "check" /\ zoom' = zoom /\ check.available = {}
               /\ check.zoom - 1 \in Zooms /\ StartCheck(check.zoom - 1)
<1>1. check.zoom \in Zooms
  BY DEF TypeInv, CheckState
<1>2. check.zoom > MinZoom => check.zoom - 1 \in Zooms
  <2>1. check.zoom > MinZoom => check.zoom # MinZoom
    BY <1>1, ZoomFacts
  <2>. QED
    BY <1>1, <2>1, ZoomFacts
<1>. HIDE DEF Zooms
<1>. QED
  BY <1>2 DEF ChooseZoom

\* The steps that leave the preflight alone.
Checked == UNCHANGED <<check, zoom, found, service, kind>>

LEMMA StepKinds ==
  ASSUME [Next]_vars
  PROVE  \/ \E k \in {"run", "prefetch"} : Begin(k)
         \/ CheckWindow \/ ChooseZoom
         \/ Select /\ at' = "look" /\ Checked
         \/ Look /\ at' = "submit" /\ Checked
         \/ Submit
         \/ (\E t \in DOMAIN tile : StartTile(t) \/ Answered(t) \/ AttemptFails(t) \/ Collect(t))
         \/ EndBatch \/ NothingToDo
         \/ (at # "idle" /\ End /\ UNCHANGED <<service, stored, requests>> /\ (Publish \/ mosaic' = mosaic))
         \/ UNCHANGED vars
<1>1. Select => \/ at # "idle" /\ End /\ UNCHANGED <<service, stored, requests>> /\ mosaic' = mosaic
                \/ at' = "look" /\ Checked
  BY DEF Select, Checked, checking
<1>2. Look => \/ at # "idle" /\ End /\ UNCHANGED <<service, stored, requests>> /\ mosaic' = mosaic
              \/ at' = "submit" /\ Checked
  BY DEF Look, Checked, checking
<1>3. Cancelled \/ Abort => at # "idle" /\ End /\ UNCHANGED <<service, stored, requests>> /\ mosaic' = mosaic
  BY DEF Cancelled, Abort
<1>4. Publish => at # "idle" /\ End /\ UNCHANGED <<service, stored, requests>>
  BY DEF Publish
<1>. QED
  BY <1>1, <1>2, <1>3, <1>4 DEF Next, Step

LEMMA ConcurrencyBounds ==
  /\ \A n \in Int : FirstConcurrency(n) \in MinConcurrency .. MaxConcurrency
  /\ concurrency \in {0} \cup MinConcurrency .. MaxConcurrency
       => NextConcurrency \in {0} \cup MinConcurrency .. MaxConcurrency
<1>1. MinConcurrency \in Nat /\ MaxConcurrency \in Nat /\ MinConcurrency <= MaxConcurrency
  BY SettingsAssumption
<1>2. \A n \in Int : FirstConcurrency(n) \in MinConcurrency .. MaxConcurrency
  BY <1>1 DEF FirstConcurrency, Larger, Smaller
<1>3. ASSUME concurrency \in {0} \cup MinConcurrency .. MaxConcurrency
      PROVE  NextConcurrency \in {0} \cup MinConcurrency .. MaxConcurrency
  <2>1. concurrency \in Nat /\ concurrency <= MaxConcurrency
    BY <1>1, <1>3
  <2>2. (concurrency * 3) \div 4 \in Nat /\ (concurrency * 3) \div 4 <= concurrency
    BY <2>1
  <2>3. Larger(MinConcurrency, (concurrency * 3) \div 4) \in MinConcurrency .. MaxConcurrency
    BY <1>1, <2>1, <2>2 DEF Larger
  <2>. QED
    BY <1>3, <2>3 DEF NextConcurrency
<1>. QED
  BY <1>2, <1>3

\* A step of one tile.
LEMMA TileParts ==
  ASSUME TypeInv, NEW t \in DOMAIN tile,
         StartTile(t) \/ Answered(t) \/ AttemptFails(t)
  PROVE  /\ UNCHANGED <<service, mosaic, requests, at, kind, checking,
                        left, batch, concurrency, pasted, failed>>
         /\ stored' = stored \/ stored' = stored \cup ({t} \cap service)
         /\ DOMAIN tile' = DOMAIN tile
         /\ \A u \in DOMAIN tile : u # t => tile'[u] = tile[u]
         /\ tile'[t] \in TileState
         /\ tile'[t].at = "missing_404" => t \notin service
         /\ tile'[t].at = "running" =>
              \/ tile[t].at = "running"
              \/ Cardinality({u \in DOMAIN tile : Running(u)}) < concurrency
<1>1. tile[t] \in TileState
  BY DEF TypeInv
<1>2. CASE StartTile(t)
  <2>1. tile[t].at = "queued" /\ Cardinality({u \in DOMAIN tile : Running(u)}) < concurrency
    BY <1>2 DEF StartTile
  <2>2. tile'[t] \in TileState /\ tile'[t].at \in {"available", "running"}
    BY <1>1, <1>2 DEF StartTile, TileState
  <2>. QED
    BY <1>2, <2>1, <2>2 DEF StartTile
<1>3. CASE Answered(t)
  <2>1. tile'[t] \in TileState /\ tile'[t].at \in {"available", "raised", "missing_404"}
        /\ (tile'[t].at = "missing_404" => t \notin service)
    BY <1>1, <1>3 DEF Answered, TileState
  <2>2. stored' = stored \/ stored' = stored \cup ({t} \cap service)
    BY <1>3 DEF Answered, PutTile
  <2>. QED
    BY <1>3, <2>1, <2>2 DEF Answered
<1>4. CASE AttemptFails(t)
  <2>1. PICK timeout \in {0, 1} :
          LET tried == [tile[t] EXCEPT !.timeouts = @ + timeout]
          IN  tile' = [tile EXCEPT ![t] = IF tried.attempt < Attempts
                                          THEN [tried EXCEPT !.attempt = @ + 1]
                                          ELSE [tried EXCEPT !.at = "transient_failed"]]
    BY <1>4 DEF AttemptFails
  <2>2. PICK tried \in TileState : tried = [tile[t] EXCEPT !.timeouts = @ + timeout]
    <3>1. tile[t].timeouts + timeout \in Nat
      BY <1>1 DEF TileState
    <3>. QED
      BY <1>1, <3>1 DEF TileState
  <2>3. \/ tile'[t] = [tried EXCEPT !.attempt = tried.attempt + 1]
        \/ tile'[t] = [tried EXCEPT !.at = "transient_failed"]
    BY <2>1, <2>2
  <2>4. tile[t].at = "running"
    BY <1>4 DEF AttemptFails, Running
  <2>5. tile'[t] \in TileState /\ tile'[t].at \in {"running", "transient_failed"}
    <3>1. tried.attempt + 1 \in Nat /\ tried.at = "running"
      BY <1>1, <2>2, <2>4 DEF TileState
    <3>. QED
      BY <2>3, <3>1 DEF TileState
  <2>6. DOMAIN tile' = DOMAIN tile /\ \A u \in DOMAIN tile : u # t => tile'[u] = tile[u]
    BY <2>1
  <2>. QED
    BY <1>4, <2>4, <2>5, <2>6 DEF AttemptFails
<1>. QED
  BY <1>2, <1>3, <1>4

\* Taking a finished tile out of the batch.
LEMMA CollectParts ==
  ASSUME TypeInv, NEW t \in DOMAIN tile, Collect(t)
  PROVE  /\ at = "batch" /\ Finished(t)
         /\ UNCHANGED <<service, stored, mosaic, requests, kind, checking, left, concurrency>>
         /\ DOMAIN tile' = DOMAIN tile \ {t} /\ \A u \in DOMAIN tile' : tile'[u] = tile[u]
         /\ at' \in {"batch", "abort"} /\ pasted \subseteq pasted' /\ pasted' \subseteq pasted \cup {t}
         /\ failed' \in Nat /\ (failed' = 0 => failed = 0)
         /\ at' = "batch" /\ failed' = 0 =>
              t \in pasted' \/ tile[t].at = "missing_404"
<1>1. /\ at = "batch" /\ Finished(t) /\ tile[t] \in TileState /\ failed \in Nat
      /\ tile' = [u \in DOMAIN tile \ {t} |-> tile[u]]
      /\ UNCHANGED <<service, stored, mosaic, requests, kind, checking, left, concurrency>>
  BY DEF Collect, TypeInv, Restrict
<1>2. tile[t].at \in {"available", "missing_404", "raised", "transient_failed"}
  BY <1>1 DEF Finished, TileState
<1>3. CASE tile[t].at = "raised"
  BY <1>1, <1>3 DEF Collect
<1>4. CASE tile[t].at # "raised"
  <2>1. /\ at' \in {"batch", "abort"}
        /\ pasted' = IF tile[t].at = "available" THEN pasted \cup {t} ELSE pasted
        /\ failed' = IF tile[t].at = "transient_failed" THEN failed + 1 ELSE failed
    BY <1>4 DEF Collect
  <2>2. failed' \in Nat /\ (failed' = 0 => failed = 0 /\ tile[t].at # "transient_failed")
    BY <1>1, <2>1
  <2>. QED
    BY <1>1, <1>2, <1>4, <2>1, <2>2
<1>. QED
  BY <1>3, <1>4

LEMMA TypeStep ==
  ASSUME TypeInv, Staffed, Preflight, [Next]_vars
  PROVE  TypeInv' /\ service' = service
<1>1. ASSUME NEW k \in {"run", "prefetch"}, Begin(k) PROVE TypeInv' /\ service' = service
  <2>1. requests' \in 0 .. MaxRequests
    BY <1>1, SettingsAssumption DEF Begin, TypeInv
  <2>2. check' \in CheckState
    BY <1>1, StartCheckParts, ZoomFacts DEF Begin
  <2>. QED
    BY <1>1, <2>1, <2>2 DEF Begin, TypeInv, download, Places, None
<1>2. CASE CheckWindow
  <2>1. check' \in CheckState
    BY <1>2, WindowParts
  <2>. QED
    BY <1>2, <2>1 DEF CheckWindow, TypeInv, download
<1>3. CASE ChooseZoom
  <2>1. check' \in CheckState /\ zoom' \in Zooms /\ at' \in Places /\ at = "check"
    BY <1>3, ChooseParts, StartCheckParts, ZoomFacts DEF TypeInv, CheckState, Places
  <2>. QED
    BY <1>3, <2>1 DEF ChooseZoom, TypeInv, download
<1>4. CASE Select /\ at' = "look" /\ Checked
  <2>1. UNCHANGED <<stored, mosaic, requests, download>> \/ End
    BY <1>4 DEF Select
  <2>2. UNCHANGED <<stored, mosaic, requests, download>>
    BY <1>4, <2>1 DEF End
  <2>. QED
    BY <1>4, <2>2 DEF Select, Checked, TypeInv, download, Places
<1>5. CASE Look /\ at' = "submit" /\ Checked
  <2>1. /\ at = "look" /\ requests' = requests /\ (stored' = stored \/ stored' = stored \ TilesAt(zoom))
        /\ UNCHANGED <<tile, failed>> /\ concurrency' = FirstConcurrency(Cardinality(Wanted))
        /\ DOMAIN mosaic' = DOMAIN mosaic
    BY <1>5 DEF Look, End, DeleteStorage
  <2>2. Cardinality(Wanted) \in Int
    BY WantedParts, FS_CardinalityType
  <2>3. concurrency' \in MinConcurrency .. MaxConcurrency
    BY <2>1, <2>2, ConcurrencyBounds
  <2>. QED
    BY <1>5, <2>1, <2>3 DEF Checked, TypeInv, Places, Downloading
<1>6. CASE Submit
  <2>1. \A t \in DOMAIN tile' : tile'[t] = Queued
    BY <1>6 DEF Submit
  <2>2. Queued \in TileState
    BY DEF Queued, TileState
  <2>. QED
    BY <1>6, <2>1, <2>2 DEF Submit, TypeInv, Places, Downloading, checking
<1>7. ASSUME NEW t \in DOMAIN tile, StartTile(t) \/ Answered(t) \/ AttemptFails(t)
      PROVE  TypeInv' /\ service' = service
  <2>1. \A u \in DOMAIN tile' : tile'[u] \in TileState
    BY <1>7, TileParts DEF TypeInv
  <2>2. stored' \subseteq service
    BY <1>7, TileParts DEF TypeInv
  <2>. QED
    BY <1>7, <2>1, <2>2, TileParts DEF TypeInv, checking
<1>8. ASSUME NEW t \in DOMAIN tile, Collect(t) PROVE TypeInv' /\ service' = service
  <2>1. \A u \in DOMAIN tile' : tile'[u] \in TileState
    BY <1>8, CollectParts DEF TypeInv
  <2>. QED
    BY <1>8, <2>1, CollectParts DEF TypeInv, checking, Places, Downloading
<1>9. CASE EndBatch \/ NothingToDo
  <2>1. /\ UNCHANGED <<service, stored, mosaic, requests, kind, checking, failed>>
        /\ at # "idle" /\ at' \in Places
        /\ \A u \in DOMAIN tile' : tile'[u] \in TileState
        /\ concurrency' = concurrency \/ concurrency' = NextConcurrency
    BY <1>9 DEF EndBatch, NothingToDo, download, Places, Downloading, TypeInv
  <2>2. concurrency' \in {0} \cup MinConcurrency .. MaxConcurrency
    BY <2>1, ConcurrencyBounds DEF TypeInv
  <2>. QED
    BY <2>1, <2>2 DEF TypeInv, checking
<1>10. CASE End /\ UNCHANGED <<service, stored, requests>> /\ (Publish \/ mosaic' = mosaic)
  <2>1. DOMAIN mosaic' = DOMAIN mosaic
    BY <1>10 DEF Publish
  <2>. QED
    BY <1>10, <2>1, EndParts, ZoomFacts DEF TypeInv, Places
<1>11. CASE UNCHANGED vars
  BY <1>11 DEF vars, checking, download, TypeInv
<1>. QED
  BY <1>1, <1>2, <1>3, <1>4, <1>5, <1>6, <1>7, <1>8, <1>9, <1>10, <1>11, StepKinds

LEMMA StaffedStep ==
  ASSUME TypeInv, Staffed, Preflight, [Next]_vars
  PROVE  Staffed'
<1>1. CASE \E k \in {"run", "prefetch"} : Begin(k)
  <2>1. check'.zoom = Preferred /\ check'.workers = FirstWorkers(Preferred)
    BY <1>1, StartCheckParts, ZoomFacts DEF Begin
  <2>2. FirstWorkers(Preferred) \in LeastWorkers(Preferred) .. FirstWorkers(Preferred)
        /\ FirstWorkers(Preferred) <= Larger(1, MaxWorkers)
    BY WorkerBounds, ZoomFacts
  <2>. QED
    BY <2>1, <2>2 DEF Staffed
<1>2. CASE CheckWindow
  <2> DEFINE z == check.zoom
  <2>1. z \in Zooms /\ check'.zoom = z /\ check'.workers \in LeastWorkers(z) .. FirstWorkers(z)
    BY <1>2, WindowParts DEF TypeInv, CheckState
  <2>2. check'.workers <= Larger(1, MaxWorkers)
    BY <2>1, WorkerBounds
  <2>. QED
    BY <2>1, <2>2 DEF Staffed
<1>3. CASE ChooseZoom
  <2>1. CASE at' = "select" /\ check' = check
    BY <2>1 DEF Staffed
  <2>2. ASSUME StartCheck(check.zoom - 1), check.zoom - 1 \in Zooms PROVE Staffed'
    <3> DEFINE z == check.zoom - 1
    <3>1. z \in Zooms /\ StartCheck(z)
      BY <2>2
    <3>. HIDE DEF z
    <3>2. check'.zoom = z /\ check'.workers = FirstWorkers(z)
      BY <3>1, StartCheckParts
    <3>3. FirstWorkers(z) \in LeastWorkers(z) .. FirstWorkers(z) /\ FirstWorkers(z) <= Larger(1, MaxWorkers)
      BY <3>1, WorkerBounds
    <3>. QED
      BY <3>2, <3>3 DEF Staffed
  <2>. QED
    BY <1>3, <2>1, <2>2, ChooseParts
<1>4. CASE (End /\ UNCHANGED <<service, stored, requests>> /\ (Publish \/ mosaic' = mosaic))
  <2>1. 0 <= Larger(1, MaxWorkers)
    BY SettingsAssumption DEF Larger
  <2>. QED
    BY <1>4, <2>1, EndParts DEF Staffed
<1>5. ASSUME check' = check, at' # "check" \/ at' = at PROVE Staffed'
  BY <1>5 DEF Staffed
<1>6. CASE Submit \/ EndBatch \/ NothingToDo
  BY <1>5, <1>6 DEF Submit, EndBatch, NothingToDo, checking
<1>7. ASSUME NEW t \in DOMAIN tile, StartTile(t) \/ Answered(t) \/ AttemptFails(t) \/ Collect(t)
      PROVE  Staffed'
  BY <1>5, <1>7, TileParts, CollectParts DEF checking
<1>. QED
  BY <1>1, <1>2, <1>3, <1>4, <1>5, <1>6, <1>7, StepKinds DEF Checked, vars, checking

\* The steps of a download.
LEMMA LaterSteps ==
  ASSUME TypeInv, Accounted, [Next]_vars
  PROVE  \/ \E k \in {"run", "prefetch"} : Begin(k)
         \/ CheckWindow \/ ChooseZoom
         \/ Select /\ at' = "look" /\ Checked
         \/ End /\ service' = service /\ (Publish \/ mosaic' = mosaic)
         \/ /\ UNCHANGED <<check, zoom, found, service, kind>>
            /\ at' = at \/ (at \in {"look"} \cup Downloading /\ at' \in Downloading)
<1>1. ASSUME NEW t \in DOMAIN tile, StartTile(t) \/ Answered(t) \/ AttemptFails(t) \/ Collect(t)
      PROVE  /\ UNCHANGED <<check, zoom, found, service, kind>>
             /\ at' = at \/ (at \in Downloading /\ at' \in Downloading)
  BY <1>1, TileParts, CollectParts DEF checking, Downloading
<1>2. Look /\ at' = "submit" /\ Checked =>
        /\ UNCHANGED <<check, zoom, found, service, kind>>
        /\ at \in {"look"} \cup Downloading /\ at' \in Downloading
  BY DEF Look, Checked, Downloading
<1>3. Submit \/ EndBatch \/ NothingToDo =>
        /\ UNCHANGED <<check, zoom, found, service, kind>>
        /\ at \in Downloading /\ at' \in Downloading
  BY DEF Submit, EndBatch, NothingToDo, checking, Downloading
<1>4. UNCHANGED vars => UNCHANGED <<check, zoom, found, service, kind>> /\ at' = at
  BY DEF vars, checking
<1>. QED
  BY <1>1, <1>2, <1>3, <1>4, StepKinds

LEMMA PreflightStep ==
  ASSUME TypeInv, Staffed, Preflight, Accounted, [Next]_vars
  PROVE  Preflight'
<1>1. ASSUME NEW z \in Zooms, StartCheck(z), found' = {}, service' = service,
             at' \in {"check", "idle"}
      PROVE  Preflight'
  <2>1. check'.available = {} /\ check'.next = 1 /\ check'.zoom = z
    BY <1>1, StartCheckParts
  <2>2. Count[z] \in Nat /\ \A i \in 1 .. Count[z] : ~(i < 1)
    BY ZoomFacts
  <2>. QED
    BY <1>1, <2>1, <2>2 DEF Preflight, Downloading
<1>2. CASE \E k \in {"run", "prefetch"} : Begin(k)
  BY <1>1, <1>2, ZoomFacts DEF Begin, Preflight
<1>3. CASE CheckWindow
  <2> DEFINE z == check.zoom
  <2> DEFINE last == Smaller(check.next + Window - 1, Count[z])
  <2> DEFINE window == {<<z, i>> : i \in check.next .. last}
  <2>1. /\ check'.zoom = z /\ last \in Nat /\ check'.next = last + 1 /\ last <= Count[z]
    BY <1>3, WindowParts
  <2>2. PICK errors \in SUBSET window :
          /\ check'.available = check.available \cup ((window \ errors) \cap service)
          /\ found' = found \cup ((window \ errors) \cap service)
          /\ (check'.failed = 0 => check.failed = 0 /\ errors = {})
    BY <1>3, WindowParts
  <2>3. /\ z \in Zooms /\ Count[z] \in Nat /\ check.next \in Nat \ {0}
        /\ service' = service /\ at = "check" /\ at' = "check"
    BY <1>3, ZoomFacts DEF TypeInv, CheckState, CheckWindow
  <2>. HIDE DEF last
  <2>4. window \subseteq TilesAt(z)
    <3>1. \A n \in Nat \ {0}, l, c \in Nat : l <= c => \A i \in n .. l : i \in 1 .. c
      OBVIOUS
    <3>. HIDE DEF z
    <3>2. \A i \in check.next .. last : i \in 1 .. Count[z]
      BY <2>1, <2>3, <3>1
    <3>. QED
      BY <3>2 DEF TilesAt
  <2>5. ASSUME NEW i \in 1 .. Count[z], i < check'.next, check'.failed = 0, <<z, i>> \in service
        PROVE  <<z, i>> \in check'.available
    <3>1. i < check.next \/ i \in check.next .. last
      BY <2>1, <2>3, <2>5
    <3>2. CASE i < check.next
      BY <2>2, <2>5, <3>2 DEF Preflight, Complete
    <3>3. CASE i \in check.next .. last
      BY <2>2, <2>5, <3>3
    <3>. QED
      BY <3>1, <3>2, <3>3
  <2>6. check'.available \subseteq service /\ check'.available \subseteq TilesAt(z) /\ found' = check'.available
    BY <2>2, <2>4 DEF Preflight
  <2>. HIDE DEF window
  <2>. QED
    BY <2>1, <2>3, <2>5, <2>6 DEF Preflight, Complete, Downloading
<1>4. CASE ChooseZoom
  <2>1. service' = service /\ found' = found /\ at = "check"
    BY <1>4 DEF ChooseZoom
  <2>2. CASE at' = "select"
    BY <1>4, <2>1, <2>2, ChooseParts DEF Preflight, Complete, Downloading
  <2>3. CASE at' = "check" /\ check.available = {} /\ check.zoom - 1 \in Zooms
             /\ StartCheck(check.zoom - 1)
    BY <1>1, <2>1, <2>3 DEF Preflight
  <2>. QED
    BY <1>4, <2>2, <2>3, ChooseParts
<1>5. CASE Select /\ at' = "look" /\ Checked
  <2>1. at = "select" /\ (kind = "run" /\ Complete => check.available # {})
    BY <1>5 DEF Select, End
  <2>. QED
    BY <1>5, <2>1 DEF Checked, Preflight, Complete, Downloading
<1>6. CASE End /\ service' = service
  <2>1. /\ check'.zoom = Preferred /\ check'.available = {} /\ check'.next = 1 /\ found' = {}
        /\ at' = "idle"
    BY <1>6, EndParts
  <2>2. Preferred \in Zooms /\ Count[Preferred] \in Nat
        /\ \A i \in 1 .. Count[Preferred] : ~(i < 1)
    BY ZoomFacts
  <2>. QED
    BY <2>1, <2>2 DEF Preflight, Downloading
<1>7. CASE /\ UNCHANGED <<check, zoom, found, service, kind>>
           /\ at' = at \/ (at \in {"look"} \cup Downloading /\ at' \in Downloading)
  BY <1>7 DEF Preflight, Complete, Downloading
<1>. QED
  BY <1>2, <1>3, <1>4, <1>5, <1>6, <1>7, LaterSteps

LEMMA AccountedStep ==
  ASSUME TypeInv, Staffed, Preflight, Accounted, [Next]_vars
  PROVE  Accounted'
<1>0. UNCHANGED <<check, zoom, kind>> => Wanted' = Wanted
  BY DEF Wanted, Complete
<1>1. ASSUME UNCHANGED <<left, tile, pasted, failed>>, at \notin Downloading, at' \notin Downloading
      PROVE  Accounted'
  BY <1>1 DEF Accounted, Downloading
<1>2. CASE (\E k \in {"run", "prefetch"} : Begin(k)) \/ CheckWindow \/ ChooseZoom
           \/ (Select /\ at' = "look" /\ Checked)
  <2>1. Select /\ at' = "look" => UNCHANGED download /\ at = "select"
    BY DEF Select, End
  <2>2. UNCHANGED download /\ at \in {"idle", "check", "select"} /\ at' \in {"check", "select", "look"}
    BY <1>2, <2>1, ChooseParts DEF Begin, CheckWindow, ChooseZoom
  <2>. QED
    BY <1>1, <2>2 DEF download, Downloading
<1>3. CASE Look /\ at' = "submit" /\ Checked
  <2>1. /\ at = "look" /\ left' = Wanted /\ UNCHANGED <<tile, pasted, failed>>
        /\ UNCHANGED <<check, zoom, kind, service>>
    BY <1>3 DEF Look, End, Checked
  <2>. QED
    BY <1>0, <1>3, <2>1 DEF Accounted, Downloading
<1>4. CASE Submit
  <2>1. PICK these \in SUBSET left : tile' = [t \in these |-> Queued] /\ left' = left \ these
    BY <1>4 DEF Submit
  <2>2. /\ at = "submit" /\ at' = "batch" /\ UNCHANGED <<pasted, failed, service, check, zoom, kind>>
    BY <1>4 DEF Submit, checking
  <2>3. DOMAIN tile' = these /\ \A t \in DOMAIN tile' : tile'[t].at # "missing_404"
    BY <2>1 DEF Queued
  <2>. QED
    BY <1>0, <2>1, <2>2, <2>3 DEF Accounted, Downloading
<1>5. ASSUME NEW t \in DOMAIN tile, StartTile(t) \/ Answered(t) \/ AttemptFails(t)
      PROVE  Accounted'
  <2>1. /\ UNCHANGED <<at, left, pasted, failed, service, check, zoom, kind>>
        /\ DOMAIN tile' = DOMAIN tile
        /\ \A u \in DOMAIN tile : tile'[u].at = "missing_404" => u \notin service
    BY <1>5, TileParts DEF checking, Accounted
  <2>. QED
    BY <1>0, <2>1 DEF Accounted
<1>6. ASSUME NEW t \in DOMAIN tile, Collect(t) PROVE Accounted'
  <2>1. /\ at = "batch" /\ at' \in {"batch", "abort"}
        /\ UNCHANGED <<left, service, check, zoom, kind>>
        /\ DOMAIN tile' = DOMAIN tile \ {t} /\ \A u \in DOMAIN tile' : tile'[u] = tile[u]
        /\ pasted \subseteq pasted' /\ pasted' \subseteq pasted \cup {t}
        /\ (failed' = 0 => failed = 0)
        /\ at' = "batch" /\ failed' = 0 => t \in pasted' \/ tile[t].at = "missing_404"
    BY <1>6, CollectParts DEF checking
  <2>2. left \cup DOMAIN tile \cup pasted \subseteq Wanted
    BY <2>1 DEF Accounted, Downloading
  <2>3. ASSUME at' = "batch", failed' = 0
        PROVE  Wanted \cap service \subseteq left \cup DOMAIN tile' \cup pasted'
    <3>1. Wanted \cap service \subseteq left \cup DOMAIN tile \cup pasted
      BY <2>1, <2>3 DEF Accounted
    <3>2. t \in pasted' \/ t \notin service
      BY <2>1, <2>3 DEF Accounted
    <3>. QED
      BY <2>1, <3>1, <3>2
  <2>. QED
    BY <1>0, <2>1, <2>2, <2>3 DEF Accounted, Downloading
<1>7. CASE EndBatch \/ NothingToDo
  <2>1. /\ UNCHANGED <<left, tile, pasted, failed, service, check, zoom, kind>>
        /\ at \in {"submit", "batch"} /\ at' \in {"submit", "publish"} /\ DOMAIN tile = {}
        /\ at' = "publish" => left = {}
    BY <1>7 DEF EndBatch, NothingToDo, checking, download, Accounted
  <2>. QED
    BY <1>0, <2>1 DEF Accounted, Downloading
<1>8. CASE End
  BY <1>8, EndParts DEF Accounted, Downloading
<1>9. CASE UNCHANGED vars
  BY <1>0, <1>9 DEF Accounted, vars, checking, download
<1>. QED
  BY <1>2, <1>3, <1>4, <1>5, <1>6, <1>7, <1>8, <1>9, StepKinds

LEMMA PoolStep ==
  ASSUME TypeInv, Staffed, Preflight, Accounted, Pool, [Next]_vars
  PROVE  Pool'
<1> DEFINE Busy == {t \in DOMAIN tile : Running(t)}
<1>1. IsFiniteSet(Busy) /\ Cardinality(Busy) \in Nat /\ concurrency \in Nat /\ concurrency' \in Nat
  <2>1. DOMAIN tile \subseteq Wanted \/ DOMAIN tile = {}
    BY DEF Accounted
  <2>2. Busy \in SUBSET Wanted
    BY <2>1
  <2>3. IsFiniteSet(Busy)
    BY <2>2, WantedParts, FS_Subset
  <2>4. concurrency \in Nat /\ concurrency' \in Nat
    <3>1. {0} \cup MinConcurrency .. MaxConcurrency \subseteq Nat
      BY SettingsAssumption
    <3>2. TypeInv'
      BY TypeStep
    <3>. QED
      BY <3>1, <3>2 DEF TypeInv
  <2>. QED
    BY <2>3, <2>4, FS_CardinalityType
<1>2. ASSUME Busy' = {} PROVE Pool'
  BY <1>1, <1>2, FS_EmptySet DEF Pool
<1>3. ASSUME Busy' = Busy, concurrency' = concurrency PROVE Pool'
  BY <1>3 DEF Pool
<1>4. CASE (\E k \in {"run", "prefetch"} : Begin(k)) \/ CheckWindow \/ ChooseZoom \/ NothingToDo
           \/ (Select /\ at' = "look" /\ Checked) \/ UNCHANGED vars
  <2>1. Select /\ at' = "look" => UNCHANGED download
    BY DEF Select, End
  <2>2. tile' = tile /\ concurrency' = concurrency
    BY <1>4, <2>1 DEF Begin, CheckWindow, ChooseZoom, NothingToDo, download, vars
  <2>. QED
    BY <1>3, <2>2 DEF Running
<1>5. CASE Look /\ at' = "submit" /\ Checked
  <2>1. tile' = tile /\ DOMAIN tile = {}
    BY <1>5 DEF Look, End, Accounted, Downloading
  <2>. QED
    BY <1>2, <2>1
<1>6. CASE Submit
  <2>1. \A t \in DOMAIN tile' : tile'[t].at = "queued"
    BY <1>6 DEF Submit, Queued
  <2>. QED
    BY <1>2, <2>1 DEF Running
<1>7. ASSUME NEW t \in DOMAIN tile, StartTile(t) \/ Answered(t) \/ AttemptFails(t)
      PROVE  Pool'
  <2>1. /\ DOMAIN tile' = DOMAIN tile /\ concurrency' = concurrency
        /\ \A u \in DOMAIN tile : u # t => tile'[u] = tile[u]
        /\ tile'[t].at = "running" => t \in Busy \/ Cardinality(Busy) < concurrency
    BY <1>7, TileParts DEF Running
  <2>2. Busy' \subseteq Busy \cup {t}
    BY <2>1 DEF Running
  <2>3. CASE t \in Busy \/ tile'[t].at # "running"
    <3>1. Busy' \in SUBSET Busy
      BY <2>1, <2>2, <2>3 DEF Running
    <3>2. Cardinality(Busy') <= Cardinality(Busy) /\ Cardinality(Busy') \in Nat
      BY <1>1, <3>1, FS_Subset, FS_CardinalityType
    <3>. QED
      BY <1>1, <2>1, <3>2 DEF Pool
  <2>4. CASE t \notin Busy /\ tile'[t].at = "running"
    <3>1. Busy' = Busy \cup {t}
      BY <2>1, <2>2, <2>4 DEF Running
    <3>2. Cardinality(Busy') = Cardinality(Busy) + 1
      BY <1>1, <2>4, <3>1, FS_AddElement
    <3>. QED
      BY <1>1, <2>1, <2>4, <3>2 DEF Pool
  <2>. QED
    BY <2>3, <2>4
<1>8. ASSUME NEW t \in DOMAIN tile, Collect(t) PROVE Pool'
  <2>1. /\ DOMAIN tile' = DOMAIN tile \ {t} /\ concurrency' = concurrency
        /\ \A u \in DOMAIN tile' : tile'[u] = tile[u]
    BY <1>8, CollectParts
  <2>2. Busy' \in SUBSET Busy
    BY <2>1 DEF Running
  <2>3. Cardinality(Busy') <= Cardinality(Busy) /\ Cardinality(Busy') \in Nat
    BY <1>1, <2>2, FS_Subset, FS_CardinalityType
  <2>. QED
    BY <1>1, <2>1, <2>3 DEF Pool
<1>9. CASE EndBatch
  <2>1. tile' = tile /\ DOMAIN tile = {}
    BY <1>9 DEF EndBatch
  <2>. QED
    BY <1>2, <2>1
<1>10. CASE End
  <2>1. DOMAIN tile' = {}
    BY <1>10, EndParts
  <2>. QED
    BY <1>2, <2>1
<1>. QED
  BY <1>4, <1>5, <1>6, <1>7, <1>8, <1>9, <1>10, StepKinds

LEMMA MadeStep ==
  ASSUME TypeInv, Staffed, Preflight, Accounted, Made, [Next]_vars
  PROVE  Made'
<1>1. service' = service /\ DOMAIN mosaic = Zooms /\ zoom \in Zooms
  BY TypeStep DEF TypeInv
<1>2. CASE \A z \in Zooms : mosaic'[z] \subseteq mosaic[z]
  BY <1>1, <1>2 DEF Made
<1>3. CASE Publish /\ pasted # {}
  <2> DEFINE m == [actual |-> Actual, reusable |-> failed = 0, pasted |-> pasted, kind |-> kind,
                   complete |-> Complete]
  <2>1. at = "publish" /\ mosaic' = [mosaic EXCEPT ![zoom] = {m}]
    BY <1>3 DEF Publish
  <2>2. at \in Downloading /\ kind \in {"run", "prefetch"}
    BY <2>1 DEF Downloading, TypeInv
  <2>3. ASSUME failed = 0
        PROVE  /\ service \cap Aoi \cap TilesAt(zoom) \subseteq pasted
               /\ kind = "run" => Actual = IF Complete THEN service \cap Aoi \cap TilesAt(zoom)
                                                       ELSE Aoi \cap TilesAt(zoom)
    <3>1. Wanted \cap service \subseteq pasted /\ Wanted # {}
      BY <1>3, <2>1, <2>3 DEF Accounted, Downloading
    <3>2. service \cap Aoi \cap TilesAt(zoom) \subseteq Wanted
      BY <2>2, <3>1, WantedParts
    <3>3. kind = "run" => Actual = Wanted
      BY <2>3 DEF Actual, AnyTiles
    <3>. QED
      BY <2>2, <3>1, <3>2, <3>3, WantedParts
  <2>4. /\ m.reusable => failed = 0
        /\ m.pasted = pasted /\ m.kind = kind /\ m.actual = Actual /\ (m.complete <=> Complete)
    OBVIOUS
  <2>. HIDE DEF m
  <2>5. \A z \in Zooms : z # zoom => mosaic'[z] = mosaic[z]
    BY <2>1
  <2>6. mosaic'[zoom] = {m}
    BY <1>1, <2>1
  <2> SUFFICES ASSUME NEW z \in Zooms, NEW x \in mosaic'[z], x.reusable
               PROVE  /\ service \cap Aoi \cap TilesAt(z) \subseteq x.pasted
                      /\ x.kind = "run" => x.actual = IF x.complete
                                                      THEN service \cap Aoi \cap TilesAt(z)
                                                      ELSE Aoi \cap TilesAt(z)
    BY <1>1 DEF Made
  <2>7. CASE z = zoom
    <3>1. x = m /\ failed = 0
      BY <2>4, <2>6, <2>7
    <3>. QED
      BY <2>3, <2>4, <2>7, <3>1
  <2>8. CASE z # zoom
    BY <2>5, <2>8 DEF Made
  <2>. QED
    BY <2>7, <2>8
<1>4. CASE mosaic' = mosaic
  BY <1>2, <1>4
<1>5. CASE Look
  <2>1. mosaic' = mosaic \/ mosaic' = [mosaic EXCEPT ![zoom] = {}]
    BY <1>5 DEF Look
  <2>. QED
    BY <1>1, <1>2, <2>1
<1>6. Publish /\ pasted = {} => mosaic' = mosaic
  BY DEF Publish
<1>7. ASSUME NEW t \in DOMAIN tile, StartTile(t) \/ Answered(t) \/ AttemptFails(t) \/ Collect(t)
      PROVE  mosaic' = mosaic
  BY <1>7, TileParts, CollectParts
<1>8. (\E k \in {"run", "prefetch"} : Begin(k)) \/ CheckWindow \/ ChooseZoom \/ Select \/ Submit
      \/ EndBatch \/ NothingToDo \/ UNCHANGED vars => mosaic' = mosaic
  BY DEF Begin, CheckWindow, ChooseZoom, Select, Submit, EndBatch, NothingToDo, vars
<1>. QED
  BY <1>3, <1>4, <1>5, <1>6, <1>7, <1>8, StepKinds

-----------------------------------------------------------------------------
LEMMA InvInit == Init => Inv
<1> SUFFICES ASSUME Init PROVE Inv
  OBVIOUS
<1>1. /\ check = NoCheck /\ NoCheck \in CheckState /\ NoCheck.zoom = Preferred
      /\ NoCheck.available = {} /\ NoCheck.next = 1 /\ NoCheck.workers = 0
  BY ZoomFacts DEF Init, NoCheck, CheckState
<1>2. TypeInv
  BY <1>1, ZoomFacts, SettingsAssumption DEF Init, TypeInv, Places
<1>3. Staffed
  <2>1. 0 <= Larger(1, MaxWorkers)
    BY SettingsAssumption DEF Larger
  <2>. QED
    BY <1>1, <2>1 DEF Init, Staffed
<1>4. Preflight
  <2>1. Count[Preferred] \in Nat /\ \A i \in 1 .. Count[Preferred] : ~(i < 1)
    BY ZoomFacts
  <2>. QED
    BY <1>1, <2>1 DEF Init, Preflight, Downloading
<1>5. Accounted
  BY DEF Init, Accounted, Downloading
<1>6. Pool
  <2>1. {t \in DOMAIN tile : Running(t)} = {} /\ concurrency = 0
    BY DEF Init
  <2>. QED
    BY <2>1, FS_EmptySet DEF Pool
<1>7. Made
  BY DEF Init, Made
<1>. QED
  BY <1>2, <1>3, <1>4, <1>5, <1>6, <1>7 DEF Inv

LEMMA InvStep == Inv /\ [Next]_vars => Inv'
  BY TypeStep, StaffedStep, PreflightStep, AccountedStep, PoolStep, MadeStep DEF Inv

(* No thread pool, queue or zoom leaves its bounds, whatever fails: a        *)
(* download asks for tiles of its own zoom only, with no more requests at a  *)
(* time than effective_concurrency, which stays within its limits.           *)
THEOREM TileTypes == Spec => []TypeOK
<1>1. Inv => TypeOK
  <2> SUFFICES ASSUME Inv PROVE TypeOK
    OBVIOUS
  <2> USE DEF Inv
  <2>1. check.zoom \in Zooms /\ check.workers \in Nat
    BY DEF TypeInv, CheckState
  <2>2. check.workers \in 0 .. Larger(1, MaxWorkers)
    BY <2>1, WorkerBounds DEF Staffed
  <2>3. left \cup DOMAIN tile \cup pasted \subseteq TilesAt(zoom)
    <3>1. CASE at \in Downloading
      BY <3>1, WantedParts DEF Accounted
    <3>2. CASE at \notin Downloading
      BY <3>2 DEF Accounted
    <3>. QED
      BY <3>1, <3>2
  <2>. QED
    BY <2>1, <2>2, <2>3 DEF TypeOK, TypeInv, Staffed, Preflight, Pool
<1>. QED
  BY <1>1, InvInit, InvStep, PTL DEF Spec

(* A mosaic that later requests will reuse has every tile of the area that   *)
(* the service has at its zoom, whatever checks and attempts failed.         *)
THEOREM ReusableMosaicsWhole == Spec => []ReusableIsWhole
<1>1. Inv => ReusableIsWhole
  BY DEF Inv, Made, ReusableIsWhole
<1>. QED
  BY <1>1, InvInit, InvStep, PTL DEF Spec

(* The zoom of a download is the one at which a check has found a tile, if   *)
(* any has, and a run whose preflight is complete chose its tiles there.     *)
THEOREM ZoomIsJustified == Spec => []ZoomJustified
<1>1. Inv => ZoomJustified
  <2> SUFFICES ASSUME Inv, at \in Downloading
               PROVE  /\ found # {} => zoom = check.zoom /\ found \subseteq TilesAt(zoom)
                      /\ kind = "run" /\ Complete => check.zoom = zoom
    BY DEF ZoomJustified
  <2>1. at \notin {"idle", "check"}
    BY DEF Downloading
  <2>. QED
    BY <2>1 DEF Inv, Preflight
<1>. QED
  BY <1>1, InvInit, InvStep, PTL DEF Spec

(* A run whose preflight ended as that of the run that made the mosaic, and  *)
(* found no failed tile in it, reuses it: the tiles it wants are the same.   *)
THEOREM MosaicIsReused == Spec => MosaicReused
<1> DEFINE Reuses == at = "look" /\ kind = "run"
                       /\ (\E m \in mosaic[zoom] : m.reusable /\ m.kind = "run" /\ m.complete = Complete)
                       => mosaic' = mosaic
<1>1. Inv /\ [Next]_vars => Reuses
  <2> SUFFICES ASSUME Inv, [Next]_vars, at = "look", kind = "run",
                      NEW m \in mosaic[zoom], m.reusable, m.kind = "run", m.complete = Complete
               PROVE  mosaic' = mosaic
    OBVIOUS
  <2>1. zoom \in Zooms
    BY DEF Inv, TypeInv
  <2>2. m.actual = Wanted
    <3>1. m.actual = IF m.complete THEN service \cap Aoi \cap TilesAt(zoom) ELSE Aoi \cap TilesAt(zoom)
      BY <2>1 DEF Inv, Made
    <3>2. Wanted = IF Complete THEN service \cap Aoi \cap TilesAt(zoom) ELSE Aoi \cap TilesAt(zoom)
      BY WantedParts DEF Inv
    <3>. QED
      BY <3>1, <3>2
  <2>3. \E x \in mosaic[zoom] : Matches(x)
    BY <2>2 DEF Matches
  <2>4. CASE Look
    BY <2>3, <2>4 DEF Look
  <2>5. ASSUME NEW t \in DOMAIN tile, StartTile(t) \/ Answered(t) \/ AttemptFails(t) \/ Collect(t)
        PROVE  mosaic' = mosaic
    BY <2>5, TileParts, CollectParts DEF Inv
  <2>6. (\E k \in {"run", "prefetch"} : Begin(k)) \/ CheckWindow \/ ChooseZoom \/ Select \/ Submit
        \/ EndBatch \/ NothingToDo \/ Abort \/ Cancelled \/ UNCHANGED vars => mosaic' = mosaic
    BY DEF Begin, CheckWindow, ChooseZoom, Select, Submit, EndBatch, NothingToDo, Abort, Cancelled,
       vars
  <2>7. ~Publish
    BY DEF Publish
  <2>. QED
    BY <2>4, <2>5, <2>6, <2>7 DEF Next, Step
<1>2. Inv /\ [Next]_vars => [Reuses]_vars
  BY <1>1
<1>. QED
  BY <1>2, InvInit, InvStep, PTL DEF Spec, MosaicReused
=============================================================================
