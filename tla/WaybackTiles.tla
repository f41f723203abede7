---------------------------- MODULE WaybackTiles ----------------------------
(***************************************************************************)
(* The tiles of one release for one area of interest: the zoom is chosen   *)
(* by checking which tiles the service has, the tiles of the area are      *)
(* downloaded in batches by a pool of threads with retries and a cache of  *)
(* tiles, and the mosaic made of them is reused by a later request for the *)
(* same tiles.  A prefetch does the same for the whole bounding box.       *)
(* A tile is <<zoom, index>>, in the order of the rows.                    *)
(***************************************************************************)
EXTENDS Integers, FiniteSets, FiniteSetsExt, Functions

CONSTANTS
  MinZoom, Preferred,             \* min_zoom, wayback_preferred_inference_zoom
  Count,                          \* Count[z]: tiles of the bounding box at zoom z
  Aoi,                            \* the tiles that intersect the area
  Window,                         \* adaptive_window_size
  MaxWorkers, MinWorkers, WorkerStep,
  MinErrors,                      \* WAYBACK_TILE_PREFLIGHT_DOWNSHIFT_MIN_ERROR_COUNT
  Attempts,                       \* one more than the retries
  MinConcurrency, MaxConcurrency,
  Every,                          \* wayback_tile_progress_every_tiles
  MaxRequests                     \* bound: requests

ASSUME SettingsAssumption ==
  /\ MinZoom \in Nat /\ Preferred \in Nat /\ MinZoom <= Preferred
  /\ Count \in [MinZoom .. Preferred -> Nat \ {0}]
  /\ {Window, Attempts, Every, MinConcurrency} \subseteq Nat \ {0}
  /\ {MaxWorkers, MinWorkers, WorkerStep, MinErrors, MaxRequests} \subseteq Nat
  /\ MaxConcurrency \in Nat /\ MinConcurrency <= MaxConcurrency

VARIABLES
  service,     \* the tiles the service has
  stored,      \* the tiles in the tile cache
  mosaic,      \* the cached mosaic of each zoom, {} when there is none
  requests,    \* how many requests have begun
  at, kind,    \* where the request is; a "run" or a "prefetch"
  check,       \* the preflight: its zoom, the next tile to check, what it found
  zoom,        \* the zoom of the download
  left,        \* the tiles that are not submitted yet
  tile,        \* the tiles of the batch that are not collected yet
  batch,       \* the size of the batch and the timeouts in it
  concurrency, \* effective_concurrency
  pasted, failed, \* the tiles on the mosaic; how many failed
  found        \* history: the tiles any check of this request found available

checking == <<check, zoom, found>>
download == <<left, tile, batch, concurrency, pasted, failed>>
vars == <<service, stored, mosaic, requests, at, kind, checking, download>>

Zooms      == MinZoom .. Preferred
TilesAt(z) == {<<z, i>> : i \in 1 .. Count[z]}
Tiles      == UNION {TilesAt(z) : z \in Zooms}
None       == "none"

\* The tile cache.
GetTile(t)       == stored \cap {t}
PutTile(t)       == stored' = stored \cup {t}
DeleteStorage(z) == stored' = stored \ TilesAt(z)

Larger(m, n)  == IF m < n THEN n ELSE m
Smaller(m, n) == IF m < n THEN m ELSE n

Downloading == {"submit", "batch", "abort", "publish"}
Places      == {"idle", "check", "select", "look"} \cup Downloading

NoCheck == [zoom |-> Preferred, next |-> 1, available |-> {}, failed |-> 0, workers |-> 0]
NoBatch == [size |-> 0, timeouts |-> 0]

\* Nothing of a request is kept but the mosaic and the tile cache.
End ==
  /\ at' = "idle" /\ kind' = None /\ check' = NoCheck /\ zoom' = Preferred /\ found' = {}
  /\ left' = {} /\ tile' = <<>> /\ batch' = NoBatch /\ concurrency' = 0
  /\ pasted' = {} /\ failed' = 0

Init ==
  /\ service \in SUBSET Tiles /\ stored = {}
  /\ mosaic = [z \in Zooms |-> {}] /\ requests = 0
  /\ at = "idle" /\ kind = None /\ check = NoCheck /\ zoom = Preferred /\ found = {}
  /\ left = {} /\ tile = <<>> /\ batch = NoBatch /\ concurrency = 0
  /\ pasted = {} /\ failed = 0

-----------------------------------------------------------------------------
(* _resolve_release_for_aoi *)

FirstWorkers(z) == Larger(1, Smaller(MaxWorkers, Count[z]))
LeastWorkers(z) == Smaller(Larger(1, MinWorkers), FirstWorkers(z))

\* Every error that is caught is an OSError, so that it counts as a connection
\* error, a timeout or not.
Unstable(errors, exhausted, attempted) ==
  exhausted \/ errors >= MinErrors \/ (attempted >= 100 /\ 50 * errors >= attempted)

\* Mutant: a step may go below the least number.
NextWorkersBelow(z, workers) == Larger(0, workers - Larger(1, WorkerStep))

NextWorkers(z, workers) == Larger(LeastWorkers(z), workers - Larger(1, WorkerStep))

StartCheck(z) == check' = [NoCheck EXCEPT !.zoom = z, !.workers = FirstWorkers(z)]

Begin(k) ==
  /\ at = "idle" /\ requests < MaxRequests
  /\ requests' = requests + 1 /\ kind' = k /\ at' = "check"
  /\ StartCheck(Preferred)
  /\ UNCHANGED <<service, stored, mosaic, zoom, found, download>>

\* A window of the tiles; the workers of the next one are fewer if it was unstable.
CheckWindow ==
  LET z      == check.zoom
      last   == Smaller(check.next + Window - 1, Count[z])
      window == {<<z, i>> : i \in check.next .. last} IN
  /\ at = "check" /\ check.next <= Count[z]
  /\ \E errors \in SUBSET window, exhausted \in BOOLEAN :
       LET new == (window \ errors) \cap service IN
       /\ exhausted => errors # {}
       /\ check' = [check EXCEPT !.next = last + 1, !.available = @ \cup new,
                      !.failed = @ + Cardinality(errors),
                      !.workers = IF /\ Unstable(Cardinality(errors), exhausted, Cardinality(window))
                                     /\ @ > LeastWorkers(z)
                                  THEN NextWorkers(z, @) ELSE @]
       /\ found' = found \cup new
  /\ UNCHANGED <<service, stored, mosaic, requests, at, kind, zoom, download>>

\* The first zoom with a tile, or with checks that failed and metadata that looks
\* usable; else the preferred one with the findings of the last.
ChooseZoom ==
  /\ at = "check" /\ check.next > Count[check.zoom]
  /\ \/ /\ check.available # {} \/ check.failed > 0
        /\ zoom' = check.zoom /\ at' = "select" /\ UNCHANGED check
     \/ /\ check.available = {} /\ check.zoom > MinZoom
        /\ StartCheck(check.zoom - 1) /\ UNCHANGED <<zoom, at>>
     \/ /\ check.available = {} /\ check.zoom = MinZoom
        /\ zoom' = Preferred /\ at' = "select" /\ UNCHANGED check
  /\ UNCHANGED <<service, stored, mosaic, requests, kind, found, download>>

-----------------------------------------------------------------------------
(* The tiles to download, and the mosaic that is there *)

Complete == check.failed = 0

\* Mutant: what an incomplete preflight found is taken for all there is.
WantedAsFound == IF kind = "run" THEN Aoi \cap check.available ELSE check.available

\* available_tiles.  A prefetch does not look at the area.
Wanted == IF kind = "run"
          THEN IF Complete THEN Aoi \cap check.available ELSE Aoi \cap TilesAt(zoom)
          ELSE IF Complete THEN check.available ELSE TilesAt(zoom)

\* available_tiles is None: any reusable mosaic will do.
AnyTiles == kind = "prefetch" /\ ~Complete

\* Mutant: the request goes on without a tile at the zoom it was told.
SelectAlways ==
  /\ at = "select"
  /\ at' = "look"
  /\ UNCHANGED <<service, stored, mosaic, requests, kind, checking, download>>

\* A run without any tile ends with an error.
Select ==
  /\ at = "select"
  /\ IF kind = "run" /\ Complete /\ check.available = {}
     THEN End
     ELSE at' = "look" /\ UNCHANGED <<kind, checking, download>>
  /\ UNCHANGED <<service, stored, mosaic, requests>>

Matches(m) == m.reusable /\ (AnyTiles \/ m.actual = Wanted)

FirstConcurrency(n) == Larger(MinConcurrency, Smaller(MaxConcurrency, Larger(n, 1)))

\* A mosaic that does not match goes, and the tile cache of the zoom with it.
Look ==
  /\ at = "look"
  /\ IF \E m \in mosaic[zoom] : Matches(m)
     THEN End /\ UNCHANGED <<stored, mosaic>>
     ELSE /\ mosaic' = [mosaic EXCEPT ![zoom] = {}]
          /\ IF mosaic[zoom] # {} THEN DeleteStorage(zoom) ELSE UNCHANGED stored
          /\ at' = "submit" /\ left' = Wanted
          /\ concurrency' = FirstConcurrency(Cardinality(Wanted))
          /\ UNCHANGED <<kind, checking, tile, batch, pasted, failed>>
  /\ UNCHANGED <<service, requests>>

\* The callback that reports progress raises when the job is cancelled.
Cancelled ==
  /\ at \in {"submit", "publish"}
  /\ End
  /\ UNCHANGED <<service, stored, mosaic, requests>>

-----------------------------------------------------------------------------
(* download_wayback_mosaic: the batches *)

Queued == [at |-> "queued", attempt |-> 0, timeouts |-> 0]
Running(t) == tile[t].at = "running"
Finished(t) == tile[t].at \notin {"queued", "running"}

Submit ==
  LET size  == Smaller(Larger(Every, concurrency), Cardinality(left))
      these == {t \in left : Cardinality({u \in left : u[2] <= t[2]}) <= size} IN
  /\ at = "submit" /\ left # {}
  /\ tile' = [t \in these |-> Queued] /\ left' = left \ these
  /\ batch' = [size |-> size, timeouts |-> 0]
  /\ at' = "batch"
  /\ UNCHANGED <<service, stored, mosaic, requests, kind, checking, concurrency, pasted, failed>>

\* A thread takes the next tile; one in the cache is not asked for.
StartTile(t) ==
  /\ tile[t].at = "queued"
  /\ \A u \in DOMAIN tile : tile[u].at = "queued" => t[2] <= u[2]
  /\ Cardinality({u \in DOMAIN tile : Running(u)}) < concurrency
  /\ tile' = [tile EXCEPT ![t] = IF GetTile(t) # {} THEN [@ EXCEPT !.at = "available"]
                                 ELSE [@ EXCEPT !.at = "running", !.attempt = 1]]
  /\ UNCHANGED <<service, stored, mosaic, requests, at, kind, checking,
                 left, batch, concurrency, pasted, failed>>

Answered(t) ==
  /\ Running(t)
  /\ \/ /\ t \in service /\ PutTile(t)
        /\ tile' = [tile EXCEPT ![t].at = "available"]
     \/ /\ t \in service /\ UNCHANGED stored     \* SQLite raises
        /\ tile' = [tile EXCEPT ![t].at = "raised"]
     \/ /\ t \notin service /\ UNCHANGED stored
        /\ tile' = [tile EXCEPT ![t].at = "missing_404"]
  /\ UNCHANGED <<service, mosaic, requests, at, kind, checking,
                 left, batch, concurrency, pasted, failed>>

\* Mutant: a tile whose attempts have all failed is put back in the queue.
AttemptFailsAgain(t) ==
  /\ Running(t)
  /\ \E timeout \in {0, 1} :
       tile' = [tile EXCEPT ![t] = IF @.attempt < Attempts
                                   THEN [@ EXCEPT !.attempt = @ + 1, !.timeouts = @ + timeout]
                                   ELSE Queued]
  /\ UNCHANGED <<service, stored, mosaic, requests, at, kind, checking,
                 left, batch, concurrency, pasted, failed>>

\* An HTTPError is an OSError too: whatever its status, it is tried again.
AttemptFails(t) ==
  /\ Running(t)
  /\ \E timeout \in {0, 1} :
       LET tried == [tile[t] EXCEPT !.timeouts = @ + timeout]
       IN  tile' = [tile EXCEPT ![t] = IF tried.attempt < Attempts
                                       THEN [tried EXCEPT !.attempt = @ + 1]
                                       ELSE [tried EXCEPT !.at = "transient_failed"]]
  /\ UNCHANGED <<service, stored, mosaic, requests, at, kind, checking,
                 left, batch, concurrency, pasted, failed>>

\* A result that raises, or a job that is cancelled, ends the download once the
\* threads have gone through the batch.
Collect(t) ==
  /\ at = "batch" /\ Finished(t)
  /\ tile' = Restrict(tile, DOMAIN tile \ {t})
  /\ IF tile[t].at = "raised"
     THEN at' = "abort" /\ UNCHANGED <<batch, pasted, failed>>
     ELSE /\ at' \in {"batch", "abort"}
          /\ batch' = [batch EXCEPT !.timeouts = @ + tile[t].timeouts]
          /\ pasted' = IF tile[t].at = "available" THEN pasted \cup {t} ELSE pasted
          /\ failed' = IF tile[t].at = "transient_failed" THEN failed + 1 ELSE failed
  /\ UNCHANGED <<service, stored, mosaic, requests, kind, checking, left, concurrency>>

\* int(effective_concurrency * 0.75), when more than 2% of the batch timed out.
NextConcurrency == IF 50 * batch.timeouts > batch.size
                   THEN Larger(MinConcurrency, (concurrency * 3) \div 4) ELSE concurrency

EndBatch ==
  /\ at = "batch" /\ DOMAIN tile = {}
  /\ concurrency' = NextConcurrency
  /\ at' = IF left = {} THEN "publish" ELSE "submit"
  /\ batch' = NoBatch
  /\ UNCHANGED <<service, stored, mosaic, requests, kind, checking, left, tile, pasted, failed>>

NothingToDo ==
  /\ at = "submit" /\ left = {}
  /\ at' = "publish"
  /\ UNCHANGED <<service, stored, mosaic, requests, kind, checking, download>>

Abort ==
  /\ at = "abort" /\ \A t \in DOMAIN tile : Finished(t)
  /\ End
  /\ UNCHANGED <<service, stored, mosaic, requests>>

\* Mutant: the tiles that are there, without those the service lacks.
ActualPasted == pasted

\* Without a failure the tiles that were asked for, missing ones included.
Actual == IF failed = 0 /\ ~AnyTiles THEN Wanted ELSE pasted

\* Without any tile the request fails.
Publish ==
  /\ at = "publish"
  /\ mosaic' = IF pasted = {} THEN mosaic
               ELSE [mosaic EXCEPT ![zoom] = {[actual |-> Actual, reusable |-> failed = 0,
                                               pasted |-> pasted, kind |-> kind, complete |-> Complete]}]
  /\ End
  /\ UNCHANGED <<service, stored, requests>>

Step ==
  \/ CheckWindow \/ ChooseZoom \/ Select \/ Look \/ Submit
  \/ (\E t \in DOMAIN tile : StartTile(t) \/ Answered(t) \/ AttemptFails(t) \/ Collect(t))
  \/ EndBatch \/ NothingToDo \/ Abort \/ Publish

Next == (\E k \in {"run", "prefetch"} : Begin(k)) \/ Step \/ Cancelled

\* A request takes its next step.
Spec     == Init /\ [][Next]_vars
FairSpec == Spec /\ WF_vars(Step)

-----------------------------------------------------------------------------
(* Properties *)

TypeOK ==
  /\ service \subseteq Tiles /\ stored \subseteq service
  /\ requests \in 0 .. MaxRequests /\ at \in Places /\ zoom \in Zooms
  /\ check.zoom \in Zooms /\ check.available \subseteq service
  /\ check.workers \in 0 .. Larger(1, MaxWorkers)
  /\ at = "check" => check.workers \in LeastWorkers(check.zoom) .. FirstWorkers(check.zoom)
  /\ left \cup DOMAIN tile \cup pasted \subseteq TilesAt(zoom)
  /\ concurrency \in {0} \cup MinConcurrency .. MaxConcurrency
  /\ Cardinality({t \in DOMAIN tile : Running(t)}) <= concurrency

\* A mosaic that later requests will reuse has every tile of the area that the
\* service has at that zoom, whatever checks and attempts failed on the way, and
\* whether the tiles came from the service or from the cache.
ReusableIsWhole ==
  \A z \in Zooms : \A m \in mosaic[z] :
    m.reusable => service \cap Aoi \cap TilesAt(z) \subseteq m.pasted

\* The zoom of a download is the one at which a check of this request has found a
\* tile, if any has; and a run chooses its tiles by what was found at that zoom.
ZoomJustified ==
  at \in Downloading =>
    /\ found # {} => zoom = check.zoom /\ found \subseteq TilesAt(zoom)
    /\ kind = "run" /\ Complete => check.zoom = zoom

\* A mosaic without failed tiles is reused by every later run whose preflight ended
\* as the one it was made after, complete or not.
MosaicReused ==
  [][at = "look" /\ kind = "run"
     /\ (\E m \in mosaic[zoom] : m.reusable /\ m.kind = "run" /\ m.complete = Complete)
     => mosaic' = mosaic]_vars

\* Every request ends, although attempts fail and are repeated.
EveryRequestEnds == at # "idle" ~> at = "idle"
=============================================================================
