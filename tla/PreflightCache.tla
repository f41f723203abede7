-------------------------- MODULE PreflightCache ---------------------------
(***************************************************************************)
(* The tile availability of one release, box and zoom.  A caller takes the *)
(* lock of the cache entry for a moment to read it; on a miss it asks the  *)
(* tile service without the lock and takes the lock again to look once     *)
(* more and write.  Locks are also removed by parties that do not hold     *)
(* them: every launch and every start of a temporal task deletes all of    *)
(* them, and an opt-in sweep at the start of a lookup deletes old ones.    *)
(***************************************************************************)
EXTENDS LockedCacheFile

VARIABLES
  aged,      \* the lock directory is older than stale_lock_seconds
  removed,   \* history: a lock was removed while its holder was at work
  misled     \* history: a caller handled the entry beside one that may write it,
             \* or could not read an entry within its TTL

history == <<removed, misled>>
preflightVars == <<entry, lock, pc, inside, answer, aged, removed, misled>>

PreflightPlaces ==
  Stopped \cup {"start", "sweep", "wait", "look", "drop", "live", "publish", "release"}

\* Mutant: the second lock is taken for the write alone, without a second look.
MissedUnchecked(w) ==
  IF answer[w] = NoAnswer THEN (IF inside[w] THEN "release" ELSE "live") ELSE "publish"

\* Where a caller goes on that found nothing usable: the first time to the
\* service, the second time to the write, which needs the lock.
Missed(w) ==
  CASE inside[w] /\ answer[w] = NoAnswer  -> "release"
    [] inside[w] /\ answer[w] # NoAnswer  -> "publish"
    [] ~inside[w] /\ answer[w] = NoAnswer -> "live"
    [] OTHER                              -> "done"

Found(w) == IF inside[w] THEN "release" ELSE "done"

\* Somebody else than a holder removes the directory.
Remove ==
  /\ lock' = FALSE
  /\ removed' = (removed \/ \E w \in Callers : inside[w])
  /\ misled' = (misled \/ \E w \in Callers : pc[w] \in {"look", "drop"} /\ ~inside[w])

\* cleanup_stale_wayback_tile_preflight_locks looks at the lock: an old one
\* with no cache file beside it is condemned.  It would spare one with a live
\* owner, but no lock names its owner.
StaleLook(w) ==
  /\ pc[w] = "start"
  /\ Go(w, IF "stale_cleanup" \in Faults /\ lock /\ aged /\ entry = NoEntry
           THEN "sweep" ELSE "wait")
  /\ UNCHANGED <<entry, lock, inside, answer, aged, history>>

StaleDelete(w) ==
  /\ pc[w] = "sweep"
  /\ Remove
  /\ Go(w, "wait")
  /\ UNCHANGED <<entry, inside, answer, aged>>

Enter(w) == Acquire(w) /\ aged' = FALSE /\ UNCHANGED history

\* Mutant: the wait for the lock has no deadline.
TimeOutReadingNever(w) == FALSE /\ UNCHANGED preflightVars

\* Past the deadline the caller reads the entry without the lock.
TimeOutReading(w) ==
  /\ pc[w] = "wait" /\ Stuck
  /\ Go(w, "look")
  /\ misled' = (misled \/ ~Abandoned)
  /\ UNCHANGED <<entry, lock, inside, answer, aged, removed>>

\* The remote preflight, outside the lock.
Live(w) ==
  /\ pc[w] = "live"
  /\ \/ answer' = [answer EXCEPT ![w] = w] /\ Go(w, "wait")
     \/ answer' = answer /\ Go(w, "failed")
  /\ UNCHANGED <<entry, lock, inside, aged, history>>

LeaveShortLock(w) == Release(w, IF answer[w] = NoAnswer THEN "live" ELSE "done")

Unusable(w) == LookUnusable(w) /\ misled' = (misled \/ entry.fresh)

File(w) ==
  \/ LookHit(w, Found(w)) \/ LookMiss(w, Missed(w)) \/ Drop(w, Missed(w))
  \/ Publish(w) \/ PublishFails(w) \/ LeaveShortLock(w)

PreflightStep(w) ==
  \/ StaleLook(w) \/ StaleDelete(w) \/ Enter(w) \/ TimeOutReading(w) \/ Live(w)
  \/ Unusable(w) /\ UNCHANGED <<aged, removed>>
  \/ File(w) /\ UNCHANGED <<aged, history>>

\* cleanup_wayback_preflight_locks, at a launch and at the start of a task: the
\* directory goes, held or not.
Cleanup ==
  /\ "cleanup" \in Faults /\ lock
  /\ Remove
  /\ UNCHANGED <<entry, pc, inside, answer, aged>>

Age ==
  /\ "stale_cleanup" \in Faults /\ Stuck /\ ~aged
  /\ aged' = TRUE
  /\ UNCHANGED <<entry, lock, pc, inside, answer, history>>

PreflightInit ==
  /\ InitFile /\ pc = [w \in Callers |-> "start"] /\ aged = FALSE
  /\ removed = FALSE /\ misled = FALSE
PreflightNext ==
  \/ \E w \in Callers : PreflightStep(w) \/ (Crash(w) /\ UNCHANGED <<aged, history>>)
  \/ Expire /\ UNCHANGED <<aged, history>>
  \/ Cleanup \/ Age
PreflightSpec == PreflightInit /\ [][PreflightNext]_preflightVars

\* Threads run, and the 120 second deadline passes.
FairPreflightSpec == PreflightSpec /\ \A w \in Callers : WF_preflightVars(PreflightStep(w))

-----------------------------------------------------------------------------
PreflightTypeOK ==
  /\ FileTypeOK(PreflightPlaces)
  /\ aged \in BOOLEAN /\ removed \in BOOLEAN /\ misled \in BOOLEAN

\* One caller at a time is between mkdir and rmtree, crashes, slow holders and
\* removals of abandoned locks included, until a cleanup removes the lock of a
\* holder at work (acquire_wayback_tile_preflight_cache_lock).
ShortLockExcludes ==
  ~removed => \A v, w \in Callers : inside[v] /\ inside[w] => v = w

\* An entry within its TTL is neither overwritten nor unlinked: the second look
\* under the lock (_write_cache_with_short_lock) finds what another caller wrote
\* while this one was at the service.  A held lock removed by a cleanup, a
\* caller let past a slow holder by its deadline, or a failed read end that.
FreshPreflightStays ==
  [][~removed /\ ~misled /\ entry.fresh
       => entry' = entry \/ entry' = [entry EXCEPT !.fresh = FALSE]]_preflightVars

\* Every caller that does not die gets an answer or an error, whatever is left
\* behind or removed meanwhile.
EveryPreflightReturns == \A w \in Callers : <>(pc[w] \in Stopped)
=============================================================================
