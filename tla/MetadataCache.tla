--------------------------- MODULE MetadataCache ---------------------------
(***************************************************************************)
(* The Wayback metadata summary of one release, AOI and zoom: a caller     *)
(* keeps the lock of its cache entry while it reads the entry, asks the    *)
(* metadata service on a miss and writes the result.  A caller that cannot *)
(* get the lock, or fails inside it, asks the service on its own and       *)
(* writes nothing.                                                         *)
(***************************************************************************)
EXTENDS LockedCacheFile

vars == <<entry, lock, pc, inside, answer>>

Places == Stopped \cup {"wait", "look", "drop", "lookup", "publish", "release",
                        "lookup_alone"}

\* Mutant: a caller past its deadline removes the directory it waits for.
TimeOutStealing(w) ==
  /\ pc[w] = "wait" /\ Stuck
  /\ lock' = FALSE
  /\ Go(w, "wait")
  /\ UNCHANGED <<entry, inside, answer>>

\* Mutant: the wait for the lock has no deadline.
TimeOutNever(w) == FALSE /\ UNCHANGED <<entry, lock, pc, inside, answer>>

\* The wait for the lock passes its deadline: the TimeoutError is caught with
\* everything else and the caller goes to the service by itself.
TimeOut(w) ==
  /\ pc[w] = "wait" /\ Stuck
  /\ Go(w, "lookup_alone")
  /\ UNCHANGED <<entry, lock, inside, answer>>

\* The lookup under the lock: it answers, or raises and frees the lock.
Lookup(w) ==
  /\ pc[w] = "lookup"
  /\ \/ answer' = [answer EXCEPT ![w] = w] /\ Go(w, "publish")
     \/ answer' = answer /\ Go(w, "release")
  /\ UNCHANGED <<entry, lock, inside>>

\* The lookup outside it: a second failure is the request's failure.
LookupAlone(w) ==
  /\ pc[w] = "lookup_alone"
  /\ \/ answer' = [answer EXCEPT ![w] = w] /\ Go(w, "done")
     \/ answer' = answer /\ Go(w, "failed")
  /\ UNCHANGED <<entry, lock, inside>>

\* Mutant: a caller whose lookup raised goes home as if it had an answer.
LeaveUnanswered(w) == Release(w, "done")

Leave(w) == Release(w, IF answer[w] = NoAnswer THEN "lookup_alone" ELSE "done")

Step(w) ==
  \/ Acquire(w) \/ TimeOut(w)
  \/ LookHit(w, "release") \/ LookMiss(w, "lookup") \/ LookUnusable(w)
  \/ Drop(w, "lookup")
  \/ Lookup(w) \/ LookupAlone(w)
  \/ Publish(w) \/ PublishFails(w) \/ Leave(w)

Init == InitFile /\ pc = [w \in Callers |-> "wait"]
Next == (\E w \in Callers : Step(w) \/ Crash(w)) \/ Expire
Spec == Init /\ [][Next]_vars

\* Threads run, and the 120 second deadline passes.
FairSpec == Spec /\ \A w \in Callers : WF_vars(Step(w))

-----------------------------------------------------------------------------
TypeOK == FileTypeOK(Places)

\* One caller at a time is between mkdir and rmtree, so one at a time asks the
\* service under the lock (acquire_wayback_metadata_cache_lock), through
\* crashes, slow holders and timeouts.
LockIsExclusive ==
  \A v, w \in Callers : inside[v] /\ inside[w] => v = w

\* An entry within its TTL is neither overwritten nor unlinked: the unlink of
\* an expired file and the write after a miss never hit a newer one
\* (read_wayback_metadata_cache, write_wayback_metadata_cache_atomic).
FreshEntryStays ==
  [][entry.fresh => entry' = entry \/ entry' = [entry EXCEPT !.fresh = FALSE]]_vars

\* A caller that gives up leaves the directory it did not make where it is, so
\* the lock of a dead process is there for good: every later caller waits out
\* the deadline and nothing is cached under that key any more.
TimeoutsNeverSteal == [][Abandoned => Abandoned' /\ (entry'.fresh => entry.fresh)]_vars

\* The lock, its deadline and the file are a way to keep the promises of a cache
\* beside a service: each answer is the caller's own or was within its TTL when
\* it was read, it is never taken back, nobody is done without one, and what is
\* stored was computed by the caller that stores it and replaces nothing fresh
\* (_summarize_release_metadata_for_request).
Cache == INSTANCE LookAside WITH
           Nothing <- None,
           state   <- [w \in Callers |-> IF pc[w] \in Stopped THEN pc[w] ELSE "asking"]
ImplementsLookAside == Cache!Spec

\* Every caller that does not die gets an answer or an error, also when the
\* lock was left behind by a process that did.
EveryCallerReturns == \A w \in Callers : <>(pc[w] \in Stopped)
=============================================================================
