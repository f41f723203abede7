-------------------------- MODULE LockedCacheFile --------------------------
(***************************************************************************)
(* One JSON entry of a disk cache and the directory whose mkdir is its     *)
(* lock.  The Wayback metadata cache and the Wayback tile preflight cache  *)
(* keep such a pair per key; this module holds the state and the steps     *)
(* the two have in common.  Callers are the request threads, of any        *)
(* process, that ask for the same key once each.                           *)
(***************************************************************************)
EXTENDS FiniteSets

CONSTANTS
  Callers,   \* the threads that look the key up
  Faults     \* what may go wrong, a subset of FaultKinds

FaultKinds == {"crash", "stall", "expire", "read_error", "write_error", "cleanup",
               "stale_cleanup"}
NoAnswer == "no answer"
Earlier  == "an earlier process"
None     == "no file"

ASSUME CallersAssumption == Callers \cap {NoAnswer, Earlier, None} = {}
ASSUME FaultsAssumption == Faults \subseteq FaultKinds

VARIABLES
  entry,    \* the cache file: who wrote it, and whether it is within its TTL
  lock,     \* does the lock directory exist
  pc,       \* where each caller is
  inside,   \* has this caller made the directory and not yet removed it
  answer    \* who computed the summary a caller goes home with

NoEntry == [by |-> None, fresh |-> FALSE]
Entry(w, f) == [by |-> w, fresh |-> f]
Entries == {NoEntry} \cup [by : Callers \cup {Earlier}, fresh : BOOLEAN]

Stopped == {"done", "failed", "crashed"}

\* A lock that the process which made it will never remove.
Abandoned == lock /\ \A w \in Callers : ~inside[w]

\* Waiting for the lock may exceed its 120 seconds: nobody is there to remove
\* it, or its holder is slow.
Stuck == lock /\ (Abandoned \/ "stall" \in Faults)

InitFile ==
  /\ entry \in {NoEntry, Entry(Earlier, FALSE), Entry(Earlier, TRUE)}
  /\ lock = FALSE
  /\ inside = [w \in Callers |-> FALSE]
  /\ answer = [w \in Callers |-> NoAnswer]

Go(w, place) == pc' = [pc EXCEPT ![w] = place]

\* Mutant: mkdir with exist_ok.
AcquireAnyway(w) ==
  /\ pc[w] = "wait"
  /\ lock' = TRUE
  /\ inside' = [inside EXCEPT ![w] = TRUE]
  /\ Go(w, "look")
  /\ UNCHANGED <<entry, answer>>

\* mkdir succeeds for one of the pollers.
Acquire(w) ==
  /\ pc[w] = "wait" /\ ~lock
  /\ lock' = TRUE
  /\ inside' = [inside EXCEPT ![w] = TRUE]
  /\ Go(w, "look")
  /\ UNCHANGED <<entry, answer>>

\* The finally clause: the directory at that path goes, whoever made it.
Release(w, next) ==
  /\ pc[w] = "release"
  /\ lock' = FALSE
  /\ inside' = [inside EXCEPT ![w] = FALSE]
  /\ Go(w, next)
  /\ UNCHANGED <<entry, answer>>

\* Mutant: a hit is returned without its summary.
LookHitEmpty(w, next) ==
  /\ pc[w] = "look" /\ entry.fresh
  /\ answer' = [answer EXCEPT ![w] = None]
  /\ Go(w, next)
  /\ UNCHANGED <<entry, lock, inside>>

\* The read parses a file within its TTL ...
LookHit(w, next) ==
  /\ pc[w] = "look" /\ entry.fresh
  /\ answer' = [answer EXCEPT ![w] = entry.by]
  /\ Go(w, next)
  /\ UNCHANGED <<entry, lock, inside>>

\* ... finds no file ...
LookMiss(w, next) ==
  /\ pc[w] = "look" /\ entry = NoEntry
  /\ Go(w, next)
  /\ UNCHANGED <<entry, lock, inside, answer>>

\* ... or a file it cannot use, past its TTL or unreadable just now, which it
\* goes on to unlink.
LookUnusable(w) ==
  /\ pc[w] = "look" /\ entry # NoEntry
  /\ ~entry.fresh \/ "read_error" \in Faults
  /\ Go(w, "drop")
  /\ UNCHANGED <<entry, lock, inside, answer>>

\* unlink removes what is at the path now, not what was read.
Drop(w, next) ==
  /\ pc[w] = "drop"
  /\ entry' = NoEntry
  /\ Go(w, next)
  /\ UNCHANGED <<lock, inside, answer>>

\* A temporary file of its own, moved over the entry in one step.
Publish(w) ==
  /\ pc[w] = "publish"
  /\ entry' = Entry(w, TRUE)
  /\ Go(w, "release")
  /\ UNCHANGED <<lock, inside, answer>>

\* The write raises; the exception is logged and the answer stands.
PublishFails(w) ==
  /\ pc[w] = "publish" /\ "write_error" \in Faults
  /\ Go(w, "release")
  /\ UNCHANGED <<entry, lock, inside, answer>>

\* The process dies: nothing runs its finally clauses, the directory stays.
Crash(w) ==
  /\ "crash" \in Faults /\ pc[w] \notin Stopped
  /\ inside' = [inside EXCEPT ![w] = FALSE]
  /\ Go(w, "crashed")
  /\ UNCHANGED <<entry, lock, answer>>

Expire ==
  /\ "expire" \in Faults /\ entry.fresh
  /\ entry' = [entry EXCEPT !.fresh = FALSE]
  /\ UNCHANGED <<lock, pc, inside, answer>>

FileTypeOK(places) ==
  /\ entry \in Entries
  /\ lock \in BOOLEAN
  /\ pc \in [Callers -> places]
  /\ inside \in [Callers -> BOOLEAN]
  /\ answer \in [Callers -> Callers \cup {NoAnswer, Earlier}]
=============================================================================
