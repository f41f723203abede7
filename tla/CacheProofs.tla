---------------------------- MODULE CacheProofs ----------------------------
(***************************************************************************)
(* What the two locked caches promise for any set of callers and any       *)
(* faults: MetadataCache and PreflightCache, two specifications over one   *)
(* entry and its lock.                                                     *)
(***************************************************************************)
EXTENDS MetadataCache, PreflightCache, TLAPS

-----------------------------------------------------------------------------
(* The metadata cache.  A caller is between mkdir and rmtree exactly at    *)
(* the places where it reads or writes the entry (Placed), the directory   *)
(* is there while one is (Held), and a caller about to unlink or write the *)
(* entry has seen it unusable and nobody has written since (SeenStale).    *)

UnderLock == {"look", "drop", "lookup", "publish", "release"}

Placed == \A w \in Callers : inside[w] <=> pc[w] \in UnderLock
Held == \A w \in Callers : inside[w] => lock
SeenStale ==
  \A w \in Callers : pc[w] \in {"drop", "lookup", "publish"} => ~entry.fresh

LockInv == TypeOK /\ Placed /\ Held /\ LockIsExclusive

-----------------------------------------------------------------------------
\* The initial states satisfy the invariant.
LEMMA LockInvInit == Init => LockInv
<1> SUFFICES ASSUME Init PROVE LockInv
  OBVIOUS
<1>1. entry \in Entries
  <2>1. NoEntry \in Entries
    BY DEF Entries
  <2>2. \A f \in BOOLEAN : Entry(Earlier, f) \in Entries
    BY DEF Entries, Entry
  <2> QED BY <2>1, <2>2 DEF Init, InitFile
<1>2. pc \in [Callers -> Places] /\ answer \in [Callers -> Callers \cup {NoAnswer, Earlier}]
  BY DEF Init, InitFile, Places, Stopped
<1>3. lock = FALSE /\ inside = [w \in Callers |-> FALSE]
  BY DEF Init, InitFile
<1>4. \A w \in Callers : ~inside[w] /\ pc[w] = "wait"
  BY DEF Init, InitFile
<1> QED BY <1>1, <1>2, <1>3, <1>4 DEF LockInv, TypeOK, FileTypeOK, Placed, Held,
           LockIsExclusive, UnderLock

\* Every step preserves it.
LEMMA LockInvStep == LockInv /\ [Next]_vars => LockInv'
<1> SUFFICES ASSUME LockInv, [Next]_vars PROVE LockInv'
  OBVIOUS
<1> USE DEF LockInv, TypeOK, FileTypeOK, Placed, Held, LockIsExclusive, UnderLock,
            Places, Stopped, Go
<1>1. ASSUME NEW w \in Callers, Acquire(w) PROVE LockInv'
  BY <1>1 DEF Acquire
<1>2. ASSUME NEW w \in Callers, TimeOut(w) PROVE LockInv'
  BY <1>2 DEF TimeOut
<1>3. ASSUME NEW w \in Callers, LookHit(w, "release") PROVE LockInv'
  <2>1. entry.by \in Callers \cup {NoAnswer, Earlier}
    BY <1>3 DEF LookHit, Entries, NoEntry
  <2> QED BY <1>3, <2>1 DEF LookHit
<1>4. ASSUME NEW w \in Callers, LookMiss(w, "lookup") PROVE LockInv'
  BY <1>4 DEF LookMiss
<1>5. ASSUME NEW w \in Callers, LookUnusable(w) PROVE LockInv'
  BY <1>5 DEF LookUnusable
<1>6. ASSUME NEW w \in Callers, Drop(w, "lookup") PROVE LockInv'
  BY <1>6 DEF Drop, Entries
<1>7. ASSUME NEW w \in Callers, Lookup(w) PROVE LockInv'
  BY <1>7 DEF Lookup
<1>8. ASSUME NEW w \in Callers, LookupAlone(w) PROVE LockInv'
  BY <1>8 DEF LookupAlone
<1>9. ASSUME NEW w \in Callers, Publish(w) PROVE LockInv'
  BY <1>9 DEF Publish, Entries, Entry
<1>10. ASSUME NEW w \in Callers, PublishFails(w) PROVE LockInv'
  BY <1>10 DEF PublishFails
<1>11. ASSUME NEW w \in Callers, Leave(w) PROVE LockInv'
  BY <1>11 DEF Leave, Release
<1>12. ASSUME NEW w \in Callers, Crash(w) PROVE LockInv'
  BY <1>12 DEF Crash
<1>13. CASE Expire
  <2>1. entry \in [by : Callers \cup {Earlier}, fresh : BOOLEAN]
    BY <1>13 DEF Expire, Entries, NoEntry
  <2>2. entry' \in [by : Callers \cup {Earlier}, fresh : BOOLEAN]
    BY <1>13, <2>1, Zenon DEF Expire
  <2>3. entry' \in Entries
    BY <2>2 DEF Entries
  <2> QED BY <1>13, <2>3 DEF Expire
<1>14. CASE UNCHANGED vars
  BY <1>14 DEF vars
<1> QED
  BY <1>1, <1>2, <1>3, <1>4, <1>5, <1>6, <1>7, <1>8, <1>9, <1>10, <1>11, <1>12, <1>13,
     <1>14 DEF Next, Step

\* The invariant holds in every reachable state.
THEOREM MetadataLockInvariant == Spec => []LockInv
  BY LockInvInit, LockInvStep, PTL DEF Spec

\* Every variable keeps its type.
THEOREM MetadataTypes == Spec => []TypeOK
<1>1. LockInv => TypeOK
  BY DEF LockInv
<1> QED BY <1>1, MetadataLockInvariant, PTL

\* acquire_wayback_metadata_cache_lock lets one caller in at a time, whatever
\* crashes, stalls and timeouts there are.
THEOREM MetadataLockIsExclusive == Spec => []LockIsExclusive
<1>1. LockInv => LockIsExclusive
  BY DEF LockInv
<1> QED BY <1>1, MetadataLockInvariant, PTL

-----------------------------------------------------------------------------
\* A lock nobody is going to remove is never removed, and nothing is cached
\* under its key again.
THEOREM MetadataTimeoutsNeverSteal == Spec => TimeoutsNeverSteal
<1>1. LockInv /\ [Next]_vars => [Abandoned => Abandoned' /\ (entry'.fresh => entry.fresh)]_vars
  <2> SUFFICES ASSUME LockInv, Next, Abandoned
               PROVE Abandoned' /\ (entry'.fresh => entry.fresh)
    BY DEF Abandoned, vars
  <2> USE DEF LockInv, TypeOK, FileTypeOK, Placed, UnderLock, Abandoned
  <2>1. ASSUME NEW w \in Callers, Step(w) PROVE Abandoned' /\ entry' = entry
    <3>1. pc[w] \notin UnderLock
      OBVIOUS
    <3>2. TimeOut(w) \/ LookupAlone(w)
      BY <2>1, <3>1 DEF Step, Acquire, LookHit, LookMiss, LookUnusable, Drop, Lookup,
         Publish, PublishFails, Leave, Release
    <3> QED BY <3>2 DEF TimeOut, LookupAlone
  <2>2. ASSUME NEW w \in Callers, Crash(w) PROVE Abandoned' /\ entry' = entry
    BY <2>2 DEF Crash
  <2>3. CASE Expire
    BY <2>3 DEF Expire
  <2> QED BY <2>1, <2>2, <2>3 DEF Next
<1> QED BY <1>1, MetadataLockInvariant, PTL DEF Spec, TimeoutsNeverSteal

\* What a caller saw unusable stays so until that caller itself replaces it.
LEMMA SeenStaleStep ==
  ASSUME "read_error" \notin Faults
  PROVE  LockInv /\ SeenStale /\ [Next]_vars => SeenStale'
<1> SUFFICES ASSUME LockInv, SeenStale, [Next]_vars, NEW v \in Callers,
                    pc'[v] \in {"drop", "lookup", "publish"}
             PROVE  ~entry'.fresh
  BY DEF SeenStale
<1> USE DEF LockInv, TypeOK, FileTypeOK, Placed, LockIsExclusive, UnderLock, SeenStale, Go
<1>1. ASSUME NEW w \in Callers, Step(w) PROVE ~entry'.fresh
  <2>1. CASE Acquire(w)
    BY <2>1 DEF Acquire
  <2>2. CASE TimeOut(w) \/ LookupAlone(w)
    BY <2>2 DEF TimeOut, LookupAlone
  <2>3. CASE LookHit(w, "release") \/ PublishFails(w) \/ Leave(w)
    BY <2>3 DEF LookHit, PublishFails, Leave, Release
  <2>4. CASE LookMiss(w, "lookup") \/ LookUnusable(w) \/ Drop(w, "lookup")
    BY <2>4 DEF LookMiss, LookUnusable, Drop, NoEntry
  <2>5. CASE Lookup(w)
    BY <2>5 DEF Lookup
  <2>6. CASE Publish(w)
    BY <2>6 DEF Publish
  <2> QED BY <1>1, <2>1, <2>2, <2>3, <2>4, <2>5, <2>6 DEF Step
<1>2. ASSUME NEW w \in Callers, Crash(w) PROVE ~entry'.fresh
  BY <1>2 DEF Crash
<1>3. CASE Expire
  BY <1>3 DEF Expire, Entries, NoEntry
<1>4. CASE UNCHANGED vars
  BY <1>4 DEF vars
<1> QED BY <1>1, <1>2, <1>3, <1>4 DEF Next

\* An entry within its TTL is left alone by every caller, provided the reads of
\* the file do not fail (a failed read unlinks the file whatever it holds).
THEOREM MetadataFreshEntryStays ==
  ASSUME "read_error" \notin Faults
  PROVE  Spec => FreshEntryStays
<1> DEFINE Keep == entry.fresh => entry' = entry \/ entry' = [entry EXCEPT !.fresh = FALSE]
<1>1. Init => SeenStale
  BY DEF Init, SeenStale
<1>2. SeenStale /\ [Next]_vars => [Keep]_vars
  <2> SUFFICES ASSUME SeenStale, Next, entry.fresh
               PROVE entry' = entry \/ entry' = [entry EXCEPT !.fresh = FALSE]
    BY DEF vars
  <2>1. ASSUME NEW w \in Callers, Step(w) PROVE entry' = entry
    <3>1. pc[w] \notin {"drop", "publish"}
      BY DEF SeenStale
    <3> QED BY <2>1, <3>1 DEF Step, Acquire, TimeOut, LookHit, LookMiss, LookUnusable, Drop,
               Lookup, LookupAlone, Publish, PublishFails, Leave, Release
  <2> QED BY <2>1 DEF Next, Crash, Expire
<1>3. LockInv /\ SeenStale /\ [Next]_vars => SeenStale'
  BY SeenStaleStep
<1> QED BY <1>1, <1>2, <1>3, MetadataLockInvariant, PTL DEF Spec, FreshEntryStays

-----------------------------------------------------------------------------
(* The cache implements LookAside.  A caller has no answer until its lookup  *)
(* or its look at the entry, and the one that writes has its own.            *)

Answers == \A w \in Callers :
  /\ pc[w] \in {"wait", "look", "drop", "lookup", "lookup_alone"} => answer[w] = NoAnswer
  /\ pc[w] = "publish" => answer[w] = w

State == [w \in Callers |-> IF pc[w] \in Stopped THEN pc[w] ELSE "asking"]

LEMMA AnswersInit == Init => Answers
  BY DEF Init, InitFile, Answers

LEMMA AnswersStep == LockInv /\ Answers /\ [Next]_vars => Answers'
<1> SUFFICES ASSUME LockInv, Answers, [Next]_vars PROVE Answers'
  OBVIOUS
<1> USE DEF LockInv, TypeOK, FileTypeOK, Answers, Places, Stopped, Go
<1>1. ASSUME NEW w \in Callers, Step(w) PROVE Answers'
  <2>1. CASE Acquire(w) \/ TimeOut(w)
    BY <2>1 DEF Acquire, TimeOut
  <2>2. CASE LookHit(w, "release") \/ LookMiss(w, "lookup") \/ LookUnusable(w)
    BY <2>2 DEF LookHit, LookMiss, LookUnusable
  <2>3. CASE Drop(w, "lookup")
    BY <2>3 DEF Drop
  <2>4. CASE Lookup(w) \/ LookupAlone(w)
    BY <2>4 DEF Lookup, LookupAlone
  <2>5. CASE Publish(w) \/ PublishFails(w) \/ Leave(w)
    BY <2>5 DEF Publish, PublishFails, Leave, Release
  <2> QED BY <1>1, <2>1, <2>2, <2>3, <2>4, <2>5 DEF Step
<1>2. ASSUME NEW w \in Callers, Crash(w) PROVE Answers'
  BY <1>2 DEF Crash
<1>3. CASE Expire
  BY <1>3 DEF Expire
<1>4. CASE UNCHANGED vars
  BY <1>4 DEF vars
<1> QED BY <1>1, <1>2, <1>3, <1>4 DEF Next

\* Every step is one of the abstract cache or leaves it alone.
LEMMA StepImplements ==
  LockInv /\ SeenStale /\ Answers /\ [Next]_vars => [Cache!Next]_(Cache!vars)
<1> SUFFICES ASSUME LockInv, SeenStale, Answers, [Next]_vars
             PROVE  Cache!Next \/ UNCHANGED <<entry, answer, State>>
  BY DEF Cache!vars, State
<1>p. pc \in [Callers -> Places] /\ answer \in [Callers -> Callers \cup {NoAnswer, Earlier}]
  BY DEF LockInv, TypeOK, FileTypeOK
<1>1. ASSUME NEW w \in Callers, Step(w) PROVE Cache!Next \/ UNCHANGED <<entry, answer, State>>
  <2>1. CASE Acquire(w)
    BY <2>1, <1>p DEF State, Acquire, Go, Stopped, Places
  <2>2. CASE TimeOut(w)
    BY <2>2, <1>p DEF State, TimeOut, Go, Stopped, Places
  <2>3. CASE LookHit(w, "release")
    <3>1. State[w] = "asking" /\ State' = State /\ answer[w] = NoAnswer
      BY <2>3, <1>p DEF State, LookHit, Go, Stopped, Places, Answers
    <3>2. Cache!Hit(w)
      BY <2>3, <3>1 DEF LookHit, Cache!Hit, Cache!Unanswered, State
    <3> QED BY <3>2 DEF Cache!Next
  <2>4. CASE LookMiss(w, "lookup") \/ LookUnusable(w)
    BY <2>4, <1>p DEF State, LookMiss, LookUnusable, Go, Stopped, Places
  <2>5. CASE Drop(w, "lookup")
    <3>1. State' = State
      BY <2>5, <1>p DEF State, Drop, Go, Stopped, Places
    <3>2. Cache!Discard
      BY <2>5, <3>1 DEF Drop, Cache!Discard, SeenStale, NoEntry, State
    <3> QED BY <3>2 DEF Cache!Next
  <2>6. CASE Lookup(w)
    <3>1. State[w] = "asking" /\ State' = State /\ answer[w] = NoAnswer
      BY <2>6, <1>p DEF State, Lookup, Go, Stopped, Places, Answers
    <3>2. Cache!Compute(w) \/ UNCHANGED <<entry, answer, State>>
      BY <2>6, <3>1 DEF Lookup, Cache!Compute, Cache!Unanswered, State
    <3> QED BY <3>2 DEF Cache!Next
  <2>7. CASE LookupAlone(w)
    <3>1. State[w] = "asking" /\ answer[w] = NoAnswer /\ pc[w] \notin Stopped
      BY <2>7 DEF LookupAlone, Stopped, Answers, State
    <3>2. CASE answer' = [answer EXCEPT ![w] = w] /\ Go(w, "done")
      <4>1. State' = [State EXCEPT ![w] = "done"]
        BY <3>1, <3>2, <1>p DEF State, Go, Stopped, Places
      <4>2. Cache!Compute(w)
        BY <2>7, <3>1, <3>2, <4>1 DEF LookupAlone, Cache!Compute, Cache!Unanswered, State
      <4> QED BY <4>2 DEF Cache!Next
    <3>3. CASE answer' = answer /\ Go(w, "failed")
      <4>1. State' = [State EXCEPT ![w] = "failed"]
        BY <3>1, <3>3, <1>p DEF State, Go, Stopped, Places
      <4>2. Cache!Fail(w)
        BY <2>7, <3>1, <3>3, <4>1 DEF LookupAlone, Cache!Fail, Cache!Unanswered, State
      <4> QED BY <4>2 DEF Cache!Next
    <3> QED BY <2>7, <3>2, <3>3 DEF LookupAlone
  <2>8. CASE Publish(w)
    <3>1. State[w] = "asking" /\ State' = State /\ answer[w] = w /\ ~entry.fresh
      BY <2>8, <1>p DEF State, Publish, Go, Stopped, Places, Answers, SeenStale
    <3>2. Cache!Store(w)
      BY <2>8, <3>1 DEF Publish, Entry, Cache!Store, State
    <3> QED BY <3>2 DEF Cache!Next
  <2>9. CASE PublishFails(w)
    BY <2>9, <1>p DEF State, PublishFails, Go, Stopped, Places
  <2>10. CASE Leave(w)
    <3>1. State[w] = "asking" /\ pc[w] \notin Stopped
      BY <2>10 DEF Leave, Release, Stopped, State
    <3>2. CASE answer[w] = NoAnswer
      BY <2>10, <3>1, <3>2, <1>p DEF State, Leave, Release, Go, Stopped, Places
    <3>3. CASE answer[w] # NoAnswer
      <4>1. State' = [State EXCEPT ![w] = "done"]
        BY <2>10, <3>1, <3>3, <1>p DEF State, Leave, Release, Go, Stopped, Places
      <4>2. Cache!Finish(w)
        BY <2>10, <3>1, <3>3, <4>1 DEF Leave, Release, Cache!Finish, State
      <4> QED BY <4>2 DEF Cache!Next
    <3> QED BY <3>2, <3>3
  <2> QED BY <1>1, <2>1, <2>2, <2>3, <2>4, <2>5, <2>6, <2>7, <2>8, <2>9, <2>10 DEF Step
<1>2. ASSUME NEW w \in Callers, Crash(w) PROVE Cache!Next
  <2>1. State[w] = "asking" /\ State' = [State EXCEPT ![w] = "crashed"]
    BY <1>2, <1>p DEF State, Crash, Go, Stopped, Places
  <2>2. Cache!Crash(w)
    BY <1>2, <2>1 DEF Crash, Cache!Crash, State
  <2> QED BY <2>2 DEF Cache!Next
<1>3. CASE Expire
  <2>1. State' = State
    BY <1>3 DEF Expire, State
  <2>2. Cache!Expire
    BY <1>3, <2>1 DEF Expire, Cache!Expire, State
  <2> QED BY <2>2 DEF Cache!Next
<1>4. CASE UNCHANGED vars
  BY <1>4 DEF vars, State
<1> QED BY <1>1, <1>2, <1>3, <1>4 DEF Next

\* _summarize_release_metadata_for_request with its lock, its deadline and its
\* files implements the cache LookAside describes, for any callers, crashes,
\* slow holders, expiry and failed writes, as long as reads do not fail.
THEOREM MetadataImplementsLookAside ==
  ASSUME "read_error" \notin Faults
  PROVE  Spec => ImplementsLookAside
<1>1. Init => Cache!Init
  <2> SUFFICES ASSUME Init PROVE Cache!Init
    OBVIOUS
  <2>1. entry \in {[by |-> None, fresh |-> FALSE]} \cup [by : {Earlier}, fresh : BOOLEAN]
    <3>1. entry \in {[by |-> None, fresh |-> FALSE], [by |-> Earlier, fresh |-> FALSE],
                     [by |-> Earlier, fresh |-> TRUE]}
      BY DEF Init, InitFile, NoEntry, Entry
    <3>2. \A f \in BOOLEAN : [by |-> Earlier, fresh |-> f] \in [by : {Earlier}, fresh : BOOLEAN]
      OBVIOUS
    <3> QED BY <3>1, <3>2
  <2>2. State = [w \in Callers |-> "asking"]
    BY DEF Init, State, Stopped
  <2>3. answer = [w \in Callers |-> NoAnswer]
    BY DEF Init, InitFile
  <2> QED BY <2>1, <2>2, <2>3 DEF Cache!Init, State
<1>2. Init => SeenStale
  BY DEF Init, SeenStale
<1>3. LockInv /\ SeenStale /\ [Next]_vars => SeenStale'
  BY SeenStaleStep
<1> QED BY <1>1, <1>2, <1>3, AnswersInit, AnswersStep, StepImplements, MetadataLockInvariant,
           PTL DEF Spec, ImplementsLookAside, Cache!Spec

-----------------------------------------------------------------------------
(* The tile preflight cache.  A caller that writes or is about to remove   *)
(* the directory made it (PreflightPlaced) and, until a cleanup removes a  *)
(* held lock, it is there (PreflightHeld); a caller that reads without the *)
(* lock does so beside an abandoned one (LateReader), so no other caller   *)
(* can be writing.                                                         *)

PreflightPlaced ==
  \A w \in Callers :
    /\ pc[w] \in {"publish", "release"} => inside[w]
    /\ inside[w] => pc[w] \in {"look", "drop", "publish", "release"}

PreflightHeld == ~removed => \A w \in Callers : inside[w] => lock

Quiet == ~removed /\ ~misled

LateReader ==
  Quiet => \A w \in Callers : pc[w] \in {"look", "drop"} /\ ~inside[w] => Abandoned

PreflightSeenStale == Quiet => \A w \in Callers : pc[w] \in {"drop", "publish"} => ~entry.fresh

PreflightLockInv == PreflightTypeOK /\ PreflightPlaced /\ PreflightHeld /\ ShortLockExcludes

-----------------------------------------------------------------------------
LEMMA PreflightLockInvInit == PreflightInit => PreflightLockInv
<1> SUFFICES ASSUME PreflightInit PROVE PreflightLockInv
  OBVIOUS
<1>1. entry \in Entries
  <2>1. NoEntry \in Entries
    BY DEF Entries
  <2>2. \A f \in BOOLEAN : Entry(Earlier, f) \in Entries
    BY DEF Entries, Entry
  <2> QED BY <2>1, <2>2 DEF PreflightInit, InitFile
<1>2. /\ pc \in [Callers -> PreflightPlaces]
      /\ answer \in [Callers -> Callers \cup {NoAnswer, Earlier}]
  BY DEF PreflightInit, InitFile, PreflightPlaces, Stopped
<1>3. /\ lock = FALSE /\ inside = [w \in Callers |-> FALSE] /\ aged = FALSE
     /\ removed = FALSE /\ misled = FALSE
  BY DEF PreflightInit, InitFile
<1>4. \A w \in Callers : ~inside[w] /\ pc[w] = "start"
  BY DEF PreflightInit, InitFile
<1> QED BY <1>1, <1>2, <1>3, <1>4 DEF PreflightLockInv, PreflightTypeOK, FileTypeOK,
     PreflightPlaced, PreflightHeld, ShortLockExcludes

\* Where a miss leads to, and what the caller then holds.
LEMMA MissedPlaces ==
  ASSUME NEW w \in Callers, PreflightTypeOK
  PROVE  /\ Missed(w) \in {"release", "publish", "live", "done"}
         /\ Missed(w) \in {"release", "publish"} <=> inside[w]
  BY DEF Missed, PreflightTypeOK, FileTypeOK

LEMMA FreshIsBoolean == entry \in Entries => entry.fresh \in BOOLEAN
<1>1. CASE entry = NoEntry
  BY <1>1 DEF NoEntry
<1>2. CASE entry \in [by : Callers \cup {Earlier}, fresh : BOOLEAN]
  BY <1>2
<1> QED BY <1>1, <1>2 DEF Entries

LEMMA PreflightLockInvStep == PreflightLockInv /\ [PreflightNext]_preflightVars => PreflightLockInv'
<1> SUFFICES ASSUME PreflightLockInv, [PreflightNext]_preflightVars PROVE PreflightLockInv'
  OBVIOUS
<1> USE DEF PreflightLockInv, PreflightTypeOK, FileTypeOK, PreflightPlaced, PreflightHeld,
     ShortLockExcludes, PreflightPlaces, Stopped, Go, history
<1>1. ASSUME NEW w \in Callers, StaleLook(w) PROVE PreflightLockInv'
  BY <1>1 DEF StaleLook
<1>2. ASSUME NEW w \in Callers, StaleDelete(w) PROVE PreflightLockInv'
  BY <1>2 DEF StaleDelete, Remove
<1>3. ASSUME NEW w \in Callers, Enter(w) PROVE PreflightLockInv'
  BY <1>3 DEF Enter, Acquire
<1>4. ASSUME NEW w \in Callers, TimeOutReading(w) PROVE PreflightLockInv'
  BY <1>4 DEF TimeOutReading
<1>5. ASSUME NEW w \in Callers, Live(w) PROVE PreflightLockInv'
  BY <1>5 DEF Live
<1>6. ASSUME NEW w \in Callers, File(w), UNCHANGED <<aged, history>> PROVE PreflightLockInv'
  <2>1. CASE LookHit(w, Found(w))
    <3>1. entry.by \in Callers \cup {NoAnswer, Earlier}
      BY <2>1 DEF LookHit, Entries, NoEntry
    <3> QED BY <1>6, <2>1, <3>1 DEF LookHit, Found
  <2>2. CASE LookMiss(w, Missed(w))
    BY <1>6, <2>2, MissedPlaces DEF LookMiss
  <2>4. CASE Drop(w, Missed(w))
    BY <1>6, <2>4, MissedPlaces DEF Drop, Entries
  <2>5. CASE Publish(w)
    BY <1>6, <2>5 DEF Publish, Entries, Entry
  <2>6. CASE PublishFails(w)
    BY <1>6, <2>6 DEF PublishFails
  <2>7. CASE LeaveShortLock(w)
    BY <1>6, <2>7 DEF LeaveShortLock, Release
  <2> QED BY <1>6, <2>1, <2>2, <2>4, <2>5, <2>6, <2>7 DEF File
<1>7. ASSUME NEW w \in Callers, Crash(w), UNCHANGED <<aged, history>> PROVE PreflightLockInv'
  BY <1>7 DEF Crash
<1>8. CASE Expire /\ UNCHANGED <<aged, history>>
  <2>1. entry \in [by : Callers \cup {Earlier}, fresh : BOOLEAN]
    BY <1>8 DEF Expire, Entries, NoEntry
  <2>2. entry' \in [by : Callers \cup {Earlier}, fresh : BOOLEAN]
    BY <1>8, <2>1, Zenon DEF Expire
  <2>3. entry' \in Entries
    BY <2>2 DEF Entries
  <2> QED BY <1>8, <2>3 DEF Expire
<1>9. CASE Cleanup \/ Age
  BY <1>9 DEF Cleanup, Age, Remove
<1>10. ASSUME NEW w \in Callers, Unusable(w), UNCHANGED <<aged, removed>> PROVE PreflightLockInv'
  <2>1. entry.fresh \in BOOLEAN
    BY FreshIsBoolean
  <2> QED BY <1>10, <2>1 DEF Unusable, LookUnusable
<1>11. CASE UNCHANGED preflightVars
  BY <1>11 DEF preflightVars
<1> QED BY <1>1, <1>2, <1>3, <1>4, <1>5, <1>6, <1>7, <1>8, <1>9, <1>10, <1>11
     DEF PreflightNext, PreflightStep

\* The invariant holds in every reachable state.
THEOREM PreflightLockInvariant == PreflightSpec => []PreflightLockInv
<1>1. PreflightLockInv /\ [PreflightNext]_preflightVars => PreflightLockInv'
  BY PreflightLockInvStep
<1> QED BY <1>1, PreflightLockInvInit, PTL DEF PreflightSpec

\* The variables keep to their ranges.
THEOREM PreflightTypes == PreflightSpec => []PreflightTypeOK
<1>1. PreflightLockInv => PreflightTypeOK
  BY DEF PreflightLockInv
<1> QED BY <1>1, PreflightLockInvariant, PTL

\* acquire_wayback_tile_preflight_cache_lock lets one caller in at a time as
\* long as no cleanup removes the lock of a holder at work.
THEOREM PreflightLockIsExclusive == PreflightSpec => []ShortLockExcludes
<1>1. PreflightLockInv => ShortLockExcludes
  BY DEF PreflightLockInv
<1> QED BY <1>1, PreflightLockInvariant, PTL

-----------------------------------------------------------------------------
\* While nothing disturbs them, the only readers outside the lock stand beside
\* an abandoned one, and no caller is about to remove or write a fresh entry.
LEMMA StaleInvStep ==
  PreflightLockInv /\ LateReader /\ PreflightSeenStale /\ [PreflightNext]_preflightVars
    => LateReader' /\ PreflightSeenStale'
<1> SUFFICES ASSUME PreflightLockInv, LateReader, PreflightSeenStale, [PreflightNext]_preflightVars
             PROVE  LateReader' /\ PreflightSeenStale'
  OBVIOUS
<1> USE DEF PreflightLockInv, PreflightTypeOK, FileTypeOK, PreflightPlaced, PreflightHeld,
     ShortLockExcludes, LateReader, PreflightSeenStale, Abandoned, Go, Quiet, history
<1>1. ASSUME NEW w \in Callers, PreflightStep(w) PROVE LateReader' /\ PreflightSeenStale'
  <2>1. CASE StaleLook(w)
    BY <2>1 DEF StaleLook
  <2>2. CASE StaleDelete(w)
    BY <2>2 DEF StaleDelete, Remove
  <2>3. CASE Enter(w)
    BY <2>3 DEF Enter, Acquire
  <2>4. CASE TimeOutReading(w)
    BY <2>4 DEF TimeOutReading, Stuck
  <2>5. CASE Live(w)
    BY <2>5 DEF Live
  <2>6. CASE LookHit(w, Found(w)) /\ UNCHANGED <<aged, history>>
    BY <2>6 DEF LookHit, Found
  <2>7. CASE LookMiss(w, Missed(w)) /\ UNCHANGED <<aged, history>>
    BY <2>7, MissedPlaces DEF LookMiss, NoEntry
  <2>8. CASE Unusable(w) /\ UNCHANGED <<aged, removed>>
    <3>1. entry.fresh \in BOOLEAN
      BY FreshIsBoolean
    <3> QED BY <2>8, <3>1 DEF Unusable, LookUnusable
  <2>9. CASE Drop(w, Missed(w)) /\ UNCHANGED <<aged, history>>
    BY <2>9, MissedPlaces DEF Drop, NoEntry
  <2>10. CASE Publish(w) /\ UNCHANGED <<aged, history>>
    BY <2>10 DEF Publish
  <2>11. CASE PublishFails(w) /\ UNCHANGED <<aged, history>>
    BY <2>11 DEF PublishFails
  <2>12. CASE LeaveShortLock(w) /\ UNCHANGED <<aged, history>>
    BY <2>12 DEF LeaveShortLock, Release
  <2> QED BY <1>1, <2>1, <2>2, <2>3, <2>4, <2>5, <2>6, <2>7, <2>8, <2>9, <2>10, <2>11, <2>12
       DEF PreflightStep, File
<1>2. ASSUME NEW w \in Callers, Crash(w), UNCHANGED <<aged, history>>
      PROVE  LateReader' /\ PreflightSeenStale'
  BY <1>2 DEF Crash
<1>3. CASE Expire /\ UNCHANGED <<aged, history>>
  <2>1. ~entry'.fresh
    BY <1>3 DEF Expire, Entries, NoEntry
  <2> QED BY <1>3, <2>1 DEF Expire
<1>4. CASE Cleanup \/ Age
  BY <1>4 DEF Cleanup, Age, Remove
<1>5. CASE UNCHANGED preflightVars
  BY <1>5 DEF preflightVars
<1> QED BY <1>1, <1>2, <1>3, <1>4, <1>5 DEF PreflightNext

\* An entry within its TTL is left alone by every caller until a held lock is
\* removed, a deadline passes beside a holder at work or a read fails.
THEOREM PreflightFreshEntryStays == PreflightSpec => FreshPreflightStays
<1> DEFINE Keep == Quiet /\ entry.fresh
                     => entry' = entry \/ entry' = [entry EXCEPT !.fresh = FALSE]
<1>1. PreflightInit => LateReader /\ PreflightSeenStale
  BY DEF PreflightInit, LateReader, PreflightSeenStale
<1>2. PreflightSeenStale /\ [PreflightNext]_preflightVars => [Keep]_preflightVars
  <2> SUFFICES ASSUME PreflightSeenStale, PreflightNext, Quiet, entry.fresh
               PROVE entry' = entry \/ entry' = [entry EXCEPT !.fresh = FALSE]
    BY DEF preflightVars
  <2>1. ASSUME NEW w \in Callers, PreflightStep(w) PROVE entry' = entry
    <3>1. pc[w] \notin {"drop", "publish"}
      BY DEF PreflightSeenStale
    <3> QED BY <2>1, <3>1 DEF PreflightStep, File, StaleLook, StaleDelete, Enter, Acquire,
         TimeOutReading, Live, LookHit, LookMiss, LookUnusable, Unusable, Drop, Publish,
         PublishFails, LeaveShortLock, Release
  <2> QED BY <2>1 DEF PreflightNext, Crash, Expire, Cleanup, Age
<1>3. PreflightLockInv /\ LateReader /\ PreflightSeenStale /\ [PreflightNext]_preflightVars
        => LateReader' /\ PreflightSeenStale'
  BY StaleInvStep
<1>4. PreflightSpec => []PreflightLockInv
  BY PreflightLockInvariant
<1>5. PreflightSpec => [][Keep]_preflightVars
  BY <1>1, <1>2, <1>3, <1>4, PTL DEF PreflightSpec
<1> QED BY <1>5 DEF FreshPreflightStays, Quiet
=============================================================================
