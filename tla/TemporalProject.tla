-------------------------- MODULE TemporalProject --------------------------
(***************************************************************************)
(* A temporal project: an AOI observed at a chronological list of Wayback  *)
(* releases, its milestones.  A run detects what was built between each    *)
(* milestone and the one before it, keeps the milestones whose pair is     *)
(* unchanged, and saves the project after every pair.  Users import manual *)
(* overrides and edit the list of milestones.  Every party loads the whole *)
(* project, works on its copy and writes the whole project back; only the  *)
(* additions of a milestone live in a file of their own                    *)
(* (src/services/temporal_projects.py).                                    *)
(***************************************************************************)
EXTENDS FiniteSets, FiniteSetsExt, Integers

CONSTANTS
  Releases,   \* release dates, as numbers
  Cells,      \* places of the AOI where a building may stand
  Listed,     \* the milestones of the new project
  Faults,     \* what may happen beside plain runs, a subset of FaultKinds
  MaxRuns,    \* bound: runs started
  MaxEdits,   \* bound: edits begun
  None, NoDraft

FaultKinds == {"pair_failure", "interrupt", "cleanup", "overlap"}
NoPair == -1

ASSUME ReleasesAssumption == IsFiniteSet(Releases) /\ Releases \subseteq Nat
ASSUME ListedAssumption == Listed \subseteq Releases /\ Listed # {}
ASSUME CellsAssumption == \A cells \in SUBSET Cells : cells # None
ASSUME FaultsAssumption == Faults \subseteq FaultKinds
ASSUME BoundsAssumption == MaxRuns \in Nat /\ MaxEdits \in Nat

Pairs == {p \in Releases \X Releases : p[1] < p[2]}

\* from: the earlier release of the pair in pair_request_hash.
\* candidate, cumulative, override: automated_candidate_footprint,
\* cumulative_union and manual_override; missing and empty are the same to the
\* code.  grew: metrics.additions_feature_count > 0.
Milestone == [status     : {"pending", "validated", "complete", "error"},
              from       : Releases \cup {NoPair},
              candidate  : SUBSET Cells,
              cumulative : SUBSET Cells,
              override   : SUBSET Cells,
              grew       : BOOLEAN]

NewMilestone == [status |-> "pending", from |-> NoPair, candidate |-> {},
                 cumulative |-> {}, override |-> {}, grew |-> FALSE]

\* The result of a pair.
Paired(m) == m.status = "complete" /\ m.from # NoPair

IsProject(p) == DOMAIN p \subseteq Releases /\ \A r \in DOMAIN p : p[r] \in Milestone

VARIABLES
  stored,     \* project.json
  additions,  \* the additions.geojson of each milestone
  cache,      \* the cached response of each pair: what it found
  run,        \* the run in progress
  draft,      \* the project as loaded by the edit in progress
  runs, edits,
  disturbed   \* was a run interrupted or overlapped, or an unpaired milestone removed

vars == <<stored, additions, cache, run, draft, runs, edits, disturbed>>

NoRun == [at |-> "idle", project |-> << >>, added |-> << >>, milestone |-> NoPair,
          source |-> NoPair, built |-> {}]

\* project: the run's copy.  added: the additions in memory, None once saved.
\* milestone: the one being processed.  source, built: the release and the
\* cumulative footprint of the last successful milestone.
RunOK ==
  /\ run.at \in {"idle", "pair", "files", "json", "finish"}
  /\ IsProject(run.project)
  /\ DOMAIN run.added = DOMAIN run.project
  /\ \A r \in DOMAIN run.added : run.added[r] \in {None} \cup SUBSET Cells
  /\ run.milestone \in Releases \cup {NoPair}
  /\ run.source \in Releases \cup {NoPair}
  /\ run.built \in SUBSET Cells

Baseline(p) == Min(DOMAIN p)
Later(p, r) == {q \in DOMAIN p : q > r}
Previous(p, r) == Max({q \in DOMAIN p : q < r})

Init ==
  /\ stored = [r \in Listed |-> NewMilestone]
  /\ additions = [r \in Releases |-> {}]
  /\ cache = [q \in Pairs |-> None]
  /\ run = NoRun /\ draft = NoDraft
  /\ runs = 0 /\ edits = 0 /\ disturbed = FALSE

-----------------------------------------------------------------------------
(* The outputs of a milestone, given the footprint before it *)

\* A manual override replaces the automated candidate.
Claim(m) == IF m.override # {} THEN m.override ELSE m.candidate

\* A milestone that never ran and has no override stays as it is.
Skipped(m) == m.status = "pending" /\ Claim(m) = {}

\* Mutant: a status the other readers do not know.
RecomputedDone(m, before) ==
  IF Skipped(m) THEN [m EXCEPT !.cumulative = {}]
  ELSE [m EXCEPT !.cumulative = before \cup Claim(m), !.status = "completed"]

Recomputed(m, before) ==
  IF Skipped(m) THEN [m EXCEPT !.cumulative = {}]
  ELSE [m EXCEPT !.cumulative = before \cup Claim(m),
                 !.status     = IF @ = "error" THEN "error" ELSE "complete"]

Gained(m, before) == IF Skipped(m) THEN None ELSE Claim(m) \ before

ClaimedBefore(p, r) == UNION {Claim(p[q]) : q \in {q \in DOMAIN p : q < r}}

RecomputedAll(p) == [r \in DOMAIN p |-> Recomputed(p[r], ClaimedBefore(p, r))]

(* Saving a project whose additions in memory are added: they go to their    *)
(* files, the others are read from there.                                    *)
FilesAfter(added) ==
  [r \in Releases |-> IF r \in DOMAIN added /\ added[r] # None THEN added[r] ELSE additions[r]]

Counted(p, files) == [r \in DOMAIN p |-> [p[r] EXCEPT !.grew = files[r] # {}]]

-----------------------------------------------------------------------------
(* run_temporal_project *)

\* Mutant: the pair's hash is not compared.
ReusableAnyPair(p, r) ==
  /\ p[r].status = "complete"
  /\ cache[<<Previous(p, r), r>>] # None \/ p[r].grew

\* A complete milestone is kept when its pair is the one it would be asked for
\* now, and the response or a file with additions is still there.
Reusable(p, r) ==
  LET q == Previous(p, r)
  IN  /\ p[r].status = "complete" /\ p[r].from = q
      /\ cache[<<q, r>>] # None \/ p[r].grew

\* validate_temporal_project, then the baseline's outputs.
Validated(p) ==
  [r \in DOMAIN p |->
     IF r = Baseline(p)
     THEN Recomputed([p[r] EXCEPT !.status = IF @ = "error" THEN "error" ELSE "validated",
                                  !.from = NoPair, !.candidate = {}], {})
     ELSE [p[r] EXCEPT !.status = IF Reusable(p, r) THEN "complete" ELSE "validated"]]

Dirty(p) == {r \in Later(p, Baseline(p)) : ~Reusable(p, r)}

\* Mutant: complete milestones after the first dirty one are kept.
AdvanceToDirty(state, r) ==
  LET later == Later(state.project, r) \cap Dirty(state.project)
  IN  IF later = {} THEN [state EXCEPT !.at = "finish", !.milestone = NoPair]
                    ELSE [state EXCEPT !.at = "pair", !.milestone = Min(later)]

\* The milestone after r, or the end of the run.
Advance(state, r) ==
  LET later == Later(state.project, r)
  IN  IF later = {} THEN [state EXCEPT !.at = "finish", !.milestone = NoPair]
                    ELSE [state EXCEPT !.at = "pair", !.milestone = Min(later)]

\* The baseline and every milestone before the first dirty one are kept.
Planned(p, added) ==
  LET dirty == Dirty(p)
      state == [at |-> "finish", project |-> p, added |-> added, milestone |-> NoPair,
                source |-> NoPair, built |-> {}]
  IN  IF dirty = {} THEN state
      ELSE LET last == Previous(p, Min(dirty))
           IN  Advance([state EXCEPT !.source = last, !.built = p[last].cumulative], last)

StartRun ==
  /\ run.at = "idle" /\ runs < MaxRuns
  /\ draft = NoDraft \/ "overlap" \in Faults
  /\ LET p == Validated(stored)
         base == Baseline(p)
     IN  run' = Planned(p, [r \in DOMAIN p |-> IF r = base THEN p[base].override
                                                           ELSE additions[r]])
  /\ runs' = runs + 1
  /\ disturbed' = (disturbed \/ draft # NoDraft)
  /\ UNCHANGED <<stored, additions, cache, draft, edits>>

\* _apply_pair_response_to_milestone and the recomputation of the milestone, on
\* top of what the milestone just before it in the list has.
Applied(found) ==
  LET p == run.project
      r == run.milestone
      before == p[Previous(p, r)].cumulative
      m == [p[r] EXCEPT !.from = run.source, !.candidate = run.built \cup found]
  IN  [run EXCEPT !.at = "files", !.project[r] = Recomputed(m, before),
                  !.added[r] = Gained(m, before)]

\* The cached response of the pair, or a detection, which does not report again
\* what was built before and leaves its response in the cache.
PairSucceeds ==
  /\ run.at = "pair"
  /\ LET pair == <<run.source, run.milestone>>
     IN  \E found \in SUBSET Cells :
           /\ IF cache[pair] # None THEN found = cache[pair] ELSE found \cap run.built = {}
           /\ run' = Applied(found)
           /\ cache' = [cache EXCEPT ![pair] = found]
  /\ UNCHANGED <<stored, additions, draft, runs, edits, disturbed>>

\* Nothing is saved, and the outputs of an earlier run stay in the milestone.
PairFails ==
  /\ run.at = "pair" /\ "pair_failure" \in Faults
  /\ cache[<<run.source, run.milestone>>] = None
  /\ run' = Advance([run EXCEPT !.project[run.milestone].status = "error"], run.milestone)
  /\ UNCHANGED <<stored, additions, cache, draft, runs, edits, disturbed>>

\* _refresh_project_bundle
SaveFiles ==
  /\ run.at = "files"
  /\ additions' = FilesAfter(run.added)
  /\ run' = [run EXCEPT !.at = "json", !.added = [r \in DOMAIN @ |-> None]]
  /\ UNCHANGED <<stored, cache, draft, runs, edits, disturbed>>

\* _save_project, which reads the additions back, then the cleanup of the
\* published request, which may delete its response.
SaveProject ==
  /\ run.at = "json"
  /\ stored' = Counted(run.project, additions)
  /\ LET r == run.milestone
     IN  /\ run' = Advance([run EXCEPT !.project = stored', !.source = r,
                                      !.built = run.project[r].cumulative], r)
         /\ \/ UNCHANGED cache
            \/ "cleanup" \in Faults /\ cache' = [cache EXCEPT ![<<run.source, r>>] = None]
  /\ UNCHANGED <<additions, draft, runs, edits, disturbed>>

\* The last save: the run reports success, whatever failed.  If it had pairs to
\* run, the requests of all complete milestones are cleaned up once more.
FinishRun ==
  /\ run.at = "finish"
  /\ additions' = FilesAfter(run.added)
  /\ stored' = Counted(run.project, additions')
  /\ run' = NoRun
  /\ \/ UNCHANGED cache
     \/ /\ "cleanup" \in Faults /\ run.source # NoPair
        /\ \E cleaned \in SUBSET {r \in DOMAIN stored' : stored'[r].status = "complete"} :
             cache' = [q \in Pairs |-> IF q[2] \in cleaned /\ q[1] = stored'[q[2]].from
                                      THEN None ELSE cache[q]]
  /\ UNCHANGED <<draft, runs, edits, disturbed>>

\* The job is cancelled, an exception leaves the run, or its process dies: what
\* was not saved is gone.
Interrupt ==
  /\ run.at # "idle" /\ "interrupt" \in Faults
  /\ run' = NoRun
  /\ disturbed' = TRUE
  /\ UNCHANGED <<stored, additions, cache, draft, runs, edits>>

-----------------------------------------------------------------------------
(* The editor *)

LoadForEdit ==
  /\ draft = NoDraft /\ edits < MaxEdits
  /\ run.at = "idle" \/ "overlap" \in Faults
  /\ draft' = stored
  /\ edits' = edits + 1
  /\ disturbed' = (disturbed \/ run.at # "idle")
  /\ UNCHANGED <<stored, additions, cache, run, runs>>

\* It has failed, or its outputs come from an import alone.
Unpaired(m) == m.status # "pending" /\ ~Paired(m)

SaveEdited(p, added) ==
  /\ additions' = FilesAfter(added)
  /\ stored' = Counted(p, additions')
  /\ draft' = NoDraft
  /\ disturbed' = (disturbed \/ run.at # "idle"
                   \/ \E r \in DOMAIN draft \ DOMAIN p : Unpaired(draft[r]))
  /\ UNCHANGED <<cache, run, runs, edits>>

\* import_temporal_override: all outputs are recomputed.
ImportOverride(r, cells) ==
  /\ draft # NoDraft /\ r \in DOMAIN draft
  /\ LET p == [draft EXCEPT ![r].override = cells]
     IN  SaveEdited(RecomputedAll(p),
                    [q \in DOMAIN p |-> Gained(p[q], ClaimedBefore(p, q))])

\* save_temporal_project, as the client calls it: its copy with a milestone more
\* or less, outputs untouched.
AddMilestone(r) ==
  /\ draft # NoDraft /\ r \notin DOMAIN draft /\ r > Baseline(draft)
  /\ SaveEdited([q \in DOMAIN draft \cup {r} |-> IF q = r THEN NewMilestone ELSE draft[q]],
                << >>)

RemoveMilestone(r) ==
  /\ draft # NoDraft /\ r \in DOMAIN draft /\ r # Baseline(draft)
  /\ SaveEdited([q \in DOMAIN draft \ {r} |-> draft[q]], << >>)

ImportSome == \E r \in Releases, cells \in SUBSET Cells \ {{}} : ImportOverride(r, cells)

Edit == LoadForEdit \/ ImportSome \/ \E r \in Releases : AddMilestone(r) \/ RemoveMilestone(r)

Next ==
  \/ StartRun \/ PairSucceeds \/ PairFails \/ SaveFiles \/ SaveProject \/ FinishRun
  \/ Interrupt \/ Edit

Spec == Init /\ [][Next]_vars

-----------------------------------------------------------------------------
TypeOK ==
  /\ IsProject(stored) /\ DOMAIN stored # {}
  /\ additions \in [Releases -> SUBSET Cells]
  /\ cache \in [Pairs -> {None} \cup SUBSET Cells]
  /\ RunOK
  /\ draft = NoDraft \/ IsProject(draft)
  /\ runs \in 0..MaxRuns /\ edits \in 0..MaxEdits
  /\ disturbed \in BOOLEAN

AfterBaseline(p) == Later(p, Baseline(p))

\* When a run ends, every milestone after the baseline has failed or is the
\* result of the pair that starts at the last milestone that did not: no pair is
\* left over from an earlier list, and none starts at a milestone that failed.
\* This survives interrupted runs, lost responses and edits at any time.
LastComplete(p, r) == Max({q \in DOMAIN p : q < r /\ (p[q].status = "complete" \/ q = Baseline(p))})

RunLeavesChain ==
  [][FinishRun =>
       \A r \in AfterBaseline(stored') :
         \/ stored'[r].status = "error"
         \/ stored'[r].status = "complete" /\ stored'[r].from = LastComplete(stored', r)]_vars

\* When runs are neither interrupted nor overlapped by edits, and milestones that
\* have failed or know an import only stay in the list, a finished run leaves each
\* complete milestone with the footprint of the milestone before it and its own
\* additions, although some milestones were recomputed and others kept.
GrowthAddsUp ==
  [][FinishRun /\ ~disturbed =>
       \A r \in AfterBaseline(stored') :
         LET before == stored'[Previous(stored', r)].cumulative
         IN  stored'[r].status = "complete" =>
               /\ before \subseteq stored'[r].cumulative
               /\ additions'[r] = stored'[r].cumulative \ before]_vars

\* Only an import changes the override of a milestone that stays in the list.
OverridesSurvive ==
  [][\A r \in DOMAIN stored \cap DOMAIN stored' :
       stored'[r].override # stored[r].override => ImportSome]_vars
=============================================================================
