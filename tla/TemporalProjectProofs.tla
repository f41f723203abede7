----------------------- MODULE TemporalProjectProofs -----------------------
(***************************************************************************)
(* While edits and runs do not overlap, a run writes back the overrides it *)
(* has read: only an import changes one.  The invariant relates the copies *)
(* that a run and an edit work on to the project on disk.                  *)
(***************************************************************************)
EXTENDS TemporalProject, FiniteSetTheorems, WellFoundedInduction, TLAPS

RunFields == {"at", "project", "added", "milestone", "source", "built"}

Shaped(p) == \A r \in DOMAIN p : "override" \in DOMAIN p[r]

SameOverrides(p, q) ==
  /\ DOMAIN p = DOMAIN q
  /\ \A r \in DOMAIN q : p[r].override = q[r].override

CopiesInv ==
  /\ Shaped(stored)
  /\ DOMAIN run = RunFields
  /\ draft = NoDraft \/ (draft = stored /\ run.at = "idle")
  /\ run.at # "idle" => Shaped(run.project) /\ SameOverrides(run.project, stored)

-----------------------------------------------------------------------------
(* Recomputing the outputs of a milestone leaves its override alone. *)
LEMMA RecomputedOverride ==
  ASSUME NEW m, NEW before, "override" \in DOMAIN m
  PROVE  /\ Recomputed(m, before).override = m.override
         /\ "override" \in DOMAIN Recomputed(m, before)
  BY DEF Recomputed

(* So does counting the additions of a project. *)
LEMMA CountedOverrides ==
  ASSUME NEW p, NEW files, Shaped(p)
  PROVE  SameOverrides(Counted(p, files), p) /\ Shaped(Counted(p, files))
  BY DEF Counted, SameOverrides, Shaped

(* Validation and the baseline's recomputation keep every override. *)
LEMMA ValidatedOverrides ==
  ASSUME NEW p, Shaped(p)
  PROVE  SameOverrides(Validated(p), p) /\ Shaped(Validated(p))
<1> DEFINE Base(r) == [p[r] EXCEPT !.status = IF @ = "error" THEN "error" ELSE "validated",
                                   !.from = NoPair, !.candidate = {}]
<1> DEFINE Other(r) == [p[r] EXCEPT !.status = IF Reusable(p, r) THEN "complete"
                                                                 ELSE "validated"]
<1>1. \A r \in DOMAIN p : Base(r).override = p[r].override /\ "override" \in DOMAIN Base(r)
  BY DEF Shaped
<1>2. \A r \in DOMAIN p : Other(r).override = p[r].override /\ "override" \in DOMAIN Other(r)
  BY DEF Shaped
<1>4. Validated(p) = [r \in DOMAIN p |-> IF r = Baseline(p) THEN Recomputed(Base(r), {})
                                                            ELSE Other(r)]
  BY DEF Validated
<1>. HIDE DEF Base, Other
<1>3. \A r \in DOMAIN p : /\ Recomputed(Base(r), {}).override = p[r].override
                          /\ "override" \in DOMAIN Recomputed(Base(r), {})
  BY <1>1, RecomputedOverride
<1>. QED
  BY <1>2, <1>3, <1>4 DEF SameOverrides, Shaped

(* Moving on to another milestone leaves the run's copy alone. *)
LEMMA AdvanceProject ==
  ASSUME NEW state, DOMAIN state = RunFields, NEW r
  PROVE  /\ Advance(state, r).project = state.project
         /\ DOMAIN Advance(state, r) = RunFields
  BY DEF Advance, RunFields

LEMMA PlannedProject ==
  ASSUME NEW p, NEW added
  PROVE  Planned(p, added).project = p /\ DOMAIN Planned(p, added) = RunFields
<1> DEFINE state == [at |-> "finish", project |-> p, added |-> added, milestone |-> NoPair,
                     source |-> NoPair, built |-> {}]
<1> DEFINE last == Previous(p, Min(Dirty(p)))
<1> DEFINE from == [state EXCEPT !.source = last, !.built = p[last].cumulative]
<1>1. state.project = p /\ DOMAIN state = RunFields
  BY DEF RunFields
<1>2. from.project = p /\ DOMAIN from = RunFields
  BY DEF RunFields
<1>3. Planned(p, added) = IF Dirty(p) = {} THEN state ELSE Advance(from, last)
  BY DEF Planned
<1>. HIDE DEF state, from, last
<1>4. Advance(from, last).project = p /\ DOMAIN Advance(from, last) = RunFields
  BY <1>2, AdvanceProject
<1>. QED
  BY <1>1, <1>3, <1>4

(* A pair's response changes the milestone's pair and candidate only, so the *)
(* run's copy keeps its overrides.                                           *)
LEMMA AppliedProject ==
  ASSUME NEW found, DOMAIN run = RunFields, Shaped(run.project)
  PROVE  /\ SameOverrides(Applied(found).project, run.project)
         /\ Shaped(Applied(found).project)
         /\ DOMAIN Applied(found) = RunFields
<1> DEFINE r == run.milestone
<1> DEFINE m == [run.project[r] EXCEPT !.from = run.source,
                                       !.candidate = run.built \cup found]
<1> DEFINE before == run.project[Previous(run.project, r)].cumulative
<1> DEFINE new == Recomputed(m, before)
<1>1. r \in DOMAIN run.project => m.override = run.project[r].override /\ "override" \in DOMAIN m
  BY DEF Shaped
<1>2. Applied(found) = [run EXCEPT !.at = "files", !.project[r] = new,
                                   !.added[r] = Gained(m, before)]
  BY DEF Applied
<1>. HIDE DEF m, before
<1>3. r \in DOMAIN run.project => new.override = run.project[r].override /\ "override" \in DOMAIN new
  BY <1>1, RecomputedOverride
<1>. HIDE DEF new, r
<1>4. Applied(found).project = [run.project EXCEPT ![r] = new] /\ DOMAIN Applied(found) = RunFields
  BY <1>2 DEF RunFields
<1>. QED
  BY <1>3, <1>4 DEF SameOverrides, Shaped

-----------------------------------------------------------------------------
LEMMA CopiesInit == Init => CopiesInv
  BY DEF Init, CopiesInv, Shaped, NewMilestone, NoRun, RunFields

(* The new list of a client: the milestones it keeps have their overrides.   *)
LEMMA SavedDraft ==
  ASSUME CopiesInv, "overlap" \notin Faults, NEW p, NEW added,
         draft # NoDraft, SaveEdited(p, added), Shaped(p)
  PROVE  CopiesInv' /\ SameOverrides(stored', p)
<1>1. SameOverrides(stored', p) /\ Shaped(stored')
  BY CountedOverrides DEF SaveEdited
<1>. QED
  BY <1>1 DEF CopiesInv, SaveEdited

LEMMA CopiesStep ==
  ASSUME CopiesInv, "overlap" \notin Faults, [Next]_vars
  PROVE  /\ CopiesInv'
         /\ \A q \in DOMAIN stored \cap DOMAIN stored' :
              stored'[q].override # stored[q].override => ImportSome
<1> USE DEF CopiesInv
<1>1. CASE StartRun
  <2> DEFINE p == Validated(stored)
  <2> DEFINE added == [r \in DOMAIN p |-> IF r = Baseline(p) THEN p[Baseline(p)].override
                                                           ELSE additions[r]]
  <2>1. run' = Planned(p, added) /\ stored' = stored /\ draft' = draft /\ draft = NoDraft
    BY <1>1 DEF StartRun
  <2>2. SameOverrides(p, stored) /\ Shaped(p)
    BY ValidatedOverrides
  <2>. HIDE DEF p, added
  <2>3. run'.project = p /\ DOMAIN run' = RunFields
    BY <2>1, PlannedProject
  <2>. QED
    BY <2>1, <2>2, <2>3
<1>2. CASE PairSucceeds
  <2>1. stored' = stored /\ draft' = draft /\ run.at = "pair" /\ draft = NoDraft
    BY <1>2 DEF PairSucceeds
  <2>2. PICK found : run' = Applied(found)
    BY <1>2 DEF PairSucceeds
  <2>3. /\ SameOverrides(run'.project, run.project)
        /\ Shaped(run'.project)
        /\ DOMAIN run' = RunFields
    BY <2>1, <2>2, AppliedProject
  <2>. QED
    BY <2>1, <2>3 DEF SameOverrides
<1>3. CASE PairFails
  <2> DEFINE state == [run EXCEPT !.project[run.milestone].status = "error"]
  <2>1. stored' = stored /\ draft' = draft /\ run.at = "pair" /\ draft = NoDraft
        /\ run' = Advance(state, run.milestone)
    BY <1>3 DEF PairFails
  <2>2. DOMAIN state = RunFields /\ Shaped(state.project)
        /\ SameOverrides(state.project, run.project)
    BY <2>1 DEF RunFields, Shaped, SameOverrides
  <2>. HIDE DEF state
  <2>3. run'.project = state.project /\ DOMAIN run' = RunFields
    BY <2>1, <2>2, AdvanceProject
  <2>. QED
    BY <2>1, <2>2, <2>3 DEF SameOverrides
<1>4. CASE SaveFiles
  <2>1. stored' = stored /\ draft' = draft /\ run.at = "files" /\ draft = NoDraft
    BY <1>4 DEF SaveFiles
  <2>2. run'.project = run.project /\ DOMAIN run' = RunFields
    BY <1>4 DEF SaveFiles, RunFields
  <2>. QED
    BY <2>1, <2>2 DEF SameOverrides
<1>5. CASE SaveProject
  <2> DEFINE r == run.milestone
  <2> DEFINE saved == Counted(run.project, additions)
  <2> DEFINE state == [run EXCEPT !.project = saved, !.source = r,
                                  !.built = run.project[r].cumulative]
  <2>1. stored' = saved /\ draft' = draft /\ run.at = "json" /\ draft = NoDraft
        /\ run' = Advance(state, r)
    BY <1>5 DEF SaveProject
  <2>2. SameOverrides(saved, run.project) /\ Shaped(saved)
    BY <2>1, CountedOverrides
  <2>. HIDE DEF saved
  <2>3. DOMAIN state = RunFields /\ state.project = saved
    BY DEF RunFields
  <2>. HIDE DEF state, r
  <2>4. run'.project = saved /\ DOMAIN run' = RunFields
    BY <2>1, <2>3, AdvanceProject
  <2>. QED
    BY <2>1, <2>2, <2>4 DEF SameOverrides
<1>6. CASE FinishRun
  <2>1. run.at = "finish" /\ stored' = Counted(run.project, additions') /\ run' = NoRun
        /\ draft' = draft /\ draft = NoDraft
    BY <1>6 DEF FinishRun
  <2>2. SameOverrides(stored', run.project) /\ Shaped(stored')
    BY <2>1, CountedOverrides
  <2>3. SameOverrides(run.project, stored)
    BY <2>1
  <2>. QED
    BY <2>1, <2>2, <2>3 DEF SameOverrides, NoRun, RunFields
<1>7. CASE Interrupt
  BY <1>7 DEF Interrupt, NoRun, RunFields
<1>8. CASE LoadForEdit
  BY <1>8 DEF LoadForEdit
<1>9. CASE ImportSome
  <2>1. PICK r, cells : ImportOverride(r, cells)
    BY <1>9 DEF ImportSome
  <2> DEFINE p == [draft EXCEPT ![r].override = cells]
  <2>2. Shaped(p) /\ draft # NoDraft
    BY <2>1 DEF ImportOverride, Shaped
  <2>3. SaveEdited(RecomputedAll(p), [q \in DOMAIN p |-> Gained(p[q], ClaimedBefore(p, q))])
    BY <2>1 DEF ImportOverride
  <2>. HIDE DEF p
  <2>4. Shaped(RecomputedAll(p))
    BY <2>2, RecomputedOverride DEF RecomputedAll, Shaped
  <2>. QED
    BY <1>9, <2>2, <2>3, <2>4, SavedDraft
<1>10. ASSUME NEW r, AddMilestone(r)
       PROVE  /\ CopiesInv'
              /\ \A q \in DOMAIN stored \cap DOMAIN stored' :
                   stored'[q].override = stored[q].override
  <2> DEFINE p == [q \in DOMAIN draft \cup {r} |-> IF q = r THEN NewMilestone ELSE draft[q]]
  <2>1. SaveEdited(p, << >>) /\ draft # NoDraft /\ r \notin DOMAIN draft /\ draft = stored
    BY <1>10 DEF AddMilestone
  <2>2. Shaped(p)
    BY <2>1 DEF Shaped, NewMilestone
  <2>3. \A q \in DOMAIN stored : q \in DOMAIN p /\ p[q] = stored[q]
    BY <2>1
  <2>. HIDE DEF p
  <2>4. CopiesInv' /\ SameOverrides(stored', p)
    BY <2>1, <2>2, SavedDraft
  <2>. QED
    BY <2>3, <2>4 DEF SameOverrides
<1>11. ASSUME NEW r, RemoveMilestone(r)
       PROVE  /\ CopiesInv'
              /\ \A q \in DOMAIN stored \cap DOMAIN stored' :
                   stored'[q].override = stored[q].override
  <2> DEFINE p == [q \in DOMAIN draft \ {r} |-> draft[q]]
  <2>1. SaveEdited(p, << >>) /\ draft # NoDraft /\ draft = stored
    BY <1>11 DEF RemoveMilestone
  <2>2. Shaped(p)
    BY <2>1 DEF Shaped
  <2>3. \A q \in DOMAIN p : p[q] = stored[q]
    BY <2>1
  <2>. HIDE DEF p
  <2>4. CopiesInv' /\ SameOverrides(stored', p)
    BY <2>1, <2>2, SavedDraft
  <2>. QED
    BY <2>3, <2>4 DEF SameOverrides
<1>12. CASE UNCHANGED vars
  BY <1>12 DEF vars
<1>. QED
  BY <1>1, <1>2, <1>3, <1>4, <1>5, <1>6, <1>7, <1>8, <1>9, <1>10, <1>11, <1>12 DEF Next, Edit

(* While edits and runs of a project do not overlap, no run and no edit of   *)
(* the milestone list changes an override: only an import does.              *)
THEOREM TemporalOverridesSurvive ==
  ASSUME "overlap" \notin Faults
  PROVE  Spec => OverridesSurvive
<1>1. Init => CopiesInv
  BY CopiesInit
<1>2. CopiesInv /\ [Next]_vars => CopiesInv'
  BY CopiesStep
<1>3. CopiesInv /\ [Next]_vars =>
        [\A r \in DOMAIN stored \cap DOMAIN stored' :
           stored'[r].override # stored[r].override => ImportSome]_vars
  BY CopiesStep
<1>. QED
  BY <1>1, <1>2, <1>3, PTL DEF Spec, OverridesSurvive

-----------------------------------------------------------------------------
(* The types of a run's state, and of everything else.                      *)

RunTypes(s) ==
  /\ DOMAIN s = RunFields
  /\ s.at \in {"idle", "pair", "files", "json", "finish"}
  /\ IsProject(s.project)
  /\ DOMAIN s.added = DOMAIN s.project
  /\ \A r \in DOMAIN s.added : s.added[r] \in {None} \cup SUBSET Cells
  /\ s.milestone \in Releases \cup {NoPair} /\ s.source \in Releases \cup {NoPair}
  /\ s.built \in SUBSET Cells
  /\ s.at # "idle" => DOMAIN s.project # {}
  /\ s.at \in {"pair", "files", "json"} => s.milestone \in AfterBaseline(s.project)
  /\ s.at = "json" => \A r \in DOMAIN s.added : s.added[r] = None

TypeInv ==
  /\ IsProject(stored) /\ DOMAIN stored # {}
  /\ additions \in [Releases -> SUBSET Cells]
  /\ cache \in [Pairs -> {None} \cup SUBSET Cells]
  /\ RunTypes(run)
  /\ draft = NoDraft \/ (IsProject(draft) /\ DOMAIN draft # {})
  /\ runs \in 0 .. MaxRuns /\ edits \in 0 .. MaxEdits /\ disturbed \in BOOLEAN

\* Where a run is in the list.  Behind it, the milestones have failed or follow on
\* the last that has not; ahead of it, they are kept or wait for their pair.
Follows(p, r) ==
  p[r].status = "error" \/ (p[r].status = "complete" /\ p[r].from = LastComplete(p, r))

Ahead(p, r) == \A q \in Later(p, r) : p[q].status \in {"complete", "validated"}

Behind(p, r) == \A q \in AfterBaseline(p) : q < r => Follows(p, q)

Chain(s) ==
  /\ s.at = "pair" =>
       /\ Behind(s.project, s.milestone) /\ s.source = LastComplete(s.project, s.milestone)
       /\ Ahead(s.project, s.milestone)
       /\ s.project[s.milestone].status \in {"complete", "validated"}
  /\ s.at \in {"files", "json"} =>
       /\ Behind(s.project, s.milestone) /\ Ahead(s.project, s.milestone)
       /\ s.project[s.milestone].status = "complete" /\ Follows(s.project, s.milestone)
  /\ s.at = "finish" => \A r \in AfterBaseline(s.project) : Follows(s.project, r)

\* The footprints.  A milestone's additions are what it has beyond another.
Adds(p, files, q, r) ==
  /\ p[q].cumulative \subseteq p[r].cumulative
  /\ files[r] = p[r].cumulative \ p[q].cumulative

BaselineIsOverride(p) ==
  LET m == p[Baseline(p)]
  IN  m.from = NoPair /\ m.candidate = {} /\ m.cumulative = m.override

Between(p, q, r) == {x \in DOMAIN p : q < x /\ x < r}

\* A project at rest: the result of a pair still stands for the pair as long as
\* what came between the two later is no result of a pair itself.
AtRest(p, files) ==
  /\ BaselineIsOverride(p)
  /\ \A r \in AfterBaseline(p) :
       /\ p[r].status \in {"pending", "complete", "error"}
       /\ p[r].status = "pending" => p[r].from = NoPair /\ Claim(p[r]) = {}
       /\ LET q == p[r].from
          IN  Paired(p[r]) /\ q \in DOMAIN p /\ (q = Baseline(p) \/ Paired(p[q])) =>
                /\ q < r
                /\ \A x \in Between(p, q, r) : ~Paired(p[x])
                /\ (\A x \in Between(p, q, r) : p[x].status = "pending") => Adds(p, files, q, r)

\* The additions a run would leave if it saved now, over those in the files.
FilesOver(added, files) ==
  [r \in Releases |-> IF r \in DOMAIN added /\ added[r] # None THEN added[r] ELSE files[r]]

\* The milestones behind a run add up.
AddedBehind(s, files, r) ==
  \A q \in AfterBaseline(s.project) :
    q < r /\ s.project[q].status = "complete"
      => Adds(s.project, FilesOver(s.added, files), Previous(s.project, q), q)

Growing ==
  ~disturbed =>
    /\ run.at = "idle" => AtRest(stored, additions)
    /\ draft # NoDraft => draft = stored /\ run.at = "idle"
    /\ run.at # "idle" => BaselineIsOverride(run.project)
    /\ run.at = "pair" => AddedBehind(run, additions, run.milestone)
    /\ run.at \in {"files", "json"} => AddedBehind(run, additions, run.milestone + 1)
    /\ run.at = "finish" => \A r \in AfterBaseline(run.project) : AddedBehind(run, additions, r + 1)

-----------------------------------------------------------------------------
(* The largest and the smallest of a finite set of numbers.                 *)

LEMMA MaxIsLargest ==
  ASSUME NEW S, IsFiniteSet(S), S \subseteq Int, S # {}
  PROVE  Max(S) \in S /\ \A y \in S : y <= Max(S)
<1> DEFINE Above(x) == {y \in S : x < y}
<1> DEFINE T == {Above(x) : x \in S}
<1>1. T \subseteq FiniteSubsetsOf(S) /\ T # {}
  <2>1. T \subseteq SUBSET S /\ T # {}
    OBVIOUS
  <2>2. FiniteSubsetsOf(S) = SUBSET S
    BY FS_FiniteSubsetsOfFinite
  <2>. QED
    BY <2>1, <2>2
<1>2. PICK A \in T : \A B \in T : ~(<<B, A>> \in StrictSubsetOrdering(S))
  <2>. HIDE DEF T
  <2>. QED
    BY <1>1, FS_StrictSubsetOrderingWellFounded, WFMin
<1>3. PICK x \in S : A = Above(x)
  BY <1>2
<1>4. ASSUME NEW y \in S, x < y PROVE FALSE
  <2>1. Above(y) \in T /\ Above(y) \in SUBSET S /\ A \in SUBSET S
    BY <1>3
  <2>2. y \in A /\ y \notin Above(y)
    BY <1>3, <1>4
  <2>3. Above(y) \subseteq A
    <3>1. \A z \in S : y < z => x < z
      BY <1>4
    <3>. QED
      BY <1>3, <3>1
  <2>. QED
    BY <1>2, <2>1, <2>2, <2>3 DEF StrictSubsetOrdering
<1>5. x \in Int /\ \A y \in S : y <= x
  BY <1>4
<1>. QED
  BY <1>5 DEF Max

LEMMA MinIsSmallest ==
  ASSUME NEW S, IsFiniteSet(S), S \subseteq Int, S # {}
  PROVE  Min(S) \in S /\ \A y \in S : Min(S) <= y
<1> DEFINE Below(x) == {y \in S : y < x}
<1> DEFINE T == {Below(x) : x \in S}
<1>1. T \subseteq FiniteSubsetsOf(S) /\ T # {}
  <2>1. T \subseteq SUBSET S /\ T # {}
    OBVIOUS
  <2>2. FiniteSubsetsOf(S) = SUBSET S
    BY FS_FiniteSubsetsOfFinite
  <2>. QED
    BY <2>1, <2>2
<1>2. PICK A \in T : \A B \in T : ~(<<B, A>> \in StrictSubsetOrdering(S))
  <2>. HIDE DEF T
  <2>. QED
    BY <1>1, FS_StrictSubsetOrderingWellFounded, WFMin
<1>3. PICK x \in S : A = Below(x)
  BY <1>2
<1>4. ASSUME NEW y \in S, y < x PROVE FALSE
  <2>1. Below(y) \in T /\ Below(y) \in SUBSET S /\ A \in SUBSET S
    BY <1>3
  <2>2. y \in A /\ y \notin Below(y)
    BY <1>3, <1>4
  <2>3. Below(y) \subseteq A
    <3>1. \A z \in S : z < y => z < x
      BY <1>4
    <3>. QED
      BY <1>3, <3>1
  <2>. QED
    BY <1>2, <2>1, <2>2, <2>3 DEF StrictSubsetOrdering
<1>5. x \in Int /\ \A y \in S : x <= y
  BY <1>4
<1>. QED
  BY <1>5 DEF Min

LEMMA MaxUnique ==
  ASSUME NEW S, S \subseteq Int, NEW x \in S, \A y \in S : y <= x
  PROVE  Max(S) = x
<1>1. \A z \in S : (\A y \in S : z >= y) => z = x
  <2> SUFFICES ASSUME NEW z \in S, z >= x PROVE z = x
    OBVIOUS
  <2>1. z \in Int /\ x \in Int /\ z <= x
    OBVIOUS
  <2>. QED
    BY <2>1
<1>2. \A y \in S : x >= y
  OBVIOUS
<1>. QED
  BY <1>1, <1>2 DEF Max

(* The places in the list of a project. *)
LEMMA Places ==
  ASSUME NEW p, IsProject(p), DOMAIN p # {}
  PROVE  /\ IsFiniteSet(DOMAIN p) /\ DOMAIN p \subseteq Nat
         /\ Baseline(p) \in DOMAIN p /\ \A q \in DOMAIN p : Baseline(p) <= q
         /\ AfterBaseline(p) = DOMAIN p \ {Baseline(p)}
         /\ \A r \in AfterBaseline(p) :
              /\ Previous(p, r) \in DOMAIN p /\ Previous(p, r) < r
              /\ \A q \in DOMAIN p : q < r => q <= Previous(p, r)
              /\ LastComplete(p, r) \in DOMAIN p /\ LastComplete(p, r) < r
              /\ p[LastComplete(p, r)].status = "complete" \/ LastComplete(p, r) = Baseline(p)
              /\ \A q \in DOMAIN p : q < r /\ p[q].status = "complete" => q <= LastComplete(p, r)
<1>1. IsFiniteSet(DOMAIN p) /\ DOMAIN p \subseteq Nat
  BY ReleasesAssumption, FS_Subset DEF IsProject
<1>2. Baseline(p) \in DOMAIN p /\ \A q \in DOMAIN p : Baseline(p) <= q
  BY <1>1, MinIsSmallest DEF Baseline
<1>. DEFINE base == Baseline(p)
<1>3. AfterBaseline(p) = DOMAIN p \ {base} /\ base \in Nat /\ \A r \in AfterBaseline(p) : base < r
  BY <1>1, <1>2 DEF AfterBaseline, Later
<1>4. ASSUME NEW r \in AfterBaseline(p)
      PROVE  /\ Previous(p, r) \in DOMAIN p /\ Previous(p, r) < r
             /\ \A q \in DOMAIN p : q < r => q <= Previous(p, r)
  <2> DEFINE S == {q \in DOMAIN p : q < r}
  <2>1. base \in S /\ S \in SUBSET DOMAIN p /\ S \subseteq Int
    BY <1>1, <1>2, <1>3
  <2>2. IsFiniteSet(S)
    BY <1>1, <2>1, FS_Subset
  <2>3. Max(S) \in S /\ \A q \in S : q <= Max(S)
    BY <2>1, <2>2, MaxIsLargest
  <2>. QED
    BY <2>3 DEF Previous
<1>5. ASSUME NEW r \in AfterBaseline(p)
      PROVE  /\ LastComplete(p, r) \in DOMAIN p /\ LastComplete(p, r) < r
             /\ p[LastComplete(p, r)].status = "complete" \/ LastComplete(p, r) = Baseline(p)
             /\ \A q \in DOMAIN p : q < r /\ p[q].status = "complete" => q <= LastComplete(p, r)
  <2> DEFINE S == {q \in DOMAIN p : q < r /\ (p[q].status = "complete" \/ q = Baseline(p))}
  <2>1. base \in S /\ S \in SUBSET DOMAIN p /\ S \subseteq Int
    BY <1>1, <1>2, <1>3
  <2>2. IsFiniteSet(S)
    BY <1>1, <2>1, FS_Subset
  <2>3. Max(S) \in S /\ \A q \in S : q <= Max(S)
    BY <2>1, <2>2, MaxIsLargest
  <2>. QED
    BY <2>3 DEF LastComplete
<1>. QED
  BY <1>1, <1>2, <1>3, <1>4, <1>5

\* The next milestone after one of the list.
LEMMA NextPlace ==
  ASSUME NEW p, IsProject(p), NEW r \in DOMAIN p, Later(p, r) # {}
  PROVE  /\ Min(Later(p, r)) \in AfterBaseline(p) /\ r < Min(Later(p, r))
         /\ \A q \in DOMAIN p : q < Min(Later(p, r)) => q <= r
<1>1. Later(p, r) \in SUBSET DOMAIN p /\ Later(p, r) \subseteq Int
  BY Places DEF Later
<1>2. IsFiniteSet(Later(p, r))
  BY <1>1, Places, FS_Subset
<1>3. Min(Later(p, r)) \in Later(p, r) /\ \A q \in Later(p, r) : Min(Later(p, r)) <= q
  BY <1>1, <1>2, MinIsSmallest
<1>. DEFINE n == Min(Later(p, r))
<1>4. n \in DOMAIN p /\ r < n /\ n \in Nat /\ r \in Nat /\ Baseline(p) \in Nat /\ Baseline(p) <= r
  BY <1>3, Places DEF Later
<1>5. n # Baseline(p)
  BY <1>4
<1>6. ASSUME NEW q \in DOMAIN p, q < n PROVE q <= r
  <2>1. q \in Nat
    BY Places
  <2>. QED
    BY <1>3, <1>4, <1>6, <2>1 DEF Later
<1>. QED
  BY <1>4, <1>5, <1>6, Places

\* What depends on the list alone.
LEMMA SameList ==
  ASSUME NEW p, NEW w, DOMAIN w = DOMAIN p
  PROVE  /\ Baseline(w) = Baseline(p) /\ AfterBaseline(w) = AfterBaseline(p)
         /\ \A r : Later(w, r) = Later(p, r) /\ Previous(w, r) = Previous(p, r)
  BY DEF Baseline, AfterBaseline, Later, Previous

LEMMA SameLast ==
  ASSUME NEW p, NEW w, DOMAIN w = DOMAIN p, NEW r,
         \A q \in DOMAIN p : q < r => (w[q].status = "complete" <=> p[q].status = "complete")
  PROVE  LastComplete(w, r) = LastComplete(p, r)
<1>1. Baseline(w) = Baseline(p)
  BY SameList
<1>2. {q \in DOMAIN w : q < r /\ (w[q].status = "complete" \/ q = Baseline(w))}
        = {q \in DOMAIN p : q < r /\ (p[q].status = "complete" \/ q = Baseline(p))}
  BY <1>1
<1>. QED
  BY <1>2 DEF LastComplete

\* The last one that is complete, when it is known.
LEMMA LastIs ==
  ASSUME NEW p, IsProject(p), NEW r \in AfterBaseline(p), NEW s \in DOMAIN p, s < r,
         p[s].status = "complete" \/ s = Baseline(p),
         \A q \in DOMAIN p : q < r /\ p[q].status = "complete" => q <= s
  PROVE  LastComplete(p, r) = s
<1> DEFINE S == {q \in DOMAIN p : q < r /\ (p[q].status = "complete" \/ q = Baseline(p))}
<1>1. S \subseteq Int /\ s \in S /\ DOMAIN p # {}
  BY Places
<1>2. \A q \in S : q <= s
  BY <1>1, Places
<1>. HIDE DEF S
<1>3. Max(S) = s
  BY <1>1, <1>2, MaxUnique
<1>. QED
  BY <1>3 DEF LastComplete, S

-----------------------------------------------------------------------------
(* The operators on milestones and projects.                                *)

LEMMA RecomputedParts ==
  ASSUME NEW m \in Milestone, NEW before \in SUBSET Cells
  PROVE  /\ Claim(m) \in SUBSET Cells
         /\ Recomputed(m, before) \in Milestone
         /\ Recomputed(m, before).from = m.from
         /\ Recomputed(m, before).candidate = m.candidate
         /\ Recomputed(m, before).override = m.override
         /\ Recomputed(m, before).cumulative = (IF Skipped(m) THEN {} ELSE before \cup Claim(m))
         /\ Recomputed(m, before).status = (IF Skipped(m) THEN "pending"
                                            ELSE IF m.status = "error" THEN "error" ELSE "complete")
<1>1. Claim(m) \in SUBSET Cells
  BY DEF Claim, Milestone
<1>2. Skipped(m) => m.status = "pending"
  BY DEF Skipped
<1>. HIDE DEF Claim, Skipped
<1>. QED
  BY <1>1, <1>2 DEF Recomputed, Milestone

LEMMA CountedParts ==
  ASSUME NEW p, IsProject(p), NEW files
  PROVE  /\ IsProject(Counted(p, files)) /\ DOMAIN Counted(p, files) = DOMAIN p
         /\ \A r \in DOMAIN p :
              LET m == Counted(p, files)[r]
              IN  /\ m.status = p[r].status /\ m.from = p[r].from /\ m.candidate = p[r].candidate
                  /\ m.cumulative = p[r].cumulative /\ m.override = p[r].override
<1>1. \A r \in DOMAIN p, g \in BOOLEAN : [p[r] EXCEPT !.grew = g] \in Milestone
  BY DEF IsProject, Milestone
<1>2. \A r \in DOMAIN p : Counted(p, files)[r] = [p[r] EXCEPT !.grew = files[r] # {}] /\ p[r] \in Milestone
  BY DEF Counted, IsProject
<1>3. DOMAIN Counted(p, files) = DOMAIN p
  BY DEF Counted
<1>4. IsProject(Counted(p, files))
  <2> SUFFICES ASSUME NEW r \in DOMAIN p PROVE Counted(p, files)[r] \in Milestone
    BY <1>3 DEF IsProject
  <2>1. PICK g \in BOOLEAN : g = (files[r] # {})
    OBVIOUS
  <2>2. Counted(p, files)[r] = [p[r] EXCEPT !.grew = g]
    BY <1>2, <2>1
  <2>. QED
    BY <1>1, <2>2
<1>. QED
  BY <1>2, <1>3, <1>4 DEF Milestone

LEMMA ClaimedCells ==
  ASSUME NEW p, IsProject(p), NEW r
  PROVE  ClaimedBefore(p, r) \in SUBSET Cells
<1>1. \A q \in DOMAIN p : Claim(p[q]) \in SUBSET Cells
  BY DEF Claim, IsProject, Milestone
<1>. QED
  BY <1>1 DEF ClaimedBefore

LEMMA RecomputedAllParts ==
  ASSUME NEW p, IsProject(p)
  PROVE  /\ IsProject(RecomputedAll(p)) /\ DOMAIN RecomputedAll(p) = DOMAIN p
         /\ \A r \in DOMAIN p : /\ ClaimedBefore(p, r) \in SUBSET Cells
                                /\ RecomputedAll(p)[r] = Recomputed(p[r], ClaimedBefore(p, r))
<1>1. \A r \in DOMAIN p : p[r] \in Milestone /\ ClaimedBefore(p, r) \in SUBSET Cells
  BY ClaimedCells DEF IsProject
<1>2. \A r \in DOMAIN p : Recomputed(p[r], ClaimedBefore(p, r)) \in Milestone
  BY <1>1, RecomputedParts
<1>. QED
  BY <1>1, <1>2 DEF RecomputedAll, IsProject

LEMMA ValidatedParts ==
  ASSUME NEW p, IsProject(p), DOMAIN p # {}
  PROVE  /\ IsProject(Validated(p)) /\ DOMAIN Validated(p) = DOMAIN p
         /\ LET b == Baseline(p)
            IN  /\ Validated(p)[b].from = NoPair /\ Validated(p)[b].candidate = {}
                /\ Validated(p)[b].override = p[b].override
                /\ Validated(p)[b].cumulative = p[b].override
         /\ \A r \in AfterBaseline(p) :
              LET m == Validated(p)[r]
              IN  /\ m.from = p[r].from /\ m.candidate = p[r].candidate
                  /\ m.cumulative = p[r].cumulative /\ m.override = p[r].override
                  /\ m.grew = p[r].grew
                  /\ m.status = (IF Reusable(p, r) THEN "complete" ELSE "validated")
<1> DEFINE b == Baseline(p)
<1> DEFINE Base == [p[b] EXCEPT !.status = IF @ = "error" THEN "error" ELSE "validated",
                                !.from = NoPair, !.candidate = {}]
<1> DEFINE Other(r) == [p[r] EXCEPT !.status = IF Reusable(p, r) THEN "complete" ELSE "validated"]
<1>1. b \in DOMAIN p /\ AfterBaseline(p) = DOMAIN p \ {b} /\ \A r \in DOMAIN p : p[r] \in Milestone
  BY Places DEF IsProject
<1>2. /\ Base \in Milestone /\ Base.from = NoPair /\ Base.candidate = {}
      /\ Base.override = p[b].override /\ Base.status \in {"error", "validated"}
  BY <1>1 DEF Milestone
<1>3. ~Skipped(Base) /\ Claim(Base) = p[b].override
  BY <1>2 DEF Skipped, Claim
<1>4. ASSUME NEW r \in DOMAIN p
      PROVE  /\ Other(r) \in Milestone /\ Other(r).from = p[r].from
             /\ Other(r).candidate = p[r].candidate /\ Other(r).cumulative = p[r].cumulative
             /\ Other(r).override = p[r].override /\ Other(r).grew = p[r].grew
             /\ Other(r).status = (IF Reusable(p, r) THEN "complete" ELSE "validated")
  <2>. HIDE DEF b
  <2>1. p[r] \in Milestone
    BY <1>1
  <2>2. PICK v \in {"complete", "validated"} : v = (IF Reusable(p, r) THEN "complete" ELSE "validated")
    OBVIOUS
  <2>3. Other(r) = [p[r] EXCEPT !.status = v]
    BY <2>2
  <2>. QED
    BY <2>1, <2>2, <2>3 DEF Milestone
<1>5. Validated(p) = [r \in DOMAIN p |-> IF r = b THEN Recomputed(Base, {}) ELSE Other(r)]
  BY DEF Validated
<1>. HIDE DEF b, Base, Other
<1>6. /\ Recomputed(Base, {}) \in Milestone
      /\ Recomputed(Base, {}).from = NoPair /\ Recomputed(Base, {}).candidate = {}
      /\ Recomputed(Base, {}).override = p[b].override
      /\ Recomputed(Base, {}).cumulative = p[b].override
  BY <1>2, <1>3, RecomputedParts
<1>7. /\ DOMAIN Validated(p) = DOMAIN p /\ Validated(p)[b] = Recomputed(Base, {})
      /\ \A r \in AfterBaseline(p) : Validated(p)[r] = Other(r)
  BY <1>1, <1>5
<1>8. IsProject(Validated(p))
  BY <1>1, <1>4, <1>6, <1>7 DEF IsProject
<1>. QED
  BY <1>1, <1>4, <1>6, <1>7, <1>8 DEF b

-----------------------------------------------------------------------------
(* Moving on to the next milestone.                                         *)

\* All of a run's state but where it is.
Carried(s) ==
  /\ DOMAIN s = RunFields
  /\ IsProject(s.project) /\ DOMAIN s.project # {}
  /\ DOMAIN s.added = DOMAIN s.project
  /\ \A r \in DOMAIN s.added : s.added[r] \in {None} \cup SUBSET Cells
  /\ s.source \in Releases \cup {NoPair}
  /\ s.built \in SUBSET Cells

LEMMA AdvanceParts ==
  ASSUME NEW state, Carried(state), NEW r \in DOMAIN state.project
  PROVE  LET s == Advance(state, r)
             n == Min(Later(state.project, r))
         IN  /\ DOMAIN s = RunFields
             /\ s.project = state.project /\ s.added = state.added
             /\ s.source = state.source /\ s.built = state.built
             /\ \/ s.at = "finish" /\ s.milestone = NoPair /\ Later(state.project, r) = {}
                \/ s.at = "pair" /\ s.milestone = n /\ Later(state.project, r) # {}
<1> DEFINE later == Later(state.project, r)
<1>1. DOMAIN state = RunFields
  BY DEF Carried
<1>2. later = {} => Advance(state, r) = [state EXCEPT !.at = "finish", !.milestone = NoPair]
  BY DEF Advance
<1>3. later # {} => Advance(state, r) = [state EXCEPT !.at = "pair", !.milestone = Min(later)]
  BY DEF Advance
<1>. HIDE DEF later
<1>4. CASE later = {}
  BY <1>1, <1>2, <1>4 DEF RunFields, later
<1>5. CASE later # {}
  BY <1>1, <1>3, <1>5 DEF RunFields, later
<1>. QED
  BY <1>4, <1>5

LEMMA AdvanceTypes ==
  ASSUME NEW state, Carried(state), NEW r \in DOMAIN state.project
  PROVE  RunTypes(Advance(state, r))
<1> DEFINE s == Advance(state, r)
<1> DEFINE p == state.project
<1>1. IsProject(p) /\ DOMAIN p # {} /\ AfterBaseline(p) \subseteq Releases
  BY Places DEF Carried, IsProject
<1>2. /\ DOMAIN s = RunFields /\ s.project = p /\ s.added = state.added
      /\ s.source = state.source /\ s.built = state.built
      /\ \/ s.at = "finish" /\ s.milestone = NoPair /\ Later(p, r) = {}
         \/ s.at = "pair" /\ s.milestone = Min(Later(p, r)) /\ Later(p, r) # {}
  BY AdvanceParts
<1>3. s.at = "pair" => s.milestone \in AfterBaseline(p)
  BY <1>1, <1>2, NextPlace
<1>. HIDE DEF s, p
<1>. QED
  BY <1>1, <1>2, <1>3 DEF Carried, RunTypes, s, p

\* Behind a milestone all follow on each other: so behind the next.
LEMMA AdvanceChain ==
  ASSUME NEW state, Carried(state), NEW r \in DOMAIN state.project,
         \A q \in AfterBaseline(state.project) : q <= r => Follows(state.project, q),
         Ahead(state.project, r),
         state.source \in DOMAIN state.project, state.source <= r,
         state.project[state.source].status = "complete" \/ state.source = Baseline(state.project),
         \A q \in DOMAIN state.project : q <= r /\ state.project[q].status = "complete" => q <= state.source
  PROVE  Chain(Advance(state, r))
<1> DEFINE s == Advance(state, r)
<1> DEFINE p == state.project
<1> DEFINE n == Min(Later(p, r))
<1>1. IsProject(p) /\ DOMAIN p \subseteq Nat /\ AfterBaseline(p) \subseteq DOMAIN p
  BY Places DEF Carried
<1>2. /\ s.project = p /\ s.source = state.source
      /\ \/ s.at = "finish" /\ s.milestone = NoPair /\ Later(p, r) = {}
         \/ s.at = "pair" /\ s.milestone = n /\ Later(p, r) # {}
  BY AdvanceParts
<1>3. CASE Later(p, r) = {}
  <2>1. \A q \in AfterBaseline(p) : q <= r
    BY <1>1, <1>3 DEF Later
  <2>. QED
    BY <1>2, <1>3, <2>1 DEF Chain
<1>4. CASE Later(p, r) # {}
  <2>1. n \in AfterBaseline(p) /\ r < n /\ \A q \in DOMAIN p : q < n => q <= r
    BY <1>1, <1>4, NextPlace
  <2>2. n \in Later(p, r) /\ Later(p, n) \subseteq Later(p, r)
    <3>1. n \in Nat /\ r \in Nat
      BY <1>1, <2>1
    <3>2. \A q \in DOMAIN p : n < q => r < q
      BY <1>1, <2>1, <3>1
    <3>. QED
      BY <1>1, <2>1, <3>2 DEF Later
  <2>. HIDE DEF n
  <2>3. Behind(p, n) /\ Ahead(p, n) /\ p[n].status \in {"complete", "validated"}
    BY <1>1, <2>1, <2>2 DEF Behind, Ahead
  <2>4. state.source < n
    BY <1>1, <2>1
  <2>5. LastComplete(p, n) = state.source
    <3>1. \A q \in DOMAIN p : q < n /\ p[q].status = "complete" => q <= state.source
      BY <2>1
    <3>. QED
      BY <1>1, <2>1, <2>4, <3>1, LastIs
  <2>. HIDE DEF s, p
  <2>. QED
    BY <1>2, <1>4, <2>3, <2>5 DEF Chain, s
<1>. QED
  BY <1>3, <1>4

LEMMA AdvanceGrowth ==
  ASSUME NEW state, Carried(state), NEW r \in DOMAIN state.project, NEW files,
         AddedBehind(state, files, r + 1)
  PROVE  LET s == Advance(state, r)
         IN  /\ s.at = "pair" => AddedBehind(s, files, s.milestone)
             /\ s.at = "finish" => \A x \in AfterBaseline(s.project) : AddedBehind(s, files, x + 1)
<1> DEFINE s == Advance(state, r)
<1> DEFINE p == state.project
<1> DEFINE n == Min(Later(p, r))
<1>1. IsProject(p) /\ DOMAIN p \subseteq Nat /\ AfterBaseline(p) \subseteq DOMAIN p
  BY Places DEF Carried
<1>2. /\ s.project = p /\ s.added = state.added
      /\ \/ s.at = "finish" /\ s.milestone = NoPair /\ Later(p, r) = {}
         \/ s.at = "pair" /\ s.milestone = n /\ Later(p, r) # {}
  BY AdvanceParts
<1>3. ASSUME NEW q \in AfterBaseline(p), q <= r, p[q].status = "complete"
      PROVE  Adds(p, FilesOver(state.added, files), Previous(p, q), q)
  <2>1. q \in Nat /\ r \in Nat /\ q < r + 1
    BY <1>1, <1>3
  <2>. QED
    BY <1>3, <2>1 DEF AddedBehind
<1>. HIDE DEF s, p, n
<1>4. CASE Later(p, r) = {}
  <2>1. \A q \in AfterBaseline(p) : q <= r
    BY <1>1, <1>4 DEF Later, p
  <2>. QED
    BY <1>2, <1>3, <1>4, <2>1 DEF AddedBehind, s
<1>5. CASE Later(p, r) # {}
  <2>1. \A q \in DOMAIN p : q < n => q <= r
    BY <1>1, <1>5, NextPlace DEF n, p
  <2>. QED
    BY <1>1, <1>2, <1>3, <1>5, <2>1 DEF AddedBehind, s
<1>. QED
  BY <1>4, <1>5

-----------------------------------------------------------------------------
(* The plan of a run.                                                       *)

\* Milestones that are all kept follow on each other.
LEMMA KeptFollow ==
  ASSUME NEW p, IsProject(p), NEW r \in AfterBaseline(p),
         \A q \in AfterBaseline(p) : q <= r => Reusable(p, q)
  PROVE  Follows(p, r)
<1>1. /\ DOMAIN p # {} /\ DOMAIN p \subseteq Nat /\ r \in DOMAIN p
      /\ AfterBaseline(p) = DOMAIN p \ {Baseline(p)}
      /\ Previous(p, r) \in DOMAIN p /\ Previous(p, r) < r
      /\ \A q \in DOMAIN p : q < r => q <= Previous(p, r)
  <2>1. DOMAIN p # {}
    BY DEF AfterBaseline, Later
  <2>. QED
    BY <2>1, Places
<1> DEFINE q == Previous(p, r)
<1>2. r <= r /\ q <= r
  BY <1>1
<1>3. Reusable(p, r)
  BY <1>2
<1>4. p[r].status = "complete" /\ p[r].from = q
  BY <1>3 DEF Reusable
<1>. HIDE DEF q
<1>5. p[q].status = "complete" \/ q = Baseline(p)
  BY <1>1, <1>2 DEF Reusable, q
<1>6. LastComplete(p, r) = q
  BY <1>1, <1>5, LastIs DEF q
<1>. QED
  BY <1>4, <1>6 DEF Follows

\* A validated project: what can be kept is complete, the rest waits.
ValidatedList(p) ==
  \A r \in AfterBaseline(p) :
    /\ p[r].status \in {"complete", "validated"}
    /\ p[r].status = "complete" => Reusable(p, r)

LEMMA PlannedParts ==
  ASSUME NEW p, IsProject(p), DOMAIN p # {}, ValidatedList(p), NEW added, DOMAIN added = DOMAIN p,
         \A r \in DOMAIN added : added[r] \in {None} \cup SUBSET Cells, NEW files
  PROVE  LET s == Planned(p, added)
         IN  /\ RunTypes(s) /\ Chain(s) /\ s.project = p
             /\ s.at \in {"pair", "finish"}
             /\ (\A q \in AfterBaseline(p) :
                   (\A x \in AfterBaseline(p) : x <= q => Reusable(p, x))
                      => Adds(p, FilesOver(added, files), Previous(p, q), q))
                => /\ s.at = "pair" => AddedBehind(s, files, s.milestone)
                   /\ s.at = "finish" => \A x \in AfterBaseline(p) : AddedBehind(s, files, x + 1)
<1> DEFINE state == [at |-> "finish", project |-> p, added |-> added, milestone |-> NoPair,
                     source |-> NoPair, built |-> {}]
<1> DEFINE first == Min(Dirty(p))
<1> DEFINE last == Previous(p, first)
<1> DEFINE from == [state EXCEPT !.source = last, !.built = p[last].cumulative]
<1>1. /\ AfterBaseline(p) \subseteq DOMAIN p /\ DOMAIN p \subseteq Nat /\ DOMAIN p \subseteq Releases
      /\ Dirty(p) = {r \in AfterBaseline(p) : ~Reusable(p, r)}
      /\ AfterBaseline(p) = DOMAIN p \ {Baseline(p)} /\ Baseline(p) \in DOMAIN p
  BY Places DEF Dirty, AfterBaseline, IsProject
<1>2. CASE Dirty(p) = {}
  <2>1. Planned(p, added) = state
    BY <1>2 DEF Planned
  <2>2. \A r \in AfterBaseline(p) : Reusable(p, r) /\ Follows(p, r)
    BY <1>1, <1>2, KeptFollow
  <2>3. RunTypes(state)
    BY <1>1 DEF RunTypes, RunFields
  <2>4. Chain(state)
    BY <2>2 DEF Chain
  <2>5. ASSUME \A q \in AfterBaseline(p) : Adds(p, FilesOver(added, files), Previous(p, q), q)
        PROVE  \A x \in AfterBaseline(p) : AddedBehind(state, files, x + 1)
    BY <2>5 DEF AddedBehind
  <2>. QED
    BY <2>1, <2>2, <2>3, <2>4, <2>5
<1>3. CASE Dirty(p) # {}
  <2>1. first \in Dirty(p) /\ \A q \in Dirty(p) : first <= q
    <3>1. Dirty(p) \in SUBSET DOMAIN p /\ Dirty(p) \subseteq Int
      BY <1>1
    <3>2. IsFiniteSet(Dirty(p))
      BY <3>1, Places, FS_Subset
    <3>. QED
      BY <1>3, <3>1, <3>2, MinIsSmallest
  <2>2. /\ first \in AfterBaseline(p) /\ first \in Nat
        /\ \A q \in AfterBaseline(p) : q < first => Reusable(p, q)
    BY <1>1, <2>1
  <2>3. /\ last \in DOMAIN p /\ last < first /\ last \in Nat
        /\ \A q \in DOMAIN p : q < first => q <= last
    BY <1>1, <2>2, Places
  <2>4. Planned(p, added) = Advance(from, last)
    BY <1>3 DEF Planned
  <2>5. /\ DOMAIN from = RunFields /\ from.project = p /\ from.added = added
        /\ from.source = last /\ from.built = p[last].cumulative
    BY DEF RunFields
  <2>. HIDE DEF first, last, from, state
  <2>6. Carried(from)
    <3>1. p[last].cumulative \in SUBSET Cells
      BY <2>3 DEF IsProject, Milestone
    <3>. QED
      BY <1>1, <2>3, <2>5, <3>1 DEF Carried
  <2>7. \A q \in AfterBaseline(p) : q <= last => /\ \A x \in AfterBaseline(p) : x <= q => Reusable(p, x)
                                               /\ Reusable(p, q)
    <3> SUFFICES ASSUME NEW q \in AfterBaseline(p), q <= last PROVE \A x \in AfterBaseline(p) : x <= q => Reusable(p, x)
      BY <1>1
    <3>1. \A x \in AfterBaseline(p) : x <= q => x < first
      BY <1>1, <2>2, <2>3
    <3>. QED
      BY <2>2, <3>1
  <2>8. Chain(Advance(from, last))
    <3>1. \A q \in AfterBaseline(from.project) : q <= last => Follows(from.project, q)
      BY <2>5, <2>7, KeptFollow
    <3>2. Ahead(from.project, last)
      <4>1. \A q \in Later(p, last) : q \in AfterBaseline(p)
        BY <1>1, <2>3, Places DEF Later
      <4>. QED
        BY <2>5, <4>1 DEF Ahead, ValidatedList
    <3>3. p[last].status = "complete" \/ last = Baseline(p)
      BY <1>1, <2>3, <2>7 DEF Reusable
    <3>. QED
      BY <2>3, <2>5, <2>6, <3>1, <3>2, <3>3, AdvanceChain
  <2>9. /\ RunTypes(Advance(from, last)) /\ Advance(from, last).project = p
        /\ Advance(from, last).at \in {"pair", "finish"}
    BY <2>3, <2>5, <2>6, AdvanceTypes, AdvanceParts
  <2>10. ASSUME \A q \in AfterBaseline(p) :
                   (\A x \in AfterBaseline(p) : x <= q => Reusable(p, x))
                      => Adds(p, FilesOver(added, files), Previous(p, q), q)
         PROVE  AddedBehind(from, files, last + 1)
    <3>1. \A q \in AfterBaseline(p) : q < last + 1 => q <= last
      BY <1>1, <2>3
    <3>. QED
      BY <2>5, <2>7, <2>10, <3>1 DEF AddedBehind
  <2>. QED
    BY <2>3, <2>4, <2>5, <2>6, <2>8, <2>9, <2>10, AdvanceGrowth
<1>. QED
  BY <1>2, <1>3

\* What validation leaves is a validated list, and keeps what could be kept.
LEMMA ValidatedIsList ==
  ASSUME NEW p, IsProject(p), DOMAIN p # {}
  PROVE  /\ ValidatedList(Validated(p))
         /\ \A r \in AfterBaseline(p) : Reusable(Validated(p), r) => Reusable(p, r)
<1> DEFINE v == Validated(p)
<1>1. /\ DOMAIN v = DOMAIN p /\ AfterBaseline(v) = AfterBaseline(p)
      /\ \A r : Previous(v, r) = Previous(p, r)
  BY ValidatedParts, SameList
<1>2. \A r \in AfterBaseline(p) :
        /\ v[r].from = p[r].from /\ v[r].grew = p[r].grew
        /\ v[r].status = (IF Reusable(p, r) THEN "complete" ELSE "validated")
  BY ValidatedParts
<1>. HIDE DEF v
<1>3. \A r \in AfterBaseline(p) : v[r].status = "complete" <=> Reusable(p, r)
  BY <1>2
<1>4. \A r \in AfterBaseline(p) : v[r].status = "complete" => Reusable(v, r)
  BY <1>1, <1>2, <1>3 DEF Reusable
<1>5. \A r \in AfterBaseline(p) : Reusable(v, r) => Reusable(p, r)
  BY <1>3 DEF Reusable
<1>. QED
  BY <1>1, <1>2, <1>4, <1>5 DEF ValidatedList, v

-----------------------------------------------------------------------------
(* Every step keeps the types.                                              *)

LEMMA FilesTypes ==
  ASSUME additions \in [Releases -> SUBSET Cells], NEW added,
         \A r \in DOMAIN added : added[r] \in {None} \cup SUBSET Cells
  PROVE  FilesAfter(added) \in [Releases -> SUBSET Cells]
  BY DEF FilesAfter

\* What a pair's response makes of the milestone.
LEMMA AppliedParts ==
  ASSUME RunTypes(run), run.at = "pair", NEW found \in SUBSET Cells
  PROVE  LET s == Applied(found)
             p == run.project
             r == run.milestone
             q == Previous(p, r)
             m == [p[r] EXCEPT !.from = run.source, !.candidate = run.built \cup found]
         IN  /\ DOMAIN s = RunFields /\ s.at = "files" /\ s.milestone = r
             /\ s.source = run.source /\ s.built = run.built
             /\ m \in Milestone /\ m.status = p[r].status /\ m.from = run.source
             /\ q \in DOMAIN p /\ r \in DOMAIN p /\ q < r /\ p[q].cumulative \in SUBSET Cells
             /\ s.project = [p EXCEPT ![r] = Recomputed(m, p[q].cumulative)]
             /\ s.added = [run.added EXCEPT ![r] = Gained(m, p[q].cumulative)]
             /\ Gained(m, p[q].cumulative) \in {None} \cup SUBSET Cells
<1> DEFINE p == run.project
<1> DEFINE r == run.milestone
<1> DEFINE q == Previous(p, r)
<1> DEFINE m == [p[r] EXCEPT !.from = run.source, !.candidate = run.built \cup found]
<1> DEFINE before == p[q].cumulative
<1>1. /\ DOMAIN run = RunFields /\ IsProject(p) /\ DOMAIN p # {} /\ r \in AfterBaseline(p)
      /\ run.source \in Releases \cup {NoPair} /\ run.built \in SUBSET Cells
  BY DEF RunTypes
<1>2. r \in DOMAIN p /\ q \in DOMAIN p /\ q < r
  BY <1>1, Places
<1>3. p[r] \in Milestone /\ p[q] \in Milestone
  BY <1>1, <1>2 DEF IsProject
<1>4. m \in Milestone /\ m.status = p[r].status /\ m.from = run.source
  BY <1>1, <1>3 DEF Milestone
<1>5. before \in SUBSET Cells
  BY <1>3 DEF Milestone
<1>6. Applied(found) = [run EXCEPT !.at = "files", !.project[r] = Recomputed(m, before),
                                   !.added[r] = Gained(m, before)]
  BY DEF Applied
<1>. HIDE DEF m, before, q, r
<1>7. Gained(m, before) \in {None} \cup SUBSET Cells
  BY <1>4, <1>5, RecomputedParts DEF Gained
<1>8. /\ DOMAIN Applied(found) = RunFields /\ Applied(found).at = "files"
      /\ Applied(found).milestone = run.milestone
      /\ Applied(found).source = run.source /\ Applied(found).built = run.built
      /\ Applied(found).project = [p EXCEPT ![r] = Recomputed(m, before)]
      /\ Applied(found).added = [run.added EXCEPT ![r] = Gained(m, before)]
  BY <1>1, <1>6 DEF RunFields
<1>. QED
  BY <1>2, <1>4, <1>5, <1>7, <1>8 DEF m, before, q, r

\* The state from which a run moves on after a failed pair, and after a save.
LEMMA FailedParts ==
  ASSUME RunTypes(run), run.at = "pair"
  PROVE  LET s == [run EXCEPT !.project[run.milestone].status = "error"]
             r == run.milestone
         IN  /\ Carried(s) /\ r \in DOMAIN s.project /\ DOMAIN s.project = DOMAIN run.project
             /\ s.source = run.source /\ s.added = run.added /\ s.built = run.built
             /\ s.project[r].status = "error"
             /\ \A q \in DOMAIN run.project \ {r} : s.project[q] = run.project[q]
<1> DEFINE p == run.project
<1> DEFINE r == run.milestone
<1> DEFINE s == [run EXCEPT !.project[r].status = "error"]
<1>1. /\ DOMAIN run = RunFields /\ IsProject(p) /\ DOMAIN p # {} /\ r \in AfterBaseline(p)
  BY DEF RunTypes
<1>2. r \in DOMAIN p
  BY <1>1, Places
<1>3. /\ DOMAIN s = RunFields /\ s.project = [p EXCEPT ![r].status = "error"]
      /\ s.source = run.source /\ s.added = run.added /\ s.built = run.built
  BY <1>1 DEF RunFields
<1>4. [p[r] EXCEPT !.status = "error"] \in Milestone
  BY <1>1, <1>2 DEF IsProject, Milestone
<1>5. s.project[r].status = "error"
  BY <1>1, <1>2, <1>3 DEF IsProject, Milestone
<1>. HIDE DEF s, r, p
<1>6. DOMAIN s.project = DOMAIN p /\ s.project[r] = [p[r] EXCEPT !.status = "error"]
      /\ \A q \in DOMAIN p \ {r} : s.project[q] = p[q]
  BY <1>2, <1>3
<1>7. IsProject(s.project)
  BY <1>1, <1>4, <1>6 DEF IsProject
<1>. QED
  BY <1>1, <1>2, <1>3, <1>5, <1>6, <1>7 DEF Carried, RunTypes, s, r, p

LEMMA SavedParts ==
  ASSUME RunTypes(run), run.at = "json"
  PROVE  LET saved == Counted(run.project, additions)
             r == run.milestone
             s == [run EXCEPT !.project = saved, !.source = r, !.built = run.project[r].cumulative]
         IN  /\ Carried(s) /\ r \in DOMAIN s.project /\ s.project = saved
             /\ s.source = r /\ s.added = run.added
<1> DEFINE saved == Counted(run.project, additions)
<1> DEFINE r == run.milestone
<1> DEFINE s == [run EXCEPT !.project = saved, !.source = r, !.built = run.project[r].cumulative]
<1>1. /\ DOMAIN run = RunFields /\ IsProject(run.project) /\ DOMAIN run.project # {}
      /\ r \in AfterBaseline(run.project)
  BY DEF RunTypes
<1>2. r \in DOMAIN run.project /\ run.project[r].cumulative \in SUBSET Cells /\ r \in Releases
  BY <1>1, Places DEF IsProject, Milestone
<1>3. IsProject(saved) /\ DOMAIN saved = DOMAIN run.project
  BY <1>1, CountedParts
<1>. HIDE DEF saved
<1>4. /\ DOMAIN s = RunFields /\ s.project = saved /\ s.source = r /\ s.added = run.added
      /\ s.built = run.project[r].cumulative
  BY <1>1 DEF RunFields
<1>. HIDE DEF s, r
<1>. QED
  BY <1>1, <1>2, <1>3, <1>4 DEF Carried, RunTypes, saved, s, r

LEMMA NoRunTypes == RunTypes(NoRun) /\ Chain(NoRun)
  BY DEF RunTypes, Chain, NoRun, RunFields, IsProject

LEMMA TypeInit == Init => TypeInv
<1> SUFFICES ASSUME Init PROVE TypeInv
  OBVIOUS
<1>1. NewMilestone \in Milestone
  BY DEF NewMilestone, Milestone
<1>2. IsProject(stored) /\ DOMAIN stored # {}
  BY <1>1, ListedAssumption DEF Init, IsProject
<1>3. RunTypes(run)
  BY NoRunTypes DEF Init
<1>4. runs \in 0 .. MaxRuns /\ edits \in 0 .. MaxEdits
  <2>1. runs = 0 /\ edits = 0
    BY DEF Init
  <2>. QED
    BY <2>1, BoundsAssumption
<1>7. disturbed \in BOOLEAN
  BY DEF Init
<1>5. additions \in [Releases -> SUBSET Cells] /\ cache \in [Pairs -> {None} \cup SUBSET Cells]
  BY DEF Init
<1>6. draft = NoDraft
  BY DEF Init
<1>. QED
  BY <1>2, <1>3, <1>4, <1>5, <1>6, <1>7 DEF TypeInv

LEMMA EditTypes ==
  ASSUME TypeInv, NEW p, IsProject(p), DOMAIN p # {}, NEW added,
         \A r \in DOMAIN added : added[r] \in {None} \cup SUBSET Cells,
         SaveEdited(p, added)
  PROVE  TypeInv'
<1>1. additions' \in [Releases -> SUBSET Cells]
  BY FilesTypes DEF TypeInv, SaveEdited
<1>2. IsProject(stored') /\ DOMAIN stored' # {}
  BY CountedParts DEF SaveEdited
<1>3. disturbed' \in BOOLEAN
  BY DEF SaveEdited
<1>. QED
  BY <1>1, <1>2, <1>3 DEF TypeInv, SaveEdited

LEMMA StartTypes ==
  ASSUME TypeInv, StartRun
  PROVE  /\ LET p == Validated(stored)
                added == [r \in DOMAIN p |-> IF r = Baseline(p) THEN p[Baseline(p)].override
                                                              ELSE additions[r]]
            IN  /\ run' = Planned(p, added)
                /\ IsProject(p) /\ DOMAIN p = DOMAIN stored /\ ValidatedList(p)
                /\ DOMAIN added = DOMAIN p
                /\ \A r \in DOMAIN added : added[r] \in SUBSET Cells
         /\ RunTypes(run') /\ Chain(run') /\ run'.at # "idle"
<1> DEFINE p == Validated(stored)
<1> DEFINE added == [r \in DOMAIN p |-> IF r = Baseline(p) THEN p[Baseline(p)].override
                                                         ELSE additions[r]]
<1>1. run' = Planned(p, added)
  BY DEF StartRun
<1>2. IsProject(p) /\ DOMAIN p = DOMAIN stored /\ DOMAIN p # {} /\ ValidatedList(p)
  BY ValidatedParts, ValidatedIsList DEF TypeInv
<1>. HIDE DEF p
<1>3. DOMAIN added = DOMAIN p /\ \A r \in DOMAIN added : added[r] \in SUBSET Cells
  BY <1>2 DEF IsProject, Milestone, TypeInv
<1>. HIDE DEF added
<1>4. RunTypes(run') /\ Chain(run') /\ run'.at # "idle"
  BY <1>1, <1>2, <1>3, PlannedParts
<1>. QED
  BY <1>1, <1>2, <1>3, <1>4 DEF p, added

LEMMA TypeStep == TypeInv /\ [Next]_vars => TypeInv'
<1> SUFFICES ASSUME TypeInv, [Next]_vars PROVE TypeInv'
  OBVIOUS
<1>0. /\ IsProject(stored) /\ DOMAIN stored # {} /\ RunTypes(run)
      /\ additions \in [Releases -> SUBSET Cells]
      /\ cache \in [Pairs -> {None} \cup SUBSET Cells]
  BY DEF TypeInv
<1>1. CASE StartRun
  <2>1. RunTypes(run')
    BY <1>1, StartTypes
  <2>2. runs' \in 0 .. MaxRuns /\ disturbed' \in BOOLEAN
    BY <1>1, BoundsAssumption DEF StartRun, TypeInv
  <2>. QED
    BY <1>1, <2>1, <2>2 DEF StartRun, TypeInv
<1>2. CASE PairSucceeds
  <2>1. PICK found \in SUBSET Cells :
          run' = Applied(found) /\ cache' = [cache EXCEPT ![<<run.source, run.milestone>>] = found]
    BY <1>2 DEF PairSucceeds
  <2>2. run.at = "pair"
    BY <1>2 DEF PairSucceeds
  <2> DEFINE r == run.milestone
  <2> DEFINE q == Previous(run.project, r)
  <2> DEFINE m == [run.project[r] EXCEPT !.from = run.source, !.candidate = run.built \cup found]
  <2> DEFINE b == run.project[q].cumulative
  <2>3. /\ DOMAIN run' = RunFields /\ run'.at = "files" /\ run'.milestone = r
        /\ run'.source = run.source /\ run'.built = run.built
        /\ m \in Milestone /\ b \in SUBSET Cells /\ r \in DOMAIN run.project
        /\ run'.project = [run.project EXCEPT ![r] = Recomputed(m, b)]
        /\ run'.added = [run.added EXCEPT ![r] = Gained(m, b)]
        /\ Gained(m, b) \in {None} \cup SUBSET Cells
    BY <1>0, <2>1, <2>2, AppliedParts
  <2>. HIDE DEF m, b, r
  <2>4. DOMAIN run'.project = DOMAIN run.project /\ DOMAIN run'.added = DOMAIN run.added
    BY <2>3
  <2>5. IsProject(run'.project)
    <3>1. Recomputed(m, b) \in Milestone
      BY <2>3, RecomputedParts
    <3>2. IsProject(run.project)
      BY <1>0 DEF RunTypes
    <3>. QED
      BY <2>3, <2>4, <3>1, <3>2 DEF IsProject
  <2>6. AfterBaseline(run'.project) = AfterBaseline(run.project)
    BY <2>4, SameList
  <2>7. \A x \in DOMAIN run'.added : run'.added[x] \in {None} \cup SUBSET Cells
    BY <1>0, <2>3 DEF RunTypes
  <2>8. RunTypes(run')
    BY <1>0, <2>2, <2>3, <2>4, <2>5, <2>6, <2>7 DEF RunTypes, r
  <2>9. cache' \in [Pairs -> {None} \cup SUBSET Cells]
    BY <1>0, <2>1
  <2>. QED
    BY <1>2, <2>8, <2>9 DEF PairSucceeds, TypeInv
<1>3. CASE PairFails
  <2> DEFINE s == [run EXCEPT !.project[run.milestone].status = "error"]
  <2>1. run.at = "pair" /\ run' = Advance(s, run.milestone)
    BY <1>3 DEF PairFails
  <2>2. Carried(s) /\ run.milestone \in DOMAIN s.project
    BY <1>0, <2>1, FailedParts
  <2>. HIDE DEF s
  <2>3. RunTypes(run')
    BY <2>1, <2>2, AdvanceTypes
  <2>. QED
    BY <1>3, <2>3 DEF PairFails, TypeInv
<1>4. CASE SaveFiles
  <2>1. additions' \in [Releases -> SUBSET Cells]
    BY <1>0, <1>4, FilesTypes DEF SaveFiles, RunTypes
  <2>2. /\ DOMAIN run' = RunFields /\ run'.at = "json" /\ run'.project = run.project
        /\ run'.milestone = run.milestone /\ run'.source = run.source /\ run'.built = run.built
        /\ run'.added = [r \in DOMAIN run.added |-> None] /\ run.at = "files"
    BY <1>0, <1>4 DEF SaveFiles, RunTypes, RunFields
  <2>3. RunTypes(run')
    BY <1>0, <2>2 DEF RunTypes
  <2>. QED
    BY <1>4, <2>1, <2>3 DEF SaveFiles, TypeInv
<1>5. CASE SaveProject
  <2> DEFINE saved == Counted(run.project, additions)
  <2> DEFINE s == [run EXCEPT !.project = saved, !.source = run.milestone,
                              !.built = run.project[run.milestone].cumulative]
  <2>1. run.at = "json" /\ stored' = saved /\ run' = Advance(s, run.milestone)
    BY <1>5 DEF SaveProject
  <2>2. Carried(s) /\ run.milestone \in DOMAIN s.project /\ s.project = saved
    BY <1>0, <2>1, SavedParts
  <2>. HIDE DEF s
  <2>3. RunTypes(run')
    BY <2>1, <2>2, AdvanceTypes
  <2>4. IsProject(stored') /\ DOMAIN stored' # {}
    BY <2>1, <2>2 DEF Carried
  <2>5. cache' \in [Pairs -> {None} \cup SUBSET Cells]
    BY <1>0, <1>5 DEF SaveProject
  <2>. QED
    BY <1>5, <2>3, <2>4, <2>5 DEF SaveProject, TypeInv
<1>6. CASE FinishRun
  <2>1. additions' \in [Releases -> SUBSET Cells]
    BY <1>0, <1>6, FilesTypes DEF FinishRun, RunTypes
  <2>2. IsProject(stored') /\ DOMAIN stored' # {}
    BY <1>0, <1>6, CountedParts DEF FinishRun, RunTypes
  <2>3. cache' \in [Pairs -> {None} \cup SUBSET Cells]
    BY <1>0, <1>6 DEF FinishRun
  <2>4. RunTypes(run')
    BY <1>6, NoRunTypes DEF FinishRun
  <2>. QED
    BY <1>6, <2>1, <2>2, <2>3, <2>4 DEF FinishRun, TypeInv
<1>7. CASE Interrupt
  <2>1. RunTypes(run')
    BY <1>7, NoRunTypes DEF Interrupt
  <2>. QED
    BY <1>7, <2>1 DEF Interrupt, TypeInv
<1>8. CASE LoadForEdit
  <2>1. edits' \in 0 .. MaxEdits /\ disturbed' \in BOOLEAN
    BY <1>8, BoundsAssumption DEF LoadForEdit, TypeInv
  <2>. QED
    BY <1>8, <2>1 DEF LoadForEdit, TypeInv
<1>9. CASE ImportSome
  <2>1. PICK r \in Releases, cells \in SUBSET Cells \ {{}} : ImportOverride(r, cells)
    BY <1>9 DEF ImportSome
  <2> DEFINE p == [draft EXCEPT ![r].override = cells]
  <2> DEFINE added == [q \in DOMAIN p |-> Gained(p[q], ClaimedBefore(p, q))]
  <2>2. /\ draft # NoDraft /\ r \in DOMAIN draft /\ IsProject(draft)
        /\ SaveEdited(RecomputedAll(p), added)
    BY <2>1 DEF ImportOverride, TypeInv
  <2>3. [draft[r] EXCEPT !.override = cells] \in Milestone
    BY <2>2 DEF IsProject, Milestone
  <2>4. IsProject(p) /\ DOMAIN p # {}
    BY <2>2, <2>3 DEF IsProject
  <2>. HIDE DEF p
  <2>5. \A q \in DOMAIN added : added[q] \in {None} \cup SUBSET Cells
    <3>1. \A q \in DOMAIN p : Claim(p[q]) \in SUBSET Cells
      BY <2>4 DEF Claim, IsProject, Milestone
    <3>. QED
      BY <3>1 DEF Gained
  <2>. HIDE DEF added
  <2>. QED
    BY <2>2, <2>4, <2>5, EditTypes, RecomputedAllParts
<1>10. ASSUME NEW r \in Releases, AddMilestone(r) PROVE TypeInv'
  <2> DEFINE p == [q \in DOMAIN draft \cup {r} |-> IF q = r THEN NewMilestone ELSE draft[q]]
  <2>1. draft # NoDraft /\ IsProject(draft) /\ SaveEdited(p, << >>)
    BY <1>10 DEF AddMilestone, TypeInv
  <2>2. NewMilestone \in Milestone
    BY DEF NewMilestone, Milestone
  <2>3. IsProject(p) /\ DOMAIN p # {}
    BY <2>1, <2>2 DEF IsProject
  <2>. HIDE DEF p
  <2>. QED
    BY <2>1, <2>3, EditTypes
<1>11. ASSUME NEW r \in Releases, RemoveMilestone(r) PROVE TypeInv'
  <2> DEFINE p == [q \in DOMAIN draft \ {r} |-> draft[q]]
  <2>1. /\ draft # NoDraft /\ IsProject(draft) /\ SaveEdited(p, << >>)
        /\ DOMAIN draft # {} /\ r # Baseline(draft)
    BY <1>11 DEF RemoveMilestone, TypeInv
  <2>2. Baseline(draft) \in DOMAIN draft
    BY <2>1, Places
  <2>3. IsProject(p) /\ DOMAIN p # {}
    BY <2>1, <2>2 DEF IsProject
  <2>. HIDE DEF p
  <2>. QED
    BY <2>1, <2>3, EditTypes
<1>12. CASE UNCHANGED vars
  BY <1>12 DEF vars, TypeInv
<1>. QED
  BY <1>1, <1>2, <1>3, <1>4, <1>5, <1>6, <1>7, <1>8, <1>9, <1>10, <1>11, <1>12 DEF Next, Edit

(* The projects on disk and in hand, the run and the caches keep to their    *)
(* types, for any releases, cells, faults, runs and edits.                  *)
THEOREM TemporalTypes == Spec => []TypeOK
<1>1. TypeInv => TypeOK
  BY DEF TypeInv, TypeOK, RunTypes, RunOK
<1>. QED
  BY <1>1, TypeInit, TypeStep, PTL DEF Spec

-----------------------------------------------------------------------------
(* Every step keeps the chain.                                              *)

LEMMA FollowsSame ==
  ASSUME NEW p, NEW w, IsProject(p), DOMAIN w = DOMAIN p, NEW r \in DOMAIN p,
         \A q \in DOMAIN p : q <= r => w[q].status = p[q].status /\ w[q].from = p[q].from
  PROVE  Follows(w, r) <=> Follows(p, r)
<1>1. DOMAIN p \subseteq Nat /\ DOMAIN p # {}
  BY Places
<1>2. r <= r /\ \A q \in DOMAIN p : q < r => q <= r
  BY <1>1
<1>3. LastComplete(w, r) = LastComplete(p, r)
  BY <1>2, SameLast
<1>. QED
  BY <1>2, <1>3 DEF Follows

LEMMA ChainApplied ==
  ASSUME TypeInv, Chain(run), run.at = "pair", NEW found \in SUBSET Cells
  PROVE  Chain(Applied(found))
<1> DEFINE p == run.project
<1> DEFINE r == run.milestone
<1> DEFINE m == [p[r] EXCEPT !.from = run.source, !.candidate = run.built \cup found]
<1> DEFINE new == Recomputed(m, p[Previous(p, r)].cumulative)
<1> DEFINE s == Applied(found)
<1> DEFINE w == s.project
<1>1. RunTypes(run) /\ IsProject(p) /\ r \in AfterBaseline(p) /\ DOMAIN p # {}
  BY DEF TypeInv, RunTypes
<1>2. /\ s.at = "files" /\ s.milestone = r /\ w = [p EXCEPT ![r] = new]
      /\ m \in Milestone /\ m.status = p[r].status /\ m.from = run.source
      /\ r \in DOMAIN p /\ p[Previous(p, r)].cumulative \in SUBSET Cells
  BY <1>1, AppliedParts
<1>3. /\ Behind(p, r) /\ run.source = LastComplete(p, r) /\ Ahead(p, r)
      /\ p[r].status \in {"complete", "validated"}
  BY DEF Chain
<1>4. new.from = run.source /\ new.status = "complete"
  <2>1. ~Skipped(m)
    BY <1>2, <1>3 DEF Skipped
  <2>2. m.status # "error"
    BY <1>2, <1>3
  <2>. HIDE DEF m
  <2>. QED
    BY <1>2, <2>1, <2>2, RecomputedParts
<1>. HIDE DEF new, m, s
<1>5. DOMAIN w = DOMAIN p /\ w[r] = new /\ \A q \in DOMAIN p \ {r} : w[q] = p[q]
  BY <1>2
<1>6. AfterBaseline(w) = AfterBaseline(p) /\ Later(w, r) = Later(p, r)
  BY <1>5, SameList
<1>7. DOMAIN p \subseteq Nat /\ AfterBaseline(p) \subseteq DOMAIN p
  BY <1>1, Places
<1>. HIDE DEF w, p, r
<1>8. LastComplete(w, r) = LastComplete(p, r)
  <2>1. \A q \in DOMAIN p : q < r => w[q].status = p[q].status
    BY <1>2, <1>5, <1>7
  <2>. QED
    BY <1>5, <2>1, SameLast
<1>9. Behind(w, r)
  <2> SUFFICES ASSUME NEW q \in AfterBaseline(p), q < r PROVE Follows(w, q)
    BY <1>6 DEF Behind
  <2>1. \A x \in DOMAIN p : x <= q => x # r
    BY <1>2, <1>7
  <2>2. Follows(w, q) <=> Follows(p, q)
    BY <1>1, <1>5, <1>7, <2>1, FollowsSame
  <2>. QED
    BY <1>3, <2>2 DEF Behind
<1>10. Ahead(w, r)
  BY <1>2, <1>3, <1>5, <1>6, <1>7 DEF Ahead, Later
<1>11. w[r].status = "complete" /\ Follows(w, r)
  BY <1>3, <1>4, <1>5, <1>8 DEF Follows
<1>. QED
  BY <1>2, <1>9, <1>10, <1>11 DEF Chain, s, w

LEMMA ChainFailed ==
  ASSUME TypeInv, Chain(run), run.at = "pair"
  PROVE  Chain(Advance([run EXCEPT !.project[run.milestone].status = "error"], run.milestone))
<1> DEFINE p == run.project
<1> DEFINE r == run.milestone
<1> DEFINE s == [run EXCEPT !.project[r].status = "error"]
<1> DEFINE w == s.project
<1>1. RunTypes(run) /\ IsProject(p) /\ r \in AfterBaseline(p) /\ DOMAIN p # {}
  BY DEF TypeInv, RunTypes
<1>2. /\ Carried(s) /\ r \in DOMAIN w /\ DOMAIN w = DOMAIN p /\ s.source = run.source
      /\ w[r].status = "error" /\ \A q \in DOMAIN p \ {r} : w[q] = p[q]
  BY <1>1, FailedParts
<1>3. Behind(p, r) /\ run.source = LastComplete(p, r) /\ Ahead(p, r)
  BY DEF Chain
<1>. HIDE DEF s
<1>4. /\ AfterBaseline(w) = AfterBaseline(p) /\ Later(w, r) = Later(p, r)
      /\ Baseline(w) = Baseline(p)
  BY <1>2, SameList
<1>5. /\ DOMAIN p \subseteq Nat /\ AfterBaseline(p) \subseteq DOMAIN p /\ r \in Nat
      /\ run.source \in DOMAIN p /\ run.source < r
      /\ p[run.source].status = "complete" \/ run.source = Baseline(p)
      /\ \A q \in DOMAIN p : q < r /\ p[q].status = "complete" => q <= run.source
  BY <1>1, <1>3, Places
<1>. HIDE DEF w, p, r
<1>6. \A q \in AfterBaseline(w) : q <= r => Follows(w, q)
  <2> SUFFICES ASSUME NEW q \in AfterBaseline(p), q <= r PROVE Follows(w, q)
    BY <1>4
  <2>1. CASE q = r
    BY <1>2, <2>1 DEF Follows
  <2>2. CASE q # r
    <3>1. q < r /\ \A x \in DOMAIN p : x <= q => x # r
      BY <1>5, <2>2
    <3>2. Follows(w, q) <=> Follows(p, q)
      BY <1>1, <1>2, <1>5, <3>1, FollowsSame
    <3>. QED
      BY <1>3, <3>1, <3>2 DEF Behind
  <2>. QED
    BY <2>1, <2>2
<1>7. Ahead(w, r)
  BY <1>2, <1>3, <1>4, <1>5 DEF Ahead, Later
<1>8. /\ s.source \in DOMAIN w /\ s.source <= r
      /\ w[s.source].status = "complete" \/ s.source = Baseline(w)
      /\ \A q \in DOMAIN w : q <= r /\ w[q].status = "complete" => q <= s.source
  <2>1. run.source # r /\ run.source <= r
    BY <1>5
  <2>2. \A q \in DOMAIN w : q <= r /\ w[q].status = "complete" => q < r /\ p[q].status = "complete"
    BY <1>2, <1>5
  <2>. QED
    BY <1>2, <1>4, <1>5, <2>1, <2>2
<1>. QED
  BY <1>2, <1>6, <1>7, <1>8, AdvanceChain DEF s, w, r

LEMMA CountedFollows ==
  ASSUME NEW p, IsProject(p), NEW files, NEW r \in DOMAIN p
  PROVE  Follows(Counted(p, files), r) <=> Follows(p, r)
<1> DEFINE w == Counted(p, files)
<1>1. DOMAIN w = DOMAIN p /\ \A q \in DOMAIN p : w[q].status = p[q].status /\ w[q].from = p[q].from
  BY CountedParts
<1>. HIDE DEF w
<1>2. Follows(w, r) <=> Follows(p, r)
  BY <1>1, FollowsSame
<1>. QED
  BY <1>2 DEF w

LEMMA ChainSaved ==
  ASSUME TypeInv, Chain(run), run.at = "json"
  PROVE  Chain(Advance([run EXCEPT !.project = Counted(run.project, additions),
                                   !.source = run.milestone,
                                   !.built = run.project[run.milestone].cumulative], run.milestone))
<1> DEFINE p == run.project
<1> DEFINE r == run.milestone
<1> DEFINE w == Counted(p, additions)
<1> DEFINE s == [run EXCEPT !.project = w, !.source = r, !.built = p[r].cumulative]
<1>1. RunTypes(run) /\ IsProject(p) /\ r \in AfterBaseline(p) /\ DOMAIN p # {}
  BY DEF TypeInv, RunTypes
<1>2. Carried(s) /\ r \in DOMAIN s.project /\ s.project = w /\ s.source = r
  BY <1>1, SavedParts
<1>3. DOMAIN w = DOMAIN p /\ \A q \in DOMAIN p : w[q].status = p[q].status
  BY <1>1, CountedParts
<1>4. AfterBaseline(w) = AfterBaseline(p) /\ Later(w, r) = Later(p, r)
  BY <1>3, SameList
<1>5. \A q \in DOMAIN p : Follows(w, q) <=> Follows(p, q)
  BY <1>1, CountedFollows
<1>6. Behind(p, r) /\ Ahead(p, r) /\ p[r].status = "complete" /\ Follows(p, r)
  BY DEF Chain
<1>7. DOMAIN p \subseteq Nat /\ AfterBaseline(p) \subseteq DOMAIN p /\ r \in Nat /\ r <= r
  BY <1>1, Places
<1>. HIDE DEF s, w, p, r
<1>8. \A q \in AfterBaseline(w) : q <= r => Follows(w, q)
  <2>1. \A q \in AfterBaseline(w) : q <= r => q < r \/ q = r
    BY <1>4, <1>7
  <2>. QED
    BY <1>4, <1>5, <1>6, <1>7, <2>1 DEF Behind
<1>9. Ahead(w, r)
  BY <1>3, <1>4, <1>6 DEF Ahead, Later
<1>. QED
  BY <1>2, <1>3, <1>6, <1>7, <1>8, <1>9, AdvanceChain DEF s, w, p, r

LEMMA ChainStep == TypeInv /\ Chain(run) /\ [Next]_vars => Chain(run')
<1> SUFFICES ASSUME TypeInv, Chain(run), [Next]_vars PROVE Chain(run')
  OBVIOUS
<1>1. CASE StartRun
  BY <1>1, StartTypes
<1>2. CASE PairSucceeds
  BY <1>2, ChainApplied DEF PairSucceeds
<1>3. CASE PairFails
  BY <1>3, ChainFailed DEF PairFails
<1>4. CASE SaveFiles
  <2>1. /\ run'.at = "json" /\ run'.project = run.project /\ run'.milestone = run.milestone
        /\ run.at = "files"
    BY <1>4 DEF SaveFiles, TypeInv, RunTypes, RunFields
  <2>. QED
    BY <2>1 DEF Chain
<1>5. CASE SaveProject
  <2>1. /\ run.at = "json" /\ stored' = Counted(run.project, additions)
        /\ run' = Advance([run EXCEPT !.project = stored', !.source = run.milestone,
                                      !.built = run.project[run.milestone].cumulative], run.milestone)
    BY <1>5 DEF SaveProject
  <2>. QED
    BY <2>1, ChainSaved
<1>6. CASE FinishRun \/ Interrupt
  BY <1>6, NoRunTypes DEF FinishRun, Interrupt
<1>7. CASE Edit \/ UNCHANGED vars
  <2>1. run' = run
    BY <1>7 DEF Edit, LoadForEdit, ImportSome, ImportOverride, AddMilestone, RemoveMilestone,
       SaveEdited, vars
  <2>. QED
    BY <2>1
<1>. QED
  BY <1>1, <1>2, <1>3, <1>4, <1>5, <1>6, <1>7 DEF Next

(* When a run ends, every milestone after the baseline has failed or is the  *)
(* result of the pair that starts at the last one that did not - whatever    *)
(* runs were cut short, overlapped or lost their responses before.           *)
THEOREM TemporalChain == Spec => RunLeavesChain
<1> DEFINE Inv == TypeInv /\ Chain(run)
<1> DEFINE Linked == FinishRun => \A r \in AfterBaseline(stored') :
                       \/ stored'[r].status = "error"
                       \/ stored'[r].status = "complete" /\ stored'[r].from = LastComplete(stored', r)
<1>1. Init => Inv
  BY TypeInit, NoRunTypes DEF Init
<1>2. Inv /\ [Next]_vars => Inv'
  BY TypeStep, ChainStep
<1>3. Inv => Linked
  <2> SUFFICES ASSUME Inv, FinishRun PROVE \A r \in AfterBaseline(stored') : Follows(stored', r)
    BY DEF Follows
  <2> DEFINE p == run.project
  <2>1. stored' = Counted(p, additions') /\ run.at = "finish"
    BY DEF FinishRun
  <2>2. IsProject(p) /\ DOMAIN p # {}
    BY <2>1 DEF TypeInv, RunTypes
  <2>3. AfterBaseline(stored') = AfterBaseline(p) /\ AfterBaseline(p) \subseteq DOMAIN p
    BY <2>1, <2>2, CountedParts, SameList, Places
  <2>4. \A r \in AfterBaseline(p) : Follows(p, r)
    BY <2>1 DEF Chain
  <2>. QED
    BY <2>1, <2>2, <2>3, <2>4, CountedFollows
<1>. HIDE DEF Inv
<1>4. Inv /\ [Next]_vars => [Linked]_vars
  BY <1>3
<1>. QED
  BY <1>1, <1>2, <1>4, PTL DEF Spec, RunLeavesChain

-----------------------------------------------------------------------------
(* Every step keeps the footprints.                                         *)

LEMMA MinUnique ==
  ASSUME NEW S, S \subseteq Int, NEW x \in S, \A y \in S : x <= y
  PROVE  Min(S) = x
<1>1. \A z \in S : (\A y \in S : z <= y) => z = x
  <2> SUFFICES ASSUME NEW z \in S, z <= x PROVE z = x
    OBVIOUS
  <2>1. z \in Int /\ x \in Int /\ x <= z
    OBVIOUS
  <2>. QED
    BY <2>1
<1>. QED
  BY <1>1 DEF Min

\* Two projects that show the same.
SameShown(p, w) ==
  /\ DOMAIN w = DOMAIN p
  /\ \A r \in DOMAIN p : /\ w[r].status = p[r].status /\ w[r].from = p[r].from
                         /\ w[r].candidate = p[r].candidate /\ w[r].cumulative = p[r].cumulative
                         /\ w[r].override = p[r].override

LEMMA SameAtRest ==
  ASSUME NEW p, NEW w, IsProject(p), DOMAIN p # {}, SameShown(p, w), NEW files
  PROVE  /\ AtRest(p, files) => AtRest(w, files)
         /\ BaselineIsOverride(p) => BaselineIsOverride(w)
<1>1. /\ Baseline(w) = Baseline(p) /\ AfterBaseline(w) = AfterBaseline(p)
      /\ \A q, r : Between(w, q, r) = Between(p, q, r)
  BY SameList DEF SameShown, Between
<1>2. Baseline(p) \in DOMAIN p /\ AfterBaseline(p) \subseteq DOMAIN p
  BY Places
<1>3. \A r \in DOMAIN p : (Paired(w[r]) <=> Paired(p[r])) /\ Claim(w[r]) = Claim(p[r])
  BY DEF SameShown, Paired, Claim
<1>4. BaselineIsOverride(p) => BaselineIsOverride(w)
  BY <1>1, <1>2 DEF BaselineIsOverride, SameShown
<1>5. ASSUME AtRest(p, files), NEW r \in AfterBaseline(p)
      PROVE  /\ w[r].status \in {"pending", "complete", "error"}
             /\ w[r].status = "pending" => w[r].from = NoPair /\ Claim(w[r]) = {}
  BY <1>2, <1>3, <1>5 DEF AtRest, SameShown
<1>6. ASSUME AtRest(p, files), NEW r \in AfterBaseline(p), Paired(w[r]), w[r].from \in DOMAIN w,
             w[r].from = Baseline(w) \/ Paired(w[w[r].from])
      PROVE  LET q == w[r].from
             IN  /\ q < r
                 /\ \A x \in Between(w, q, r) : ~Paired(w[x])
                 /\ (\A x \in Between(w, q, r) : w[x].status = "pending") => Adds(w, files, q, r)
  <2> DEFINE q == p[r].from
  <2>1. w[r].from = q /\ r \in DOMAIN p /\ q \in DOMAIN p /\ Paired(p[r])
    BY <1>2, <1>3, <1>6 DEF SameShown
  <2>2. q = Baseline(p) \/ Paired(p[q])
    BY <1>1, <1>3, <1>6, <2>1
  <2>3. /\ q < r /\ \A x \in Between(p, q, r) : ~Paired(p[x])
        /\ (\A x \in Between(p, q, r) : p[x].status = "pending") => Adds(p, files, q, r)
    BY <1>6, <2>1, <2>2 DEF AtRest
  <2>4. \A x \in Between(p, q, r) : x \in DOMAIN p
    BY DEF Between
  <2>5. Adds(p, files, q, r) => Adds(w, files, q, r)
    BY <2>1 DEF Adds, SameShown
  <2>. HIDE DEF q
  <2>. QED
    BY <1>1, <1>3, <2>1, <2>3, <2>4, <2>5 DEF SameShown
<1>7. AtRest(p, files) => AtRest(w, files)
  BY <1>1, <1>4, <1>5, <1>6 DEF AtRest
<1>. QED
  BY <1>4, <1>7

LEMMA CountedShown ==
  ASSUME NEW p, IsProject(p), NEW files
  PROVE  SameShown(p, Counted(p, files))
  BY CountedParts DEF SameShown

LEMMA SameAdded ==
  ASSUME NEW s, NEW t, NEW r, NEW files, SameShown(s.project, t.project), IsProject(s.project),
         t.added = s.added, AddedBehind(s, files, r)
  PROVE  AddedBehind(t, files, r)
<1> DEFINE p == s.project
<1> DEFINE w == t.project
<1>1. /\ AfterBaseline(w) = AfterBaseline(p) /\ DOMAIN w = DOMAIN p
      /\ \A q : Previous(w, q) = Previous(p, q)
  BY SameList DEF SameShown
<1>2. ASSUME NEW q \in AfterBaseline(p), q < r, w[q].status = "complete"
      PROVE  Adds(w, FilesOver(t.added, files), Previous(w, q), q)
  <2>1. q \in DOMAIN p /\ Previous(p, q) \in DOMAIN p
    <3>1. DOMAIN p # {}
      BY <1>2 DEF AfterBaseline, Later
    <3>. QED
      BY <1>2, <3>1, Places
  <2>2. Adds(p, FilesOver(s.added, files), Previous(p, q), q)
    BY <1>2, <2>1 DEF AddedBehind, SameShown
  <2>. QED
    BY <1>1, <2>1, <2>2 DEF Adds, SameShown
<1>. QED
  BY <1>1, <1>2 DEF AddedBehind

\* A run begins with what was at rest.
LEMMA GrowthStart ==
  ASSUME TypeInv, AtRest(stored, additions), StartRun
  PROVE  /\ run'.at \in {"pair", "finish"} /\ BaselineIsOverride(run'.project)
         /\ run'.at = "pair" => AddedBehind(run', additions, run'.milestone)
         /\ run'.at = "finish" => \A x \in AfterBaseline(run'.project) : AddedBehind(run', additions, x + 1)
<1> DEFINE p == Validated(stored)
<1> DEFINE b == Baseline(stored)
<1> DEFINE added == [r \in DOMAIN p |-> IF r = Baseline(p) THEN p[Baseline(p)].override
                                                         ELSE additions[r]]
<1>1. /\ IsProject(stored) /\ DOMAIN stored # {} /\ additions \in [Releases -> SUBSET Cells]
      /\ DOMAIN stored \subseteq Releases
  BY DEF TypeInv, IsProject
<1>2. /\ run' = Planned(p, added) /\ IsProject(p) /\ DOMAIN p = DOMAIN stored /\ ValidatedList(p)
      /\ DOMAIN added = DOMAIN p /\ \A r \in DOMAIN added : added[r] \in SUBSET Cells
  BY StartTypes
<1>3. /\ p[b].from = NoPair /\ p[b].candidate = {} /\ p[b].override = stored[b].override
      /\ p[b].cumulative = stored[b].override
      /\ \A r \in AfterBaseline(stored) : p[r].cumulative = stored[r].cumulative
  BY <1>1, ValidatedParts
<1>4. \A r \in AfterBaseline(stored) : Reusable(p, r) => Reusable(stored, r)
  BY <1>1, ValidatedIsList
<1>5. /\ Baseline(p) = b /\ AfterBaseline(p) = AfterBaseline(stored)
      /\ \A r : Previous(p, r) = Previous(stored, r)
  BY <1>2, SameList
<1>6. \A r \in AfterBaseline(stored) : FilesOver(added, additions)[r] = additions[r]
  <2> SUFFICES ASSUME NEW r \in AfterBaseline(stored) PROVE FilesOver(added, additions)[r] = additions[r]
    OBVIOUS
  <2>1. r \in DOMAIN stored /\ r # b /\ r \in Releases
    BY <1>1, Places
  <2>2. added[r] = additions[r] /\ r \in DOMAIN added
    BY <1>2, <1>5, <2>1
  <2>. QED
    BY <2>1, <2>2 DEF FilesOver
<1>. HIDE DEF p, added, b
<1>7. BaselineIsOverride(p)
  BY <1>3, <1>5 DEF BaselineIsOverride
<1>8. ASSUME NEW q \in AfterBaseline(p), \A x \in AfterBaseline(p) : x <= q => Reusable(p, x)
      PROVE  Adds(p, FilesOver(added, additions), Previous(p, q), q)
  <2> DEFINE v == Previous(stored, q)
  <2>1. /\ q \in DOMAIN stored /\ v \in DOMAIN stored /\ v < q /\ q \in Nat /\ v \in Nat
        /\ \A x \in DOMAIN stored : x < q => x <= v
        /\ AfterBaseline(stored) = DOMAIN stored \ {b}
    BY <1>1, <1>5, <1>8, Places DEF b
  <2>2. \A x \in AfterBaseline(stored) : x <= q => Reusable(stored, x)
    BY <1>4, <1>5, <1>8
  <2>3. q <= q /\ v <= q
    BY <2>1
  <2>4. Reusable(stored, q)
    BY <1>5, <1>8, <2>2, <2>3
  <2>5. Paired(stored[q]) /\ stored[q].from = v
    BY <2>1, <2>4 DEF Reusable, Paired, NoPair
  <2>6. v = b \/ Paired(stored[v])
    <3>1. CASE v # b
      <4>1. v \in AfterBaseline(stored)
        BY <2>1, <3>1
      <4>2. Reusable(stored, v)
        BY <2>2, <2>3, <4>1
      <4>3. Previous(stored, v) \in Nat
        BY <1>1, <4>1, Places
      <4>. QED
        BY <4>2, <4>3 DEF Reusable, Paired, NoPair
    <3>. QED
      BY <3>1
  <2>7. Between(stored, v, q) = {}
    <3>1. \A x \in DOMAIN stored : ~(v < x /\ x < q)
      BY <1>1, <2>1, Places
    <3>. QED
      BY <3>1 DEF Between
  <2>. HIDE DEF v
  <2>8. Adds(stored, additions, v, q)
    BY <1>5, <1>8, <2>1, <2>5, <2>6, <2>7 DEF AtRest, b
  <2>9. p[v].cumulative = stored[v].cumulative /\ p[q].cumulative = stored[q].cumulative
    BY <1>3, <1>5, <1>8, <2>1 DEF AtRest, BaselineIsOverride, b
  <2>. QED
    BY <1>5, <1>6, <1>8, <2>8, <2>9 DEF Adds, v
<1>9. \A r \in DOMAIN added : added[r] \in {None} \cup SUBSET Cells
  BY <1>2
<1>10. DOMAIN p # {}
  BY <1>1, <1>2
<1>. QED
  BY <1>2, <1>7, <1>8, <1>9, <1>10, PlannedParts

\* A pair that succeeds adds its milestone to those that add up.
LEMMA GrowthApplied ==
  ASSUME TypeInv, Chain(run), run.at = "pair", BaselineIsOverride(run.project),
         AddedBehind(run, additions, run.milestone), NEW found \in SUBSET Cells
  PROVE  LET s == Applied(found)
         IN  /\ s.at = "files" /\ BaselineIsOverride(s.project)
             /\ AddedBehind(s, additions, s.milestone + 1)
<1> DEFINE s == Applied(found)
<1> DEFINE p == run.project
<1> DEFINE r == run.milestone
<1> DEFINE b == p[Previous(p, r)].cumulative
<1> DEFINE m == [p[r] EXCEPT !.from = run.source, !.candidate = run.built \cup found]
<1> DEFINE w == [p EXCEPT ![r] = Recomputed(m, b)]
<1>1. /\ IsProject(p) /\ DOMAIN p # {} /\ r \in AfterBaseline(p) /\ RunTypes(run)
      /\ DOMAIN run.added = DOMAIN p /\ DOMAIN p \subseteq Releases
  BY DEF TypeInv, RunTypes, IsProject
<1>2. /\ s.at = "files" /\ s.milestone = r /\ s.project = w
      /\ s.added = [run.added EXCEPT ![r] = Gained(m, b)]
      /\ m \in Milestone /\ m.status = p[r].status
      /\ Previous(p, r) \in DOMAIN p /\ r \in DOMAIN p /\ Previous(p, r) < r /\ b \in SUBSET Cells
  BY <1>1, AppliedParts
<1>3. p[r].status \in {"complete", "validated"}
  BY DEF Chain
<1>. HIDE DEF m, b
<1>4. ~Skipped(m)
  BY <1>2, <1>3 DEF Skipped
<1>5. /\ Claim(m) \in SUBSET Cells /\ Recomputed(m, b).cumulative = b \cup Claim(m)
      /\ Gained(m, b) = Claim(m) \ b /\ Gained(m, b) # None
  <2>1. Gained(m, b) = Claim(m) \ b
    BY <1>4 DEF Gained
  <2>2. Claim(m) \in SUBSET Cells /\ Recomputed(m, b).cumulative = b \cup Claim(m)
    BY <1>2, <1>4, RecomputedParts
  <2>3. Claim(m) \ b \in SUBSET Cells
    BY <2>2
  <2>. QED
    BY <2>1, <2>2, <2>3, CellsAssumption
<1>6. /\ DOMAIN w = DOMAIN p /\ w[r] = Recomputed(m, b) /\ \A q \in DOMAIN p \ {r} : w[q] = p[q]
      /\ DOMAIN s.added = DOMAIN p /\ s.added[r] = Gained(m, b)
      /\ \A q \in DOMAIN p \ {r} : s.added[q] = run.added[q]
  BY <1>1, <1>2
<1>7. /\ Baseline(w) = Baseline(p) /\ AfterBaseline(w) = AfterBaseline(p)
      /\ \A q : Previous(w, q) = Previous(p, q)
  BY <1>6, SameList
<1>8. /\ Baseline(p) \in DOMAIN p /\ AfterBaseline(p) = DOMAIN p \ {Baseline(p)}
      /\ DOMAIN p \subseteq Nat
      /\ \A q \in AfterBaseline(p) : Previous(p, q) \in DOMAIN p /\ Previous(p, q) < q
  BY <1>1, Places
<1>. HIDE DEF s, w, r, p
<1>9. BaselineIsOverride(w)
  <2>1. w[Baseline(p)] = p[Baseline(p)]
    BY <1>1, <1>6, <1>8
  <2>. QED
    BY <1>7, <2>1 DEF BaselineIsOverride, p
<1>10. ASSUME NEW q \in AfterBaseline(p), q < r + 1, w[q].status = "complete"
       PROVE  Adds(w, FilesOver(s.added, additions), Previous(p, q), q)
  <2>1. CASE q = r
    <3>1. FilesOver(s.added, additions)[r] = Claim(m) \ b
      BY <1>1, <1>2, <1>5, <1>6 DEF FilesOver
    <3>2. w[Previous(p, r)].cumulative = b /\ w[r].cumulative = b \cup Claim(m)
      <4>1. Previous(p, r) # r
        BY <1>2, <1>8
      <4>. QED
        BY <1>2, <1>5, <1>6, <4>1 DEF b
    <3>. QED
      BY <2>1, <3>1, <3>2 DEF Adds
  <2>2. CASE q # r
    <3>1. q < r /\ q \in DOMAIN p /\ Previous(p, q) # r /\ Previous(p, q) \in DOMAIN p
      BY <1>2, <1>8, <1>10, <2>2
    <3>2. w[q] = p[q] /\ w[Previous(p, q)] = p[Previous(p, q)]
      BY <1>6, <2>2, <3>1
    <3>3. FilesOver(s.added, additions)[q] = FilesOver(run.added, additions)[q]
      BY <1>1, <1>6, <2>2, <3>1 DEF FilesOver
    <3>4. Adds(p, FilesOver(run.added, additions), Previous(p, q), q)
      BY <1>10, <3>1, <3>2 DEF AddedBehind, p, r
    <3>. QED
      BY <3>2, <3>3, <3>4 DEF Adds
  <2>. QED
    BY <2>1, <2>2
<1>11. AddedBehind(s, additions, r + 1)
  BY <1>2, <1>7, <1>10 DEF AddedBehind
<1>. QED
  BY <1>2, <1>9, <1>11 DEF s

\* A pair that fails leaves a milestone that owes nothing.
LEMMA GrowthFailed ==
  ASSUME TypeInv, run.at = "pair", BaselineIsOverride(run.project),
         AddedBehind(run, additions, run.milestone)
  PROVE  LET s == [run EXCEPT !.project[run.milestone].status = "error"]
         IN  /\ Carried(s) /\ run.milestone \in DOMAIN s.project /\ BaselineIsOverride(s.project)
             /\ AddedBehind(s, additions, run.milestone + 1)
<1> DEFINE s == [run EXCEPT !.project[run.milestone].status = "error"]
<1> DEFINE p == run.project
<1> DEFINE r == run.milestone
<1> DEFINE w == s.project
<1>1. /\ IsProject(p) /\ DOMAIN p # {} /\ r \in AfterBaseline(p) /\ RunTypes(run)
  BY DEF TypeInv, RunTypes
<1>2. /\ Carried(s) /\ r \in DOMAIN w /\ DOMAIN w = DOMAIN p /\ s.added = run.added
      /\ w[r].status = "error" /\ \A q \in DOMAIN p \ {r} : w[q] = p[q]
  BY <1>1, FailedParts
<1>3. w = [p EXCEPT ![r].status = "error"]
  BY <1>1 DEF RunTypes, RunFields
<1>4. w[r].cumulative = p[r].cumulative
  BY <1>1, <1>2, <1>3 DEF IsProject, Milestone
<1>. HIDE DEF s
<1>5. /\ Baseline(w) = Baseline(p) /\ AfterBaseline(w) = AfterBaseline(p)
      /\ \A q : Previous(w, q) = Previous(p, q)
  BY <1>2, SameList
<1>6. /\ Baseline(p) \in DOMAIN p /\ AfterBaseline(p) = DOMAIN p \ {Baseline(p)}
      /\ DOMAIN p \subseteq Nat
      /\ \A q \in AfterBaseline(p) : Previous(p, q) \in DOMAIN p /\ Previous(p, q) < q
  BY <1>1, Places
<1>. HIDE DEF w, p, r
<1>7. BaselineIsOverride(w)
  <2>1. w[Baseline(p)] = p[Baseline(p)]
    BY <1>1, <1>2, <1>6
  <2>. QED
    BY <1>5, <2>1 DEF BaselineIsOverride, p
<1>8. ASSUME NEW q \in AfterBaseline(p), q < r + 1, w[q].status = "complete"
      PROVE  Adds(w, FilesOver(s.added, additions), Previous(p, q), q)
  <2>1. q # r
    BY <1>2, <1>8
  <2>2. q < r /\ q \in DOMAIN p /\ Previous(p, q) # r /\ Previous(p, q) \in DOMAIN p
    BY <1>1, <1>6, <1>8, <2>1
  <2>3. w[q] = p[q] /\ w[Previous(p, q)] = p[Previous(p, q)]
    BY <1>2, <2>1, <2>2
  <2>4. Adds(p, FilesOver(run.added, additions), Previous(p, q), q)
    BY <1>8, <2>2, <2>3 DEF AddedBehind, p, r
  <2>. QED
    BY <1>2, <2>3, <2>4 DEF Adds
<1>9. AddedBehind(s, additions, r + 1)
  BY <1>5, <1>8 DEF AddedBehind, w
<1>. QED
  BY <1>2, <1>7, <1>9 DEF s, w, r

\* Saving a milestone's files, and then the project.
LEMMA GrowthFiles ==
  ASSUME TypeInv, SaveFiles, BaselineIsOverride(run.project),
         AddedBehind(run, additions, run.milestone + 1)
  PROVE  /\ run'.at = "json" /\ BaselineIsOverride(run'.project)
         /\ AddedBehind(run', additions', run'.milestone + 1)
<1>1. /\ DOMAIN run = RunFields /\ additions' = FilesAfter(run.added)
      /\ run' = [run EXCEPT !.at = "json", !.added = [r \in DOMAIN @ |-> None]]
  BY DEF TypeInv, RunTypes, SaveFiles
<1>2. /\ run'.at = "json" /\ run'.project = run.project /\ run'.milestone = run.milestone
      /\ run'.added = [r \in DOMAIN run.added |-> None]
  BY <1>1 DEF RunFields
<1>3. \A r \in Releases : FilesOver(run'.added, additions')[r] = additions'[r]
  BY <1>2 DEF FilesOver
<1>4. additions' = FilesOver(run.added, additions)
  BY <1>1 DEF FilesAfter, FilesOver
<1>5. FilesOver(run'.added, additions') = FilesOver(run.added, additions)
  <2>1. FilesOver(run'.added, additions') = [r \in Releases |-> additions'[r]]
    BY <1>2 DEF FilesOver
  <2>2. additions' = [r \in Releases |-> additions'[r]]
    BY <1>4 DEF FilesOver
  <2>. QED
    BY <1>4, <2>1, <2>2
<1>. QED
  BY <1>2, <1>5 DEF AddedBehind

LEMMA GrowthSaved ==
  ASSUME TypeInv, run.at = "json", BaselineIsOverride(run.project),
         AddedBehind(run, additions, run.milestone + 1)
  PROVE  LET r == run.milestone
             s == [run EXCEPT !.project = Counted(run.project, additions), !.source = r,
                              !.built = run.project[r].cumulative]
         IN  /\ Carried(s) /\ r \in DOMAIN s.project /\ BaselineIsOverride(s.project)
             /\ AddedBehind(s, additions, r + 1)
<1> DEFINE p == run.project
<1> DEFINE r == run.milestone
<1> DEFINE w == Counted(p, additions)
<1> DEFINE s == [run EXCEPT !.project = w, !.source = r, !.built = p[r].cumulative]
<1>1. RunTypes(run) /\ IsProject(p) /\ r \in AfterBaseline(p) /\ DOMAIN p # {}
  BY DEF TypeInv, RunTypes
<1>2. Carried(s) /\ r \in DOMAIN s.project /\ s.project = w /\ s.added = run.added
  BY <1>1, SavedParts
<1>3. SameShown(p, w)
  BY <1>1, CountedShown
<1>. HIDE DEF s, w
<1>4. BaselineIsOverride(w)
  BY <1>1, <1>3, SameAtRest
<1>5. AddedBehind(s, additions, r + 1)
  BY <1>1, <1>2, <1>3, SameAdded
<1>. QED
  BY <1>2, <1>4, <1>5 DEF s, w

\* A project whose milestones all follow on each other and add up is at rest.
LEMMA FollowingRest ==
  ASSUME NEW p, IsProject(p), DOMAIN p # {}, NEW files, BaselineIsOverride(p),
         \A r \in AfterBaseline(p) : Follows(p, r),
         \A r \in AfterBaseline(p) : p[r].status = "complete" => Adds(p, files, Previous(p, r), r)
  PROVE  AtRest(p, files)
<1>1. /\ AfterBaseline(p) = DOMAIN p \ {Baseline(p)} /\ DOMAIN p \subseteq Nat
      /\ Baseline(p) \in DOMAIN p /\ \A q \in DOMAIN p : Baseline(p) <= q
  BY Places
<1>2. \A r \in AfterBaseline(p) : p[r].status \in {"complete", "error"}
  BY DEF Follows
<1>3. ASSUME NEW r \in AfterBaseline(p), Paired(p[r])
      PROVE  LET q == p[r].from
             IN  /\ q < r /\ \A x \in Between(p, q, r) : ~Paired(p[x])
                 /\ (\A x \in Between(p, q, r) : p[x].status = "pending") => Adds(p, files, q, r)
  <2> DEFINE q == LastComplete(p, r)
  <2> DEFINE v == Previous(p, r)
  <2>1. p[r].status = "complete" /\ p[r].from = q
    BY <1>3 DEF Paired, Follows
  <2>2. /\ q \in DOMAIN p /\ q < r /\ v \in DOMAIN p /\ v < r
        /\ \A x \in DOMAIN p : x < r => x <= v
        /\ \A x \in DOMAIN p : x < r /\ p[x].status = "complete" => x <= q
    BY <1>3, Places
  <2>. HIDE DEF q, v
  <2>3. \A x \in Between(p, q, r) : x \in AfterBaseline(p) /\ p[x].status # "complete"
    <3> SUFFICES ASSUME NEW x \in DOMAIN p, q < x, x < r
                 PROVE  x # Baseline(p) /\ p[x].status # "complete"
      BY <1>1 DEF Between
    <3>1. x \in Nat /\ q \in Nat /\ Baseline(p) <= q
      BY <1>1, <2>2
    <3>. QED
      BY <2>2, <3>1
  <2>4. ASSUME \A x \in Between(p, q, r) : p[x].status = "pending" PROVE Adds(p, files, q, r)
    <3>1. Between(p, q, r) = {}
      BY <1>2, <2>3, <2>4
    <3>2. ~(q < v)
      BY <2>2, <3>1 DEF Between
    <3>3. q \in Nat /\ v \in Nat /\ q <= v
      BY <1>1, <2>2
    <3>4. v = q
      BY <3>2, <3>3
    <3>. QED
      BY <2>1, <3>4 DEF v
  <2>. QED
    BY <2>1, <2>2, <2>3, <2>4 DEF Paired
<1>. QED
  BY <1>2, <1>3 DEF AtRest

LEMMA GrowthFinish ==
  ASSUME TypeInv, Chain(run), FinishRun, BaselineIsOverride(run.project),
         \A r \in AfterBaseline(run.project) : AddedBehind(run, additions, r + 1)
  PROVE  /\ AtRest(stored', additions')
         /\ \A r \in AfterBaseline(stored') :
              stored'[r].status = "complete" => Adds(stored', additions', Previous(stored', r), r)
<1> DEFINE p == run.project
<1> DEFINE files == FilesOver(run.added, additions)
<1>1. /\ run.at = "finish" /\ stored' = Counted(p, additions') /\ additions' = files
      /\ IsProject(p) /\ DOMAIN p # {}
  BY DEF FinishRun, FilesAfter, FilesOver, TypeInv, RunTypes
<1>2. AfterBaseline(p) \subseteq DOMAIN p /\ DOMAIN p \subseteq Nat
      /\ \A r \in AfterBaseline(p) : Previous(p, r) \in DOMAIN p
  BY <1>1, Places
<1>3. \A r \in AfterBaseline(p) : p[r].status = "complete" => Adds(p, files, Previous(p, r), r)
  <2>1. \A r \in AfterBaseline(p) : r < r + 1
    BY <1>2
  <2>. QED
    BY <2>1 DEF AddedBehind
<1>4. \A r \in AfterBaseline(p) : Follows(p, r)
  BY <1>1 DEF Chain
<1>5. SameShown(p, stored')
  BY <1>1, CountedShown
<1>. HIDE DEF p, files
<1>6. AtRest(p, files)
  BY <1>1, <1>3, <1>4, FollowingRest DEF p
<1>7. /\ AfterBaseline(stored') = AfterBaseline(p) /\ \A r : Previous(stored', r) = Previous(p, r)
  BY <1>5, SameList DEF SameShown
<1>8. ASSUME NEW r \in AfterBaseline(p), stored'[r].status = "complete"
      PROVE  Adds(stored', files, Previous(p, r), r)
  <2>1. Adds(p, files, Previous(p, r), r)
    BY <1>2, <1>3, <1>5, <1>8 DEF SameShown
  <2>. QED
    BY <1>2, <1>5, <1>8, <2>1 DEF Adds, SameShown
<1>9. AtRest(stored', files)
  BY <1>1, <1>5, <1>6, SameAtRest
<1>. QED
  BY <1>1, <1>7, <1>8, <1>9

LEMMA ClaimedMember ==
  ASSUME NEW p, NEW r, NEW c
  PROVE  c \in ClaimedBefore(p, r) <=> \E q \in DOMAIN p : q < r /\ c \in Claim(p[q])
<1> DEFINE T == {q \in DOMAIN p : q < r}
<1> DEFINE K(q) == Claim(p[q])
<1>1. ClaimedBefore(p, r) = UNION {K(q) : q \in T}
  BY DEF ClaimedBefore
<1>. HIDE DEF K
<1>2. c \in UNION {K(q) : q \in T} <=> \E q \in T : c \in K(q)
  OBVIOUS
<1>. QED
  BY <1>1, <1>2 DEF K

\* What is claimed before a milestone, when nothing is claimed between.
LEMMA ClaimedFrom ==
  ASSUME NEW p, DOMAIN p \subseteq Nat, NEW q \in DOMAIN p, NEW r \in DOMAIN p, q < r,
         \A x \in Between(p, q, r) : Claim(p[x]) = {}
  PROVE  ClaimedBefore(p, r) = ClaimedBefore(p, q) \cup Claim(p[q])
<1>1. ASSUME NEW x \in DOMAIN p, x < r, ~(x < q), x # q PROVE Claim(p[x]) = {}
  BY <1>1 DEF Between
<1>2. \A x \in DOMAIN p : x < q => x < r
  OBVIOUS
<1>3. ASSUME NEW c
      PROVE  c \in ClaimedBefore(p, r) <=> c \in ClaimedBefore(p, q) \/ c \in Claim(p[q])
  <2>1. c \in ClaimedBefore(p, r) <=> \E x \in DOMAIN p : x < r /\ c \in Claim(p[x])
    BY ClaimedMember
  <2>2. c \in ClaimedBefore(p, q) <=> \E x \in DOMAIN p : x < q /\ c \in Claim(p[x])
    BY ClaimedMember
  <2>3. \A x \in DOMAIN p : x < r /\ c \in Claim(p[x]) => x < q \/ x = q
    BY <1>1
  <2>. QED
    BY <1>2, <2>1, <2>2, <2>3
<1>. QED
  BY <1>3

\* What recomputing every milestone makes of each.
LEMMA RecomputedShows ==
  ASSUME NEW p, IsProject(p), NEW r \in DOMAIN p
  PROVE  LET m == RecomputedAll(p)[r]
         IN  /\ m.from = p[r].from /\ m.candidate = p[r].candidate /\ m.override = p[r].override
             /\ Skipped(p[r]) => m.status = "pending" /\ m.cumulative = {}
             /\ ~Skipped(p[r]) => /\ m.cumulative = ClaimedBefore(p, r) \cup Claim(p[r])
                                  /\ m.status = (IF p[r].status = "error" THEN "error" ELSE "complete")
<1>1. PICK m \in Milestone : m = p[r]
  BY DEF IsProject
<1>2. PICK b \in SUBSET Cells : b = ClaimedBefore(p, r)
  BY ClaimedCells
<1>3. RecomputedAll(p)[r] = Recomputed(m, b)
  BY <1>1, <1>2 DEF RecomputedAll
<1>4. /\ Recomputed(m, b).from = m.from /\ Recomputed(m, b).candidate = m.candidate
      /\ Recomputed(m, b).override = m.override
  BY RecomputedParts
<1>5. Skipped(m) => Recomputed(m, b).status = "pending" /\ Recomputed(m, b).cumulative = {}
  BY RecomputedParts
<1>6. ~Skipped(m) => /\ Recomputed(m, b).cumulative = b \cup Claim(m)
                     /\ Recomputed(m, b).status = (IF m.status = "error" THEN "error" ELSE "complete")
  BY RecomputedParts
<1>. QED
  BY <1>1, <1>2, <1>3, <1>4, <1>5, <1>6

\* Recomputing every milestone of a project at rest leaves it at rest, whatever
\* the overrides are now.
LEMMA RecomputedRest ==
  ASSUME NEW d, NEW files, AtRest(d, files), NEW p, IsProject(p), DOMAIN p # {},
         DOMAIN p = DOMAIN d,
         \A r \in DOMAIN p : /\ p[r].status = d[r].status /\ p[r].from = d[r].from
                             /\ p[r].candidate = d[r].candidate,
         NEW new,
         \A r \in DOMAIN p : ~Skipped(p[r]) => new[r] = Claim(p[r]) \ ClaimedBefore(p, r)
  PROVE  AtRest(RecomputedAll(p), new)
<1> DEFINE w == RecomputedAll(p)
<1> DEFINE B(r) == ClaimedBefore(p, r)
<1> DEFINE base == Baseline(p)
<1>1. /\ AfterBaseline(p) = DOMAIN p \ {base} /\ DOMAIN p \subseteq Nat
      /\ base \in DOMAIN p /\ \A q \in DOMAIN p : base <= q
      /\ AfterBaseline(d) = AfterBaseline(p) /\ Baseline(d) = base
      /\ \A q, r : Between(d, q, r) = Between(p, q, r)
  BY Places, SameList DEF Between
<1>2. /\ IsProject(w) /\ DOMAIN w = DOMAIN p
      /\ \A r \in DOMAIN p : B(r) \in SUBSET Cells /\ w[r] = Recomputed(p[r], B(r)) /\ p[r] \in Milestone
  BY RecomputedAllParts DEF IsProject
<1>3. /\ Baseline(w) = base /\ AfterBaseline(w) = AfterBaseline(p)
      /\ \A q, r : Between(w, q, r) = Between(p, q, r)
  BY <1>2, SameList DEF Between
<1>. HIDE DEF w, B
<1>4. \A r \in DOMAIN p :
        /\ w[r].from = d[r].from /\ w[r].candidate = d[r].candidate /\ w[r].override = p[r].override
        /\ Skipped(p[r]) => w[r].status = "pending" /\ w[r].cumulative = {}
        /\ ~Skipped(p[r]) => /\ w[r].cumulative = B(r) \cup Claim(p[r])
                             /\ w[r].status = (IF d[r].status = "error" THEN "error" ELSE "complete")
  BY RecomputedShows DEF w, B
<1>5. \A r \in DOMAIN p : /\ Claim(w[r]) = Claim(p[r])
                          /\ Skipped(p[r]) => d[r].status = "pending" /\ Claim(p[r]) = {}
  BY <1>4 DEF Claim, Skipped
<1>6. B(base) = {}
  <2>1. {q \in DOMAIN p : q < base} = {}
    BY <1>1
  <2>. QED
    BY <2>1 DEF B, ClaimedBefore
<1>7. BaselineIsOverride(w)
  <2>1. d[base].from = NoPair /\ d[base].candidate = {}
    BY <1>1 DEF AtRest, BaselineIsOverride
  <2>2. Claim(p[base]) = p[base].override
    BY <1>1, <2>1 DEF Claim
  <2>3. /\ w[base].from = NoPair /\ w[base].candidate = {} /\ w[base].override = p[base].override
        /\ w[base].cumulative = (IF Skipped(p[base]) THEN {} ELSE B(base) \cup Claim(p[base]))
        /\ Skipped(p[base]) => Claim(p[base]) = {}
    BY <1>1, <1>4, <1>5, <2>1
  <2>4. w[base].cumulative = Claim(p[base])
    BY <1>6, <2>3
  <2>. QED
    BY <1>3, <2>2, <2>3, <2>4 DEF BaselineIsOverride
<1>8. \A r \in AfterBaseline(p) :
        /\ w[r].status \in {"pending", "complete", "error"}
        /\ w[r].status = "pending" => w[r].from = NoPair /\ Claim(w[r]) = {}
        /\ d[r].status = "pending" => d[r].from = NoPair
        /\ d[r].status \in {"pending", "complete", "error"}
  BY <1>1, <1>4, <1>5 DEF AtRest
<1>9. \A r \in AfterBaseline(p) : /\ Paired(w[r]) <=> Paired(d[r])
                                  /\ Paired(d[r]) => ~Skipped(p[r])
  BY <1>1, <1>4, <1>5, <1>8 DEF Paired
<1>10. ASSUME NEW r \in AfterBaseline(p), Paired(w[r]), w[r].from \in DOMAIN p,
              w[r].from = base \/ Paired(w[w[r].from])
       PROVE  LET q == w[r].from
              IN  /\ q < r /\ \A x \in Between(p, q, r) : ~Paired(w[x])
                  /\ (\A x \in Between(p, q, r) : w[x].status = "pending") => Adds(w, new, q, r)
  <2> DEFINE q == d[r].from
  <2>1. r \in DOMAIN p /\ w[r].from = q /\ q \in DOMAIN p /\ Paired(d[r]) /\ ~Skipped(p[r])
    BY <1>1, <1>4, <1>9, <1>10
  <2>2. q = base \/ (q \in AfterBaseline(p) /\ Paired(d[q]) /\ ~Skipped(p[q]))
    BY <1>1, <1>9, <1>10, <2>1
  <2>3. q < r /\ \A x \in Between(p, q, r) : ~Paired(d[x])
    BY <1>1, <1>10, <2>1, <2>2 DEF AtRest
  <2>. HIDE DEF q
  <2>4. \A x \in Between(p, q, r) : x \in AfterBaseline(p)
    <3> SUFFICES ASSUME NEW x \in DOMAIN p, q < x PROVE x # base
      BY <1>1 DEF Between
    <3>1. x \in Nat /\ q \in Nat /\ base <= q
      BY <1>1, <2>1
    <3>. QED
      BY <3>1
  <2>5. \A x \in Between(p, q, r) : ~Paired(w[x])
    BY <1>9, <2>3, <2>4
  <2>6. ASSUME \A x \in Between(p, q, r) : w[x].status = "pending" PROVE Adds(w, new, q, r)
    <3>1. \A x \in Between(p, q, r) : Claim(p[x]) = {}
      BY <1>1, <1>5, <1>8, <2>4, <2>6
    <3>2. B(r) = B(q) \cup Claim(p[q])
      <4>1. q < r /\ r \in DOMAIN p /\ q \in DOMAIN p /\ DOMAIN p \subseteq Nat
        BY <1>1, <2>1, <2>3
      <4>2. ClaimedBefore(p, r) = ClaimedBefore(p, q) \cup Claim(p[q])
        BY <3>1, <4>1, ClaimedFrom
      <4>. QED
        BY <4>2 DEF B
    <3>3. w[q].cumulative = B(r)
      BY <1>4, <1>5, <1>6, <2>1, <2>2, <3>2
    <3>4. w[r].cumulative = B(r) \cup Claim(p[r]) /\ new[r] = Claim(p[r]) \ B(r)
      BY <1>4, <2>1 DEF B
    <3>. QED
      BY <3>3, <3>4 DEF Adds
  <2>. QED
    BY <2>1, <2>3, <2>5, <2>6
<1>11. AtRest(w, new)
  BY <1>2, <1>3, <1>7, <1>8, <1>10 DEF AtRest
<1>. QED
  BY <1>11 DEF w

\* What AtRest says of the milestone r whose pair starts at q.
RestOfPair(p, files, q, r) ==
  /\ q < r
  /\ \A x \in Between(p, q, r) : ~Paired(p[x])
  /\ (\A x \in Between(p, q, r) : p[x].status = "pending") => Adds(p, files, q, r)

\* A new milestone waits for its pair and claims nothing.
LEMMA AddedRest ==
  ASSUME NEW d, NEW files, IsProject(d), DOMAIN d # {}, AtRest(d, files),
         NEW r \in Releases, r \notin DOMAIN d, r > Baseline(d)
  PROVE  LET p == [q \in DOMAIN d \cup {r} |-> IF q = r THEN NewMilestone ELSE d[q]]
         IN  IsProject(p) /\ DOMAIN p # {} /\ AtRest(p, files)
<1> DEFINE p == [q \in DOMAIN d \cup {r} |-> IF q = r THEN NewMilestone ELSE d[q]]
<1> DEFINE base == Baseline(d)
<1>1. /\ DOMAIN d \subseteq Nat /\ base \in DOMAIN d /\ \A q \in DOMAIN d : base <= q
      /\ AfterBaseline(d) = DOMAIN d \ {base} /\ r \in Nat /\ base < r
  BY Places, ReleasesAssumption
<1>2. /\ DOMAIN p = DOMAIN d \cup {r} /\ p[r] = NewMilestone /\ \A q \in DOMAIN d : p[q] = d[q]
  OBVIOUS
<1>3. NewMilestone \in Milestone /\ ~Paired(NewMilestone) /\ Claim(NewMilestone) = {}
      /\ NewMilestone.status = "pending" /\ NewMilestone.from = NoPair
  BY DEF NewMilestone, Milestone, Paired, Claim
<1>. HIDE DEF p
<1>4. IsProject(p) /\ DOMAIN p # {}
  BY <1>2, <1>3 DEF IsProject
<1>5. Baseline(p) = base
  <2>1. base \in DOMAIN p /\ DOMAIN p \subseteq Int /\ \A q \in DOMAIN p : base <= q
    BY <1>1, <1>2
  <2>. HIDE DEF base
  <2>. QED
    BY <2>1, MinUnique DEF Baseline
<1>6. AfterBaseline(p) = AfterBaseline(d) \cup {r}
  <2>1. AfterBaseline(p) = DOMAIN p \ {base}
    BY <1>4, <1>5, Places
  <2>. QED
    BY <1>1, <1>2, <2>1
<1>. HIDE DEF base
<1>7. BaselineIsOverride(p)
  <2>1. p[base] = d[base]
    BY <1>1, <1>2
  <2>. QED
    BY <1>5, <2>1 DEF AtRest, BaselineIsOverride, base
<1>8. \A x \in AfterBaseline(p) :
        /\ p[x].status \in {"pending", "complete", "error"}
        /\ p[x].status = "pending" => p[x].from = NoPair /\ Claim(p[x]) = {}
  <2>1. \A x \in AfterBaseline(d) : p[x] = d[x]
    BY <1>1, <1>2
  <2>. QED
    BY <1>2, <1>3, <1>6, <2>1 DEF AtRest
<1>9. ASSUME NEW x \in AfterBaseline(p), Paired(p[x]), p[x].from \in DOMAIN p,
             p[x].from = base \/ Paired(p[p[x].from])
      PROVE  RestOfPair(p, files, p[x].from, x)
  <2> DEFINE q == d[x].from
  <2>1. x \in AfterBaseline(d) /\ p[x] = d[x]
    BY <1>1, <1>2, <1>3, <1>6, <1>9
  <2>2. q \in DOMAIN d /\ p[x].from = q /\ p[q] = d[q]
    BY <1>1, <1>2, <1>3, <1>9, <2>1
  <2>3. RestOfPair(d, files, q, x)
    BY <1>9, <2>1, <2>2 DEF AtRest, RestOfPair, base
  <2>. HIDE DEF q
  <2>4. /\ \A y \in Between(d, q, x) : y \in Between(p, q, x) /\ p[y] = d[y]
        /\ \A y \in Between(p, q, x) : y = r \/ y \in Between(d, q, x)
    BY <1>2 DEF Between
  <2>5. \A y \in Between(p, q, x) : ~Paired(p[y])
    BY <1>2, <1>3, <2>3, <2>4 DEF RestOfPair
  <2>6. Adds(d, files, q, x) => Adds(p, files, q, x)
    BY <2>1, <2>2 DEF Adds
  <2>. QED
    BY <2>2, <2>3, <2>4, <2>5, <2>6 DEF RestOfPair
<1>10. AtRest(p, files)
  BY <1>5, <1>7, <1>8, <1>9 DEF AtRest, RestOfPair
<1>. QED
  BY <1>4, <1>10 DEF p

\* A milestone that leaves either never ran or is the result of a pair: no other
\* pair reached across it unless it claimed nothing.
LEMMA RemovedRest ==
  ASSUME NEW d, NEW files, IsProject(d), DOMAIN d # {}, AtRest(d, files),
         NEW r \in DOMAIN d, r # Baseline(d), ~Unpaired(d[r])
  PROVE  LET p == [q \in DOMAIN d \ {r} |-> d[q]]
         IN  IsProject(p) /\ DOMAIN p # {} /\ AtRest(p, files)
<1> DEFINE p == [q \in DOMAIN d \ {r} |-> d[q]]
<1> DEFINE base == Baseline(d)
<1>1. /\ DOMAIN d \subseteq Nat /\ base \in DOMAIN d /\ \A q \in DOMAIN d : base <= q
      /\ AfterBaseline(d) = DOMAIN d \ {base}
  BY Places
<1>2. DOMAIN p = DOMAIN d \ {r} /\ \A q \in DOMAIN p : p[q] = d[q]
  OBVIOUS
<1>. HIDE DEF p
<1>3. IsProject(p) /\ DOMAIN p # {}
  BY <1>1, <1>2 DEF IsProject
<1>4. Baseline(p) = base
  <2>1. base \in DOMAIN p /\ DOMAIN p \subseteq Int /\ \A q \in DOMAIN p : base <= q
    BY <1>1, <1>2
  <2>. HIDE DEF base
  <2>. QED
    BY <2>1, MinUnique DEF Baseline
<1>5. AfterBaseline(p) = AfterBaseline(d) \ {r} /\ AfterBaseline(p) \subseteq DOMAIN p
  <2>1. AfterBaseline(p) = DOMAIN p \ {base}
    BY <1>3, <1>4, Places
  <2>. QED
    BY <1>1, <1>2, <2>1
<1>6. BaselineIsOverride(p)
  <2>1. p[base] = d[base]
    BY <1>1, <1>2
  <2>. QED
    BY <1>4, <2>1 DEF AtRest, BaselineIsOverride
<1>. HIDE DEF base
<1>7. \A x \in AfterBaseline(p) :
        /\ p[x].status \in {"pending", "complete", "error"}
        /\ p[x].status = "pending" => p[x].from = NoPair /\ Claim(p[x]) = {}
  <2>1. \A x \in AfterBaseline(p) : x \in AfterBaseline(d) /\ p[x] = d[x]
    BY <1>2, <1>5
  <2>. QED
    BY <2>1 DEF AtRest
<1>8. ASSUME NEW x \in AfterBaseline(p), Paired(p[x]), p[x].from \in DOMAIN p,
             p[x].from = base \/ Paired(p[p[x].from])
      PROVE  RestOfPair(p, files, p[x].from, x)
  <2> DEFINE q == d[x].from
  <2>1. x \in AfterBaseline(d) /\ p[x] = d[x]
    BY <1>2, <1>5
  <2>2. q \in DOMAIN d /\ p[x].from = q /\ p[q] = d[q]
    BY <1>2, <1>8, <2>1
  <2>3. RestOfPair(d, files, q, x)
    BY <1>8, <2>1, <2>2 DEF AtRest, RestOfPair, base
  <2>. HIDE DEF q
  <2>4. /\ \A y \in Between(p, q, x) : y \in Between(d, q, x) /\ p[y] = d[y]
        /\ \A y \in Between(d, q, x) : y = r \/ y \in Between(p, q, x)
    BY <1>2 DEF Between
  <2>5. \A y \in Between(p, q, x) : ~Paired(p[y])
    BY <2>3, <2>4 DEF RestOfPair
  <2>6. ASSUME \A y \in Between(p, q, x) : p[y].status = "pending" PROVE Adds(d, files, q, x)
    <3>1. \A y \in Between(d, q, x) : d[y].status = "pending"
      BY <2>3, <2>4, <2>6 DEF RestOfPair, Unpaired
    <3>. QED
      BY <2>3, <3>1 DEF RestOfPair
  <2>7. Adds(d, files, q, x) => Adds(p, files, q, x)
    BY <2>1, <2>2 DEF Adds
  <2>. QED
    BY <2>2, <2>3, <2>5, <2>6, <2>7 DEF RestOfPair
<1>9. AtRest(p, files)
  BY <1>4, <1>6, <1>7, <1>8 DEF AtRest, RestOfPair
<1>. QED
  BY <1>3, <1>9 DEF p

\* An edit that leaves at rest what it saves.
LEMMA GrowthEdited ==
  ASSUME NEW p, IsProject(p), DOMAIN p # {}, NEW added, SaveEdited(p, added),
         run.at = "idle", AtRest(p, FilesAfter(added))
  PROVE  Growing'
<1>1. /\ additions' = FilesAfter(added) /\ stored' = Counted(p, additions')
      /\ draft' = NoDraft /\ run' = run
  BY DEF SaveEdited
<1>2. SameShown(p, stored')
  BY <1>1, CountedShown
<1>3. AtRest(stored', additions')
  BY <1>1, <1>2, SameAtRest
<1>. QED
  BY <1>1, <1>3 DEF Growing

LEMMA GrowingStep == TypeInv /\ Chain(run) /\ Growing /\ [Next]_vars => Growing'
<1> SUFFICES ASSUME TypeInv, Chain(run), Growing, [Next]_vars, ~disturbed' PROVE Growing'
  BY DEF Growing
<1>1. CASE StartRun
  <2>1. ~disturbed /\ draft = NoDraft /\ run.at = "idle"
    BY <1>1 DEF StartRun
  <2>2. AtRest(stored, additions) /\ additions' = additions /\ draft' = draft
    BY <1>1, <2>1 DEF Growing, StartRun
  <2>. QED
    BY <1>1, <2>1, <2>2, GrowthStart DEF Growing
<1>2. CASE PairSucceeds
  <2>1. ~disturbed /\ run.at = "pair" /\ additions' = additions /\ draft' = draft
    BY <1>2 DEF PairSucceeds
  <2>2. /\ draft = NoDraft /\ BaselineIsOverride(run.project)
        /\ AddedBehind(run, additions, run.milestone)
    BY <2>1 DEF Growing
  <2>3. PICK found \in SUBSET Cells : run' = Applied(found)
    BY <1>2 DEF PairSucceeds
  <2>4. /\ run'.at = "files" /\ BaselineIsOverride(run'.project)
        /\ AddedBehind(run', additions, run'.milestone + 1)
    BY <2>1, <2>2, <2>3, GrowthApplied
  <2>. QED
    BY <2>1, <2>2, <2>4 DEF Growing
<1>3. CASE PairFails
  <2> DEFINE s == [run EXCEPT !.project[run.milestone].status = "error"]
  <2>1. /\ ~disturbed /\ run.at = "pair" /\ additions' = additions /\ draft' = draft
        /\ run' = Advance(s, run.milestone)
    BY <1>3 DEF PairFails
  <2>2. /\ draft = NoDraft /\ BaselineIsOverride(run.project)
        /\ AddedBehind(run, additions, run.milestone)
    BY <2>1 DEF Growing
  <2>3. /\ Carried(s) /\ run.milestone \in DOMAIN s.project /\ BaselineIsOverride(s.project)
        /\ AddedBehind(s, additions, run.milestone + 1)
    BY <2>1, <2>2, GrowthFailed
  <2>. HIDE DEF s
  <2>4. /\ run'.project = s.project /\ run'.at \in {"pair", "finish"}
        /\ run'.at = "pair" => AddedBehind(run', additions, run'.milestone)
        /\ run'.at = "finish" =>
             \A x \in AfterBaseline(run'.project) : AddedBehind(run', additions, x + 1)
    BY <2>1, <2>3, AdvanceParts, AdvanceGrowth
  <2>. QED
    BY <2>1, <2>2, <2>3, <2>4 DEF Growing
<1>4. CASE SaveFiles
  <2>1. ~disturbed /\ run.at = "files" /\ draft' = draft
    BY <1>4 DEF SaveFiles
  <2>2. /\ draft = NoDraft /\ BaselineIsOverride(run.project)
        /\ AddedBehind(run, additions, run.milestone + 1)
    BY <2>1 DEF Growing
  <2>. QED
    BY <1>4, <2>1, <2>2, GrowthFiles DEF Growing
<1>5. CASE SaveProject
  <2> DEFINE s == [run EXCEPT !.project = Counted(run.project, additions),
                              !.source = run.milestone,
                              !.built = run.project[run.milestone].cumulative]
  <2>1. /\ ~disturbed /\ run.at = "json" /\ additions' = additions /\ draft' = draft
        /\ run' = Advance(s, run.milestone)
    BY <1>5 DEF SaveProject
  <2>2. /\ draft = NoDraft /\ BaselineIsOverride(run.project)
        /\ AddedBehind(run, additions, run.milestone + 1)
    BY <2>1 DEF Growing
  <2>3. /\ Carried(s) /\ run.milestone \in DOMAIN s.project /\ BaselineIsOverride(s.project)
        /\ AddedBehind(s, additions, run.milestone + 1)
    BY <2>1, <2>2, GrowthSaved
  <2>. HIDE DEF s
  <2>4. /\ run'.project = s.project /\ run'.at \in {"pair", "finish"}
        /\ run'.at = "pair" => AddedBehind(run', additions, run'.milestone)
        /\ run'.at = "finish" =>
             \A x \in AfterBaseline(run'.project) : AddedBehind(run', additions, x + 1)
    BY <2>1, <2>3, AdvanceParts, AdvanceGrowth
  <2>. QED
    BY <2>1, <2>2, <2>3, <2>4 DEF Growing
<1>6. CASE FinishRun
  <2>1. ~disturbed /\ run.at = "finish" /\ draft' = draft /\ run' = NoRun
    BY <1>6 DEF FinishRun
  <2>2. /\ draft = NoDraft /\ BaselineIsOverride(run.project)
        /\ \A r \in AfterBaseline(run.project) : AddedBehind(run, additions, r + 1)
    BY <2>1 DEF Growing
  <2>3. AtRest(stored', additions')
    BY <1>6, <2>2, GrowthFinish
  <2>4. run'.at = "idle"
    BY <2>1 DEF NoRun
  <2>. QED
    BY <2>1, <2>2, <2>3, <2>4 DEF Growing
<1>7. CASE Interrupt
  BY <1>7 DEF Interrupt
<1>8. CASE LoadForEdit
  <2>1. ~disturbed /\ run.at = "idle"
    BY <1>8 DEF LoadForEdit
  <2>. QED
    BY <1>8, <2>1 DEF LoadForEdit, Growing
<1>9. ASSUME NEW p, NEW added, SaveEdited(p, added), draft # NoDraft
      PROVE  /\ run.at = "idle" /\ draft = stored /\ AtRest(draft, additions)
             /\ \A r \in DOMAIN draft \ DOMAIN p : ~Unpaired(draft[r])
             /\ IsProject(draft) /\ DOMAIN draft # {} /\ DOMAIN draft \subseteq Releases
             /\ additions \in [Releases -> SUBSET Cells]
  <2>1. ~disturbed /\ run.at = "idle" /\ \A r \in DOMAIN draft \ DOMAIN p : ~Unpaired(draft[r])
    BY <1>9 DEF SaveEdited
  <2>. QED
    BY <1>9, <2>1 DEF Growing, TypeInv, IsProject
<1>10. CASE ImportSome
  <2>1. PICK r \in Releases, cells \in SUBSET Cells \ {{}} : ImportOverride(r, cells)
    BY <1>10 DEF ImportSome
  <2> DEFINE p == [draft EXCEPT ![r].override = cells]
  <2> DEFINE added == [q \in DOMAIN p |-> Gained(p[q], ClaimedBefore(p, q))]
  <2>2. SaveEdited(RecomputedAll(p), added) /\ draft # NoDraft /\ r \in DOMAIN draft
    BY <2>1 DEF ImportOverride
  <2>3. /\ run.at = "idle" /\ AtRest(draft, additions) /\ IsProject(draft) /\ DOMAIN draft # {}
        /\ DOMAIN draft \subseteq Releases
    BY <1>9, <2>2
  <2>4. DOMAIN p = DOMAIN draft /\ \A q \in DOMAIN draft :
          /\ p[q] \in Milestone /\ p[q].status = draft[q].status /\ p[q].from = draft[q].from
          /\ p[q].candidate = draft[q].candidate
    BY <2>1, <2>3 DEF IsProject, Milestone
  <2>5. DOMAIN added = DOMAIN p /\ \A q \in DOMAIN p : added[q] = Gained(p[q], ClaimedBefore(p, q))
    OBVIOUS
  <2>. HIDE DEF p, added
  <2>6. IsProject(p) /\ DOMAIN p # {}
    BY <2>3, <2>4 DEF IsProject
  <2>7. \A q \in DOMAIN p : ~Skipped(p[q]) =>
          FilesAfter(added)[q] = Claim(p[q]) \ ClaimedBefore(p, q)
    <3> SUFFICES ASSUME NEW q \in DOMAIN p, ~Skipped(p[q])
                 PROVE  FilesAfter(added)[q] = Claim(p[q]) \ ClaimedBefore(p, q)
      OBVIOUS
    <3>1. added[q] = Claim(p[q]) \ ClaimedBefore(p, q)
      BY <2>5 DEF Gained
    <3>2. Claim(p[q]) \in SUBSET Cells
      BY <2>4, <2>6 DEF Claim, IsProject, Milestone
    <3>3. Claim(p[q]) \ ClaimedBefore(p, q) \in SUBSET Cells
      BY <3>2
    <3>4. added[q] # None
      BY <3>1, <3>3, CellsAssumption
    <3>. QED
      BY <2>3, <2>4, <2>5, <3>1, <3>4 DEF FilesAfter
  <2>8. AtRest(RecomputedAll(p), FilesAfter(added))
    BY <2>3, <2>4, <2>6, <2>7, RecomputedRest
  <2>9. IsProject(RecomputedAll(p)) /\ DOMAIN RecomputedAll(p) # {}
    BY <2>6, RecomputedAllParts
  <2>. QED
    BY <2>2, <2>3, <2>8, <2>9, GrowthEdited
<1>11. ASSUME NEW r \in Releases, AddMilestone(r) PROVE Growing'
  <2> DEFINE p == [q \in DOMAIN draft \cup {r} |-> IF q = r THEN NewMilestone ELSE draft[q]]
  <2>1. /\ SaveEdited(p, << >>) /\ draft # NoDraft /\ r \notin DOMAIN draft /\ r > Baseline(draft)
    BY <1>11 DEF AddMilestone
  <2>2. /\ run.at = "idle" /\ AtRest(draft, additions) /\ IsProject(draft) /\ DOMAIN draft # {}
        /\ additions \in [Releases -> SUBSET Cells]
    BY <1>9, <2>1
  <2>3. FilesAfter(<< >>) = additions
    BY <2>2 DEF FilesAfter
  <2>4. IsProject(p) /\ DOMAIN p # {} /\ AtRest(p, additions)
    BY <2>1, <2>2, AddedRest
  <2>. HIDE DEF p
  <2>. QED
    BY <2>1, <2>2, <2>3, <2>4, GrowthEdited
<1>12. ASSUME NEW r \in Releases, RemoveMilestone(r) PROVE Growing'
  <2> DEFINE p == [q \in DOMAIN draft \ {r} |-> draft[q]]
  <2>1. /\ SaveEdited(p, << >>) /\ draft # NoDraft /\ r \in DOMAIN draft /\ r # Baseline(draft)
        /\ r \in DOMAIN draft \ DOMAIN p
    BY <1>12 DEF RemoveMilestone
  <2>2. /\ run.at = "idle" /\ AtRest(draft, additions) /\ IsProject(draft) /\ DOMAIN draft # {}
        /\ additions \in [Releases -> SUBSET Cells] /\ ~Unpaired(draft[r])
    BY <1>9, <2>1
  <2>3. FilesAfter(<< >>) = additions
    BY <2>2 DEF FilesAfter
  <2>4. IsProject(p) /\ DOMAIN p # {} /\ AtRest(p, additions)
    BY <2>1, <2>2, RemovedRest
  <2>. HIDE DEF p
  <2>. QED
    BY <2>1, <2>2, <2>3, <2>4, GrowthEdited
<1>13. CASE UNCHANGED vars
  BY <1>13 DEF vars, Growing
<1>. QED
  BY <1>1, <1>2, <1>3, <1>4, <1>5, <1>6, <1>7, <1>8, <1>10, <1>11, <1>12, <1>13 DEF Next, Edit

(* When runs are neither interrupted nor overlapped by edits and only        *)
(* milestones that wait or are the result of a pair leave the list, a run    *)
(* leaves each complete milestone with the footprint of the one before it    *)
(* and its own additions - kept or recomputed, whatever edits came before.   *)
THEOREM TemporalGrowth == Spec => GrowthAddsUp
<1> DEFINE Inv == TypeInv /\ Chain(run) /\ Growing
<1> DEFINE AddUp == FinishRun /\ ~disturbed =>
                      \A r \in AfterBaseline(stored') :
                        LET before == stored'[Previous(stored', r)].cumulative
                        IN  stored'[r].status = "complete" =>
                              /\ before \subseteq stored'[r].cumulative
                              /\ additions'[r] = stored'[r].cumulative \ before
<1>1. Init => Inv
  <2> SUFFICES ASSUME Init PROVE Growing
    BY TypeInit, NoRunTypes DEF Init
  <2>1. /\ stored = [r \in Listed |-> NewMilestone] /\ run.at = "idle" /\ draft = NoDraft
    BY DEF Init, NoRun
  <2>2. IsProject(stored) /\ DOMAIN stored # {}
    BY TypeInit DEF TypeInv
  <2>3. Baseline(stored) \in DOMAIN stored /\ AfterBaseline(stored) \subseteq DOMAIN stored
    BY <2>2, Places
  <2>4. \A r \in DOMAIN stored :
          /\ stored[r].status = "pending" /\ stored[r].from = NoPair /\ Claim(stored[r]) = {}
          /\ stored[r].candidate = {} /\ stored[r].cumulative = {} /\ stored[r].override = {}
    BY <2>1 DEF NewMilestone, Claim
  <2>5. AtRest(stored, additions)
    BY <2>3, <2>4 DEF AtRest, BaselineIsOverride, Paired
  <2>. QED
    BY <2>1, <2>5 DEF Growing
<1>2. Inv /\ [Next]_vars => Inv'
  BY TypeStep, ChainStep, GrowingStep
<1>3. Inv => AddUp
  <2> SUFFICES ASSUME Inv, FinishRun, ~disturbed, NEW r \in AfterBaseline(stored'),
                      stored'[r].status = "complete"
               PROVE  Adds(stored', additions', Previous(stored', r), r)
    BY DEF Adds
  <2>1. run.at = "finish"
    BY DEF FinishRun
  <2>2. /\ BaselineIsOverride(run.project)
        /\ \A q \in AfterBaseline(run.project) : AddedBehind(run, additions, q + 1)
    BY <2>1 DEF Growing
  <2>. QED
    BY <2>2, GrowthFinish
<1>. HIDE DEF Inv
<1>4. Inv /\ [Next]_vars => [AddUp]_vars
  BY <1>3
<1>. QED
  BY <1>1, <1>2, <1>4, PTL DEF Spec, GrowthAddsUp
=============================================================================
