----------------------------- MODULE LookAside -----------------------------
(***************************************************************************)
(* What a cache kept beside a slow service promises its callers, with no   *)
(* word of locks, files and deadlines.  A caller answers with what it      *)
(* computed itself or with what it found within its time to live; an       *)
(* answer is final; only a result somebody computed is stored, and never   *)
(* over one that is still good.                                            *)
(***************************************************************************)
CONSTANTS
  Callers,             \* who asks, once each
  Earlier,             \* the author of what was there before
  NoAnswer, Nothing    \* no answer yet; an empty cache

VARIABLES
  entry,    \* what is stored: its author, and whether it is within its time
  answer,   \* the author of the answer of each caller
  state     \* "asking", "done", "failed" or "crashed"

vars == <<entry, answer, state>>

Init ==
  /\ entry \in {[by |-> Nothing, fresh |-> FALSE]} \cup [by : {Earlier}, fresh : BOOLEAN]
  /\ answer = [w \in Callers |-> NoAnswer]
  /\ state = [w \in Callers |-> "asking"]

Unanswered(w) == state[w] = "asking" /\ answer[w] = NoAnswer

Hit(w) ==
  /\ Unanswered(w) /\ entry.fresh
  /\ answer' = [answer EXCEPT ![w] = entry.by]
  /\ UNCHANGED <<entry, state>>

\* A caller may compute an answer although there is one, and may leave at once.
Compute(w) ==
  /\ Unanswered(w)
  /\ answer' = [answer EXCEPT ![w] = w]
  /\ state' \in {state, [state EXCEPT ![w] = "done"]}
  /\ UNCHANGED entry

Store(w) ==
  /\ state[w] = "asking" /\ answer[w] = w /\ ~entry.fresh
  /\ entry' = [by |-> w, fresh |-> TRUE]
  /\ UNCHANGED <<answer, state>>

Finish(w) ==
  /\ state[w] = "asking" /\ answer[w] # NoAnswer
  /\ state' = [state EXCEPT ![w] = "done"]
  /\ UNCHANGED <<entry, answer>>

Fail(w) ==
  /\ Unanswered(w)
  /\ state' = [state EXCEPT ![w] = "failed"]
  /\ UNCHANGED <<entry, answer>>

Crash(w) ==
  /\ state[w] = "asking"
  /\ state' = [state EXCEPT ![w] = "crashed"]
  /\ UNCHANGED <<entry, answer>>

Expire ==
  /\ entry.fresh /\ entry' = [entry EXCEPT !.fresh = FALSE]
  /\ UNCHANGED <<answer, state>>

\* What is past its time is thrown away.
Discard ==
  /\ ~entry.fresh /\ entry' = [by |-> Nothing, fresh |-> FALSE]
  /\ UNCHANGED <<answer, state>>

Next ==
  \/ \E w \in Callers : Hit(w) \/ Compute(w) \/ Store(w) \/ Finish(w) \/ Fail(w) \/ Crash(w)
  \/ Expire \/ Discard

Spec == Init /\ [][Next]_vars
=============================================================================
