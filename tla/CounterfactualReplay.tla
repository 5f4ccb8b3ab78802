------------------------ MODULE CounterfactualReplay ------------------------
(***************************************************************************)
(* The counterfactual replay of backend/kernel/authorization/replay.py:    *)
(* the inputs of a decision are overridden and the real gate is asked      *)
(* again, with the nonce and the key taken as fresh; a diff tells which    *)
(* predicates came out differently.                                        *)
(***************************************************************************)
EXTENDS AuthorizationGate

CONSTANTS
  Inputs,     \* resolved inputs of the original decision
  Overrides   \* sets of inputs to turn around

VARIABLES inputs, overrides, done

replayVars == << inputs, overrides, done >>

InputNames ==
  { "principal_active", "agent_active", "agent_owned", "mandate_active", "mandate_owned",
    "category_ok", "has_budget", "merchant_ok", "cart_bound", "consent_valid", "consent_cart",
    "nonce_unused", "key_fresh" }

FreshNames == {"nonce_unused", "key_fresh"}

ASSUME InputAssumption ==
  Inputs \subseteq [InputNames -> BOOLEAN] /\ Overrides \subseteq SUBSET (InputNames \ FreshNames)

\* Mutant: the nonce and the key are those of the original.
Replayed_Stale(in, turned) == [n \in InputNames |-> IF n \in turned THEN ~ in[n] ELSE in[n]]

Replayed(in, turned) ==
  [n \in InputNames |-> IF n \in FreshNames THEN TRUE ELSE IF n \in turned THEN ~ in[n] ELSE in[n]]

\* Mutant: the rule that fails is not put into the trail.
Reached_BeforeFailure(in) == IF Passes(in) THEN Rules ELSE 1 .. (FirstFailure(in) - 1)

\* The rules a decision's trail reaches.
Reached(in) == IF Passes(in) THEN Rules ELSE 1 .. FirstFailure(in)

\* The diff takes a rule that was not reached as passed.
Shown(in, r) == r \in Reached(in) => Predicates(in)[r]

Changed(in, out) == {r \in Reached(in) \cup Reached(out) : Shown(in, r) # Shown(out, r)}

-----------------------------------------------------------------------------
NoInputs == [n \in InputNames |-> TRUE]

ReplayInit == inputs = NoInputs /\ overrides = {} /\ done = FALSE

Replay(in, turned) ==
  /\ ~ done
  /\ inputs' = in /\ overrides' = turned /\ done' = TRUE

ReplayNext == \E in \in Inputs, turned \in Overrides : Replay(in, turned)

ReplaySpec == ReplayInit /\ [][ReplayNext]_replayVars

-----------------------------------------------------------------------------
Again == Replayed(inputs, overrides)

outcome_changed == Passes(inputs) # Passes(Again)

(***************************************************************************)
(* A replay without overrides tells what the original decision would have  *)
(* been for a fresh request: it differs exactly when the original was      *)
(* refused for its nonce or its key.                                       *)
(***************************************************************************)
PlainReplayIsFaithful ==
  (done /\ overrides = {}) =>
    (outcome_changed <=> (~ Passes(inputs) /\ FirstFailure(inputs) \in {15, 16}))

(***************************************************************************)
(* The diff explains the outcome: if it changed, the rule that refused,    *)
(* then or now, is among the changed ones, although neither trail goes     *)
(* beyond its first refusal (replay.py:144-156).                           *)
(***************************************************************************)
DiffExplains ==
  (done /\ outcome_changed) =>
    (IF Passes(inputs) THEN FirstFailure(Again) ELSE FirstFailure(inputs)) \in Changed(inputs, Again)
=============================================================================
