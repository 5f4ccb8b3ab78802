---------------------------- MODULE ReplayProofs ----------------------------
(***************************************************************************)
(* Machine-checked theorems about the counterfactual replay of a decision  *)
(* and about the audit of recorded decisions.                              *)
(***************************************************************************)
EXTENDS DecisionAudit, WellFoundedInduction, TLAPS

-----------------------------------------------------------------------------
(* The gate.                                                               *)

(***************************************************************************)
(* A gate that does not pass stops at a rule that failed, with every rule  *)
(* before it passed, and there is only one such rule.                      *)
(***************************************************************************)
LEMMA FirstFailureExists ==
  ASSUME NEW in, ~ Passes(in)
  PROVE  /\ FirstFailure(in) \in Rules
         /\ ~ Predicates(in)[FirstFailure(in)]
         /\ \A s \in 1 .. (FirstFailure(in) - 1) : Predicates(in)[s]
<1> DEFINE Failed == {r \in Rules : ~ Predicates(in)[r]}
<1>1. Failed # {} /\ Failed \subseteq Nat
  BY DEF Passes, Rules
<1>2. PICK r \in Failed : \A s \in Failed : ~ (<< s, r >> \in OpToRel(<, Nat))
  <2> HIDE DEF Failed
  <2> QED BY <1>1, NatLessThanWellFounded, WFMin
<1>3. \A s \in Failed : ~ (s < r)
  BY <1>1, <1>2 DEF OpToRel
<1>4. \A s \in 1 .. (r - 1) : Predicates(in)[s]
  BY <1>3 DEF Rules
<1>5. \E q \in Rules : /\ ~ Predicates(in)[q]
                       /\ \A s \in 1 .. (q - 1) : Predicates(in)[s]
  BY <1>2, <1>4
<1> QED BY <1>5 DEF FirstFailure

(***************************************************************************)
(* The trail of a refusal ends with the rule that refused, and that rule   *)
(* is the one the trail shows as failed.                                   *)
(***************************************************************************)
LEMMA TrailEndsAtFailure ==
  ASSUME NEW in, ~ Passes(in)
  PROVE  /\ FirstFailure(in) \in Reached(in)
         /\ ~ Shown(in, FirstFailure(in))
         /\ \A r \in Rules : r # FirstFailure(in) => Shown(in, r)
BY FirstFailureExists DEF Reached, Shown, Rules

(***************************************************************************)
(* A replayed decision has a fresh nonce and a fresh key and the other     *)
(* inputs of the original, as far as they are not overridden.              *)
(***************************************************************************)
LEMMA PlainPredicates ==
  ASSUME NEW in \in [InputNames -> BOOLEAN]
  PROVE  \A r \in Rules : Predicates(Replayed(in, {}))[r] <=> (r \in {15, 16} \/ Predicates(in)[r])
<1> DEFINE out == Replayed(in, {})
<1>1. /\ out.nonce_unused = TRUE /\ out.key_fresh = TRUE
      /\ out.principal_active = in.principal_active /\ out.agent_active = in.agent_active
      /\ out.agent_owned = in.agent_owned /\ out.mandate_active = in.mandate_active
      /\ out.mandate_owned = in.mandate_owned /\ out.category_ok = in.category_ok
      /\ out.has_budget = in.has_budget /\ out.merchant_ok = in.merchant_ok
      /\ out.cart_bound = in.cart_bound /\ out.consent_valid = in.consent_valid
      /\ out.consent_cart = in.consent_cart
  BY DEF Replayed, InputNames, FreshNames
<1> HIDE DEF out
<1>2. \A r \in 1 .. 14 : Predicates(out)[r] = Predicates(in)[r]
  <2>1. /\ Predicates(out)[1] = Predicates(in)[1]
        /\ Predicates(out)[2] = Predicates(in)[2]
        /\ Predicates(out)[6] = Predicates(in)[6]
    <3>1. \A x : Predicates(x)[1] = TRUE /\ Predicates(x)[2] = TRUE /\ Predicates(x)[6] = TRUE
      BY DEF Predicates
    <3> QED BY <3>1, Zenon
  <2>2. \A r \in {3, 4, 5, 7} : Predicates(out)[r] = Predicates(in)[r]
    BY <1>1 DEF Predicates
  <2>3. \A r \in 8 .. 14 : Predicates(out)[r] = Predicates(in)[r]
    BY <1>1 DEF Predicates
  <2> QED BY <2>1, <2>2, <2>3
<1>3. Predicates(out)[15] = TRUE /\ Predicates(out)[16] = TRUE
  BY <1>1 DEF Predicates
<1> QED BY <1>2, <1>3 DEF out, Rules

-----------------------------------------------------------------------------
(* The replay.                                                             *)

(***************************************************************************)
(* The outcome changed if one of the two decisions refuses and the other   *)
(* does not.                                                               *)
(***************************************************************************)
LEMMA OutcomeChanged == outcome_changed <=> ~ (Passes(inputs) <=> Passes(Again))
<1>1. Passes(inputs) \in BOOLEAN /\ Passes(Again) \in BOOLEAN
  BY Zenon DEF Passes
<1> QED BY <1>1, Zenon DEF outcome_changed

(***************************************************************************)
(* What was replayed comes from the inputs and overrides that are offered. *)
(***************************************************************************)
ReplayedOffered == inputs \in [InputNames -> BOOLEAN] /\ overrides \in SUBSET InputNames

LEMMA ReplayedOfferedInvariant == ReplaySpec => []ReplayedOffered
<1>1. ReplayInit => ReplayedOffered
  BY DEF ReplayInit, ReplayedOffered, NoInputs
<1>2. ReplayedOffered /\ [ReplayNext]_replayVars => ReplayedOffered'
  BY InputAssumption DEF ReplayedOffered, ReplayNext, Replay, replayVars
<1> QED BY <1>1, <1>2, PTL DEF ReplaySpec

(***************************************************************************)
(* A replay without overrides changes the outcome exactly when the         *)
(* original was refused for its nonce or its key.                          *)
(***************************************************************************)
THEOREM PlainReplays == ReplaySpec => []PlainReplayIsFaithful
<1>1. ReplayedOffered => PlainReplayIsFaithful
  <2> SUFFICES ASSUME ReplayedOffered, overrides = {}
               PROVE  outcome_changed <=> (~ Passes(inputs) /\ FirstFailure(inputs) \in {15, 16})
    BY DEF PlainReplayIsFaithful
  <2>1. \A r \in Rules : Predicates(Again)[r] <=> (r \in {15, 16} \/ Predicates(inputs)[r])
    BY PlainPredicates DEF ReplayedOffered, Again
  <2>2. CASE Passes(inputs)
    BY <2>1, <2>2, OutcomeChanged DEF Passes
  <2>3. CASE ~ Passes(inputs)
    <3>1. /\ FirstFailure(inputs) \in Rules
          /\ ~ Predicates(inputs)[FirstFailure(inputs)]
          /\ \A s \in 1 .. (FirstFailure(inputs) - 1) : Predicates(inputs)[s]
      BY <2>3, FirstFailureExists
    <3>2. Passes(Again) <=> FirstFailure(inputs) \in {15, 16}
      BY <2>1, <3>1 DEF Passes, Rules
    <3> QED BY <2>3, <3>2, OutcomeChanged
  <2> QED BY <2>2, <2>3
<1> QED BY <1>1, ReplayedOfferedInvariant, PTL

(***************************************************************************)
(* Whenever a replay changes the outcome, its diff names the rule that     *)
(* refused.                                                                *)
(***************************************************************************)
THEOREM DiffsExplain == ReplaySpec => []DiffExplains
<1>1. \A in, out : Passes(in) /\ ~ Passes(out) =>
        FirstFailure(out) \in Changed(in, out) \cap Changed(out, in)
  <2> SUFFICES ASSUME NEW in, NEW out, Passes(in), ~ Passes(out)
               PROVE  FirstFailure(out) \in Changed(in, out) \cap Changed(out, in)
    OBVIOUS
  <2>1. FirstFailure(out) \in Reached(out) /\ FirstFailure(out) \in Rules /\ ~ Shown(out, FirstFailure(out))
    BY FirstFailureExists, TrailEndsAtFailure
  <2>2. Shown(in, FirstFailure(out))
    BY <2>1 DEF Shown, Passes
  <2> QED BY <2>1, <2>2 DEF Changed
<1>2. DiffExplains
  BY <1>1, OutcomeChanged DEF DiffExplains
<1> QED BY <1>2, PTL

-----------------------------------------------------------------------------
(* The audit.                                                              *)

DecisionRecords ==
  [decision : {TRUE}, allowed : BOOLEAN, trail : SUBSET Rules, failed : Rules \cup {NoRule}]

Records == DecisionRecords \cup {OtherEvent}

Decided == [InputNames -> BOOLEAN]

\* Without damage every decision fits its trail.
AuditInv ==
  /\ tampering \in Nat
  /\ events \in Seq(Records) /\ truth \in Seq(Decided) /\ Len(truth) = Len(events)
  /\ tampering = 0 => \A n \in DOMAIN events : Fits(events[n])

(***************************************************************************)
(* What the gate decided is kept with its trail and fits it.               *)
(***************************************************************************)
LEMMA DecisionFits ==
  ASSUME NEW in
  PROVE  DecisionRecord(in) \in Records /\ Fits(DecisionRecord(in))
<1> DEFINE a == Passes(in)
           f == IF Passes(in) THEN NoRule ELSE FirstFailure(in)
<1>1. a \in BOOLEAN
  BY Zenon DEF Passes
<1>2. f \in Rules \cup {NoRule} /\ Reached(in) \subseteq Rules /\ (~ Passes(in) => f \in Reached(in))
  BY TrailEndsAtFailure, FirstFailureExists DEF Reached, Rules
<1>3. DecisionRecord(in) = [decision |-> TRUE, allowed |-> a, trail |-> Reached(in), failed |-> f]
  BY Zenon DEF DecisionRecord
<1>4. a <=> Passes(in)
  OBVIOUS
<1> HIDE DEF a, f
<1>5. Fits(DecisionRecord(in))
  BY <1>2, <1>3, <1>4 DEF Fits
<1> QED BY <1>1, <1>2, <1>3, <1>5 DEF Records, DecisionRecords

(***************************************************************************)
(* A new record keeps the invariant.                                       *)
(***************************************************************************)
LEMMA RecordingKeeps ==
  ASSUME AuditInv, NEW e \in Records, NEW in \in Decided, Fits(e),
         events' = Append(events, e), truth' = Append(truth, in), tampering' = tampering
  PROVE  AuditInv'
<1>1. events \in Seq(Records) /\ truth \in Seq(Decided) /\ Len(truth) = Len(events) /\ tampering \in Nat
  BY DEF AuditInv
<1>2. /\ events' \in Seq(Records) /\ truth' \in Seq(Decided) /\ Len(truth') = Len(events')
      /\ DOMAIN events' = DOMAIN events \cup {Len(events) + 1}
      /\ events'[Len(events) + 1] = e /\ truth'[Len(events) + 1] = in
      /\ \A n \in DOMAIN events : events'[n] = events[n] /\ truth'[n] = truth[n]
  <2> HIDE DEF Records, Decided
  <2> QED BY <1>1
<1>3. tampering = 0 => \A n \in DOMAIN events : Fits(events[n])
  BY DEF AuditInv
<1>4. tampering' = 0 => \A n \in DOMAIN events' : Fits(events'[n])
  BY <1>2, <1>3
<1> QED BY <1>1, <1>2, <1>4 DEF AuditInv

(***************************************************************************)
(* Damage keeps the invariant.                                             *)
(***************************************************************************)
LEMMA DamageKeeps ==
  ASSUME AuditInv, NEW n \in DOMAIN events, NEW e \in DecisionRecords,
         events' = [events EXCEPT ![n] = e], truth' = truth,
         tampering' = tampering + 1
  PROVE  AuditInv'
<1>1. events \in Seq(Records) /\ truth \in Seq(Decided) /\ Len(truth) = Len(events) /\ tampering \in Nat
  BY DEF AuditInv
<1>2. e \in Records
  BY DEF Records
<1>3. /\ events' \in Seq(Records) /\ Len(events') = Len(events) /\ DOMAIN events' = DOMAIN events
      /\ events'[n] = e /\ \A m \in DOMAIN events : m # n => events'[m] = events[m]
  <2> HIDE DEF Records
  <2> QED BY <1>1, <1>2
<1>4. tampering' \in Nat /\ tampering' # 0
  BY <1>1
<1> QED BY <1>1, <1>3, <1>4 DEF AuditInv

(***************************************************************************)
(* The audit's invariant.                                                  *)
(***************************************************************************)
LEMMA AuditInvariant == AuditSpec => []AuditInv
<1>1. AuditInit => AuditInv
  BY DEF AuditInit, AuditInv
<1>2. AuditInv /\ [AuditNext]_auditVars => AuditInv'
  <2> SUFFICES ASSUME AuditInv, [AuditNext]_auditVars PROVE AuditInv'
    OBVIOUS
  <2>1. ASSUME NEW in \in Recorded, RecordDecision(in) PROVE AuditInv'
    BY <2>1, DecisionFits, RecordingKeeps, RecordedAssumption DEF RecordDecision, Decided
  <2>2. CASE RecordOther
    <3>1. OtherEvent \in Records /\ ~ OtherEvent.decision /\ Fits(OtherEvent)
      BY DEF Records, OtherEvent, Fits
    <3>2. NoInputs \in Decided
      BY DEF NoInputs, Decided
    <3> QED BY <2>2, <3>1, <3>2, RecordingKeeps DEF RecordOther
  <2>3. ASSUME NEW n \in DOMAIN events, NEW r \in Rules, Misname(n, r) PROVE AuditInv'
    <3>1. events[n] \in DecisionRecords
      BY <2>3 DEF Misname, AuditInv, Records, OtherEvent
    <3>2. [events[n] EXCEPT !.failed = r] \in DecisionRecords
      BY <3>1 DEF DecisionRecords
    <3> QED BY <2>3, <3>2, DamageKeeps DEF Misname
  <2>4. ASSUME NEW n \in DOMAIN events, Flip(n) PROVE AuditInv'
    <3>1. events[n] \in DecisionRecords
      BY <2>4 DEF Flip, AuditInv, Records, OtherEvent
    <3>2. [events[n] EXCEPT !.allowed = ~ @] \in DecisionRecords
      BY <3>1 DEF DecisionRecords
    <3> QED BY <2>4, <3>2, DamageKeeps DEF Flip
  <2>5. ASSUME NEW n \in DOMAIN events, CutTrail(n) PROVE AuditInv'
    <3>1. events[n] \in DecisionRecords
      BY <2>5 DEF CutTrail, AuditInv, Records, OtherEvent
    <3>2. PICK T : T = {r \in events[n].trail : \E q \in events[n].trail : r < q}
      OBVIOUS
    <3>3. T \in SUBSET Rules
      BY <3>1, <3>2 DEF DecisionRecords
    <3>4. [events[n] EXCEPT !.trail = T] \in DecisionRecords
      BY <3>1, <3>3 DEF DecisionRecords
    <3>5. events' = [events EXCEPT ![n] = [events[n] EXCEPT !.trail = T]]
      BY <2>5, <3>2 DEF CutTrail
    <3> QED BY <2>5, <3>4, <3>5, DamageKeeps DEF CutTrail
  <2>6. CASE UNCHANGED auditVars
    BY <2>6 DEF auditVars, AuditInv, Fits
  <2> QED BY <2>1, <2>2, <2>3, <2>4, <2>5, <2>6 DEF AuditNext
<1> QED BY <1>1, <1>2, PTL DEF AuditSpec

(***************************************************************************)
(* Whatever the gate decided passes the audit.                             *)
(***************************************************************************)
THEOREM GateDecisionsPassTheAudit == AuditSpec => []GateDecisionsPass
<1>1. AuditInv => GateDecisionsPass
  <2> SUFFICES ASSUME AuditInv, tampering = 0
               PROVE  GateDecisionsPass
    BY DEF GateDecisionsPass
  <2>1. Misfits = {}
    BY DEF AuditInv, Misfits
  <2>2. Steps(Len(events)) = {n \in DOMAIN events : events[n].decision}
    <3>1. \A n \in DOMAIN events : n <= Len(events)
      BY DEF AuditInv
    <3> QED BY <3>1 DEF Steps
  <2> QED BY <2>1, <2>2, Zenon DEF GateDecisionsPass, verify_chain_decisions
<1> QED BY <1>1, AuditInvariant, PTL

(***************************************************************************)
(* The audit accuses no decision that is as the gate made it, and finds a  *)
(* denial that is put on a rule beyond its whole trail.                    *)
(***************************************************************************)
THEOREM AuditFinds == AuditSpec => []AuditAccusesDamage
<1>1. AuditInv => AuditAccusesDamage
  <2> SUFFICES ASSUME AuditInv PROVE AuditAccusesDamage
    OBVIOUS
  <2>1. \A n \in Misfits : events[n] # DecisionRecord(truth[n])
    BY DecisionFits DEF Misfits
  <2>2. Misfits \subseteq DOMAIN events /\ Misfits \subseteq Nat
    BY DEF Misfits, AuditInv
  <2>3. \A n \in DOMAIN events : Misplaced(n) => n \in Misfits
    <3>1. NoRule \notin Rules
      BY DEF NoRule, Rules
    <3> QED BY <3>1 DEF Misplaced, Misfits, Fits
  <2>4. CASE Misfits = {}
    <3>1. verify_chain_decisions.success
      BY <2>4 DEF verify_chain_decisions
    <3> QED BY <2>3, <2>4, <3>1 DEF AuditAccusesDamage
  <2>5. CASE Misfits # {}
    <3>1. PICK q \in Misfits : \A m \in Misfits : ~ (<< m, q >> \in OpToRel(<, Nat))
      BY <2>2, <2>5, NatLessThanWellFounded, WFMin
    <3>2. \A m \in Misfits : q <= m
      <4>1. \A m \in Misfits : ~ (m < q)
        BY <2>2, <3>1 DEF OpToRel
      <4> QED BY <2>2, <4>1
    <3>3. failed_step \in Misfits /\ \A m \in Misfits : failed_step <= m
      BY <3>1, <3>2 DEF failed_step
    <3>4. ~ verify_chain_decisions.success /\ verify_chain_decisions.failed_step = failed_step
      BY <2>5 DEF verify_chain_decisions
    <3> QED BY <2>1, <2>3, <3>3, <3>4 DEF AuditAccusesDamage
  <2> QED BY <2>4, <2>5
<1> QED BY <1>1, AuditInvariant, PTL
=============================================================================
