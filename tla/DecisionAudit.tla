--------------------------- MODULE DecisionAudit ---------------------------
(***************************************************************************)
(* The audit of recorded decisions (backend/kernel/evidence/replay.py): it *)
(* walks the events of a chain, holds each decision against its own rule   *)
(* trail, and stops at the first that does not fit.  The gate is not asked *)
(* again: the inputs of a decision are in no record.                       *)
(***************************************************************************)
EXTENDS CounterfactualReplay, Sequences

CONSTANTS
  Recorded,      \* inputs of the decisions a chain may record
  MaxRecords,    \* bound on the chain
  MaxTampering   \* bound on the damage done to it

ASSUME RecordedAssumption == Recorded \subseteq [InputNames -> BOOLEAN]
ASSUME RecordsAssumption  == MaxRecords \in Nat /\ MaxTampering \in Nat

VARIABLES
  events,      \* the records of the chain
  truth,       \* ghost: the inputs each decision was made with
  tampering    \* how often a record was damaged

auditVars == << events, truth, tampering >>

NoRule == 0

\* What gate.evaluate returned, as it is kept; other events have no decision.
DecisionRecord(in) ==
  [ decision |-> TRUE, allowed |-> Passes(in), trail |-> Reached(in),
    failed |-> IF Passes(in) THEN NoRule ELSE FirstFailure(in) ]

OtherEvent == [decision |-> FALSE]

\* Mutant: the trail is taken to end before the rule that failed.
Fits_Before(r) ==
  (r.decision /\ ~ r.allowed /\ r.failed # NoRule) => r.failed + 1 \in r.trail

Fits(r) == (r.decision /\ ~ r.allowed /\ r.failed # NoRule) => r.failed \in r.trail

\* The decisions among the first s records.
Steps(s) == {n \in DOMAIN events : n <= s /\ events[n].decision}

Misfits == {n \in DOMAIN events : ~ Fits(events[n])}

\* Mutant: the walk goes on after a misfit.
failed_step_Last == CHOOSE n \in Misfits : \A m \in Misfits : m <= n

failed_step == CHOOSE n \in Misfits : \A m \in Misfits : n <= m

verify_chain_decisions ==
  IF Misfits = {} THEN [success |-> TRUE, failed_step |-> NoRule, steps |-> Cardinality(Steps(Len(events)))]
  ELSE [success |-> FALSE, failed_step |-> failed_step, steps |-> Cardinality(Steps(failed_step))]

-----------------------------------------------------------------------------
AuditInit == events = << >> /\ truth = << >> /\ tampering = 0

RecordDecision(in) ==
  /\ Len(events) < MaxRecords
  /\ events' = Append(events, DecisionRecord(in)) /\ truth' = Append(truth, in)
  /\ UNCHANGED tampering

RecordOther ==
  /\ Len(events) < MaxRecords
  /\ events' = Append(events, OtherEvent) /\ truth' = Append(truth, NoInputs)
  /\ UNCHANGED tampering

\* Damage: a denial names another rule, or the verdict is turned around.
Misname(n, r) ==
  /\ tampering < MaxTampering
  /\ events[n].decision /\ ~ events[n].allowed
  /\ events' = [events EXCEPT ![n].failed = r]
  /\ tampering' = tampering + 1
  /\ UNCHANGED truth

Flip(n) ==
  /\ tampering < MaxTampering
  /\ events[n].decision
  /\ events' = [events EXCEPT ![n].allowed = ~ @]
  /\ tampering' = tampering + 1
  /\ UNCHANGED truth

\* The end of a trail is lost.
CutTrail(n) ==
  /\ tampering < MaxTampering
  /\ events[n].decision
  /\ events' = [events EXCEPT ![n].trail = {r \in @ : \E q \in @ : r < q}]
  /\ tampering' = tampering + 1
  /\ UNCHANGED truth

AuditNext ==
  \/ \E in \in Recorded : RecordDecision(in)
  \/ RecordOther
  \/ \E n \in DOMAIN events : Flip(n) \/ CutTrail(n) \/ \E r \in Rules : Misname(n, r)

AuditSpec == AuditInit /\ [][AuditNext]_auditVars

-----------------------------------------------------------------------------
(***************************************************************************)
(* What the gate decided passes the audit, and every decision is counted:  *)
(* the trail of a denial ends with the rule that failed.                   *)
(***************************************************************************)
GateDecisionsPass ==
  tampering = 0 =>
    verify_chain_decisions =
      [ success |-> TRUE, failed_step |-> NoRule,
        steps |-> Cardinality({n \in DOMAIN events : events[n].decision}) ]

(***************************************************************************)
(* What an audit that fails, or passes, can be relied on for.  It accuses  *)
(* no decision that is as the gate made it; and a denial put on a rule     *)
(* that the gate never reached, while its trail is whole, makes it fail at *)
(* this record or before.  More is promised: "Verify the decision matches  *)
(* what the gate would produce" (evidence/replay.py:75).  That is not      *)
(* done: a verdict turned around, or a denial put on an earlier rule, can  *)
(* pass.                                                                   *)
(***************************************************************************)
Misplaced(n) ==
  /\ events[n].decision /\ ~ events[n].allowed
  /\ events[n].failed \in Rules \ Reached(truth[n]) /\ events[n].trail = Reached(truth[n])

AuditAccusesDamage ==
  /\ ~ verify_chain_decisions.success =>
       LET f == verify_chain_decisions.failed_step IN events[f] # DecisionRecord(truth[f])
  /\ \A n \in DOMAIN events :
       Misplaced(n) => /\ ~ verify_chain_decisions.success
                       /\ verify_chain_decisions.failed_step <= n
=============================================================================
