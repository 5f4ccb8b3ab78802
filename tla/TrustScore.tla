----------------------------- MODULE TrustScore -----------------------------
(***************************************************************************)
(* The trust engine (backend/kernel/domain/trust.py) behind                *)
(* POST /trust/{merchant}/event: counters per merchant, and a score in     *)
(* which four rates of them are weighed.  Events come in any order; an     *)
(* order may be completed or disputed that was never counted as created.   *)
(***************************************************************************)
EXTENDS Integers

CONSTANTS
  RatedMerchants,
  MaxCount    \* bound on each counter

ASSUME CountAssumption == MaxCount \in Nat

VARIABLE stats  \* merchant -> counters, made on first use

Counters == {"total", "completed", "on_time", "disputes", "verified", "broken"}

NoStats == [k \in Counters |-> 0]

\* _ensure_merchant, then the counters of `which' go up by one.
Counted(m, which) ==
  [x \in DOMAIN stats \cup {m} |->
     LET old == IF x \in DOMAIN stats THEN stats[x] ELSE NoStats
     IN IF x = m THEN [k \in Counters |-> IF k \in which THEN old[k] + 1 ELSE old[k]] ELSE old]

-----------------------------------------------------------------------------
TrustInit == stats = [m \in {} |-> NoStats]

\* The counters each event moves; a completion may be on time or late.
Record(m, which) ==
  /\ m \in DOMAIN stats => \A k \in which : stats[m][k] < MaxCount
  /\ stats' = Counted(m, which)

OrderCreated(m)  == Record(m, {"total"})
CompletedOnTime(m) == Record(m, {"completed", "on_time"})
CompletedLate(m) == Record(m, {"completed"})
Dispute(m)       == Record(m, {"disputes"})
ChainVerified(m) == Record(m, {"verified"})
ChainBroken(m)   == Record(m, {"broken"})

\* GET /trust/{merchant}: compute_trust makes the counters too.
Look(m) == stats' = Counted(m, {})

TrustNext ==
  \E m \in RatedMerchants :
    \/ OrderCreated(m) \/ CompletedOnTime(m) \/ CompletedLate(m)
    \/ Dispute(m) \/ ChainVerified(m) \/ ChainBroken(m) \/ Look(m)

TrustSpec == TrustInit /\ [][TrustNext]_stats

-----------------------------------------------------------------------------
(***************************************************************************)
(* A rate is a fraction <<numerator, denominator>> with a default for an   *)
(* empty denominator, and the score is the weighted sum in hundredths,     *)
(* again a fraction, cut off at 0 and 1.  Rounding to four digits is left  *)
(* out: it keeps the order of scores.                                      *)
(***************************************************************************)
Rate(n, d, default) == IF d = 0 THEN << default, 1 >> ELSE << n, d >>

\* Mutant: disputes count for the merchant.
Weighed_Disputed(f, t, d, c) ==
  << 40 * f[1] * t[2] * d[2] * c[2] + 25 * t[1] * f[2] * d[2] * c[2]
       + 20 * d[1] * f[2] * t[2] * c[2] + 15 * c[1] * f[2] * t[2] * d[2],
     100 * f[2] * t[2] * d[2] * c[2] >>

\* Fulfilment, timeliness, disputes and chain integrity.
Weighed(f, t, d, c) ==
  << 40 * f[1] * t[2] * d[2] * c[2] + 25 * t[1] * f[2] * d[2] * c[2]
       + 20 * (d[2] - d[1]) * f[2] * t[2] * c[2] + 15 * c[1] * f[2] * t[2] * d[2],
     100 * f[2] * t[2] * d[2] * c[2] >>

CutOff(r) == IF r[1] < 0 THEN << 0, 1 >> ELSE IF r[1] > r[2] THEN << 1, 1 >> ELSE r

trust_score(s) ==
  CutOff(Weighed(Rate(s.completed, s.total, 0), Rate(s.on_time, s.completed, 0),
                 Rate(s.disputes, s.total, 0), Rate(s.verified, s.verified + s.broken, 1)))

AtMost(a, b) == a[1] * b[2] <= b[1] * a[2]

(***************************************************************************)
(* The score moves the right way whatever came before: a dispute or a      *)
(* broken chain never raises it, a delivery on time or a verified chain    *)
(* never lowers it.                                                        *)
(***************************************************************************)
ScoreIsMonotone ==
  [][\A m \in DOMAIN stats :
       LET before == trust_score(stats[m])  after == trust_score(stats'[m])
       IN /\ (Dispute(m) \/ ChainBroken(m)) => AtMost(after, before)
          /\ (CompletedOnTime(m) \/ ChainVerified(m)) => AtMost(before, after)]_stats
=============================================================================
