--------------------------- MODULE EvidenceChain ---------------------------
(***************************************************************************)
(* The hash chain of backend/kernel/evidence/chain.py: append links a      *)
(* record to the one before it, verify recomputes every link, and the      *)
(* route of apps/api/routes/evidence.py reports on every record.  The list *)
(* of records is also damaged here, which no code does: a record is        *)
(* altered, lost, repeated or moved.  That is what verify is there for.    *)
(***************************************************************************)
EXTENDS Integers, SequencesExt

CONSTANTS
  Id,        \* the chain's id
  Data,      \* event type, data and timestamp of a record
  MaxLength, \* bound on the list
  MaxDamage  \* bound on the times the list is damaged

ASSUME ChainBoundsAssumption == MaxLength \in Nat /\ MaxDamage \in Nat

VARIABLES
  records,   \* _records
  damage     \* how often the list was damaged

chainVars == << records, damage >>

Genesis == << >>

(***************************************************************************)
(* SHA-256 of the canonical JSON of its arguments.  It has no collisions,  *)
(* so it stands for what it was computed from, and no digest is Genesis.   *)
(***************************************************************************)
compute_hash(id, sequence, data, prev) == << id, sequence, data, prev >>

\* The route dumps the same fields but for the chain's id.
route_hash(r) == << r.sequence, r.data, r.prev_hash >>

verify_hash(r) == r.record_hash = compute_hash(r.chain_id, r.sequence, r.data, r.prev_hash)

\* The hash that record i has to carry: that of the record before it.
hash_before(rs, i) == IF i = 1 THEN Genesis ELSE rs[i - 1].record_hash

head_hash(rs) == hash_before(rs, Len(rs) + 1)

\* Mutant: sequence numbers begin at one.
AppendedFromOne(rs, d) ==
  Append(rs, [ chain_id |-> Id, sequence |-> Len(rs) + 1, data |-> d, prev_hash |-> head_hash(rs),
               record_hash |-> compute_hash(Id, Len(rs) + 1, d, head_hash(rs)) ])

\* The list after append(d).
Appended(rs, d) ==
  Append(rs, [ chain_id |-> Id, sequence |-> Len(rs), data |-> d, prev_hash |-> head_hash(rs),
               record_hash |-> compute_hash(Id, Len(rs), d, head_hash(rs)) ])

\* Mutant: links are compared, hashes are not recomputed.
LinksOnly(rs) ==
  \A i \in 1 .. Len(rs) :
    rs[i].prev_hash = hash_before(rs, i) /\ rs[i].sequence = i - 1

verify(rs) ==
  \A i \in 1 .. Len(rs) :
    /\ rs[i].prev_hash = hash_before(rs, i)
    /\ verify_hash(rs[i])
    /\ rs[i].sequence = i - 1

-----------------------------------------------------------------------------
ChainInit == records = << >> /\ damage = 0

AppendRecord ==
  /\ Len(records) < MaxLength
  /\ \E d \in Data : records' = Appended(records, d)
  /\ UNCHANGED damage

Alter ==
  \E i \in 1 .. Len(records), d \in Data :
    records[i].data # d /\ records' = [records EXCEPT ![i].data = d]

Lose == \E i \in 1 .. Len(records) : records' = RemoveAt(records, i)

Repeat ==
  /\ Len(records) < MaxLength
  /\ \E i \in 1 .. Len(records) : records' = InsertAt(records, i, records[i])

Move ==
  \E i, j \in 1 .. Len(records) :
    i < j /\ records' = [records EXCEPT ![i] = records[j], ![j] = records[i]]

Damage ==
  /\ damage < MaxDamage
  /\ damage' = damage + 1
  /\ Alter \/ Lose \/ Repeat \/ Move

ChainNext == AppendRecord \/ Damage

ChainSpec == ChainInit /\ [][ChainNext]_chainVars

-----------------------------------------------------------------------------
(***************************************************************************)
(* verify tells exactly the lists that append built from the ones that it  *)
(* did not: a list passes if and only if each of its beginnings is what    *)
(* append makes of the one before it and of the data of the next record.   *)
(***************************************************************************)
BuiltByAppend(rs) ==
  \A n \in 1 .. Len(rs) : SubSeq(rs, 1, n) = Appended(SubSeq(rs, 1, n - 1), rs[n].data)

VerifyIsExact == verify(records) <=> BuiltByAppend(records)

(***************************************************************************)
(* Appending to a damaged chain does not repair it, and appending to a     *)
(* sound one keeps it sound.                                               *)
(***************************************************************************)
AppendKeepsVerdict == [][AppendRecord => (verify(records') <=> verify(records))]_chainVars

(***************************************************************************)
(* The verify endpoint reports the record that broke: in a chain that is   *)
(* valid every record passes (apps/api/routes/evidence.py:103-104).        *)
(***************************************************************************)
ValidChainRecordsPass ==
  verify(records) => \A i \in 1 .. Len(records) : route_hash(records[i]) = records[i].record_hash
=============================================================================
