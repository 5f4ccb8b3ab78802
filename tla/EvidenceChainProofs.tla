------------------------ MODULE EvidenceChainProofs ------------------------
(***************************************************************************)
(* Theorems about the hash chain, for every chain id, every set of data    *)
(* and every length: what append does to the verdict, and what the head    *)
(* hash of a chain commits to.                                             *)
(***************************************************************************)
EXTENDS EvidenceChain, SequenceTheorems, WellFoundedInduction, TLAPS

(***************************************************************************)
(* The list stays a list, damaged or not.                                  *)
(***************************************************************************)
IsList == \E S : records \in Seq(S)

\* What Appended puts at the end of rs.
NewRecord(rs, d) ==
  [ chain_id |-> Id, sequence |-> Len(rs), data |-> d, prev_hash |-> head_hash(rs),
    record_hash |-> compute_hash(Id, Len(rs), d, head_hash(rs)) ]

\* Record i of rs passes.
Sound(rs, i) ==
  rs[i].prev_hash = hash_before(rs, i) /\ verify_hash(rs[i]) /\ rs[i].sequence = i - 1

(***************************************************************************)
(* An appended list is the old one and one record more.                    *)
(***************************************************************************)
LEMMA AppendedIs ==
  ASSUME NEW S, NEW rs \in Seq(S), NEW d
  PROVE  /\ Len(rs) \in Nat /\ Len(Appended(rs, d)) = Len(rs) + 1
         /\ \A i \in 1 .. Len(rs) : Appended(rs, d)[i] = rs[i]
         /\ Appended(rs, d)[Len(rs) + 1] = NewRecord(rs, d)
         /\ Appended(rs, d) \in Seq(S \cup {NewRecord(rs, d)})
<1> DEFINE T == S \cup {NewRecord(rs, d)}
<1>1. rs \in Seq(T) /\ NewRecord(rs, d) \in T
  OBVIOUS
<1>2. Appended(rs, d) = Append(rs, NewRecord(rs, d))
  BY DEF Appended, NewRecord
<1> HIDE DEF T
<1> QED
  BY <1>1, <1>2 DEF T

(***************************************************************************)
(* The record that append adds is linked and hashed as verify wants it,    *)
(* and the records before it are judged as they were.                      *)
(***************************************************************************)
LEMMA AppendKeeps ==
  ASSUME NEW S, NEW rs \in Seq(S), NEW d
  PROVE  verify(Appended(rs, d)) <=> verify(rs)
<1> DEFINE n == Len(rs)
           new == Appended(rs, d)
<1>1. /\ n \in Nat /\ Len(new) = n + 1
      /\ \A i \in 1 .. n : new[i] = rs[i]
      /\ new[n + 1] = NewRecord(rs, d)
  BY AppendedIs
<1> HIDE DEF new
<1>2. \A i \in 1 .. n + 1 : hash_before(new, i) = hash_before(rs, i)
  BY <1>1 DEF hash_before
<1>3. Sound(new, n + 1)
  <2>1. new[n + 1].prev_hash = hash_before(new, n + 1) /\ new[n + 1].sequence = (n + 1) - 1
    BY <1>1, <1>2 DEF NewRecord, head_hash
  <2>2. verify_hash(new[n + 1])
    BY <1>1 DEF NewRecord, verify_hash
  <2> QED
    BY <2>1, <2>2 DEF Sound
<1>4. \A i \in 1 .. n : Sound(new, i) <=> Sound(rs, i)
  BY <1>1, <1>2 DEF Sound
<1>5. (\A i \in 1 .. n + 1 : Sound(new, i)) <=> (\A i \in 1 .. n : Sound(rs, i))
  BY <1>1, <1>3, <1>4
<1> QED
  BY <1>1, <1>5 DEF verify, Sound, new

-----------------------------------------------------------------------------
(***************************************************************************)
(* Appending and every kind of damage leave a list.                        *)
(***************************************************************************)
LEMMA ListStep == IsList /\ [ChainNext]_chainVars => IsList'
<1> SUFFICES ASSUME IsList, [ChainNext]_chainVars
             PROVE  \E S : records' \in Seq(S)
  BY DEF IsList
<1>0. PICK S : records \in Seq(S)
  BY DEF IsList
<1>1. CASE AppendRecord
  <2>1. PICK d \in Data : records' = Appended(records, d)
    BY <1>1 DEF AppendRecord
  <2>2. Appended(records, d) \in Seq(S \cup {NewRecord(records, d)})
    BY <1>0, AppendedIs
  <2> QED
    BY <2>1, <2>2
<1>2. CASE Alter
  <2>1. PICK i \in 1 .. Len(records), d \in Data : records' = [records EXCEPT ![i].data = d]
    BY <1>2 DEF Alter
  <2>2. PICK e : e = [records[i] EXCEPT !.data = d]
    OBVIOUS
  <2>3. records' = [records EXCEPT ![i] = e]
    BY <2>1, <2>2
  <2>4. records \in Seq(S \cup {e})
    BY <1>0
  <2> QED
    BY <2>3, <2>4, ExceptSeq
<1>3. CASE Lose
  <2>1. PICK i \in 1 .. Len(records) : records' = RemoveAt(records, i)
    BY <1>3 DEF Lose
  <2> QED
    BY <1>0, <2>1 DEF RemoveAt
<1>4. CASE Repeat
  <2>1. PICK i \in 1 .. Len(records) : records' = InsertAt(records, i, records[i])
    BY <1>4 DEF Repeat
  <2> QED
    BY <1>0, <2>1 DEF InsertAt
<1>5. CASE Move
  <2>1. PICK i \in 1 .. Len(records), j \in 1 .. Len(records) :
          records' = [records EXCEPT ![i] = records[j], ![j] = records[i]]
    BY <1>5 DEF Move
  <2> QED
    BY <1>0, <2>1
<1>6. CASE UNCHANGED chainVars
  BY <1>0, <1>6 DEF chainVars
<1> QED
  BY <1>1, <1>2, <1>3, <1>4, <1>5, <1>6 DEF ChainNext, Damage

(***************************************************************************)
(* Whatever happened to the list before: appending to a damaged chain does *)
(* not repair it, and appending to a sound one keeps it sound.             *)
(***************************************************************************)
THEOREM AppendVerdict == ChainSpec => AppendKeepsVerdict
<1>1. ChainInit => IsList
  BY DEF ChainInit, IsList
<1>2. IsList /\ [ChainNext]_chainVars =>
        [AppendRecord => (verify(records') <=> verify(records))]_chainVars
  <2> SUFFICES ASSUME IsList, AppendRecord
               PROVE  verify(records') <=> verify(records)
    OBVIOUS
  <2> QED
    BY AppendKeeps DEF IsList, AppendRecord
<1> QED
  BY <1>1, <1>2, ListStep, PTL DEF ChainSpec, AppendKeepsVerdict

-----------------------------------------------------------------------------
(* What verify accepts.                                                    *)

\* A record of this chain.
RecordType(H) ==
  [chain_id : {Id}, sequence : Int, data : Data, prev_hash : H, record_hash : H]

\* No damage makes a record that was not one of this chain.
IsChain == \E H : records \in Seq(RecordType(H))

(***************************************************************************)
(* Appending and every kind of damage leave records of this chain.         *)
(***************************************************************************)
LEMMA ChainStep == IsChain /\ [ChainNext]_chainVars => IsChain'
<1> SUFFICES ASSUME IsChain, [ChainNext]_chainVars
             PROVE  \E H : records' \in Seq(RecordType(H))
  BY DEF IsChain
<1>0. PICK H : records \in Seq(RecordType(H))
  BY DEF IsChain
<1>e. \A i \in 1 .. Len(records) : records[i] \in RecordType(H)
  BY <1>0, ElementOfSeq
<1>1. CASE AppendRecord
  <2>1. PICK d \in Data : records' = Appended(records, d)
    BY <1>1 DEF AppendRecord
  <2>2. PICK e : e = NewRecord(records, d)
    OBVIOUS
  <2> DEFINE G == H \cup {e.prev_hash, e.record_hash}
  <2>3. e \in RecordType(G)
    <3>1. Len(records) \in Int
      BY <1>0
    <3> QED BY <2>2, <3>1 DEF NewRecord, RecordType
  <2>4. records \in Seq(RecordType(G))
    <3>1. RecordType(H) \subseteq RecordType(G)
      BY DEF RecordType
    <3> HIDE DEF G
    <3> QED BY <1>0, <3>1
  <2>5. records' = Append(records, e)
    BY <2>1, <2>2 DEF Appended, NewRecord
  <2> HIDE DEF G
  <2> QED BY <2>3, <2>4, <2>5
<1>2. CASE Alter
  <2>1. PICK i \in 1 .. Len(records), d \in Data : records' = [records EXCEPT ![i].data = d]
    BY <1>2 DEF Alter
  <2>2. PICK e : e = [records[i] EXCEPT !.data = d]
    OBVIOUS
  <2>3. e \in RecordType(H)
    BY <1>e, <2>2 DEF RecordType
  <2>4. records' = [records EXCEPT ![i] = e]
    BY <2>1, <2>2
  <2> QED BY <1>0, <2>3, <2>4, ExceptSeq
<1>3. CASE Lose
  <2>1. PICK i \in 1 .. Len(records) : records' = RemoveAt(records, i)
    BY <1>3 DEF Lose
  <2> QED BY <1>0, <2>1 DEF RemoveAt
<1>4. CASE Repeat
  <2>1. PICK i \in 1 .. Len(records) : records' = InsertAt(records, i, records[i])
    BY <1>4 DEF Repeat
  <2> QED BY <1>0, <1>e, <2>1 DEF InsertAt
<1>5. CASE Move
  <2>1. PICK i \in 1 .. Len(records), j \in 1 .. Len(records) :
          records' = [records EXCEPT ![i] = records[j], ![j] = records[i]]
    BY <1>5 DEF Move
  <2> QED BY <1>0, <1>e, <2>1
<1>6. CASE UNCHANGED chainVars
  BY <1>0, <1>6 DEF chainVars
<1> QED BY <1>1, <1>2, <1>3, <1>4, <1>5, <1>6 DEF ChainNext, Damage

(***************************************************************************)
(* A record passes exactly when it is the one append puts after the        *)
(* records before it.                                                      *)
(***************************************************************************)
LEMMA SoundIsAppended ==
  ASSUME NEW H, NEW rs \in Seq(RecordType(H)), NEW n \in 1 .. Len(rs)
  PROVE  SubSeq(rs, 1, n) = Appended(SubSeq(rs, 1, n - 1), rs[n].data) <=> Sound(rs, n)
<1> PICK R : R = RecordType(H)
  OBVIOUS
<1>0. rs \in Seq(R) /\ Len(rs) \in Nat /\ rs[n] \in R
  BY ElementOfSeq
<1>1. PICK p : p = SubSeq(rs, 1, n - 1)
  OBVIOUS
<1>2. PICK q : q = SubSeq(rs, 1, n)
  OBVIOUS
<1>3. /\ p \in Seq(R) /\ Len(p) = n - 1 /\ \A i \in 1 .. n - 1 : p[i] = rs[i]
  BY <1>0, <1>1, SubSeqProperties
<1>4. /\ q \in Seq(R) /\ Len(q) = n /\ \A i \in 1 .. n : q[i] = rs[i]
  BY <1>0, <1>2, SubSeqProperties
<1>5. PICK e : e = NewRecord(p, rs[n].data)
  OBVIOUS
<1>6. Appended(p, rs[n].data) = Append(p, e)
  BY <1>5 DEF Appended, NewRecord
<1>7. q = Append(p, e) <=> rs[n] = e
  <2>1. PICK T : T = R \cup {e}
    OBVIOUS
  <2>2. p \in Seq(T) /\ q \in Seq(T) /\ e \in T
    BY <1>3, <1>4, <2>1
  <2>3. PICK a : a = Append(p, e)
    OBVIOUS
  <2>4. a \in Seq(T) /\ Len(a) = n /\ a[n] = e /\ \A i \in 1 .. n - 1 : a[i] = rs[i]
    BY <1>0, <1>3, <2>2, <2>3
  <2>5. ASSUME rs[n] = e PROVE \A i \in 1 .. n : q[i] = a[i]
    BY <1>0, <1>4, <2>4, <2>5
  <2> QED BY <1>0, <1>4, <2>2, <2>3, <2>4, <2>5, SeqEqual
<1>8. head_hash(p) = hash_before(rs, n)
  BY <1>0, <1>3 DEF head_hash, hash_before
<1>9. rs[n] = e <=> Sound(rs, n)
  <2>1. e = [ chain_id |-> Id, sequence |-> n - 1, data |-> rs[n].data, prev_hash |-> hash_before(rs, n),
              record_hash |-> compute_hash(Id, n - 1, rs[n].data, hash_before(rs, n)) ]
    BY <1>3, <1>5, <1>8 DEF NewRecord
  <2>2. /\ rs[n].chain_id = Id
        /\ rs[n] = [ chain_id |-> rs[n].chain_id, sequence |-> rs[n].sequence, data |-> rs[n].data,
                     prev_hash |-> rs[n].prev_hash, record_hash |-> rs[n].record_hash ]
    BY <1>0 DEF RecordType
  <2>3. Sound(rs, n) <=> /\ rs[n].prev_hash = hash_before(rs, n)
                         /\ rs[n].record_hash = compute_hash(Id, rs[n].sequence, rs[n].data, rs[n].prev_hash)
                         /\ rs[n].sequence = n - 1
    BY <2>2 DEF Sound, verify_hash
  <2> QED BY <2>1, <2>2, <2>3
<1> QED BY <1>1, <1>2, <1>6, <1>7, <1>9

(***************************************************************************)
(* However a list was damaged: verify accepts it exactly when append alone *)
(* could have built it.                                                    *)
(***************************************************************************)
THEOREM VerdictIsExact == ChainSpec => []VerifyIsExact
<1>1. ChainInit => IsChain
  <2>1. << >> \in Seq(RecordType({}))
    OBVIOUS
  <2> QED BY <2>1 DEF ChainInit, IsChain
<1>2. IsChain => VerifyIsExact
  <2> SUFFICES ASSUME NEW H, records \in Seq(RecordType(H)) PROVE VerifyIsExact
    BY DEF IsChain
  <2>1. verify(records) <=> \A n \in 1 .. Len(records) : Sound(records, n)
    BY DEF verify, Sound
  <2>2. \A n \in 1 .. Len(records) :
          SubSeq(records, 1, n) = Appended(SubSeq(records, 1, n - 1), records[n].data) <=> Sound(records, n)
    BY SoundIsAppended
  <2> QED BY <2>1, <2>2 DEF VerifyIsExact, BuiltByAppend
<1> QED BY <1>1, <1>2, ChainStep, PTL DEF ChainSpec

-----------------------------------------------------------------------------
(***************************************************************************)
(* No digest is the hash a chain begins with.                              *)
(***************************************************************************)
LEMMA DigestIsNotGenesis ==
  ASSUME NEW a, NEW b, NEW c, NEW d
  PROVE  << a, b, c, d >> # << >>
OBVIOUS

(***************************************************************************)
(* Digests are equal only if they were computed from the same.             *)
(***************************************************************************)
LEMMA NoCollision ==
  ASSUME NEW a, NEW b, NEW c, NEW d, NEW e, NEW f, NEW g, NEW h,
         << a, b, c, d >> = << e, f, g, h >>
  PROVE  a = e /\ b = f /\ c = g /\ d = h
OBVIOUS

(***************************************************************************)
(* A record is what its five fields say.                                   *)
(***************************************************************************)
LEMMA SameFields ==
  ASSUME NEW C, NEW D, NEW H,
         NEW r \in [chain_id : C, sequence : Nat, data : D, prev_hash : H, record_hash : H],
         NEW q \in [chain_id : C, sequence : Nat, data : D, prev_hash : H, record_hash : H],
         r.chain_id = q.chain_id, r.sequence = q.sequence, r.data = q.data,
         r.prev_hash = q.prev_hash, r.record_hash = q.record_hash
  PROVE  r = q
OBVIOUS

(***************************************************************************)
(* The head hash commits to the whole chain: two chains that verify and    *)
(* end in the same hash are equal, record for record.  So a chain whose    *)
(* head is kept elsewhere cannot be shortened, either, although verify     *)
(* alone accepts a chain that lost its last records.                       *)
(***************************************************************************)
THEOREM HeadCommits ==
  ASSUME NEW C, NEW D, NEW H,
         NEW rs \in Seq([chain_id : C, sequence : Nat, data : D, prev_hash : H, record_hash : H]),
         NEW ss \in Seq([chain_id : C, sequence : Nat, data : D, prev_hash : H, record_hash : H]),
         verify(rs), verify(ss), head_hash(rs) = head_hash(ss)
  PROVE  rs = ss
<1> DEFINE R == [chain_id : C, sequence : Nat, data : D, prev_hash : H, record_hash : H]
           n == Len(rs)
<1>0. n \in Nat /\ Len(ss) \in Nat
  OBVIOUS
<1>1. \A i \in 1 .. n : rs[i] \in R /\ Sound(rs, i)
  <2>1. \A i \in 1 .. n : rs[i] \in R
    BY ElementOfSeq
  <2>2. \A i \in 1 .. n : Sound(rs, i)
    BY Zenon DEF verify, Sound
  <2> QED
    BY <2>1, <2>2
<1>2. \A i \in 1 .. Len(ss) : ss[i] \in R /\ Sound(ss, i)
  <2>1. \A i \in 1 .. Len(ss) : ss[i] \in R
    BY ElementOfSeq
  <2>2. \A i \in 1 .. Len(ss) : Sound(ss, i)
    BY Zenon DEF verify, Sound
  <2> QED
    BY <2>1, <2>2
<1>3. \A i \in 1 .. n : rs[i].record_hash = << rs[i].chain_id, i - 1, rs[i].data, rs[i].prev_hash >>
  BY <1>1 DEF Sound, verify_hash, compute_hash
<1>4. \A i \in 1 .. Len(ss) :
        ss[i].record_hash = << ss[i].chain_id, i - 1, ss[i].data, ss[i].prev_hash >>
  BY <1>2 DEF Sound, verify_hash, compute_hash
<1>5. Len(ss) = n
  <2>1. CASE n = 0 /\ Len(ss) # 0
    <3>1. ss[Len(ss)].record_hash = << >>
      BY <1>0, <2>1 DEF head_hash, hash_before, Genesis
    <3>2. \E a, b, c, d : ss[Len(ss)].record_hash = << a, b, c, d >>
      BY <1>0, <1>4, <2>1
    <3> QED
      BY <3>1, <3>2, DigestIsNotGenesis
  <2>2. CASE n # 0 /\ Len(ss) = 0
    <3>1. rs[n].record_hash = << >>
      BY <1>0, <2>2 DEF head_hash, hash_before, Genesis
    <3>2. \E a, b, c, d : rs[n].record_hash = << a, b, c, d >>
      BY <1>0, <1>3, <2>2
    <3> QED
      BY <3>1, <3>2, DigestIsNotGenesis
  <2>3. CASE n # 0 /\ Len(ss) # 0
    <3>1. rs[n].record_hash = ss[Len(ss)].record_hash
      BY <1>0, <2>3 DEF head_hash, hash_before
    <3>2. rs[n].record_hash = << rs[n].chain_id, n - 1, rs[n].data, rs[n].prev_hash >>
      BY <1>0, <1>3, <2>3
    <3>3. PICK a, c, d : ss[Len(ss)].record_hash = << a, Len(ss) - 1, c, d >>
      BY <1>0, <1>4, <2>3
    <3>4. << rs[n].chain_id, n - 1, rs[n].data, rs[n].prev_hash >> = << a, Len(ss) - 1, c, d >>
      BY <3>1, <3>2, <3>3
    <3>5. n - 1 = Len(ss) - 1
      BY <3>4, NoCollision, Zenon
    <3> QED
      BY <1>0, <3>5
  <2> QED
    BY <2>1, <2>2, <2>3
<1>6. \A i \in 1 .. n : rs[i].record_hash = ss[i].record_hash => rs[i] = ss[i]
  <2> SUFFICES ASSUME NEW i \in 1 .. n, rs[i].record_hash = ss[i].record_hash
               PROVE  rs[i] = ss[i]
    OBVIOUS
  <2>1. /\ rs[i].chain_id = ss[i].chain_id /\ rs[i].data = ss[i].data
        /\ rs[i].prev_hash = ss[i].prev_hash
    <3>1. /\ rs[i].record_hash = << rs[i].chain_id, i - 1, rs[i].data, rs[i].prev_hash >>
          /\ ss[i].record_hash = << ss[i].chain_id, i - 1, ss[i].data, ss[i].prev_hash >>
      BY <1>3, <1>4, <1>5
    <3>2. << rs[i].chain_id, i - 1, rs[i].data, rs[i].prev_hash >>
            = << ss[i].chain_id, i - 1, ss[i].data, ss[i].prev_hash >>
      BY <3>1
    <3> QED
      BY <3>2, NoCollision, Zenon
  <2>2. rs[i].sequence = i - 1 /\ ss[i].sequence = i - 1
    BY <1>1, <1>2, <1>5 DEF Sound
  <2> QED
    <3>1. rs[i] \in R /\ ss[i] \in R
      BY <1>1, <1>2, <1>5
    <3> QED
      BY <2>1, <2>2, <3>1, SameFields
<1>7. \A i \in 1 .. n : i # n /\ rs[i + 1] = ss[i + 1] => rs[i].record_hash = ss[i].record_hash
  <2> SUFFICES ASSUME NEW i \in 1 .. n, i # n, rs[i + 1] = ss[i + 1]
               PROVE  rs[i].record_hash = ss[i].record_hash
    OBVIOUS
  <2>1. rs[i + 1].prev_hash = rs[i].record_hash /\ ss[i + 1].prev_hash = ss[i].record_hash
    BY <1>0, <1>1, <1>2, <1>5 DEF Sound, hash_before
  <2> QED
    BY <2>1
<1>8. n # 0 => rs[n].record_hash = ss[n].record_hash
  BY <1>0, <1>5 DEF head_hash, hash_before
<1>9. \A i \in 1 .. n : rs[i] = ss[i]
  <2> DEFINE Differ == {k \in 0 .. n - 1 : rs[n - k] # ss[n - k]}
  <2>1. Differ = {}
    <3> SUFFICES ASSUME Differ # {}
                 PROVE  FALSE
      OBVIOUS
    <3>1. PICK k \in Differ : \A l \in Differ : ~ (<< l, k >> \in OpToRel(<, Nat))
      <4>1. Differ \subseteq Nat
        BY <1>0
      <4> HIDE DEF Differ
      <4> QED
        BY <4>1, NatLessThanWellFounded, WFMin
    <3>2. k \in 0 .. n - 1 /\ rs[n - k] # ss[n - k]
      BY <3>1
    <3>3. k = 0 \/ rs[n - k + 1] = ss[n - k + 1]
      <4> SUFFICES ASSUME k # 0
                   PROVE  k - 1 \notin Differ
        BY <1>0, <3>2
      <4>1. k - 1 \in Nat /\ k \in Nat /\ k - 1 < k
        BY <1>0, <3>2
      <4>2. << k - 1, k >> \in OpToRel(<, Nat)
        BY <4>1 DEF OpToRel
      <4> HIDE DEF Differ
      <4> QED
        BY <3>1, <4>2
    <3>4. rs[n - k].record_hash = ss[n - k].record_hash
      <4>1. n - k \in 1 .. n /\ (k # 0 => n - k # n) /\ (k = 0 => n - k = n) /\ n # 0
        BY <1>0, <3>2
      <4> QED
        BY <1>7, <1>8, <3>3, <4>1
    <3> QED
      BY <1>0, <1>6, <3>2, <3>4
  <2>2. ASSUME NEW i \in 1 .. n
        PROVE  rs[i] = ss[i]
    <3>1. n - i \in 0 .. n - 1 /\ n - (n - i) = i
      BY <1>0
    <3> QED
      BY <2>1, <3>1
  <2> QED
    BY <2>2
<1> QED
  BY <1>5, <1>9, SeqEqual
=============================================================================
