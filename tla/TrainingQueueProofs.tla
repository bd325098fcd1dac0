------------------------ MODULE TrainingQueueProofs ------------------------
(***************************************************************************)
(* TrainingQueue's safety properties, for every batch size, lag window,    *)
(* set of group outcomes and number of groups, steps, policies and         *)
(* crashes.                                                                *)
(*                                                                         *)
(* The invariant relates the three places a batch passes through (rows,    *)
(* artifact files, the trainer's directory) at every position of the       *)
(* service loop, also at the positions a crash can cut.                    *)
(***************************************************************************)
EXTENDS TrainingQueue, FiniteSetTheorems, SequenceTheorems, TLAPS

\* The rollout rows there are in a table rs, and one of them.
RowsOf(rs) == UNION {{g} \X DOMAIN rs[g] : g \in Group}
RowIn(rs, m) == rs[m[1]][m[2]]

\* The samples of batch b according to the rows rs.
SamplesIn(b, rs) == InOrder({m \in Members(b) : RowIn(rs, m).kept})

\* Batch b has BatchSize different members, all of them rows of rs, of one policy
\* according to the groups gs.
BatchOK(b, rs, gs) ==
    /\ b \in Seq(Rollout)
    /\ Len(b) = BatchSize
    /\ Cardinality(Members(b)) = BatchSize
    /\ Members(b) \subseteq RowsOf(rs)
    /\ \A m, n \in Members(b) : gs[m[1]].version = gs[n[1]].version

\* Only processed groups have rows, and they are finished: neither their policy nor their
\* traces change any more.
GroupsOK ==
    /\ \A g \in Group : g \notin processed => rollouts[g] = <<>>
    /\ \A g \in processed : group[g].state = "ready"
    /\ processed \subseteq groupFiles
    /\ pc = "record" => picked \in ReadyGroups /\ picked \in groupFiles

\* Rows and batches agree, and every recorded batch has its file.
BatchesOK ==
    /\ Len(batches) <= MaxSteps
    /\ \A s \in DOMAIN batches :
          /\ BatchOK(batches[s], rollouts, group)
          /\ \A m \in Members(batches[s]) : RowIn(rollouts, m).step = s /\ ~RowIn(rollouts, m).discarded
          /\ batchFiles[s] = SamplesIn(batches[s], rollouts)
    /\ \A m \in RowsOf(rollouts) : RowIn(rollouts, m).step # 0 =>
          /\ RowIn(rollouts, m).step \in DOMAIN batches
          /\ m \in Members(batches[RowIn(rollouts, m).step])

\* Between its file and its row a batch is still what record_training_batch expects.
HeldOK ==
    pc = "commit" =>
        /\ BatchOK(held, rollouts, group)
        /\ \A m \in Members(held) : /\ RowIn(rollouts, m).step = 0 /\ ~RowIn(rollouts, m).discarded
                                    /\ active - group[m[1]].version <= MaxPolicyLag
        /\ Len(batches) < MaxSteps
        /\ batchFiles[Len(batches) + 1] = SamplesIn(held, rollouts)

\* No file is in the way of the batches to come, once start-up has removed what a crash
\* left behind.
FilesOK ==
    \A s \in Step :
        s > Len(batches) /\ pc # "down" /\ ~(pc = "commit" /\ s = Len(batches) + 1)
        => batchFiles[s] = <<>>

\* What the trainer has been given and has made are recorded batches.
TrainerOK ==
    /\ exportedTo <= Len(batches)
    /\ \A s \in Step : exported[s] # <<>> =>
          s \in DOMAIN batches /\ exported[s] = SamplesIn(batches[s], rollouts)
    /\ \A v \in DOMAIN weights :
          v \in DOMAIN batches /\ weights[v] = SamplesIn(batches[v], rollouts)

\* The inductive invariant.
QInv == TypeOK /\ pc # "failed" /\ GroupsOK /\ BatchesOK /\ HeldOK /\ FilesOK /\ TrainerOK

-----------------------------------------------------------------------------
(* Listing a finite set of rollouts in order.                              *)

\* Precedes is a total order on rollouts.
LEMMA PrecedesOrder ==
  ASSUME NEW m \in Rollout, NEW n \in Rollout
  PROVE  /\ Precedes(m, m)
         /\ Precedes(m, n) \/ Precedes(n, m)
         /\ Precedes(m, n) /\ Precedes(n, m) => m = n
         /\ \A o \in Rollout : Precedes(o, m) /\ Precedes(m, n) => Precedes(o, n)
  <1>1. /\ m[1] \in Nat /\ m[2] \in Nat /\ m = <<m[1], m[2]>>
        /\ n[1] \in Nat /\ n[2] \in Nat /\ n = <<n[1], n[2]>>
        /\ \A o \in Rollout : o[1] \in Nat /\ o[2] \in Nat
    BY QueueAssumption DEF Rollout, Group
  <1> QED BY <1>1 DEF Precedes

\* Later rollouts have larger places.
LEMMA PlaceIncreases ==
  ASSUME NEW R \in SUBSET Rollout, IsFiniteSet(R), NEW m \in R, NEW n \in R, m # n, Precedes(m, n)
  PROVE  Place(m, R) < Place(n, R)
  <1> DEFINE M == {o \in R : Precedes(o, m)}
             N == {o \in R : Precedes(o, n)}
  <1>1. M \subseteq N /\ n \in N /\ n \notin M
    BY PrecedesOrder
  <1>2. IsFiniteSet(N)
    BY FS_Subset
  <1>3. Cardinality(M) <= Cardinality(N) /\ Cardinality(M) # Cardinality(N) /\ IsFiniteSet(M)
    <2> HIDE DEF M, N
    <2> QED BY <1>1, <1>2, FS_Subset
  <1>4. Cardinality(M) \in Nat /\ Cardinality(N) \in Nat
    BY <1>2, <1>3, FS_CardinalityType
  <1> QED BY <1>3, <1>4 DEF Place

\* InOrder lists every element of a finite set of rollouts once.
LEMMA InOrderLists ==
  ASSUME NEW R \in SUBSET Rollout, IsFiniteSet(R)
  PROVE  /\ Cardinality(R) \in Nat
         /\ InOrder(R) \in [1 .. Cardinality(R) -> R]
         /\ \A j, k \in 1 .. Cardinality(R) : InOrder(R)[j] = InOrder(R)[k] => j = k
  <1> DEFINE N == Cardinality(R)
             f == [m \in R |-> Place(m, R)]
  <1>1. N \in Nat
    BY FS_CardinalityType
  <1>2. ASSUME NEW m \in R PROVE Place(m, R) \in 1 .. N
    <2> DEFINE M == {o \in R : Precedes(o, m)}
    <2>1. m \in M /\ M \in SUBSET R
      BY PrecedesOrder
    <2> HIDE DEF M
    <2>2. IsFiniteSet(M) /\ Cardinality(M) <= N
      BY <2>1, FS_Subset
    <2>3. Cardinality(M) \in Nat /\ Cardinality(M) # 0
      BY <2>1, <2>2, FS_CardinalityType, FS_EmptySet
    <2> QED BY <1>1, <2>2, <2>3 DEF Place, M
  <1>3. ASSUME NEW m \in R, NEW n \in R, m # n PROVE Place(m, R) # Place(n, R)
    <2>1. Place(m, R) < Place(n, R) \/ Place(n, R) < Place(m, R)
      BY <1>3, PlaceIncreases, PrecedesOrder
    <2>2. Place(m, R) \in Nat /\ Place(n, R) \in Nat
      BY <1>2
    <2> QED BY <2>1, <2>2
  <1>4. f \in Injection(R, 1 .. N)
    BY <1>2, <1>3 DEF Injection, IsInjective
  <1>5. IsFiniteSet(1 .. N) /\ Cardinality(1 .. N) = N
    BY <1>1, FS_Interval
  <1>6. f \in Surjection(R, 1 .. N)
    <2> HIDE DEF f
    <2> QED BY <1>4, <1>5, FS_Injection
  <1>7. \A k \in 1 .. N : \E m \in R : Place(m, R) = k
    BY <1>6 DEF Surjection
  <1>8. \A k \in 1 .. N : InOrder(R)[k] \in R /\ Place(InOrder(R)[k], R) = k
    BY <1>7 DEF InOrder
  <1>9. InOrder(R) \in [1 .. N -> R]
    BY <1>8 DEF InOrder
  <1> QED BY <1>1, <1>8, <1>9

\* The list is a sequence of rollouts.
LEMMA InOrderSeq ==
  ASSUME NEW R \in SUBSET Rollout, IsFiniteSet(R)
  PROVE  InOrder(R) \in Seq(R) /\ InOrder(R) \in Seq(Rollout) /\ Len(InOrder(R)) = Cardinality(R)
  <1>1. Cardinality(R) \in Nat /\ InOrder(R) \in [1 .. Cardinality(R) -> R]
    BY InOrderLists
  <1>2. InOrder(R) \in Seq(R)
    BY <1>1, SeqDef
  <1>3. Len(InOrder(R)) = Cardinality(R)
    BY <1>1, <1>2
  <1>4. InOrder(R) \in Seq(Rollout)
    BY <1>2, SeqMonotonic
  <1> QED BY <1>2, <1>3, <1>4

-----------------------------------------------------------------------------
(* Rows, batches and their samples.                                        *)

\* A table has finitely many rows.
LEMMA RowsFinite ==
  ASSUME NEW rs \in [Group -> Seq(RolloutRow)]
  PROVE  IsFiniteSet(RowsOf(rs)) /\ RowsOf(rs) \subseteq Rollout
  <1> DEFINE f == [g \in Group |-> {g} \X DOMAIN rs[g]]
             T == {{g} \X DOMAIN rs[g] : g \in Group}
  <1>1. IsFiniteSet(Group)
    BY QueueAssumption, FS_Interval DEF Group
  <1>2. f \in Surjection(Group, T)
    BY DEF Surjection
  <1>3. IsFiniteSet(T)
    <2> HIDE DEF f, T
    <2> QED BY <1>1, <1>2, FS_Surjection
  <1>4. ASSUME NEW g \in Group PROVE IsFiniteSet({g} \X DOMAIN rs[g]) /\ {g} \X DOMAIN rs[g] \subseteq Rollout
    <2>1. DOMAIN rs[g] = 1 .. Len(rs[g]) /\ Len(rs[g]) \in Nat
      BY LenProperties
    <2>2. IsFiniteSet(DOMAIN rs[g])
      BY <2>1, FS_Interval
    <2>3. IsFiniteSet({g})
      BY FS_Singleton
    <2>4. IsFiniteSet({g} \X DOMAIN rs[g])
      BY <2>2, <2>3, FS_Product
    <2>5. {g} \X DOMAIN rs[g] \subseteq Rollout
      BY <2>1 DEF Rollout
    <2> QED BY <2>4, <2>5
  <1>5. IsFiniteSet(UNION T)
    BY <1>3, <1>4, FS_UNION
  <1> QED BY <1>4, <1>5 DEF RowsOf

\* A sequence has finitely many members.
LEMMA MembersFinite ==
  ASSUME NEW S, NEW b \in Seq(S)
  PROVE  IsFiniteSet(Members(b)) /\ Members(b) \subseteq S
  <1>1. Len(b) \in Nat /\ DOMAIN b = 1 .. Len(b) /\ b \in [1 .. Len(b) -> S]
    BY LenProperties
  <1>2. b \in Surjection(1 .. Len(b), Members(b))
    BY <1>1 DEF Surjection, Members
  <1>3. IsFiniteSet(1 .. Len(b))
    BY <1>1, FS_Interval
  <1>4. IsFiniteSet(Members(b))
    BY <1>2, <1>3, FS_Surjection
  <1> QED BY <1>1, <1>4 DEF Members

\* A sequence without repetition has as many members as places.
LEMMA DistinctMembers ==
  ASSUME NEW n \in Nat, NEW S, NEW b \in [1 .. n -> S],
         \A j, k \in 1 .. n : b[j] = b[k] => j = k
  PROVE  Cardinality(Members(b)) = n
  <1>1. b \in Bijection(1 .. n, Members(b))
    BY DEF Bijection, Injection, Surjection, IsInjective, Members
  <1>2. ExistsBijection(1 .. n, Members(b))
    BY <1>1 DEF ExistsBijection
  <1>3. IsFiniteSet(1 .. n) /\ Cardinality(1 .. n) = n
    BY FS_Interval
  <1> QED BY <1>2, <1>3, FS_Bijection

\* The samples of a batch are rollouts.
LEMMA SamplesType ==
  ASSUME NEW b \in Seq(Rollout), NEW rs
  PROVE  SamplesIn(b, rs) \in Seq(Rollout)
  <1> DEFINE K == {m \in Members(b) : RowIn(rs, m).kept}
  <1>1. IsFiniteSet(K) /\ K \in SUBSET Rollout
    BY MembersFinite, FS_Subset
  <1> HIDE DEF K
  <1> QED BY <1>1, InOrderSeq DEF SamplesIn, K

\* The rows rs stay in xs with their samples, and in their groups with their policies.
RowsStay(rs, xs, gs, hs) ==
    \A m \in RowsOf(rs) : /\ m \in RowsOf(xs)
                          /\ RowIn(xs, m).kept = RowIn(rs, m).kept
                          /\ hs[m[1]].version = gs[m[1]].version

\* Then a batch stays a batch, with the same samples.
LEMMA BatchStays ==
  ASSUME NEW b, NEW rs, NEW xs, NEW gs, NEW hs, BatchOK(b, rs, gs), RowsStay(rs, xs, gs, hs)
  PROVE  BatchOK(b, xs, hs) /\ SamplesIn(b, xs) = SamplesIn(b, rs)
  <1>1. \A m \in Members(b) : /\ m \in RowsOf(xs) /\ RowIn(xs, m).kept = RowIn(rs, m).kept
                              /\ hs[m[1]].version = gs[m[1]].version
    BY DEF BatchOK, RowsStay
  <1>2. BatchOK(b, xs, hs)
    BY <1>1 DEF BatchOK
  <1>3. {m \in Members(b) : RowIn(xs, m).kept} = {m \in Members(b) : RowIn(rs, m).kept}
    BY <1>1
  <1> QED BY <1>2, <1>3 DEF SamplesIn

\* The model's own operators in these terms.
LEMMA Unfolded ==
  /\ Recorded = RowsOf(rollouts)
  /\ \A m : Available(m) <=> RowIn(rollouts, m).step = 0 /\ ~RowIn(rollouts, m).discarded
  /\ \A b : Samples(b) = SamplesIn(b, rollouts)
  BY DEF Recorded, RowsOf, Available, RolloutRowOf, RowIn, Samples, SamplesIn, Kept

\* The batch _select_policy_homogeneous_batch takes: BatchSize different pending rollouts
\* of one policy.
LEMMA SelectedOK ==
  ASSUME TypeOK, Selected # <<>>
  PROVE  BatchOK(Selected, rollouts, group) /\ Members(Selected) \subseteq Pending
  <1> DEFINE full == {m \in Pending : Full(m)}
             P == Partition(VersionOf(InOrder(full)[1]))
  <1>1. full # {} /\ Selected = [k \in 1 .. BatchSize |-> InOrder(P)[k]]
    BY DEF Selected
  <1>2. IsFiniteSet(RowsOf(rollouts)) /\ RowsOf(rollouts) \subseteq Rollout
    BY RowsFinite DEF TypeOK
  <1>3. Pending \subseteq RowsOf(rollouts) /\ Pending \in SUBSET Rollout /\ IsFiniteSet(Pending)
    <2>1. Pending \in SUBSET RowsOf(rollouts)
      BY Unfolded DEF Pending
    <2> QED BY <1>2, <2>1, FS_Subset
  <1>4. IsFiniteSet(full) /\ full \in SUBSET Rollout
    BY <1>3, FS_Subset
  <1>5. IsFiniteSet(P) /\ P \in SUBSET Rollout /\ P \subseteq Pending
    BY <1>3, FS_Subset DEF Partition
  <1>6. InOrder(full)[1] \in full
    <2> HIDE DEF full
    <2>1. Cardinality(full) \in Nat /\ Cardinality(full) # 0
      BY <1>1, <1>4, FS_CardinalityType, FS_EmptySet
    <2>2. InOrder(full) \in [1 .. Cardinality(full) -> full]
      BY <1>4, InOrderLists
    <2> QED BY <2>1, <2>2
  <1>7. Cardinality(P) >= BatchSize
    BY <1>6 DEF Full
  <1>8. \A m \in P : VersionOf(m) = VersionOf(InOrder(full)[1])
    BY DEF Partition
  <1> HIDE DEF P, full
  <1>9. /\ Cardinality(P) \in Nat /\ InOrder(P) \in [1 .. Cardinality(P) -> P]
        /\ \A j, k \in 1 .. Cardinality(P) : InOrder(P)[j] = InOrder(P)[k] => j = k
    BY <1>5, InOrderLists
  <1>10. BatchSize \in Nat /\ \A k \in 1 .. BatchSize : k \in 1 .. Cardinality(P)
    BY <1>7, <1>9, QueueAssumption
  <1>11. /\ Selected \in [1 .. BatchSize -> P]
         /\ \A j, k \in 1 .. BatchSize : Selected[j] = Selected[k] => j = k
    BY <1>1, <1>9, <1>10
  <1>12. Cardinality(Members(Selected)) = BatchSize
    BY <1>10, <1>11, DistinctMembers
  <1>13. Selected \in Seq(P)
    BY <1>10, <1>11, SeqDef
  <1>14. Len(Selected) = BatchSize
    BY <1>10, <1>11, <1>13
  <1>15. Selected \in Seq(Rollout)
    BY <1>5, <1>13, SeqMonotonic
  <1>16. Members(Selected) \subseteq P
    BY <1>11 DEF Members
  <1>17. \A m, n \in Members(Selected) : group[m[1]].version = group[n[1]].version
    BY <1>8, <1>16 DEF VersionOf
  <1> QED BY <1>3, <1>5, <1>12, <1>14, <1>15, <1>16, <1>17 DEF BatchOK

\* The rows _process_group makes are new: in no batch and not discarded.
LEMMA ProcessedOK ==
  ASSUME TypeOK, NEW g \in Group
  PROVE  /\ Processed(g) \in Seq(RolloutRow)
         /\ \A i \in DOMAIN Processed(g) : Processed(g)[i].step = 0 /\ ~Processed(g)[i].discarded
  <1> DEFINE traces == group[g].traces
             R == {m \in {g} \X DOMAIN traces : Surviving(traces[m[2]])}
             row(i) == [kept |-> traces[Survivors(g)[i][2]] = "kept", step |-> 0, discarded |-> FALSE]
             new == [i \in DOMAIN Survivors(g) |-> row(i)]
  <1>1. Processed(g) = <<>> \/ Processed(g) = new
    BY DEF Processed
  <1>2. traces \in Seq(Trace)
    BY DEF TypeOK, GroupRow
  <1>3. IsFiniteSet({g} \X DOMAIN traces) /\ {g} \X DOMAIN traces \subseteq Rollout
    <2>1. DOMAIN traces = 1 .. Len(traces) /\ Len(traces) \in Nat
      BY <1>2, LenProperties
    <2> HIDE DEF traces
    <2>2. IsFiniteSet(DOMAIN traces)
      BY <2>1, FS_Interval
    <2>3. IsFiniteSet({g})
      BY FS_Singleton
    <2>4. IsFiniteSet({g} \X DOMAIN traces)
      BY <2>2, <2>3, FS_Product
    <2>5. {g} \X DOMAIN traces \subseteq Rollout
      BY <2>1 DEF Rollout
    <2> QED BY <2>4, <2>5
  <1>4. IsFiniteSet(R) /\ R \in SUBSET Rollout
    BY <1>3, FS_Subset
  <1>5. Survivors(g) \in Seq(R)
    <2>1. Survivors(g) = InOrder(R)
      BY DEF Survivors
    <2> HIDE DEF R
    <2> QED BY <1>4, <2>1, InOrderSeq
  <1>6. DOMAIN Survivors(g) = 1 .. Len(Survivors(g)) /\ Len(Survivors(g)) \in Nat
    BY <1>5, LenProperties
  <1>7. \A i \in DOMAIN Survivors(g) : row(i) \in RolloutRow
    BY DEF RolloutRow
  <1>8. new \in [1 .. Len(Survivors(g)) -> RolloutRow]
    BY <1>6, <1>7
  <1>9. new \in Seq(RolloutRow)
    <2> HIDE DEF new
    <2> QED BY <1>6, <1>8, SeqDef
  <1>10. \A i \in DOMAIN new : new[i].step = 0 /\ ~new[i].discarded
    OBVIOUS
  <1> HIDE DEF new
  <1>11. CASE Processed(g) = new
    BY <1>9, <1>10, <1>11
  <1>12. CASE Processed(g) = <<>>
    BY <1>12
  <1> QED BY <1>1, <1>11, <1>12

-----------------------------------------------------------------------------
(* The invariant across the steps that leave rows and batches alone.       *)

\* The trainer's side across any step that keeps it and the recorded batches.
LEMMA TrainerStays ==
  ASSUME QInv, RowsStay(rollouts, rollouts', group, group'), UNCHANGED <<exported, weights>>,
         batches' \in Seq(Seq(Rollout)), Len(batches) <= Len(batches'),
         \A s \in DOMAIN batches : batches'[s] = batches[s],
         exportedTo' \in {0, exportedTo}
  PROVE  TrainerOK'
  <1>1. DOMAIN batches = 1 .. Len(batches) /\ Len(batches) \in Nat /\ exportedTo \in Nat
    BY LenProperties DEF QInv, TypeOK
  <1>2. DOMAIN batches' = 1 .. Len(batches') /\ Len(batches') \in Nat
    BY LenProperties
  <1>3. DOMAIN batches \subseteq DOMAIN batches'
    BY <1>1, <1>2
  <1>4. \A s \in DOMAIN batches : SamplesIn(batches'[s], rollouts') = SamplesIn(batches[s], rollouts)
    BY BatchStays DEF QInv, BatchesOK
  <1>5. exportedTo' <= Len(batches')
    BY <1>1, <1>2 DEF QInv, TrainerOK
  <1>6. \A s \in Step : exported'[s] # <<>> =>
          s \in DOMAIN batches' /\ exported'[s] = SamplesIn(batches'[s], rollouts')
    BY <1>3, <1>4 DEF QInv, TrainerOK
  <1>7. \A v \in DOMAIN weights' :
          v \in DOMAIN batches' /\ weights'[v] = SamplesIn(batches'[v], rollouts')
    BY <1>3, <1>4 DEF QInv, TrainerOK
  <1> QED BY <1>5, <1>6, <1>7 DEF TrainerOK

\* Rows that stay with their batch steps and discards keep every recorded batch.
LEMMA BatchesStay ==
  ASSUME QInv, RowsStay(rollouts, rollouts', group, group'), batches' = batches,
         \A m \in RowsOf(rollouts) : RowIn(rollouts', m).step = RowIn(rollouts, m).step,
         \A m \in RowsOf(rollouts) : RowIn(rollouts, m).step # 0 =>
            RowIn(rollouts', m).discarded = RowIn(rollouts, m).discarded,
         \A m \in RowsOf(rollouts') \ RowsOf(rollouts) : RowIn(rollouts', m).step = 0,
         \A s \in DOMAIN batches : batchFiles'[s] = batchFiles[s]
  PROVE  BatchesOK'
  <1>1. ASSUME NEW s \in DOMAIN batches
        PROVE  /\ BatchOK(batches[s], rollouts', group')
               /\ \A m \in Members(batches[s]) : RowIn(rollouts', m).step = s /\ ~RowIn(rollouts', m).discarded
               /\ batchFiles'[s] = SamplesIn(batches[s], rollouts')
    <2>1. BatchOK(batches[s], rollouts, group)
      BY DEF QInv, BatchesOK
    <2>2. BatchOK(batches[s], rollouts', group')
          /\ SamplesIn(batches[s], rollouts') = SamplesIn(batches[s], rollouts)
      BY <2>1, BatchStays
    <2>3. s # 0
      BY LenProperties DEF QInv, TypeOK
    <2>4. \A m \in Members(batches[s]) : m \in RowsOf(rollouts) /\ RowIn(rollouts, m).step = s
                                         /\ ~RowIn(rollouts, m).discarded
      BY <2>1 DEF BatchOK, QInv, BatchesOK
    <2> QED BY <2>2, <2>3, <2>4 DEF QInv, BatchesOK
  <1>2. ASSUME NEW m \in RowsOf(rollouts'), RowIn(rollouts', m).step # 0
        PROVE  /\ RowIn(rollouts', m).step \in DOMAIN batches
               /\ m \in Members(batches[RowIn(rollouts', m).step])
    BY <1>2 DEF QInv, BatchesOK
  <1> QED BY <1>1, <1>2 DEF QInv, BatchesOK

\* Nothing moves but the position of the loop and what it carries.
LEMMA QuietOK ==
  ASSUME QInv, TypeOK', UNCHANGED <<group, rollouts, processed, batches, batchFiles, exported, weights>>,
         exportedTo' \in {0, exportedTo}, processed \subseteq groupFiles',
         pc' \notin {"failed", "commit"}, pc' = "down" \/ pc \notin {"down", "commit"},
         pc' = "record" => picked' \in ReadyGroups /\ picked' \in groupFiles'
  PROVE  QInv'
  <1>1. RowsStay(rollouts, rollouts', group, group')
    BY DEF RowsStay
  <1>2. TrainerOK'
    <2>1. batches \in Seq(Seq(Rollout)) /\ Len(batches) \in Nat
      BY LenProperties DEF QInv, TypeOK
    <2> QED BY <1>1, <2>1, TrainerStays
  <1>3. BatchesOK'
    BY <1>1, BatchesStay
  <1>4. GroupsOK'
    BY DEF QInv, GroupsOK, ReadyGroups
  <1>5. HeldOK' /\ FilesOK'
    BY DEF QInv, HeldOK, FilesOK
  <1> QED BY <1>2, <1>3, <1>4, <1>5 DEF QInv

\* The loop goes on without having found anything to do, takes up a group, activates a
\* policy, or the process dies.
LEMMA LoopOK ==
  ASSUME QInv,
         \/ \E g \in Group : ProcessGroup(g)
         \/ NothingToProcess \/ NothingToEmit \/ NothingToExport
         \/ PublishPolicy \/ NothingToPublish \/ Crash \/ UNCHANGED vars
  PROVE  QInv'
  <1> USE DEF rows, files, trainer, task, Position
  <1>1. CASE UNCHANGED vars
    BY <1>1 DEF QInv, TypeOK, GroupsOK, BatchesOK, HeldOK, FilesOK, TrainerOK, ReadyGroups, vars
  <1>2. CASE \E g \in Group : ProcessGroup(g)
    <2>1. TypeOK'
      BY <1>2 DEF ProcessGroup, QInv, TypeOK, Group
    <2> QED BY <1>2, <2>1, QuietOK DEF ProcessGroup, QInv, GroupsOK
  <1>3. CASE NothingToProcess \/ NothingToEmit \/ NothingToExport \/ NothingToPublish
    <2>1. TypeOK'
      BY <1>3 DEF NothingToProcess, NothingToEmit, NothingToExport, NothingToPublish, QInv, TypeOK
    <2> QED BY <1>3, <2>1, QuietOK DEF NothingToProcess, NothingToEmit, NothingToExport, NothingToPublish,
            QInv, GroupsOK
  <1>4. CASE PublishPolicy
    <2>1. TypeOK'
      BY <1>4 DEF PublishPolicy, QInv, TypeOK
    <2> QED BY <1>4, <2>1, QuietOK DEF PublishPolicy, QInv, GroupsOK
  <1>5. CASE Crash
    <2>1. TypeOK'
      BY <1>5, EmptySeq, QueueAssumption DEF Crash, QInv, TypeOK
    <2> QED BY <1>5, <2>1, QuietOK DEF Crash, QInv, GroupsOK
  <1> QED BY <1>1, <1>2, <1>3, <1>4, <1>5

\* Groups appear and finish while the loop is anywhere; processed groups are not touched.
LEMMA GroupStepOK ==
  ASSUME QInv,
         \/ \E g \in Group, kind \in {"train", "eval"} : CreateGroup(g, kind)
         \/ \E g \in Group, traces \in Shape : FinishGroup(g, traces)
  PROVE  QInv'
  <1>1. UNCHANGED <<rollouts, processed, batches, groupFiles, batchFiles, exported, weights, exportedTo,
                    active, pc, picked, held, starting, crashes>>
    BY DEF CreateGroup, FinishGroup, rows, files, trainer, task
  <1>2. group' \in [Group -> GroupRow] /\ \A g \in Group : group[g].state = "ready" => group'[g] = group[g]
    <2>1. ASSUME NEW g \in Group, NEW kind \in {"train", "eval"}, CreateGroup(g, kind)
          PROVE  group' \in [Group -> GroupRow] /\ \A h \in Group : group[h].state = "ready" => group'[h] = group[h]
      BY <2>1 DEF CreateGroup, QInv, TypeOK, GroupRow
    <2>2. ASSUME NEW g \in Group, NEW traces \in Shape, FinishGroup(g, traces)
          PROVE  group' \in [Group -> GroupRow] /\ \A h \in Group : group[h].state = "ready" => group'[h] = group[h]
      <3>1. traces \in Seq(Trace) /\ group \in [Group -> GroupRow]
        BY QueueAssumption DEF QInv, TypeOK
      <3>2. group' = [group EXCEPT ![g] = [group[g] EXCEPT !.state = "ready", !.traces = traces]]
        BY <2>2, <3>1 DEF FinishGroup, GroupRow
      <3>3. [group[g] EXCEPT !.state = "ready", !.traces = traces] \in GroupRow
        BY <3>1 DEF GroupRow
      <3> QED BY <2>2, <3>1, <3>2, <3>3 DEF FinishGroup
    <2> QED BY <2>1, <2>2
  <1>3. \A m \in RowsOf(rollouts) : m[1] \in processed /\ m[1] \in Group
    BY DEF RowsOf, QInv, GroupsOK
  <1>4. RowsStay(rollouts, rollouts', group, group')
    BY <1>1, <1>2, <1>3 DEF RowsStay, QInv, GroupsOK
  <1>5. TypeOK'
    BY <1>1, <1>2 DEF QInv, TypeOK
  <1>6. TrainerOK'
    <2>1. batches \in Seq(Seq(Rollout)) /\ Len(batches) \in Nat
      BY LenProperties DEF QInv, TypeOK
    <2> QED BY <1>1, <1>4, <2>1, TrainerStays
  <1>7. BatchesOK'
    BY <1>1, <1>4, BatchesStay
  <1>8. GroupsOK'
    BY <1>1, <1>2 DEF QInv, TypeOK, GroupsOK, ReadyGroups
  <1>9. HeldOK'
    <2> SUFFICES ASSUME pc = "commit" PROVE HeldOK'
      BY <1>1 DEF HeldOK
    <2>1. BatchOK(held, rollouts, group)
      BY DEF QInv, HeldOK
    <2>2. BatchOK(held, rollouts', group')
      BY <1>4, <2>1, BatchStays
    <2>3. \A m \in Members(held) : group'[m[1]].version = group[m[1]].version
      BY <1>4, <2>1 DEF BatchOK, RowsStay
    <2> QED BY <1>1, <2>2, <2>3 DEF QInv, HeldOK
  <1>10. FilesOK'
    BY <1>1 DEF QInv, FilesOK
  <1> QED BY <1>1, <1>5, <1>6, <1>7, <1>8, <1>9, <1>10 DEF QInv

\* The trainer reads the exported batch of its next step.
LEMMA TrainOK == ASSUME QInv, Train PROVE QInv'
  <1> DEFINE step == Len(weights) + 1
  <1>1. /\ UNCHANGED <<group, rollouts, processed, batches, groupFiles, batchFiles, exported, exportedTo,
                       active, pc, picked, held, starting, crashes>>
        /\ weights' = Append(weights, exported[step]) /\ step <= MaxPolicy /\ exported[step] # <<>>
    BY DEF Train, rows, files, task
  <1>2. weights \in Seq(Seq(Rollout)) /\ Len(weights) \in Nat
    BY LenProperties DEF QInv, TypeOK
  <1>3. step \in Step
    BY <1>1, <1>2, QueueAssumption DEF Step
  <1>4. exported[step] \in Seq(Rollout)
    BY <1>3 DEF QInv, TypeOK
  <1>5. /\ weights' \in Seq(Seq(Rollout)) /\ DOMAIN weights' = 1 .. step /\ DOMAIN weights = 1 .. step - 1
        /\ \A v \in 1 .. step : weights'[v] = IF v = step THEN exported[step] ELSE weights[v]
    BY <1>1, <1>2, <1>4, LenProperties
  <1>6. TypeOK'
    BY <1>1, <1>5 DEF QInv, TypeOK
  <1>7. step \in DOMAIN batches /\ exported[step] = SamplesIn(batches[step], rollouts)
    BY <1>1, <1>3 DEF QInv, TrainerOK
  <1>8. TrainerOK'
    <2>1. \A v \in DOMAIN weights' : v \in DOMAIN batches /\ weights'[v] = SamplesIn(batches[v], rollouts)
      BY <1>2, <1>5, <1>7 DEF QInv, TrainerOK
    <2> HIDE DEF step
    <2> QED BY <1>1, <2>1 DEF QInv, TrainerOK
  <1>9. GroupsOK' /\ BatchesOK' /\ HeldOK' /\ FilesOK'
    BY <1>1 DEF QInv, GroupsOK, BatchesOK, HeldOK, FilesOK, ReadyGroups
  <1> QED BY <1>1, <1>6, <1>8, <1>9 DEF QInv

\* A recorded batch is exported: its artifact is there, and so is nothing else.
LEMMA ExportBatchOK == ASSUME QInv, ExportBatch PROVE QInv'
  <1> DEFINE step == exportedTo + 1
             content == SamplesIn(batches[step], rollouts)
  <1>1. /\ UNCHANGED <<group, rollouts, processed, batches, groupFiles, batchFiles, weights,
                       active, picked, held, starting, crashes>>
        /\ exportedTo < Len(batches) /\ pc = "export"
    BY DEF ExportBatch, rows, files
  <1>2. /\ batches \in Seq(Seq(Rollout)) /\ Len(batches) \in Nat /\ DOMAIN batches = 1 .. Len(batches)
        /\ exportedTo \in Nat /\ Len(batches) <= MaxSteps
    BY LenProperties DEF QInv, TypeOK, BatchesOK
  <1>3. step \in DOMAIN batches /\ step \in Step /\ step <= Len(batches) /\ step \in Nat
    BY <1>1, <1>2, QueueAssumption DEF Step
  <1>4. batchFiles[step] = content /\ batches[step] \in Seq(Rollout)
    BY <1>3 DEF QInv, BatchesOK, BatchOK
  <1>5. exported[step] = content \/ exported[step] = <<>>
    BY <1>3 DEF QInv, TrainerOK
  <1>6. Samples(batches[step]) = content
    BY Unfolded
  <1>7. exported' = [exported EXCEPT ![step] = content] /\ exportedTo' = step /\ pc' = pc
    BY <1>4, <1>5, <1>6 DEF ExportBatch, Intact
  <1>8. content \in Seq(Rollout)
    BY <1>4, SamplesType
  <1> HIDE DEF content
  <1>9. exported' \in [Step -> Seq(Rollout)]
        /\ \A s \in Step : exported'[s] = IF s = step THEN content ELSE exported[s]
    BY <1>3, <1>7, <1>8 DEF QInv, TypeOK
  <1>10. TypeOK'
    BY <1>1, <1>3, <1>7, <1>9 DEF QInv, TypeOK
  <1>11. TrainerOK'
    <2>1. \A s \in Step : exported'[s] # <<>> =>
             s \in DOMAIN batches /\ exported'[s] = SamplesIn(batches[s], rollouts)
      BY <1>3, <1>9 DEF content, QInv, TrainerOK
    <2> HIDE DEF step
    <2> QED BY <1>1, <1>3, <1>7, <2>1 DEF QInv, TrainerOK
  <1>12. GroupsOK' /\ BatchesOK' /\ HeldOK' /\ FilesOK'
    BY <1>1, <1>7 DEF QInv, GroupsOK, BatchesOK, HeldOK, FilesOK, ReadyGroups
  <1> QED BY <1>1, <1>7, <1>10, <1>11, <1>12 DEF QInv

\* DurableTrainingQueue.recover finds every artifact it looks for and leaves no other.
LEMMA RecoverOK == ASSUME QInv, Recover PROVE QInv'
  <1>1. UNCHANGED <<group, rollouts, processed, batches, exported, weights, exportedTo,
                    active, picked, held, starting, crashes>>
    BY DEF Recover, rows, trainer
  <1>2. \A s \in DOMAIN batches : Intact(batchFiles[s], Samples(batches[s]))
    BY Unfolded DEF QInv, BatchesOK, Intact
  <1>3. processed \subseteq groupFiles
    BY DEF QInv, GroupsOK
  <1>4. /\ groupFiles' = groupFiles \cap processed /\ pc' = "publish"
        /\ batchFiles' = [s \in Step |-> IF s \in DOMAIN batches THEN batchFiles[s] ELSE <<>>]
    BY <1>2, <1>3 DEF Recover
  <1>5. /\ batches \in Seq(Seq(Rollout)) /\ Len(batches) \in Nat /\ DOMAIN batches = 1 .. Len(batches)
        /\ Len(batches) <= MaxSteps
    BY LenProperties DEF QInv, TypeOK, BatchesOK
  <1>6. TypeOK'
    <2>1. \A s \in Step : batchFiles'[s] \in Seq(Rollout)
      BY <1>4, EmptySeq DEF QInv, TypeOK
    <2>2. batchFiles' \in [Step -> Seq(Rollout)]
      BY <1>4, <2>1
    <2> QED BY <1>1, <1>4, <2>2 DEF QInv, TypeOK, Position
  <1>7. \A s \in DOMAIN batches : batchFiles'[s] = batchFiles[s]
    BY <1>4, <1>5, QueueAssumption DEF Step
  <1>8. RowsStay(rollouts, rollouts', group, group')
    BY <1>1 DEF RowsStay
  <1>9. BatchesOK'
    BY <1>1, <1>7, <1>8, BatchesStay
  <1>10. TrainerOK'
    BY <1>1, <1>5, <1>8, TrainerStays
  <1>11. GroupsOK' /\ HeldOK'
    BY <1>1, <1>3, <1>4 DEF QInv, GroupsOK, HeldOK
  <1>12. FilesOK'
    BY <1>1, <1>4, <1>5 DEF FilesOK, Step
  <1> QED BY <1>4, <1>6, <1>9, <1>10, <1>11, <1>12 DEF QInv

-----------------------------------------------------------------------------
(* The invariant across the steps that change rows or batches.             *)

\* record_processed_group: the group had no rows, so nothing refers to the ones it gets.
LEMMA RecordGroupOK == ASSUME QInv, RecordGroup PROVE QInv'
  <1>1. /\ UNCHANGED <<group, batches, groupFiles, batchFiles, exported, weights, exportedTo,
                       active, held, starting, crashes>>
        /\ pc = "record" /\ pc' = "emit" /\ picked' = 0 /\ processed' = processed \cup {picked}
        /\ rollouts' = [rollouts EXCEPT ![picked] = Processed(picked)]
    BY DEF RecordGroup, files, trainer
  <1>2. /\ picked \in Group /\ group[picked].state = "ready" /\ picked \notin processed
        /\ picked \in groupFiles /\ rollouts[picked] = <<>>
    BY <1>1 DEF QInv, GroupsOK, ReadyGroups
  <1>3. /\ Processed(picked) \in Seq(RolloutRow)
        /\ \A i \in DOMAIN Processed(picked) :
              Processed(picked)[i].step = 0 /\ ~Processed(picked)[i].discarded
    BY <1>2, ProcessedOK DEF QInv
  <1>4. /\ rollouts' \in [Group -> Seq(RolloutRow)]
        /\ \A g \in Group : rollouts'[g] = IF g = picked THEN Processed(picked) ELSE rollouts[g]
    BY <1>1, <1>2, <1>3 DEF QInv, TypeOK
  <1>5. TypeOK'
    BY <1>1, <1>2, <1>4, QueueAssumption DEF QInv, TypeOK, Position
  <1>6. \A m \in RowsOf(rollouts) : m[1] \in Group /\ m[1] # picked /\ m[2] \in DOMAIN rollouts[m[1]]
                                    /\ m = <<m[1], m[2]>>
    BY <1>2 DEF RowsOf
  <1>7. \A m \in RowsOf(rollouts) : m \in RowsOf(rollouts') /\ RowIn(rollouts', m) = RowIn(rollouts, m)
    BY <1>4, <1>6 DEF RowsOf, RowIn
  <1>8. RowsStay(rollouts, rollouts', group, group')
    BY <1>1, <1>7 DEF RowsStay
  <1>9. \A m \in RowsOf(rollouts') \ RowsOf(rollouts) : RowIn(rollouts', m).step = 0
    <2> SUFFICES ASSUME NEW m \in RowsOf(rollouts') \ RowsOf(rollouts) PROVE RowIn(rollouts', m).step = 0
      OBVIOUS
    <2>1. m[1] \in Group /\ m[2] \in DOMAIN rollouts'[m[1]] /\ m = <<m[1], m[2]>>
      BY DEF RowsOf
    <2>2. m[1] = picked
      BY <1>4, <2>1 DEF RowsOf
    <2> QED BY <1>2, <1>3, <1>4, <2>1, <2>2 DEF RowIn
  <1>10. BatchesOK'
    BY <1>1, <1>7, <1>8, <1>9, BatchesStay
  <1>11. TrainerOK'
    <2>1. batches \in Seq(Seq(Rollout)) /\ Len(batches) \in Nat
      BY LenProperties DEF QInv, TypeOK
    <2> QED BY <1>1, <1>8, <2>1, TrainerStays
  <1>12. GroupsOK'
    BY <1>1, <1>2, <1>4 DEF QInv, GroupsOK
  <1>13. HeldOK' /\ FilesOK'
    BY <1>1 DEF QInv, HeldOK, FilesOK
  <1> QED BY <1>1, <1>5, <1>10, <1>11, <1>12, <1>13 DEF QInv

\* discard_processed_rollouts, on rollouts that are in no batch.
LEMMA DiscardOK ==
  ASSUME QInv, DiscardStale \/ DiscardEmpty
  PROVE  QInv'
  <1>1. /\ UNCHANGED <<group, processed, batches, groupFiles, batchFiles, exported, weights, exportedTo,
                       active, pc, picked, held, starting, crashes>>
        /\ pc = "emit"
    BY DEF DiscardStale, DiscardEmpty, files, trainer, task
  <1>2. PICK D : D \subseteq Pending /\ rollouts' = Discarded(D)
    <2>1. CASE DiscardStale
      BY <2>1 DEF DiscardStale
    <2>2. CASE DiscardEmpty
      BY <2>2, SelectedOK DEF DiscardEmpty, QInv
    <2> QED BY <2>1, <2>2
  <1>3. \A g \in Group : rollouts[g] \in Seq(RolloutRow) /\ DOMAIN rollouts[g] = 1 .. Len(rollouts[g])
                         /\ Len(rollouts[g]) \in Nat
    BY LenProperties DEF QInv, TypeOK
  <1>4. ASSUME NEW g \in Group
        PROVE  /\ rollouts'[g] \in Seq(RolloutRow) /\ DOMAIN rollouts'[g] = DOMAIN rollouts[g]
               /\ \A i \in DOMAIN rollouts[g] :
                     /\ rollouts'[g][i].kept = rollouts[g][i].kept /\ rollouts'[g][i].step = rollouts[g][i].step
                     /\ <<g, i>> \notin D => rollouts'[g][i] = rollouts[g][i]
    <2> DEFINE x(i) == IF <<g, i>> \in D THEN [rollouts[g][i] EXCEPT !.discarded = TRUE] ELSE rollouts[g][i]
               xs == [i \in DOMAIN rollouts[g] |-> x(i)]
    <2>1. rollouts'[g] = xs
      BY <1>2 DEF Discarded
    <2>2. \A i \in DOMAIN rollouts[g] : rollouts[g][i] \in RolloutRow
      BY <1>3
    <2>3. \A i \in DOMAIN rollouts[g] : /\ x(i) \in RolloutRow /\ x(i).kept = rollouts[g][i].kept
                                        /\ x(i).step = rollouts[g][i].step
                                        /\ <<g, i>> \notin D => x(i) = rollouts[g][i]
      BY <2>2 DEF RolloutRow
    <2>4. xs \in [1 .. Len(rollouts[g]) -> RolloutRow]
      BY <1>3, <2>3
    <2>5. xs \in Seq(RolloutRow)
      <3> HIDE DEF xs
      <3> QED BY <1>3, <2>4, SeqDef
    <2> QED BY <2>1, <2>3, <2>5
  <1>5. rollouts' \in [Group -> Seq(RolloutRow)]
    BY <1>2, <1>4 DEF Discarded
  <1>6. TypeOK'
    BY <1>1, <1>5 DEF QInv, TypeOK
  <1>7. RowsOf(rollouts') = RowsOf(rollouts)
    BY <1>4 DEF RowsOf
  <1>8. \A m \in RowsOf(rollouts) : m[1] \in Group /\ m[2] \in DOMAIN rollouts[m[1]] /\ m = <<m[1], m[2]>>
    BY DEF RowsOf
  <1>9. \A m \in RowsOf(rollouts) : /\ RowIn(rollouts', m).kept = RowIn(rollouts, m).kept
                                    /\ RowIn(rollouts', m).step = RowIn(rollouts, m).step
                                    /\ m \notin D => RowIn(rollouts', m) = RowIn(rollouts, m)
    BY <1>4, <1>8 DEF RowIn
  <1>10. \A m \in D : RowIn(rollouts, m).step = 0
    BY <1>2, Unfolded DEF Pending
  <1>11. RowsStay(rollouts, rollouts', group, group')
    BY <1>1, <1>7, <1>9 DEF RowsStay
  <1>12. BatchesOK'
    BY <1>1, <1>7, <1>9, <1>10, <1>11, BatchesStay
  <1>13. TrainerOK'
    <2>1. batches \in Seq(Seq(Rollout)) /\ Len(batches) \in Nat
      BY LenProperties DEF QInv, TypeOK
    <2> QED BY <1>1, <1>11, <2>1, TrainerStays
  <1>14. GroupsOK'
    <2>1. \A g \in Group : g \notin processed => rollouts'[g] = <<>>
      <3> SUFFICES ASSUME NEW g \in Group, g \notin processed PROVE rollouts'[g] = <<>>
        OBVIOUS
      <3>1. rollouts[g] = <<>>
        BY DEF QInv, GroupsOK
      <3>2. DOMAIN rollouts'[g] = {} /\ rollouts'[g] \in Seq(RolloutRow)
        BY <1>4, <3>1
      <3> DEFINE x == rollouts'[g]
      <3>3. Len(x) \in Nat /\ 1 .. Len(x) = {}
        BY <3>2, LenProperties
      <3>4. Len(x) = 0
        BY <3>3
      <3> QED BY <3>2, <3>4, EmptySeq
    <2> QED BY <1>1, <2>1 DEF QInv, GroupsOK
  <1>15. HeldOK' /\ FilesOK'
    BY <1>1 DEF QInv, HeldOK, FilesOK
  <1> QED BY <1>1, <1>6, <1>12, <1>13, <1>14, <1>15 DEF QInv

\* publish_batch: nothing is in the way of the next artifact, and the selection is what
\* record_training_batch will accept.
LEMMA PublishBatchOK == ASSUME QInv, PublishBatch PROVE QInv'
  <1> DEFINE step == Len(batches) + 1
             content == SamplesIn(Selected, rollouts)
  <1>1. /\ UNCHANGED <<group, rollouts, processed, batches, groupFiles, exported, weights, exportedTo,
                       active, picked, starting, crashes>>
        /\ pc = "emit" /\ Selected # <<>> /\ step <= MaxSteps
        /\ \A m \in Pending : ~Stale(m)
    BY DEF PublishBatch, rows, trainer
  <1>2. /\ batches \in Seq(Seq(Rollout)) /\ Len(batches) \in Nat /\ DOMAIN batches = 1 .. Len(batches)
    BY LenProperties DEF QInv, TypeOK
  <1>3. step \in Step /\ step \notin DOMAIN batches /\ Len(batches) < MaxSteps
    BY <1>1, <1>2, QueueAssumption DEF Step
  <1>4. batchFiles[step] = <<>>
    BY <1>1, <1>2, <1>3 DEF QInv, FilesOK
  <1>5. /\ batchFiles' = [batchFiles EXCEPT ![step] = content]
        /\ held' = Selected /\ pc' = "commit"
    <2>1. Samples(Selected) = content
      BY Unfolded
    <2> QED BY <1>4, <2>1 DEF PublishBatch, CanPublish
  <1>6. BatchOK(Selected, rollouts, group) /\ Members(Selected) \subseteq Pending
    BY <1>1, SelectedOK DEF QInv
  <1>7. Selected \in Seq(Rollout) /\ content \in Seq(Rollout)
    BY <1>6, SamplesType DEF BatchOK
  <1> HIDE DEF content
  <1>8. /\ batchFiles' \in [Step -> Seq(Rollout)]
        /\ \A s \in Step : batchFiles'[s] = IF s = step THEN content ELSE batchFiles[s]
    BY <1>3, <1>5, <1>7 DEF QInv, TypeOK
  <1>9. TypeOK'
    BY <1>1, <1>5, <1>7, <1>8 DEF QInv, TypeOK, Position
  <1>10. RowsStay(rollouts, rollouts', group, group')
    BY <1>1 DEF RowsStay
  <1>11. \A s \in DOMAIN batches : s \in Step /\ batchFiles'[s] = batchFiles[s]
    BY <1>2, <1>3, <1>8, QueueAssumption DEF Step
  <1>12. BatchesOK'
    BY <1>1, <1>10, <1>11, BatchesStay
  <1>13. TrainerOK'
    BY <1>1, <1>2, <1>10, TrainerStays
  <1>14. GroupsOK'
    BY <1>1, <1>5 DEF QInv, GroupsOK
  <1>15. HeldOK'
    <2>1. \A m \in Members(Selected) : /\ RowIn(rollouts, m).step = 0 /\ ~RowIn(rollouts, m).discarded
                                       /\ ~(active - group[m[1]].version > MaxPolicyLag)
      BY <1>1, <1>6, Unfolded DEF Pending, Stale, VersionOf
    <2>2. \A m \in Members(Selected) : active - group[m[1]].version <= MaxPolicyLag
      <3>1. \A m \in Members(Selected) : m \in Rollout
        BY <1>7, MembersFinite
      <3>2. \A m \in Members(Selected) : group[m[1]].version \in Nat
        BY <3>1 DEF Rollout, QInv, TypeOK, GroupRow
      <3> QED BY <2>1, <3>2, QueueAssumption DEF QInv, TypeOK
    <2>3. batchFiles'[step] = content
      BY <1>3, <1>8
    <2> QED BY <1>1, <1>3, <1>5, <1>6, <2>1, <2>2, <2>3 DEF HeldOK, content
  <1>16. FilesOK'
    BY <1>1, <1>2, <1>5, <1>8 DEF QInv, FilesOK
  <1> QED BY <1>5, <1>9, <1>12, <1>13, <1>14, <1>15, <1>16 DEF QInv

\* What record_training_batch does to the rows: the members of the batch get its step.
LEMMA CommitRows ==
  ASSUME QInv, CommitBatch
  PROVE  LET step == Len(batches) + 1 IN
         /\ pc = "commit" /\ pc' = "emit" /\ held' = <<>> /\ batches' = Append(batches, held)
         /\ rollouts' \in [Group -> Seq(RolloutRow)]
         /\ RowsOf(rollouts') = RowsOf(rollouts)
         /\ \A m \in RowsOf(rollouts) :
               /\ RowIn(rollouts', m).kept = RowIn(rollouts, m).kept
               /\ RowIn(rollouts', m).discarded = RowIn(rollouts, m).discarded
               /\ RowIn(rollouts', m).step = IF m \in Members(held) THEN step ELSE RowIn(rollouts, m).step
         /\ \A g \in Group : rollouts[g] = <<>> => rollouts'[g] = <<>>
  <1> DEFINE step == Len(batches) + 1
             taken == {m \in Members(held) : ~Available(m)}
             y(g, i) == IF <<g, i>> \in Members(held) THEN [rollouts[g][i] EXCEPT !.step = step]
                        ELSE rollouts[g][i]
             ys(g) == [i \in DOMAIN rollouts[g] |-> y(g, i)]
  <1>1. pc = "commit"
    BY DEF CommitBatch
  <1>2. taken = {}
    BY <1>1, Unfolded DEF QInv, HeldOK
  <1>3. /\ pc' = "emit" /\ held' = <<>> /\ batches' = Append(batches, held)
        /\ rollouts' = [g \in Group |-> ys(g)]
    BY <1>2 DEF CommitBatch
  <1>4. step \in Nat
    BY LenProperties DEF QInv, TypeOK
  <1>5. ASSUME NEW g \in Group
        PROVE  /\ rollouts'[g] = ys(g) /\ ys(g) \in Seq(RolloutRow)
               /\ \A i \in DOMAIN rollouts[g] :
                     /\ y(g, i).kept = rollouts[g][i].kept /\ y(g, i).discarded = rollouts[g][i].discarded
                     /\ y(g, i).step = IF <<g, i>> \in Members(held) THEN step ELSE rollouts[g][i].step
               /\ rollouts[g] = <<>> => ys(g) = <<>>
    <2>1. rollouts[g] \in Seq(RolloutRow) /\ DOMAIN rollouts[g] = 1 .. Len(rollouts[g]) /\ Len(rollouts[g]) \in Nat
      BY LenProperties DEF QInv, TypeOK
    <2>2. \A i \in DOMAIN rollouts[g] : rollouts[g][i] \in RolloutRow
      BY <2>1
    <2> HIDE DEF step
    <2>3. \A i \in DOMAIN rollouts[g] :
             /\ y(g, i) \in RolloutRow
             /\ y(g, i).kept = rollouts[g][i].kept /\ y(g, i).discarded = rollouts[g][i].discarded
             /\ y(g, i).step = IF <<g, i>> \in Members(held) THEN step ELSE rollouts[g][i].step
      BY <1>4, <2>2 DEF RolloutRow
    <2>4. ys(g) \in [1 .. Len(rollouts[g]) -> RolloutRow]
      BY <2>1, <2>3
    <2>5. ys(g) \in Seq(RolloutRow)
      <3> HIDE DEF ys
      <3> QED BY <2>1, <2>4, SeqDef
    <2>6. rollouts[g] = <<>> => ys(g) = <<>>
      OBVIOUS
    <2>7. rollouts'[g] = ys(g)
      BY <1>3 DEF step
    <2> QED BY <2>3, <2>5, <2>6, <2>7
  <1> HIDE DEF step, y
  <1>6. rollouts' \in [Group -> Seq(RolloutRow)]
    BY <1>3, <1>5
  <1>7. RowsOf(rollouts') = RowsOf(rollouts)
    BY <1>5 DEF RowsOf
  <1>8. \A m \in RowsOf(rollouts) : m[1] \in Group /\ m[2] \in DOMAIN rollouts[m[1]] /\ m = <<m[1], m[2]>>
    BY DEF RowsOf
  <1>9. \A m \in RowsOf(rollouts) :
               /\ RowIn(rollouts', m).kept = RowIn(rollouts, m).kept
               /\ RowIn(rollouts', m).discarded = RowIn(rollouts, m).discarded
               /\ RowIn(rollouts', m).step = IF m \in Members(held) THEN step ELSE RowIn(rollouts, m).step
    <2> TAKE m \in RowsOf(rollouts)
    <2>1. m[1] \in Group /\ m[2] \in DOMAIN rollouts[m[1]] /\ <<m[1], m[2]>> = m
      BY <1>8
    <2>2. RowIn(rollouts', m) = y(m[1], m[2])
      BY <1>5, <2>1 DEF RowIn
    <2>3. /\ y(m[1], m[2]).kept = rollouts[m[1]][m[2]].kept
          /\ y(m[1], m[2]).discarded = rollouts[m[1]][m[2]].discarded
          /\ y(m[1], m[2]).step
                = IF <<m[1], m[2]>> \in Members(held) THEN step ELSE rollouts[m[1]][m[2]].step
      BY <1>5, <2>1
    <2>4. RowIn(rollouts, m) = rollouts[m[1]][m[2]]
      BY DEF RowIn
    <2> QED BY <2>1, <2>2, <2>3, <2>4
  <1> QED BY <1>1, <1>3, <1>5, <1>6, <1>7, <1>9 DEF step

\* record_training_batch: the batch it records is the one whose file was published.
LEMMA CommitBatchOK == ASSUME QInv, CommitBatch PROVE QInv'
  <1> DEFINE step == Len(batches) + 1
  <1>1. /\ pc = "commit" /\ pc' = "emit" /\ held' = <<>> /\ batches' = Append(batches, held)
        /\ rollouts' \in [Group -> Seq(RolloutRow)]
        /\ RowsOf(rollouts') = RowsOf(rollouts)
        /\ \A m \in RowsOf(rollouts) :
              /\ RowIn(rollouts', m).kept = RowIn(rollouts, m).kept
              /\ RowIn(rollouts', m).discarded = RowIn(rollouts, m).discarded
              /\ RowIn(rollouts', m).step = IF m \in Members(held) THEN step ELSE RowIn(rollouts, m).step
        /\ \A g \in Group : rollouts[g] = <<>> => rollouts'[g] = <<>>
    BY CommitRows
  <1>2. UNCHANGED <<group, processed, groupFiles, batchFiles, exported, weights, exportedTo,
                    active, picked, starting, crashes>>
    BY DEF CommitBatch, files, trainer
  <1>3. /\ BatchOK(held, rollouts, group) /\ Len(batches) < MaxSteps
        /\ \A m \in Members(held) : RowIn(rollouts, m).step = 0 /\ ~RowIn(rollouts, m).discarded
        /\ batchFiles[step] = SamplesIn(held, rollouts)
    BY <1>1 DEF QInv, HeldOK
  <1>4. /\ batches \in Seq(Seq(Rollout)) /\ Len(batches) \in Nat /\ DOMAIN batches = 1 .. Len(batches)
        /\ held \in Seq(Rollout)
    BY LenProperties DEF QInv, TypeOK
  <1>5. /\ batches' \in Seq(Seq(Rollout)) /\ Len(batches') = step /\ DOMAIN batches' = 1 .. step
        /\ \A s \in 1 .. step : batches'[s] = IF s = step THEN held ELSE batches[s]
    BY <1>1, <1>4, LenProperties
  <1>6. TypeOK'
    BY <1>1, <1>2, <1>5, EmptySeq DEF QInv, TypeOK, Position
  <1>7. RowsStay(rollouts, rollouts', group, group')
    BY <1>1, <1>2 DEF RowsStay
  <1>8. step \in Nat /\ step <= MaxSteps /\ step # 0 /\ step \notin DOMAIN batches
        /\ \A s \in DOMAIN batches : s \in 1 .. step /\ s # step
    BY <1>3, <1>4, QueueAssumption
  <1>9. TrainerOK'
    <2>1. \A s \in DOMAIN batches : batches'[s] = batches[s]
      BY <1>5, <1>8
    <2>2. Len(batches) <= Len(batches')
      BY <1>4, <1>5
    <2> HIDE DEF step
    <2> QED BY <1>2, <1>5, <1>7, <2>1, <2>2, TrainerStays
  <1> HIDE DEF step
  <1>10. ASSUME NEW s \in 1 .. step
         PROVE  /\ BatchOK(batches'[s], rollouts', group')
                /\ \A m \in Members(batches'[s]) : RowIn(rollouts', m).step = s /\ ~RowIn(rollouts', m).discarded
                /\ batchFiles'[s] = SamplesIn(batches'[s], rollouts')
    <2>1. CASE s = step
      <3>1. batches'[s] = held
        BY <1>5, <2>1
      <3>2. BatchOK(held, rollouts', group') /\ SamplesIn(held, rollouts') = SamplesIn(held, rollouts)
        BY <1>3, <1>7, BatchStays
      <3>3. \A m \in Members(held) : m \in RowsOf(rollouts)
        BY <1>3 DEF BatchOK
      <3> QED BY <1>1, <1>2, <1>3, <2>1, <3>1, <3>2, <3>3
    <2>2. CASE s # step
      <3>1. batches'[s] = batches[s] /\ s \in DOMAIN batches
        BY <1>4, <1>5, <1>8, <2>2 DEF step
      <3>2. BatchOK(batches[s], rollouts, group)
        BY <3>1 DEF QInv, BatchesOK
      <3>3. BatchOK(batches[s], rollouts', group')
            /\ SamplesIn(batches[s], rollouts') = SamplesIn(batches[s], rollouts)
        BY <1>7, <3>2, BatchStays
      <3>4. \A m \in Members(batches[s]) : /\ m \in RowsOf(rollouts) /\ RowIn(rollouts, m).step = s
                                           /\ ~RowIn(rollouts, m).discarded
        BY <3>1, <3>2 DEF BatchOK, QInv, BatchesOK
      <3>5. s # 0
        BY <1>4, <3>1
      <3>6. \A m \in Members(batches[s]) : m \notin Members(held)
        BY <1>3, <3>4, <3>5
      <3> QED BY <1>1, <1>2, <3>1, <3>3, <3>4, <3>6 DEF QInv, BatchesOK
    <2> QED BY <2>1, <2>2
  <1>11. ASSUME NEW m \in RowsOf(rollouts'), RowIn(rollouts', m).step # 0
         PROVE  /\ RowIn(rollouts', m).step \in 1 .. step
                /\ m \in Members(batches'[RowIn(rollouts', m).step])
    <2>1. CASE m \in Members(held)
      BY <1>1, <1>5, <1>8, <2>1
    <2>2. CASE m \notin Members(held)
      <3>1. RowIn(rollouts', m).step = RowIn(rollouts, m).step /\ m \in RowsOf(rollouts)
        BY <1>1, <2>2
      <3>2. RowIn(rollouts, m).step \in DOMAIN batches /\ m \in Members(batches[RowIn(rollouts, m).step])
        BY <1>11, <3>1 DEF QInv, BatchesOK
      <3> QED BY <1>5, <1>8, <3>1, <3>2
    <2> QED BY <2>1, <2>2
  <1>12. BatchesOK'
    BY <1>5, <1>8, <1>10, <1>11 DEF BatchesOK
  <1>13. GroupsOK'
    BY <1>1, <1>2 DEF QInv, GroupsOK
  <1>14. HeldOK'
    BY <1>1 DEF HeldOK
  <1>15. FilesOK'
    BY <1>1, <1>2, <1>4, <1>5 DEF QInv, FilesOK, step, Step
  <1> QED BY <1>1, <1>6, <1>9, <1>12, <1>13, <1>14, <1>15 DEF QInv

-----------------------------------------------------------------------------
(* The theorems.                                                           *)

\* The empty queue satisfies the invariant.
LEMMA QInvInit == Init => QInv
  <1> SUFFICES ASSUME Init PROVE QInv
    OBVIOUS
  <1>1. TypeOK
    BY QueueAssumption, EmptySeq DEF Init, TypeOK, AbsentGroup, GroupRow, Position
  <1>2. RowsOf(rollouts) = {}
    BY DEF Init, RowsOf
  <1>3. Len(batches) = 0 /\ DOMAIN batches = {} /\ DOMAIN weights = {}
    BY DEF Init
  <1>4. BatchesOK
    BY <1>2, <1>3, QueueAssumption DEF BatchesOK
  <1>5. GroupsOK /\ HeldOK /\ FilesOK
    BY DEF Init, GroupsOK, HeldOK, FilesOK
  <1>6. TrainerOK
    BY <1>3 DEF Init, TrainerOK
  <1> QED BY <1>1, <1>4, <1>5, <1>6 DEF QInv, Init

\* Every step preserves the invariant.
LEMMA QInvStep == QInv /\ [Next]_vars => QInv'
  BY LoopOK, GroupStepOK, TrainOK, ExportBatchOK, RecoverOK, RecordGroupOK, DiscardOK, PublishBatchOK,
     CommitBatchOK DEF Next, Serve

\* QInv is an invariant of the queue.
LEMMA QInductive == Spec => []QInv
  BY QInvInit, QInvStep, PTL DEF Spec

\* Every variable keeps its type; in particular every row of a batch is a rollout of some
\* group, and every file is a list of rollouts.
THEOREM QueueTypes == Spec => []TypeOK
  <1>1. QInv => TypeOK
    BY DEF QInv
  <1> QED BY <1>1, QInductive, PTL

\* A rollout is consumed at most once: no crash between the file of a batch and its row, no
\* recovery and no discard makes a rollout a member of two batches or of none it is marked
\* with (record_training_batch, discard_processed_rollouts, DurableTrainingQueue.recover).
THEOREM RolloutsConsumedOnce == Spec => []RolloutsUsedOnce
  <1>1. QInv => RolloutsUsedOnce
    <2> SUFFICES ASSUME QInv PROVE RolloutsUsedOnce
      OBVIOUS
    <2>1. \A s \in DOMAIN batches :
             /\ Cardinality(Members(batches[s])) = Len(batches[s])
             /\ \A m \in Members(batches[s]) : RolloutRowOf(m).step = s /\ ~RolloutRowOf(m).discarded
      BY DEF QInv, BatchesOK, BatchOK, RowIn, RolloutRowOf
    <2>2. ASSUME NEW g \in Group, NEW i \in DOMAIN rollouts[g], rollouts[g][i].step # 0
          PROVE  <<g, i>> \in Members(batches[rollouts[g][i].step])
      <3>1. <<g, i>> \in RowsOf(rollouts) /\ RowIn(rollouts, <<g, i>>) = rollouts[g][i]
        BY DEF RowsOf, RowIn
      <3> QED BY <2>2, <3>1 DEF QInv, BatchesOK
    <2> QED BY <2>1, <2>2 DEF RolloutsUsedOnce
  <1> QED BY <1>1, QInductive, PTL

\* A training batch has exactly BatchSize rollouts, all sampled from one policy, for any mix
\* of policies in the pool (_select_policy_homogeneous_batch).
THEOREM BatchesOfOnePolicy == Spec => []BatchesHomogeneous
  <1>1. QInv => BatchesHomogeneous
    BY DEF QInv, BatchesOK, BatchOK, BatchesHomogeneous, VersionOf
  <1> QED BY <1>1, QInductive, PTL

\* The trainer only ever sees recorded batches: every exported file and every policy come
\* from the batch recorded for that step, although a step number is reused when a crash
\* loses a published batch (export_available, DurableTrainingQueue.recover).
THEOREM TrainedAsRecorded == Spec => []TrainedOnRecordedBatches
  <1>1. QInv => TrainedOnRecordedBatches
    BY Unfolded DEF QInv, TrainerOK, TrainedOnRecordedBatches
  <1> QED BY <1>1, QInductive, PTL

\* Whatever crashes come between files and rows, neither the service loop nor a start meets
\* a missing, different or superfluous artifact (verify, _publish, recover, _export_record).
THEOREM QueueNeverWedges == Spec => []NeverWedged
  <1>1. QInv => NeverWedged
    BY DEF QInv, GroupsOK, NeverWedged
  <1> QED BY <1>1, QInductive, PTL

\* Rollouts in a newly recorded batch are inside the lag window of that moment: no policy is
\* activated between the selection and the row (_is_stale, record_training_batch).
THEOREM BatchesFresh == Spec => FreshWhenRecorded
  <1>1. QInv /\ [Next]_vars =>
          (Len(batches') > Len(batches) =>
              \A m \in Members(batches'[Len(batches')]) :
                  active' - group'[m[1]].version <= MaxPolicyLag)
    <2> SUFFICES ASSUME QInv, [Next]_vars, Len(batches') > Len(batches)
                 PROVE  \A m \in Members(batches'[Len(batches')]) :
                           active' - group'[m[1]].version <= MaxPolicyLag
      OBVIOUS
    <2>1. Len(batches) \in Nat /\ batches \in Seq(Seq(Rollout)) /\ held \in Seq(Rollout)
      BY LenProperties DEF QInv, TypeOK
    <2>2. batches' # batches
      BY <2>1
    <2>3. CommitBatch
      BY <2>2 DEF Next, Serve, vars, rows, CreateGroup, FinishGroup, ProcessGroup, NothingToProcess,
         RecordGroup, DiscardStale, DiscardEmpty, PublishBatch, NothingToEmit, ExportBatch,
         NothingToExport, PublishPolicy, NothingToPublish, Recover, Train, Crash
    <2>4. batches' = Append(batches, held) /\ pc = "commit"
      BY <2>3, CommitRows
    <2>5. batches'[Len(batches')] = held
      BY <2>1, <2>4
    <2>6. active' = active /\ group' = group
      BY <2>3 DEF CommitBatch
    <2> QED BY <2>4, <2>5, <2>6 DEF QInv, HeldOK
  <1> QED BY <1>1, QInductive, PTL DEF Spec, FreshWhenRecorded
=============================================================================
