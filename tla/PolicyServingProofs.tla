------------------------ MODULE PolicyServingProofs -------------------------
(***************************************************************************)
(* How a policy comes to a worker and is served, proved for every value of *)
(* the constants.  PolicyTransfer, for every number of policies, blocks,   *)
(* attempts, kept versions and stops: the relay's index never leads to     *)
(* another policy's shards and only a policy's exact bytes are placed.     *)
(* WorkerPolicies, for every number of slots, adapters, sizes and budgets: *)
(* PoliciesSafe.                                                           *)
(*                                                                         *)
(* The bytes of a set of adapters are counted, so sums become facts about  *)
(* cardinalities; reference counts are cardinalities of the sets of slots  *)
(* that hold a reference.                                                  *)
(***************************************************************************)
EXTENDS PolicyTransfer, WorkerPolicies, FiniteSetTheorems, TLAPS

-----------------------------------------------------------------------------
(* Transfer.                                                               *)

\* The relay keeps one directory per version, of the last max_versions, and
\* the one whose record it is about to write.
DirsSound ==
    /\ \A d \in dirs : version - MaxVersions < d[1]
    /\ \A d, e \in dirs : d[1] = e[1] => d = e
    /\ relay # 0 => HasDir(relay)

RecordsSound == \A r \in index, d \in dirs : d[1] = r[2] => d[2] = r[1]

IndexBounded == IsFiniteSet(index) /\ Cardinality(index) <= MaxVersions

RelayInv == DirsSound /\ RecordsSound /\ IndexBounded

RelayTypes ==
    /\ current \in Policy
    /\ version \in Nat
    /\ dirs \subseteq (1 .. version) \X Policy
    /\ index \subseteq Policy \X (1 .. version)
    /\ relay \in 0 .. version

\* Where the download is, what the partial file may hold.
FetchTypes ==
    /\ part \in Seq(0 .. LastPolicy) /\ Len(part) <= Blocks
    /\ placed \in Seq(0 .. LastPolicy)
    /\ fetch \in [at: {"start", "shards", "assemble", "attempt", "stream", "check", "placed", "failed"},
                  attempt: 0 .. Tries, version: 0 .. version,
                  source: {"none", "external", "coordinator"}]
    /\ stops \in 0 .. MaxStops
    /\ fetch.at = "shards" => part = <<>>
    /\ fetch.at = "assemble" => Len(part) < Blocks
    /\ fetch.at = "stream" => fetch.attempt < Tries

TransferInv == RelayTypes /\ FetchTypes /\ RelayInv /\ PlacedExact

-----------------------------------------------------------------------------
(* The relay.                                                              *)

\* Records that lead to directories, each to its own, are no more than the
\* versions that are kept.
LEMMA FewRecords ==
  ASSUME TransferAssumption, RelayTypes, DirsSound, NEW records,
         records \subseteq Policy \X (1 .. version),
         \A r \in records : HasDir(r[2]),
         \A r \in records, d \in dirs : d[1] = r[2] => d[2] = r[1]
  PROVE  IsFiniteSet(records) /\ Cardinality(records) <= MaxVersions
  <1> DEFINE kept == version - MaxVersions + 1 .. version
             f == [r \in records |-> r[2]]
  <1>1. version \in Nat /\ MaxVersions \in Nat \ {0}
    BY DEF RelayTypes, TransferAssumption
  <1>2. IsFiniteSet(kept) /\ Cardinality(kept) = MaxVersions
    <2>1. version - MaxVersions + 1 \in Int /\ version \in Int
      BY <1>1
    <2> QED BY <1>1, <2>1, FS_Interval
  <1>3. ASSUME NEW r \in records PROVE r[2] \in kept
    <2>1. PICK d \in dirs : d[1] = r[2]
      BY DEF HasDir
    <2>2. version - MaxVersions < d[1] /\ r[2] \in 1 .. version
      BY DEF DirsSound
    <2> QED BY <1>1, <2>1, <2>2
  <1>4. ASSUME NEW r \in records, NEW s \in records, r[2] = s[2] PROVE r = s
    <2>1. PICK d \in dirs : d[1] = r[2]
      BY DEF HasDir
    <2>2. r[1] = s[1]
      BY <1>4, <2>1
    <2>3. r = <<r[1], r[2]>> /\ s = <<s[1], s[2]>>
      OBVIOUS
    <2> QED BY <1>4, <2>2, <2>3
  <1>5. f \in Injection(records, kept)
    <2>1. f \in [records -> kept]
      BY <1>3
    <2>2. \A r, s \in records : f[r] = f[s] => r = s
      BY <1>4
    <2> QED BY <2>1, <2>2 DEF Injection, IsInjective
  <1> HIDE DEF f, kept
  <1>6. IsFiniteSet(records) /\ Cardinality(records) <= Cardinality(kept)
    BY <1>2, <1>5, FS_Injection
  <1> QED BY <1>2, <1>6

\* A broadcast adds the directory of the next version and removes old ones.
LEMMA BroadcastStep ==
  ASSUME TransferAssumption, RelayTypes, RelayInv, Broadcast
  PROVE  RelayTypes' /\ RelayInv'
  <1>1. version \in Nat /\ MaxVersions \in Nat \ {0, 1} /\ current \in Policy
    BY DEF RelayTypes, TransferAssumption
  <1>2. PICK v \in Nat : v = version + 1
    BY <1>1
  <1>3. /\ version' = v /\ relay' = v /\ UNCHANGED <<current, index>>
        /\ <<v, current>> \in dirs'
    BY <1>2 DEF Broadcast
  <1>4. ASSUME NEW d \in dirs PROVE d[1] \in 1 .. version /\ d[1] # v /\ d \in (1 .. v) \X Policy
    <2>1. d \in (1 .. version) \X Policy
      BY DEF RelayTypes
    <2> QED BY <1>2, <1>1, <2>1
  <1>5. ASSUME NEW d \in dirs'
        PROVE  (d \in dirs /\ d[1] > version + 1 - MaxVersions) \/ d = <<v, current>>
    BY <1>2, <1>5 DEF Broadcast
  <1>6. RelayTypes'
    <2>1. dirs' \subseteq (1 .. v) \X Policy
      <3>1. <<v, current>> \in (1 .. v) \X Policy
        BY <1>1, <1>2
      <3> QED BY <1>4, <1>5, <3>1
    <2>2. index \subseteq Policy \X (1 .. v)
      <3>1. 1 .. version \subseteq 1 .. v
        BY <1>2, <1>1
      <3> QED BY <3>1 DEF RelayTypes
    <2> QED BY <1>1, <1>3, <2>1, <2>2 DEF RelayTypes
  <1>7. DirsSound'
    <2>1. <<v, current>> \in dirs' /\ <<v, current>>[1] = v
      BY <1>3
    <2>2. \A d \in dirs' : v - MaxVersions < d[1]
      BY <1>1, <1>2, <1>4, <1>5, <2>1
    <2>3. \A d, e \in dirs' : d[1] = e[1] => d = e
      BY <1>4, <1>5, <2>1 DEF RelayInv, DirsSound
    <2>4. HasDir(relay)'
      BY <1>3, <2>1 DEF HasDir
    <2> QED BY <1>3, <2>2, <2>3, <2>4 DEF DirsSound
  <1>8. RecordsSound'
    <2> SUFFICES ASSUME NEW r \in index, NEW d \in dirs', d[1] = r[2] PROVE d[2] = r[1]
      BY <1>3 DEF RecordsSound
    <2>1. r[2] \in 1 .. version
      BY DEF RelayTypes
    <2>2. d[1] # v
      BY <1>2, <1>1, <2>1
    <2>3. d \in dirs
      BY <1>5, <2>2
    <2> QED BY <2>3 DEF RelayInv, RecordsSound
  <1>9. IndexBounded'
    BY <1>3 DEF RelayInv, IndexBounded
  <1> QED BY <1>6, <1>7, <1>8, <1>9 DEF RelayInv

\* The record of a version that is kept replaces its policy's, and records
\* without a directory go.
LEMMA PublishIndexStep ==
  ASSUME TransferAssumption, RelayTypes, RelayInv, PublishIndex
  PROVE  RelayTypes' /\ RelayInv'
  <1>1. PICK d \in dirs : d[1] = relay
    BY DEF PublishIndex, RelayInv, DirsSound, HasDir
  <1>2. Indexed(relay) = d[2]
    <2>1. (CHOOSE e \in dirs : e[1] = relay) = d
      BY <1>1 DEF RelayInv, DirsSound
    <2> QED BY <2>1 DEF Indexed
  <1>3. d[2] \in Policy /\ relay \in 1 .. version
    BY <1>1 DEF RelayTypes
  <1>4. /\ UNCHANGED <<current, version, dirs>> /\ relay' = 0 /\ version \in Nat
        /\ index' \subseteq index \cup {<<d[2], relay>>}
        /\ \A r \in index' : HasDir(r[2])
    BY <1>2 DEF PublishIndex, Reconciled, RelayTypes
  <1>5. RecordsSound'
    <2> SUFFICES ASSUME NEW r \in index', NEW e \in dirs, e[1] = r[2] PROVE e[2] = r[1]
      BY <1>4 DEF RecordsSound
    <2>1. CASE r \in index
      BY <2>1 DEF RelayInv, RecordsSound
    <2>2. CASE r = <<d[2], relay>>
      <3>1. e = d
        BY <1>1, <2>2 DEF RelayInv, DirsSound
      <3> QED BY <2>2, <3>1
    <2> QED BY <1>4, <2>1, <2>2
  <1>6. RelayTypes'
    BY <1>3, <1>4 DEF RelayTypes
  <1>7. DirsSound'
    BY <1>4 DEF RelayInv, DirsSound
  <1>8. IndexBounded'
    <2>1. index' \subseteq Policy \X (1 .. version)
      BY <1>4, <1>6 DEF RelayTypes
    <2>2. \A r \in index', e \in dirs : e[1] = r[2] => e[2] = r[1]
      BY <1>4, <1>5 DEF RecordsSound
    <2> QED BY <1>4, <2>1, <2>2, FewRecords DEF RelayInv, IndexBounded
  <1> QED BY <1>5, <1>6, <1>7, <1>8 DEF RelayInv

\* Steps that leave the relay alone, activate a policy or stop the relay.
LEMMA RelayQuiet ==
  ASSUME TransferAssumption, RelayTypes, RelayInv, UNCHANGED <<version, dirs, index>>,
         current' \in Policy, relay' \in {0, relay}
  PROVE  RelayTypes' /\ RelayInv'
  <1>1. RelayTypes'
    BY DEF RelayTypes
  <1>2. DirsSound'
    BY DEF RelayInv, DirsSound, HasDir
  <1> QED BY <1>1, <1>2 DEF RelayInv, RecordsSound, IndexBounded

-----------------------------------------------------------------------------
(* The download.                                                           *)

\* One more block of a file that is not complete.
LEMMA OneMoreBlock ==
  ASSUME TransferAssumption, FetchTypes, NEW block \in {0, Wanted}
  PROVE  /\ Append(part, block) \in Seq(0 .. LastPolicy)
         /\ Len(part) \in Nat /\ Len(Append(part, block)) = Len(part) + 1
  <1>1. block \in 0 .. LastPolicy
    BY DEF TransferAssumption, Policy
  <1> QED BY <1>1 DEF FetchTypes

\* Every step of the download keeps its types and places only exact bytes.
LEMMA FetchStep ==
  ASSUME TransferAssumption, RelayTypes, FetchTypes, PlacedExact, UNCHANGED relayVars,
         \/ FindShards \/ FetchShards \/ Assemble \/ CheckShards \/ OpenStream \/ Receive
         \/ Interrupted \/ StreamEnds \/ Place \/ WorkerStops
  PROVE  FetchTypes' /\ PlacedExact'
  <1>1. /\ UNCHANGED <<version, index>> /\ Tries \in Nat \ {0} /\ Blocks \in Nat \ {0} /\ version \in Nat
        /\ <<>> \in Seq(0 .. LastPolicy) /\ Len(<<>>) = 0
    BY DEF relayVars, TransferAssumption, RelayTypes
  <1>2. part' \in {part, <<>>} => part' \in Seq(0 .. LastPolicy) /\ Len(part') <= Blocks
    <2>1. part \in Seq(0 .. LastPolicy) /\ Len(part) <= Blocks /\ Len(<<>>) <= Blocks
      BY <1>1 DEF FetchTypes
    <2> QED BY <1>1, <2>1
  <1>3. fetch.attempt < Tries => fetch.attempt + 1 \in 0 .. Tries
    BY <1>1 DEF FetchTypes
  <1>4. CASE FindShards
    <2>1. UNCHANGED <<part, placed, stops>>
      BY <1>4 DEF FindShards
    <2>2. CASE Go("attempt")
      BY <1>1, <2>1, <2>2 DEF Go, FetchTypes, PlacedExact
    <2>3. CASE ~Go("attempt")
      <3>1. PICK r \in index : fetch' = [fetch EXCEPT !.at = "shards", !.version = r[2]] /\ part = <<>>
        BY <1>4, <2>3 DEF FindShards
      <3>2. r[2] \in 0 .. version
        BY <1>1 DEF RelayTypes
      <3> QED BY <1>1, <2>1, <3>1, <3>2 DEF FetchTypes, PlacedExact
    <2> QED BY <2>2, <2>3
  <1>5. CASE FetchShards
    <2>1. UNCHANGED <<part, placed, stops>> /\ fetch.at = "shards" /\ part = <<>>
          /\ (Go("assemble") \/ Go("attempt"))
      BY <1>5 DEF FetchShards, FetchTypes
    <2> QED BY <1>1, <2>1 DEF Go, FetchTypes, PlacedExact
  <1>6. CASE Assemble
    <2>1. PICK block \in {0, Wanted} : part' = Append(part, block)
      BY <1>6 DEF Assemble
    <2>2. /\ UNCHANGED <<placed, stops>> /\ fetch.at = "assemble" /\ Len(part) < Blocks
          /\ IF Len(part') < Blocks THEN UNCHANGED fetch ELSE Go("check")
      BY <1>6 DEF Assemble, FetchTypes
    <2>3. part' \in Seq(0 .. LastPolicy) /\ Len(part') <= Blocks
      BY <1>1, <2>1, <2>2, OneMoreBlock
    <2> QED BY <1>1, <2>2, <2>3 DEF Go, FetchTypes, PlacedExact
  <1>7. CASE CheckShards
    <2>1. UNCHANGED <<placed, stops>> /\ part' \in {part, <<>>} /\ Go("attempt")
      BY <1>7 DEF CheckShards
    <2> QED BY <1>1, <1>2, <2>1 DEF Go, FetchTypes, PlacedExact
  <1>8. CASE OpenStream
    <2>1. UNCHANGED <<placed, stops>> /\ part' \in {part, <<>>} /\ fetch.attempt < Tries
      BY <1>8 DEF OpenStream
    <2>2. PICK s \in {"external", "coordinator"} : fetch' = [fetch EXCEPT !.at = "stream", !.source = s]
      BY <1>8 DEF OpenStream, Sources
    <2> QED BY <1>1, <1>2, <2>1, <2>2 DEF FetchTypes, PlacedExact
  <1>9. CASE Receive
    <2>1. PICK block \in {0, Wanted} : part' = Append(part, block)
      BY <1>9 DEF Receive
    <2>2. UNCHANGED <<placed, stops, fetch>> /\ fetch.at = "stream" /\ Len(part) # Blocks
      BY <1>9 DEF Receive, Complete
    <2>3. part' \in Seq(0 .. LastPolicy) /\ Len(part') <= Blocks
      BY <1>1, <2>1, <2>2, OneMoreBlock DEF FetchTypes
    <2> QED BY <1>1, <2>2, <2>3 DEF FetchTypes, PlacedExact
  <1>10. CASE Interrupted
    <2>1. UNCHANGED <<part, placed, stops>> /\ fetch.attempt < Tries
      BY <1>10 DEF Interrupted, FetchTypes
    <2>2. PICK next \in {"attempt", "failed"} :
             fetch' = [fetch EXCEPT !.attempt = @ + 1, !.source = "none", !.at = next]
      BY <1>10 DEF Interrupted
    <2> QED BY <1>1, <1>3, <2>1, <2>2 DEF FetchTypes, PlacedExact
  <1>11. CASE StreamEnds
    <2>1. UNCHANGED <<placed, stops>> /\ part' \in {part, <<>>} /\ fetch.attempt < Tries
      BY <1>11 DEF StreamEnds, FetchTypes
    <2>2. PICK next \in {"attempt", "failed"} :
             fetch' = [fetch EXCEPT !.attempt = @ + 1, !.source = "none", !.at = next]
      BY <1>11 DEF StreamEnds
    <2> QED BY <1>1, <1>2, <1>3, <2>1, <2>2 DEF FetchTypes, PlacedExact
  <1>12. CASE Place
    <2>1. placed' = part /\ part' = <<>> /\ part = File(Wanted) /\ Go("placed") /\ UNCHANGED stops
      BY <1>12 DEF Place, Acceptable, Verified
    <2> QED BY <1>1, <2>1 DEF Go, FetchTypes, PlacedExact
  <1>13. CASE WorkerStops
    <2>1. UNCHANGED <<part, placed>> /\ fetch' = Resting /\ stops' \in 0 .. MaxStops
      BY <1>13 DEF WorkerStops, FetchTypes, TransferAssumption
    <2> QED BY <1>1, <2>1 DEF Resting, FetchTypes, PlacedExact
  <1> QED BY <1>4, <1>5, <1>6, <1>7, <1>8, <1>9, <1>10, <1>11, <1>12, <1>13

\* What the relay does leaves the download alone.
LEMMA FetchQuiet ==
  ASSUME TransferAssumption, RelayTypes, FetchTypes, PlacedExact,
         UNCHANGED <<part, placed, fetch>>, version' \in {version, version + 1}, stops' \in 0 .. MaxStops
  PROVE  FetchTypes' /\ PlacedExact'
  <1>1. 0 .. version \subseteq 0 .. version'
    BY DEF RelayTypes
  <1> QED BY <1>1 DEF FetchTypes, PlacedExact

-----------------------------------------------------------------------------
(* Theorems.                                                               *)

\* The invariant is inductive.
LEMMA TransferStep ==
  ASSUME TransferAssumption, TransferInv, [TransferNext]_transferVars
  PROVE  TransferInv'
  <1> USE DEF TransferInv
  <1>0. current \in Policy /\ stops \in 0 .. MaxStops
    BY DEF RelayTypes, FetchTypes
  <1>1. CASE Activate
    <2>1. current' \in Policy
      BY <1>1 DEF Activate, RelayTypes, Policy, TransferAssumption
    <2>2. UNCHANGED <<version, dirs, index, relay, part, placed, fetch, stops>>
      BY <1>1 DEF Activate
    <2> QED BY <1>0, <2>1, <2>2, RelayQuiet, FetchQuiet
  <1>2. CASE Broadcast
    <2>1. UNCHANGED <<part, placed, fetch, stops>> /\ version' = version + 1
      BY <1>2 DEF Broadcast
    <2> QED BY <1>0, <1>2, <2>1, BroadcastStep, FetchQuiet
  <1>3. CASE PublishIndex
    <2>1. UNCHANGED <<version, part, placed, fetch, stops>>
      BY <1>3 DEF PublishIndex
    <2> QED BY <1>0, <1>3, <2>1, PublishIndexStep, FetchQuiet
  <1>4. CASE RelayStops
    <2>1. /\ UNCHANGED <<current, version, dirs, index, part, placed, fetch>> /\ relay' = 0
          /\ stops' \in 0 .. MaxStops
      BY <1>0, <1>4 DEF RelayStops, TransferAssumption
    <2> QED BY <1>0, <2>1, RelayQuiet, FetchQuiet
  <1>5. CASE \/ FindShards \/ FetchShards \/ Assemble \/ CheckShards \/ OpenStream \/ Receive
             \/ Interrupted \/ StreamEnds \/ Place \/ WorkerStops
    <2>1. UNCHANGED relayVars
      BY <1>5 DEF FindShards, FetchShards, Assemble, CheckShards, OpenStream, Receive, Interrupted,
                  StreamEnds, Place, WorkerStops
    <2>2. FetchTypes' /\ PlacedExact'
      BY <1>5, <2>1, FetchStep
    <2>3. UNCHANGED <<current, version, dirs, index, relay>>
      BY <2>1 DEF relayVars
    <2> QED BY <1>0, <2>2, <2>3, RelayQuiet
  <1>6. CASE UNCHANGED transferVars
    <2>1. UNCHANGED <<current, version, dirs, index, relay, part, placed, fetch, stops>>
      BY <1>6 DEF transferVars, relayVars
    <2> QED BY <1>0, <2>1, RelayQuiet, FetchQuiet
  <1> QED BY <1>1, <1>2, <1>3, <1>4, <1>5, <1>6 DEF TransferNext

\* Whatever mix of sources, interruptions and stops, and however the relay
\* evicts versions between writing a directory and its record: the download
\* places exactly the policy's bytes, and the index stays within max_versions
\* and names no other policy's shards.
THEOREM TransfersAreExact == ASSUME TransferAssumption PROVE TransferSpec => []TransfersExact
  <1>1. TransferInit => TransferInv
    <2> SUFFICES ASSUME TransferInit PROVE TransferInv
      OBVIOUS
    <2>1. RelayTypes
      BY DEF TransferInit, RelayTypes, Policy, TransferAssumption
    <2>2. FetchTypes
      BY DEF TransferInit, FetchTypes, Resting, TransferAssumption
    <2>3. IndexBounded
      BY FS_EmptySet DEF TransferInit, IndexBounded, TransferAssumption
    <2> QED BY <2>1, <2>2, <2>3 DEF TransferInit, TransferInv, RelayInv, DirsSound, RecordsSound, PlacedExact
  <1>2. TransferInv /\ [TransferNext]_transferVars => TransferInv'
    BY TransferStep
  <1>3. TransferInv => TransfersExact
    BY DEF TransferInv, RelayTypes, FetchTypes, RelayInv, IndexBounded, RecordsSound, TransfersExact,
           TransferTypeOK, IndexSound
  <1> QED BY <1>1, <1>2, <1>3, PTL DEF TransferSpec

-----------------------------------------------------------------------------
(* The worker's policies.                                                  *)

-----------------------------------------------------------------------------
(* The invariant.                                                          *)

\* Tasks, locks and the process: a task that is not idle has a policy, the
\* prefetch loop only fills the cache, and a lock is held exactly where the
\* code is inside it.
TasksOK ==
    /\ \A t \in Tasks : task[t].at # "idle" => task[t].policy \in Policies
    /\ task[Prefetch].at \in {"idle", "ensure", "space", "download"}
    /\ \A t \in Tasks : task[t].at \in {"space", "download"} <=> capacity = t
    /\ \A t \in Tasks : task[t].at \in {"space", "download", "room", "waiting", "woken"}
                          => task[t].policy \in Adapters
    /\ \A s \in Slots : task[s].at \in {"room", "hold"} <=> condition = s
    /\ process # "up" => /\ \A t \in Tasks : task[t].at = "idle"
                         /\ marked = {} /\ loaded = {} /\ vllm = {}

\* What a slot has pinned is on disk, and what it serves is loaded.
HeldKept ==
    /\ \A s \in Slots : task[s].at \in Pinning /\ task[s].policy \in Adapters
                          => disk[task[s].policy] = "whole"
    /\ \A s \in Slots : task[s].at \in Using => task[s].policy \in loaded

\* vLLM, the cache's marks and the runtime's table agree, but for the adapter
\* that is loaded and not yet entered.
LoadedAgree ==
    /\ vllm = marked
    /\ \A p \in marked : disk[p] = "whole"
    /\ condition = Nobody => vllm = InVLLM
    /\ \A s \in Slots : task[s].at = "room" => vllm = InVLLM
    /\ \A s \in Slots : task[s].at = "hold" => vllm = InVLLM \cup ({task[s].policy} \cap Adapters)
    /\ Cardinality(vllm) <= MaxLoaded

\* The disk budget, also once the download under way is in place.
BytesOK ==
    /\ process = "up" => Bytes(OnDisk) <= MaxBytes
    /\ \A t \in Tasks : task[t].at = "download" => Fits(t)

\* What _make_space may not or did not remove.
Protected == {p \in Adapters : p \in marked \/ pins[p] > 0}
Remaining == (examined \cap OnDisk) \cup Protected

\* While a slot looks for space no pin is added, and only what is pinned gets
\* loaded: what remains is at most what was loaded and what the other slots
\* had pinned when it began.
SpaceOK ==
    \A s \in Slots : task[s].at = "space" =>
        Cardinality(Remaining) < MaxLoaded + Cardinality(Slots)

PoliciesInv ==
    /\ PoliciesTypeOK
    /\ TasksOK
    /\ HeldKept
    /\ LoadedAgree
    /\ ReferencesExact
    /\ BytesOK
    /\ SpaceOK

-----------------------------------------------------------------------------
(* Bytes.                                                                  *)

\* The bytes of a set of adapters are finitely many.
LEMMA BytesFinite ==
  ASSUME WorkerAssumption, NEW S \in SUBSET Adapters
  PROVE  /\ IsFiniteSet(UNION {{p} \X (1 .. Size[p]) : p \in S})
         /\ Bytes(S) \in Nat
  <1>1. UNION {{p} \X (1 .. Size[p]) : p \in S} \subseteq S \X (1 .. MaxBytes)
    BY DEF WorkerAssumption
  <1>2. IsFiniteSet(S) /\ IsFiniteSet(1 .. MaxBytes)
    BY FS_Subset, FS_Interval DEF WorkerAssumption
  <1>3. IsFiniteSet(S \X (1 .. MaxBytes))
    BY <1>2, FS_Product
  <1>4. IsFiniteSet(UNION {{p} \X (1 .. Size[p]) : p \in S})
    BY <1>1, <1>3, FS_Subset
  <1> QED BY <1>4, FS_CardinalityType DEF Bytes

\* More adapters have no fewer bytes.
LEMMA BytesMonotone ==
  ASSUME WorkerAssumption, NEW S \in SUBSET Adapters, NEW T \in SUBSET S
  PROVE  Bytes(T) <= Bytes(S)
  <1>1. UNION {{p} \X (1 .. Size[p]) : p \in T} \subseteq UNION {{p} \X (1 .. Size[p]) : p \in S}
    OBVIOUS
  <1> QED BY <1>1, BytesFinite, FS_Subset DEF Bytes

\* One more adapter adds at most its size.
LEMMA BytesAdd ==
  ASSUME WorkerAssumption, NEW S \in SUBSET Adapters, NEW q \in Adapters
  PROVE  Bytes(S \cup {q}) <= Bytes(S) + Size[q]
  <1> DEFINE A == UNION {{p} \X (1 .. Size[p]) : p \in S}
             B == {q} \X (1 .. Size[q])
  <1>1. UNION {{p} \X (1 .. Size[p]) : p \in S \cup {q}} = A \cup B
    OBVIOUS
  <1>2. Size[q] \in Nat \ {0}
    BY DEF WorkerAssumption
  <1>3. IsFiniteSet(1 .. Size[q]) /\ Cardinality(1 .. Size[q]) = Size[q]
    <2>1. Size[q] \in Int /\ 1 \in Int /\ ~(1 > Size[q])
      BY <1>2
    <2> QED BY <2>1, FS_Interval
  <1>4. IsFiniteSet(B) /\ Cardinality(B) = Size[q]
    <2>1. IsFiniteSet({q}) /\ Cardinality({q}) = 1
      BY FS_Singleton
    <2>2. /\ IsFiniteSet({q} \X (1 .. Size[q]))
          /\ Cardinality({q} \X (1 .. Size[q])) = 1 * Size[q]
      BY <1>3, <2>1, FS_Product
    <2> QED BY <1>2, <2>2
  <1>5. IsFiniteSet(A) /\ Cardinality(A) \in Nat
    BY BytesFinite, FS_CardinalityType
  <1>6. /\ Cardinality(A \cup B) = Cardinality(A) + Cardinality(B) - Cardinality(A \cap B)
        /\ Cardinality(A \cap B) \in Nat
    BY <1>4, <1>5, FS_Union, FS_Intersection, FS_CardinalityType
  <1>7. Cardinality(A \cup B) <= Cardinality(A) + Size[q]
    BY <1>2, <1>4, <1>5, <1>6
  <1> QED BY <1>1, <1>7 DEF Bytes

\* Few adapters of bounded size have few bytes.
LEMMA BytesBounded ==
  ASSUME WorkerAssumption, NEW S \in SUBSET Adapters, NEW c \in Nat,
         \A p \in S : Size[p] <= c
  PROVE  Bytes(S) <= Cardinality(S) * c
  <1>1. UNION {{p} \X (1 .. Size[p]) : p \in S} \subseteq S \X (1 .. c)
    BY DEF WorkerAssumption
  <1>2. IsFiniteSet(S) /\ IsFiniteSet(1 .. c) /\ Cardinality(1 .. c) = c
    BY FS_Subset, FS_Interval DEF WorkerAssumption
  <1>3. IsFiniteSet(S \X (1 .. c)) /\ Cardinality(S \X (1 .. c)) = Cardinality(S) * c
    BY <1>2, FS_Product
  <1> QED BY <1>1, <1>3, FS_Subset DEF Bytes

\* No adapters have no bytes.
LEMMA BytesEmpty == Bytes({}) = 0
  <1>1. UNION {{p} \X (1 .. Size[p]) : p \in {}} = {}
    OBVIOUS
  <1> QED BY <1>1, FS_EmptySet DEF Bytes

-----------------------------------------------------------------------------
(* Tasks and references.                                                   *)

\* A task goes on with the same policy.
LEMMA GotoMoves ==
  ASSUME PoliciesTypeOK, NEW t \in Tasks, NEW w \in Position, Goto(t, w)
  PROVE  /\ task' \in [Tasks -> [at: Position, policy: Policies \cup {Nobody}]]
         /\ task'[t].at = w /\ task'[t].policy = task[t].policy
         /\ \A u \in Tasks \ {t} : task'[u] = task[u]
  BY DEF PoliciesTypeOK, Goto

\* A task ends.
LEMMA IdleMoves ==
  ASSUME PoliciesTypeOK, NEW t \in Tasks, task' = [task EXCEPT ![t] = Idle]
  PROVE  /\ task' \in [Tasks -> [at: Position, policy: Policies \cup {Nobody}]]
         /\ task'[t].at = "idle" /\ task'[t].policy = Nobody
         /\ \A u \in Tasks \ {t} : task'[u] = task[u]
  BY DEF PoliciesTypeOK, Idle, Position

\* notify_all wakes the slots that wait, and the caller goes on to retention.
LEMMA NotifyMoves ==
  ASSUME PoliciesTypeOK, NEW s \in Slots, NotifyAll(s)
  PROVE  /\ task' \in [Tasks -> [at: Position, policy: Policies \cup {Nobody}]]
         /\ task'[s].at = "retain"
         /\ \A u \in Tasks : task'[u].policy = task[u].policy
         /\ \A u \in Tasks \ {s} : task'[u].at = IF task[u].at = "waiting" THEN "woken" ELSE task[u].at
  <1>1. s \in Tasks
    BY DEF Tasks
  <1>2. \A u \in Tasks : task[u] \in [at: Position, policy: Policies \cup {Nobody}]
    BY DEF PoliciesTypeOK
  <1>3. \A u \in Tasks : \A w \in Position :
          /\ [task[u] EXCEPT !.at = w] \in [at: Position, policy: Policies \cup {Nobody}]
          /\ [task[u] EXCEPT !.at = w].at = w
          /\ [task[u] EXCEPT !.at = w].policy = task[u].policy
    BY <1>2
  <1>4. "retain" \in Position /\ "woken" \in Position
    BY DEF Position
  <1> QED BY <1>1, <1>2, <1>3, <1>4 DEF NotifyAll

\* Nobody begins or ceases to hold a reference.
LEMMA HoldersSame ==
  ASSUME NEW p, NEW W,
         \A s \in Slots : (task'[s].policy = p /\ task'[s].at \in W)
                            <=> (task[s].policy = p /\ task[s].at \in W)
  PROVE  {s \in Slots : task'[s].policy = p /\ task'[s].at \in W} = Holders(p, W)
  BY DEF Holders

\* The holders are finitely many.
LEMMA HoldersFinite ==
  ASSUME WorkerAssumption, NEW p, NEW W
  PROVE  /\ IsFiniteSet(Holders(p, W)) /\ Cardinality(Holders(p, W)) \in Nat
         /\ Cardinality(Holders(p, W)) <= Cardinality(Slots)
         /\ Cardinality(Slots) \in Nat
  <1>1. Holders(p, W) \subseteq Slots
    BY DEF Holders
  <1> QED BY <1>1, FS_Subset, FS_CardinalityType DEF WorkerAssumption

\* One slot begins to hold a reference.
LEMMA HoldersAdd ==
  ASSUME WorkerAssumption, NEW p, NEW W, NEW s \in Slots,
         s \notin Holders(p, W), task'[s].policy = p /\ task'[s].at \in W,
         \A u \in Slots \ {s} : (task'[u].policy = p /\ task'[u].at \in W)
                            <=> (task[u].policy = p /\ task[u].at \in W)
  PROVE  Cardinality({u \in Slots : task'[u].policy = p /\ task'[u].at \in W})
            = Cardinality(Holders(p, W)) + 1
  <1>1. {u \in Slots : task'[u].policy = p /\ task'[u].at \in W} = Holders(p, W) \cup {s}
    BY DEF Holders
  <1>2. IsFiniteSet(Holders(p, W))
    BY HoldersFinite
  <1> QED BY <1>1, <1>2, FS_AddElement

\* One slot ceases to hold a reference.
LEMMA HoldersDrop ==
  ASSUME WorkerAssumption, NEW p, NEW W, NEW s \in Slots,
         s \in Holders(p, W), ~(task'[s].policy = p /\ task'[s].at \in W),
         \A u \in Slots \ {s} : (task'[u].policy = p /\ task'[u].at \in W)
                            <=> (task[u].policy = p /\ task[u].at \in W)
  PROVE  Cardinality({u \in Slots : task'[u].policy = p /\ task'[u].at \in W})
            = Cardinality(Holders(p, W)) - 1
  <1>1. {u \in Slots : task'[u].policy = p /\ task'[u].at \in W} = Holders(p, W) \ {s}
    BY DEF Holders
  <1>2. IsFiniteSet(Holders(p, W))
    BY HoldersFinite
  <1> QED BY <1>1, <1>2, FS_RemoveElement

\* A policy that a slot holds has a positive count.
LEMMA HolderCounts ==
  ASSUME WorkerAssumption, NEW p, NEW W, NEW s \in Holders(p, W)
  PROVE  Cardinality(Holders(p, W)) > 0
  <1>1. IsFiniteSet(Holders(p, W)) /\ Cardinality(Holders(p, W)) \in Nat
    BY HoldersFinite
  <1>2. Cardinality(Holders(p, W)) # 0
    BY <1>1, FS_EmptySet
  <1> QED BY <1>1, <1>2

\* The counts stay where no slot begins or ceases to hold.
LEMMA ReferencesSame ==
  ASSUME ReferencesExact, UNCHANGED <<pins, users>>,
         \A s \in Slots : /\ task'[s].at \in Using <=> task[s].at \in Using
                          /\ task'[s].at \in Pinning <=> task[s].at \in Pinning
                          /\ task[s].at \in Pinning => task'[s].policy = task[s].policy
  PROVE  ReferencesExact'
  <1>1. ASSUME NEW p \in Policies
        PROVE  Holders(p, Using)' = Holders(p, Using) /\ Holders(p, Pinning)' = Holders(p, Pinning)
    <2>1. \A s \in Slots : task[s].at \in Using => task[s].at \in Pinning
      BY DEF Pinning
    <2> QED BY <2>1 DEF Holders, Using, Pinning
  <1> QED BY <1>1 DEF ReferencesExact

\* What remains is a finite set.
LEMMA RemainingFinite ==
  ASSUME WorkerAssumption
  PROVE  IsFiniteSet(Remaining) /\ Cardinality(Remaining) \in Nat /\ Remaining \subseteq Adapters
  <1>1. Remaining \subseteq Adapters
    BY DEF Remaining, Protected, OnDisk
  <1> QED BY <1>1, FS_Subset, FS_CardinalityType DEF WorkerAssumption

\* A slot that looks for space never has more left than when it began.
LEMMA SpaceShrinks ==
  ASSUME WorkerAssumption, SpaceOK, Remaining' \subseteq Remaining,
         \A s \in Slots : task'[s].at = "space" => task[s].at = "space"
  PROVE  SpaceOK'
  <1>1. IsFiniteSet(Remaining) /\ Cardinality(Remaining) \in Nat
    BY RemainingFinite
  <1>2. Cardinality(Remaining') <= Cardinality(Remaining) /\ Cardinality(Remaining') \in Nat
    BY <1>1, FS_Subset, FS_CardinalityType
  <1>3. Cardinality(Slots) \in Nat /\ MaxLoaded \in Nat
    BY FS_CardinalityType DEF WorkerAssumption
  <1> QED BY <1>1, <1>2, <1>3 DEF SpaceOK

\* The budget stays kept where nothing is published and no task gets ready to.
LEMMA BytesSame ==
  ASSUME BytesOK, UNCHANGED disk, process' = "up" => process = "up",
         \A t \in Tasks : task'[t].at = "download"
                            => task[t].at = "download" /\ task'[t].policy = task[t].policy
  PROVE  BytesOK'
  <1>1. OnDisk' = OnDisk
    BY DEF OnDisk
  <1>2. Bytes(OnDisk') = Bytes(OnDisk)
    BY <1>1
  <1>3. Bytes(OnDisk)' = Bytes(OnDisk)
    BY <1>2 DEF Bytes
  <1> QED BY <1>3 DEF BytesOK, Fits

\* The counts stay within their bounds because they count slots.
LEMMA CountsBounded ==
  ASSUME WorkerAssumption, ReferencesExact',
         users' = [p \in Policies |-> users'[p]], pins' = [p \in Policies |-> pins'[p]]
  PROVE  /\ users' \in [Policies -> 0 .. Cardinality(Slots)]
         /\ pins' \in [Policies -> 0 .. Cardinality(Slots)]
  <1>1. \A p \in Policies : Holders(p, Using)' \subseteq Slots /\ Holders(p, Pinning)' \subseteq Slots
    BY DEF Holders
  <1>2. \A p \in Policies : /\ Cardinality(Holders(p, Using)') \in 0 .. Cardinality(Slots)
                            /\ Cardinality(Holders(p, Pinning)') \in 0 .. Cardinality(Slots)
    BY <1>1, FS_Subset, FS_CardinalityType DEF WorkerAssumption
  <1>3. \A p \in Policies : /\ users'[p] \in 0 .. Cardinality(Slots)
                            /\ pins'[p] \in 0 .. Cardinality(Slots)
    BY <1>2 DEF ReferencesExact
  <1> QED BY <1>3

-----------------------------------------------------------------------------
(* The steps of a slot and of the prefetch loop.                           *)

\* A lease or a policy to prefetch.
LEMMA BeginStep ==
  ASSUME WorkerAssumption, PoliciesInv, NEW t \in Tasks, NEW p \in Policies, Begin(t, p)
  PROVE  PoliciesInv'
  <1>1. /\ task' \in [Tasks -> [at: Position, policy: Policies \cup {Nobody}]]
        /\ task'[t].at = "ensure" /\ task'[t].policy = p
        /\ \A u \in Tasks \ {t} : task'[u] = task[u]
    BY DEF Begin, PoliciesInv, PoliciesTypeOK, Position
  <1>2. task[t].at = "idle" /\ process = "up"
        /\ UNCHANGED <<process, cache, runtime, crashes>> /\ leases' \in 0 .. MaxLeases
    BY DEF Begin, At, PoliciesInv, PoliciesTypeOK, WorkerAssumption
  <1>3. Slots \subseteq Tasks /\ Prefetch \in Tasks
    BY DEF Tasks
  <1>4. PoliciesTypeOK'
    BY <1>1, <1>2 DEF PoliciesInv, PoliciesTypeOK, cache, runtime
  <1>5. TasksOK'
    BY <1>1, <1>2, <1>3 DEF PoliciesInv, TasksOK, cache, runtime
  <1>6. HeldKept' /\ LoadedAgree'
    BY <1>1, <1>2, <1>3 DEF PoliciesInv, HeldKept, LoadedAgree, InVLLM, Using, Pinning, cache, runtime
  <1>7. ReferencesExact'
    BY <1>1, <1>2, <1>3, ReferencesSame DEF PoliciesInv, Using, Pinning, cache, runtime
  <1>8. BytesOK'
    BY <1>1, <1>2, BytesSame DEF PoliciesInv, cache
  <1>9. SpaceOK'
    BY <1>1, <1>2, <1>3, SpaceShrinks DEF PoliciesInv, Remaining, Protected, OnDisk, cache
  <1> QED BY <1>4, <1>5, <1>6, <1>7, <1>8, <1>9 DEF PoliciesInv

\* _make_space is done: the download fits.
LEMMA MakeSpaceStep ==
  ASSUME WorkerAssumption, PoliciesInv, NEW t \in Tasks, MakeSpace(t)
  PROVE  PoliciesInv'
  <1>1. /\ task' \in [Tasks -> [at: Position, policy: Policies \cup {Nobody}]]
        /\ task'[t].at = "download" /\ task'[t].policy = task[t].policy
        /\ \A u \in Tasks \ {t} : task'[u] = task[u]
    BY GotoMoves DEF MakeSpace, PoliciesInv, Position
  <1>2. /\ task[t].at = "space" /\ process = "up" /\ Fits(t)
        /\ UNCHANGED <<process, cache, runtime, leases, crashes>>
    BY DEF MakeSpace, At
  <1>3. Slots \subseteq Tasks /\ Prefetch \in Tasks
    BY DEF Tasks
  <1>4. PoliciesTypeOK'
    BY <1>1, <1>2 DEF PoliciesInv, PoliciesTypeOK, cache, runtime
  <1>5. TasksOK'
    BY <1>1, <1>2, <1>3 DEF PoliciesInv, TasksOK, cache, runtime
  <1>6. HeldKept' /\ LoadedAgree'
    BY <1>1, <1>2, <1>3 DEF PoliciesInv, HeldKept, LoadedAgree, InVLLM, Using, Pinning, cache, runtime
  <1>7. ReferencesExact'
    BY <1>1, <1>2, <1>3, ReferencesSame DEF PoliciesInv, Using, Pinning, cache, runtime
  <1>8. BytesOK'
    <2>1. OnDisk' = OnDisk
      BY <1>2 DEF OnDisk, cache
    <2>2. Bytes(OnDisk)' = Bytes(OnDisk)
      BY <2>1 DEF Bytes
    <2> QED BY <1>1, <1>2, <2>2 DEF PoliciesInv, BytesOK, Fits
  <1>9. SpaceOK'
    BY <1>1, <1>2, <1>3, SpaceShrinks DEF PoliciesInv, Remaining, Protected, OnDisk, cache
  <1> QED BY <1>4, <1>5, <1>6, <1>7, <1>8, <1>9 DEF PoliciesInv

\* The condition is taken: for the reference, or to make room first.
LEMMA AcquireStep ==
  ASSUME WorkerAssumption, PoliciesInv, NEW s \in Slots, Acquire(s)
  PROVE  PoliciesInv'
  <1> DEFINE w == IF task[s].policy \in Bases \cup loaded THEN "hold" ELSE "room"
  <1>3. Slots \subseteq Tasks /\ Prefetch \in Tasks
    BY DEF Tasks
  <1>1. /\ task' \in [Tasks -> [at: Position, policy: Policies \cup {Nobody}]]
        /\ task'[s].at = w /\ task'[s].policy = task[s].policy
        /\ \A u \in Tasks \ {s} : task'[u] = task[u]
    <2>1. w \in Position
      BY DEF Position
    <2> QED BY <1>3, <2>1, GotoMoves DEF Acquire, PoliciesInv
  <1>2. /\ task[s].at = "acquire" /\ process = "up" /\ condition = Nobody /\ condition' = s
        /\ UNCHANGED <<process, cache, loaded, users, vllm, leases, crashes>>
    BY DEF Acquire, At
  <1>4. PoliciesTypeOK'
    BY <1>1, <1>2 DEF PoliciesInv, PoliciesTypeOK, cache
  <1>5. TasksOK'
    <2>1. s # Nobody /\ s # Prefetch /\ task[s].policy \in Policies
      BY <1>2, <1>3 DEF WorkerAssumption, PoliciesInv, TasksOK
    <2>2. w = "room" => task[s].policy \in Adapters
      BY <2>1 DEF Policies
    <2>3. \A u \in Slots : task[u].at \notin {"room", "hold"}
      BY <1>2, <1>3 DEF WorkerAssumption, PoliciesInv, TasksOK
    <2> QED BY <1>1, <1>2, <1>3, <2>1, <2>2, <2>3 DEF PoliciesInv, TasksOK, cache
  <1>6. HeldKept'
    BY <1>1, <1>2, <1>3 DEF PoliciesInv, HeldKept, Using, Pinning, cache
  <1>7. LoadedAgree'
    <2>1. vllm = InVLLM /\ InVLLM' = InVLLM /\ s # Nobody
      BY <1>2, <1>3 DEF PoliciesInv, LoadedAgree, InVLLM, WorkerAssumption
    <2>2. \A u \in Slots : task[u].at \notin {"room", "hold"}
      BY <1>2, <1>3 DEF WorkerAssumption, PoliciesInv, TasksOK
    <2>3. w = "hold" => {task[s].policy} \cap Adapters \subseteq InVLLM
      BY DEF InVLLM, WorkerAssumption
    <2> QED BY <1>1, <1>2, <1>3, <2>1, <2>2, <2>3 DEF PoliciesInv, LoadedAgree, cache
  <1>8. ReferencesExact'
    BY <1>1, <1>2, <1>3, ReferencesSame DEF PoliciesInv, Using, Pinning, cache
  <1>9. BytesOK'
    BY <1>1, <1>2, BytesSame DEF PoliciesInv, cache
  <1>10. SpaceOK'
    BY <1>1, <1>2, <1>3, SpaceShrinks DEF PoliciesInv, Remaining, Protected, OnDisk, cache
  <1> QED BY <1>4, <1>5, <1>6, <1>7, <1>8, <1>9, <1>10 DEF PoliciesInv

\* Every loaded policy is in use: the slot waits and gives the condition up.
LEMMA AwaitRoomStep ==
  ASSUME WorkerAssumption, PoliciesInv, NEW s \in Slots, AwaitRoom(s)
  PROVE  PoliciesInv'
  <1>3. Slots \subseteq Tasks /\ Prefetch \in Tasks
    BY DEF Tasks
  <1>1. /\ task' \in [Tasks -> [at: Position, policy: Policies \cup {Nobody}]]
        /\ task'[s].at = "waiting" /\ task'[s].policy = task[s].policy
        /\ \A u \in Tasks \ {s} : task'[u] = task[u]
    BY <1>3, GotoMoves DEF AwaitRoom, PoliciesInv, Position
  <1>2. /\ task[s].at = "room" /\ process = "up" /\ condition' = Nobody
        /\ UNCHANGED <<process, cache, loaded, users, vllm, leases, crashes>>
    BY DEF AwaitRoom, At
  <1>4. condition = s /\ s # Nobody /\ s # Prefetch
    BY <1>2, <1>3 DEF PoliciesInv, TasksOK, WorkerAssumption
  <1>5. PoliciesTypeOK'
    BY <1>1, <1>2 DEF PoliciesInv, PoliciesTypeOK, cache
  <1>6. TasksOK'
    <2>1. \A u \in Slots \ {s} : task[u].at \notin {"room", "hold"} /\ u # Nobody
      BY <1>3, <1>4 DEF PoliciesInv, TasksOK, WorkerAssumption
    <2> QED BY <1>1, <1>2, <1>3, <1>4, <2>1 DEF PoliciesInv, TasksOK, cache
  <1>7. HeldKept'
    BY <1>1, <1>2, <1>3 DEF PoliciesInv, HeldKept, Using, Pinning, cache
  <1>8. LoadedAgree'
    BY <1>1, <1>2, <1>3 DEF PoliciesInv, LoadedAgree, InVLLM, cache
  <1>9. ReferencesExact'
    BY <1>1, <1>2, <1>3, ReferencesSame DEF PoliciesInv, Using, Pinning, cache
  <1>10. BytesOK'
    BY <1>1, <1>2, BytesSame DEF PoliciesInv, cache
  <1>11. SpaceOK'
    BY <1>1, <1>2, <1>3, SpaceShrinks DEF PoliciesInv, Remaining, Protected, OnDisk, cache
  <1> QED BY <1>5, <1>6, <1>7, <1>8, <1>9, <1>10, <1>11 DEF PoliciesInv

\* A slot that was woken takes the condition again.
LEMMA ReacquireStep ==
  ASSUME WorkerAssumption, PoliciesInv, NEW s \in Slots, Reacquire(s)
  PROVE  PoliciesInv'
  <1>3. Slots \subseteq Tasks /\ Prefetch \in Tasks
    BY DEF Tasks
  <1>1. /\ task' \in [Tasks -> [at: Position, policy: Policies \cup {Nobody}]]
        /\ task'[s].at = "room" /\ task'[s].policy = task[s].policy
        /\ \A u \in Tasks \ {s} : task'[u] = task[u]
    BY <1>3, GotoMoves DEF Reacquire, PoliciesInv, Position
  <1>2. /\ task[s].at = "woken" /\ process = "up" /\ condition = Nobody /\ condition' = s
        /\ UNCHANGED <<process, cache, loaded, users, vllm, leases, crashes>>
    BY DEF Reacquire, At
  <1>4. /\ s # Nobody /\ s # Prefetch
        /\ \A u \in Slots : task[u].at \notin {"room", "hold"}
    BY <1>2, <1>3 DEF PoliciesInv, TasksOK, WorkerAssumption
  <1>5. PoliciesTypeOK'
    BY <1>1, <1>2 DEF PoliciesInv, PoliciesTypeOK, cache
  <1>6. TasksOK'
    BY <1>1, <1>2, <1>3, <1>4 DEF PoliciesInv, TasksOK, cache
  <1>7. HeldKept'
    BY <1>1, <1>2, <1>3 DEF PoliciesInv, HeldKept, Using, Pinning, cache
  <1>8. LoadedAgree'
    BY <1>1, <1>2, <1>3, <1>4 DEF PoliciesInv, LoadedAgree, InVLLM, cache
  <1>9. ReferencesExact'
    BY <1>1, <1>2, <1>3, ReferencesSame DEF PoliciesInv, Using, Pinning, cache
  <1>10. BytesOK'
    BY <1>1, <1>2, BytesSame DEF PoliciesInv, cache
  <1>11. SpaceOK'
    BY <1>1, <1>2, <1>3, SpaceShrinks DEF PoliciesInv, Remaining, Protected, OnDisk, cache
  <1> QED BY <1>5, <1>6, <1>7, <1>8, <1>9, <1>10, <1>11 DEF PoliciesInv

\* The lease ends.
LEMMA ServedStep ==
  ASSUME WorkerAssumption, PoliciesInv, NEW s \in Slots, Served(s)
  PROVE  PoliciesInv'
  <1>3. Slots \subseteq Tasks /\ Prefetch \in Tasks
    BY DEF Tasks
  <1>1. /\ task' \in [Tasks -> [at: Position, policy: Policies \cup {Nobody}]]
        /\ task'[s].at = "release" /\ task'[s].policy = task[s].policy
        /\ \A u \in Tasks \ {s} : task'[u] = task[u]
    BY <1>3, GotoMoves DEF Served, PoliciesInv, Position
  <1>2. /\ task[s].at = "serving" /\ process = "up"
        /\ UNCHANGED <<process, cache, runtime, leases, crashes>>
    BY DEF Served, At
  <1>4. s # Prefetch
    BY DEF WorkerAssumption
  <1>5. PoliciesTypeOK'
    BY <1>1, <1>2 DEF PoliciesInv, PoliciesTypeOK, cache, runtime
  <1>6. TasksOK'
    BY <1>1, <1>2, <1>3, <1>4 DEF PoliciesInv, TasksOK, cache, runtime
  <1>7. HeldKept' /\ LoadedAgree'
    BY <1>1, <1>2, <1>3 DEF PoliciesInv, HeldKept, LoadedAgree, InVLLM, Using, Pinning, cache, runtime
  <1>8. ReferencesExact'
    BY <1>1, <1>2, <1>3, ReferencesSame DEF PoliciesInv, Using, Pinning, cache, runtime
  <1>9. BytesOK'
    BY <1>1, <1>2, BytesSame DEF PoliciesInv, cache
  <1>10. SpaceOK'
    BY <1>1, <1>2, <1>3, SpaceShrinks DEF PoliciesInv, Remaining, Protected, OnDisk, cache
  <1> QED BY <1>5, <1>6, <1>7, <1>8, <1>9, <1>10 DEF PoliciesInv

\* An idle policy is unloaded: nobody holds it.
LEMMA MakeRoomStep ==
  ASSUME WorkerAssumption, PoliciesInv, NEW s \in Slots, MakeRoom(s)
  PROVE  PoliciesInv'
  <1>1. PICK p \in Candidates : Unload({p})
    BY DEF MakeRoom
  <1>2. /\ task[s].at = "room" /\ process = "up"
        /\ UNCHANGED <<process, disk, pins, capacity, examined, users, condition, task, leases, crashes>>
    BY DEF MakeRoom, At
  <1>3. Slots \subseteq Tasks /\ Prefetch \in Tasks
    BY DEF Tasks
  <1>4. condition = s /\ s # Nobody /\ vllm = InVLLM
    BY <1>2, <1>3 DEF PoliciesInv, TasksOK, LoadedAgree, WorkerAssumption
  <1>5. /\ vllm' = vllm \ {p} /\ marked' = marked \ {p} /\ loaded' = loaded \ {p}
        /\ p \in Adapters /\ users[p] = 0
    BY <1>1 DEF Unload, Candidates, InVLLM
  <1>6. PoliciesTypeOK'
    BY <1>2, <1>5 DEF PoliciesInv, PoliciesTypeOK
  <1>7. TasksOK'
    BY <1>2, <1>3, <1>5 DEF PoliciesInv, TasksOK
  <1>8. HeldKept'
    <2>1. ASSUME NEW u \in Slots, task[u].at \in Using
          PROVE  task[u].policy # p
      <3>1. SUFFICES ASSUME task[u].policy = p PROVE FALSE
        OBVIOUS
      <3>2. u \in Holders(p, Using)
        BY <2>1, <3>1 DEF Holders
      <3>3. Cardinality(Holders(p, Using)) > 0
        BY <3>2, HolderCounts
      <3> QED BY <1>5, <3>3 DEF PoliciesInv, ReferencesExact, Policies
    <2> QED BY <1>2, <1>3, <1>5, <2>1 DEF PoliciesInv, HeldKept
  <1>9. LoadedAgree'
    <2>1. vllm' = InVLLM'
      BY <1>4, <1>5 DEF InVLLM
    <2>2. \A u \in Slots : task[u].at # "hold"
      BY <1>2, <1>3, <1>4 DEF PoliciesInv, TasksOK
    <2>3. IsFiniteSet(vllm) /\ Cardinality(vllm) \in Nat
      BY FS_Subset, FS_CardinalityType DEF PoliciesInv, PoliciesTypeOK, WorkerAssumption
    <2>4. vllm' \subseteq vllm
      BY <1>5
    <2>5. Cardinality(vllm') <= Cardinality(vllm) /\ Cardinality(vllm') \in Nat
      BY <2>3, <2>4, FS_Subset, FS_CardinalityType
    <2>6. Cardinality(vllm') <= MaxLoaded
      BY <2>3, <2>5 DEF PoliciesInv, LoadedAgree, WorkerAssumption
    <2> QED BY <1>2, <1>3, <1>5, <2>1, <2>2, <2>6 DEF PoliciesInv, LoadedAgree
  <1>10. ReferencesExact'
    BY <1>2, ReferencesSame DEF PoliciesInv
  <1>11. BytesOK'
    BY <1>2, BytesSame DEF PoliciesInv
  <1>12. SpaceOK'
    BY <1>2, <1>5, SpaceShrinks DEF PoliciesInv, Remaining, Protected, OnDisk
  <1> QED BY <1>6, <1>7, <1>8, <1>9, <1>10, <1>11, <1>12 DEF PoliciesInv

\* An adapter is loaded where there is room: its slot has pinned it.
LEMMA LoadStep ==
  ASSUME WorkerAssumption, PoliciesInv, NEW s \in Slots, Load(s)
  PROVE  PoliciesInv'
  <1> DEFINE p == task[s].policy
  <1>3. Slots \subseteq Tasks /\ Prefetch \in Tasks /\ s # Prefetch
    BY DEF Tasks, WorkerAssumption
  <1>1. /\ task' \in [Tasks -> [at: Position, policy: Policies \cup {Nobody}]]
        /\ task'[s].at = "hold" /\ task'[s].policy = p
        /\ \A u \in Tasks \ {s} : task'[u] = task[u]
    BY <1>3, GotoMoves DEF Load, PoliciesInv, Position
  <1>2. /\ task[s].at = "room" /\ process = "up"
        /\ Cardinality(InVLLM) < MaxLoaded
        /\ vllm' = vllm \cup {p} /\ marked' = marked \cup {p}
        /\ UNCHANGED <<process, disk, pins, capacity, examined, loaded, users, condition, leases, crashes>>
    BY DEF Load, At
  <1>4. condition = s /\ s # Nobody /\ vllm = InVLLM /\ p \in Adapters
    BY <1>2, <1>3 DEF PoliciesInv, TasksOK, LoadedAgree, WorkerAssumption
  <1>5. disk[p] = "whole" /\ pins[p] > 0
    <2>1. task[s].at \in Pinning
      BY <1>2 DEF Pinning
    <2>2. s \in Holders(p, Pinning)
      BY <2>1 DEF Holders
    <2> QED BY <1>4, <2>1, <2>2, HolderCounts DEF PoliciesInv, HeldKept, ReferencesExact, Policies
  <1>6. PoliciesTypeOK'
    BY <1>1, <1>2, <1>4 DEF PoliciesInv, PoliciesTypeOK
  <1>7. TasksOK'
    BY <1>1, <1>2, <1>3, <1>4 DEF PoliciesInv, TasksOK
  <1>8. HeldKept'
    BY <1>1, <1>2, <1>3 DEF PoliciesInv, HeldKept, Using, Pinning
  <1>9. LoadedAgree'
    <2>1. InVLLM' = InVLLM /\ vllm' = InVLLM \cup {p}
      BY <1>2, <1>4 DEF InVLLM
    <2>2. \A u \in Slots : u # s => task'[u].at \notin {"room", "hold"}
      BY <1>1, <1>3, <1>4 DEF PoliciesInv, TasksOK
    <2>3. IsFiniteSet(vllm) /\ Cardinality(vllm) \in Nat
      BY FS_Subset, FS_CardinalityType DEF PoliciesInv, PoliciesTypeOK, WorkerAssumption
    <2>4. \/ Cardinality(vllm') = Cardinality(vllm)
          \/ Cardinality(vllm') = Cardinality(vllm) + 1
      BY <1>2, <2>3, FS_AddElement
    <2>5. Cardinality(vllm') <= MaxLoaded
      BY <1>2, <1>4, <2>3, <2>4 DEF WorkerAssumption
    <2>6. vllm' = marked' /\ \A q \in marked' : disk'[q] = "whole"
      BY <1>2, <1>5 DEF PoliciesInv, LoadedAgree
    <2> QED BY <1>1, <1>2, <1>4, <2>1, <2>2, <2>5, <2>6 DEF LoadedAgree
  <1>10. ReferencesExact'
    BY <1>1, <1>2, <1>3, ReferencesSame DEF PoliciesInv, Using, Pinning
  <1>11. BytesOK'
    BY <1>1, <1>2, BytesSame DEF PoliciesInv
  <1>12. SpaceOK'
    <2>1. Remaining' \subseteq Remaining
      BY <1>2, <1>4, <1>5 DEF Remaining, Protected, OnDisk
    <2> QED BY <1>1, <1>3, <2>1, SpaceShrinks DEF PoliciesInv
  <1> QED BY <1>6, <1>7, <1>8, <1>9, <1>10, <1>11, <1>12 DEF PoliciesInv

\* The runtime's reference is taken, and the condition given up.
LEMMA HoldStep ==
  ASSUME WorkerAssumption, PoliciesInv, NEW s \in Slots, Hold(s)
  PROVE  PoliciesInv'
  <1>0. PICK p : p = task[s].policy
    OBVIOUS
  <1>3. Slots \subseteq Tasks /\ Prefetch \in Tasks /\ s # Prefetch
    BY DEF Tasks, WorkerAssumption
  <1>1. /\ task' \in [Tasks -> [at: Position, policy: Policies \cup {Nobody}]]
        /\ task'[s].at = "serving" /\ task'[s].policy = p
        /\ \A u \in Tasks \ {s} : task'[u] = task[u]
    BY <1>0, <1>3, GotoMoves DEF Hold, PoliciesInv, Position
  <1>2. /\ task[s].at = "hold" /\ process = "up"
        /\ loaded' = loaded \cup {p} /\ users' = [users EXCEPT ![p] = @ + 1]
        /\ condition' = Nobody
        /\ UNCHANGED <<process, cache, vllm, leases, crashes>>
    BY <1>0 DEF Hold, At
  <1>4. condition = s /\ s # Nobody /\ p \in Policies
    BY <1>0, <1>2, <1>3 DEF PoliciesInv, TasksOK, WorkerAssumption
  <1>5. \A u \in Slots \ {s} : task[u].at \notin {"room", "hold"}
    BY <1>3, <1>4 DEF PoliciesInv, TasksOK
  <1>6. ReferencesExact'
    <2>1. ASSUME NEW q \in Policies
          PROVE  Holders(q, Pinning)' = Holders(q, Pinning)
      BY <1>0, <1>1, <1>2, <1>3, HoldersSame DEF Holders, Pinning, Using
    <2>2. ASSUME NEW q \in Policies \ {p}
          PROVE  Holders(q, Using)' = Holders(q, Using)
      BY <1>0, <1>1, <1>2, <1>3, HoldersSame DEF Holders, Using
    <2>3. s \notin Holders(p, Using) /\ task'[s].policy = p /\ task'[s].at \in Using
      BY <1>0, <1>1, <1>2 DEF Holders, Using
    <2>4. \A u \in Slots \ {s} : (task'[u].policy = p /\ task'[u].at \in Using)
                                   <=> (task[u].policy = p /\ task[u].at \in Using)
      BY <1>1, <1>3
    <2>5. Cardinality({u \in Slots : task'[u].policy = p /\ task'[u].at \in Using})
            = Cardinality(Holders(p, Using)) + 1
      BY <2>3, <2>4, HoldersAdd
    <2>6. Cardinality(Holders(p, Using)') = Cardinality(Holders(p, Using)) + 1
      BY <2>5 DEF Holders, Using
    <2>7. /\ users'[p] = users[p] + 1 /\ \A q \in Policies \ {p} : users'[q] = users[q]
          /\ pins' = pins
      BY <1>2, <1>4 DEF PoliciesInv, PoliciesTypeOK, cache
    <2> QED BY <1>4, <2>1, <2>2, <2>6, <2>7 DEF PoliciesInv, ReferencesExact
  <1>7. PoliciesTypeOK'
    <2>1. /\ users' = [q \in Policies |-> users'[q]]
          /\ pins' = [q \in Policies |-> pins'[q]]
      BY <1>2 DEF PoliciesInv, PoliciesTypeOK, cache
    <2>2. users' \in [Policies -> 0 .. Cardinality(Slots)]
      BY <1>6, <2>1, CountsBounded
    <2> QED BY <1>0, <1>1, <1>2, <1>4, <2>2 DEF PoliciesInv, PoliciesTypeOK, cache
  <1>8. TasksOK'
    <2>1. \A u \in Slots : u # Nobody
      BY DEF WorkerAssumption, Tasks
    <2> QED BY <1>0, <1>1, <1>2, <1>3, <1>4, <1>5, <2>1 DEF PoliciesInv, TasksOK, cache
  <1>9. HeldKept'
    BY <1>0, <1>1, <1>2, <1>3 DEF PoliciesInv, HeldKept, Using, Pinning, cache
  <1>10. LoadedAgree'
    <2>1. vllm = InVLLM \cup ({p} \cap Adapters)
      BY <1>0, <1>2 DEF PoliciesInv, LoadedAgree
    <2>2. InVLLM' = vllm
      BY <1>2, <2>1 DEF InVLLM
    <2>3. \A u \in Slots : task'[u].at \notin {"room", "hold"}
      BY <1>1, <1>3, <1>5
    <2> QED BY <1>2, <2>2, <2>3 DEF PoliciesInv, LoadedAgree, cache
  <1>11. BytesOK'
    BY <1>0, <1>1, <1>2, BytesSame DEF PoliciesInv, cache
  <1>12. SpaceOK'
    BY <1>0, <1>1, <1>2, <1>3, SpaceShrinks DEF PoliciesInv, Remaining, Protected, OnDisk, cache
  <1> QED BY <1>6, <1>7, <1>8, <1>9, <1>10, <1>11, <1>12 DEF PoliciesInv

\* Both references are dropped, and the slots that wait are woken.
LEMMA ReleaseStep ==
  ASSUME WorkerAssumption, PoliciesInv, NEW s \in Slots, Release(s)
  PROVE  PoliciesInv'
  <1>0. PICK p : p = task[s].policy
    OBVIOUS
  <1>1. /\ task' \in [Tasks -> [at: Position, policy: Policies \cup {Nobody}]]
        /\ task'[s].at = "retain"
        /\ \A u \in Tasks : task'[u].policy = task[u].policy
        /\ \A u \in Tasks \ {s} : task'[u].at = IF task[u].at = "waiting" THEN "woken" ELSE task[u].at
    BY NotifyMoves DEF Release, PoliciesInv
  <1>2. /\ task[s].at = "release" /\ process = "up" /\ condition = Nobody
        /\ users' = [users EXCEPT ![p] = @ - 1] /\ pins' = [pins EXCEPT ![p] = @ - 1]
        /\ UNCHANGED <<process, disk, marked, capacity, examined, loaded, condition, vllm, leases, crashes>>
    BY <1>0 DEF Release, At
  <1>3. Slots \subseteq Tasks /\ Prefetch \in Tasks /\ s # Prefetch /\ p \in Policies
    BY <1>0, <1>2 DEF Tasks, WorkerAssumption, PoliciesInv, TasksOK
  <1>4. ReferencesExact'
    <2>1. ASSUME NEW q \in Policies \ {p}
          PROVE  /\ Holders(q, Using)' = Holders(q, Using)
                 /\ Holders(q, Pinning)' = Holders(q, Pinning)
      BY <1>0, <1>1, <1>3 DEF Holders, Using, Pinning
    <2>2. s \in Holders(p, Using) /\ s \in Holders(p, Pinning)
      BY <1>0, <1>2 DEF Holders, Using, Pinning
    <2>3. /\ \A u \in Slots \ {s} : (task'[u].policy = p /\ task'[u].at \in Using)
                                      <=> (task[u].policy = p /\ task[u].at \in Using)
          /\ \A u \in Slots \ {s} : (task'[u].policy = p /\ task'[u].at \in Pinning)
                                      <=> (task[u].policy = p /\ task[u].at \in Pinning)
      BY <1>1, <1>3 DEF Using, Pinning
    <2>4. ~(task'[s].policy = p /\ task'[s].at \in Using)
          /\ ~(task'[s].policy = p /\ task'[s].at \in Pinning)
      BY <1>1 DEF Using, Pinning
    <2>5. /\ Cardinality({u \in Slots : task'[u].policy = p /\ task'[u].at \in Using})
                = Cardinality(Holders(p, Using)) - 1
          /\ Cardinality({u \in Slots : task'[u].policy = p /\ task'[u].at \in Pinning})
                = Cardinality(Holders(p, Pinning)) - 1
      BY <2>2, <2>3, <2>4, HoldersDrop
    <2>6. /\ Cardinality(Holders(p, Using)') = Cardinality(Holders(p, Using)) - 1
          /\ Cardinality(Holders(p, Pinning)') = Cardinality(Holders(p, Pinning)) - 1
      BY <2>5 DEF Holders, Using, Pinning
    <2>7. /\ users'[p] = users[p] - 1 /\ \A q \in Policies \ {p} : users'[q] = users[q]
          /\ pins'[p] = pins[p] - 1 /\ \A q \in Policies \ {p} : pins'[q] = pins[q]
      BY <1>2, <1>3 DEF PoliciesInv, PoliciesTypeOK
    <2> QED BY <1>3, <2>1, <2>6, <2>7 DEF PoliciesInv, ReferencesExact
  <1>5. PoliciesTypeOK'
    <2>1. /\ users' = [q \in Policies |-> users'[q]]
          /\ pins' = [q \in Policies |-> pins'[q]]
      BY <1>2 DEF PoliciesInv, PoliciesTypeOK
    <2>2. /\ users' \in [Policies -> 0 .. Cardinality(Slots)]
          /\ pins' \in [Policies -> 0 .. Cardinality(Slots)]
      BY <1>4, <2>1, CountsBounded
    <2> QED BY <1>1, <1>2, <2>2 DEF PoliciesInv, PoliciesTypeOK
  <1>6. TasksOK'
    <2>1. \A u \in Slots : u # Nobody
      BY DEF WorkerAssumption, Tasks
    <2> QED BY <1>1, <1>2, <1>3, <2>1 DEF PoliciesInv, TasksOK
  <1>7. HeldKept'
    BY <1>1, <1>2, <1>3 DEF PoliciesInv, HeldKept, Using, Pinning
  <1>8. LoadedAgree'
    BY <1>1, <1>2, <1>3 DEF PoliciesInv, LoadedAgree, InVLLM
  <1>9. BytesOK'
    BY <1>1, <1>2, BytesSame DEF PoliciesInv
  <1>10. SpaceOK'
    <2>1. \A q \in Adapters : pins'[q] > 0 => pins[q] > 0
      <3>1. \A q \in Policies : pins[q] \in Int /\ pins'[q] = IF q = p THEN pins[q] - 1 ELSE pins[q]
        BY <1>2, <1>3 DEF PoliciesInv, PoliciesTypeOK
      <3> QED BY <3>1 DEF Policies
    <2>2. Remaining' \subseteq Remaining
      BY <1>2, <2>1 DEF Remaining, Protected, OnDisk
    <2> QED BY <1>1, <1>3, <2>2, SpaceShrinks DEF PoliciesInv
  <1> QED BY <1>4, <1>5, <1>6, <1>7, <1>8, <1>9, <1>10 DEF PoliciesInv

\* Retention after a release finds the budget kept.
LEMMA RetainStep ==
  ASSUME WorkerAssumption, PoliciesInv, NEW s \in Slots, Retain(s)
  PROVE  PoliciesInv'
  <1>3. Slots \subseteq Tasks /\ Prefetch \in Tasks /\ s # Prefetch
    BY DEF Tasks, WorkerAssumption
  <1>1. /\ task' \in [Tasks -> [at: Position, policy: Policies \cup {Nobody}]]
        /\ task'[s].at = "idle" /\ task'[s].policy = Nobody
        /\ \A u \in Tasks \ {s} : task'[u] = task[u]
    BY <1>3, IdleMoves DEF Retain, PoliciesInv
  <1>2. /\ task[s].at = "retain" /\ process = "up" /\ capacity = Nobody
        /\ UNCHANGED <<process, disk, pins, marked, capacity, examined, runtime, leases, crashes>>
    BY DEF Retain, At, EnforceRetention, PoliciesInv, BytesOK
  <1>4. PoliciesTypeOK'
    BY <1>1, <1>2 DEF PoliciesInv, PoliciesTypeOK, runtime
  <1>5. TasksOK'
    BY <1>1, <1>2, <1>3 DEF PoliciesInv, TasksOK, runtime
  <1>6. HeldKept' /\ LoadedAgree'
    BY <1>1, <1>2, <1>3 DEF PoliciesInv, HeldKept, LoadedAgree, InVLLM, Using, Pinning, runtime
  <1>7. ReferencesExact'
    BY <1>1, <1>2, <1>3, ReferencesSame DEF PoliciesInv, Using, Pinning, runtime
  <1>8. BytesOK'
    BY <1>1, <1>2, BytesSame DEF PoliciesInv
  <1>9. SpaceOK'
    BY <1>1, <1>2, <1>3, SpaceShrinks DEF PoliciesInv, Remaining, Protected, OnDisk
  <1> QED BY <1>4, <1>5, <1>6, <1>7, <1>8, <1>9 DEF PoliciesInv

\* ensure returns: the prefetch loop is done, a slot has its pin.
LEMMA EnsuredMoves ==
  ASSUME WorkerAssumption, PoliciesInv, NEW t \in Tasks,
         task[t].at \in {"ensure", "download"}, Ensured(t), UNCHANGED users
  PROVE  /\ task' \in [Tasks -> [at: Position, policy: Policies \cup {Nobody}]]
         /\ \A u \in Tasks \ {t} : task'[u] = task[u]
         /\ t = Prefetch => task'[t].at = "idle"
         /\ t # Prefetch => task'[t].at = "acquire" /\ task'[t].policy = task[t].policy
         /\ \A q \in Policies : q # task[t].policy \/ t = Prefetch => pins'[q] = pins[q]
         /\ ReferencesExact'
         /\ pins' \in [Policies -> 0 .. Cardinality(Slots)]
  <1>0. PICK p : p = task[t].policy
    OBVIOUS
  <1>1. CASE t = Prefetch
    <2>1. task' = [task EXCEPT ![t] = Idle] /\ pins' = pins
      BY <1>1 DEF Ensured
    <2>2. /\ task' \in [Tasks -> [at: Position, policy: Policies \cup {Nobody}]]
          /\ task'[t].at = "idle" /\ task'[t].policy = Nobody
          /\ \A u \in Tasks \ {t} : task'[u] = task[u]
      BY <2>1, IdleMoves DEF PoliciesInv
    <2>3. \A u \in Slots : task'[u] = task[u]
      BY <1>1, <2>2 DEF Tasks, WorkerAssumption
    <2>4. ReferencesExact'
      BY <2>1, <2>3, ReferencesSame DEF PoliciesInv
    <2> QED BY <1>1, <2>1, <2>2, <2>4 DEF PoliciesInv, PoliciesTypeOK
  <1>2. CASE t # Prefetch
    <2>1. Goto(t, "acquire") /\ pins' = [pins EXCEPT ![p] = @ + 1]
      BY <1>0, <1>2 DEF Ensured
    <2>2. /\ task' \in [Tasks -> [at: Position, policy: Policies \cup {Nobody}]]
          /\ task'[t].at = "acquire" /\ task'[t].policy = p
          /\ \A u \in Tasks \ {t} : task'[u] = task[u]
      BY <1>0, <2>1, GotoMoves DEF PoliciesInv, Position
    <2>3. t \in Slots /\ Slots \subseteq Tasks /\ p \in Policies
      BY <1>0, <1>2 DEF Tasks, PoliciesInv, TasksOK
    <2>4. /\ pins'[p] = pins[p] + 1 /\ \A q \in Policies \ {p} : pins'[q] = pins[q]
          /\ pins' = [q \in Policies |-> pins'[q]] /\ users' = [q \in Policies |-> users'[q]]
      BY <2>1, <2>3 DEF PoliciesInv, PoliciesTypeOK
    <2>5. ReferencesExact'
      <3>1. ASSUME NEW q \in Policies
            PROVE  Holders(q, Using)' = Holders(q, Using)
        BY <2>2, <2>3 DEF Holders, Using
      <3>2. ASSUME NEW q \in Policies \ {p}
            PROVE  Holders(q, Pinning)' = Holders(q, Pinning)
        BY <1>0, <2>2, <2>3 DEF Holders, Pinning
      <3>3. t \notin Holders(p, Pinning) /\ task'[t].policy = p /\ task'[t].at \in Pinning
        BY <2>2 DEF Holders, Pinning, Using
      <3>4. \A u \in Slots \ {t} : (task'[u].policy = p /\ task'[u].at \in Pinning)
                                     <=> (task[u].policy = p /\ task[u].at \in Pinning)
        BY <2>2, <2>3
      <3>5. Cardinality({u \in Slots : task'[u].policy = p /\ task'[u].at \in Pinning})
              = Cardinality(Holders(p, Pinning)) + 1
        BY <2>3, <3>3, <3>4, HoldersAdd
      <3>6. Cardinality(Holders(p, Pinning)') = Cardinality(Holders(p, Pinning)) + 1
        BY <3>5 DEF Holders, Pinning, Using
      <3> QED BY <2>3, <2>4, <3>1, <3>2, <3>6 DEF PoliciesInv, ReferencesExact
    <2>6. pins' \in [Policies -> 0 .. Cardinality(Slots)]
      BY <2>4, <2>5, CountsBounded
    <2> QED BY <1>0, <1>2, <2>2, <2>4, <2>5, <2>6
  <1> QED BY <1>1, <1>2

\* What is loaded or pinned is bounded while one slot has no pin: each of the
\* other slots pins one policy.
LEMMA ProtectedBounded ==
  ASSUME WorkerAssumption, PoliciesInv, NEW t \in Slots, task[t].at \notin Pinning
  PROVE  Cardinality(Protected) < MaxLoaded + Cardinality(Slots)
  <1> DEFINE S == Slots \ {t}
             T == {task[s].policy : s \in S}
             f == [s \in S |-> task[s].policy]
  <1>1. IsFiniteSet(S) /\ Cardinality(S) = Cardinality(Slots) - 1 /\ Cardinality(Slots) \in Nat
    BY FS_RemoveElement, FS_CardinalityType DEF WorkerAssumption
  <1>2. f \in Surjection(S, T)
    BY DEF Surjection
  <1>3. IsFiniteSet(T) /\ Cardinality(T) <= Cardinality(S)
    BY <1>1, <1>2, FS_Surjection
  <1>4. Protected \subseteq marked \cup T
    <2>1. SUFFICES ASSUME NEW p \in Adapters, pins[p] > 0 PROVE p \in T
      BY DEF Protected
    <2>2. Cardinality(Holders(p, Pinning)) > 0
      BY <2>1 DEF PoliciesInv, ReferencesExact, Policies
    <2>3. Holders(p, Pinning) # {}
      BY <2>2, FS_EmptySet
    <2>4. PICK s \in Slots : task[s].policy = p /\ task[s].at \in Pinning
      BY <2>3 DEF Holders
    <2> QED BY <2>4
  <1>5. IsFiniteSet(marked) /\ Cardinality(marked) \in Nat /\ Cardinality(marked) <= MaxLoaded
    BY FS_Subset, FS_CardinalityType DEF PoliciesInv, PoliciesTypeOK, LoadedAgree, WorkerAssumption
  <1>6. Cardinality(T) \in Nat
    BY <1>3, FS_CardinalityType
  <1>7. IsFiniteSet(marked \cup T) /\ Cardinality(marked \cup T) <= Cardinality(marked) + Cardinality(T)
    <2> HIDE DEF T
    <2>1. IsFiniteSet(marked \cap T)
      BY <1>5, FS_Subset
    <2>2. Cardinality(marked \cap T) \in Nat
      BY <2>1, FS_CardinalityType
    <2>3. /\ IsFiniteSet(marked \cup T)
          /\ Cardinality(marked \cup T) = Cardinality(marked) + Cardinality(T) - Cardinality(marked \cap T)
      BY <1>3, <1>5, FS_Union
    <2> QED BY <1>5, <1>6, <2>2, <2>3
  <1>8. Cardinality(Protected) <= Cardinality(marked \cup T) /\ Cardinality(Protected) \in Nat
        /\ Cardinality(marked \cup T) \in Nat
    <2> HIDE DEF T
    <2> QED BY <1>4, <1>7, FS_Subset, FS_CardinalityType
  <1> HIDE DEF S, T
  <1> QED BY <1>1, <1>3, <1>5, <1>6, <1>7, <1>8 DEF WorkerAssumption

\* ensure: a policy at hand, or the capacity lock and a search for space.
LEMMA EnsureStep ==
  ASSUME WorkerAssumption, PoliciesInv, NEW t \in Tasks, Ensure(t)
  PROVE  PoliciesInv'
  <1>0. PICK p : p = task[t].policy
    OBVIOUS
  <1>1. /\ task[t].at = "ensure" /\ process = "up" /\ (p \in Adapters => capacity = Nobody)
        /\ UNCHANGED <<process, disk, marked, runtime, leases, crashes>>
    BY <1>0 DEF Ensure, At
  <1>2. /\ Slots \subseteq Tasks /\ Prefetch \in Tasks /\ Prefetch \notin Slots
        /\ p \in Policies /\ \A u \in Tasks : u # Nobody
    BY <1>0, <1>1 DEF Tasks, WorkerAssumption, PoliciesInv, TasksOK
  <1>3. CASE p \in Bases \cup OnDisk
    <2>1. Ensured(t) /\ UNCHANGED <<capacity, examined>>
      BY <1>0, <1>3 DEF Ensure
    <2>2. /\ task' \in [Tasks -> [at: Position, policy: Policies \cup {Nobody}]]
          /\ \A u \in Tasks \ {t} : task'[u] = task[u]
          /\ t = Prefetch => task'[t].at = "idle"
          /\ t # Prefetch => task'[t].at = "acquire" /\ task'[t].policy = p
          /\ \A q \in Policies : q # p \/ t = Prefetch => pins'[q] = pins[q]
          /\ ReferencesExact'
          /\ pins' \in [Policies -> 0 .. Cardinality(Slots)]
      BY <1>0, <1>1, <2>1, EnsuredMoves DEF runtime
    <2>3. PoliciesTypeOK'
      BY <1>1, <2>1, <2>2 DEF PoliciesInv, PoliciesTypeOK, runtime
    <2>4. TasksOK'
      BY <1>0, <1>1, <1>2, <2>1, <2>2 DEF PoliciesInv, TasksOK, runtime
    <2>5. HeldKept'
      <3>1. p \in Adapters => disk[p] = "whole"
        BY <1>3 DEF OnDisk, WorkerAssumption
      <3> QED BY <1>0, <1>1, <1>2, <2>1, <2>2, <3>1 DEF PoliciesInv, HeldKept, Using, Pinning, runtime
    <2>6. LoadedAgree'
      BY <1>1, <1>2, <2>1, <2>2 DEF PoliciesInv, LoadedAgree, InVLLM, runtime
    <2>7. BytesOK'
      <3>1. \A u \in Tasks : task'[u].at = "download"
                               => task[u].at = "download" /\ task'[u].policy = task[u].policy
        BY <2>2
      <3> QED BY <1>1, <3>1, BytesSame DEF PoliciesInv
    <2>8. SpaceOK'
      <3>1. CASE p \in Adapters
        <4>1. \A u \in Tasks : task[u].at # "space"
          BY <1>1, <1>2, <3>1 DEF PoliciesInv, TasksOK
        <4> QED BY <1>2, <2>2, <4>1 DEF SpaceOK
      <3>2. CASE p \notin Adapters
        <4>1. \A q \in Adapters : pins'[q] = pins[q]
          BY <2>2, <3>2 DEF Policies
        <4>2. Remaining' \subseteq Remaining
          BY <1>1, <2>1, <4>1 DEF Remaining, Protected, OnDisk
        <4> QED BY <1>2, <2>2, <4>2, SpaceShrinks DEF PoliciesInv
      <3> QED BY <3>1, <3>2
    <2> QED BY <2>2, <2>3, <2>4, <2>5, <2>6, <2>7, <2>8 DEF PoliciesInv
  <1>4. CASE p \notin Bases \cup OnDisk
    <2>1. capacity' = t /\ examined' = {} /\ Goto(t, "space") /\ pins' = pins
      BY <1>0, <1>4 DEF Ensure
    <2>2. p \in Adapters /\ capacity = Nobody
      BY <1>1, <1>2, <1>4 DEF Policies
    <2>3. /\ task' \in [Tasks -> [at: Position, policy: Policies \cup {Nobody}]]
          /\ task'[t].at = "space" /\ task'[t].policy = p
          /\ \A u \in Tasks \ {t} : task'[u] = task[u]
      BY <1>0, <2>1, GotoMoves DEF PoliciesInv, Position
    <2>4. \A u \in Tasks : task[u].at \notin {"space", "download"}
      BY <1>2, <2>2 DEF PoliciesInv, TasksOK
    <2>5. PoliciesTypeOK'
      BY <1>1, <2>1, <2>3 DEF PoliciesInv, PoliciesTypeOK, runtime
    <2>6. TasksOK'
      BY <1>1, <1>2, <2>1, <2>2, <2>3, <2>4 DEF PoliciesInv, TasksOK, runtime
    <2>7. HeldKept' /\ LoadedAgree'
      BY <1>1, <1>2, <2>3 DEF PoliciesInv, HeldKept, LoadedAgree, InVLLM, Using, Pinning, runtime
    <2>8. ReferencesExact'
      <3>1. \A s \in Slots : /\ task'[s].at \in Using <=> task[s].at \in Using
                             /\ task'[s].at \in Pinning <=> task[s].at \in Pinning
                             /\ task[s].at \in Pinning => task'[s].policy = task[s].policy
        BY <1>1, <1>2, <2>3 DEF Using, Pinning
      <3> QED BY <1>1, <2>1, <3>1, ReferencesSame DEF PoliciesInv, runtime
    <2>9. BytesOK'
      <3>1. \A u \in Tasks : task'[u].at # "download"
        BY <2>3, <2>4
      <3> QED BY <1>1, <3>1, BytesSame DEF PoliciesInv
    <2>10. SpaceOK'
      <3>1. SUFFICES ASSUME NEW s \in Slots, task'[s].at = "space"
                     PROVE  Cardinality(Remaining') < MaxLoaded + Cardinality(Slots)
        BY DEF SpaceOK
      <3>2. s = t /\ task[s].at \notin Pinning
        BY <1>1, <1>2, <2>3, <2>4, <3>1 DEF Pinning, Using
      <3>3. Remaining' = Protected
        BY <1>1, <2>1 DEF Remaining, Protected
      <3> QED BY <3>2, <3>3, ProtectedBounded
    <2> QED BY <2>5, <2>6, <2>7, <2>8, <2>9, <2>10 DEF PoliciesInv
  <1> QED BY <1>3, <1>4

\* _make_space looks at one entry, and removes it if it may.
LEMMA ExamineStep ==
  ASSUME WorkerAssumption, PoliciesInv, NEW t \in Tasks, NEW q \in Adapters, Examine(t, q)
  PROVE  PoliciesInv'
  <1>1. /\ task[t].at = "space" /\ process = "up" /\ q \in OnDisk /\ q \in Adapters
        /\ examined' = examined \cup {q}
        /\ IF Evictable(q) THEN Remove({q}) ELSE UNCHANGED disk
        /\ UNCHANGED <<process, pins, marked, capacity, runtime, task, leases, crashes>>
    BY DEF Examine, At
  <1>2. Slots \subseteq Tasks /\ Prefetch \in Tasks /\ \A u \in Tasks : u # Nobody
    BY DEF Tasks, WorkerAssumption
  <1>3. /\ disk' \in [Adapters -> {"absent", "whole", "torn"}]
        /\ \A p \in Adapters : disk'[p] # disk[p] => p = q /\ Evictable(q)
        /\ disk'[q] = "whole" => ~Evictable(q)
        /\ OnDisk' \subseteq OnDisk
    BY <1>1 DEF Remove, OnDisk, PoliciesInv, PoliciesTypeOK
  <1>4. PoliciesTypeOK'
    BY <1>1, <1>3 DEF PoliciesInv, PoliciesTypeOK, runtime
  <1>5. TasksOK'
    BY <1>1, <1>2 DEF PoliciesInv, TasksOK, runtime
  <1>6. HeldKept'
    <2>1. ASSUME NEW s \in Slots, task[s].at \in Pinning, task[s].policy \in Adapters
          PROVE  disk'[task[s].policy] = "whole"
      <3>1. s \in Holders(task[s].policy, Pinning)
        BY <2>1 DEF Holders
      <3>2. pins[task[s].policy] > 0
        BY <2>1, <3>1, HolderCounts DEF PoliciesInv, ReferencesExact, Policies
      <3>3. pins[task[s].policy] # 0
        BY <3>2
      <3>4. disk'[task[s].policy] = disk[task[s].policy]
        BY <1>3, <2>1, <3>3 DEF Evictable
      <3> QED BY <2>1, <3>4 DEF PoliciesInv, HeldKept
    <2> QED BY <1>1, <2>1 DEF PoliciesInv, HeldKept, runtime
  <1>7. LoadedAgree'
    <2>1. \A p \in marked : disk'[p] = "whole"
      BY <1>3 DEF PoliciesInv, PoliciesTypeOK, LoadedAgree, Evictable
    <2> QED BY <1>1, <2>1 DEF PoliciesInv, LoadedAgree, InVLLM, runtime
  <1>8. ReferencesExact'
    BY <1>1, ReferencesSame DEF PoliciesInv, runtime
  <1>9. BytesOK'
    <2>1. OnDisk \subseteq Adapters /\ OnDisk' \subseteq Adapters
      BY DEF OnDisk
    <2>2. Bytes(OnDisk') <= Bytes(OnDisk) /\ Bytes(OnDisk) \in Nat /\ Bytes(OnDisk') \in Nat
      BY <1>3, <2>1, BytesMonotone, BytesFinite
    <2>3. Bytes(OnDisk)' = Bytes(OnDisk')
      BY DEF Bytes
    <2>4. \A u \in Tasks : task'[u].at # "download"
      BY <1>1, <1>2 DEF PoliciesInv, TasksOK
    <2>5. Bytes(OnDisk) <= MaxBytes
      BY <1>1 DEF PoliciesInv, BytesOK
    <2>6. Bytes(OnDisk') <= MaxBytes
      BY <2>2, <2>5 DEF WorkerAssumption
    <2> QED BY <2>3, <2>4, <2>6 DEF BytesOK
  <1>10. SpaceOK'
    <2>1. Protected' = Protected
      BY <1>1 DEF Protected
    <2>2. ~Evictable(q) => q \in Protected
      <3>1. pins[q] \in 0 .. Cardinality(Slots) /\ Cardinality(Slots) \in Nat
        BY FS_CardinalityType DEF PoliciesInv, PoliciesTypeOK, Policies, WorkerAssumption
      <3>2. pins[q] # 0 => pins[q] > 0
        BY <3>1
      <3> QED BY <3>2 DEF Evictable, Protected
    <2>3. Remaining' \subseteq Remaining
      BY <1>1, <1>3, <2>1, <2>2 DEF Remaining, OnDisk
    <2> QED BY <1>1, <2>3, SpaceShrinks DEF PoliciesInv
  <1> QED BY <1>4, <1>5, <1>6, <1>7, <1>8, <1>9, <1>10 DEF PoliciesInv

\* The directory is in place: the budget had room for it.
LEMMA DownloadStep ==
  ASSUME WorkerAssumption, PoliciesInv, NEW t \in Tasks, Download(t)
  PROVE  PoliciesInv'
  <1>0. PICK p : p = task[t].policy
    OBVIOUS
  <1>1. /\ task[t].at = "download" /\ process = "up" /\ Publish(p) /\ capacity' = Nobody /\ Ensured(t)
        /\ UNCHANGED <<process, marked, examined, runtime, leases, crashes>>
    BY <1>0 DEF Download, At
  <1>2. /\ Slots \subseteq Tasks /\ Prefetch \in Tasks /\ Prefetch \notin Slots
        /\ p \in Adapters /\ p \in Policies /\ \A u \in Tasks : u # Nobody
        /\ capacity = t
    BY <1>0, <1>1 DEF Tasks, Policies, WorkerAssumption, PoliciesInv, TasksOK
  <1>3. /\ task' \in [Tasks -> [at: Position, policy: Policies \cup {Nobody}]]
        /\ \A u \in Tasks \ {t} : task'[u] = task[u]
        /\ t = Prefetch => task'[t].at = "idle"
        /\ t # Prefetch => task'[t].at = "acquire" /\ task'[t].policy = p
        /\ ReferencesExact'
        /\ pins' \in [Policies -> 0 .. Cardinality(Slots)]
    BY <1>0, <1>1, EnsuredMoves DEF runtime
  <1>4. /\ disk' \in [Adapters -> {"absent", "whole", "torn"}]
        /\ disk'[p] = "whole" /\ \A q \in Adapters \ {p} : disk'[q] = disk[q]
        /\ OnDisk' = OnDisk \cup {p}
    BY <1>1, <1>2 DEF Publish, OnDisk, PoliciesInv, PoliciesTypeOK
  <1>5. \A u \in Tasks : task'[u].at \notin {"space", "download"}
    BY <1>2, <1>3 DEF PoliciesInv, TasksOK
  <1>6. PoliciesTypeOK'
    BY <1>1, <1>3, <1>4 DEF PoliciesInv, PoliciesTypeOK, runtime
  <1>7. TasksOK'
    BY <1>0, <1>1, <1>2, <1>3, <1>5 DEF PoliciesInv, TasksOK, runtime
  <1>8. HeldKept'
    BY <1>1, <1>2, <1>3, <1>4 DEF PoliciesInv, HeldKept, Using, Pinning, runtime
  <1>9. LoadedAgree'
    BY <1>1, <1>2, <1>3, <1>4 DEF PoliciesInv, PoliciesTypeOK, LoadedAgree, InVLLM, runtime
  <1>10. BytesOK'
    <2>1. OnDisk \subseteq Adapters
      BY DEF OnDisk
    <2>2. Bytes(OnDisk \cup {p}) <= Bytes(OnDisk) + Size[p]
      BY <1>2, <2>1, BytesAdd
    <2>3. Bytes(OnDisk) + Size[p] <= MaxBytes
      BY <1>0, <1>1 DEF PoliciesInv, BytesOK, Fits
    <2>4. Bytes(OnDisk) \in Nat /\ Bytes(OnDisk \cup {p}) \in Nat /\ Size[p] \in Nat
      BY <1>2, <2>1, BytesFinite DEF WorkerAssumption
    <2>5. Bytes(OnDisk \cup {p}) <= MaxBytes
      BY <2>2, <2>3, <2>4 DEF WorkerAssumption
    <2>6. Bytes(OnDisk)' = Bytes(OnDisk')
      BY DEF Bytes
    <2> QED BY <1>4, <1>5, <2>5, <2>6 DEF BytesOK
  <1>11. SpaceOK'
    BY <1>2, <1>5 DEF SpaceOK
  <1> QED BY <1>3, <1>6, <1>7, <1>8, <1>9, <1>10, <1>11 DEF PoliciesInv

-----------------------------------------------------------------------------
(* The start and the end of the process.                                   *)

\* Nobody holds a reference where every slot is idle.
LEMMA IdleReferences ==
  ASSUME pins' = [p \in Policies |-> 0], users' = [p \in Policies |-> 0],
         \A s \in Slots : task'[s].at = "idle"
  PROVE  ReferencesExact'
  <1>1. \A p \in Policies : Holders(p, Using)' = {} /\ Holders(p, Pinning)' = {}
    BY DEF Holders, Using, Pinning
  <1>2. Cardinality({}) = 0
    BY FS_EmptySet
  <1> QED BY <1>1, <1>2 DEF ReferencesExact

\* The process ends: everything but the disk is forgotten.
LEMMA ForgetStep ==
  ASSUME WorkerAssumption, PoliciesInv, crashes < MaxCrashes,
         NEW d \in [Adapters -> {"absent", "whole", "torn"}], Forget(d)
  PROVE  PoliciesInv'
  <1>1. /\ task' \in [Tasks -> [at: Position, policy: Policies \cup {Nobody}]]
        /\ \A t \in Tasks : task'[t].at = "idle"
    BY DEF Forget, Idle, Position
  <1>2. /\ process' = "down" /\ disk' = d
        /\ pins' = [p \in Policies |-> 0] /\ users' = [p \in Policies |-> 0]
        /\ marked' = {} /\ loaded' = {} /\ vllm' = {} /\ examined' = {}
        /\ capacity' = Nobody /\ condition' = Nobody
        /\ crashes' = crashes + 1 /\ UNCHANGED leases
    BY DEF Forget
  <1>3. Slots \subseteq Tasks /\ Prefetch \in Tasks /\ \A u \in Tasks : u # Nobody
    BY DEF Tasks, WorkerAssumption
  <1>4. PoliciesTypeOK'
    <2>1. Cardinality(Slots) \in Nat
      BY FS_CardinalityType DEF WorkerAssumption
    <2>2. crashes' \in 0 .. MaxCrashes
      BY <1>2 DEF PoliciesInv, PoliciesTypeOK, WorkerAssumption
    <2> QED BY <1>1, <1>2, <2>1, <2>2 DEF PoliciesInv, PoliciesTypeOK
  <1>5. TasksOK'
    BY <1>1, <1>2, <1>3 DEF TasksOK
  <1>6. HeldKept'
    BY <1>1, <1>3 DEF HeldKept, Using, Pinning
  <1>7. LoadedAgree'
    <2>1. Cardinality({}) = 0 /\ MaxLoaded \in Nat
      BY FS_EmptySet DEF WorkerAssumption
    <2> QED BY <1>1, <1>2, <1>3, <2>1 DEF LoadedAgree, InVLLM
  <1>8. ReferencesExact'
    BY <1>1, <1>2, <1>3, IdleReferences
  <1>9. BytesOK' /\ SpaceOK'
    BY <1>1, <1>2, <1>3 DEF BytesOK, SpaceOK
  <1> QED BY <1>4, <1>5, <1>6, <1>7, <1>8, <1>9 DEF PoliciesInv

\* A kill leaves the directory being removed, if any, torn.
LEMMA CrashStep ==
  ASSUME WorkerAssumption, PoliciesInv, Crash
  PROVE  PoliciesInv'
  <1>1. disk \in [Adapters -> {"absent", "whole", "torn"}]
    BY DEF PoliciesInv, PoliciesTypeOK
  <1>2. \A q \in OnDisk : [disk EXCEPT ![q] = "torn"] \in [Adapters -> {"absent", "whole", "torn"}]
    BY <1>1
  <1> QED BY <1>1, <1>2, ForgetStep DEF Crash

\* A failure ends the process, but for the prefetch loop, which gives up the
\* capacity lock and goes on.
LEMMA EnsureFailsStep ==
  ASSUME WorkerAssumption, PoliciesInv, NEW t \in Tasks, EnsureFails(t)
  PROVE  PoliciesInv'
  <1>1. CASE t # Prefetch
    BY <1>1, ForgetStep DEF EnsureFails, PoliciesInv, PoliciesTypeOK
  <1>2. CASE t = Prefetch
    <2>1. /\ capacity' = Nobody /\ task' = [task EXCEPT ![t] = Idle]
          /\ UNCHANGED <<process, disk, pins, marked, examined, runtime, leases, crashes>>
          /\ task[t].at \in {"space", "download"}
      BY <1>2 DEF EnsureFails, OutOfSpace, At
    <2>2. /\ task' \in [Tasks -> [at: Position, policy: Policies \cup {Nobody}]]
          /\ task'[t].at = "idle" /\ task'[t].policy = Nobody
          /\ \A u \in Tasks \ {t} : task'[u] = task[u]
      BY <2>1, IdleMoves DEF PoliciesInv
    <2>3. /\ Slots \subseteq Tasks /\ Prefetch \in Tasks /\ Prefetch \notin Slots
          /\ \A u \in Tasks : u # Nobody
          /\ capacity = t
      BY <2>1 DEF Tasks, WorkerAssumption, PoliciesInv, TasksOK
    <2>4. \A s \in Slots : task'[s] = task[s]
      BY <1>2, <2>2, <2>3
    <2>5. PoliciesTypeOK'
      BY <2>1, <2>2 DEF PoliciesInv, PoliciesTypeOK, runtime
    <2>6. TasksOK'
      BY <1>2, <2>1, <2>2, <2>3 DEF PoliciesInv, TasksOK, runtime
    <2>7. HeldKept' /\ LoadedAgree'
      BY <2>1, <2>4 DEF PoliciesInv, HeldKept, LoadedAgree, InVLLM, runtime
    <2>8. ReferencesExact'
      BY <2>1, <2>4, ReferencesSame DEF PoliciesInv, runtime
    <2>9. BytesOK'
      BY <2>1, <2>2, BytesSame DEF PoliciesInv
    <2>10. SpaceOK'
      BY <2>1, <2>4, SpaceShrinks DEF PoliciesInv, Remaining, Protected, OnDisk
    <2> QED BY <2>5, <2>6, <2>7, <2>8, <2>9, <2>10 DEF PoliciesInv
  <1> QED BY <1>1, <1>2

\* The cache left by an earlier run is brought within the budget.
LEMMA StartStep ==
  ASSUME WorkerAssumption, PoliciesInv, Start
  PROVE  PoliciesInv'
  <1>1. /\ process = "down" /\ process' \in {"refused", "up"}
        /\ UNCHANGED <<pins, marked, capacity, examined, runtime, task, leases, crashes>>
    BY DEF Start
  <1>2. /\ marked = {} /\ vllm = {} /\ loaded = {}
        /\ \A t \in Tasks : task[t].at = "idle"
        /\ Slots \subseteq Tasks /\ Prefetch \in Tasks
    BY <1>1 DEF PoliciesInv, TasksOK, Tasks
  <1>3. /\ disk' \in [Adapters -> {"absent", "whole", "torn"}]
        /\ process' = "up" => Bytes(OnDisk') <= MaxBytes
    <2>1. CASE UNCHANGED disk /\ (process' = "up" => Bytes(OnDisk) <= MaxBytes)
      <3>1. OnDisk' = OnDisk
        BY <2>1 DEF OnDisk
      <3> QED BY <2>1, <3>1 DEF PoliciesInv, PoliciesTypeOK
    <2>2. CASE \E gone \in SUBSET OnDisk :
                 Remove(gone) /\ (Bytes(OnDisk \ gone) <= MaxBytes \/ gone = OnDisk)
      <3>1. PICK gone \in SUBSET OnDisk :
              Remove(gone) /\ (Bytes(OnDisk \ gone) <= MaxBytes \/ gone = OnDisk)
        BY <2>2
      <3>2. OnDisk' = OnDisk \ gone
        BY <3>1 DEF Remove, OnDisk
      <3>3. gone = OnDisk => OnDisk \ gone = {}
        OBVIOUS
      <3>4. Bytes(OnDisk \ gone) <= MaxBytes
        BY <3>1, <3>3, BytesEmpty DEF WorkerAssumption
      <3>5. disk' \in [Adapters -> {"absent", "whole", "torn"}]
        BY <3>1 DEF Remove, PoliciesInv, PoliciesTypeOK
      <3> QED BY <3>2, <3>4, <3>5
    <2> QED BY <2>1, <2>2 DEF Start, EnforceRetention
  <1>4. PoliciesTypeOK'
    BY <1>1, <1>3 DEF PoliciesInv, PoliciesTypeOK, runtime
  <1>5. TasksOK'
    BY <1>1, <1>2 DEF PoliciesInv, TasksOK, runtime
  <1>6. HeldKept' /\ LoadedAgree'
    BY <1>1, <1>2 DEF PoliciesInv, HeldKept, LoadedAgree, InVLLM, Using, Pinning, runtime
  <1>7. ReferencesExact'
    BY <1>1, ReferencesSame DEF PoliciesInv, runtime
  <1>8. BytesOK'
    <2>1. Bytes(OnDisk)' = Bytes(OnDisk')
      BY DEF Bytes
    <2> QED BY <1>1, <1>2, <1>3, <2>1 DEF BytesOK
  <1>9. SpaceOK'
    BY <1>1, <1>2 DEF SpaceOK
  <1> QED BY <1>4, <1>5, <1>6, <1>7, <1>8, <1>9 DEF PoliciesInv

\* The invariant holds when the worker is first started.
LEMMA PoliciesStart ==
  ASSUME WorkerAssumption, PoliciesInit
  PROVE  PoliciesInv
  <1>1. /\ task \in [Tasks -> [at: Position, policy: Policies \cup {Nobody}]]
        /\ \A t \in Tasks : task[t].at = "idle"
        /\ Slots \subseteq Tasks /\ Prefetch \in Tasks /\ \A u \in Tasks : u # Nobody
    BY DEF PoliciesInit, Idle, Position, Tasks, WorkerAssumption
  <1>2. PoliciesTypeOK
    <2>1. Cardinality(Slots) \in Nat
      BY FS_CardinalityType DEF WorkerAssumption
    <2> QED BY <1>1, <2>1 DEF PoliciesInit, PoliciesTypeOK, WorkerAssumption
  <1>3. TasksOK /\ HeldKept
    BY <1>1 DEF PoliciesInit, TasksOK, HeldKept, Using, Pinning
  <1>4. LoadedAgree
    <2>1. Cardinality({}) = 0 /\ MaxLoaded \in Nat
      BY FS_EmptySet DEF WorkerAssumption
    <2> QED BY <1>1, <2>1 DEF PoliciesInit, LoadedAgree, InVLLM
  <1>5. ReferencesExact
    <2>1. \A p \in Policies : Holders(p, Using) = {} /\ Holders(p, Pinning) = {}
      BY <1>1 DEF Holders, Using, Pinning
    <2> QED BY <2>1, FS_EmptySet DEF PoliciesInit, ReferencesExact
  <1>6. BytesOK /\ SpaceOK
    BY <1>1 DEF PoliciesInit, BytesOK, SpaceOK
  <1> QED BY <1>2, <1>3, <1>4, <1>5, <1>6 DEF PoliciesInv

-----------------------------------------------------------------------------
(* The invariant holds, and it says what was to be shown.                  *)

\* Every step keeps the invariant.
LEMMA PoliciesStep ==
  ASSUME WorkerAssumption, PoliciesInv, [PoliciesNext]_policyVars
  PROVE  PoliciesInv'
  <1>1. CASE UNCHANGED policyVars
    <2>1. UNCHANGED <<process, disk, pins, marked, capacity, examined, loaded, users, condition,
                      vllm, task, leases, crashes>>
      BY <1>1 DEF policyVars, cache, runtime
    <2>2. Bytes(OnDisk)' = Bytes(OnDisk) /\ Remaining' = Remaining /\ InVLLM' = InVLLM
      BY <2>1 DEF Bytes, OnDisk, Remaining, Protected, InVLLM
    <2>3. PoliciesTypeOK' /\ TasksOK' /\ HeldKept' /\ LoadedAgree'
      BY <2>1, <2>2 DEF PoliciesInv, PoliciesTypeOK, TasksOK, HeldKept, LoadedAgree
    <2>4. ReferencesExact'
      BY <2>1, ReferencesSame DEF PoliciesInv
    <2>5. BytesOK' /\ SpaceOK'
      BY <2>1, <2>2 DEF PoliciesInv, BytesOK, SpaceOK, Fits
    <2> QED BY <2>3, <2>4, <2>5 DEF PoliciesInv
  <1>2. CASE Start \/ Crash
    BY <1>2, StartStep, CrashStep
  <1>3. ASSUME NEW t \in Tasks, CacheStep(t) \/ EnsureFails(t)
        PROVE  PoliciesInv'
    BY <1>3, EnsureStep, MakeSpaceStep, DownloadStep, ExamineStep, EnsureFailsStep DEF CacheStep
  <1>4. ASSUME NEW t \in Tasks, NEW p \in Policies, Begin(t, p)
        PROVE  PoliciesInv'
    BY <1>4, BeginStep
  <1>5. ASSUME NEW s \in Slots, SlotStep(s)
        PROVE  PoliciesInv'
    BY <1>5, AcquireStep, MakeRoomStep, AwaitRoomStep, ReacquireStep, LoadStep, HoldStep,
       ServedStep, ReleaseStep, RetainStep DEF SlotStep
  <1>6. ASSUME NEW s \in Slots, AdminFails(s)
        PROVE  PoliciesInv'
    BY <1>6, ForgetStep DEF AdminFails, PoliciesInv, PoliciesTypeOK
  <1> QED BY <1>1, <1>2, <1>3, <1>4, <1>5, <1>6 DEF PoliciesNext

\* If the budget holds max_loaded_policies adapters and one more per slot, there
\* is space once everything that may go is gone: less than that many remain.
LEMMA SpaceIsThere ==
  ASSUME WorkerAssumption, PoliciesInv
  PROVE  SpaceSuffices
  <1>1. SUFFICES ASSUME \A p \in Adapters : (MaxLoaded + Cardinality(Slots)) * Size[p] <= MaxBytes,
                        NEW s \in Slots, OutOfSpace(s)
                 PROVE  FALSE
    BY DEF SpaceSuffices
  <1> DEFINE N == MaxLoaded + Cardinality(Slots)
             c == MaxBytes \div N
             q == task[s].policy
  <1>2. Cardinality(Slots) \in Nat /\ MaxLoaded \in Nat \ {0} /\ MaxBytes \in Nat
    BY FS_CardinalityType DEF WorkerAssumption
  <1>3. N \in Nat \ {0}
    BY <1>2
  <1>4. c \in Nat /\ N * c <= MaxBytes /\ \A k \in Nat : N * k <= MaxBytes => k <= c
    <2> HIDE DEF N
    <2>1. c \in Int /\ MaxBytes = N * c + (MaxBytes % N) /\ MaxBytes % N \in 0 .. N - 1
      BY <1>2, <1>3
    <2>2. c >= 0
      BY <1>2, <1>3
    <2> HIDE DEF c
    <2>3. N * c <= MaxBytes
      BY <1>2, <1>3, <2>1
    <2>4. ASSUME NEW k \in Nat, N * k <= MaxBytes PROVE k <= c
      <3>1. SUFFICES ASSUME k >= c + 1 PROVE FALSE
        BY <2>1
      <3>2. N * k >= N * (c + 1)
        BY <1>3, <2>1, <3>1
      <3> QED BY <1>2, <1>3, <2>1, <2>4, <3>2
    <2> QED BY <2>1, <2>2, <2>3, <2>4
  <1>5. /\ task[s].at = "space" /\ process = "up" /\ q \in Adapters
        /\ ~(Bytes(OnDisk) + Size[q] <= MaxBytes) /\ OnDisk \subseteq examined
    BY <1>1 DEF OutOfSpace, At, Fits, PoliciesInv, TasksOK, Tasks
  <1>6. \A p \in Adapters : Size[p] \in Nat /\ Size[p] <= c
    <2> HIDE DEF c
    <2> QED BY <1>1, <1>4 DEF WorkerAssumption
  <1>7. Cardinality(OnDisk) \in Nat /\ Cardinality(OnDisk) <= N - 1
    <2>1. OnDisk \subseteq Remaining
      BY <1>5 DEF Remaining
    <2>2. IsFiniteSet(Remaining) /\ Cardinality(Remaining) \in Nat
      BY RemainingFinite
    <2>3. Cardinality(OnDisk) <= Cardinality(Remaining) /\ Cardinality(OnDisk) \in Nat
      BY <2>1, <2>2, FS_Subset, FS_CardinalityType
    <2>4. Cardinality(Remaining) < N
      BY <1>5 DEF PoliciesInv, SpaceOK
    <2> HIDE DEF N
    <2> QED BY <1>3, <2>2, <2>3, <2>4
  <1>8. Bytes(OnDisk) <= Cardinality(OnDisk) * c /\ Bytes(OnDisk) \in Nat
    <2> HIDE DEF c
    <2>1. OnDisk \in SUBSET Adapters
      BY DEF OnDisk
    <2> QED BY <1>4, <1>6, <2>1, BytesBounded, BytesFinite
  <1> HIDE DEF N, c, q
  <1>9. Cardinality(OnDisk) * c <= (N - 1) * c
    BY <1>3, <1>4, <1>7
  <1>10. (N - 1) * c + c = N * c
    BY <1>3, <1>4
  <1>11. Bytes(OnDisk) + Size[q] <= MaxBytes
    <2>1. Size[q] \in Nat /\ Size[q] <= c
      BY <1>5, <1>6
    <2>2. Cardinality(OnDisk) * c \in Int /\ (N - 1) * c \in Int /\ N * c \in Int
      BY <1>3, <1>4, <1>7
    <2> QED BY <1>2, <1>4, <1>8, <1>9, <1>10, <2>1, <2>2
  <1> QED BY <1>5, <1>11

\* PoliciesSafe: for every number of slots, adapters and leases, every size and
\* every budget, a slot serves only from an adapter that is whole on disk and
\* loaded, both budgets are kept, the reference counts of the cache and of the
\* runtime are exact, and a slot never runs out of the space it was promised,
\* whatever the event loop does while the thread looks for something to evict,
\* and wherever the process is killed.
THEOREM PoliciesAreSafe ==
  ASSUME WorkerAssumption
  PROVE  PoliciesSpec => []PoliciesSafe
  <1>1. PoliciesInit => PoliciesInv
    BY PoliciesStart
  <1>2. PoliciesInv /\ [PoliciesNext]_policyVars => PoliciesInv'
    BY PoliciesStep
  <1>3. PoliciesInv => PoliciesSafe
    <2>1. SUFFICES ASSUME PoliciesInv PROVE PoliciesSafe
      OBVIOUS
    <2>2. ServedFromCache
      <3>1. \A p \in marked : p \in OnDisk
        BY <2>1 DEF PoliciesInv, PoliciesTypeOK, LoadedAgree, OnDisk
      <3>2. ASSUME NEW s \in Slots, At(s, "serving"), task[s].policy \in Adapters
            PROVE  task[s].policy \in vllm \cap OnDisk
        <4>1. task[s].policy \in InVLLM
          BY <2>1, <3>2 DEF PoliciesInv, HeldKept, Using, At, InVLLM
        <4>2. InVLLM \subseteq vllm
          <5>1. CASE condition = Nobody
            BY <2>1, <5>1 DEF PoliciesInv, LoadedAgree
          <5>2. CASE condition # Nobody
            <6>1. condition \in Slots
              BY <2>1, <5>2 DEF PoliciesInv, PoliciesTypeOK
            <6>2. task[condition].at \in {"room", "hold"}
              BY <2>1, <6>1 DEF PoliciesInv, TasksOK
            <6> QED BY <2>1, <6>1, <6>2 DEF PoliciesInv, LoadedAgree
          <5> QED BY <5>1, <5>2
        <4> QED BY <2>1, <3>1, <4>1, <4>2 DEF PoliciesInv, LoadedAgree
      <3> QED BY <2>1, <3>1, <3>2 DEF ServedFromCache, PoliciesInv, LoadedAgree
    <2>3. BudgetsKept
      BY <2>1 DEF BudgetsKept, PoliciesInv, BytesOK, LoadedAgree
    <2>4. SpaceSuffices
      BY <2>1, SpaceIsThere
    <2> QED BY <2>1, <2>2, <2>3, <2>4 DEF PoliciesSafe, PoliciesInv
  <1> QED BY <1>1, <1>2, <1>3, PTL DEF PoliciesSpec

=============================================================================
