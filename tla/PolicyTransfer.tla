--------------------------- MODULE PolicyTransfer ---------------------------
(***************************************************************************)
(* How the adapter of a policy reaches a worker: the SHARDCAST relay that  *)
(* follows the active policy, and the worker's download of one file, which *)
(* tries the relay's shards, then an external origin, then the             *)
(* coordinator, and resumes from a partial file that outlives crashes and  *)
(* may hold bytes of several sources.                                      *)
(*                                                                         *)
(* A file is a sequence of blocks; each block names the policy it belongs  *)
(* to, 0 for bytes that belong to none.                                    *)
(***************************************************************************)
EXTENDS Integers, Sequences, FiniteSets

CONSTANTS
    LastPolicy,     \* policies are 1 .. LastPolicy
    Wanted,         \* the policy whose file the worker downloads
    Blocks,         \* blocks of its file
    Tries,          \* policy_download_attempts
    External,       \* policy_download_allowed_origins is not empty
    Fallback,       \* policy_coordinator_fallback
    MaxVersions,    \* max_versions of the relay
    MaxStops        \* bound: crashes of the worker and of the relay

Policy == 1 .. LastPolicy
File(p) == [i \in 1 .. Blocks |-> p]

\* Assumed of the constants: policies, files and attempts that there are, and
\* what PolicyRelayConfig and the worker's configuration allow.
TransferAssumption ==
    /\ LastPolicy \in Nat \ {0} /\ Wanted \in Policy
    /\ Blocks \in Nat \ {0} /\ Tries \in Nat \ {0}
    /\ MaxVersions \in Nat \ {0, 1} /\ MaxStops \in Nat

VARIABLES
    current,    \* the active policy
    version,    \* versions the relay has broadcast so far
    dirs,       \* the version directories it keeps: <<version, policy>>
    index,      \* aether-policies.json: <<policy, version>>
    relay,      \* "idle", or the version whose record is not published yet
    part,       \* the partial file
    placed,     \* the file moved into the policy directory, or <<>>
    fetch,      \* position of _download_file
    stops

relayVars == <<current, version, dirs, index, relay>>
transferVars == <<relayVars, part, placed, fetch, stops>>

Resting == [at |-> "start", attempt |-> 0, version |-> 0, source |-> "none"]

TransferTypeOK ==
    /\ current \in Policy
    /\ version \in Nat
    /\ dirs \subseteq (1 .. version) \X Policy
    /\ index \subseteq Policy \X (1 .. version)
    /\ relay \in 0 .. version
    /\ part \in Seq(0 .. LastPolicy) /\ Len(part) <= Blocks
    /\ placed \in Seq(0 .. LastPolicy)
    /\ fetch \in [at: {"start", "shards", "assemble", "attempt", "stream", "check", "placed", "failed"},
                  attempt: 0 .. Tries, version: 0 .. version,
                  source: {"none", "external", "coordinator"}]
    /\ stops \in 0 .. MaxStops

TransferInit ==
    /\ current = 1
    /\ version = 0 /\ dirs = {} /\ index = {} /\ relay = 0
    /\ part = <<>> /\ placed = <<>>
    /\ fetch = Resting
    /\ stops = 0

-----------------------------------------------------------------------------
(* The relay.                                                              *)

Activate ==
    /\ current < LastPolicy
    /\ current' = current + 1
    /\ UNCHANGED <<version, dirs, index, relay, part, placed, fetch, stops>>

HasDir(v) == \E d \in dirs : d[1] = v

\* _reconcile_index: records whose directory is there.  There are never more
\* than max_versions of them (IndexSound), so cutting the rest off does nothing.
Reconciled(records) == {r \in records : HasDir(r[2])}

UpToDate == \E r \in index : r[1] = current /\ HasDir(r[2])

\* sync_current up to shardcast.broadcast: the verified file becomes a new
\* version, and the oldest directory beyond max_versions goes.
Broadcast ==
    /\ relay = 0
    /\ ~UpToDate
    /\ version' = version + 1
    /\ dirs' = {d \in dirs : d[1] > version + 1 - MaxVersions} \cup {<<version + 1, current>>}
    /\ relay' = version + 1
    /\ UNCHANGED <<current, index, part, placed, fetch, stops>>

Indexed(v) == (CHOOSE d \in dirs : d[1] = v)[2]

\* ... and its record replaces that of the same policy.
PublishIndex ==
    /\ relay # 0
    /\ LET p == Indexed(relay)
           others == {r \in index : r[1] # p}
       IN index' = Reconciled(others \cup {<<p, relay>>})
    /\ relay' = 0
    /\ UNCHANGED <<current, version, dirs, part, placed, fetch, stops>>

\* The relay stops before the record is written: it broadcasts again later.
RelayStops ==
    /\ relay # 0 /\ stops < MaxStops
    /\ relay' = 0 /\ stops' = stops + 1
    /\ UNCHANGED <<current, version, dirs, index, part, placed, fetch>>

-----------------------------------------------------------------------------
(* _download_file.                                                         *)

Go(where) == fetch' = [fetch EXCEPT !.at = where]

\* download_shardcast, only without a partial file: the record of the policy.
FindShards ==
    /\ fetch.at = "start"
    /\ \/ /\ part = <<>>
          /\ \E r \in index :
               /\ r[1] = Wanted
               /\ fetch' = [fetch EXCEPT !.at = "shards", !.version = r[2]]
       \/ Go("attempt")
    /\ UNCHANGED <<relayVars, part, placed, stops>>

\* All shards arrive, or the version has been evicted or a relay fails.
FetchShards ==
    /\ fetch.at = "shards"
    /\ \/ HasDir(fetch.version) /\ Go("assemble")
       \/ Go("attempt")
    /\ UNCHANGED <<relayVars, part, placed, stops>>

\* The shards, whose bytes only the digest checks, are copied to the partial file.
Assemble ==
    /\ fetch.at = "assemble"
    /\ \E block \in {0, Wanted} : part' = Append(part, block)
    /\ IF Len(part') < Blocks THEN UNCHANGED fetch ELSE Go("check")
    /\ UNCHANGED <<relayVars, placed, stops>>

Complete == Len(part) = Blocks
Verified == part = File(Wanted)

CheckShards ==
    /\ fetch.at = "check" /\ fetch.attempt = 0
    /\ part' = IF Verified THEN part ELSE <<>>
    /\ Go("attempt")
    /\ UNCHANGED <<relayVars, placed, stops>>

CoordinatorOnly == Fallback /\ Tries > 1 /\ fetch.attempt = Tries - 1

\* stream: an approved external origin if it has a location, else the coordinator.
Sources ==
    (IF External /\ ~CoordinatorOnly THEN {"external"} ELSE {})
        \cup (IF Fallback THEN {"coordinator"} ELSE {})

\* An attempt opens a stream from the end of the partial file.
OpenStream ==
    /\ fetch.at = "attempt"
    /\ fetch.attempt < Tries
    /\ ~(Complete /\ Verified)
    /\ part' = IF Complete THEN <<>> ELSE part
    /\ \E s \in Sources : fetch' = [fetch EXCEPT !.at = "stream", !.source = s]
    /\ UNCHANGED <<relayVars, placed, stops>>

\* The coordinator sends verified bytes; an external origin may not.
Receive ==
    /\ fetch.at = "stream" /\ ~Complete
    /\ \E block \in IF fetch.source = "external" THEN {0, Wanted} ELSE {Wanted} :
         part' = Append(part, block)
    /\ UNCHANGED <<relayVars, placed, fetch, stops>>

\* Transport errors, refused requests and streams that are too long leave the
\* partial file to the next attempt; an error not worth repeating ends the download.
Interrupted ==
    /\ \/ fetch.at = "stream"
       \/ fetch.at = "attempt" /\ fetch.attempt < Tries /\ ~(Complete /\ Verified)
    /\ \E next \in IF fetch.attempt + 1 < Tries THEN {"attempt", "failed"} ELSE {"failed"} :
         fetch' = [fetch EXCEPT !.attempt = @ + 1, !.source = "none", !.at = next]
    /\ UNCHANGED <<relayVars, part, placed, stops>>

\* The stream has ended: bytes that do not match are thrown away.
StreamEnds ==
    /\ fetch.at = "stream"
    /\ part' = IF Verified THEN part ELSE <<>>
    /\ fetch' = [fetch EXCEPT !.attempt = @ + 1, !.source = "none",
                    !.at = IF Verified \/ fetch.attempt + 1 < Tries THEN "attempt" ELSE "failed"]
    /\ UNCHANGED <<relayVars, placed, stops>>

\* Mutant: only the length is checked before the file is moved.
AcceptableLength == Complete

Acceptable == Complete /\ Verified

\* The final check and os.replace into the policy directory.
Place ==
    /\ fetch.at = "attempt"
    /\ Acceptable
    /\ placed' = part
    /\ part' = <<>>
    /\ Go("placed")
    /\ UNCHANGED <<relayVars, stops>>

\* The worker stops or crashes at any time; partial files are kept.
WorkerStops ==
    /\ fetch.at \notin {"start", "placed"} /\ stops < MaxStops
    /\ stops' = stops + 1
    /\ fetch' = Resting
    /\ UNCHANGED <<relayVars, part, placed>>

-----------------------------------------------------------------------------
TransferNext ==
    \/ Activate \/ Broadcast \/ PublishIndex \/ RelayStops
    \/ FindShards \/ FetchShards \/ Assemble \/ CheckShards
    \/ OpenStream \/ Receive \/ Interrupted \/ StreamEnds \/ Place \/ WorkerStops

TransferSpec == TransferInit /\ [][TransferNext]_transferVars

-----------------------------------------------------------------------------
\* Only the manifest's exact bytes reach the policy directory, whatever mix of
\* sources, interruptions, crashes and resumed parts produced them.
PlacedExact == placed # <<>> => placed = File(Wanted)

\* A record of the relay's index never leads to another policy's shards, and
\* the index does not grow beyond max_versions.
IndexSound ==
    /\ Cardinality(index) <= MaxVersions
    /\ \A r \in index, d \in dirs : d[1] = r[2] => d[2] = r[1]

\* Only the manifest's bytes reach the policy directory, and the relay's index
\* never leads to another policy's shards.
TransfersExact == TransferTypeOK /\ PlacedExact /\ IndexSound
=============================================================================
