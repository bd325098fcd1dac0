----------------------------- MODULE PolicyFiles -----------------------------
(***************************************************************************)
(* The files of a published policy: what verify_lora_policy accepts, the   *)
(* coordinator's checks of a policy that lies on its disk, its answers to  *)
(* range requests, and what a worker accepts of them.  The disk may damage *)
(* a file at any moment: an adapter is digested in full only once per      *)
(* process, later looks compare sizes.                                     *)
(***************************************************************************)
EXTENDS Integers, FiniteSets, FiniteSetsExt, Sequences

CONSTANTS
  Adapters,     \* state dicts: tensor prefix -> factors, see ValidateAdapterTensors
  Rank,         \* the manifest's rank
  Size,         \* blocks of the weights file
  MaxDamage,    \* bound: damages and repairs of the file
  MaxRequests   \* bound: requests for the file

FilesAssumption == Rank \in Nat \ {0} /\ Size \in Nat \ {0}

VARIABLES
  adapter,    \* the state dict the trainer publishes
  published,  \* "no", "refused", "yes", then "active"
  disk,       \* the weights file: sequence of blocks, TRUE where intact
  verified,   \* _verified_policy_digests holds the policy
  checking,   \* the verifier's position: "idle" or "opened"
  integrity,  \* app.state.policy_integrity_ok
  request,    \* the request in flight
  offset,     \* blocks the worker's .part file holds
  part,       \* and their values
  damaged,    \* the file changed since the digest check of: the request, the verifier
  damages, requests

fileVars == <<adapter, published, disk, verified, checking, integrity, request, offset, part, damaged, damages, requests>>

Intact == [i \in 1..Size |-> TRUE]

-----------------------------------------------------------------------------
(* _validate_adapter_tensors.  A prefix is a record: the layer `root`, its *)
(* `kind` and, for a tensor of one expert, its number and projection.  A   *)
(* pair maps "A" and "B" to shapes.                                        *)

Stacked(p) == p.kind \in {"experts", "base_layer"}
PairSound(p, pair) ==
  /\ DOMAIN pair = {"A", "B"}
  /\ pair["A"][1] = pair["B"][2]
  /\ pair["A"][1] = Rank \/ (Stacked(p) /\ pair["A"][1] % Rank = 0)

StackedSound(dict, root) ==
  LET gateUp == [root |-> root, kind |-> "base_layer", expert |-> 0]
      down == [root |-> root, kind |-> "experts", expert |-> 0]
  IN  /\ {gateUp, down} \subseteq DOMAIN dict
      /\ dict[gateUp]["A"][1] = dict[down]["A"][1]
      /\ dict[gateUp]["A"][2] = dict[down]["B"][1]
      /\ dict[gateUp]["B"][1] = 2 * dict[down]["A"][2]

Projections == {"gate_proj", "up_proj", "down_proj"}
ExpertPrefixes(dict, root) == {p \in DOMAIN dict : p.root = root /\ p.kind \in Projections}
ExpertSound(dict, root) ==
  LET mine == ExpertPrefixes(dict, root)
      ids == {p.expert : p \in mine}
      Of(i) == {p.kind : p \in {q \in mine : q.expert = i}}
      At(i, k) == dict[[root |-> root, kind |-> k, expert |-> i]]
  IN  /\ ids = 0..(Cardinality(ids) - 1)
      /\ \A i \in ids : Of(i) = Of(0)
      /\ Of(0) \in {Projections, Projections \ {"gate_proj"}}
      /\ \A i \in ids : /\ \A k \in Of(i) : At(i, k) = At(0, k)
                        /\ At(i, "up_proj")["A"][2] = At(i, "down_proj")["B"][1]
                        /\ At(i, "up_proj")["B"][1] = At(i, "down_proj")["A"][2]
                        /\ "gate_proj" \in Of(i) => At(i, "gate_proj") = At(i, "up_proj")

ValidateAdapterTensors(dict) ==
  /\ DOMAIN dict # {}
  /\ \A p \in DOMAIN dict : PairSound(p, dict[p])
  /\ \A root \in {p.root : p \in {q \in DOMAIN dict : Stacked(q)}} : StackedSound(dict, root)
  /\ \A root \in {p.root : p \in {q \in DOMAIN dict : q.kind \in Projections}} : ExpertSound(dict, root)

-----------------------------------------------------------------------------
(* The coordinator's looks at the policy on its disk.                      *)

SizeMatches == Len(disk) = Size
Digest == disk = Intact

\* verify_lora_policy on the directory: entries, manifest, sizes, digests,
\* configuration and tensors (the last two follow from the digests).
VerifyLoraPolicy == SizeMatches /\ Digest

\* _verify_policy_row: the whole verification once, sizes afterwards.
VerifyPolicyRow == IF verified THEN SizeMatches ELSE VerifyLoraPolicy

\* open_policy_file: the row, then the descriptor's size.
OpenPolicyFile == VerifyPolicyRow /\ SizeMatches

Calm == [at |-> "none", header |-> <<"none">>, etag |-> "none", status |-> 0, first |-> 0, last |-> 0, sent |-> 0]

Init ==
  /\ adapter \in Adapters /\ published = "no"
  /\ disk = Intact /\ verified = FALSE /\ checking = "idle" /\ integrity = TRUE
  /\ request = Calm /\ offset = 0 /\ part = <<>>
  /\ damaged = [request |-> FALSE, check |-> FALSE]
  /\ damages = 0 /\ requests = 0

\* publish_lora_policy: validation, the files in a temporary directory,
\* verification, rename.
Publish ==
  /\ published = "no"
  /\ published' = IF ValidateAdapterTensors(adapter) THEN "yes" ELSE "refused"
  /\ UNCHANGED <<adapter, disk, verified, checking, integrity, request, offset, part, damaged, damages, requests>>

\* activate_policy verifies the policy in full; from here on only its bytes
\* matter.
ActivatePolicy ==
  /\ published = "yes"
  /\ published' = "active" /\ adapter' = <<>> /\ verified' = TRUE
  /\ UNCHANGED <<disk, checking, integrity, request, offset, part, damaged, damages, requests>>

\* The disk: a block goes bad, the file is cut short, or an operator restores
\* it in place.
Damage ==
  /\ published = "active" /\ damages < MaxDamage
  /\ damages' = damages + 1
  /\ disk' \in {Intact, SubSeq(Intact, 1, Size - 1)} \cup {[Intact EXCEPT ![i] = FALSE] : i \in 1..Size}
  /\ disk' # disk
  /\ damaged' = [request |-> TRUE, check |-> TRUE]
  /\ UNCHANGED <<adapter, published, verified, checking, integrity, request, offset, part, requests>>

\* verify_active_policy: active_policy and open_policy_file on the database
\* thread, then the digest on another one, while the disk goes on changing.
CheckOpen ==
  /\ published = "active" /\ checking = "idle"
  /\ verified' = (verified \/ VerifyPolicyRow)
  /\ IF OpenPolicyFile THEN checking' = "opened" /\ UNCHANGED integrity
                       ELSE integrity' = FALSE /\ UNCHANGED checking
  /\ damaged' = [damaged EXCEPT !.check = FALSE]
  /\ UNCHANGED <<adapter, published, disk, request, offset, part, damages, requests>>

CheckDigest ==
  /\ checking = "opened"
  /\ checking' = "idle"
  /\ integrity' = Digest
  /\ UNCHANGED <<adapter, published, disk, verified, request, offset, part, damaged, damages, requests>>

\* A new coordinator process: nothing is verified, and the lifespan verifies
\* the active policy before it serves.
Restart ==
  /\ published = "active" /\ checking = "idle" /\ request.at = "none" /\ verified
  /\ verified' = VerifyLoraPolicy
  /\ integrity' = VerifyLoraPolicy
  /\ damaged' = [damaged EXCEPT !.check = FALSE]
  /\ UNCHANGED <<adapter, published, disk, checking, request, offset, part, damages, requests>>

\* lease_gate_open and /ready, the trainer being ready.
LeaseGateOpen == integrity
Ready == VerifyPolicyRow /\ integrity

-----------------------------------------------------------------------------
(* Requests for the file.                                                  *)

\* A Range header: <<"none">>, <<"from", a>>, <<"range", a, b>>, <<"suffix", n>>
\* or <<"malformed">>; several ranges are malformed here.
Headers == {<<"none">>, <<"malformed">>}
           \cup {<<"from", a>> : a \in 0..Size} \cup {<<"suffix", n>> : n \in 0..(Size + 1)}
           \cup {<<"range", a, b>> : a \in 0..Size, b \in 0..(Size + 1)}

Refused == <<-1, -1>>
ParseRange(h) ==
  LET bounds == CASE h[1] = "none" -> <<0, Size - 1>>
                  [] h[1] = "malformed" -> Refused
                  [] h[1] = "from" -> <<h[2], Size - 1>>
                  [] h[1] = "range" -> <<h[2], h[3]>>
                  [] h[1] = "suffix" -> IF h[2] <= 0 THEN Refused ELSE <<Max({0, Size - h[2]}), Size - 1>>
  IN  IF bounds[1] < 0 \/ bounds[2] < bounds[1] \/ bounds[1] >= Size THEN Refused
      ELSE <<bounds[1], Min({bounds[2], Size - 1})>>

\* _etag_matches: the digest, weak or not, anywhere in the list, or "*".
EtagMatches(e) == e = "digest"

\* The worker asks from the offset it holds; another client asks anything.
Ask(h, e) ==
  /\ published = "active" /\ request.at = "none" /\ requests < MaxRequests
  /\ requests' = requests + 1
  /\ request' = [Calm EXCEPT !.at = "asked", !.header = h, !.etag = e]
  /\ UNCHANGED <<adapter, published, disk, verified, checking, integrity, offset, part, damaged, damages>>

StreamPolicyFile == offset < Size /\ Ask(IF offset = 0 THEN <<"none">> ELSE <<"from", offset>>, "worker")
OtherClient == \E h \in Headers, e \in {"none", "digest"} : Ask(h, e)

\* policy_file: open and digest, in two steps as in CheckOpen and CheckDigest.
ServeOpen ==
  /\ request.at = "asked"
  /\ verified' = (verified \/ VerifyPolicyRow)
  /\ request' = IF OpenPolicyFile THEN [request EXCEPT !.at = "opened"]
                ELSE [request EXCEPT !.at = "answered", !.status = 500]
  /\ damaged' = [damaged EXCEPT !.request = FALSE]
  /\ UNCHANGED <<adapter, published, disk, checking, integrity, offset, part, damages, requests>>

Answer(h, e) ==
  LET bounds == ParseRange(h)
  IN  IF bounds = Refused THEN [status |-> 416, first |-> 0, last |-> -1]
      ELSE [status |-> IF EtagMatches(e) THEN 304 ELSE IF h[1] = "none" THEN 200 ELSE 206,
            first |-> bounds[1], last |-> bounds[2]]

ServeDigest ==
  /\ request.at = "opened"
  /\ request' = IF ~Digest THEN [request EXCEPT !.at = "answered", !.status = 500]
                ELSE LET a == Answer(request.header, request.etag)
                     IN  [request EXCEPT !.at = "answered", !.status = a.status, !.first = a.first, !.last = a.last]
  /\ UNCHANGED <<adapter, published, disk, verified, checking, integrity, offset, part, damaged, damages, requests>>

\* _validate_response on the worker (and the status stream_policy_file wants):
\* Content-Length, Content-Range and ETag against the manifest.
ValidateResponse ==
  /\ request.status = IF offset = 0 THEN 200 ELSE 206
  /\ request.last - request.first + 1 = Size - offset
  /\ offset > 0 => request.first = offset /\ request.last = Size - 1

Streaming == request.at = "answered" /\ request.status \in {200, 206} /\ request.first + request.sent <= request.last

\* _file_chunks: the next block, as it now lies on the disk.
SendBlock ==
  /\ Streaming
  /\ LET i == request.first + request.sent + 1
     IN  /\ i <= Len(disk)
         /\ IF request.etag = "accepted" \/ (request.etag = "worker" /\ ValidateResponse)
            THEN /\ part' = Append(part, disk[i]) /\ offset' = offset + 1
                 /\ request' = [request EXCEPT !.sent = @ + 1, !.etag = "accepted"]
            ELSE request' = [request EXCEPT !.sent = @ + 1] /\ UNCHANGED <<part, offset>>
  /\ UNCHANGED <<adapter, published, disk, verified, checking, integrity, damaged, damages, requests>>

\* The answer ends, whole or cut by the connection or by a short file; the
\* worker discards a complete file whose digest is wrong (_download_file).
EndAnswer ==
  /\ request.at = "answered"
  /\ ~Streaming \/ request.etag \in {"worker", "accepted"}
  /\ request' = Calm
  /\ IF offset = Size /\ part # Intact THEN offset' = 0 /\ part' = <<>>
     ELSE UNCHANGED <<offset, part>>
  /\ UNCHANGED <<adapter, published, disk, verified, checking, integrity, damaged, damages, requests>>

Next ==
  \/ Publish \/ ActivatePolicy \/ Damage \/ CheckOpen \/ CheckDigest \/ Restart
  \/ StreamPolicyFile \/ OtherClient \/ ServeOpen \/ ServeDigest \/ SendBlock \/ EndAnswer

-----------------------------------------------------------------------------
(* Properties.                                                             *)

\* A published adapter is the adapter of one model: its stacked experts have
\* one expert count, hidden and intermediate size, its experts' projections
\* are those of consecutive experts of one shape.
AdaptersWhole ==
  published = "yes" =>
    /\ \A p \in DOMAIN adapter :
         Stacked(p) =>
           \E n, hidden, inter \in 1..8 :
              adapter = [q \in DOMAIN adapter |->
                IF q.root # p.root \/ ~Stacked(q) THEN adapter[q]
                ELSE IF q.kind = "experts"
                     THEN [f \in {"A", "B"} |-> IF f = "A" THEN <<n * Rank, inter>> ELSE <<hidden, n * Rank>>]
                     ELSE [f \in {"A", "B"} |-> IF f = "A" THEN <<n * Rank, hidden>> ELSE <<2 * inter, n * Rank>>]]
    /\ \A root \in {p.root : p \in DOMAIN adapter} : ExpertPrefixes(adapter, root) # {} =>
         \E n, hidden, inter \in 1..8, kinds \in {Projections, Projections \ {"gate_proj"}} :
           /\ ExpertPrefixes(adapter, root) = {[root |-> root, kind |-> k, expert |-> i] : k \in kinds, i \in 0..(n - 1)}
           /\ \A p \in ExpertPrefixes(adapter, root) :
                adapter[p] = [f \in {"A", "B"} |->
                  IF p.kind = "down_proj" THEN IF f = "A" THEN <<Rank, inter>> ELSE <<hidden, Rank>>
                  ELSE IF f = "A" THEN <<Rank, hidden>> ELSE <<inter, Rank>>]

\* A satisfiable range is answered with exactly the bytes it names, an
\* unsatisfiable one with 416.
Named(h) ==
  CASE h[1] = "none" -> 0..(Size - 1)
    [] h[1] = "malformed" -> {}
    [] h[1] = "from" -> {i \in 0..(Size - 1) : i >= h[2]}
    [] h[1] = "range" -> {i \in 0..(Size - 1) : h[2] <= i /\ i <= h[3]}
    [] h[1] = "suffix" -> {i \in 0..(Size - 1) : Size - i <= h[2]}
RangesExact ==
  request.at = "answered" /\ request.status # 500 =>
    /\ (request.status = 416) = (Named(request.header) = {})
    /\ request.status # 416 => request.first..request.last = Named(request.header)

\* What a worker keeps of a file lies at its place in the file, and is intact
\* as far as the disk has not failed since the answer's digest check; a file
\* that is complete between two requests is the published one.
DownloadExact ==
  /\ Len(part) = offset /\ offset <= Size
  /\ request.at = "none" /\ offset = Size => part = Intact
  /\ request.etag = "accepted" /\ ~damaged.request => disk = Intact

\* The gate for leases is open, and /ready answers 200, only over a policy whose bytes were intact at
\* the last verification, unless the disk has failed since that began.
GateHonest == published = "active" /\ (LeaseGateOpen \/ Ready) /\ damages > 0 /\ ~damaged.check /\ checking = "idle" => Digest
=============================================================================
