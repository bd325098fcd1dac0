--------------------------- MODULE WorkerPolicies ---------------------------
(***************************************************************************)
(* Policies on one worker: the adapter cache on disk, the adapters loaded  *)
(* into the local vLLM server, and the slots that serve leases with them.  *)
(*                                                                         *)
(* A slot pins its policy in the cache (downloading it if need be), loads  *)
(* it into vLLM, serves, and lets go in the opposite order.  Two asyncio   *)
(* locks serialise this: the capacity lock of the cache and the condition  *)
(* of the runtime.  _make_space runs in a thread, so the event loop drops  *)
(* references and unloads adapters while it looks for something to evict.  *)
(*                                                                         *)
(* Eviction and unloading take the least recently used candidate; the      *)
(* model lets them take any, since no property depends on the order.       *)
(***************************************************************************)
EXTENDS Integers, FiniteSets

CONSTANTS
    Slots,         \* inference slots
    Prefetch,      \* the prefetch loop, which ensures and never pins
    Adapters,      \* policies with an adapter
    Bases,         \* policies without one
    Size,          \* adapter bytes of each adapter
    MaxBytes,      \* adapter_cache_max_bytes
    MaxLoaded,     \* max_loaded_policies
    MaxLeases,     \* bound: leases served and policies prefetched
    MaxCrashes,    \* bound: times the worker process ends
    Nobody         \* who holds a lock that is free, and the policy of an idle task

Tasks == Slots \cup {Prefetch}
Policies == Adapters \cup Bases

\* Assumed of the constants: a policy has an adapter or none, and ensure refuses
\* an adapter beyond adapter_cache_max_bytes.
WorkerAssumption ==
    /\ IsFiniteSet(Slots) /\ IsFiniteSet(Adapters)
    /\ Adapters \cap Bases = {}
    /\ Size \in [Adapters -> Nat \ {0}]
    /\ MaxBytes \in Nat /\ \A p \in Adapters : Size[p] <= MaxBytes
    /\ MaxLoaded \in Nat \ {0}
    /\ MaxLeases \in Nat /\ MaxCrashes \in Nat
    /\ Prefetch \notin Slots /\ Nobody \notin Tasks \cup Policies

VARIABLES
    process,     \* "down", "up", or "refused": start found a torn adapter
    disk,       \* the policy directories of the cache
    pins,       \* AdapterCache._references
    marked,     \* AdapterCache._loaded
    capacity,   \* holder of AdapterCache._capacity_lock
    examined,   \* entries that _make_space has looked at
    loaded,     \* WorkerPolicyRuntime._loaded
    users,      \* WorkerPolicyRuntime._references
    condition,  \* holder of WorkerPolicyRuntime._lock
    vllm,       \* adapters the vLLM server has
    task,       \* where each slot and the prefetch loop are
    leases,
    crashes

cache == <<disk, pins, marked, capacity, examined>>
runtime == <<loaded, users, condition, vllm>>
policyVars == <<process, cache, runtime, task, leases, crashes>>

Idle == [at |-> "idle", policy |-> Nobody]
Position == {"idle", "ensure", "space", "download", "acquire", "room",
             "waiting", "woken", "hold", "serving", "release", "retain"}

PoliciesTypeOK ==
    /\ process \in {"down", "up", "refused"}
    /\ disk \in [Adapters -> {"absent", "whole", "torn"}]
    /\ pins \in [Policies -> 0 .. Cardinality(Slots)]
    /\ users \in [Policies -> 0 .. Cardinality(Slots)]
    /\ marked \subseteq Adapters /\ loaded \subseteq Policies /\ vllm \subseteq Adapters
    /\ examined \subseteq Adapters
    /\ capacity \in Tasks \cup {Nobody}
    /\ condition \in Slots \cup {Nobody}
    /\ task \in [Tasks -> [at: Position, policy: Policies \cup {Nobody}]]
    /\ leases \in 0 .. MaxLeases
    /\ crashes \in 0 .. MaxCrashes

PoliciesInit ==
    /\ process = "down"
    /\ disk \in [Adapters -> {"absent", "whole"}]
    /\ pins = [p \in Policies |-> 0] /\ users = [p \in Policies |-> 0]
    /\ marked = {} /\ loaded = {} /\ vllm = {} /\ examined = {}
    /\ capacity = Nobody /\ condition = Nobody
    /\ task = [t \in Tasks |-> Idle]
    /\ leases = 0 /\ crashes = 0

-----------------------------------------------------------------------------
(* The adapter cache.                                                      *)

OnDisk == {p \in Adapters : disk[p] = "whole"}

\* The sum of the sizes, as the number of bytes that the adapters of S consist of.
Bytes(S) == Cardinality(UNION {{p} \X (1 .. Size[p]) : p \in S})

\* Mutant: an adapter that is loaded but idle may be evicted.
EvictableUnpinned(p) == pins[p] = 0

Evictable(p) == p \notin marked /\ pins[p] = 0

Remove(S) == disk' = [p \in Adapters |-> IF p \in S THEN "absent" ELSE disk[p]]

\* enforce_retention: evict one after another until the budget is kept or
\* nothing evictable is left.
EnforceRetention(evictable) ==
    IF Bytes(OnDisk) <= MaxBytes THEN UNCHANGED disk
    ELSE \E gone \in SUBSET evictable :
            LET rest == Bytes(OnDisk \ gone)
            IN /\ rest <= MaxBytes \/ gone = evictable
               /\ gone # {} => \E last \in gone : rest + Size[last] > MaxBytes
               /\ Remove(gone)

\* AdapterCache.__init__: every directory left by an earlier run is verified;
\* one that is not a whole policy stops the worker.
Start ==
    /\ process = "down"
    /\ IF \E p \in Adapters : disk[p] = "torn"
       THEN process' = "refused" /\ UNCHANGED disk
       ELSE process' = "up" /\ EnforceRetention(OnDisk)
    /\ UNCHANGED <<pins, marked, capacity, examined, runtime, task, leases, crashes>>

At(t, where) == process = "up" /\ task[t].at = where
Goto(t, where) == task' = [task EXCEPT ![t].at = where]

\* The slot got a lease, or the prefetch loop the current policy.
Begin(t, p) ==
    /\ At(t, "idle")
    /\ leases < MaxLeases
    /\ leases' = leases + 1
    /\ task' = [task EXCEPT ![t] = [at |-> "ensure", policy |-> p]]
    /\ UNCHANGED <<process, cache, runtime, crashes>>

\* ensure returned: a slot pins the policy in the same step of the event loop.
Ensured(t) ==
    LET p == task[t].policy
    IN IF t = Prefetch
       THEN task' = [task EXCEPT ![t] = Idle] /\ UNCHANGED pins
       ELSE Goto(t, "acquire") /\ pins' = [pins EXCEPT ![p] = @ + 1]

\* The capacity lock: a cached policy is returned, another needs space.
Ensure(t) ==
    LET p == task[t].policy
    IN /\ At(t, "ensure")
       /\ p \in Adapters => capacity = Nobody
       /\ IF p \in Bases \cup OnDisk
          THEN Ensured(t) /\ UNCHANGED <<capacity, examined>>
          ELSE /\ capacity' = t /\ examined' = {}
               /\ Goto(t, "space")
               /\ UNCHANGED pins
       /\ UNCHANGED <<process, disk, marked, runtime, leases, crashes>>

Fits(t) == Bytes(OnDisk) + Size[task[t].policy] <= MaxBytes

\* _make_space: one entry after another, in a thread.
Examine(t, q) ==
    /\ At(t, "space")
    /\ ~Fits(t)
    /\ q \in OnDisk \ examined
    /\ examined' = examined \cup {q}
    /\ IF Evictable(q) THEN Remove({q}) ELSE UNCHANGED disk
    /\ UNCHANGED <<process, pins, marked, capacity, runtime, task, leases, crashes>>

MakeSpace(t) ==
    /\ At(t, "space")
    /\ Fits(t)
    /\ Goto(t, "download")
    /\ UNCHANGED <<process, cache, runtime, leases, crashes>>

\* The directory is renamed into place.
Publish(p) == disk' = [disk EXCEPT ![p] = "whole"]

\* The files are fetched and verified.
Download(t) ==
    /\ At(t, "download")
    /\ Publish(task[t].policy)
    /\ capacity' = Nobody
    /\ Ensured(t)
    /\ UNCHANGED <<process, marked, examined, runtime, leases, crashes>>

-----------------------------------------------------------------------------
(* The end of the worker process: a crash, a stop, or an exception in a    *)
(* slot, which WorkerDaemon.run passes on.                                 *)

Forget(d) ==
    /\ process' = "down"
    /\ disk' = d
    /\ pins' = [p \in Policies |-> 0] /\ users' = [p \in Policies |-> 0]
    /\ marked' = {} /\ loaded' = {} /\ vllm' = {} /\ examined' = {}
    /\ capacity' = Nobody /\ condition' = Nobody
    /\ task' = [t \in Tasks |-> Idle]
    /\ crashes' = crashes + 1
    /\ UNCHANGED leases

\* Killed at any time, also in the middle of removing a directory.
Crash ==
    /\ process = "up" /\ crashes < MaxCrashes
    /\ \/ Forget(disk)
       \/ \E t \in Tasks, q \in OnDisk :
            /\ At(t, "space") /\ ~Fits(t) /\ Evictable(q) /\ q \notin examined
            /\ Forget([disk EXCEPT ![q] = "torn"])

OutOfSpace(t) == At(t, "space") /\ ~Fits(t) /\ OnDisk \subseteq examined

\* No space, or a failed download.  The prefetch loop logs the error.
EnsureFails(t) ==
    /\ OutOfSpace(t) \/ At(t, "download")
    /\ IF t = Prefetch
       THEN /\ capacity' = Nobody /\ task' = [task EXCEPT ![t] = Idle]
            /\ UNCHANGED <<process, disk, pins, marked, examined, runtime, leases, crashes>>
       ELSE crashes < MaxCrashes /\ Forget(disk)

\* vLLM refuses to load or unload: PolicyRuntimeFatalError.
AdminFails(s) ==
    /\ At(s, "room") /\ crashes < MaxCrashes
    /\ Forget(disk)

-----------------------------------------------------------------------------
(* WorkerPolicyRuntime.acquire.                                            *)

InVLLM == loaded \cap Adapters
Candidates == {p \in InVLLM : users[p] = 0}

Acquire(s) ==
    /\ At(s, "acquire")
    /\ condition = Nobody
    /\ condition' = s
    /\ Goto(s, IF task[s].policy \in Bases \cup loaded THEN "hold" ELSE "room")
    /\ UNCHANGED <<process, cache, loaded, users, vllm, leases, crashes>>

Unload(S) ==
    /\ vllm' = vllm \ S
    /\ marked' = marked \ S
    /\ loaded' = loaded \ S

\* _wait_for_load_capacity: unload an idle policy ...
MakeRoom(s) ==
    /\ At(s, "room")
    /\ Cardinality(InVLLM) >= MaxLoaded
    /\ \E p \in Candidates : Unload({p})
    /\ UNCHANGED <<process, disk, pins, capacity, examined, users, condition, task, leases, crashes>>

\* ... or, if every loaded policy is in use, wait for one to be released.
AwaitRoom(s) ==
    /\ At(s, "room")
    /\ Cardinality(InVLLM) >= MaxLoaded
    /\ Candidates = {}
    /\ condition' = Nobody
    /\ Goto(s, "waiting")
    /\ UNCHANGED <<process, cache, loaded, users, vllm, leases, crashes>>

Reacquire(s) ==
    /\ At(s, "woken")
    /\ condition = Nobody
    /\ condition' = s
    /\ Goto(s, "room")
    /\ UNCHANGED <<process, cache, loaded, users, vllm, leases, crashes>>

\* admin.load and mark_loaded.
Load(s) ==
    LET p == task[s].policy
    IN /\ At(s, "room")
       /\ Cardinality(InVLLM) < MaxLoaded
       /\ vllm' = vllm \cup {p}
       /\ marked' = marked \cup {p}
       /\ Goto(s, "hold")
       /\ UNCHANGED <<process, disk, pins, capacity, examined, loaded, users, condition, leases, crashes>>

\* The reference is taken.  The number of loaded policies is within its limit
\* here, so _enforce_loaded_retention has nothing to unload.
Hold(s) ==
    LET p == task[s].policy
    IN /\ At(s, "hold")
       /\ loaded' = loaded \cup {p}
       /\ users' = [users EXCEPT ![p] = @ + 1]
       /\ condition' = Nobody
       /\ Goto(s, "serving")
       /\ UNCHANGED <<process, cache, vllm, leases, crashes>>

\* The lease ends: stopped, expired or served.
Served(s) ==
    /\ At(s, "serving")
    /\ Goto(s, "release")
    /\ UNCHANGED <<process, cache, runtime, leases, crashes>>

\* Mutant: nobody is told that a reference is gone.
NotifyNobody(s) == task' = [task EXCEPT ![s].at = "retain"]

NotifyAll(s) ==
    task' = [t \in Tasks |->
                IF t = s THEN [task[s] EXCEPT !.at = "retain"]
                ELSE IF task[t].at = "waiting" THEN [task[t] EXCEPT !.at = "woken"]
                ELSE task[t]]

\* Both references are dropped: the runtime's under its condition, the pin
\* right after it.
Release(s) ==
    LET p == task[s].policy
    IN /\ At(s, "release")
       /\ condition = Nobody
       /\ users' = [users EXCEPT ![p] = @ - 1]
       /\ pins' = [pins EXCEPT ![p] = @ - 1]
       /\ NotifyAll(s)
       /\ UNCHANGED <<process, disk, marked, capacity, examined, loaded, condition, vllm, leases, crashes>>

Retain(s) ==
    /\ At(s, "retain")
    /\ capacity = Nobody
    /\ EnforceRetention({p \in OnDisk : Evictable(p)})
    /\ task' = [task EXCEPT ![s] = Idle]
    /\ UNCHANGED <<process, pins, marked, capacity, examined, runtime, leases, crashes>>

-----------------------------------------------------------------------------
CacheStep(t) ==
    Ensure(t) \/ MakeSpace(t) \/ Download(t) \/ \E q \in Adapters : Examine(t, q)

SlotStep(s) ==
    \/ Acquire(s) \/ MakeRoom(s) \/ AwaitRoom(s) \/ Reacquire(s) \/ Load(s)
    \/ Hold(s) \/ Served(s) \/ Release(s) \/ Retain(s)

PoliciesNext ==
    \/ Start \/ Crash
    \/ \E t \in Tasks : CacheStep(t) \/ EnsureFails(t)
    \/ \E t \in Tasks, p \in Policies : Begin(t, p)
    \/ \E s \in Slots : SlotStep(s) \/ AdminFails(s)

\* Slots keep going and leases end: the coordinator stops or expires them.
PoliciesFairness ==
    /\ \A t \in Tasks : WF_policyVars(CacheStep(t))
    /\ \A s \in Slots : WF_policyVars(SlotStep(s))
    /\ WF_policyVars(EnsureFails(Prefetch))

PoliciesSpec == PoliciesInit /\ [][PoliciesNext]_policyVars
FairPoliciesSpec == PoliciesSpec /\ PoliciesFairness

-----------------------------------------------------------------------------
\* A slot serves only from an adapter that vLLM has loaded and whose files are
\* whole in the cache; vLLM has exactly the adapters the worker believes it has.
ServedFromCache ==
    /\ \A s \in Slots : At(s, "serving") /\ task[s].policy \in Adapters
                          => task[s].policy \in vllm \cap OnDisk
    /\ vllm = marked /\ vllm \subseteq OnDisk
    /\ condition = Nobody => vllm = InVLLM

\* The disk budget and max_loaded_policies are never exceeded.
BudgetsKept ==
    /\ process = "up" => Bytes(OnDisk) <= MaxBytes
    /\ Cardinality(vllm) <= MaxLoaded

\* Where a slot holds a reference of the runtime, and where a pin.
Using == {"serving", "release"}
Pinning == {"acquire", "room", "waiting", "woken", "hold"} \cup Using
Holders(p, where) == {s \in Slots : task[s].policy = p /\ task[s].at \in where}

\* Reference counts are exact: what no slot holds can be evicted and unloaded.
ReferencesExact ==
    \A p \in Policies : /\ users[p] = Cardinality(Holders(p, Using))
                        /\ pins[p] = Cardinality(Holders(p, Pinning))

\* If the budget holds max_loaded_policies adapters and one more per slot, a
\* slot never fails for lack of space, whatever is released or unloaded while
\* the thread looks for something to evict.
SpaceSuffices ==
    (\A p \in Adapters : (MaxLoaded + Cardinality(Slots)) * Size[p] <= MaxBytes)
        => \A s \in Slots : ~OutOfSpace(s)

\* Slots serve from adapters that are whole on disk and loaded, within both
\* budgets, with exact reference counts, and never run out of space they
\* were promised.
PoliciesSafe == PoliciesTypeOK /\ ServedFromCache /\ BudgetsKept /\ ReferencesExact /\ SpaceSuffices

\* Slots that wait for each other's policies all get to serve, unless the
\* worker ends: no wake-up is lost and no lock is kept.
SlotsServe ==
    \A s \in Slots : task[s].at = "acquire" ~> (task[s].at = "serving" \/ process # "up")
=============================================================================
