------------------------- MODULE TrainerRanksProofs -------------------------
(***************************************************************************)
(* What the ranks agree on when they train, whoever is late, and that they *)
(* never wait for each other for ever while nobody is, for every number of *)
(* ranks, lives, steps and restarts.                                       *)
(*                                                                         *)
(* The master leads: where it stands says where the others may be, what    *)
(* the store's key holds and which micro-batch files there are.            *)
(***************************************************************************)
EXTENDS TrainerRanks, TLAPS

-----------------------------------------------------------------------------
(* The invariant.                                                          *)

Positions ==
    {"find", "barrier", "adopt", "load", "setup", "pack", "send", "wait", "stepBarrier", "adoptStep", "get",
     "reduce", "broadcast", "publish", "recheck", "checkpoint", "failed"}

Views == [run : Nat, step : Nat, ready : BOOLEAN]
Batches == Nat \X Nat

RanksTypeOK ==
    /\ life \in Nat /\ dir \in {"none", "husk", "invalid", "valid"} /\ exported \in Nat
    /\ view \in [Ranks -> Views] /\ store \in Views
    /\ known \in BOOLEAN /\ carried \in BOOLEAN /\ late \in BOOLEAN /\ received \in Nat
    /\ resets \in [Ranks -> Nat]
    /\ at \in [Ranks -> Positions]
    /\ packing \in [batch : Batches, left : SUBSET Ranks]
    /\ sendStep \in Nat \ {0} /\ recvStep \in [Ranks -> Nat \ {0}]
    /\ files \subseteq Nat \X Ranks \X Batches
    /\ input \in [Ranks -> Batches]
    /\ done \in Nat
    /\ dir # "none" => life # 0

\* Where the master is.
lead == at[Master]
HasRun(r) == view[r].run # 0

\* Where a rank may be until it has found the run, ...
Startup == {"find", "barrier", "adopt", "load", "setup"}
\* ... packs a batch ...
Packing == {"pack", "send", "wait", "stepBarrier"}
\* ... and between the barrier of the step and the gradient.
Stepping == {"adoptStep", "get", "reduce"}
Ending == {"publish", "recheck", "checkpoint"}

\* Where the others may be, given where the master is, even if some are late:
\* nobody passes a barrier of the step, or a gradient, without the master.  A
\* rank that meets the barrier of the step in the other one finds no config.
Places ==
    \A r \in Others :
        /\ lead \in Startup \cup Packing => at[r] \in Startup \cup Packing \cup Stepping
        /\ lead \in Stepping => at[r] \in Stepping \cup {"adopt"}
        /\ lead = "broadcast" => at[r] = "broadcast"
        /\ lead \in Ending => at[r] = "checkpoint"
        /\ lead = "failed" => at[r] = "failed"

\* Where they may be while nobody is late.  Loading a checkpoint is a collective.
Behind == {"adopt", "find"}
Ahead == {"setup", "wait", "stepBarrier"}
Follow ==
    ~late => \A r \in Others :
        /\ lead \in {"find", "adopt"} /\ ~HasRun(Master) => at[r] \in {"find", "barrier", "adopt"}
        /\ lead = "barrier" => at[r] \in {"find", "barrier", "adopt"}
        /\ lead = "barrier" /\ at[r] = "adopt" => store.run = 0
        /\ lead \in {"find", "adopt"} /\ HasRun(Master) =>
             at[r] \in Behind \cup IF done = 0 THEN Ahead ELSE {"load"}
        /\ lead = "load" => done # 0 /\ at[r] \in Behind \cup {"load"}
        /\ lead \in {"setup"} \cup Packing => at[r] \in Ahead \cup IF done = 0 THEN Behind ELSE {}
        /\ lead \in Stepping => at[r] \in Stepping

\* What the store's key holds, and whether it carries a config.
Takeup ==
    /\ lead \in Startup => store = view[Master]
    /\ lead \in {"barrier", "adopt"} => ~known /\ carried = HasRun(Master)
    /\ lead = "find" => known = HasRun(Master)
    /\ lead \in {"load", "setup"} => HasRun(Master)
    /\ lead \notin {"find", "barrier", "adopt", "failed"} => known /\ store.run # 0
    /\ lead \in Stepping \cup {"stepBarrier"} => ~carried

\* Which ranks have taken up the run.
Joined ==
    \A r \in Others :
        /\ HasRun(r) /\ lead # "failed" => store.run # 0
        /\ at[r] \in {"barrier", "adopt"} => ~HasRun(r)
        /\ at[r] \notin {"find", "barrier", "adopt", "failed"} => HasRun(r)

\* ... while nobody is late.
InTime ==
    ~late =>
        /\ lead = "failed" => known
        /\ lead \in {"find", "barrier", "adopt"} /\ ~HasRun(Master) => \A r \in Others : ~HasRun(r)
        /\ lead = "barrier" => \A r \in Others : ~HasRun(r)
        /\ \A r \in Others :
             /\ at[r] = "adopt" /\ store.run # 0 => carried
             /\ lead \notin {"barrier", "failed"} /\ (lead \in {"find", "adopt"} => HasRun(Master)) =>
                  (HasRun(r) <=> at[r] # "adopt")

\* Parameters are initialised once per process.
ResetOnce ==
    /\ resets[Master] = (IF known THEN 1 ELSE 0)
    /\ \A r \in Others : resets[r] = (IF HasRun(r) THEN 1 ELSE 0)

\* What the ranks agree on from the master's write to the gradient.
Agreed ==
    /\ lead \in {"send", "wait"} => HasRun(Master) /\ view[Master].ready
    /\ lead \in Stepping \cup {"stepBarrier", "broadcast"} =>
         store = view[Master] /\ HasRun(Master) /\ view[Master].ready
    /\ lead \in Stepping \cup {"broadcast"} =>
         \A r \in Others : at[r] \in {"get", "reduce", "broadcast"} =>
            view[r].step = store.step /\ view[r].ready = store.ready

\* Every rank counts its steps with the sender.
Counted ==
    /\ lead \in Startup \cup {"pack", "send"} =>
         \A r \in Ranks : recvStep[r] = IF at[r] = "reduce" THEN sendStep + 1 ELSE sendStep
    /\ lead \in {"wait", "stepBarrier"} \cup Stepping =>
         \A r \in Ranks : recvStep[r] = IF at[r] = "reduce" THEN sendStep ELSE sendStep - 1
    /\ lead \in {"broadcast"} \cup Ending => \A r \in Ranks : recvStep[r] = sendStep

FilesOf(step) == {f \in files : f[1] = step}

\* The files of the step: one batch for all, and one file for each rank.
FilesOld == lead = "pack" => \A f \in files : f[1] < sendStep
FilesBeingSent ==
    lead = "send" =>
        /\ \A f \in files : f[1] <= sendStep
        /\ \A f \in FilesOf(sendStep) : f[3] = packing.batch
        /\ \A r \in Ranks \ packing.left : \E f \in FilesOf(sendStep) : f[2] = r
FilesSent ==
    lead \in {"wait", "stepBarrier", "broadcast"} \cup Stepping \cup Ending =>
        /\ \A f \in files : f[1] < sendStep
        /\ \A f, g \in FilesOf(sendStep - 1) : f[3] = g[3]
        /\ \A r \in Ranks : \E f \in FilesOf(sendStep - 1) : f[2] = r
FilesRead ==
    lead \in Stepping \cup {"broadcast"} =>
        \A r \in Ranks : at[r] \in {"reduce", "broadcast"} =>
            \A f \in FilesOf(sendStep - 1) : input[r] = f[3]
FilesMatch == FilesOld /\ FilesBeingSent /\ FilesSent /\ FilesRead

RanksInv ==
    /\ RanksTypeOK /\ Places /\ Follow /\ Takeup /\ Joined /\ InTime
    /\ ResetOnce /\ Agreed /\ Counted /\ FilesMatch

USE DEF Master, Others, lead, HasRun, Startup, Packing, Stepping, Ending, Behind, Ahead, Positions,
   Views, Batches

-----------------------------------------------------------------------------
(* One lemma per action.                                                   *)

\* The coordinator and the operator change the run's directory only.
LEMMA DirectoryKeeps ==
  ASSUME RanksAssumption, RanksInv, CreateRun \/ FixConfig \/ DeleteRun \/ Export
  PROVE  RanksInv'
  <1> USE DEF RanksInv, CreateRun, FixConfig, DeleteRun, Export, rankVars, fileVars
  <1>1. RanksTypeOK' BY DEF RanksTypeOK
  <1>2. (Places /\ Follow /\ Takeup /\ Joined /\ InTime /\ ResetOnce)'
    BY DEF Places, Follow, Takeup, Joined, InTime, ResetOnce, Unexplained
  <1>3. (Agreed /\ Counted /\ FilesMatch)'
    BY DEF Agreed, Counted, FilesMatch, FilesOld, FilesBeingSent, FilesSent, FilesRead, FilesOf
  <1> QED BY <1>1, <1>2, <1>3

\* What discover_runs finds is a view.
LEMMA DiscoveredType == ASSUME RanksAssumption, RanksTypeOK PROVE Discovered \in Views
  BY DEF RanksAssumption, RanksTypeOK, Discovered, NoRun

\* The master writes the key; a rank that has yet to read the last write is late.
LEMMA FindKeeps == ASSUME RanksAssumption, RanksInv, Find PROVE RanksInv'
  <1> USE DEF RanksAssumption, RanksInv, Find, Write, Goto, runVars, rankVars, fileVars
  <1>1. RanksTypeOK' BY DiscoveredType DEF RanksTypeOK
  <1>2. Places' BY DEF Places, RanksTypeOK, Joined, Takeup
  <1>3. Follow' BY DEF Follow, RanksTypeOK, Places, Takeup, Joined, InTime
  <1>4. Takeup' BY DEF Takeup, RanksTypeOK, Agreed
  <1>5. Joined' BY DEF Joined, RanksTypeOK, Places, Takeup, Agreed
  <1>6. InTime' BY DEF InTime, RanksTypeOK, Places, Follow, Takeup, Joined, Agreed
  <1>7. ResetOnce' BY DEF ResetOnce, RanksTypeOK, Takeup, Joined, Agreed
  <1>8. Agreed' BY DEF Agreed, RanksTypeOK, Places, Takeup
  <1>9. Counted' BY DEF Counted, RanksTypeOK, Places
  <1>10. FilesMatch'
    BY DEF FilesMatch, FilesOld, FilesBeingSent, FilesSent, FilesRead, RanksTypeOK, Places, Counted,
       FilesOf
  <1> QED BY <1>1, <1>2, <1>3, <1>4, <1>5, <1>6, <1>7, <1>8, <1>9, <1>10 DEF RanksInv

\* Everyone passes a barrier at once.
LEMMA BarrierKeeps == ASSUME RanksAssumption, RanksInv, Barrier PROVE RanksInv'
  <1> USE DEF RanksAssumption, RanksInv, Barrier, Barriers, Pass, runVars, rankVars, fileVars
  <1>1. RanksTypeOK' BY DEF RanksTypeOK
  <1>2. Places' BY DEF Places, RanksTypeOK, Joined, Takeup
  <1>3. Follow' BY DEF Follow, RanksTypeOK, Places, Takeup, Joined, InTime
  <1>4. Takeup' BY DEF Takeup, RanksTypeOK, Agreed
  <1>5. Joined' BY DEF Joined, RanksTypeOK, Places, Takeup, Agreed
  <1>6. InTime' BY DEF InTime, RanksTypeOK, Places, Follow, Takeup, Joined, Agreed
  <1>7. ResetOnce' BY DEF ResetOnce, RanksTypeOK, Takeup, Joined, Agreed
  <1>8. Agreed' BY DEF Agreed, RanksTypeOK, Places, Takeup
  <1>9. Counted' BY DEF Counted, RanksTypeOK, Places
  <1>10. FilesMatch'
    BY DEF FilesMatch, FilesOld, FilesBeingSent, FilesSent, FilesRead, RanksTypeOK, Places, Counted,
       FilesOf
  <1> QED BY <1>1, <1>2, <1>3, <1>4, <1>5, <1>6, <1>7, <1>8, <1>9, <1>10 DEF RanksInv

LEMMA LoadKeeps == ASSUME RanksAssumption, RanksInv, Load PROVE RanksInv'
  <1> USE DEF RanksAssumption, RanksInv, Load, Pass, runVars, rankVars, fileVars
  <1>1. RanksTypeOK' BY DEF RanksTypeOK
  <1>2. Places' BY DEF Places, RanksTypeOK, Joined, Takeup
  <1>3. Follow' BY DEF Follow, RanksTypeOK, Places, Takeup, Joined, InTime
  <1>4. Takeup' BY DEF Takeup, RanksTypeOK, Agreed
  <1>5. Joined' BY DEF Joined, RanksTypeOK, Places, Takeup, Agreed
  <1>6. InTime' BY DEF InTime, RanksTypeOK, Places, Follow, Takeup, Joined, Agreed
  <1>7. ResetOnce' BY DEF ResetOnce, RanksTypeOK, Takeup, Joined, Agreed
  <1>8. Agreed' BY DEF Agreed, RanksTypeOK, Places, Takeup
  <1>9. Counted' BY DEF Counted, RanksTypeOK, Places
  <1>10. FilesMatch'
    BY DEF FilesMatch, FilesOld, FilesBeingSent, FilesSent, FilesRead, RanksTypeOK, Places, Counted,
       FilesOf
  <1> QED BY <1>1, <1>2, <1>3, <1>4, <1>5, <1>6, <1>7, <1>8, <1>9, <1>10 DEF RanksInv

\* Hooks run when the run is new to the master, which is once.
LEMMA AdoptMasterKeeps == ASSUME RanksAssumption, RanksInv, AdoptMaster PROVE RanksInv'
  <1> USE DEF RanksAssumption, RanksInv, AdoptMaster, Goto, runVars, rankVars, fileVars
  <1>1. RanksTypeOK' BY DEF RanksTypeOK
  <1>2. Places' BY DEF Places, RanksTypeOK, Joined, Takeup
  <1>3. Follow' BY DEF Follow, RanksTypeOK, Places, Takeup, Joined, InTime
  <1>4. Takeup' BY DEF Takeup, RanksTypeOK, Agreed
  <1>5. Joined' BY DEF Joined, RanksTypeOK, Places, Takeup, Agreed
  <1>6. InTime' BY DEF InTime, RanksTypeOK, Places, Follow, Takeup, Joined, Agreed
  <1>7. ResetOnce'
    <2>1. CASE lead = "adopt"
      <3>1. ~known /\ resets[Master] = 0 BY <2>1 DEF Takeup, ResetOnce
      <3>2. resets' = [resets EXCEPT ![Master] = IF HasRun(Master) THEN @ + 1 ELSE @] BY <3>1
      <3>3. resets'[Master] = (IF HasRun(Master) THEN 1 ELSE 0) BY <3>1, <3>2 DEF RanksTypeOK
      <3>4. known' <=> HasRun(Master) OBVIOUS
      <3>5. \A r \in Others : resets'[r] = (IF HasRun(r)' THEN 1 ELSE 0) BY DEF ResetOnce, RanksTypeOK
      <3> QED BY <3>3, <3>4, <3>5 DEF ResetOnce
    <2>2. CASE lead = "adoptStep"
      <3>1. known /\ HasRun(Master) BY <2>2 DEF Takeup, Agreed
      <3>2. known' BY <3>1
      <3>3. resets' = resets
        <4>1. resets' = [resets EXCEPT ![Master] = @] BY <3>1
        <4> QED BY <4>1 DEF RanksTypeOK
      <3>4. resets[Master] = 1 BY <3>1 DEF ResetOnce
      <3> QED BY <3>2, <3>3, <3>4 DEF ResetOnce
    <2> QED BY <2>1, <2>2
  <1>8. Agreed' BY DEF Agreed, RanksTypeOK, Places, Takeup
  <1>9. Counted' BY DEF Counted, RanksTypeOK, Places
  <1>10. FilesMatch'
    BY DEF FilesMatch, FilesOld, FilesBeingSent, FilesSent, FilesRead, RanksTypeOK, Places, Counted,
       FilesOf
  <1> QED BY <1>1, <1>2, <1>3, <1>4, <1>5, <1>6, <1>7, <1>8, <1>9, <1>10 DEF RanksInv

\* A run that comes or goes while the master packs is not yet in the key.
LEMMA DiscoverKeeps == ASSUME RanksAssumption, RanksInv, Discover PROVE RanksInv'
  <1> USE DEF RanksAssumption, RanksInv, Discover, runVars, rankVars, fileVars
  <1>1. RanksTypeOK' BY DiscoveredType DEF RanksTypeOK
  <1>2. Places' BY DEF Places, RanksTypeOK, Joined, Takeup
  <1>3. Follow' BY DEF Follow, RanksTypeOK, Places, Takeup, Joined, InTime
  <1>4. Takeup' BY DEF Takeup, RanksTypeOK, Agreed
  <1>5. Joined' BY DEF Joined, RanksTypeOK, Places, Takeup, Agreed
  <1>6. InTime' BY DEF InTime, RanksTypeOK, Places, Follow, Takeup, Joined, Agreed
  <1>7. ResetOnce' BY DEF ResetOnce, RanksTypeOK, Takeup, Joined, Agreed
  <1>8. Agreed' BY DEF Agreed, RanksTypeOK, Places, Takeup
  <1>9. Counted' BY DEF Counted, RanksTypeOK, Places
  <1>10. FilesMatch'
    BY DEF FilesMatch, FilesOld, FilesBeingSent, FilesSent, FilesRead, RanksTypeOK, Places, Counted,
       FilesOf
  <1> QED BY <1>1, <1>2, <1>3, <1>4, <1>5, <1>6, <1>7, <1>8, <1>9, <1>10 DEF RanksInv

\* The sender's step has no file yet.
LEMMA ReceiveBatchKeeps == ASSUME RanksAssumption, RanksInv, ReceiveBatch PROVE RanksInv'
  <1> USE DEF RanksAssumption, RanksInv, ReceiveBatch, Goto, NextStep, runVars, rankVars, fileVars
  <1>1. RanksTypeOK'
    <2>1. NextStep \in Nat BY DEF RanksTypeOK
    <2>2. view' \in [Ranks -> Views]
      <3>1. view[Master] \in Views BY DEF RanksTypeOK
      <3> DEFINE w == [view[Master] EXCEPT !.ready = TRUE, !.step = view[Master].step + 1]
      <3>2. w \in Views
        <4>1. view[Master].step + 1 \in Nat BY <3>1
        <4> QED BY <3>1, <4>1
      <3>3. view' = [view EXCEPT ![Master] = w] OBVIOUS
      <3> HIDE DEF w, Views
      <3> QED BY <3>2, <3>3 DEF RanksTypeOK
    <2>3. packing' \in [batch : Batches, left : SUBSET Ranks] BY <2>1 DEF RanksTypeOK
    <2>4. at' \in [Ranks -> Positions] BY DEF RanksTypeOK
    <2>5. received' \in Nat BY <2>1 DEF RanksTypeOK
    <2> QED BY <2>2, <2>3, <2>4, <2>5 DEF RanksTypeOK
  <1>2. Places' BY DEF Places, RanksTypeOK, Joined, Takeup
  <1>3. Follow' BY DEF Follow, RanksTypeOK, Places, Takeup, Joined, InTime
  <1>4. Takeup' BY DEF Takeup, RanksTypeOK, Agreed
  <1>5. Joined' BY DEF Joined, RanksTypeOK, Places, Takeup, Agreed
  <1>6. InTime' BY DEF InTime, RanksTypeOK, Places, Follow, Takeup, Joined, Agreed
  <1>7. ResetOnce' BY DEF ResetOnce, RanksTypeOK, Takeup, Joined, Agreed
  <1>8. Agreed' BY DEF Agreed, RanksTypeOK, Places, Takeup
  <1>9. Counted' BY DEF Counted, RanksTypeOK, Places
  <1>10. FilesMatch'
    BY DEF FilesMatch, FilesOld, FilesBeingSent, FilesSent, FilesRead, RanksTypeOK, Places, Counted,
       FilesOf
  <1> QED BY <1>1, <1>2, <1>3, <1>4, <1>5, <1>6, <1>7, <1>8, <1>9, <1>10 DEF RanksInv

\* Every rank has its file before the master waits.
LEMMA SentKeeps == ASSUME RanksAssumption, RanksInv, Sent PROVE RanksInv'
  <1> USE DEF RanksAssumption, RanksInv, Sent, Goto, Idle, NoBatch, runVars, rankVars, fileVars
  <1>1. RanksTypeOK' BY DEF RanksTypeOK
  <1>2. Places' BY DEF Places, RanksTypeOK, Joined, Takeup
  <1>3. Follow' BY DEF Follow, RanksTypeOK, Places, Takeup, Joined, InTime
  <1>4. Takeup' BY DEF Takeup, RanksTypeOK, Agreed
  <1>5. Joined' BY DEF Joined, RanksTypeOK, Places, Takeup, Agreed
  <1>6. InTime' BY DEF InTime, RanksTypeOK, Places, Follow, Takeup, Joined, Agreed
  <1>7. ResetOnce' BY DEF ResetOnce, RanksTypeOK, Takeup, Joined, Agreed
  <1>8. Agreed' BY DEF Agreed, RanksTypeOK, Places, Takeup
  <1>9. Counted' BY DEF Counted, RanksTypeOK, Places
  <1>10. FilesMatch'
    <2>1. lead = "send" /\ lead' = "wait" /\ sendStep' - 1 = sendStep BY DEF RanksTypeOK
    <2>2. /\ \A f \in files : f[1] <= sendStep
          /\ \A f \in FilesOf(sendStep) : f[3] = packing.batch
          /\ \A r \in Ranks : \E f \in FilesOf(sendStep) : f[2] = r
      BY <2>1 DEF FilesMatch, FilesBeingSent
    <2>3. \A f \in files : f[1] < sendStep' BY <2>2 DEF RanksTypeOK
    <2>4. FilesOf(sendStep - 1)' = FilesOf(sendStep) BY <2>1 DEF FilesOf
    <2>5. FilesSent' BY <2>2, <2>3, <2>4 DEF FilesSent
    <2> QED BY <2>1, <2>5 DEF FilesMatch, FilesOld, FilesBeingSent, FilesRead
  <1> QED BY <1>1, <1>2, <1>3, <1>4, <1>5, <1>6, <1>7, <1>8, <1>9, <1>10 DEF RanksInv

\* Collectives of the step.
LEMMA TrainKeeps == ASSUME RanksAssumption, RanksInv, Train PROVE RanksInv'
  <1> USE DEF RanksAssumption, RanksInv, Train, Pass, runVars, rankVars, fileVars
  <1>1. RanksTypeOK' BY DEF RanksTypeOK
  <1>2. Places' BY DEF Places, RanksTypeOK, Joined, Takeup
  <1>3. Follow' BY DEF Follow, RanksTypeOK, Places, Takeup, Joined, InTime
  <1>4. Takeup' BY DEF Takeup, RanksTypeOK, Agreed
  <1>5. Joined' BY DEF Joined, RanksTypeOK, Places, Takeup, Agreed
  <1>6. InTime' BY DEF InTime, RanksTypeOK, Places, Follow, Takeup, Joined, Agreed
  <1>7. ResetOnce' BY DEF ResetOnce, RanksTypeOK, Takeup, Joined, Agreed
  <1>8. Agreed' BY DEF Agreed, RanksTypeOK, Places, Takeup
  <1>9. Counted' BY DEF Counted, RanksTypeOK, Places
  <1>10. FilesMatch'
    BY DEF FilesMatch, FilesOld, FilesBeingSent, FilesSent, FilesRead, RanksTypeOK, Places, Counted,
       FilesOf
  <1> QED BY <1>1, <1>2, <1>3, <1>4, <1>5, <1>6, <1>7, <1>8, <1>9, <1>10 DEF RanksInv

LEMMA GatherKeeps == ASSUME RanksAssumption, RanksInv, Gather PROVE RanksInv'
  <1> USE DEF RanksAssumption, RanksInv, Gather, Pass, runVars, rankVars, fileVars
  <1>1. RanksTypeOK' BY DEF RanksTypeOK
  <1>2. Places' BY DEF Places, RanksTypeOK, Joined, Takeup
  <1>3. Follow' BY DEF Follow, RanksTypeOK, Places, Takeup, Joined, InTime
  <1>4. Takeup' BY DEF Takeup, RanksTypeOK, Agreed
  <1>5. Joined' BY DEF Joined, RanksTypeOK, Places, Takeup, Agreed
  <1>6. InTime' BY DEF InTime, RanksTypeOK, Places, Follow, Takeup, Joined, Agreed
  <1>7. ResetOnce' BY DEF ResetOnce, RanksTypeOK, Takeup, Joined, Agreed
  <1>8. Agreed' BY DEF Agreed, RanksTypeOK, Places, Takeup
  <1>9. Counted' BY DEF Counted, RanksTypeOK, Places
  <1>10. FilesMatch'
    BY DEF FilesMatch, FilesOld, FilesBeingSent, FilesSent, FilesRead, RanksTypeOK, Places, Counted,
       FilesOf
  <1> QED BY <1>1, <1>2, <1>3, <1>4, <1>5, <1>6, <1>7, <1>8, <1>9, <1>10 DEF RanksInv

\* The others wait at the checkpoint while the master writes the weights.
LEMMA PublishKeeps == ASSUME RanksAssumption, RanksInv, Publish PROVE RanksInv'
  <1> USE DEF RanksAssumption, RanksInv, Publish, Goto, runVars, rankVars, fileVars
  <1>1. RanksTypeOK'
    <2>1. view' \in [Ranks -> Views]
      <3>1. view' = [view EXCEPT ![Master].ready = FALSE] \/ view' = view OBVIOUS
      <3>2. view[Master] \in Views BY DEF RanksTypeOK, RanksAssumption
      <3>3. [view[Master] EXCEPT !.ready = FALSE] \in Views BY <3>2
      <3>4. view' = [view EXCEPT ![Master] = [view[Master] EXCEPT !.ready = FALSE]] \/ view' = view
        BY <3>1
      <3> HIDE DEF Views
      <3> QED BY <3>3, <3>4 DEF RanksTypeOK
    <2>2. at' \in [Ranks -> Positions] BY DEF RanksTypeOK
    <2>3. dir' \in {"none", "husk", "invalid", "valid"} /\ (dir' # "none" => life' # 0)
      BY DEF RanksTypeOK
    <2> QED BY <2>1, <2>2, <2>3 DEF RanksTypeOK
  <1>2. Places' BY DEF Places, RanksTypeOK, Joined, Takeup
  <1>3. Follow' BY DEF Follow, RanksTypeOK, Places, Takeup, Joined, InTime
  <1>4. Takeup' BY DEF Takeup, RanksTypeOK, Agreed
  <1>5. Joined' BY DEF Joined, RanksTypeOK, Places, Takeup, Agreed
  <1>6. InTime' BY DEF InTime, RanksTypeOK, Places, Follow, Takeup, Joined, Agreed
  <1>7. ResetOnce' BY DEF ResetOnce, RanksTypeOK, Takeup, Joined, Agreed
  <1>8. Agreed' BY DEF Agreed, RanksTypeOK, Places, Takeup
  <1>9. Counted' BY DEF Counted, RanksTypeOK, Places
  <1>10. FilesMatch'
    BY DEF FilesMatch, FilesOld, FilesBeingSent, FilesSent, FilesRead, RanksTypeOK, Places, Counted,
       FilesOf
  <1> QED BY <1>1, <1>2, <1>3, <1>4, <1>5, <1>6, <1>7, <1>8, <1>9, <1>10 DEF RanksInv

LEMMA RecheckKeeps == ASSUME RanksAssumption, RanksInv, Recheck PROVE RanksInv'
  <1> USE DEF RanksAssumption, RanksInv, Recheck, Goto, runVars, rankVars, fileVars
  <1>1. RanksTypeOK' BY DEF RanksTypeOK
  <1>2. Places' BY DEF Places, RanksTypeOK, Joined, Takeup
  <1>3. Follow' BY DEF Follow, RanksTypeOK, Places, Takeup, Joined, InTime
  <1>4. Takeup' BY DEF Takeup, RanksTypeOK, Agreed
  <1>5. Joined' BY DEF Joined, RanksTypeOK, Places, Takeup, Agreed
  <1>6. InTime' BY DEF InTime, RanksTypeOK, Places, Follow, Takeup, Joined, Agreed
  <1>7. ResetOnce' BY DEF ResetOnce, RanksTypeOK, Takeup, Joined, Agreed
  <1>8. Agreed' BY DEF Agreed, RanksTypeOK, Places, Takeup
  <1>9. Counted' BY DEF Counted, RanksTypeOK, Places
  <1>10. FilesMatch'
    BY DEF FilesMatch, FilesOld, FilesBeingSent, FilesSent, FilesRead, RanksTypeOK, Places, Counted,
       FilesOf
  <1> QED BY <1>1, <1>2, <1>3, <1>4, <1>5, <1>6, <1>7, <1>8, <1>9, <1>10 DEF RanksInv

LEMMA RecheckFailsKeeps == ASSUME RanksAssumption, RanksInv, RecheckFails PROVE RanksInv'
  <1> USE DEF RanksAssumption, RanksInv, RecheckFails, runVars, rankVars, fileVars
  <1>1. RanksTypeOK' BY DEF RanksTypeOK
  <1>2. Places' BY DEF Places, RanksTypeOK, Joined, Takeup
  <1>3. Follow' BY DEF Follow, RanksTypeOK, Places, Takeup, Joined, InTime
  <1>4. Takeup' BY DEF Takeup, RanksTypeOK, Agreed
  <1>5. Joined' BY DEF Joined, RanksTypeOK, Places, Takeup, Agreed
  <1>6. InTime' BY DEF InTime, RanksTypeOK, Places, Follow, Takeup, Joined, Agreed
  <1>7. ResetOnce' BY DEF ResetOnce, RanksTypeOK, Takeup, Joined, Agreed
  <1>8. Agreed' BY DEF Agreed, RanksTypeOK, Places, Takeup
  <1>9. Counted' BY DEF Counted, RanksTypeOK, Places
  <1>10. FilesMatch'
    BY DEF FilesMatch, FilesOld, FilesBeingSent, FilesSent, FilesRead, RanksTypeOK, Places, Counted,
       FilesOf
  <1> QED BY <1>1, <1>2, <1>3, <1>4, <1>5, <1>6, <1>7, <1>8, <1>9, <1>10 DEF RanksInv

\* The step counters agree when a step ends.
LEMMA CheckpointKeeps == ASSUME RanksAssumption, RanksInv, Checkpoint PROVE RanksInv'
  <1> USE DEF RanksAssumption, RanksInv, Checkpoint, runVars, rankVars, fileVars
  <1>1. RanksTypeOK'
    <2>1. done' \in Nat BY DEF RanksTypeOK
    <2>2. at' \in [Ranks -> Positions] OBVIOUS
    <2> QED BY <2>1, <2>2 DEF RanksTypeOK
  <1>2. Places' BY DEF Places, RanksTypeOK, Joined, Takeup
  <1>3. Follow' BY DEF Follow, RanksTypeOK, Places, Takeup, Joined, InTime
  <1>4. Takeup' BY DEF Takeup, RanksTypeOK, Agreed
  <1>5. Joined' BY DEF Joined, RanksTypeOK, Places, Takeup, Agreed
  <1>6. InTime' BY DEF InTime, RanksTypeOK, Places, Follow, Takeup, Joined, Agreed
  <1>7. ResetOnce' BY DEF ResetOnce, RanksTypeOK, Takeup, Joined, Agreed
  <1>8. Agreed' BY DEF Agreed, RanksTypeOK, Places, Takeup
  <1>9. Counted' BY DEF Counted, RanksTypeOK, Places
  <1>10. FilesMatch'
    BY DEF FilesMatch, FilesOld, FilesBeingSent, FilesSent, FilesRead, RanksTypeOK, Places, Counted,
       FilesOf
  <1> QED BY <1>1, <1>2, <1>3, <1>4, <1>5, <1>6, <1>7, <1>8, <1>9, <1>10 DEF RanksInv

\* A restart forgets everything but the files, which are old then.
LEMMA CrashKeeps == ASSUME RanksAssumption, RanksInv, Crash PROVE RanksInv'
  <1> USE DEF RanksAssumption, RanksInv, Crash, Fresh, NoRun, Idle, NoBatch, runVars, rankVars, fileVars
  <1>1. RanksTypeOK'
    <2>1. view' \in [Ranks -> Views] /\ store' \in Views OBVIOUS
    <2>2. at' \in [Ranks -> Positions] /\ resets' \in [Ranks -> Nat] OBVIOUS
    <2>3. sendStep' \in Nat \ {0} /\ recvStep' \in [Ranks -> Nat \ {0}] BY DEF RanksTypeOK
    <2>4. packing' \in [batch : Batches, left : SUBSET Ranks] /\ input' \in [Ranks -> Batches] OBVIOUS
    <2>5. dir' \in {"none", "husk", "invalid", "valid"} /\ (dir' # "none" => life' # 0)
      BY DEF RanksTypeOK
    <2>6. known' \in BOOLEAN OBVIOUS
    <2>7. received' \in Nat OBVIOUS
    <2> QED BY <2>1, <2>2, <2>3, <2>4, <2>5, <2>6, <2>7 DEF RanksTypeOK
  <1>2. Places' BY DEF Places, RanksTypeOK, Joined, Takeup
  <1>3. Follow' BY DEF Follow, RanksTypeOK, Places, Takeup, Joined, InTime
  <1>4. Takeup' BY DEF Takeup, RanksTypeOK, Agreed
  <1>5. Joined' BY DEF Joined, RanksTypeOK, Places, Takeup, Agreed
  <1>6. InTime' BY DEF InTime, RanksTypeOK, Places, Follow, Takeup, Joined, Agreed
  <1>7. ResetOnce' BY DEF ResetOnce, RanksTypeOK, Takeup, Joined, Agreed
  <1>8. Agreed' BY DEF Agreed, RanksTypeOK, Places, Takeup
  <1>9. Counted' BY DEF Counted, RanksTypeOK, Places
  <1>10. FilesMatch'
    BY DEF FilesMatch, FilesOld, FilesBeingSent, FilesSent, FilesRead, RanksTypeOK, Places, Counted,
       FilesOf
  <1> QED BY <1>1, <1>2, <1>3, <1>4, <1>5, <1>6, <1>7, <1>8, <1>9, <1>10 DEF RanksInv

\* What another rank does.
LEMMA FindOtherKeeps ==
  ASSUME RanksAssumption, RanksInv, NEW r \in Ranks, FindOther(r)
  PROVE  RanksInv'
  <1> USE DEF RanksAssumption, RanksInv, FindOther, Goto, runVars, rankVars, fileVars
  <1>1. RanksTypeOK' BY DEF RanksTypeOK
  <1>2. Places' BY DEF Places, RanksTypeOK, Joined, Takeup
  <1>3. Follow' BY DEF Follow, RanksTypeOK, Places, Takeup, Joined, InTime
  <1>4. Takeup' BY DEF Takeup, RanksTypeOK, Agreed
  <1>5. Joined' BY DEF Joined, RanksTypeOK, Places, Takeup, Agreed
  <1>6. InTime' BY DEF InTime, RanksTypeOK, Places, Follow, Takeup, Joined, Agreed
  <1>7. ResetOnce' BY DEF ResetOnce, RanksTypeOK, Takeup, Joined, Agreed
  <1>8. Agreed' BY DEF Agreed, RanksTypeOK, Places, Takeup
  <1>9. Counted' BY DEF Counted, RanksTypeOK, Places
  <1>10. FilesMatch'
    BY DEF FilesMatch, FilesOld, FilesBeingSent, FilesSent, FilesRead, RanksTypeOK, Places, Counted,
       FilesOf
  <1> QED BY <1>1, <1>2, <1>3, <1>4, <1>5, <1>6, <1>7, <1>8, <1>9, <1>10 DEF RanksInv

\* A rank that has found the run loads the checkpoint, if there is one.
LEMMA FoundKeeps ==
  ASSUME RanksAssumption, RanksInv, NEW r \in Ranks, Found(r)
  PROVE  RanksInv'
  <1> USE DEF RanksAssumption, RanksInv, Found, Goto, runVars, rankVars, fileVars
  <1>1. RanksTypeOK' BY DEF RanksTypeOK
  <1>2. Places' BY DEF Places, RanksTypeOK, Joined, Takeup
  <1>3. Follow' BY DEF Follow, RanksTypeOK, Places, Takeup, Joined, InTime
  <1>4. Takeup' BY DEF Takeup, RanksTypeOK, Agreed
  <1>5. Joined' BY DEF Joined, RanksTypeOK, Places, Takeup, Agreed
  <1>6. InTime' BY DEF InTime, RanksTypeOK, Places, Follow, Takeup, Joined, Agreed
  <1>7. ResetOnce' BY DEF ResetOnce, RanksTypeOK, Takeup, Joined, Agreed
  <1>8. Agreed' BY DEF Agreed, RanksTypeOK, Places, Takeup
  <1>9. Counted' BY DEF Counted, RanksTypeOK, Places
  <1>10. FilesMatch'
    BY DEF FilesMatch, FilesOld, FilesBeingSent, FilesSent, FilesRead, RanksTypeOK, Places, Counted,
       FilesOf
  <1> QED BY <1>1, <1>2, <1>3, <1>4, <1>5, <1>6, <1>7, <1>8, <1>9, <1>10 DEF RanksInv

\* Old files are gone before the master packs.
LEMMA SetupKeeps ==
  ASSUME RanksAssumption, RanksInv, NEW r \in Ranks, Setup(r)
  PROVE  RanksInv'
  <1> USE DEF RanksAssumption, RanksInv, Setup, Goto, runVars, rankVars, fileVars
  <1>1. RanksTypeOK' BY DEF RanksTypeOK
  <1>2. Places' BY DEF Places, RanksTypeOK, Joined, Takeup
  <1>3. Follow' BY DEF Follow, RanksTypeOK, Places, Takeup, Joined, InTime
  <1>4. Takeup' BY DEF Takeup, RanksTypeOK, Agreed
  <1>5. Joined' BY DEF Joined, RanksTypeOK, Places, Takeup, Agreed
  <1>6. InTime' BY DEF InTime, RanksTypeOK, Places, Follow, Takeup, Joined, Agreed
  <1>7. ResetOnce' BY DEF ResetOnce, RanksTypeOK, Takeup, Joined, Agreed
  <1>8. Agreed' BY DEF Agreed, RanksTypeOK, Places, Takeup
  <1>9. Counted' BY DEF Counted, RanksTypeOK, Places
  <1>10. FilesMatch'
    BY DEF FilesMatch, FilesOld, FilesBeingSent, FilesSent, FilesRead, RanksTypeOK, Places, Counted,
       FilesOf
  <1> QED BY <1>1, <1>2, <1>3, <1>4, <1>5, <1>6, <1>7, <1>8, <1>9, <1>10 DEF RanksInv

\* A rank that was behind learns of a run that the master has.
LEMMA AdoptOtherKeeps ==
  ASSUME RanksAssumption, RanksInv, NEW r \in Ranks, AdoptOther(r)
  PROVE  RanksInv'
  <1> USE DEF RanksAssumption, RanksInv, AdoptOther, Goto, Adopted, Unexplained, runVars, rankVars, fileVars
  <1>1. RanksTypeOK' BY DEF RanksTypeOK
  <1>2. Places' BY DEF Places, RanksTypeOK, Joined, Takeup
  <1>3. Follow' BY DEF Follow, RanksTypeOK, Places, Takeup, Joined, InTime
  <1>4. Takeup' BY DEF Takeup, RanksTypeOK, Agreed
  <1>5. Joined' BY DEF Joined, RanksTypeOK, Places, Takeup, Agreed
  <1>6. InTime' BY DEF InTime, RanksTypeOK, Places, Follow, Takeup, Joined, Agreed
  <1>7. ResetOnce'
    <2>1. resets[r] = (IF HasRun(r) THEN 1 ELSE 0) BY DEF ResetOnce
    <2>2. lead # "failed" BY DEF Places
    <2>3. HasRun(r) => store.run # 0 BY <2>2 DEF Joined
    <2>4. resets'[r] = (IF HasRun(r)' THEN 1 ELSE 0) BY <2>1, <2>3 DEF RanksTypeOK
    <2>5. \A q \in Ranks \ {r} : resets'[q] = resets[q] /\ view'[q] = view[q] BY DEF RanksTypeOK
    <2> QED BY <2>4, <2>5 DEF ResetOnce
  <1>8. Agreed' BY DEF Agreed, RanksTypeOK, Places, Takeup
  <1>9. Counted' BY DEF Counted, RanksTypeOK, Places
  <1>10. FilesMatch'
    BY DEF FilesMatch, FilesOld, FilesBeingSent, FilesSent, FilesRead, RanksTypeOK, Places, Counted,
       FilesOf
  <1> QED BY <1>1, <1>2, <1>3, <1>4, <1>5, <1>6, <1>7, <1>8, <1>9, <1>10 DEF RanksInv

\* A run without a config ends the trainer, which only happens to a rank that is late.
LEMMA AdoptFailsKeeps ==
  ASSUME RanksAssumption, RanksInv, NEW r \in Ranks, AdoptFails(r)
  PROVE  RanksInv'
  <1> USE DEF RanksAssumption, RanksInv, AdoptFails, Unexplained, runVars, rankVars, fileVars
  <1>1. RanksTypeOK' BY DEF RanksTypeOK
  <1>2. Places' BY DEF Places, RanksTypeOK, Joined, Takeup
  <1>3. Follow' BY DEF Follow, RanksTypeOK, Places, Takeup, Joined, InTime
  <1>4. Takeup' BY DEF Takeup, RanksTypeOK, Agreed
  <1>5. Joined' BY DEF Joined, RanksTypeOK, Places, Takeup, Agreed
  <1>6. InTime' BY DEF InTime, RanksTypeOK, Places, Follow, Takeup, Joined, Agreed
  <1>7. ResetOnce' BY DEF ResetOnce, RanksTypeOK, Takeup, Joined, Agreed
  <1>8. Agreed' BY DEF Agreed, RanksTypeOK, Places, Takeup
  <1>9. Counted' BY DEF Counted, RanksTypeOK, Places
  <1>10. FilesMatch'
    BY DEF FilesMatch, FilesOld, FilesBeingSent, FilesSent, FilesRead, RanksTypeOK, Places, Counted,
       FilesOf
  <1> QED BY <1>1, <1>2, <1>3, <1>4, <1>5, <1>6, <1>7, <1>8, <1>9, <1>10 DEF RanksInv

\* A file of the step carries the batch of the step.
LEMMA SendFileKeeps ==
  ASSUME RanksAssumption, RanksInv, NEW r \in Ranks, SendFile(r)
  PROVE  RanksInv'
  <1> USE DEF RanksAssumption, RanksInv, SendFile, runVars, rankVars, fileVars
  <1>1. RanksTypeOK' BY DEF RanksTypeOK
  <1>2. Places' BY DEF Places, RanksTypeOK, Joined, Takeup
  <1>3. Follow' BY DEF Follow, RanksTypeOK, Places, Takeup, Joined, InTime
  <1>4. Takeup' BY DEF Takeup, RanksTypeOK, Agreed
  <1>5. Joined' BY DEF Joined, RanksTypeOK, Places, Takeup, Agreed
  <1>6. InTime' BY DEF InTime, RanksTypeOK, Places, Follow, Takeup, Joined, Agreed
  <1>7. ResetOnce' BY DEF ResetOnce, RanksTypeOK, Takeup, Joined, Agreed
  <1>8. Agreed' BY DEF Agreed, RanksTypeOK, Places, Takeup
  <1>9. Counted' BY DEF Counted, RanksTypeOK, Places
  <1>10. FilesMatch'
    <2>0. lead = "send" /\ lead' = "send" OBVIOUS
    <2>1. sendStep \in Nat /\ \A f \in files : f[1] \in Nat BY DEF RanksTypeOK
    <2>2. <<sendStep, r, packing.batch>> \in files' OBVIOUS
    <2>3. \A f \in files' : f[1] <= sendStep BY <2>0, <2>1 DEF FilesMatch, FilesBeingSent
    <2>4. \A f \in FilesOf(sendStep)' : f[3] = packing'.batch
      BY <2>0, <2>1 DEF FilesMatch, FilesBeingSent, FilesOf, RanksTypeOK
    <2>5. \A q \in Ranks \ packing'.left : \E f \in FilesOf(sendStep)' : f[2] = q
      <3>1. TAKE q \in Ranks \ packing'.left
      <3>2. CASE q = r
        <4>1. <<sendStep, r, packing.batch>> \in FilesOf(sendStep)' BY <2>2 DEF FilesOf
        <4> QED BY <3>2, <4>1
      <3>3. CASE q # r
        <4>1. q \in Ranks \ packing.left BY <3>3 DEF RanksTypeOK
        <4>2. PICK f \in FilesOf(sendStep) : f[2] = q BY <2>0, <4>1 DEF FilesMatch, FilesBeingSent
        <4> QED BY <3>3, <4>2 DEF FilesOf
      <3> QED BY <3>2, <3>3
    <2> QED
      BY <2>0, <2>3, <2>4, <2>5 DEF FilesMatch, FilesOld, FilesBeingSent, FilesSent, FilesRead, FilesOf
  <1> QED BY <1>1, <1>2, <1>3, <1>4, <1>5, <1>6, <1>7, <1>8, <1>9, <1>10 DEF RanksInv

\* An old file may let a rank pass early, but not past the barrier.
LEMMA WaitKeeps == ASSUME RanksAssumption, RanksInv, NEW r \in Ranks, Wait(r) PROVE RanksInv'
  <1> USE DEF RanksAssumption, RanksInv, Wait, Write, Goto, runVars, rankVars, fileVars
  <1>1. RanksTypeOK'
    <2>1. store' \in Views /\ carried' \in BOOLEAN /\ late' \in BOOLEAN
      <3>1. view[Master] \in Views BY DEF RanksTypeOK
      <3> HIDE DEF Views
      <3>2. CASE r = Master BY <3>1, <3>2 DEF RanksTypeOK
      <3>3. CASE r # Master BY <3>3 DEF RanksTypeOK
      <3> QED BY <3>2, <3>3
    <2>2. at' \in [Ranks -> Positions] BY DEF RanksTypeOK
    <2> QED BY <2>1, <2>2 DEF RanksTypeOK
  <1>2. Places' BY DEF Places, RanksTypeOK, Joined, Takeup
  <1>3. Follow' BY DEF Follow, RanksTypeOK, Places, Takeup, Joined, InTime
  <1>4. Takeup' BY DEF Takeup, RanksTypeOK, Agreed
  <1>5. Joined' BY DEF Joined, RanksTypeOK, Places, Takeup, Agreed
  <1>6. InTime' BY DEF InTime, RanksTypeOK, Places, Follow, Takeup, Joined, Agreed
  <1>7. ResetOnce' BY DEF ResetOnce, RanksTypeOK, Takeup, Joined, Agreed
  <1>8. Agreed' BY DEF Agreed, RanksTypeOK, Places, Takeup
  <1>9. Counted' BY DEF Counted, RanksTypeOK, Places
  <1>10. FilesMatch'
    BY DEF FilesMatch, FilesOld, FilesBeingSent, FilesSent, FilesRead, RanksTypeOK, Places, Counted,
       FilesOf
  <1> QED BY <1>1, <1>2, <1>3, <1>4, <1>5, <1>6, <1>7, <1>8, <1>9, <1>10 DEF RanksInv

\* A rank reads the file of the step, since no other of that name is left.
LEMMA GetKeeps == ASSUME RanksAssumption, RanksInv, NEW r \in Ranks, Get(r) PROVE RanksInv'
  <1> USE DEF RanksAssumption, RanksInv, Get, Goto, runVars, rankVars, fileVars
  <1>1. RanksTypeOK' BY DEF RanksTypeOK
  <1>2. Places' BY DEF Places, RanksTypeOK, Joined, Takeup
  <1>3. Follow' BY DEF Follow, RanksTypeOK, Places, Takeup, Joined, InTime
  <1>4. Takeup' BY DEF Takeup, RanksTypeOK, Agreed
  <1>5. Joined' BY DEF Joined, RanksTypeOK, Places, Takeup, Agreed
  <1>6. InTime' BY DEF InTime, RanksTypeOK, Places, Follow, Takeup, Joined, Agreed
  <1>7. ResetOnce' BY DEF ResetOnce, RanksTypeOK, Takeup, Joined, Agreed
  <1>8. Agreed' BY DEF Agreed, RanksTypeOK, Places, Takeup
  <1>9. Counted' BY DEF Counted, RanksTypeOK, Places
  <1>10. FilesMatch'
    BY DEF FilesMatch, FilesOld, FilesBeingSent, FilesSent, FilesRead, RanksTypeOK, Places, Counted,
       FilesOf
  <1> QED BY <1>1, <1>2, <1>3, <1>4, <1>5, <1>6, <1>7, <1>8, <1>9, <1>10 DEF RanksInv

\* The initial states satisfy the invariant.
LEMMA InitRanks == ASSUME RanksAssumption, Init PROVE RanksInv
  <1> USE DEF RanksAssumption, Init, NoRun, NoBatch, Idle
  <1>1. RanksTypeOK
    <2>1. view \in [Ranks -> Views] /\ store \in Views OBVIOUS
    <2>2. at \in [Ranks -> Positions] /\ resets \in [Ranks -> Nat] /\ recvStep \in [Ranks -> Nat \ {0}] OBVIOUS
    <2>3. packing \in [batch : Batches, left : SUBSET Ranks] /\ input \in [Ranks -> Batches] OBVIOUS
    <2>4. known \in BOOLEAN OBVIOUS
    <2> QED BY <2>1, <2>2, <2>3, <2>4 DEF RanksTypeOK
  <1>2. Places /\ Follow /\ Takeup /\ Joined /\ InTime /\ ResetOnce
    BY DEF Places, Follow, Takeup, Joined, InTime, ResetOnce, Unexplained
  <1>3. Agreed /\ Counted /\ FilesMatch
    BY DEF Agreed, Counted, FilesMatch, FilesOld, FilesBeingSent, FilesSent, FilesRead
  <1> QED BY <1>1, <1>2, <1>3 DEF RanksInv

\* Nothing changes when nothing happens.
LEMMA StutterRanks == ASSUME RanksInv, UNCHANGED ranksVars PROVE RanksInv'
  <1> USE DEF RanksInv, ranksVars, runVars, rankVars, fileVars
  <1>1. RanksTypeOK' BY DEF RanksTypeOK
  <1>2. (Places /\ Follow /\ Takeup /\ Joined /\ InTime /\ ResetOnce)'
    BY DEF Places, Follow, Takeup, Joined, InTime, ResetOnce, Unexplained
  <1>3. (Agreed /\ Counted /\ FilesMatch)'
    BY DEF Agreed, Counted, FilesMatch, FilesOld, FilesBeingSent, FilesSent, FilesRead, FilesOf
  <1> QED BY <1>1, <1>2, <1>3

-----------------------------------------------------------------------------
\* When all ranks wait and nobody is late, the master's place decides where
\* the others are.
LEMMA InvNoDeadlock == ASSUME RanksAssumption, RanksInv, ~late PROVE CollectivesMatch
  <1> SUFFICES ASSUME \A r \in Ranks : Blocked(r)
               PROVE  \E c \in Collectives : \A r \in Ranks : at[r] \in c
    BY DEF CollectivesMatch
  <1>0. \A r \in Ranks : at[r] \in Positions BY DEF RanksInv, RanksTypeOK
  <1>lead. Master \in Ranks /\ Blocked(Master) BY DEF RanksAssumption
  <1>1. lead # "wait" /\ \A r \in Others : lead = "stepBarrier" => at[r] # "wait"
    BY <1>lead DEF RanksAssumption, RanksInv, Counted, FilesMatch, FilesSent, FilesOf, Blocked,
       Collectives, Barriers
  <1>2. PICK c \in Collectives : lead \in c BY <1>lead, <1>1 DEF Blocked
  <1>3. \A r \in Others : at[r] \in c
    BY <1>0, <1>1, <1>2 DEF RanksInv, Follow, Places, Blocked, Collectives, Barriers
  <1> QED BY <1>2, <1>3

\* Ranks that train have read files of one step and the key of one moment.
LEMMA InvAgree == ASSUME RanksAssumption, RanksInv PROVE RanksAgree
  <1> SUFFICES ASSUME \A r \in Ranks : at[r] \in {"reduce", "broadcast"}, NEW r \in Others
               PROVE  /\ input[r] = input[Master]
                      /\ view[r].ready = view[Master].ready /\ view[r].step = view[Master].step
                      /\ (view[r].run = 0) = (view[Master].run = 0)
                      /\ resets[r] = resets[Master]
    BY DEF RanksAgree
  <1>1. /\ lead \in {"reduce", "broadcast"} /\ at[r] \in {"reduce", "broadcast"}
        /\ r \in Ranks /\ Master \in Ranks
    BY DEF RanksAssumption
  <1>2. input[r] = input[Master]
    <2>1. PICK f \in FilesOf(sendStep - 1) : f[2] = r BY <1>1 DEF RanksInv, FilesMatch, FilesSent
    <2> QED BY <1>1, <2>1 DEF RanksInv, FilesMatch, FilesRead
  <1>3. store = view[Master] /\ view[r].ready = store.ready /\ view[r].step = store.step /\ HasRun(Master)
    BY <1>1 DEF RanksInv, Agreed
  <1>4. HasRun(r) /\ known BY <1>1 DEF RanksInv, Joined, Takeup
  <1>5. resets[r] = resets[Master] BY <1>4 DEF RanksInv, ResetOnce
  <1> QED BY <1>2, <1>3, <1>4, <1>5

\* A rank that is in time finds the config in the key, and is ahead of the
\* master only between one barrier and the next.
LEMMA InvHooks == ASSUME RanksAssumption, RanksInv, ~late PROVE HooksTogether
  <1> SUFFICES ASSUME NEW r \in Others
               PROVE  /\ at[r] \in {"adopt", "adoptStep"} => ~Unexplained(r)
                      /\ resets[r] > resets[Master] => lead \in {"adopt", "adoptStep"}
    BY DEF HooksTogether
  <1>0. r \in Ranks /\ at[r] \in Positions /\ lead \in Positions BY DEF RanksAssumption, RanksInv, RanksTypeOK
  <1>1. at[r] \in {"adopt", "adoptStep"} => ~Unexplained(r) BY DEF RanksInv, InTime, Joined, Unexplained
  <1>2. ASSUME resets[r] > resets[Master] PROVE lead \in {"adopt", "adoptStep"}
    <2>1. HasRun(r) /\ ~known BY <1>0, <1>2 DEF RanksInv, ResetOnce
    <2> QED BY <1>0, <2>1 DEF RanksInv, InTime, Takeup
  <1> QED BY <1>1, <1>2

\* Whatever the order in which ranks read the store's key, those that train
\* hold parts of one batch and agree on the run; and as long as no rank reads
\* the key after the master has changed it (late), ranks never wait for each
\* other for ever and run the hooks of a run together (synchronize_state,
\* wait_for_run, wait_for_batch).
THEOREM RanksMeet == ASSUME RanksAssumption PROVE Spec => []RanksTogether
  <1>1. Init => RanksInv BY InitRanks
  <1>2. RanksInv /\ [Next]_ranksVars => RanksInv'
    <2> SUFFICES ASSUME RanksInv, [Next]_ranksVars PROVE RanksInv' OBVIOUS
    <2>1. CASE UNCHANGED ranksVars BY <2>1, StutterRanks
    <2>2. CASE Next
      BY <2>2, DirectoryKeeps, FindKeeps, BarrierKeeps,
         LoadKeeps, AdoptMasterKeeps, DiscoverKeeps, ReceiveBatchKeeps, SentKeeps, TrainKeeps,
         GatherKeeps, PublishKeeps, RecheckKeeps, RecheckFailsKeeps, CheckpointKeeps, CrashKeeps,
         FindOtherKeeps, FoundKeeps, SetupKeeps, AdoptOtherKeeps, AdoptFailsKeeps, SendFileKeeps, WaitKeeps, GetKeeps DEF Next
    <2> QED BY <2>1, <2>2
  <1>3. RanksInv => RanksTogether BY InvNoDeadlock, InvAgree, InvHooks DEF RanksTogether
  <1> QED BY <1>1, <1>2, <1>3, PTL DEF Spec

=============================================================================
