---------------------------- MODULE AutoChainProofs ----------------------------
(* Theorems about AutoChain, for every value of its constants. *)
EXTENDS AutoChain, TLAPS

(* Where a driver is until its job is decided, parked or finished. *)
Driving == {"announcing", "undriven", "starting", "branching", "working", "reply", "signals"}

(* The status against the coroutines of the job. *)
StatusInv(j) ==
    /\ pc[j] = "none" <=> status[j] = "none"
    /\ pc[j] \in Driving => status[j] \in {"running", "cancelled"}
    /\ pc[j] = "salvage" => status[j] = "failed"
    /\ pc[j] \in {"parked", "finished"} => status[j] # "running"
    /\ pc[j] = "merging" => mpc[j] # "none"
    /\ mpc[j] # "none" => status[j] = "merging"

(* What happened to the job against its status: a change that landed or was refused is done,
   a cancelled job is over, or will be at its driver's next decision. *)
HistoryInv(j) ==
    /\ j \in landed /\ j \notin killed => status[j] = "done" /\ j \notin refused
    /\ j \in landed => pc[j] \in {"merging", "parked", "finished"}
    /\ j \in refused => status[j] = "done"
    /\ j \in cancelled =>
          \/ status[j] = "cancelled"
          \/ /\ pc[j] = "finished"
             /\ status[j] \in {"failed", "done"}
             /\ status[j] = "done" => Work(j) \notin tip[j]

(* A job's own commits are on its branch first, and are there only after its run. *)
WorkInv(j) ==
    /\ Work(j) \in tip[j] => pc[j] \in {"signals", "merging", "parked", "finished"}
    /\ \A k \in Jobs : Work(j) \in tip[k] => Work(j) \in tip[j]
    /\ \A l \in Lines : Work(j) \in line[l] => Work(j) \in tip[j]

(* What the checks of merge_job have established, if the operator did not get in between. *)
MergeInv(j) ==
    /\ mpc[j] = "merge" /\ j \notin raced => base[j] \subseteq line[head]
    /\ merge = "operator" /\ mpc[j] \in {"ancestor", "merge", "abort"} => j \in raced
    /\ j \in landed /\ ~switched => tip[j] \subseteq line[head]

JobInv(j) == StatusInv(j) /\ HistoryInv(j) /\ WorkInv(j) /\ MergeInv(j)

(* The tasks of a chain: done before its turn, not begun after it. *)
TaskInv(c, n) ==
    /\ n > turn[c] => status[<<c, n>>] = "none"
    /\ n < turn[c] => status[<<c, n>>] = "done" /\ pc[<<c, n>>] = "finished"
    /\ n = turn[c] /\ chain[c] \in {"idle", "checking"} => status[<<c, n>>] = "none"
    /\ status[<<c, n>>] # "none" => n <= AutoMaxJobs

ChainInv(c) ==
    /\ turn[c] >= 1
    /\ chain[c] = "driving" => turn[c] <= Tasks[c]
    /\ \A n \in 1..Tasks[c] : TaskInv(c, n)

(* Job k branches from what i has brought in. *)
BuildsOn(i, k) == HasBase(k) /\ i \in landed /\ ~switched => tip[i] \subseteq base[k]

(* The inductive invariant. *)
Inv ==
    /\ TypeOK
    /\ \A j \in Jobs : JobInv(j)
    /\ \A c \in Chains : ChainInv(c)
    /\ NoMarkersLeft
    /\ BuildsOnPredecessor

-----------------------------------------------------------------------------
(* What a step of job j does besides keeping the invariants of the jobs. *)

(* It begins no job, and leaves what is done for good alone. *)
JobMove(j) ==
    /\ UNCHANGED <<chain, turn>>
    /\ status[j] # "none" /\ status'[j] # "none"
    /\ status[j] = "done" /\ pc[j] = "finished" => status'[j] = "done" /\ pc'[j] = "finished"
    /\ \A k \in Jobs \ {j} : status'[k] = status[k] /\ pc'[k] = pc[k]

(* A job goes on to build on one that was done before it. *)
BuildMove ==
    \A i, k \in Jobs : i # k /\ (status[k] # "none" => status[i] = "done") /\ BuildsOn(i, k)
                       => BuildsOn(i, k)'

StepOf(j) ==
    /\ TypeOK'
    /\ \A k \in Jobs : JobInv(k)'
    /\ NoMarkersLeft'
    /\ JobMove(j)
    /\ BuildMove

(* The jobs are the tasks of the chains. *)
LEMMA TasksAreJobs ==
    /\ \A c \in Chains, n \in Nat : n \in 1..Tasks[c] => <<c, n>> \in Jobs
    /\ \A j \in Jobs : \E c \in Chains : \E n \in 1..Tasks[c] : j = <<c, n>>
  BY DEF Jobs

(* Labels of different kinds, or of different jobs, differ. *)
LEMMA LabelsDiffer ==
    /\ \A j \in Jobs : Work(j) \in Labels /\ MergeOf(j) \in Labels
    /\ \A n \in 0..MaxMoves : OwnCommit(n) \in Labels
    /\ \A j, k : Work(j) = Work(k) => j = k
    /\ \A j, k : Work(j) # MergeOf(k)
    /\ \A j, n : Work(j) # OwnCommit(n)
  BY DEF Labels, Work, MergeOf, OwnCommit

(* A step of a job keeps the order of the chains, and what they build on. *)
LEMMA StepOfKeeps ==
    ASSUME AutoChainAssumption, Inv, NEW j \in Jobs, StepOf(j)
    PROVE  Inv'
<1>1. ASSUME NEW c \in Chains PROVE ChainInv(c)'
  <2>1. turn' = turn /\ chain' = chain /\ ChainInv(c)
    BY DEF StepOf, JobMove, Inv
  <2>2. ASSUME NEW n \in 1..Tasks[c] PROVE TaskInv(c, n)'
    <3>1. TaskInv(c, n) /\ <<c, n>> \in Jobs
      BY <2>1, TasksAreJobs DEF ChainInv
    <3>2. CASE <<c, n>> = j
      <4>1. status[<<c, n>>] # "none" /\ status'[<<c, n>>] # "none"
        BY <3>2 DEF StepOf, JobMove
      <4>2. status[<<c, n>>] = "done" /\ pc[<<c, n>>] = "finished"
            => status'[<<c, n>>] = "done" /\ pc'[<<c, n>>] = "finished"
        BY <3>2 DEF StepOf, JobMove
      <4>3. QED BY <2>1, <3>1, <4>1, <4>2 DEF TaskInv
    <3>3. CASE <<c, n>> # j
      <4>1. status'[<<c, n>>] = status[<<c, n>>] /\ pc'[<<c, n>>] = pc[<<c, n>>]
        BY <3>1, <3>3 DEF StepOf, JobMove
      <4>2. QED BY <2>1, <3>1, <4>1 DEF TaskInv
    <3>4. QED BY <3>2, <3>3
  <2>3. QED BY <2>1, <2>2 DEF ChainInv
<1>2. ASSUME NEW c \in Chains, NEW n \in 2..Tasks[c] PROVE BuildsOn(<<c, n - 1>>, <<c, n>>)'
  <2>1. n \in 1..Tasks[c] /\ n - 1 \in 1..Tasks[c] /\ Tasks[c] \in Nat
    BY AutoChainAssumption DEF AutoChainAssumption
  <2>2. <<c, n>> \in Jobs /\ <<c, n - 1>> \in Jobs /\ <<c, n>> # <<c, n - 1>>
    BY <2>1, TasksAreJobs
  <2>3. status[<<c, n>>] # "none" => status[<<c, n - 1>>] = "done"
    BY <2>1 DEF Inv, ChainInv, TaskInv, TypeOK
  <2>4. BuildsOn(<<c, n - 1>>, <<c, n>>)
    BY DEF Inv, BuildsOnPredecessor, BuildsOn
  <2>5. QED BY <2>2, <2>3, <2>4 DEF StepOf, BuildMove
<1>3. BuildsOnPredecessor'
  BY <1>2 DEF BuildsOnPredecessor, BuildsOn
<1>4. QED BY <1>1, <1>3 DEF Inv, StepOf

-----------------------------------------------------------------------------
(* One lemma per action of a job. *)

(* A worktree is asked for: HEAD becomes the job's base. *)
LEMMA ReadBaseKeeps ==
    ASSUME Inv, NEW j \in Jobs, ReadBase(j)
    PROVE  StepOf(j)
<1> USE DEF ReadBase, HeadFor, Finally, SetStatus, Goto, chains, checkout, history, Inv,
        TypeOK
<1>1. TypeOK'
  BY LabelsDiffer DEF Statuses, PcLabels, MergeLabels, Lines
<1>2. ASSUME NEW k \in Jobs PROVE StatusInv(k)'
  BY DEF JobInv, StatusInv, Driving
<1>3. ASSUME NEW k \in Jobs PROVE HistoryInv(k)'
  BY DEF JobInv, StatusInv, Driving, HistoryInv, WorkInv
<1>4. ASSUME NEW k \in Jobs PROVE WorkInv(k)'
  BY LabelsDiffer DEF JobInv, StatusInv, WorkInv
<1>5. ASSUME NEW k \in Jobs PROVE MergeInv(k)'
  BY DEF JobInv, StatusInv, Driving, HistoryInv, MergeInv
<1>6. NoMarkersLeft'
  BY DEF NoMarkersLeft, JobInv, StatusInv
<1>7. JobMove(j)
  BY DEF JobMove, JobInv, StatusInv, Driving, HistoryInv
<1>8. BuildMove
  BY DEF BuildMove, BuildsOn, HasBase, JobInv, StatusInv, Driving, HistoryInv, MergeInv
<1>9. QED BY <1>1, <1>2, <1>3, <1>4, <1>5, <1>6, <1>7, <1>8 DEF StepOf, JobInv

(* The branch begins at HEAD, or the job has failed. *)
LEMMA AddWorktreeKeeps ==
    ASSUME Inv, NEW j \in Jobs, AddWorktree(j)
    PROVE  StepOf(j)
<1> USE DEF AddWorktree, SetStatus, Goto, chains, checkout, history, Inv, TypeOK
<1>1. TypeOK'
  BY LabelsDiffer DEF Statuses, PcLabels, MergeLabels, Lines
<1>2. ASSUME NEW k \in Jobs PROVE StatusInv(k)'
  BY DEF JobInv, StatusInv, Driving
<1>3. ASSUME NEW k \in Jobs PROVE HistoryInv(k)'
  BY DEF JobInv, StatusInv, Driving, HistoryInv, WorkInv
<1>4. ASSUME NEW k \in Jobs PROVE WorkInv(k)'
  BY LabelsDiffer DEF JobInv, StatusInv, WorkInv
<1>5. ASSUME NEW k \in Jobs PROVE MergeInv(k)'
  BY DEF JobInv, StatusInv, Driving, HistoryInv, MergeInv
<1>6. NoMarkersLeft'
  BY DEF NoMarkersLeft, JobInv, StatusInv
<1>7. JobMove(j)
  BY DEF JobMove, JobInv, StatusInv, Driving, HistoryInv
<1>8. BuildMove
  BY DEF BuildMove, BuildsOn, HasBase, JobInv, StatusInv, Driving, HistoryInv
<1>9. QED BY <1>1, <1>2, <1>3, <1>4, <1>5, <1>6, <1>7, <1>8 DEF StepOf, JobInv

(* The run ends: cancelled, to be salvaged, or with a reply. *)
LEMMA EndRunKeeps ==
    ASSUME Inv, NEW j \in Jobs, EndRun(j)
    PROVE  StepOf(j)
<1> USE DEF EndRun, SetStatus, Goto, chains, checkout, history, Inv, TypeOK
<1>1. TypeOK'
  BY LabelsDiffer DEF Statuses, PcLabels, MergeLabels, Lines
<1>2. ASSUME NEW k \in Jobs PROVE StatusInv(k)'
  BY DEF JobInv, StatusInv, Driving
<1>3. ASSUME NEW k \in Jobs PROVE HistoryInv(k)'
  BY DEF JobInv, StatusInv, Driving, HistoryInv, WorkInv
<1>4. ASSUME NEW k \in Jobs PROVE WorkInv(k)'
  BY LabelsDiffer DEF JobInv, StatusInv, WorkInv
<1>5. ASSUME NEW k \in Jobs PROVE MergeInv(k)'
  BY DEF JobInv, StatusInv, Driving, HistoryInv, MergeInv
<1>6. NoMarkersLeft'
  BY DEF NoMarkersLeft, JobInv, StatusInv
<1>7. JobMove(j)
  BY DEF JobMove, JobInv, StatusInv, Driving, HistoryInv
<1>8. BuildMove
  BY DEF BuildMove, BuildsOn, HasBase, JobInv, StatusInv, Driving, HistoryInv
<1>9. QED BY <1>1, <1>2, <1>3, <1>4, <1>5, <1>6, <1>7, <1>8 DEF StepOf, JobInv

(* What a failed run left behind is parked, or there is nothing. *)
LEMMA SalvageKeeps ==
    ASSUME Inv, NEW j \in Jobs, Salvage(j)
    PROVE  StepOf(j)
<1> USE DEF Salvage, AddWork, SetStatus, Goto, chains, checkout, history, Inv, TypeOK
<1>1. TypeOK'
  BY LabelsDiffer DEF Statuses, PcLabels, MergeLabels, Lines
<1>2. ASSUME NEW k \in Jobs PROVE StatusInv(k)'
  BY DEF JobInv, StatusInv, Driving
<1>3. ASSUME NEW k \in Jobs PROVE HistoryInv(k)'
  BY DEF JobInv, StatusInv, Driving, HistoryInv, WorkInv
<1>4. ASSUME NEW k \in Jobs PROVE WorkInv(k)'
  BY LabelsDiffer DEF JobInv, StatusInv, WorkInv
<1>5. ASSUME NEW k \in Jobs PROVE MergeInv(k)'
  BY DEF JobInv, StatusInv, Driving, HistoryInv, MergeInv
<1>6. NoMarkersLeft'
  BY DEF NoMarkersLeft, JobInv, StatusInv
<1>7. JobMove(j)
  BY DEF JobMove, JobInv, StatusInv, Driving, HistoryInv
<1>8. BuildMove
  BY DEF BuildMove, BuildsOn, HasBase, JobInv, StatusInv, Driving, HistoryInv
<1>9. QED BY <1>1, <1>2, <1>3, <1>4, <1>5, <1>6, <1>7, <1>8 DEF StepOf, JobInv

(* The change is committed, or there is none. *)
LEMMA CommitKeeps ==
    ASSUME Inv, NEW j \in Jobs, Commit(j)
    PROVE  StepOf(j)
<1> USE DEF Commit, AddWork, Finally, SetStatus, Goto, chains, checkout, history, Inv,
        TypeOK
<1>1. TypeOK'
  BY LabelsDiffer DEF Statuses, PcLabels, MergeLabels, Lines
<1>2. ASSUME NEW k \in Jobs PROVE StatusInv(k)'
  BY DEF JobInv, StatusInv, Driving
<1>3. ASSUME NEW k \in Jobs PROVE HistoryInv(k)'
  BY DEF JobInv, StatusInv, Driving, HistoryInv, WorkInv
<1>4. ASSUME NEW k \in Jobs PROVE WorkInv(k)'
  BY LabelsDiffer DEF JobInv, StatusInv, WorkInv
<1>5. ASSUME NEW k \in Jobs PROVE MergeInv(k)'
  BY DEF JobInv, StatusInv, Driving, HistoryInv, MergeInv
<1>6. NoMarkersLeft'
  BY DEF NoMarkersLeft, JobInv, StatusInv
<1>7. JobMove(j)
  BY DEF JobMove, JobInv, StatusInv, Driving, HistoryInv
<1>8. BuildMove
  BY DEF BuildMove, BuildsOn, HasBase, JobInv, StatusInv, Driving, HistoryInv
<1>9. QED BY <1>1, <1>2, <1>3, <1>4, <1>5, <1>6, <1>7, <1>8 DEF StepOf, JobInv

(* Both signals claim the merge, a doubt parks, a cancel ends the job. *)
LEMMA ResolveKeeps ==
    ASSUME Inv, NEW j \in Jobs, Resolve(j)
    PROVE  StepOf(j)
<1> USE DEF Resolve, Claim, MergeableStatus, SetStatus, Goto, GotoMerge, chains, checkout,
        history, Inv, TypeOK
<1>1. TypeOK'
  BY LabelsDiffer DEF Statuses, PcLabels, MergeLabels, Lines
<1>2. ASSUME NEW k \in Jobs PROVE StatusInv(k)'
  BY DEF JobInv, StatusInv, Driving
<1>3. ASSUME NEW k \in Jobs PROVE HistoryInv(k)'
  BY DEF JobInv, StatusInv, Driving, HistoryInv, WorkInv
<1>4. ASSUME NEW k \in Jobs PROVE WorkInv(k)'
  BY LabelsDiffer DEF JobInv, StatusInv, WorkInv
<1>5. ASSUME NEW k \in Jobs PROVE MergeInv(k)'
  BY DEF JobInv, StatusInv, Driving, HistoryInv, MergeInv
<1>6. NoMarkersLeft'
  BY DEF NoMarkersLeft, JobInv, StatusInv
<1>7. JobMove(j)
  BY DEF JobMove, JobInv, StatusInv, Driving, HistoryInv
<1>8. BuildMove
  BY DEF BuildMove, BuildsOn, HasBase, JobInv, StatusInv, Driving, HistoryInv
<1>9. QED BY <1>1, <1>2, <1>3, <1>4, <1>5, <1>6, <1>7, <1>8 DEF StepOf, JobInv

(* The driver of a parked job returns. *)
LEMMA ParkReturnKeeps ==
    ASSUME Inv, NEW j \in Jobs, ParkReturn(j)
    PROVE  StepOf(j)
<1> USE DEF ParkReturn, Goto, chains, checkout, history, Inv, TypeOK
<1>1. TypeOK'
  BY LabelsDiffer DEF Statuses, PcLabels, MergeLabels, Lines
<1>2. ASSUME NEW k \in Jobs PROVE StatusInv(k)'
  BY DEF JobInv, StatusInv, Driving
<1>3. ASSUME NEW k \in Jobs PROVE HistoryInv(k)'
  BY DEF JobInv, StatusInv, Driving, HistoryInv, WorkInv
<1>4. ASSUME NEW k \in Jobs PROVE WorkInv(k)'
  BY LabelsDiffer DEF JobInv, StatusInv, WorkInv
<1>5. ASSUME NEW k \in Jobs PROVE MergeInv(k)'
  BY DEF JobInv, StatusInv, Driving, HistoryInv, MergeInv
<1>6. NoMarkersLeft'
  BY DEF NoMarkersLeft, JobInv, StatusInv
<1>7. JobMove(j)
  BY DEF JobMove, JobInv, StatusInv, Driving, HistoryInv
<1>8. BuildMove
  BY DEF BuildMove, BuildsOn, HasBase, JobInv, StatusInv, Driving, HistoryInv
<1>9. QED BY <1>1, <1>2, <1>3, <1>4, <1>5, <1>6, <1>7, <1>8 DEF StepOf, JobInv

(* The merge has the project's lock. *)
LEMMA TakeLockKeeps ==
    ASSUME Inv, NEW j \in Jobs, TakeLock(j)
    PROVE  StepOf(j)
<1> USE DEF TakeLock, GotoMerge, chains, checkout, history, Inv, TypeOK
<1>1. TypeOK'
  BY LabelsDiffer DEF Statuses, PcLabels, MergeLabels, Lines
<1>2. ASSUME NEW k \in Jobs PROVE StatusInv(k)'
  BY DEF JobInv, StatusInv, Driving
<1>3. ASSUME NEW k \in Jobs PROVE HistoryInv(k)'
  BY DEF JobInv, StatusInv, Driving, HistoryInv, WorkInv
<1>4. ASSUME NEW k \in Jobs PROVE WorkInv(k)'
  BY LabelsDiffer DEF JobInv, StatusInv, WorkInv
<1>5. ASSUME NEW k \in Jobs PROVE MergeInv(k)'
  BY DEF JobInv, StatusInv, Driving, HistoryInv, MergeInv
<1>6. NoMarkersLeft'
  BY DEF NoMarkersLeft, JobInv, StatusInv
<1>7. JobMove(j)
  BY DEF JobMove, JobInv, StatusInv, Driving, HistoryInv
<1>8. BuildMove
  BY DEF BuildMove, BuildsOn, HasBase, JobInv, StatusInv, Driving, HistoryInv
<1>9. QED BY <1>1, <1>2, <1>3, <1>4, <1>5, <1>6, <1>7, <1>8 DEF StepOf, JobInv

(* The live checkout is clean, or the merge is refused. *)
LEMMA CheckStatusKeeps ==
    ASSUME Inv, NEW j \in Jobs, CheckStatus(j)
    PROVE  StepOf(j)
<1> USE DEF CheckStatus, Clean, GoOn, Refuse, Conclude, SetStatus, GotoMerge, chains,
        checkout, Inv, TypeOK
<1>1. TypeOK'
  BY LabelsDiffer DEF Statuses, PcLabels, MergeLabels, Lines
<1>2. ASSUME NEW k \in Jobs PROVE StatusInv(k)'
  BY DEF JobInv, StatusInv, Driving
<1>3. ASSUME NEW k \in Jobs PROVE HistoryInv(k)'
  BY DEF JobInv, StatusInv, Driving, HistoryInv, WorkInv
<1>4. ASSUME NEW k \in Jobs PROVE WorkInv(k)'
  BY LabelsDiffer DEF JobInv, StatusInv, WorkInv
<1>5. ASSUME NEW k \in Jobs PROVE MergeInv(k)'
  BY DEF JobInv, StatusInv, Driving, HistoryInv, MergeInv
<1>6. NoMarkersLeft'
  BY DEF NoMarkersLeft, JobInv, StatusInv
<1>7. JobMove(j)
  BY DEF JobMove, JobInv, StatusInv, Driving, HistoryInv
<1>8. BuildMove
  BY DEF BuildMove, BuildsOn, HasBase, JobInv, StatusInv, Driving, HistoryInv
<1>9. QED BY <1>1, <1>2, <1>3, <1>4, <1>5, <1>6, <1>7, <1>8 DEF StepOf, JobInv

(* The base is an ancestor of HEAD, or the merge is refused. *)
LEMMA CheckBaseKeeps ==
    ASSUME Inv, NEW j \in Jobs, CheckBase(j)
    PROVE  StepOf(j)
<1> USE DEF CheckBase, BaseIsAncestor, GoOn, Refuse, Conclude, SetStatus, GotoMerge, chains,
        checkout, Inv, TypeOK
<1>1. TypeOK'
  BY LabelsDiffer DEF Statuses, PcLabels, MergeLabels, Lines
<1>2. ASSUME NEW k \in Jobs PROVE StatusInv(k)'
  BY DEF JobInv, StatusInv, Driving
<1>3. ASSUME NEW k \in Jobs PROVE HistoryInv(k)'
  BY DEF JobInv, StatusInv, Driving, HistoryInv, WorkInv
<1>4. ASSUME NEW k \in Jobs PROVE WorkInv(k)'
  BY LabelsDiffer DEF JobInv, StatusInv, WorkInv
<1>5. ASSUME NEW k \in Jobs PROVE MergeInv(k)'
  BY DEF JobInv, StatusInv, Driving, HistoryInv, MergeInv
<1>6. NoMarkersLeft'
  BY DEF NoMarkersLeft, JobInv, StatusInv
<1>7. JobMove(j)
  BY DEF JobMove, JobInv, StatusInv, Driving, HistoryInv
<1>8. BuildMove
  BY DEF BuildMove, BuildsOn, HasBase, JobInv, StatusInv, Driving, HistoryInv
<1>9. QED BY <1>1, <1>2, <1>3, <1>4, <1>5, <1>6, <1>7, <1>8 DEF StepOf, JobInv

(* The change lands, or the merge stops, is refused or killed. *)
LEMMA GitMergeKeeps ==
    ASSUME Inv, NEW j \in Jobs, GitMerge(j)
    PROVE  StepOf(j)
<1> USE DEF GitMerge, Clean, Land, Stops, GoOn, Conclude, SetStatus, GotoMerge, chains, Inv,
        TypeOK
<1>1. TypeOK'
  BY LabelsDiffer DEF Statuses, PcLabels, MergeLabels, Lines
<1>2. ASSUME NEW k \in Jobs PROVE StatusInv(k)'
  BY DEF JobInv, StatusInv, Driving
<1>3. ASSUME NEW k \in Jobs PROVE HistoryInv(k)'
  BY DEF JobInv, StatusInv, Driving, HistoryInv, WorkInv, PcLabels
<1>4. ASSUME NEW k \in Jobs PROVE WorkInv(k)'
  BY LabelsDiffer DEF JobInv, StatusInv, WorkInv
<1>5. ASSUME NEW k \in Jobs PROVE MergeInv(k)'
  BY DEF JobInv, StatusInv, Driving, HistoryInv, MergeInv
<1>6. NoMarkersLeft'
  BY DEF NoMarkersLeft, JobInv, StatusInv
<1>7. JobMove(j)
  BY DEF JobMove, JobInv, StatusInv, Driving, HistoryInv
<1>8. BuildMove
  BY DEF BuildMove, BuildsOn, HasBase, JobInv, StatusInv, Driving, HistoryInv
<1>9. QED BY <1>1, <1>2, <1>3, <1>4, <1>5, <1>6, <1>7, <1>8 DEF StepOf, JobInv

(* A merge that has not landed is taken back. *)
LEMMA AbortKeeps ==
    ASSUME Inv, NEW j \in Jobs, Abort(j)
    PROVE  StepOf(j)
<1> USE DEF Abort, Aborted, Refuse, Conclude, SetStatus, GotoMerge, chains, Inv, TypeOK
<1>1. TypeOK'
  BY LabelsDiffer DEF Statuses, PcLabels, MergeLabels, Lines
<1>2. ASSUME NEW k \in Jobs PROVE StatusInv(k)'
  BY DEF JobInv, StatusInv, Driving
<1>3. ASSUME NEW k \in Jobs PROVE HistoryInv(k)'
  BY DEF JobInv, StatusInv, Driving, HistoryInv, WorkInv
<1>4. ASSUME NEW k \in Jobs PROVE WorkInv(k)'
  BY LabelsDiffer DEF JobInv, StatusInv, WorkInv
<1>5. ASSUME NEW k \in Jobs PROVE MergeInv(k)'
  BY DEF JobInv, StatusInv, Driving, HistoryInv, MergeInv
<1>6. NoMarkersLeft'
  BY DEF NoMarkersLeft, JobInv, StatusInv
<1>7. JobMove(j)
  BY DEF JobMove, JobInv, StatusInv, Driving, HistoryInv
<1>8. BuildMove
  BY DEF BuildMove, BuildsOn, HasBase, JobInv, StatusInv, Driving, HistoryInv
<1>9. QED BY <1>1, <1>2, <1>3, <1>4, <1>5, <1>6, <1>7, <1>8 DEF StepOf, JobInv

(* git does not start: the job stays merging. *)
LEMMA RaiseKeeps ==
    ASSUME Inv, NEW j \in Jobs, Raise(j)
    PROVE  StepOf(j)
<1> USE DEF Raise, Conclude, SetStatus, GotoMerge, chains, checkout, Inv, TypeOK
<1>1. TypeOK'
  BY LabelsDiffer DEF Statuses, PcLabels, MergeLabels, Lines
<1>2. ASSUME NEW k \in Jobs PROVE StatusInv(k)'
  BY DEF JobInv, StatusInv, Driving
<1>3. ASSUME NEW k \in Jobs PROVE HistoryInv(k)'
  BY DEF JobInv, StatusInv, Driving, HistoryInv, WorkInv
<1>4. ASSUME NEW k \in Jobs PROVE WorkInv(k)'
  BY LabelsDiffer DEF JobInv, StatusInv, WorkInv
<1>5. ASSUME NEW k \in Jobs PROVE MergeInv(k)'
  BY DEF JobInv, StatusInv, Driving, HistoryInv, MergeInv
<1>6. NoMarkersLeft'
  BY DEF NoMarkersLeft, JobInv, StatusInv
<1>7. JobMove(j)
  BY DEF JobMove, JobInv, StatusInv, Driving, HistoryInv
<1>8. BuildMove
  BY DEF BuildMove, BuildsOn, HasBase, JobInv, StatusInv, Driving, HistoryInv
<1>9. QED BY <1>1, <1>2, <1>3, <1>4, <1>5, <1>6, <1>7, <1>8 DEF StepOf, JobInv

(* A running job is cancelled. *)
LEMMA CancelKeeps ==
    ASSUME Inv, NEW j \in Jobs, Cancel(j)
    PROVE  StepOf(j)
<1> USE DEF Cancel, SetStatus, chains, checkout, Inv, TypeOK
<1>1. TypeOK'
  BY LabelsDiffer DEF Statuses, PcLabels, MergeLabels, Lines
<1>2. ASSUME NEW k \in Jobs PROVE StatusInv(k)'
  BY DEF JobInv, StatusInv, Driving
<1>3. ASSUME NEW k \in Jobs PROVE HistoryInv(k)'
  BY DEF JobInv, StatusInv, Driving, HistoryInv, WorkInv
<1>4. ASSUME NEW k \in Jobs PROVE WorkInv(k)'
  BY LabelsDiffer DEF JobInv, StatusInv, WorkInv
<1>5. ASSUME NEW k \in Jobs PROVE MergeInv(k)'
  BY DEF JobInv, StatusInv, Driving, HistoryInv, MergeInv
<1>6. NoMarkersLeft'
  BY DEF NoMarkersLeft, JobInv, StatusInv
<1>7. JobMove(j)
  BY DEF JobMove, JobInv, StatusInv, Driving, HistoryInv
<1>8. BuildMove
  BY DEF BuildMove, BuildsOn, HasBase, JobInv, StatusInv, Driving, HistoryInv
<1>9. QED BY <1>1, <1>2, <1>3, <1>4, <1>5, <1>6, <1>7, <1>8 DEF StepOf, JobInv

(* A parked job is claimed for a merge. *)
LEMMA MergeCommandKeeps ==
    ASSUME Inv, NEW j \in Jobs, MergeCommand(j)
    PROVE  StepOf(j)
<1> USE DEF MergeCommand, Parked, Claim, MergeableStatus, SetStatus, GotoMerge, chains,
        checkout, history, Inv, TypeOK
<1>1. TypeOK'
  BY LabelsDiffer DEF Statuses, PcLabels, MergeLabels, Lines
<1>2. ASSUME NEW k \in Jobs PROVE StatusInv(k)'
  BY DEF JobInv, StatusInv, Driving
<1>3. ASSUME NEW k \in Jobs PROVE HistoryInv(k)'
  BY DEF JobInv, StatusInv, Driving, HistoryInv, WorkInv
<1>4. ASSUME NEW k \in Jobs PROVE WorkInv(k)'
  BY LabelsDiffer DEF JobInv, StatusInv, WorkInv
<1>5. ASSUME NEW k \in Jobs PROVE MergeInv(k)'
  BY DEF JobInv, StatusInv, Driving, HistoryInv, MergeInv
<1>6. NoMarkersLeft'
  BY DEF NoMarkersLeft, JobInv, StatusInv
<1>7. JobMove(j)
  BY DEF JobMove, JobInv, StatusInv, Driving, HistoryInv
<1>8. BuildMove
  BY DEF BuildMove, BuildsOn, HasBase, JobInv, StatusInv, Driving, HistoryInv
<1>9. QED BY <1>1, <1>2, <1>3, <1>4, <1>5, <1>6, <1>7, <1>8 DEF StepOf, JobInv

(* A parked job is refused. *)
LEMMA DiscardCommandKeeps ==
    ASSUME Inv, NEW j \in Jobs, DiscardCommand(j)
    PROVE  StepOf(j)
<1> USE DEF DiscardCommand, Parked, SetStatus, chains, checkout, Inv, TypeOK
<1>1. TypeOK'
  BY LabelsDiffer DEF Statuses, PcLabels, MergeLabels, Lines
<1>2. ASSUME NEW k \in Jobs PROVE StatusInv(k)'
  BY DEF JobInv, StatusInv, Driving
<1>3. ASSUME NEW k \in Jobs PROVE HistoryInv(k)'
  BY DEF JobInv, StatusInv, Driving, HistoryInv, WorkInv
<1>4. ASSUME NEW k \in Jobs PROVE WorkInv(k)'
  BY LabelsDiffer DEF JobInv, StatusInv, WorkInv
<1>5. ASSUME NEW k \in Jobs PROVE MergeInv(k)'
  BY DEF JobInv, StatusInv, Driving, HistoryInv, MergeInv
<1>6. NoMarkersLeft'
  BY DEF NoMarkersLeft, JobInv, StatusInv
<1>7. JobMove(j)
  BY DEF JobMove, JobInv, StatusInv, Driving, HistoryInv
<1>8. BuildMove
  BY DEF BuildMove, BuildsOn, HasBase, JobInv, StatusInv, Driving, HistoryInv
<1>9. QED BY <1>1, <1>2, <1>3, <1>4, <1>5, <1>6, <1>7, <1>8 DEF StepOf, JobInv
-----------------------------------------------------------------------------
(* The steps of a chain. *)

(* A chain begins, or stops. *)
LEMMA BeginOrStopKeeps ==
    ASSUME Inv, NEW c \in Chains, Begin(c) \/ StopChain(c)
    PROVE  Inv'
<1> USE DEF Begin, StopChain, Inv, TypeOK, jobState, checkout, history
<1>1. TypeOK'
  OBVIOUS
<1>2. ASSUME NEW k \in Jobs PROVE JobInv(k)'
  BY DEF JobInv, StatusInv, Driving, HistoryInv, WorkInv, MergeInv
<1>3. ASSUME NEW d \in Chains PROVE ChainInv(d)'
  BY DEF ChainInv, TaskInv
<1>4. NoMarkersLeft' /\ BuildsOnPredecessor'
  BY DEF NoMarkersLeft, BuildsOnPredecessor, HasBase
<1>5. QED BY <1>1, <1>2, <1>3, <1>4

(* The job of the next task is begun; its predecessors are done. *)
LEMMA NextTaskKeeps ==
    ASSUME AutoChainAssumption, Inv, NEW c \in Chains, NextTask(c)
    PROVE  Inv'
<1> DEFINE j == Current(c)
<1>1. ChainInv(c) /\ turn[c] \in Nat /\ Tasks[c] \in Nat
  BY AutoChainAssumption DEF AutoChainAssumption, Inv, TypeOK
<1>2. turn[c] \in 1..Tasks[c] /\ turn[c] <= AutoMaxJobs
  BY <1>1 DEF NextTask, MayRun, ChainInv
<1>3. j \in Jobs /\ status[j] = "none"
  BY <1>1, <1>2, TasksAreJobs DEF NextTask, ChainInv, TaskInv, Current
<1>4. /\ chain[c] = "checking" /\ chain' = [chain EXCEPT ![c] = "driving"]
      /\ SetStatus(j, "running")
      /\ Goto(j, "announcing") \/ Goto(j, "starting")
      /\ UNCHANGED <<turn, rival, mpc, base, tip, lock, checkout, moves, history>>
  BY DEF NextTask
<1> HIDE DEF j
<1> USE DEF SetStatus, Goto, checkout, history, Inv, TypeOK
<1>5. TypeOK'
  BY <1>3, <1>4 DEF Statuses, PcLabels
<1>6. ASSUME NEW k \in Jobs PROVE JobInv(k)'
  BY <1>3, <1>4 DEF JobInv, StatusInv, Driving, HistoryInv, WorkInv, MergeInv
<1>7. ASSUME NEW d \in Chains PROVE ChainInv(d)'
  <2>1. turn' = turn /\ ChainInv(d) /\ turn[d] \in Nat
    BY <1>4
  <2>2. ASSUME NEW n \in 1..Tasks[d] PROVE TaskInv(d, n)'
    <3>1. TaskInv(d, n) /\ <<d, n>> \in Jobs
      BY <2>1, TasksAreJobs DEF ChainInv
    <3>2. CASE <<d, n>> = j
      <4>1. d = c /\ n = turn[c]
        BY <3>2 DEF j, Current
      <4>2. status'[<<d, n>>] = "running" /\ chain'[c] = "driving"
        BY <1>3, <1>4, <3>2
      <4>3. QED BY <1>2, <2>1, <4>1, <4>2 DEF TaskInv
    <3>3. CASE <<d, n>> # j
      <4>1. status'[<<d, n>>] = status[<<d, n>>] /\ pc'[<<d, n>>] = pc[<<d, n>>]
        BY <1>3, <1>4, <3>1, <3>3
      <4>2. d # c \/ n # turn[c]
        BY <3>3 DEF j, Current
      <4>3. QED BY <1>4, <2>1, <3>1, <4>1, <4>2 DEF TaskInv
    <3>4. QED BY <3>2, <3>3
  <2>3. QED BY <1>1, <1>2, <1>4, <2>1, <2>2 DEF ChainInv
<1>8. NoMarkersLeft'
  BY <1>4 DEF NoMarkersLeft
<1>9. ASSUME NEW d \in Chains, NEW n \in 2..Tasks[d] PROVE BuildsOn(<<d, n - 1>>, <<d, n>>)'
  <2>1. BuildsOn(<<d, n - 1>>, <<d, n>>)
    BY DEF BuildsOnPredecessor, BuildsOn
  <2>2. <<d, n>> \in Jobs
    BY AutoChainAssumption, TasksAreJobs DEF AutoChainAssumption
  <2>3. HasBase(<<d, n>>)' => HasBase(<<d, n>>)
    BY <1>3, <1>4, <2>2 DEF HasBase
  <2>4. QED BY <1>4, <2>1, <2>3 DEF BuildsOn
<1>10. BuildsOnPredecessor'
  BY <1>9 DEF BuildsOnPredecessor, BuildsOn
<1>11. QED BY <1>5, <1>6, <1>7, <1>8, <1>10

(* A chain goes on only after a task that is done for good. *)
LEMMA TaskOverKeeps ==
    ASSUME AutoChainAssumption, Inv, NEW c \in Chains, TaskOver(c)
    PROVE  Inv'
<1> USE DEF TaskOver, Inv, TypeOK, jobState, checkout, history
<1>1. TypeOK'
  OBVIOUS
<1>2. ASSUME NEW k \in Jobs PROVE JobInv(k)'
  BY DEF JobInv, StatusInv, Driving, HistoryInv, WorkInv, MergeInv
<1>3. ASSUME NEW d \in Chains PROVE ChainInv(d)'
  <2>1. ChainInv(d) /\ turn[d] \in Nat /\ Tasks[d] \in Nat
    BY AutoChainAssumption DEF AutoChainAssumption
  <2>2. CASE d # c
    BY <2>1, <2>2 DEF ChainInv, TaskInv
  <2>3. CASE d = c /\ Advances(c)
    <3>1. /\ chain[c] = "driving" /\ chain'[c] = "checking"
          /\ turn'[c] = turn[c] + 1 /\ UNCHANGED <<status, pc>>
          /\ status[<<c, turn[c]>>] = "done" /\ pc[<<c, turn[c]>>] = "finished"
      BY <2>3 DEF Advances, Current
    <3>2. ASSUME NEW n \in 1..Tasks[c] PROVE TaskInv(c, n)'
      <4>1. TaskInv(c, n) /\ n \in Nat
        BY <2>1, <2>3 DEF ChainInv
      <4>2. CASE n < turn[c]
        BY <2>1, <2>3, <3>1, <4>1, <4>2 DEF TaskInv
      <4>3. CASE n = turn[c]
        BY <2>1, <2>3, <3>1, <4>1, <4>3 DEF TaskInv
      <4>4. CASE n > turn[c]
        BY <2>1, <2>3, <3>1, <4>1, <4>4 DEF TaskInv
      <4>5. QED BY <2>1, <2>3, <4>1, <4>2, <4>3, <4>4
    <3>3. QED BY <2>1, <2>3, <3>1, <3>2 DEF ChainInv
  <2>4. CASE d = c /\ ~Advances(c)
    BY <2>1, <2>4 DEF ChainInv, TaskInv
  <2>5. QED BY <2>2, <2>3, <2>4
<1>4. NoMarkersLeft' /\ BuildsOnPredecessor'
  BY DEF NoMarkersLeft, BuildsOnPredecessor, HasBase
<1>5. QED BY <1>1, <1>2, <1>3, <1>4

(* The progress line goes out, or leaves a job that nobody drives. *)
LEMMA AnnounceKeeps ==
    ASSUME AutoChainAssumption, Inv, NEW c \in Chains, Announce(c)
    PROVE  Inv'
<1> DEFINE j == Current(c)
<1>1. turn[c] \in 1..Tasks[c]
  BY AutoChainAssumption DEF AutoChainAssumption, Announce, Inv, TypeOK, ChainInv
<1>2. j \in Jobs
  BY <1>1, TasksAreJobs DEF Current
<1>3. /\ chain[c] = "driving" /\ pc[j] = "announcing"
      /\ Goto(j, "starting") \/ Goto(j, "undriven")
      /\ UNCHANGED chain \/ chain' = [chain EXCEPT ![c] = "over"]
      /\ UNCHANGED <<turn, rival, status, mpc, base, tip, lock, checkout, moves, history>>
  BY DEF Announce
<1> HIDE DEF j
<1> USE DEF Goto, checkout, history, Inv, TypeOK
<1>4. TypeOK'
  BY <1>2, <1>3 DEF PcLabels
<1>5. ASSUME NEW k \in Jobs PROVE JobInv(k)'
  BY <1>2, <1>3 DEF JobInv, StatusInv, Driving, HistoryInv, WorkInv, MergeInv
<1>6. ASSUME NEW d \in Chains PROVE ChainInv(d)'
  <2>1. turn' = turn /\ ChainInv(d) /\ status' = status
    BY <1>3
  <2>2. chain'[d] = chain[d] \/ (chain[d] = "driving" /\ chain'[d] = "over")
    BY <1>3
  <2>3. ASSUME NEW n \in 1..Tasks[d] PROVE TaskInv(d, n)'
    <3>1. TaskInv(d, n) /\ <<d, n>> \in Jobs
      BY <2>1, TasksAreJobs DEF ChainInv
    <3>2. pc[<<d, n>>] = "finished" => pc'[<<d, n>>] = "finished"
      BY <1>2, <1>3, <3>1
    <3>3. QED BY <2>1, <2>2, <3>1, <3>2 DEF TaskInv
  <2>4. QED BY <2>1, <2>2, <2>3 DEF ChainInv
<1>7. NoMarkersLeft'
  BY <1>3 DEF NoMarkersLeft
<1>8. ASSUME NEW d \in Chains, NEW n \in 2..Tasks[d] PROVE BuildsOn(<<d, n - 1>>, <<d, n>>)'
  <2>1. BuildsOn(<<d, n - 1>>, <<d, n>>)
    BY DEF BuildsOnPredecessor, BuildsOn
  <2>2. <<d, n>> \in Jobs
    BY AutoChainAssumption, TasksAreJobs DEF AutoChainAssumption
  <2>3. HasBase(<<d, n>>)' => HasBase(<<d, n>>)
    BY <1>2, <1>3, <2>2 DEF HasBase
  <2>4. QED BY <1>3, <2>1, <2>3 DEF BuildsOn
<1>9. BuildsOnPredecessor'
  BY <1>8 DEF BuildsOnPredecessor, BuildsOn
<1>10. QED BY <1>4, <1>5, <1>6, <1>7, <1>9

-----------------------------------------------------------------------------
(* The operator in the live checkout, and a step of nobody. *)

(* What leaves the chains and the jobs alone, and lets the live branches only grow. *)
LEMMA OutsideKeeps ==
    ASSUME Inv,
           \/ Edit \/ OwnCommits \/ Rival \/ Switch \/ OwnMerge
           \/ UNCHANGED vars
    PROVE  Inv'
<1> USE DEF Edit, OwnCommits, Rival, Switch, OwnMerge, Moves, Clean, jobState, checkout,
            history, chains, vars, Inv, TypeOK
<1>1. moves \in Nat /\ moves' \in 0..MaxMoves
  BY AutoChainAssumption DEF AutoChainAssumption
<1>2. TypeOK'
  <2>1. CASE OwnCommits
    <3>1. OwnCommit(moves') \in Labels
      BY <1>1 DEF OwnCommit, Labels
    <3>2. line' \in [Lines -> SUBSET Labels]
      BY <2>1, <3>1
    <3>3. QED BY <1>1, <2>1, <3>2
  <2>2. CASE Switch
    BY <1>1, <2>2
  <2>3. CASE OwnMerge
    BY <1>1, <2>3
  <2>4. CASE Edit \/ Rival \/ UNCHANGED vars
    BY <1>1, <2>4
  <2>5. QED BY <2>1, <2>2, <2>3, <2>4
<1>3. ASSUME NEW k \in Jobs PROVE JobInv(k)'
  <2> USE DEF JobInv
  <2>1. StatusInv(k)' BY DEF StatusInv
  <2>2. HistoryInv(k)' BY DEF HistoryInv
  <2>3. WorkInv(k)' BY <1>1, LabelsDiffer DEF WorkInv
  <2>4. MergeInv(k)' BY DEF MergeInv
  <2>5. QED BY <2>1, <2>2, <2>3, <2>4
<1>4. ASSUME NEW c \in Chains PROVE ChainInv(c)'
  BY DEF ChainInv, TaskInv
<1>5. NoMarkersLeft' /\ BuildsOnPredecessor'
  BY DEF NoMarkersLeft, BuildsOnPredecessor, HasBase
<1>6. QED BY <1>2, <1>3, <1>4, <1>5

(* Nothing has begun. *)
LEMMA InitInv == Init => Inv
<1> SUFFICES ASSUME Init PROVE Inv
  OBVIOUS
<1> USE AutoChainAssumption DEF AutoChainAssumption, Init
<1>1. TypeOK
  <2>1. <<"side", <<"operator", 0>>>> \in Labels
    BY DEF Labels
  <2>2. line \in [Lines -> SUBSET Labels]
    BY <2>1
  <2>3. base \in [Jobs -> SUBSET Labels] /\ tip \in [Jobs -> SUBSET Labels]
    OBVIOUS
  <2>4. /\ status \in [Jobs -> Statuses] /\ pc \in [Jobs -> PcLabels]
        /\ mpc \in [Jobs -> MergeLabels]
    BY DEF Statuses, PcLabels, MergeLabels
  <2>5. chain \in [Chains -> {"idle", "checking", "driving", "over"}] /\ turn \in [Chains -> Nat]
    OBVIOUS
  <2>6. moves \in 0..MaxMoves /\ head \in Lines
    BY DEF Lines
  <2>7. /\ lock \subseteq Jobs /\ {landed, cancelled, refused, killed, raced} \subseteq SUBSET Jobs
        /\ rival \in BOOLEAN /\ edits \in BOOLEAN /\ switched \in BOOLEAN
        /\ merge \in {"none", "bridge", "operator"}
    OBVIOUS
  <2> HIDE DEF Init
  <2>8. QED BY <2>2, <2>3, <2>4, <2>5, <2>6, <2>7 DEF TypeOK
<1>2. ASSUME NEW j \in Jobs PROVE JobInv(j)
  BY DEF JobInv, StatusInv, Driving, HistoryInv, WorkInv, MergeInv, Work
<1>3. ASSUME NEW c \in Chains PROVE ChainInv(c)
  BY TasksAreJobs DEF ChainInv, TaskInv
<1>4. NoMarkersLeft /\ BuildsOnPredecessor
  BY DEF NoMarkersLeft, BuildsOnPredecessor
<1>5. QED BY <1>1, <1>2, <1>3, <1>4 DEF Inv

(* Every step keeps the invariant. *)
LEMMA NextKeepsInv == Inv /\ [Next]_vars => Inv'
<1> SUFFICES ASSUME Inv, [Next]_vars PROVE Inv'
  OBVIOUS
<1> USE AutoChainAssumption
<1>1. ASSUME NEW c \in Chains, ChainStep(c) \/ Begin(c) PROVE Inv'
  BY <1>1, BeginOrStopKeeps, NextTaskKeeps, TaskOverKeeps, AnnounceKeeps DEF ChainStep
<1>2. ASSUME NEW j \in Jobs, DriverStep(j) PROVE Inv'
  BY <1>2, StepOfKeeps, ReadBaseKeeps, AddWorktreeKeeps, EndRunKeeps, SalvageKeeps, CommitKeeps,
     ResolveKeeps, ParkReturnKeeps DEF DriverStep
<1>3. ASSUME NEW j \in Jobs, MergeStep(j) PROVE Inv'
  BY <1>3, StepOfKeeps, TakeLockKeeps, CheckStatusKeeps, CheckBaseKeeps, GitMergeKeeps,
     AbortKeeps, RaiseKeeps DEF MergeStep
<1>4. ASSUME NEW j \in Jobs, Cancel(j) \/ MergeCommand(j) \/ DiscardCommand(j) PROVE Inv'
  BY <1>4, StepOfKeeps, CancelKeeps, MergeCommandKeeps, DiscardCommandKeeps
<1>5. CASE Edit \/ OwnCommits \/ Rival \/ Switch \/ OwnMerge \/ UNCHANGED vars
  BY <1>5, OutsideKeeps
<1>6. QED BY <1>1, <1>2, <1>3, <1>4, <1>5 DEF Next, OperatorStep, Idle

-----------------------------------------------------------------------------
(* The theorems. *)

(* Inv holds in every reachable state, for any chains, caps and bounds. *)
THEOREM Invariance == Spec => []Inv
<1>1. Init => Inv BY InitInv
<1>2. Inv /\ [Next]_vars => Inv' BY NextKeepsInv
<1>3. QED BY <1>1, <1>2, PTL DEF Spec

(* Every variable keeps its type, and every commit label is one of the model's. *)
THEOREM TypeCorrect == Spec => []TypeOK
<1>1. Inv => TypeOK BY DEF Inv
<1>2. QED BY <1>1, Invariance, PTL

(* A chain begins a task only when the one before it is done for good, and never more than
   AUTO_MAX_JOBS of them, whatever !cancel, !merge and !discard do to its jobs meanwhile. *)
THEOREM TasksInOrder == Spec => []ChainInOrder
<1>1. ASSUME Inv PROVE ChainInOrder
  <2> SUFFICES ASSUME NEW c \in Chains, NEW n \in 1..Tasks[c], status[<<c, n>>] # "none"
               PROVE  n <= AutoMaxJobs /\ (n > 1 => status[<<c, n - 1>>] = "done")
    BY DEF ChainInOrder
  <2>1. turn[c] \in Nat /\ Tasks[c] \in Nat /\ ChainInv(c)
    BY <1>1, AutoChainAssumption DEF AutoChainAssumption, Inv, TypeOK
  <2>2. n > 1 => n - 1 \in 1..Tasks[c]
    BY <2>1
  <2>3. QED BY <2>1, <2>2 DEF ChainInv, TaskInv
<1>2. QED BY <1>1, Invariance, PTL

(* The job after a landed one branches from a HEAD that has its change, unless the operator
   switched the live branch. *)
THEOREM EachBuildsOnTheLast == Spec => []BuildsOnPredecessor
<1>1. Inv => BuildsOnPredecessor BY DEF Inv
<1>2. QED BY <1>1, Invariance, PTL

(* After a merge attempt of the bridge the live checkout is not in the middle of it, unless git
   was killed or did not start. *)
THEOREM MarkersGone == Spec => []NoMarkersLeft
<1>1. Inv => NoMarkersLeft BY DEF Inv
<1>2. QED BY <1>1, Invariance, PTL

(* A discarded change is not in the live branch, and a landed one is not offered for review,
   unless a git call of its merge was killed. *)
THEOREM LandedStaysDone == Spec => []LandedIsDone
<1>1. Inv => LandedIsDone
  BY DEF Inv, TypeOK, JobInv, HistoryInv, LandedIsDone
<1>2. QED BY <1>1, Invariance, PTL

(* A !cancel, wherever it comes in, stops the chain if the task has changed anything. *)
THEOREM CancelEndsChain == Spec => []CancelStopsChain
<1>1. ASSUME Inv PROVE CancelStopsChain
  <2> SUFFICES ASSUME NEW c \in Chains, NEW n \in 2..Tasks[c],
                      <<c, n - 1>> \in cancelled, status[<<c, n>>] # "none"
               PROVE  Work(<<c, n - 1>>) \notin tip[<<c, n - 1>>]
    BY DEF CancelStopsChain
  <2>1. turn[c] \in Nat /\ Tasks[c] \in Nat /\ ChainInv(c)
    BY <1>1, AutoChainAssumption DEF AutoChainAssumption, Inv, TypeOK
  <2>2. n \in 1..Tasks[c] /\ n - 1 \in 1..Tasks[c]
    BY <2>1
  <2>3. status[<<c, n - 1>>] = "done"
    BY <2>1, <2>2 DEF ChainInv, TaskInv
  <2>4. HistoryInv(<<c, n - 1>>)
    BY <1>1, <2>2, TasksAreJobs DEF Inv, JobInv
  <2>5. QED BY <2>3, <2>4 DEF HistoryInv
<1>2. QED BY <1>1, Invariance, PTL

(* A merge brings into the live branch what was reviewed, base..bridge/<id>, and its own
   commit, unless the operator switched HEAD after the ancestor check. *)
THEOREM MergesWhatWasReviewed == Spec => ReviewedIsMerged
<1>1. ASSUME Inv, [Next]_vars, NEW j \in Jobs, j \notin landed, j \in landed', j \notin raced
      PROVE  line'[head] \ line[head] \subseteq (tip[j] \ base[j]) \cup {MergeOf(j)}
  <2>1. \E k \in Jobs : GitMerge(k) /\ Land(k)
    BY <1>1 DEF Next, ChainStep, DriverStep, MergeStep, OperatorStep, Idle, vars, history,
       NextTask, StopChain, TaskOver, Announce, Begin, ReadBase, AddWorktree, EndRun, Salvage,
       Commit, Resolve, ParkReturn, TakeLock, CheckStatus, CheckBase, GitMerge, Stops, Abort,
       Raise, Cancel, MergeCommand, DiscardCommand, Rival, Edit, OwnCommits, Switch, OwnMerge,
       Moves
  <2>2. PICK k \in Jobs : GitMerge(k) /\ Land(k)
    BY <2>1
  <2>3. k = j
    BY <1>1, <2>2 DEF Land
  <2>4. base[j] \subseteq line[head]
    BY <1>1, <2>2, <2>3 DEF Inv, JobInv, MergeInv, GitMerge
  <2>5. QED BY <1>1, <2>2, <2>3, <2>4 DEF Land, Inv, TypeOK
<1>2. Inv /\ [Next]_vars
      => [\A j \in Jobs : j \notin landed /\ j \in landed' /\ j \notin raced
             => line'[head] \ line[head] \subseteq (tip[j] \ base[j]) \cup {MergeOf(j)}]_vars
  BY <1>1
<1>3. QED BY <1>2, Invariance, PTL DEF Spec, ReviewedIsMerged

(* The bridge does not end a merge of the operator's own, except one that began between the
   status check and the bridge's merge. *)
THEOREM OperatorsMergeKept == Spec => OwnMergeKept
<1>1. ASSUME Inv, [Next]_vars, merge = "operator", merge' # "operator", ~OwnCommits
      PROVE  \E j \in raced : mpc[j] = "abort"
  <2>1. \E j \in Jobs : Abort(j)
    BY <1>1 DEF Next, ChainStep, DriverStep, MergeStep, OperatorStep, Idle, vars, checkout,
       NextTask, StopChain, TaskOver, Announce, Begin, ReadBase, AddWorktree, EndRun, Salvage,
       Commit, Resolve, ParkReturn, TakeLock, CheckStatus, CheckBase, GitMerge, Land, Stops,
       Raise, Cancel, MergeCommand, DiscardCommand, Rival, Edit, Switch, OwnMerge, Moves
  <2>2. QED BY <1>1, <2>1 DEF Abort, Inv, JobInv, MergeInv
<1>2. Inv /\ [Next]_vars
      => [merge = "operator" /\ merge' # "operator"
              => OwnCommits \/ \E j \in raced : mpc[j] = "abort"]_vars
  BY <1>1
<1>3. QED BY <1>2, Invariance, PTL DEF Spec, OwnMergeKept
=============================================================================
