------------------------ MODULE PhaseDispatchProofs ------------------------
(* The run without leases, for any monitors, workers and slots.            *)
EXTENDS PhaseDispatch, FiniteSetTheorems, TLAPS

Busy == {"queued", "acquire", "execute", "publish"}

(* A phase that does not dispatch has no check in progress, so that the    *)
(* end of the run forgets none.                                            *)
IdleInv == \A p \in Phase, m \in Monitor : phase[p] # "dispatch" => check[<<p, m>>] \notin Busy

(* A monitor is taken from the pending ones before its check begins.       *)
PendingInv == \A p \in Phase, m \in Monitor : m \in pending[p] => check[<<p, m>>] \notin Busy

(* Only a cancelled run cuts checks short, and it stays cancelled.         *)
TaintInv == \A j \in Job : tainted[j] => cancelled

DispatchInv ==
  /\ TypeOK /\ IdleInv /\ PendingInv /\ TaintInv
  /\ SharedBudget /\ GaugesExact /\ CutShortNotPosted

--------------------------------------------------------------------------
(* Counting checks.                                                        *)

LEMMA JobFinite == IsFiniteSet(Job)
<1>1. IsFiniteSet(Phase)
  <2>1. IsFiniteSet({"response", "ssl"} \cup {"domain_expiration"})
    <3>1. IsFiniteSet({"response"} \cup {"ssl"})
      BY FS_Singleton, FS_Union
    <3>2. {"response"} \cup {"ssl"} = {"response", "ssl"}
      OBVIOUS
    <3> QED  BY <3>1, <3>2, FS_Singleton, FS_Union
  <2>2. Phase = {"response", "ssl"} \cup {"domain_expiration"}
    BY DEF Phase
  <2> QED  BY <2>1, <2>2
<1> QED  BY <1>1, PhaseDispatchAssumption, FS_Product DEF Job

(* How many jobs f puts into the places P.                                 *)
Tally(f, P) == Cardinality({j \in Job : f[j] \in P})

LEMMA TallyType == ASSUME NEW f, NEW P PROVE Tally(f, P) \in Nat
<1>1. IsFiniteSet({j \in Job : f[j] \in P})
  BY JobFinite, FS_Subset
<1> QED  BY <1>1, FS_CardinalityType DEF Tally

(* One check that moves changes the count of a place by one at most.       *)
LEMMA TallyUpdate ==
  ASSUME check \in [Job -> Places], NEW j \in Job, NEW v, NEW P,
         check' = [check EXCEPT ![j] = v]
  PROVE  /\ check[j] \notin P /\ v \in P => Tally(check', P) = Tally(check, P) + 1
         /\ check[j] \in P /\ v \notin P => Tally(check, P) = Tally(check', P) + 1
         /\ (check[j] \in P <=> v \in P) => Tally(check', P) = Tally(check, P)
<1> DEFINE F == {k \in Job : check[k] \in P}
           G == {k \in Job : check'[k] \in P}
<1>1. IsFiniteSet(F) /\ IsFiniteSet(G)
  BY JobFinite, FS_Subset
<1>2. check'[j] = v /\ \A k \in Job : k # j => check'[k] = check[k]
  OBVIOUS
<1>3. CASE check[j] \notin P /\ v \in P
  <2>1. G = F \cup {j} /\ j \notin F
    BY <1>2, <1>3
  <2> QED  BY <1>1, <1>3, <2>1, FS_AddElement DEF Tally
<1>4. CASE check[j] \in P /\ v \notin P
  <2>1. F = G \cup {j} /\ j \notin G
    BY <1>2, <1>4
  <2> QED  BY <1>1, <1>4, <2>1, FS_AddElement DEF Tally
<1>5. CASE check[j] \in P <=> v \in P
  <2>1. F = G
    BY <1>2, <1>5
  <2> QED  BY <1>5, <2>1 DEF Tally
<1> QED  BY <1>3, <1>4, <1>5

LEMMA CountIsTally == \A P : Count(Job, P) = Tally(check, P)
BY DEF Count, Tally

LEMMA CountIsTallyNext == \A P : Count(Job, P)' = Tally(check', P)
BY DEF Count, Tally

(* No check of a phase is where the count says there is none.              *)
LEMMA CountZero ==
  ASSUME NEW p \in Phase, NEW P, Count(JobsOf(p), P) = 0
  PROVE  \A m \in Monitor : check[<<p, m>>] \notin P
<1> DEFINE S == {j \in JobsOf(p) : check[j] \in P}
<1>1. JobsOf(p) \subseteq Job
  BY DEF JobsOf, Job
<1>2. IsFiniteSet(S)
  BY <1>1, JobFinite, FS_Subset
<1>3. S = {}
  BY <1>2, FS_EmptySet DEF Count
<1> QED  BY <1>3 DEF JobsOf

LEMMA SlotCapacityType == SlotCapacity \in Nat
BY PhaseDispatchAssumption DEF SlotCapacity, Greater

--------------------------------------------------------------------------
(* One check moves, and the gauges move with it.                           *)

Moves(gauge, next, old, new, P) ==
  /\ old \notin P /\ new \in P => next = gauge + 1
  /\ old \in P /\ new \notin P => next = Decrement(gauge)
  /\ (old \in P <=> new \in P) => next = gauge

LEMMA GaugeMoves ==
  ASSUME check \in [Job -> Places], NEW j \in Job, NEW v, NEW P,
         check' = [check EXCEPT ![j] = v],
         NEW gauge, gauge = Count(Job, P), NEW next, Moves(gauge, next, check[j], v, P)
  PROVE  next = Count(Job, P)' /\ next \in Nat
<1>1. gauge = Tally(check, P) /\ Count(Job, P)' = Tally(check', P)
  BY CountIsTally, CountIsTallyNext
<1>2. gauge \in Nat /\ Tally(check', P) \in Nat
  BY <1>1, TallyType
<1>3. /\ check[j] \notin P /\ v \in P => Tally(check', P) = gauge + 1
      /\ check[j] \in P /\ v \notin P => gauge = Tally(check', P) + 1
      /\ (check[j] \in P <=> v \in P) => Tally(check', P) = gauge
  <2>1. /\ check[j] \notin P /\ v \in P =>
             Tally(check', P) = Tally(check, P) + 1
        /\ check[j] \in P /\ v \notin P =>
             Tally(check, P) = Tally(check', P) + 1
        /\ (check[j] \in P <=> v \in P) => Tally(check', P) = Tally(check, P)
    BY TallyUpdate
  <2> QED  BY <1>1, <2>1
<1> QED  BY <1>1, <1>2, <1>3 DEF Moves, Decrement

LEMMA CheckMoves ==
  ASSUME DispatchInv, NEW p \in Phase, NEW m \in Monitor, NEW v \in Places,
         check' = [check EXCEPT ![<<p, m>>] = v],
         Moves(jobsQueued, jobsQueued', check[<<p, m>>], v, {"queued"}),
         Moves(jobsActive, jobsActive', check[<<p, m>>], v, {"acquire", "execute"}),
         phase' = phase, phase[p] = "dispatch",
         v # "execute" \/ SlotsUsed(p) < SlotCapacity
  PROVE  /\ check' \in [Job -> Places] /\ jobsQueued' \in Nat /\ jobsActive' \in Nat
         /\ GaugesExact' /\ SharedBudget' /\ IdleInv'
<1>1. check \in [Job -> Places] /\ <<p, m>> \in Job
  BY DEF DispatchInv, TypeOK, Job
<1>2. jobsQueued' = Count(Job, {"queued"})' /\ jobsQueued' \in Nat
  BY <1>1, GaugeMoves DEF DispatchInv, GaugesExact
<1>3. jobsActive' = Count(Job, {"acquire", "execute"})' /\ jobsActive' \in Nat
  BY <1>1, GaugeMoves DEF DispatchInv, GaugesExact
<1>4. SharedBudget'
  <2>1. /\ Count(Job, {"execute"}) = Tally(check, {"execute"})
        /\ Count(Job, {"execute"})' = Tally(check', {"execute"})
    BY CountIsTally, CountIsTallyNext
  <2>2. /\ v # "execute" => Count(Job, {"execute"})' <= Count(Job, {"execute"})
        /\ Count(Job, {"execute"})' <= Count(Job, {"execute"}) + 1
        /\ Count(Job, {"execute"}) \in Nat /\ Count(Job, {"execute"})' \in Nat
    <3> DEFINE before == Tally(check, {"execute"})
               after == Tally(check', {"execute"})
    <3>1. /\ check[<<p, m>>] \notin {"execute"} /\ v \in {"execute"} => after = before + 1
          /\ check[<<p, m>>] \in {"execute"} /\ v \notin {"execute"} => before = after + 1
          /\ (check[<<p, m>>] \in {"execute"} <=> v \in {"execute"}) => after = before
      BY <1>1, TallyUpdate
    <3>2. before \in Nat /\ after \in Nat
      BY TallyType
    <3> HIDE DEF before, after
    <3>3. (v # "execute" => after <= before) /\ after <= before + 1
      BY <3>1, <3>2
    <3> QED  BY <2>1, <3>2, <3>3 DEF before, after
  <2>3. SlotCapacity' = SlotCapacity /\ SlotCapacity \in Nat
    BY SlotCapacityType DEF SlotCapacity
  <2>4. Count(Job, {"execute"})' <= SlotCapacity
    BY <2>2, <2>3 DEF DispatchInv, SharedBudget, SlotsUsed
  <2> QED  BY <2>3, <2>4 DEF SharedBudget
<1>5. check' \in [Job -> Places]
  BY <1>1
<1>6. IdleInv'
  <2> SUFFICES ASSUME NEW q \in Phase, NEW n \in Monitor, phase[q] # "dispatch"
               PROVE  check'[<<q, n>>] \notin Busy
    BY DEF IdleInv
  <2>1. <<q, n>> \in Job /\ <<q, n>> # <<p, m>>
    BY DEF Job
  <2> QED  BY <1>1, <2>1 DEF DispatchInv, IdleInv
<1> QED  BY <1>2, <1>3, <1>4, <1>5, <1>6 DEF GaugesExact

(* A step of a phase that moves no check.                                  *)
LEMMA NoCheckMoves ==
  ASSUME DispatchInv, UNCHANGED <<check, jobsQueued, jobsActive>>,
         \A q \in Phase : phase[q] = "dispatch" /\ phase'[q] # "dispatch" =>
           \A m \in Monitor : check[<<q, m>>] \notin Busy
  PROVE  GaugesExact' /\ SharedBudget' /\ IdleInv'
<1>1. \A P : Count(Job, P)' = Count(Job, P)
  BY DEF Count
<1>2. GaugesExact'
  BY <1>1 DEF DispatchInv, GaugesExact
<1>3. SharedBudget'
  BY <1>1 DEF DispatchInv, SharedBudget, SlotCapacity
<1>4. IdleInv'
  BY DEF DispatchInv, IdleInv
<1> QED  BY <1>2, <1>3, <1>4
--------------------------------------------------------------------------
(* The steps of the run.                                                   *)

LEMMA DispatchInit == Init => DispatchInv
<1> SUFFICES ASSUME Init PROVE DispatchInv
  OBVIOUS
<1>1. \A P : "none" \notin P => Count(Job, P) = 0
  <2> SUFFICES ASSUME NEW P, "none" \notin P PROVE Count(Job, P) = 0
    OBVIOUS
  <2>1. {j \in Job : check[j] \in P} = {}
    BY DEF Init
  <2> QED  BY <2>1, FS_EmptySet DEF Count
<1>2. TypeOK
  BY DEF Init, TypeOK, Places
<1>3. GaugesExact /\ SharedBudget
  BY <1>1, SlotCapacityType DEF Init, GaugesExact, SharedBudget
<1>4. IdleInv /\ PendingInv /\ TaintInv /\ CutShortNotPosted
  BY DEF Init, IdleInv, PendingInv, TaintInv, CutShortNotPosted, Busy, Job
<1> QED  BY <1>2, <1>3, <1>4 DEF DispatchInv

(* A step of the coordinator or of a phase's head that moves no check.     *)
LEMMA HeadStep ==
  ASSUME DispatchInv,
         UNCHANGED <<check, jobsQueued, jobsActive, toPost, tainted, posted>>,
         cancelled' \in BOOLEAN, cancelled => cancelled',
         phase' \in [Phase -> {"off", "fetch", "dispatch", "report", "returned"}],
         pending' \in [Phase -> SUBSET Monitor], results' \subseteq Phase,
         \A q \in Phase : phase[q] = "dispatch" => pending'[q] \subseteq pending[q],
         \A q \in Phase : phase[q] = "dispatch" /\ phase'[q] # "dispatch" =>
           \A m \in Monitor : check[<<q, m>>] \notin Busy
  PROVE  DispatchInv'
<1>1. TypeOK'
  BY DEF DispatchInv, TypeOK
<1>2. GaugesExact' /\ SharedBudget' /\ IdleInv'
  BY NoCheckMoves
<1>3. TaintInv' /\ CutShortNotPosted'
  BY DEF DispatchInv, TaintInv, CutShortNotPosted
<1>4. PendingInv'
  BY DEF DispatchInv, IdleInv, PendingInv
<1> QED  BY <1>1, <1>2, <1>3, <1>4 DEF DispatchInv

LEMMA CoordinatorStep ==
  ASSUME DispatchInv, StartRun \/ Cancel \/ Drained
  PROVE  DispatchInv'
<1> USE DEF checkVars
<1>0. TypeOK
  BY DEF DispatchInv
<1>1. CASE StartRun
  BY <1>0, <1>1, HeadStep DEF StartRun, TypeOK
<1>2. CASE Cancel
  BY <1>0, <1>2, HeadStep DEF Cancel, TypeOK
<1>3. CASE Drained
  BY <1>0, <1>3, HeadStep DEF Drained, TypeOK, vars
<1> QED  BY <1>1, <1>2, <1>3

LEMMA RunEnds ==
  ASSUME DispatchInv, EndRun
  PROVE  DispatchInv'
<1>1. /\ \A p \in Phase : phase[p] = "returned"
      /\ phase' = [p \in Phase |-> "off"] /\ results' = {}
      /\ check' = [j \in Job |-> "none"] /\ tainted' = [j \in Job |-> FALSE]
      /\ UNCHANGED <<pending, toPost, cancelled, jobsQueued, jobsActive, posted>>
  BY DEF EndRun
<1>2. \A j \in Job : check[j] \notin Busy
  <2> TAKE j \in Job
  <2>1. PICK p \in Phase, m \in Monitor : j = <<p, m>>
    BY DEF Job
  <2> QED  BY <1>1, <2>1 DEF DispatchInv, IdleInv
<1>3. ASSUME NEW P \in SUBSET Busy PROVE Count(Job, P) = 0 /\ Count(Job, P)' = 0
  <2>1. {j \in Job : check[j] \in P} = {}
    BY <1>2
  <2>2. {j \in Job : check'[j] \in P} = {}
    BY <1>1 DEF Busy
  <2> QED  BY <2>1, <2>2, FS_EmptySet DEF Count
<1>4. GaugesExact' /\ SharedBudget'
  <2>1. {"queued"} \in SUBSET Busy /\ {"acquire", "execute"} \in SUBSET Busy
        /\ {"execute"} \in SUBSET Busy
    BY DEF Busy
  <2>2. Count(Job, {"queued"}) = 0 /\ Count(Job, {"queued"})' = 0
    BY <1>3, <2>1
  <2>3. Count(Job, {"acquire", "execute"}) = 0 /\ Count(Job, {"acquire", "execute"})' = 0
    BY <1>3, <2>1
  <2>4. Count(Job, {"execute"})' = 0
    BY <1>3, <2>1
  <2>5. SlotCapacity' \in Nat
    BY SlotCapacityType DEF SlotCapacity
  <2> QED  BY <1>1, <2>2, <2>3, <2>4, <2>5 DEF DispatchInv, GaugesExact, SharedBudget
<1>5. TypeOK'
  BY <1>1 DEF DispatchInv, TypeOK, Places
<1>6. IdleInv' /\ PendingInv' /\ TaintInv' /\ CutShortNotPosted'
  BY <1>1 DEF DispatchInv, IdleInv, PendingInv, TaintInv, CutShortNotPosted, Busy, Job
<1> QED  BY <1>4, <1>5, <1>6 DEF DispatchInv

LEMMA PhaseHeads ==
  ASSUME DispatchInv, NEW p \in Phase,
         NotDue(p) \/ FetchFails(p) \/ (\E monitors \in SUBSET Monitor : Fetched(p, monitors))
           \/ (\E m \in Monitor : SkipNotDue(m)) \/ PhaseDone(p) \/ Report(p)
  PROVE  DispatchInv'
<1> USE DEF checkVars
<1>0. TypeOK
  BY DEF DispatchInv
<1>1. CASE NotDue(p)
  BY <1>0, <1>1, HeadStep DEF NotDue, TypeOK
<1>2. CASE FetchFails(p)
  BY <1>0, <1>2, HeadStep DEF FetchFails, TypeOK
<1>3. ASSUME NEW monitors \in SUBSET Monitor, Fetched(p, monitors) PROVE DispatchInv'
  BY <1>0, <1>3, HeadStep DEF Fetched, TypeOK
<1>4. ASSUME NEW m \in Monitor, SkipNotDue(m) PROVE DispatchInv'
  <2>1. "response" \in Phase
    BY DEF Phase
  <2> QED  BY <1>0, <1>4, <2>1, HeadStep DEF SkipNotDue, Taken, TypeOK
<1>5. CASE PhaseDone(p)
  <2>1. \A m \in Monitor : check[<<p, m>>] \notin {"queued"}
                        /\ check[<<p, m>>] \notin {"acquire", "execute", "publish"}
    BY <1>5, CountZero DEF PhaseDone, DispatcherFree
  <2>2. \A m \in Monitor : check[<<p, m>>] \notin Busy
    BY <2>1 DEF Busy
  <2> QED  BY <1>0, <1>5, <2>2, HeadStep DEF PhaseDone, TypeOK
<1>6. CASE Report(p)
  BY <1>0, <1>6, HeadStep DEF Report, TypeOK
<1> QED  BY <1>1, <1>2, <1>3, <1>4, <1>5, <1>6

--------------------------------------------------------------------------
(* The steps of one check.                                                 *)

(* What every step that moves a check has to show.                         *)
LEMMA CheckStepInv ==
  ASSUME DispatchInv, NEW p \in Phase, NEW m \in Monitor, NEW v \in Places,
         check' = [check EXCEPT ![<<p, m>>] = v],
         Moves(jobsQueued, jobsQueued', check[<<p, m>>], v, {"queued"}),
         Moves(jobsActive, jobsActive', check[<<p, m>>], v, {"acquire", "execute"}),
         phase[p] = "dispatch", v # "execute" \/ SlotsUsed(p) < SlotCapacity,
         UNCHANGED <<phase, results, cancelled, posted>>,
         pending' \in [Phase -> SUBSET Monitor], toPost' \in [Job -> SUBSET Field],
         \A q \in Phase : pending'[q] \subseteq pending[q],
         v \in Busy => m \notin pending'[p],
         tainted' \in [Job -> BOOLEAN], TaintInv'
  PROVE  DispatchInv'
<1>1. /\ check' \in [Job -> Places] /\ jobsQueued' \in Nat /\ jobsActive' \in Nat
      /\ GaugesExact' /\ SharedBudget' /\ IdleInv'
  BY CheckMoves
<1>2. TypeOK'
  BY <1>1 DEF DispatchInv, TypeOK
<1>3. CutShortNotPosted'
  BY DEF DispatchInv, CutShortNotPosted
<1>4. PendingInv'
  <2> SUFFICES ASSUME NEW q \in Phase, NEW n \in Monitor, n \in pending'[q]
               PROVE  check'[<<q, n>>] \notin Busy
    BY DEF PendingInv
  <2>1. n \in pending[q] /\ <<q, n>> \in Job /\ <<p, m>> \in Job /\ check \in [Job -> Places]
    BY DEF Job, DispatchInv, TypeOK
  <2>2. CASE <<q, n>> = <<p, m>>
    BY <2>1, <2>2
  <2>3. CASE <<q, n>> # <<p, m>>
    BY <2>1, <2>3 DEF DispatchInv, PendingInv
  <2> QED  BY <2>2, <2>3
<1> QED  BY <1>1, <1>2, <1>3, <1>4 DEF DispatchInv

LEMMA Dispatching ==
  ASSUME DispatchInv, NEW p \in Phase, NEW m \in Monitor, Maintain(p, m) \/ Dispatch(p, m)
  PROVE  DispatchInv'
<1>0. TypeOK /\ TaintInv /\ <<p, m>> \in Job
  BY DEF DispatchInv, Job
<1>1. /\ phase[p] = "dispatch" /\ pending' \in [Phase -> SUBSET Monitor]
      /\ m \notin pending'[p] /\ \A q \in Phase : pending'[q] \subseteq pending[q]
      /\ check[<<p, m>>] \notin Busy
  <2>1. phase[p] = "dispatch" /\ m \in pending[p] /\ pending' = [pending EXCEPT ![p] = @ \ {m}]
    BY DEF Maintain, Dispatch, Taken, DispatcherFree
  <2> QED  BY <1>0, <2>1 DEF TypeOK, DispatchInv, PendingInv
<1>2. CASE Maintain(p, m)
  <2>1. toPost' \in [Job -> SUBSET Field]
    BY <1>0, <1>2 DEF Maintain, MaintenanceFields, TypeOK, Field
  <2>2. /\ check' = [check EXCEPT ![<<p, m>>] = "publish"] /\ "publish" \in Places
        /\ UNCHANGED <<phase, tainted, results, cancelled, jobsQueued, jobsActive, posted>>
    BY <1>2 DEF Maintain, Places
  <2>3. TaintInv' /\ tainted' \in [Job -> BOOLEAN]
    BY <1>0, <2>2 DEF TaintInv, TypeOK
  <2>4. /\ Moves(jobsQueued, jobsQueued', check[<<p, m>>], "publish", {"queued"})
        /\ Moves(jobsActive, jobsActive', check[<<p, m>>], "publish", {"acquire", "execute"})
    BY <1>1, <2>2 DEF Moves, Busy
  <2> QED  BY <1>1, <2>1, <2>2, <2>3, <2>4, CheckStepInv
<1>3. CASE Dispatch(p, m)
  <2>1. /\ check' = [check EXCEPT ![<<p, m>>] = "queued"] /\ "queued" \in Places
        /\ jobsQueued' = jobsQueued + 1
        /\ UNCHANGED <<phase, toPost, tainted, results, cancelled, jobsActive, posted>>
    BY <1>3 DEF Dispatch, Places
  <2>2. TaintInv' /\ tainted' \in [Job -> BOOLEAN] /\ toPost' \in [Job -> SUBSET Field]
    BY <1>0, <2>1 DEF TaintInv, TypeOK
  <2>3. /\ Moves(jobsQueued, jobsQueued', check[<<p, m>>], "queued", {"queued"})
        /\ Moves(jobsActive, jobsActive', check[<<p, m>>], "queued", {"acquire", "execute"})
    BY <1>1, <2>1 DEF Moves, Busy
  <2> QED  BY <1>1, <2>1, <2>2, <2>3, CheckStepInv
<1> QED  BY <1>2, <1>3

(* A worker's steps leave the pending monitors alone.                      *)
LEMMA WorkerStep ==
  ASSUME DispatchInv, NEW p \in Phase, NEW m \in Monitor, NEW v \in Places,
         check[<<p, m>>] \in Busy, check' = [check EXCEPT ![<<p, m>>] = v],
         Moves(jobsQueued, jobsQueued', check[<<p, m>>], v, {"queued"}),
         Moves(jobsActive, jobsActive', check[<<p, m>>], v, {"acquire", "execute"}),
         v # "execute" \/ SlotsUsed(p) < SlotCapacity,
         UNCHANGED <<phase, pending, results, cancelled, posted>>,
         toPost' \in [Job -> SUBSET Field], tainted' \in [Job -> BOOLEAN], TaintInv'
  PROVE  DispatchInv'
<1>1. phase[p] = "dispatch" /\ m \notin pending[p] /\ pending' \in [Phase -> SUBSET Monitor]
  BY DEF DispatchInv, IdleInv, PendingInv, TypeOK
<1> QED  BY <1>1, CheckStepInv

LEMMA Starting ==
  ASSUME DispatchInv, NEW p \in Phase, NEW m \in Monitor,
         \/ p = "response" /\ RefuseByCadence(m)
         \/ StartJob(p, m) \/ AcquireSlot(p, m) \/ AcquireCancelled(p, m) \/ Published(p, m)
  PROVE  DispatchInv'
<1> USE DEF Moves, Busy, Places
<1>0. /\ TaintInv' /\ tainted' \in [Job -> BOOLEAN] /\ toPost' \in [Job -> SUBSET Field]
      /\ UNCHANGED <<phase, pending, results, cancelled, posted>>
  <2>1. UNCHANGED <<phase, pending, toPost, tainted, results, cancelled, posted>>
    BY DEF RefuseByCadence, StartJob, AcquireSlot, AcquireCancelled, Published
  <2> QED  BY <2>1 DEF DispatchInv, TypeOK, TaintInv
<1>1. CASE p = "response" /\ RefuseByCadence(m)
  <2>1. /\ check[<<p, m>>] = "queued" /\ check' = [check EXCEPT ![<<p, m>>] = "done"]
        /\ jobsQueued' = Decrement(jobsQueued) /\ jobsActive' = jobsActive
    BY <1>1 DEF RefuseByCadence, DropQueuedJob
  <2> QED  BY <1>0, <2>1, WorkerStep
<1>2. CASE StartJob(p, m)
  <2>1. /\ check[<<p, m>>] = "queued" /\ check' = [check EXCEPT ![<<p, m>>] = "acquire"]
        /\ jobsQueued' = Decrement(jobsQueued) /\ jobsActive' = jobsActive + 1
    BY <1>2 DEF StartJob
  <2> QED  BY <1>0, <2>1, WorkerStep
<1>3. CASE AcquireSlot(p, m)
  <2>1. /\ check[<<p, m>>] = "acquire" /\ check' = [check EXCEPT ![<<p, m>>] = "execute"]
        /\ jobsQueued' = jobsQueued /\ jobsActive' = jobsActive /\ SlotsUsed(p) < SlotCapacity
    BY <1>3 DEF AcquireSlot
  <2> QED  BY <1>0, <2>1, WorkerStep
<1>4. CASE AcquireCancelled(p, m)
  <2>1. /\ check[<<p, m>>] = "acquire" /\ check' = [check EXCEPT ![<<p, m>>] = "done"]
        /\ jobsQueued' = jobsQueued /\ jobsActive' = Decrement(jobsActive)
    BY <1>4 DEF AcquireCancelled
  <2> QED  BY <1>0, <2>1, WorkerStep
<1>5. CASE Published(p, m)
  <2>1. /\ check[<<p, m>>] = "publish" /\ check' = [check EXCEPT ![<<p, m>>] = "done"]
        /\ jobsQueued' = jobsQueued /\ jobsActive' = jobsActive
    BY <1>5 DEF Published
  <2> QED  BY <1>0, <2>1, WorkerStep
<1> QED  BY <1>1, <1>2, <1>3, <1>4, <1>5

LEMMA Executing ==
  ASSUME DispatchInv, NEW p \in Phase, NEW m \in Monitor, FinishExecute(p, m)
  PROVE  DispatchInv'
<1>0. TypeOK /\ TaintInv /\ <<p, m>> \in Job
  BY DEF DispatchInv, Job
<1>1. PICK F \in ResultFields(p), short \in {FALSE, cancelled} :
        /\ toPost' = [toPost EXCEPT ![<<p, m>>] = F]
        /\ tainted' = [tainted EXCEPT ![<<p, m>>] = short]
  BY DEF FinishExecute
<1>2. /\ check[<<p, m>>] = "execute" /\ check' = [check EXCEPT ![<<p, m>>] = "publish"]
      /\ jobsActive' = Decrement(jobsActive)
      /\ UNCHANGED <<phase, pending, results, cancelled, jobsQueued, posted>>
  BY DEF FinishExecute
<1>3. F \in SUBSET Field
  BY DEF ResultFields, Field
<1>4. toPost' \in [Job -> SUBSET Field] /\ tainted' \in [Job -> BOOLEAN]
  BY <1>0, <1>1, <1>3 DEF TypeOK
<1>5. TaintInv'
  BY <1>0, <1>1, <1>2 DEF TaintInv, TypeOK
<1> QED  BY <1>2, <1>4, <1>5, WorkerStep DEF Moves, Busy, Places

(* What leaves under a context that is not cancelled was not cut short.    *)
LEMMA Publishing ==
  ASSUME DispatchInv, NEW p \in Phase, NEW m \in Monitor, Publish(p, m)
  PROVE  DispatchInv'
<1>0. TypeOK /\ TaintInv /\ CutShortNotPosted /\ <<p, m>> \in Job
  BY DEF DispatchInv, Job
<1>1. /\ UNCHANGED <<phase, pending, check, tainted, results, cancelled, jobsQueued, jobsActive>>
      /\ posted' = posted \/ (~ cancelled /\ posted' = posted \cup {tainted[<<p, m>>]})
      /\ \E f : toPost' = [toPost EXCEPT ![<<p, m>>] = @ \ {f}]
  BY DEF Publish, MayLeave
<1>2. CutShortNotPosted' /\ posted' \subseteq BOOLEAN
  BY <1>0, <1>1 DEF CutShortNotPosted, TaintInv, TypeOK
<1>3. toPost' \in [Job -> SUBSET Field]
  BY <1>0, <1>1 DEF TypeOK
<1>4. TypeOK'
  BY <1>0, <1>1, <1>2, <1>3 DEF TypeOK
<1>5. GaugesExact' /\ SharedBudget' /\ IdleInv'
  BY <1>1, NoCheckMoves
<1>6. TaintInv' /\ PendingInv'
  BY <1>0, <1>1 DEF DispatchInv, TaintInv, PendingInv
<1> QED  BY <1>2, <1>4, <1>5, <1>6 DEF DispatchInv

--------------------------------------------------------------------------
(* The inductive invariant of the run without leases.                      *)
THEOREM DispatchInvariant == Spec => []DispatchInv
<1>1. DispatchInv /\ [Next]_vars => DispatchInv'
  <2> SUFFICES ASSUME DispatchInv, [Next]_vars PROVE DispatchInv'
    OBVIOUS
  <2>1. CASE UNCHANGED vars
    <3>1. Drained \/ UNCHANGED <<phase, pending, checkVars, results, cancelled, jobsQueued, jobsActive, posted>>
      BY <2>1 DEF vars
    <3> QED  BY <3>1, HeadStep, CoordinatorStep DEF checkVars, DispatchInv, TypeOK
  <2>2. CASE StartRun \/ EndRun \/ Cancel \/ Drained
    BY <2>2, CoordinatorStep, RunEnds
  <2>3. ASSUME NEW p \in Phase, PhaseStep(p) PROVE DispatchInv'
    BY <2>3, PhaseHeads, Dispatching DEF PhaseStep
  <2>4. ASSUME NEW p \in Phase, NEW m \in Monitor, CheckStep(p, m) PROVE DispatchInv'
    BY <2>4, Starting, Executing, Publishing DEF CheckStep
  <2> QED  BY <2>1, <2>2, <2>3, <2>4 DEF Next
<1> QED  BY <1>1, DispatchInit, PTL DEF Spec

(* Every variable keeps its type.                                          *)
THEOREM DispatchTypes == Spec => []TypeOK
<1>1. DispatchInv => TypeOK
  BY DEF DispatchInv
<1> QED  BY <1>1, DispatchInvariant, PTL

(* However many phases, workers and monitors, no more checks run at a time *)
(* than there are slots.                                                   *)
THEOREM BudgetIsShared == Spec => []SharedBudget
<1>1. DispatchInv => SharedBudget
  BY DEF DispatchInv
<1> QED  BY <1>1, DispatchInvariant, PTL

(* The gauges count exactly the checks that are queued and active.         *)
THEOREM GaugesAreExact == Spec => []GaugesExact
<1>1. DispatchInv => GaugesExact
  BY DEF DispatchInv
<1> QED  BY <1>1, DispatchInvariant, PTL

(* What was cut short never reaches Core.                                  *)
THEOREM CutShortStays == Spec => []CutShortNotPosted
<1>1. DispatchInv => CutShortNotPosted
  BY DEF DispatchInv
<1> QED  BY <1>1, DispatchInvariant, PTL
--------------------------------------------------------------------------
(* Why the run returns, as far as it can be said without fairness.         *)

(* The phases begin and end together, and what the coordinator's channel   *)
(* holds are the results of those that have returned.                      *)
CollectInv ==
  /\ (\A p \in Phase : phase[p] = "off") \/ (\A p \in Phase : phase[p] # "off")
  /\ results = {p \in Phase : phase[p] = "returned"}

(* What a goroutine of the run waits for has come: in this order the       *)
(* guards of FetchFails, Report, Dispatch and Maintain, PhaseDone,         *)
(* StartJob, AcquireSlot, FinishExecute, Publish and Published, EndRun.    *)
SomeoneCanGoOn ==
  \/ \E p \in Phase : phase[p] = "fetch"
  \/ \E p \in Phase : phase[p] = "report" /\ Cardinality(results) < ResultCapacity
  \/ \E p \in Phase : DispatcherFree(p) /\ pending[p] # {}
  \/ \E p \in Phase : /\ DispatcherFree(p) /\ pending[p] = {}
                      /\ Count(JobsOf(p), {"acquire", "execute", "publish"}) = 0
  \/ \E p \in Phase, m \in Monitor : check[<<p, m>>] = "queued" /\ WorkerFree(p)
  \/ \E p \in Phase, m \in Monitor : check[<<p, m>>] = "acquire" /\ SlotsUsed(p) < SlotCapacity
  \/ \E p \in Phase, m \in Monitor : check[<<p, m>>] \in {"execute", "publish"}
  \/ \A p \in Phase : phase[p] = "returned"

(* While a run is in progress not everyone waits for everyone.             *)
NoneWaitsForAll == (\E p \in Phase : phase[p] # "off") => SomeoneCanGoOn

(* How far a phase, and a check that may still begin, is from its end.     *)
PhaseLeft(p) ==
  CASE phase[p] = "fetch" -> 3 [] phase[p] = "dispatch" -> 2 [] phase[p] = "report" -> 1
    [] OTHER -> 0

One(b) == IF b THEN 1 ELSE 0

FieldsLeft(F) == One("response" \in F) + One("ssl" \in F) + One("domain" \in F)

PlaceLeft(place, F) ==
  CASE place = "queued" -> 8 [] place = "acquire" -> 7 [] place = "execute" -> 6
    [] place = "publish" -> 1 + FieldsLeft(F)
    [] OTHER -> 0

CheckLeft(p, m) ==
  IF phase[p] = "fetch" \/ m \in pending[p] THEN 9 ELSE PlaceLeft(check[<<p, m>>], toPost[<<p, m>>])

NothingGrows ==
  /\ \A p \in Phase : PhaseLeft(p)' <= PhaseLeft(p)
  /\ \A p \in Phase, m \in Monitor : CheckLeft(p, m)' <= CheckLeft(p, m)

SomethingShrinks ==
  \/ \E p \in Phase : PhaseLeft(p)' < PhaseLeft(p)
  \/ \E p \in Phase, m \in Monitor : CheckLeft(p, m)' < CheckLeft(p, m)

GoroutineStep ==
  (\E p \in Phase : PhaseStep(p)) \/ (\E p \in Phase, m \in Monitor : CheckStep(p, m))

(* Every step of a goroutine is one of the finitely many the run is made   *)
(* of, and a cancellation adds none.                                       *)
StepsRunOut ==
  [][/\ GoroutineStep => NothingGrows /\ SomethingShrinks
     /\ Cancel => NothingGrows]_vars

LEMMA CollectInit == Init => CollectInv
BY DEF Init, CollectInv

LEMMA CollectStep == ASSUME DispatchInv, CollectInv, [Next]_vars PROVE CollectInv'
<1> USE DEF CollectInv
<1>0. phase \in [Phase -> {"off", "fetch", "dispatch", "report", "returned"}]
  BY DEF DispatchInv, TypeOK
<1>1. CASE UNCHANGED <<phase, results>>
  BY <1>1
<1>2. CASE StartRun \/ EndRun
  BY <1>0, <1>2 DEF StartRun, EndRun
<1>3. ASSUME NEW p \in Phase, NEW place \in {"report", "dispatch"},
             phase[p] \in {"fetch", "dispatch"}, phase' = [phase EXCEPT ![p] = place],
             UNCHANGED results
      PROVE  CollectInv'
  BY <1>0, <1>3
<1>4. ASSUME NEW p \in Phase, Report(p)
      PROVE  CollectInv'
  BY <1>0, <1>4 DEF Report
<1>5. ASSUME NEW p \in Phase, PhaseStep(p)
      PROVE  CollectInv'
  <2>1. CASE NotDue(p) \/ FetchFails(p)
    BY <1>3, <2>1 DEF NotDue, FetchFails
  <2>2. ASSUME NEW monitors \in SUBSET Monitor, Fetched(p, monitors) PROVE CollectInv'
    BY <1>3, <2>2 DEF Fetched
  <2>3. ASSUME NEW m \in Monitor, Maintain(p, m) \/ Dispatch(p, m) \/ SkipNotDue(m)
        PROVE  CollectInv'
    BY <1>1, <2>3 DEF Maintain, Dispatch, SkipNotDue
  <2>4. CASE PhaseDone(p)
    BY <1>3, <2>4 DEF PhaseDone, DispatcherFree
  <2> QED  BY <1>4, <1>5, <2>1, <2>2, <2>3, <2>4 DEF PhaseStep
<1>6. ASSUME NEW p \in Phase, NEW m \in Monitor, CheckStep(p, m)
      PROVE  CollectInv'
  BY <1>1, <1>6 DEF CheckStep, RefuseByCadence, StartJob, AcquireSlot, AcquireCancelled,
                    FinishExecute, Publish, Published
<1>7. CASE Cancel \/ Drained \/ UNCHANGED vars
  BY <1>1, <1>7 DEF Cancel, Drained, vars
<1> QED  BY <1>2, <1>5, <1>6, <1>7 DEF Next

LEMMA PhaseFinite == IsFiniteSet(Phase)
<1>1. IsFiniteSet({"response"} \cup {"ssl"})
  BY FS_Singleton, FS_Union
<1>2. IsFiniteSet(({"response"} \cup {"ssl"}) \cup {"domain_expiration"})
  BY <1>1, FS_Singleton, FS_Union
<1>3. Phase = ({"response"} \cup {"ssl"}) \cup {"domain_expiration"}
  BY DEF Phase
<1> QED  BY <1>2, <1>3

(* There is room in the channel for every phase that has not returned.     *)
LEMMA RoomToReport ==
  ASSUME CollectInv, NEW p \in Phase, phase[p] # "returned"
  PROVE  Cardinality(results) < ResultCapacity
<1>1. results \in SUBSET Phase /\ results # Phase
  BY DEF CollectInv
<1>2. Cardinality(results) <= Cardinality(Phase) /\ Cardinality(results) # Cardinality(Phase)
  BY <1>1, PhaseFinite, FS_Subset
<1>3. Cardinality(results) \in Nat /\ Cardinality(Phase) \in Nat
  BY <1>1, PhaseFinite, FS_Subset, FS_CardinalityType
<1> QED  BY <1>2, <1>3 DEF ResultCapacity

(* When no slot is free a check is being executed, and when no worker of a *)
(* phase is free one of them has a check.                                  *)
LEMMA SlotsTaken ==
  ASSUME NEW p \in Phase, ~ (SlotsUsed(p) < SlotCapacity)
  PROVE  \E q \in Phase, m \in Monitor : check[<<q, m>>] = "execute"
<1> DEFINE E == {j \in Job : check[j] \in {"execute"}}
<1>1. SlotCapacity >= 1 /\ SlotCapacity \in Nat
  BY PhaseDispatchAssumption DEF SlotCapacity, Greater
<1>2. Cardinality(E) \in Nat /\ ~ (Cardinality(E) < SlotCapacity)
  <2>1. IsFiniteSet(E)
    BY JobFinite, FS_Subset
  <2> QED  BY <2>1, FS_CardinalityType DEF SlotsUsed, Count
<1>3. E # {}
  BY <1>1, <1>2, FS_EmptySet
<1>4. PICK j \in Job : check[j] = "execute"
  BY <1>3
<1> QED  BY <1>4 DEF Job

LEMMA WorkersTaken ==
  ASSUME NEW p \in Phase, ~ WorkerFree(p)
  PROVE  \E m \in Monitor : check[<<p, m>>] \in {"acquire", "execute", "publish"}
<1> DEFINE W == {m \in Monitor \ InMaintenance :
                   check[<<p, m>>] \in {"acquire", "execute", "publish"}}
<1>1. WorkerLimit >= 1 /\ WorkerLimit \in Nat
  BY PhaseDispatchAssumption DEF WorkerLimit, Greater, Lesser
<1>2. Cardinality(W) \in Nat /\ ~ (Cardinality(W) < WorkerLimit)
  <2>1. IsFiniteSet(W)
    BY PhaseDispatchAssumption, FS_Subset
  <2> QED  BY <2>1, FS_CardinalityType DEF WorkerFree
<1>3. W # {}
  <2>1. Cardinality({}) = 0
    BY FS_EmptySet
  <2> HIDE DEF W
  <2> QED  BY <1>1, <1>2, <2>1
<1> QED  BY <1>3

(* The places of a phase without such checks count as zero.                *)
LEMMA CountNone ==
  ASSUME NEW p \in Phase, NEW P, \A m \in Monitor : check[<<p, m>>] \notin P
  PROVE  Count(JobsOf(p), P) = 0
<1>1. {j \in JobsOf(p) : check[j] \in P} = {}
  BY DEF JobsOf
<1> QED  BY <1>1, FS_EmptySet DEF Count

LEMMA SomeoneGoesOn == ASSUME DispatchInv, CollectInv PROVE NoneWaitsForAll
<1> SUFFICES ASSUME NEW p \in Phase, phase[p] # "off" PROVE SomeoneCanGoOn
  BY DEF NoneWaitsForAll
<1>0. phase \in [Phase -> {"off", "fetch", "dispatch", "report", "returned"}]
  BY DEF DispatchInv, TypeOK
<1>1. CASE \E q \in Phase : phase[q] \in {"fetch", "report"}
  BY <1>1, RoomToReport DEF SomeoneCanGoOn
<1>2. CASE \A q \in Phase : phase[q] = "returned"
  BY <1>2 DEF SomeoneCanGoOn
<1>3. ASSUME NEW q \in Phase, phase[q] = "dispatch" PROVE SomeoneCanGoOn
  <2>1. CASE \E r \in Phase, m \in Monitor : check[<<r, m>>] \in {"execute", "publish"}
    BY <2>1 DEF SomeoneCanGoOn
  <2>2. CASE ~ \E r \in Phase, m \in Monitor : check[<<r, m>>] \in {"execute", "publish"}
    <3>1. CASE \E m \in Monitor : check[<<q, m>>] = "acquire"
      BY <2>2, <3>1, SlotsTaken DEF SomeoneCanGoOn
    <3>2. CASE (\E m \in Monitor : check[<<q, m>>] = "queued")
               /\ (\A m \in Monitor : check[<<q, m>>] # "acquire")
      BY <2>2, <3>2, WorkersTaken DEF SomeoneCanGoOn
    <3>3. CASE \A m \in Monitor : check[<<q, m>>] \notin {"queued", "acquire"}
      <4>1. /\ Count(JobsOf(q), {"queued"}) = 0
            /\ Count(JobsOf(q), {"acquire", "execute", "publish"}) = 0
        BY <2>2, <3>3, CountNone
      <4>2. DispatcherFree(q)
        BY <1>3, <2>2, <4>1, PhaseDispatchAssumption DEF DispatcherFree
      <4> QED  BY <4>1, <4>2 DEF SomeoneCanGoOn
    <3> QED  BY <3>1, <3>2, <3>3
  <2> QED  BY <2>1, <2>2
<1>4. \A q \in Phase : phase[q] \in {"fetch", "report", "returned", "dispatch"}
  BY <1>0 DEF CollectInv
<1> QED  BY <1>1, <1>2, <1>3, <1>4

(* However many monitors, workers and slots, whatever fails and whenever   *)
(* the context is cancelled: while the run is in progress some goroutine   *)
(* can go on, so that no dispatcher, worker, slot or report waits for      *)
(* another in a circle (coordinator.go:40-57, runner.go:366-389).          *)
THEOREM NoDeadlock == Spec => []NoneWaitsForAll
<1>1. DispatchInv /\ DispatchInv' /\ CollectInv /\ [Next]_vars => CollectInv'
  BY CollectStep
<1>2. DispatchInv /\ CollectInv => NoneWaitsForAll
  BY SomeoneGoesOn
<1> QED  BY <1>1, <1>2, CollectInit, DispatchInvariant, PTL DEF Spec

(* Every measure is a number, at most nine for a check.                    *)
LEMMA MeasureType == \A place, F : PlaceLeft(place, F) \in 0 .. 8
<1> TAKE place, F
<1>1. FieldsLeft(F) \in 0 .. 3
  BY DEF FieldsLeft, One
<1> QED  BY <1>1 DEF PlaceLeft

LEMMA PhaseLeftType == \A p : PhaseLeft(p) \in 0 .. 3
BY DEF PhaseLeft

LEMMA CheckLeftType == \A p, m : CheckLeft(p, m) \in 0 .. 9
<1> TAKE p, m
<1>1. PlaceLeft(check[<<p, m>>], toPost[<<p, m>>]) \in 0 .. 8
  BY MeasureType
<1> QED  BY <1>1 DEF CheckLeft

(* A step that moves one phase on and takes no monitor back.               *)
LEMMA PhaseShrinks ==
  ASSUME TypeOK, NEW p \in Phase, NEW place,
         \/ phase[p] = "fetch" /\ place \in {"report", "dispatch"}
         \/ phase[p] = "dispatch" /\ place = "report"
         \/ phase[p] = "report" /\ place = "returned",
         phase' = [phase EXCEPT ![p] = place], UNCHANGED <<check, toPost>>,
         \A q \in Phase : q # p \/ phase[p] # "fetch" => pending'[q] = pending[q]
  PROVE  NothingGrows /\ SomethingShrinks
<1> USE DEF TypeOK
<1>1. PhaseLeft(p)' < PhaseLeft(p) /\ \A q \in Phase : q # p => PhaseLeft(q)' = PhaseLeft(q)
  BY DEF PhaseLeft
<1>2. \A q \in Phase, m \in Monitor : CheckLeft(q, m)' <= CheckLeft(q, m)
  <2> TAKE q \in Phase, m \in Monitor
  <2>1. CASE q = p /\ phase[p] = "fetch"
    <3>1. CheckLeft(q, m) = 9
      BY <2>1 DEF CheckLeft
    <3>2. CheckLeft(q, m)' = 9 \/ CheckLeft(q, m)' = PlaceLeft(check[<<q, m>>], toPost[<<q, m>>])
      BY DEF CheckLeft, PlaceLeft, FieldsLeft
    <3> QED  BY <3>1, <3>2, MeasureType
  <2>2. CASE ~ (q = p /\ phase[p] = "fetch")
    <3>1. pending'[q] = pending[q] /\ (phase'[q] = "fetch" <=> phase[q] = "fetch")
      BY <2>2
    <3>2. CheckLeft(q, m)' = CheckLeft(q, m)
      BY <3>1 DEF CheckLeft, PlaceLeft, FieldsLeft
    <3> QED  BY <3>2, CheckLeftType
  <2> QED  BY <2>1, <2>2
<1>3. \A q \in Phase : PhaseLeft(q)' <= PhaseLeft(q)
  <2> TAKE q \in Phase
  <2>1. PhaseLeft(q) \in 0 .. 3 /\ PhaseLeft(p) \in 0 .. 3
    BY PhaseLeftType
  <2>2. PhaseLeft(p)' <= PhaseLeft(p)
    BY DEF PhaseLeft
  <2> QED  BY <1>1, <2>1, <2>2
<1> QED  BY <1>1, <1>2, <1>3 DEF NothingGrows, SomethingShrinks

(* A step that moves one check on, or takes it from the pending ones.      *)
LEMMA CheckShrinks ==
  ASSUME NEW p \in Phase, NEW m \in Monitor, UNCHANGED phase,
         CheckLeft(p, m)' < CheckLeft(p, m),
         \A q \in Phase, n \in Monitor : <<q, n>> # <<p, m>> =>
           /\ check'[<<q, n>>] = check[<<q, n>>] /\ toPost'[<<q, n>>] = toPost[<<q, n>>]
           /\ n \in pending'[q] <=> n \in pending[q]
  PROVE  NothingGrows /\ SomethingShrinks
<1>1. \A q \in Phase : PhaseLeft(q)' = PhaseLeft(q)
  BY DEF PhaseLeft
<1>2. ASSUME NEW q \in Phase, NEW n \in Monitor, <<q, n>> # <<p, m>>
      PROVE  CheckLeft(q, n)' = CheckLeft(q, n)
  BY <1>2 DEF CheckLeft, PlaceLeft, FieldsLeft
<1>3. \A q \in Phase, n \in Monitor : CheckLeft(q, n) \in 0 .. 9
  BY CheckLeftType
<1>4. \A q \in Phase, n \in Monitor : CheckLeft(q, n)' <= CheckLeft(q, n)
  <2> TAKE q \in Phase, n \in Monitor
  <2>1. CASE <<q, n>> = <<p, m>>
    <3>1. q = p /\ n = m
      BY <2>1
    <3>2. CheckLeft(p, m)' \in Int /\ CheckLeft(p, m) \in Int
      <4>1. CheckLeft(p, m) \in Int
        BY <1>3
      <4>2. CheckLeft(p, m)' = 9 \/ CheckLeft(p, m)' = PlaceLeft(check'[<<p, m>>], toPost'[<<p, m>>])
        BY DEF CheckLeft, PlaceLeft, FieldsLeft
      <4> QED  BY <4>1, <4>2, MeasureType
    <3> QED  BY <3>1, <3>2
  <2>2. CASE <<q, n>> # <<p, m>>
    BY <1>2, <1>3, <2>2
  <2> QED  BY <2>1, <2>2
<1>5. \A q \in Phase : PhaseLeft(q)' <= PhaseLeft(q)
  BY <1>1, PhaseLeftType
<1> QED  BY <1>4, <1>5 DEF NothingGrows, SomethingShrinks

LEMMA HeadShrinks ==
  ASSUME DispatchInv, NEW p \in Phase,
         NotDue(p) \/ FetchFails(p) \/ (\E monitors \in SUBSET Monitor : Fetched(p, monitors))
           \/ PhaseDone(p) \/ Report(p)
  PROVE  NothingGrows /\ SomethingShrinks
<1> USE DEF checkVars
<1>0. TypeOK
  BY DEF DispatchInv
<1>1. CASE NotDue(p) \/ FetchFails(p)
  BY <1>0, <1>1, PhaseShrinks DEF NotDue, FetchFails
<1>2. ASSUME NEW monitors \in SUBSET Monitor, Fetched(p, monitors)
      PROVE  NothingGrows /\ SomethingShrinks
  <2>1. \A q \in Phase : q # p => pending'[q] = pending[q]
    BY <1>0, <1>2 DEF Fetched, TypeOK
  <2>2. phase[p] = "fetch" /\ UNCHANGED <<check, toPost>>
    BY <1>2 DEF Fetched
  <2>3. PICK place \in {"report", "dispatch"} : phase' = [phase EXCEPT ![p] = place]
    BY <1>2 DEF Fetched
  <2> QED  BY <1>0, <2>1, <2>2, <2>3, PhaseShrinks
<1>3. CASE PhaseDone(p)
  <2>1. phase[p] = "dispatch" /\ phase' = [phase EXCEPT ![p] = "report"]
        /\ UNCHANGED <<pending, check, toPost>>
    BY <1>3 DEF PhaseDone, DispatcherFree
  <2> QED  BY <1>0, <2>1, PhaseShrinks
<1>4. CASE Report(p)
  <2>1. phase[p] = "report" /\ phase' = [phase EXCEPT ![p] = "returned"]
        /\ UNCHANGED <<pending, check, toPost>>
    BY <1>4 DEF Report
  <2> QED  BY <1>0, <2>1, PhaseShrinks
<1> QED  BY <1>1, <1>2, <1>3, <1>4

LEMMA DispatchShrinks ==
  ASSUME DispatchInv, NEW p \in Phase, NEW m \in Monitor,
         Maintain(p, m) \/ Dispatch(p, m) \/ (p = "response" /\ SkipNotDue(m))
  PROVE  NothingGrows /\ SomethingShrinks
<1>0. TypeOK /\ <<p, m>> \in Job
  BY DEF DispatchInv, Job
<1>1. phase[p] = "dispatch" /\ m \in pending[p] /\ pending' = [pending EXCEPT ![p] = @ \ {m}]
      /\ UNCHANGED phase
  BY DEF Maintain, Dispatch, SkipNotDue, Taken, DispatcherFree
<1>2. \A q \in Phase, n \in Monitor : <<q, n>> # <<p, m>> =>
           /\ check'[<<q, n>>] = check[<<q, n>>] /\ toPost'[<<q, n>>] = toPost[<<q, n>>]
           /\ n \in pending'[q] <=> n \in pending[q]
  <2> SUFFICES ASSUME NEW q \in Phase, NEW n \in Monitor, <<q, n>> # <<p, m>>
               PROVE  /\ check'[<<q, n>>] = check[<<q, n>>] /\ toPost'[<<q, n>>] = toPost[<<q, n>>]
                      /\ n \in pending'[q] <=> n \in pending[q]
    OBVIOUS
  <2>1. n \in pending'[q] <=> n \in pending[q]
    BY <1>0, <1>1 DEF TypeOK
  <2>2. <<q, n>> \in Job
    BY DEF Job
  <2> QED  BY <1>0, <2>1, <2>2 DEF Maintain, Dispatch, SkipNotDue, checkVars, TypeOK
<1>3. CheckLeft(p, m) = 9
  BY <1>1 DEF CheckLeft
<1>4. CheckLeft(p, m)' = PlaceLeft(check'[<<p, m>>], toPost'[<<p, m>>])
  BY <1>0, <1>1 DEF CheckLeft, TypeOK, PlaceLeft, FieldsLeft
<1> QED  BY <1>1, <1>2, <1>3, <1>4, MeasureType, CheckShrinks

LEMMA StepShrinks ==
  ASSUME DispatchInv, NEW p \in Phase, NEW m \in Monitor, CheckStep(p, m)
  PROVE  NothingGrows /\ SomethingShrinks
<1>0. TypeOK /\ <<p, m>> \in Job
  BY DEF DispatchInv, Job
<1> DEFINE here == check[<<p, m>>]
           there == check'[<<p, m>>]
           before == toPost[<<p, m>>]
           after == toPost'[<<p, m>>]
<1>1. UNCHANGED <<phase, pending>> /\ here \in Busy
  BY DEF CheckStep, RefuseByCadence, StartJob, AcquireSlot, AcquireCancelled, FinishExecute,
         Publish, Published, Busy
<1>2. phase[p] = "dispatch" /\ m \notin pending[p]
  BY <1>1 DEF DispatchInv, IdleInv, PendingInv
<1>3. \A q \in Phase, n \in Monitor : <<q, n>> # <<p, m>> =>
           /\ check'[<<q, n>>] = check[<<q, n>>] /\ toPost'[<<q, n>>] = toPost[<<q, n>>]
           /\ n \in pending'[q] <=> n \in pending[q]
  <2> SUFFICES ASSUME NEW q \in Phase, NEW n \in Monitor, <<q, n>> # <<p, m>>
               PROVE  check'[<<q, n>>] = check[<<q, n>>] /\ toPost'[<<q, n>>] = toPost[<<q, n>>]
    BY <1>1
  <2>1. <<q, n>> \in Job
    BY DEF Job
  <2>2. (UNCHANGED check \/ \E v : check' = [check EXCEPT ![<<p, m>>] = v])
        /\ (UNCHANGED toPost \/ \E F : toPost' = [toPost EXCEPT ![<<p, m>>] = F])
    BY DEF CheckStep, RefuseByCadence, StartJob, AcquireSlot, AcquireCancelled, FinishExecute,
           Publish, Published
  <2> QED  BY <1>0, <2>1, <2>2 DEF TypeOK
<1>4. \/ here = "queued" /\ there \in {"done", "acquire"}
      \/ here = "acquire" /\ there \in {"done", "execute"}
      \/ here = "execute" /\ there = "publish"
      \/ here = "publish" /\ there = "publish" /\ \E f \in before : after = before \ {f}
      \/ here = "publish" /\ there = "done"
  <2>1. CASE Publish(p, m)
    <3>1. before \subseteq Field /\ before # {} /\ here = "publish" /\ there = "publish"
      BY <1>0, <2>1 DEF Publish, TypeOK
    <3>2. after = before \ {NextField(before)}
      BY <1>0, <2>1 DEF Publish, TypeOK
    <3>3. NextField(before) \in before
      BY <3>1 DEF NextField, Field
    <3> QED  BY <3>1, <3>2, <3>3
  <2>2. CASE ~ Publish(p, m)
    BY <1>0, <2>2 DEF CheckStep, RefuseByCadence, StartJob, AcquireSlot, AcquireCancelled,
                      FinishExecute, Published, TypeOK
  <2> QED  BY <2>1, <2>2
<1>5. before \subseteq Field
  BY <1>0 DEF TypeOK
<1>6. CheckLeft(p, m) = PlaceLeft(here, before) /\ CheckLeft(p, m)' = PlaceLeft(there, after)
  BY <1>1, <1>2 DEF CheckLeft, PlaceLeft, FieldsLeft
<1> HIDE DEF here, there, before, after
<1>7. PlaceLeft(there, after) < PlaceLeft(here, before)
  BY <1>4, <1>5 DEF PlaceLeft, FieldsLeft, One, Field
<1> QED  BY <1>1, <1>3, <1>6, <1>7, CheckShrinks

(* A run is over after finitely many steps of its goroutines, nine for a   *)
(* check and three for a phase at most: none of them goes in circles.      *)
(* With NoDeadlock this is what RunReturns needs, but for the fairness     *)
(* that has goroutines that can go on do so.                               *)
THEOREM RunIsBounded == Spec => StepsRunOut
<1>1. ASSUME DispatchInv, GoroutineStep
      PROVE  NothingGrows /\ SomethingShrinks
  <2>1. ASSUME NEW p \in Phase, PhaseStep(p) PROVE NothingGrows /\ SomethingShrinks
    BY <1>1, <2>1, HeadShrinks, DispatchShrinks DEF PhaseStep
  <2>2. ASSUME NEW p \in Phase, NEW m \in Monitor, CheckStep(p, m)
        PROVE  NothingGrows /\ SomethingShrinks
    BY <1>1, <2>2, StepShrinks
  <2> QED  BY <1>1, <2>1, <2>2 DEF GoroutineStep
<1>2. ASSUME Cancel PROVE NothingGrows
  <2>1. UNCHANGED <<phase, pending, check, toPost>>
    BY <1>2 DEF Cancel, checkVars
  <2>2. \A p \in Phase : PhaseLeft(p)' = PhaseLeft(p)
    BY <2>1 DEF PhaseLeft
  <2>3. \A p \in Phase, m \in Monitor : CheckLeft(p, m)' = CheckLeft(p, m)
    BY <2>1 DEF CheckLeft, PlaceLeft, FieldsLeft
  <2>4. \A p \in Phase, m \in Monitor : CheckLeft(p, m) \in 0 .. 9
    BY CheckLeftType
  <2> QED  BY <2>2, <2>3, <2>4, PhaseLeftType DEF NothingGrows
<1>3. DispatchInv /\ [Next]_vars =>
        [(GoroutineStep => NothingGrows /\ SomethingShrinks) /\ (Cancel => NothingGrows)]_vars
  BY <1>1, <1>2
<1> QED  BY <1>3, DispatchInvariant, PTL DEF Spec, StepsRunOut
=============================================================================
