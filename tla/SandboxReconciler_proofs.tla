----------------------- MODULE SandboxReconciler_proofs -----------------------
(***************************************************************************)
(* Proofs about SandboxReconciler for every set of runs, submissions and   *)
(* protocols, and any number of pods, failures and restarts.               *)
(* After them, proofs about SandboxSupervisors, the other half of the      *)
(* sandbox controller, for every threshold of the health check.  The two   *)
(* share no state.                                                         *)
(***************************************************************************)
EXTENDS SandboxReconciler, SandboxSupervisors, TLAPS

-----------------------------------------------------------------------------
(* The inductive invariant: the types, and what is known of each run *)

CallRecord == [at : Steps, st : SandboxStatus, todo : SUBSET Protocols]

Creating == {"get", "nad", "policy", "undoNad", "pod", "delNad", "delPolicy"}
Probing == {"register", "probe", "update"}

\* A pod carries the name of the submission its run benchmarks.
PodsNamed ==
    \A s \in Submissions : pod[s] # NoPod => SubmissionOf[pod[s].run] = s

NoPodOf(r) == \A s \in Submissions : pod[s] # NoPod => pod[s].run # r

\* Where a call is tells the phase of its status; a settled sandbox has no call.
PhaseOfCall(r) ==
    /\ status[r].phase \in Settled => call[r].at = "idle"
    /\ call[r].at \in Creating => call[r].st.phase \in {"unset", "PENDING"}
    /\ call[r].at \in Probing => call[r].st.phase = "RUNNING"
    /\ call[r].st.phase = "RUNNING" => call[r].st.ip # 0

\* createSandbox creates the overlay before the pod, and deletes it only when
\* the run has no pod or when the creation of its pod failed.
OverlayOfCall(r) ==
    /\ call[r].at \in {"nad", "policy", "undoNad", "pod"} => NoPodOf(r)
    /\ call[r].at \in {"policy", "pod"} => r \in nad
    /\ call[r].at = "pod" => r \in policy
    /\ call[r].at = "undoNad" => "policy" \in failed[r]
    /\ call[r].at \in {"delNad", "delPolicy"} => "pod" \in failed[r] \/ NoPodOf(r)

\* The run has given its sandbox up and its clean-up has not failed.
GaveUpCleanly(r) ==
    failed[r] \cap Cleanup = {} => r \notin nad \cup policy /\ NoPodOf(r)

CleanupOfCall(r) ==
    /\ call[r].at = "delPolicy" /\ failed[r] \cap Cleanup = {} => r \notin nad
    /\ call[r].at = "write" /\ call[r].st.phase = "FAILED" => GaveUpCleanly(r)
    /\ status[r].phase = "FAILED" => GaveUpCleanly(r)

Isolated(r) ==
    "pod" \notin failed[r] => NoPodOf(r) \/ r \in nad \cap policy

\* The entry p of the run, if a client would be given it, is as st says, and
\* answered there.
ServedAs(r, st, p) ==
    hash[r][p] # NoEntry /\ hash[r][p].status = "AVAILABLE" =>
        /\ hash[r][p].ip = st.ip
        /\ p \in st.ready
        /\ <<p, st.ip>> \in answered

\* The entries the call has written so far, and those of a running sandbox.
EntriesOfCall(r) ==
    /\ \A p \in Protocols : hash[r][p] # NoEntry => p \in Declares[r]
    /\ call[r].at \in {"probe", "update"} => r \in expires \/ "register" \in failed[r]
    /\ call[r].at = "update" => call[r].todo \subseteq Declares[r]
    /\ failed[r] \cap {"register", "update"} = {} =>
          /\ call[r].at = "update" =>
                /\ \A p \in call[r].st.ready : <<p, call[r].st.ip>> \in answered
                /\ \A p \in Declares[r] \ call[r].todo : ServedAs(r, call[r].st, p)
          /\ call[r].at = "write" /\ call[r].st.phase = "RUNNING" =>
                \A p \in Declares[r] : ServedAs(r, call[r].st, p)
          /\ status[r].phase = "RUNNING" =>
                \A p \in Declares[r] : ServedAs(r, status[r], p)

RunSafe(r) ==
    /\ PhaseOfCall(r)
    /\ OverlayOfCall(r)
    /\ CleanupOfCall(r)
    /\ Isolated(r)
    /\ EntriesOfCall(r)

SafetyInv ==
    /\ TypeOK
    /\ PodsNamed
    /\ \A r \in Runs : RunSafe(r)

-----------------------------------------------------------------------------
(* Facts about calls *)

\* No call is under way: a record of its type, with a status that says nothing.
LEMMA NoCallFacts ==
    /\ NoCall \in CallRecord
    /\ NoCall.at = "idle" /\ NoCall.st.phase = "unset"
<1>1. /\ NewStatus.phase = "unset"
      /\ NewStatus \in SandboxStatus
  BY SandboxAssumption DEF NewStatus, SandboxStatus, Phases, Reasons, Addresses
<1>2. QED
  BY <1>1 DEF NoCall, CallRecord, Steps

\* What Goto does to the calls.
LEMMA GotoFacts ==
    ASSUME TypeOK, NEW r \in Runs, NEW step \in Steps, Goto(r, step)
    PROVE  /\ call' \in [Runs -> CallRecord]
           /\ call'[r].at = step
           /\ call'[r].st = call[r].st
           /\ call'[r].todo = call[r].todo
           /\ \A q \in Runs \ {r} : call'[q] = call[q]
<1>1. call \in [Runs -> CallRecord]
  BY DEF TypeOK, CallRecord
<1>2. call' = [call EXCEPT ![r] = [@ EXCEPT !.at = step]]
  BY DEF Goto
<1>3. [call[r] EXCEPT !.at = step] \in CallRecord
  BY <1>1 DEF CallRecord
<1>4. QED
  BY <1>1, <1>2, <1>3 DEF CallRecord

\* What Return does to the calls.
LEMMA ReturnFacts ==
    ASSUME TypeOK, NEW r \in Runs, NEW ph \in Phases, NEW reason \in Reasons,
           Return(r, ph, reason)
    PROVE  /\ call' \in [Runs -> CallRecord]
           /\ call'[r].at = "write"
           /\ call'[r].st.phase = ph
           /\ call'[r].st.ip = call[r].st.ip
           /\ call'[r].st.ready = call[r].st.ready
           /\ \A q \in Runs \ {r} : call'[q] = call[q]
<1> DEFINE st == [call[r].st EXCEPT !.phase = ph, !.reason = reason]
<1>1. call \in [Runs -> CallRecord]
  BY DEF TypeOK, CallRecord
<1>2. call[r].st \in SandboxStatus
  BY <1>1 DEF CallRecord
<1>3. /\ st \in SandboxStatus /\ st.phase = ph
      /\ st.ip = call[r].st.ip /\ st.ready = call[r].st.ready
  BY <1>2 DEF SandboxStatus
<1> HIDE DEF st
<1>4. call' = [call EXCEPT ![r] = [@ EXCEPT !.at = "write", !.st = st]]
  BY DEF Return, st
<1>5. [call[r] EXCEPT !.at = "write", !.st = st] \in CallRecord
  BY <1>1, <1>3 DEF CallRecord, Steps
<1>6. QED
  BY <1>1, <1>3, <1>4, <1>5 DEF CallRecord

\* A call that fails is noted, and nothing that was noted is forgotten.
LEMMA FailsFacts ==
    ASSUME TypeOK, NEW r \in Runs, NEW kind \in Calls, Fails(r, kind) \/ Succeeds
    PROVE  /\ failed' \in [Runs -> SUBSET Calls]
           /\ \A q \in Runs : failed[q] \subseteq failed'[q]
           /\ \A q \in Runs \ {r} : failed'[q] = failed[q]
           /\ Fails(r, kind) => kind \in failed'[r]
           /\ Succeeds => failed' = failed
<1>1. failed \in [Runs -> SUBSET Calls]
  BY DEF TypeOK
<1>2. failed' = [failed EXCEPT ![r] = @ \cup {kind}] \/ failed' = failed
  BY DEF Fails, Succeeds
<1>3. Fails(r, kind) => failed' = [failed EXCEPT ![r] = @ \cup {kind}]
  BY DEF Fails
<1>4. Succeeds => failed' = failed
  BY DEF Succeeds
<1>5. QED
  BY <1>1, <1>2, <1>3, <1>4

\* A run keeps what is known of it while others act: its call is where it was
\* or lost, nothing is deleted from under it, and it gets no pod.
Undisturbed(q) ==
    /\ call'[q] \in {call[q], NoCall}
    /\ status'[q] = status[q]
    /\ hash'[q] = hash[q]
    /\ failed[q] \subseteq failed'[q]
    /\ q \in nad' <=> q \in nad
    /\ q \in policy' <=> q \in policy
    /\ expires \subseteq expires'
    /\ answered \subseteq answered'
    /\ \A s \in Submissions : pod'[s] # NoPod =>
          pod'[s].run # q \/ (pod[s] # NoPod /\ pod[s].run = pod'[s].run)

\* A run nobody disturbs stays safe.
LEMMA UndisturbedIsSafe ==
    ASSUME NEW q \in Runs, RunSafe(q), Undisturbed(q)
    PROVE  RunSafe(q)'
<1>1. NoPodOf(q) => NoPodOf(q)'
  BY DEF Undisturbed, NoPodOf
<1>2. PhaseOfCall(q)'
  <2>1. PhaseOfCall(q) /\ status'[q] = status[q]
    BY DEF Undisturbed, RunSafe
  <2>2. CASE call'[q] = call[q]
    BY <2>1, <2>2 DEF PhaseOfCall, Creating, Probing, Settled, Phases
  <2>3. CASE call'[q] = NoCall
    <3>1. call'[q].at = "idle" /\ call'[q].st.phase = "unset"
      BY <2>3 DEF NoCall, NewStatus
    <3>2. QED
      BY <2>1, <3>1 DEF PhaseOfCall, Creating, Probing
  <2>4. QED
    BY <2>2, <2>3 DEF Undisturbed
<1>3. OverlayOfCall(q)'
  BY <1>1 DEF Undisturbed, RunSafe, OverlayOfCall, NoCall
<1>4. CleanupOfCall(q)'
  BY <1>1 DEF Undisturbed, RunSafe, CleanupOfCall, GaveUpCleanly, NoCall
<1>5. Isolated(q)'
  BY <1>1 DEF Undisturbed, RunSafe, Isolated
<1>6. EntriesOfCall(q)'
  <2>1. \A st, p : ServedAs(q, st, p) => ServedAs(q, st, p)'
    BY DEF Undisturbed, ServedAs
  <2>2. QED
    BY <2>1 DEF Undisturbed, RunSafe, EntriesOfCall, NoCall
<1>7. QED
  BY <1>2, <1>3, <1>4, <1>5, <1>6 DEF RunSafe

\* What a step of run r has to show: the types, the names of the pods, and the
\* safety of r itself; every other run must be left undisturbed.
LEMMA StepOfRun ==
    ASSUME SafetyInv, NEW r \in Runs, TypeOK', PodsNamed', RunSafe(r)',
           \A q \in Runs \ {r} : Undisturbed(q)
    PROVE  SafetyInv'
<1>1. ASSUME NEW q \in Runs
      PROVE  RunSafe(q)'
  <2>1. CASE q = r
    BY <2>1
  <2>2. CASE q # r
    BY <2>2, UndisturbedIsSafe DEF SafetyInv
  <2>3. QED
    BY <2>1, <2>2
<1>2. QED
  BY <1>1 DEF SafetyInv

-----------------------------------------------------------------------------
(* The steps of a call *)

\* A call begins for a sandbox that is not settled: it creates nothing yet.
LEMMA ReconcileStep ==
    ASSUME SafetyInv, NEW r \in Runs, Reconcile(r)
    PROVE  SafetyInv'
<1>1. TypeOK /\ PodsNamed /\ RunSafe(r)
  BY DEF SafetyInv
<1>2. /\ call[r].at = "idle" /\ status[r].phase \notin Settled
      /\ call' = [call EXCEPT ![r] = [at |-> "get", st |-> status[r], todo |-> {}]]
      /\ UNCHANGED <<pod, started, nad, policy, hash, expires, status, answered, failed>>
  BY DEF Reconcile, At, kube, redis
<1>4. /\ call' \in [Runs -> CallRecord]
      /\ call'[r].at = "get" /\ call'[r].st = status[r]
      /\ \A q \in Runs \ {r} : call'[q] = call[q]
  BY <1>1, <1>2 DEF TypeOK, CallRecord, Steps
<1>5. TypeOK'
  BY <1>1, <1>2, <1>4 DEF TypeOK, CallRecord
<1>6. PodsNamed'
  BY <1>1, <1>2 DEF PodsNamed
<1>7. RunSafe(r)'
  <2>1. PhaseOfCall(r)'
    BY <1>1, <1>2, <1>4 DEF TypeOK, RunSafe, PhaseOfCall, Creating, Probing, Settled, Phases, SandboxStatus
  <2>2. OverlayOfCall(r)' /\ Isolated(r)'
    BY <1>1, <1>2, <1>4 DEF RunSafe, OverlayOfCall, Isolated, NoPodOf
  <2>3. CleanupOfCall(r)'
    BY <1>1, <1>2, <1>4 DEF RunSafe, CleanupOfCall, GaveUpCleanly, NoPodOf
  <2>4. EntriesOfCall(r)'
    BY <1>1, <1>2, <1>4 DEF RunSafe, EntriesOfCall, ServedAs
  <2>5. QED
    BY <2>1, <2>2, <2>3, <2>4 DEF RunSafe
<1>8. \A q \in Runs \ {r} : Undisturbed(q)
  BY <1>2, <1>4 DEF Undisturbed
<1>9. QED
  BY <1>5, <1>6, <1>7, <1>8, StepOfRun

\* The call sees the run's pod, of this run or of another of its submission: the
\* status it will write follows the pod's phase, and takes its address once it runs.
LEMMA SyncFacts ==
    ASSUME TypeOK, NEW r \in Runs, call[r].st.phase \in {"unset", "PENDING"},
           PodOf(r) # NoPod, SyncPhaseFromPod(r, PodOf(r))
    PROVE  /\ call' \in [Runs -> CallRecord]
           /\ \/ /\ call'[r].at = "write"
                 /\ call'[r].st.phase \in {"CRASHED", "COMPLETED", "PENDING"}
              \/ /\ call'[r].at \in {"write", "register"}
                 /\ call'[r].at = "write" => Declares[r] = {}
                 /\ call'[r].st.phase = "RUNNING" /\ call'[r].st.ip # 0
           /\ \A q \in Runs \ {r} : call'[q] = call[q]
<1> DEFINE p == PodOf(r)
<1>1. /\ call[r] \in CallRecord /\ call[r].st \in SandboxStatus
      /\ call \in [Runs -> CallRecord] /\ call[r].st.reason \in Reasons
  BY DEF TypeOK, CallRecord, SandboxStatus
<1>2. /\ p \in Pod
      /\ p.phase = "Running" => p.ip # 0
  BY SandboxAssumption DEF TypeOK, PodOf
<1>3. CASE p.phase = "Running"
  <2> DEFINE st == [call[r].st EXCEPT !.phase = "RUNNING", !.ip = p.ip]
             at == IF Declares[r] = {} THEN "write" ELSE "register"
  <2>1. call' = [call EXCEPT ![r] = [@ EXCEPT !.at = at, !.st = st]]
    BY <1>2, <1>3 DEF SyncPhaseFromPod, Pod
  <2>2. st \in SandboxStatus /\ st.phase = "RUNNING" /\ st.ip # 0
    BY <1>1, <1>2, <1>3 DEF SandboxStatus, Pod, Phases
  <2>3. at \in Steps
    BY DEF Steps
  <2> HIDE DEF st
  <2>4. [call[r] EXCEPT !.at = at, !.st = st] \in CallRecord
    BY <1>1, <2>2, <2>3 DEF CallRecord
  <2>5. QED
    BY <1>1, <2>1, <2>2, <2>4 DEF CallRecord
<1>4. CASE p.phase # "Running"
  <2>1. \E ph \in {"CRASHED", "COMPLETED", "PENDING"}, reason \in Reasons : Return(r, ph, reason)
    BY <1>1, <1>2, <1>4 DEF SyncPhaseFromPod, Pod, Reasons
  <2>2. PICK ph \in {"CRASHED", "COMPLETED", "PENDING"}, reason \in Reasons : Return(r, ph, reason)
    BY <2>1
  <2>3. ph \in Phases
    BY DEF Phases
  <2>4. QED
    BY <2>2, <2>3, ReturnFacts
<1>5. QED
  BY <1>3, <1>4

\* The call reads the pod: it fails, or finds none, or follows the one it finds.
LEMMA GetPodStep ==
    ASSUME SafetyInv, NEW r \in Runs, GetPod(r)
    PROVE  SafetyInv'
<1>1. TypeOK /\ PodsNamed /\ RunSafe(r)
  BY DEF SafetyInv
<1>2. /\ call[r].at = "get"
      /\ UNCHANGED <<pod, started, nad, policy, hash, expires, status, answered>>
  BY DEF GetPod, At, kube, redis
<1>3. call[r].st.phase \in {"unset", "PENDING"} /\ status[r].phase \notin Settled
  BY <1>1, <1>2 DEF RunSafe, PhaseOfCall, Creating
<1>4. /\ failed' \in [Runs -> SUBSET Calls]
      /\ \A q \in Runs : failed[q] \subseteq failed'[q]
  BY <1>1, FailsFacts DEF GetPod, Calls, Steps
<1>5. /\ call' \in [Runs -> CallRecord]
      /\ \A q \in Runs \ {r} : call'[q] = call[q]
      /\ \/ call'[r] = NoCall
         \/ /\ PodOf(r) = NoPod
            /\ call'[r].at = "nad" /\ call'[r].st = call[r].st
         \/ /\ call'[r].at = "write"
            /\ call'[r].st.phase \in {"CRASHED", "COMPLETED", "PENDING"}
         \/ /\ call'[r].at \in {"write", "register"}
            /\ call'[r].at = "write" => Declares[r] = {}
            /\ call'[r].st.phase = "RUNNING" /\ call'[r].st.ip # 0
  <2>1. CASE call' = [call EXCEPT ![r] = NoCall]
    BY <1>1, <2>1, NoCallFacts DEF TypeOK, CallRecord
  <2>2. CASE PodOf(r) = NoPod /\ Goto(r, "nad")
    BY <1>1, <2>2, GotoFacts DEF Steps
  <2>3. CASE PodOf(r) # NoPod /\ SyncPhaseFromPod(r, PodOf(r))
    BY <1>1, <1>3, <2>3, SyncFacts
  <2>4. QED
    BY <2>1, <2>2, <2>3 DEF GetPod
<1>6. TypeOK'
  BY <1>1, <1>2, <1>4, <1>5 DEF TypeOK, CallRecord
<1>7. PodsNamed'
  BY <1>1, <1>2 DEF PodsNamed
<1>8. RunSafe(r)'
  <2>1. PodOf(r) = NoPod => NoPodOf(r)
    BY <1>1 DEF PodsNamed, PodOf, NoPodOf
  <2>2. PhaseOfCall(r)'
    BY <1>2, <1>3, <1>5, NoCallFacts DEF PhaseOfCall, Creating, Probing
  <2>3. OverlayOfCall(r)' /\ Isolated(r)'
    BY <1>1, <1>2, <1>4, <1>5, <2>1 DEF RunSafe, OverlayOfCall, Isolated, NoPodOf, NoCall
  <2>4. CleanupOfCall(r)'
    BY <1>1, <1>2, <1>3, <1>4, <1>5 DEF RunSafe, CleanupOfCall, NoCall, Settled, Phases
  <2>5. EntriesOfCall(r)'
    BY <1>1, <1>2, <1>4, <1>5 DEF RunSafe, EntriesOfCall, ServedAs, NoCall
  <2>6. QED
    BY <2>2, <2>3, <2>4, <2>5 DEF RunSafe
<1>9. \A q \in Runs \ {r} : Undisturbed(q)
  BY <1>2, <1>4, <1>5 DEF Undisturbed
<1>10. QED
  BY <1>6, <1>7, <1>8, <1>9, StepOfRun

-----------------------------------------------------------------------------
(* createSandbox *)

\* What a step of createSandbox may change: its own run's overlay and call, and the
\* pod of its submission, by creating it.
CreatesOnly(r) ==
    /\ pod' \in {pod, [pod EXCEPT ![SubmissionOf[r]] = BuildPod(r)]}
    /\ UNCHANGED <<started, hash, expires, status, answered>>
    /\ nad' \in {nad, nad \cup {r}, nad \ {r}}
    /\ policy' \in {policy, policy \cup {r}, policy \ {r}}
    /\ call' \in [Runs -> CallRecord]
    /\ \A q \in Runs \ {r} : call'[q] = call[q]
    /\ failed' \in [Runs -> SUBSET Calls]
    /\ \A q \in Runs : failed[q] \subseteq failed'[q]
    /\ \/ /\ call'[r].at \in Creating \ {"get"}
          /\ call'[r].st = call[r].st
       \/ /\ call'[r].at = "write"
          /\ call'[r].st.phase \in {"PENDING", "FAILED"}

\* Such a step keeps the types and disturbs no other run; of its own run it has to
\* show what is known of the overlay.
LEMMA CreatesOnlyStep ==
    ASSUME SafetyInv, NEW r \in Runs, call[r].at \in Creating, CreatesOnly(r),
           OverlayOfCall(r)', CleanupOfCall(r)', Isolated(r)'
    PROVE  SafetyInv'
<1>1. TypeOK /\ PodsNamed /\ RunSafe(r)
  BY DEF SafetyInv
<1>2. /\ SubmissionOf[r] \in Submissions
      /\ BuildPod(r) \in Pod /\ BuildPod(r).run = r /\ BuildPod(r).phase = "Pending"
  BY SandboxAssumption DEF BuildPod, Pod, Addresses
<1>3. ASSUME NEW s \in Submissions
      PROVE  \/ pod'[s] = pod[s]
             \/ s = SubmissionOf[r] /\ pod'[s] = BuildPod(r)
  BY <1>1, <1>2 DEF CreatesOnly, TypeOK
<1>4. TypeOK'
  <2>1. pod' \in [Submissions -> Pod \cup {NoPod}]
    BY <1>1, <1>2 DEF CreatesOnly, TypeOK
  <2>2. \A s \in Submissions :
            pod'[s] # NoPod /\ pod'[s].phase \in {"Running", "Succeeded"} => pod'[s].ip # 0
    BY <1>1, <1>2, <1>3 DEF TypeOK
  <2> HIDE <1>3
  <2>3. nad' \subseteq Runs /\ policy' \subseteq Runs
    BY <1>1 DEF TypeOK, CreatesOnly
  <2>4. \A q \in Runs : (\E p \in Protocols : hash'[q][p] # NoEntry) =>
            q \in expires' \/ "register" \in failed'[q]
    BY <1>1 DEF TypeOK, CreatesOnly
  <2>5. QED
    BY <1>1, <2>1, <2>2, <2>3, <2>4 DEF TypeOK, CreatesOnly, CallRecord
<1>5. PodsNamed'
  BY <1>1, <1>2, <1>3 DEF PodsNamed
<1>6. PhaseOfCall(r)'
  BY <1>1 DEF RunSafe, PhaseOfCall, CreatesOnly, Creating, Probing
<1>7. EntriesOfCall(r)'
  BY <1>1 DEF RunSafe, EntriesOfCall, ServedAs, CreatesOnly, Creating, PhaseOfCall
<1>8. \A q \in Runs \ {r} : Undisturbed(q)
  <2>1. \A q \in Runs \ {r}, s \in Submissions : pod'[s] # NoPod =>
            pod'[s].run # q \/ (pod[s] # NoPod /\ pod[s].run = pod'[s].run)
    BY <1>2, <1>3
  <2>2. QED
    BY <2>1 DEF Undisturbed, CreatesOnly
<1>9. QED
  BY <1>4, <1>5, <1>6, <1>7, <1>8, StepOfRun DEF RunSafe

\* The overlay's NAD: the policy comes next, or the sandbox is given up.
LEMMA CreateNADStep ==
    ASSUME SafetyInv, NEW r \in Runs, CreateNAD(r)
    PROVE  SafetyInv'
<1>1. TypeOK /\ RunSafe(r)
  BY DEF SafetyInv
<1>2. /\ call[r].at = "nad"
      /\ UNCHANGED <<pod, started, policy, hash, expires, status, answered>>
  BY DEF CreateNAD, At, redis
<1>3. /\ failed' \in [Runs -> SUBSET Calls]
      /\ \A q \in Runs : failed[q] \subseteq failed'[q]
  BY <1>1, FailsFacts DEF CreateNAD, Calls, Steps
<1>4. NoPodOf(r) /\ NoPodOf(r)' /\ status[r].phase # "FAILED"
  BY <1>1, <1>2 DEF RunSafe, OverlayOfCall, NoPodOf, PhaseOfCall, Settled, Phases
<1>5. CASE nad' = nad \cup {r} /\ Goto(r, "policy")
  <2>1. /\ call' \in [Runs -> CallRecord]
        /\ call'[r].at = "policy" /\ call'[r].st = call[r].st
        /\ \A q \in Runs \ {r} : call'[q] = call[q]
    BY <1>1, <1>5, GotoFacts DEF Steps
  <2>2. CreatesOnly(r)
    BY <1>2, <1>3, <1>5, <2>1 DEF CreatesOnly, Creating
  <2>3. OverlayOfCall(r)' /\ CleanupOfCall(r)' /\ Isolated(r)'
    BY <1>2, <1>4, <1>5, <2>1 DEF OverlayOfCall, CleanupOfCall, Isolated
  <2>4. QED
    BY <1>2, <2>2, <2>3, CreatesOnlyStep DEF Creating
<1>6. CASE /\ Fails(r, "nad")
           /\ nad' \in {nad, nad \cup {r}}
           /\ Return(r, "FAILED", "NETWORK_SETUP_FAILED")
  <2>1. /\ call' \in [Runs -> CallRecord]
        /\ call'[r].at = "write" /\ call'[r].st.phase = "FAILED"
        /\ \A q \in Runs \ {r} : call'[q] = call[q]
    BY <1>1, <1>6, ReturnFacts DEF Phases, Reasons
  <2>2. CreatesOnly(r)
    BY <1>2, <1>3, <1>6, <2>1 DEF CreatesOnly, Creating
  <2>3. "nad" \in failed'[r]
    BY <1>1, <1>6, FailsFacts DEF Calls, Steps
  <2>4. OverlayOfCall(r)' /\ CleanupOfCall(r)' /\ Isolated(r)'
    BY <1>2, <1>4, <1>6, <2>1, <2>3 DEF OverlayOfCall, CleanupOfCall, GaveUpCleanly, Cleanup, Isolated
  <2>5. QED
    BY <1>2, <2>2, <2>4, CreatesOnlyStep DEF Creating
<1>7. QED
  BY <1>5, <1>6 DEF CreateNAD

\* The overlay's NetworkPolicy: the pod comes next, or the NAD is deleted again.
LEMMA CreateNetworkPolicyStep ==
    ASSUME SafetyInv, NEW r \in Runs, CreateNetworkPolicy(r)
    PROVE  SafetyInv'
<1>1. TypeOK /\ RunSafe(r)
  BY DEF SafetyInv
<1>2. /\ call[r].at = "policy"
      /\ UNCHANGED <<pod, started, nad, hash, expires, status, answered>>
  BY DEF CreateNetworkPolicy, At, redis
<1>3. /\ failed' \in [Runs -> SUBSET Calls]
      /\ \A q \in Runs : failed[q] \subseteq failed'[q]
      /\ Fails(r, "policy") => "policy" \in failed'[r]
  BY <1>1, FailsFacts DEF CreateNetworkPolicy, Calls, Steps
<1>4. NoPodOf(r) /\ NoPodOf(r)' /\ status[r].phase # "FAILED" /\ r \in nad
  BY <1>1, <1>2 DEF RunSafe, OverlayOfCall, NoPodOf, PhaseOfCall, Settled, Phases
<1>5. PICK step \in {"pod", "undoNad"} :
        /\ Goto(r, step)
        /\ policy' \in {policy, policy \cup {r}}
        /\ step = "pod" => r \in policy'
        /\ step = "undoNad" => Fails(r, "policy")
  BY DEF CreateNetworkPolicy
<1>6. /\ call' \in [Runs -> CallRecord]
      /\ call'[r].at = step /\ call'[r].st = call[r].st
      /\ \A q \in Runs \ {r} : call'[q] = call[q]
  BY <1>1, <1>5, GotoFacts DEF Steps
<1>7. CreatesOnly(r)
  BY <1>2, <1>3, <1>5, <1>6 DEF CreatesOnly, Creating
<1>8. OverlayOfCall(r)' /\ CleanupOfCall(r)' /\ Isolated(r)'
  BY <1>2, <1>3, <1>4, <1>5, <1>6 DEF OverlayOfCall, CleanupOfCall, Isolated
<1>9. QED
  BY <1>2, <1>7, <1>8, CreatesOnlyStep DEF Creating

\* The NAD of a sandbox without a policy is deleted, or its deletion fails.
LEMMA UndoNADStep ==
    ASSUME SafetyInv, NEW r \in Runs, UndoNAD(r)
    PROVE  SafetyInv'
<1>1. TypeOK /\ RunSafe(r)
  BY DEF SafetyInv
<1>2. /\ call[r].at = "undoNad"
      /\ nad' \in {nad, nad \ {r}}
      /\ UNCHANGED <<pod, started, policy, hash, expires, status, answered>>
  BY DEF UndoNAD, At, redis
<1>3. /\ failed' \in [Runs -> SUBSET Calls]
      /\ \A q \in Runs : failed[q] \subseteq failed'[q]
  BY <1>1, FailsFacts DEF UndoNAD, Calls, Steps
<1>4. NoPodOf(r) /\ NoPodOf(r)' /\ status[r].phase # "FAILED" /\ "policy" \in failed'[r]
  BY <1>1, <1>2, <1>3 DEF RunSafe, OverlayOfCall, NoPodOf, PhaseOfCall, Settled, Phases
<1>5. /\ call' \in [Runs -> CallRecord]
      /\ call'[r].at = "write" /\ call'[r].st.phase = "FAILED"
      /\ \A q \in Runs \ {r} : call'[q] = call[q]
  BY <1>1, ReturnFacts DEF UndoNAD, Phases, Reasons
<1>6. CreatesOnly(r)
  BY <1>2, <1>3, <1>5 DEF CreatesOnly, Creating
<1>7. OverlayOfCall(r)' /\ CleanupOfCall(r)' /\ Isolated(r)'
  BY <1>2, <1>4, <1>5 DEF OverlayOfCall, CleanupOfCall, GaveUpCleanly, Cleanup, Isolated
<1>8. QED
  BY <1>2, <1>6, <1>7, CreatesOnlyStep DEF Creating

\* The pod is created on the overlay, or a pod of the submission is in the way, or
\* the call fails and may have created it: then the clean-up follows.
LEMMA CreatePodStep ==
    ASSUME SafetyInv, NEW r \in Runs, CreatePod(r)
    PROVE  SafetyInv'
<1>1. TypeOK /\ RunSafe(r)
  BY DEF SafetyInv
<1>2. /\ call[r].at = "pod"
      /\ pod' \in {pod, [pod EXCEPT ![SubmissionOf[r]] = BuildPod(r)]}
      /\ UNCHANGED <<started, nad, policy, hash, expires, status, answered>>
  BY DEF CreatePod, At, redis
<1>3. /\ failed' \in [Runs -> SUBSET Calls]
      /\ \A q \in Runs : failed[q] \subseteq failed'[q]
      /\ Fails(r, "pod") => "pod" \in failed'[r]
  BY <1>1, FailsFacts DEF CreatePod, Calls, Steps
<1>4. NoPodOf(r) /\ status[r].phase # "FAILED" /\ r \in nad /\ r \in policy
  BY <1>1, <1>2 DEF RunSafe, OverlayOfCall, NoPodOf, PhaseOfCall, Settled, Phases
<1>5. CASE Return(r, "PENDING", call[r].st.reason)
  <2>1. call[r].st.reason \in Reasons
    BY <1>1 DEF TypeOK, SandboxStatus
  <2>2. /\ call' \in [Runs -> CallRecord]
        /\ call'[r].at = "write" /\ call'[r].st.phase = "PENDING"
        /\ \A q \in Runs \ {r} : call'[q] = call[q]
    BY <1>1, <1>5, <2>1, ReturnFacts DEF Phases
  <2>3. CreatesOnly(r)
    BY <1>2, <1>3, <2>2 DEF CreatesOnly
  <2>4. OverlayOfCall(r)' /\ CleanupOfCall(r)' /\ Isolated(r)'
    BY <1>2, <1>4, <2>2 DEF OverlayOfCall, CleanupOfCall, Isolated
  <2>5. QED
    BY <1>2, <2>3, <2>4, CreatesOnlyStep DEF Creating
<1>6. CASE Goto(r, "delNad") /\ (pod' = pod \/ Fails(r, "pod"))
  <2>1. /\ call' \in [Runs -> CallRecord]
        /\ call'[r].at = "delNad" /\ call'[r].st = call[r].st
        /\ \A q \in Runs \ {r} : call'[q] = call[q]
    BY <1>1, <1>6, GotoFacts DEF Steps
  <2>2. CreatesOnly(r)
    BY <1>2, <1>3, <2>1 DEF CreatesOnly, Creating
  <2>3. pod' = pod => NoPodOf(r)'
    BY <1>4 DEF NoPodOf
  <2>4. OverlayOfCall(r)' /\ CleanupOfCall(r)' /\ Isolated(r)'
    BY <1>2, <1>3, <1>4, <1>6, <2>1, <2>3 DEF OverlayOfCall, CleanupOfCall, Isolated
  <2>5. QED
    BY <1>2, <2>2, <2>4, CreatesOnlyStep DEF Creating
<1>7. QED
  BY <1>5, <1>6 DEF CreatePod

\* The clean-up deletes the NAD, or notes that it could not.
LEMMA DeleteNADStep ==
    ASSUME SafetyInv, NEW r \in Runs, DeleteNAD(r)
    PROVE  SafetyInv'
<1>1. TypeOK /\ RunSafe(r)
  BY DEF SafetyInv
<1>2. /\ call[r].at = "delNad"
      /\ nad' = nad \ {r} \/ (nad' = nad /\ Fails(r, "delNad"))
      /\ UNCHANGED <<pod, started, policy, hash, expires, status, answered>>
  BY DEF DeleteNAD, At, redis
<1>3. /\ failed' \in [Runs -> SUBSET Calls]
      /\ \A q \in Runs : failed[q] \subseteq failed'[q]
      /\ Fails(r, "delNad") => "delNad" \in failed'[r]
  BY <1>1, FailsFacts DEF DeleteNAD, Calls, Steps
<1>4. /\ "pod" \in failed'[r] \/ (NoPodOf(r) /\ NoPodOf(r)')
      /\ status[r].phase # "FAILED"
  BY <1>1, <1>2, <1>3 DEF RunSafe, OverlayOfCall, NoPodOf, PhaseOfCall, Settled, Phases
<1>5. /\ call' \in [Runs -> CallRecord]
      /\ call'[r].at = "delPolicy" /\ call'[r].st = call[r].st
      /\ \A q \in Runs \ {r} : call'[q] = call[q]
  BY <1>1, GotoFacts DEF DeleteNAD, Steps
<1>6. CreatesOnly(r)
  BY <1>2, <1>3, <1>5 DEF CreatesOnly, Creating
<1>7. OverlayOfCall(r)' /\ CleanupOfCall(r)' /\ Isolated(r)'
  BY <1>2, <1>3, <1>4, <1>5 DEF OverlayOfCall, CleanupOfCall, Cleanup, Isolated
<1>8. QED
  BY <1>2, <1>6, <1>7, CreatesOnlyStep DEF Creating

\* Then the policy: if nothing failed, the run has neither overlay nor pod.
LEMMA DeleteNetworkPolicyStep ==
    ASSUME SafetyInv, NEW r \in Runs, DeleteNetworkPolicy(r)
    PROVE  SafetyInv'
<1>1. TypeOK /\ RunSafe(r)
  BY DEF SafetyInv
<1>2. /\ call[r].at = "delPolicy"
      /\ policy' = policy \ {r} \/ (policy' = policy /\ Fails(r, "delPolicy"))
      /\ UNCHANGED <<pod, started, nad, hash, expires, status, answered>>
  BY DEF DeleteNetworkPolicy, At, redis
<1>3. /\ failed' \in [Runs -> SUBSET Calls]
      /\ \A q \in Runs : failed[q] \subseteq failed'[q]
      /\ Fails(r, "delPolicy") => "delPolicy" \in failed'[r]
  BY <1>1, FailsFacts DEF DeleteNetworkPolicy, Calls, Steps
<1>4. /\ "pod" \in failed'[r] \/ (NoPodOf(r) /\ NoPodOf(r)')
      /\ failed'[r] \cap Cleanup = {} => r \notin nad
      /\ status[r].phase # "FAILED"
  BY <1>1, <1>2, <1>3 DEF RunSafe, OverlayOfCall, CleanupOfCall, NoPodOf, PhaseOfCall, Settled, Phases
<1>5. /\ call' \in [Runs -> CallRecord]
      /\ call'[r].at = "write" /\ call'[r].st.phase = "FAILED"
      /\ \A q \in Runs \ {r} : call'[q] = call[q]
  BY <1>1, ReturnFacts DEF DeleteNetworkPolicy, Phases, Reasons
<1>6. CreatesOnly(r)
  BY <1>2, <1>3, <1>5 DEF CreatesOnly
<1>7. OverlayOfCall(r)' /\ CleanupOfCall(r)' /\ Isolated(r)'
  BY <1>2, <1>3, <1>4, <1>5 DEF OverlayOfCall, CleanupOfCall, GaveUpCleanly, Cleanup, Isolated
<1>8. QED
  BY <1>2, <1>6, <1>7, CreatesOnlyStep DEF Creating

-----------------------------------------------------------------------------
(* registerAndProbeEndpoints *)

\* What a step of registerAndProbeEndpoints may change: its own run's entries and
\* call, which it leaves with the sandbox running at the address it was seen at.
ServesOnly(r) ==
    /\ UNCHANGED <<pod, started, nad, policy, status>>
    /\ hash' \in [Runs -> [Protocols -> EndpointInfo \cup {NoEntry}]]
    /\ expires \subseteq expires' /\ expires' \subseteq Runs
    /\ answered \subseteq answered' /\ answered' \subseteq Protocols \X Addresses
    /\ call' \in [Runs -> CallRecord]
    /\ \A q \in Runs \ {r} : call'[q] = call[q] /\ hash'[q] = hash[q]
    /\ failed' \in [Runs -> SUBSET Calls]
    /\ \A q \in Runs : failed[q] \subseteq failed'[q]
    /\ call'[r].at \in {"probe", "update", "write"}
    /\ call'[r].st.phase = "RUNNING" /\ call'[r].st.ip = call[r].st.ip

\* Such a step keeps the types and disturbs no other run; of its own run it has to
\* show what is known of the entries.
LEMMA ServesOnlyStep ==
    ASSUME SafetyInv, NEW r \in Runs, call[r].at \in Probing, ServesOnly(r),
           r \in expires' \/ "register" \in failed'[r],
           EntriesOfCall(r)'
    PROVE  SafetyInv'
<1>1. TypeOK /\ PodsNamed /\ RunSafe(r)
  BY DEF SafetyInv
<1>2. TypeOK'
  <2>1. \A q \in Runs : (\E p \in Protocols : hash'[q][p] # NoEntry) =>
            q \in expires' \/ "register" \in failed'[q]
    BY <1>1 DEF TypeOK, ServesOnly
  <2>2. QED
    BY <1>1, <2>1 DEF TypeOK, ServesOnly, CallRecord
<1>3. PodsNamed'
  BY <1>1 DEF PodsNamed, ServesOnly
<1>4. PhaseOfCall(r)'
  BY <1>1 DEF RunSafe, PhaseOfCall, ServesOnly, Creating, Probing
<1>5. OverlayOfCall(r)' /\ Isolated(r)'
  BY <1>1 DEF RunSafe, OverlayOfCall, Isolated, NoPodOf, ServesOnly
<1>6. CleanupOfCall(r)'
  BY <1>1 DEF RunSafe, CleanupOfCall, GaveUpCleanly, NoPodOf, ServesOnly
<1>7. \A q \in Runs \ {r} : Undisturbed(q)
  BY DEF Undisturbed, ServesOnly
<1>8. QED
  BY <1>2, <1>3, <1>4, <1>5, <1>6, <1>7, StepOfRun DEF RunSafe

\* An entry the call writes has the types of the hash.
LEMMA EntryFacts ==
    ASSUME TypeOK, NEW r \in Runs, NEW st \in {"AVAILABLE", "UNAVAILABLE"}
    PROVE  Entry(r, st) \in EndpointInfo /\ Entry(r, st).status = st
           /\ Entry(r, st).ip = call[r].st.ip
BY DEF TypeOK, Entry, EndpointInfo, SandboxStatus

\* The declared endpoints are written, all of them unavailable, with a time to
\* live; or the call fails, and may have written them without one.
LEMMA RegisterEndpointsStep ==
    ASSUME SafetyInv, NEW r \in Runs, RegisterEndpoints(r)
    PROVE  SafetyInv'
<1>1. TypeOK /\ RunSafe(r)
  BY DEF SafetyInv
<1>2. /\ call[r].at = "register"
      /\ hash' \in {hash, [hash EXCEPT ![r] = Registered(r)]}
      /\ expires' = expires \cup {r} \/ (expires' = expires /\ Fails(r, "register"))
      /\ UNCHANGED <<pod, started, nad, policy, status, answered>>
  BY DEF RegisterEndpoints, At, kube
<1>3. /\ failed' \in [Runs -> SUBSET Calls]
      /\ \A q \in Runs : failed[q] \subseteq failed'[q]
      /\ Fails(r, "register") => "register" \in failed'[r]
  BY <1>1, FailsFacts DEF RegisterEndpoints, Calls, Steps
<1>4. /\ call' \in [Runs -> CallRecord]
      /\ call'[r].at = "probe" /\ call'[r].st = call[r].st
      /\ \A q \in Runs \ {r} : call'[q] = call[q]
  BY <1>1, GotoFacts DEF RegisterEndpoints, Steps
<1>5. /\ Registered(r) \in [Protocols -> EndpointInfo \cup {NoEntry}]
      /\ \A p \in Protocols : Registered(r)[p] # NoEntry => p \in Declares[r]
  BY <1>1, EntryFacts DEF Registered, RunSafe, EntriesOfCall, TypeOK
<1>6. status[r].phase # "RUNNING" /\ call[r].st.phase = "RUNNING"
  BY <1>1, <1>2 DEF RunSafe, PhaseOfCall, Settled, Phases, Probing
<1>7. ServesOnly(r)
  BY <1>1, <1>2, <1>3, <1>4, <1>5, <1>6 DEF ServesOnly, TypeOK
<1>8. r \in expires' \/ "register" \in failed'[r]
  BY <1>2, <1>3
<1>9. \A p \in Protocols : hash'[r][p] # NoEntry => p \in Declares[r]
  BY <1>1, <1>2, <1>5 DEF RunSafe, EntriesOfCall, TypeOK
<1>10. EntriesOfCall(r)'
  BY <1>2, <1>4, <1>6, <1>8, <1>9 DEF EntriesOfCall
<1>11. QED
  BY <1>2, <1>7, <1>8, <1>10, ServesOnlyStep DEF Probing

\* The endpoints that answered are noted, and every declared one is to be updated.
LEMMA ProbeEndpointsStep ==
    ASSUME SafetyInv, NEW r \in Runs, ProbeEndpoints(r)
    PROVE  SafetyInv'
<1>1. TypeOK /\ RunSafe(r)
  BY DEF SafetyInv
<1> DEFINE Noted(ready) == [call[r].st EXCEPT
                !.ready = ready,
                !.reason = IF ready = {} THEN "NO_ENDPOINTS" ELSE call[r].st.reason]
           Probed(ready) == [call[r] EXCEPT
                !.at = "update", !.todo = Declares[r], !.st = Noted(ready)]
<1>2. /\ call[r].at = "probe"
      /\ UNCHANGED <<pod, started, nad, policy, hash, expires, status, failed>>
  BY DEF ProbeEndpoints, At, kube, redis
<1>3. PICK ready \in SUBSET Declares[r] :
        /\ answered' = answered \cup {<<p, call[r].st.ip>> : p \in ready}
        /\ call' = [call EXCEPT ![r] = Probed(ready)]
  BY DEF ProbeEndpoints
<1>4. Declares[r] \subseteq Protocols
  BY SandboxAssumption
<1>5. /\ Noted(ready) \in SandboxStatus
      /\ Noted(ready).phase = call[r].st.phase
      /\ Noted(ready).ip = call[r].st.ip
      /\ Noted(ready).ready = ready
  <2>1. call[r].st \in SandboxStatus
    BY <1>1 DEF TypeOK
  <2>2. ready \subseteq Protocols
    BY <1>4
  <2>3. QED
    BY <2>1, <2>2 DEF SandboxStatus, Reasons
<1> HIDE DEF Noted
<1>6. Probed(ready) \in CallRecord
  <2>1. call[r] \in CallRecord
    BY <1>1 DEF TypeOK, CallRecord
  <2>2. QED
    BY <1>4, <1>5, <2>1 DEF CallRecord, Steps
<1>7. /\ call' \in [Runs -> CallRecord]
      /\ call'[r].at = "update" /\ call'[r].todo = Declares[r] /\ call'[r].st = Noted(ready)
      /\ \A q \in Runs \ {r} : call'[q] = call[q]
  BY <1>1, <1>3, <1>6 DEF TypeOK, CallRecord
<1>8. status[r].phase # "RUNNING" /\ call[r].st.phase = "RUNNING"
  BY <1>1, <1>2 DEF RunSafe, PhaseOfCall, Settled, Phases, Probing
<1>9. answered' \subseteq Protocols \X Addresses
  <2>1. call[r].st.ip \in Addresses
    BY <1>1 DEF TypeOK, SandboxStatus
  <2>2. QED
    BY <1>1, <1>3, <1>4, <2>1 DEF TypeOK
<1>10. ServesOnly(r)
  BY <1>1, <1>2, <1>3, <1>5, <1>7, <1>8, <1>9 DEF ServesOnly, TypeOK
<1>11. EntriesOfCall(r)'
  <2>1. \A p \in ready : <<p, call'[r].st.ip>> \in answered'
    BY <1>3, <1>5, <1>7
  <2>2. QED
    BY <1>1, <1>2, <1>5, <1>7, <1>8, <2>1 DEF RunSafe, EntriesOfCall
<1>12. QED
  BY <1>1, <1>2, <1>10, <1>11, ServesOnlyStep DEF Probing, RunSafe, EntriesOfCall

\* One endpoint is written as it was probed, or its write fails; after the last the
\* call has nothing left to do.
LEMMA UpdateEndpointStatusStep ==
    ASSUME SafetyInv, NEW r \in Runs, UpdateEndpointStatus(r)
    PROVE  SafetyInv'
<1>1. TypeOK /\ RunSafe(r)
  BY DEF SafetyInv
<1>2. /\ call[r].at = "update"
      /\ UNCHANGED <<pod, started, nad, policy, expires, status, answered>>
  BY DEF UpdateEndpointStatus, At, kube
<1> DEFINE As(p) == Entry(r, IF p \in call[r].st.ready THEN "AVAILABLE" ELSE "UNAVAILABLE")
           Left(p) == [call[r] EXCEPT
                !.todo = call[r].todo \ {p},
                !.at = IF call[r].todo = {p} THEN "write" ELSE "update"]
<1>3. PICK p \in call[r].todo :
        /\ \/ Succeeds /\ hash' = [hash EXCEPT ![r] = [@ EXCEPT ![p] = As(p)]]
           \/ Fails(r, "update") /\ hash' = hash
        /\ call' = [call EXCEPT ![r] = Left(p)]
  BY DEF UpdateEndpointStatus
<1>4. /\ failed' \in [Runs -> SUBSET Calls]
      /\ \A q \in Runs : failed[q] \subseteq failed'[q]
      /\ Fails(r, "update") => "update" \in failed'[r]
  BY <1>1, <1>3, FailsFacts DEF Calls, Steps
<1>5. /\ call[r] \in CallRecord /\ call \in [Runs -> CallRecord]
      /\ p \in Protocols
  BY <1>1 DEF TypeOK, CallRecord
<1>6. /\ call' \in [Runs -> CallRecord]
      /\ call'[r].at = IF call[r].todo = {p} THEN "write" ELSE "update"
      /\ call'[r].st = call[r].st
      /\ call'[r].todo = call[r].todo \ {p}
      /\ \A q \in Runs \ {r} : call'[q] = call[q]
  <2>1. Left(p) \in CallRecord
    BY <1>5 DEF CallRecord, Steps
  <2>2. QED
    BY <1>3, <1>5, <2>1 DEF CallRecord
<1>7. /\ As(p) \in EndpointInfo
      /\ As(p).ip = call[r].st.ip
      /\ As(p).status = "AVAILABLE" => p \in call[r].st.ready
  BY <1>1, EntryFacts
<1> HIDE DEF As, Left
<1>8. /\ hash' \in [Runs -> [Protocols -> EndpointInfo \cup {NoEntry}]]
      /\ \A q \in Runs \ {r} : hash'[q] = hash[q]
      /\ \A x \in Protocols \ {p} : hash'[r][x] = hash[r][x]
      /\ hash'[r][p] = As(p) \/ (hash'[r][p] = hash[r][p] /\ Fails(r, "update"))
  <2>1. hash[r] \in [Protocols -> EndpointInfo \cup {NoEntry}]
    BY <1>1 DEF TypeOK
  <2>2. [hash[r] EXCEPT ![p] = As(p)] \in [Protocols -> EndpointInfo \cup {NoEntry}]
    BY <1>5, <1>7, <2>1
  <2>3. hash \in [Runs -> [Protocols -> EndpointInfo \cup {NoEntry}]]
    BY <1>1 DEF TypeOK
  <2>4. CASE hash' = [hash EXCEPT ![r] = [@ EXCEPT ![p] = As(p)]]
    <3>1. hash' = [hash EXCEPT ![r] = [hash[r] EXCEPT ![p] = As(p)]]
      BY <2>4
    <3>2. hash'[r] = [hash[r] EXCEPT ![p] = As(p)] /\ \A q \in Runs \ {r} : hash'[q] = hash[q]
      BY <2>3, <3>1
    <3>3. hash' \in [Runs -> [Protocols -> EndpointInfo \cup {NoEntry}]]
      BY <2>2, <2>3, <3>1
    <3>4. QED
      BY <1>5, <2>1, <3>2, <3>3
  <2>5. CASE Fails(r, "update") /\ hash' = hash
    BY <2>3, <2>5
  <2>6. QED
    BY <1>3, <2>4, <2>5
<1>9. status[r].phase # "RUNNING" /\ call[r].st.phase = "RUNNING"
  BY <1>1, <1>2 DEF RunSafe, PhaseOfCall, Settled, Phases, Probing
<1>10. ServesOnly(r)
  BY <1>1, <1>2, <1>4, <1>6, <1>8, <1>9 DEF ServesOnly, TypeOK
<1>11. EntriesOfCall(r)'
  <2>1. call[r].todo \subseteq Declares[r]
    BY <1>1, <1>2 DEF RunSafe, EntriesOfCall
  <2>2. \A x \in Protocols : hash'[r][x] # NoEntry => x \in Declares[r]
    BY <1>1, <1>8, <2>1 DEF RunSafe, EntriesOfCall
  <2>3. ASSUME failed'[r] \cap {"register", "update"} = {}
        PROVE  /\ \A x \in call'[r].st.ready : <<x, call'[r].st.ip>> \in answered'
               /\ \A x \in Declares[r] \ call'[r].todo : ServedAs(r, call[r].st, x)'
    <3>1. /\ failed[r] \cap {"register", "update"} = {}
          /\ ~Fails(r, "update")
      BY <1>4, <2>3
    <3>2. /\ \A x \in call[r].st.ready : <<x, call[r].st.ip>> \in answered
          /\ \A x \in Declares[r] \ call[r].todo : ServedAs(r, call[r].st, x)
      BY <1>1, <1>2, <3>1 DEF RunSafe, EntriesOfCall
    <3>3. ASSUME NEW x \in Declares[r] \ call'[r].todo
          PROVE  ServedAs(r, call[r].st, x)'
      <4>1. CASE x = p
        BY <1>2, <1>6, <1>7, <1>8, <3>1, <3>2, <4>1 DEF ServedAs
      <4>2. CASE x # p
        BY SandboxAssumption, <1>2, <1>6, <1>8, <3>2, <4>2 DEF ServedAs
      <4>3. QED
        BY <4>1, <4>2
    <3>4. QED
      BY <1>2, <1>6, <3>2, <3>3
  <2>4. /\ call'[r].at = "update" => call'[r].todo \subseteq Declares[r]
        /\ call'[r].at = "write" => call'[r].todo = {}
        /\ status'[r].phase # "RUNNING"
    BY <1>2, <1>6, <1>9, <2>1
  <2>5. call'[r].at \in {"probe", "update"} => r \in expires' \/ "register" \in failed'[r]
    BY <1>1, <1>2, <1>4 DEF RunSafe, EntriesOfCall
  <2>6. QED
    BY <2>2, <2>3, <2>4, <2>5 DEF EntriesOfCall
<1>12. r \in expires' \/ "register" \in failed'[r]
  BY <1>1, <1>2, <1>4 DEF RunSafe, EntriesOfCall
<1>13. QED
  BY <1>2, <1>10, <1>11, <1>12, ServesOnlyStep DEF Probing

-----------------------------------------------------------------------------
(* The caller, the process and Kubernetes *)

\* The status of the sandbox becomes the call's, or the call's is lost.
LEMMA WriteStatusStep ==
    ASSUME SafetyInv, NEW r \in Runs, WriteStatus(r)
    PROVE  SafetyInv'
<1>1. TypeOK /\ PodsNamed /\ RunSafe(r)
  BY DEF SafetyInv
<1>2. /\ call[r].at = "write"
      /\ \/ status' = [status EXCEPT ![r] = call[r].st]
         \/ status' = status
      /\ call' = [call EXCEPT ![r] = NoCall]
      /\ UNCHANGED <<pod, started, nad, policy, hash, expires, answered>>
  BY DEF WriteStatus, At, kube, redis
<1>3. /\ failed' \in [Runs -> SUBSET Calls]
      /\ \A q \in Runs : failed[q] \subseteq failed'[q]
  BY <1>1, FailsFacts DEF WriteStatus, Calls, Steps
<1>4. /\ call' \in [Runs -> CallRecord]
      /\ call'[r].at = "idle" /\ call'[r].st.phase = "unset"
      /\ \A q \in Runs \ {r} : call'[q] = call[q]
  BY <1>1, <1>2, NoCallFacts DEF TypeOK, CallRecord
<1>5. /\ status' \in [Runs -> SandboxStatus]
      /\ status'[r] \in {call[r].st, status[r]}
      /\ \A q \in Runs \ {r} : status'[q] = status[q]
  BY <1>1, <1>2 DEF TypeOK
<1>6. TypeOK'
  <2>1. \A q \in Runs : status'[q].phase = "RUNNING" => status'[q].ip # 0
    BY <1>1, <1>5 DEF TypeOK, RunSafe, PhaseOfCall
  <2>2. QED
    BY <1>1, <1>2, <1>3, <1>4, <1>5, <2>1 DEF TypeOK, CallRecord
<1>7. PodsNamed'
  BY <1>1, <1>2 DEF PodsNamed
<1>8. RunSafe(r)'
  <2>1. PhaseOfCall(r)'
    BY <1>4 DEF PhaseOfCall, Creating, Probing
  <2>2. OverlayOfCall(r)' /\ Isolated(r)'
    BY <1>1, <1>2, <1>3, <1>4 DEF RunSafe, OverlayOfCall, Isolated, NoPodOf
  <2>3. CleanupOfCall(r)'
    BY <1>1, <1>2, <1>3, <1>4, <1>5 DEF RunSafe, CleanupOfCall, GaveUpCleanly, NoPodOf
  <2>4. EntriesOfCall(r)'
    BY <1>1, <1>2, <1>3, <1>4, <1>5 DEF RunSafe, EntriesOfCall, ServedAs
  <2>5. QED
    BY <2>1, <2>2, <2>3, <2>4 DEF RunSafe
<1>9. \A q \in Runs \ {r} : Undisturbed(q)
  BY <1>2, <1>3, <1>4, <1>5 DEF Undisturbed
<1>10. QED
  BY <1>6, <1>7, <1>8, <1>9, StepOfRun

\* The controller restarts: every call is lost, and nothing else changes.
LEMMA RestartStep ==
    ASSUME SafetyInv, Restart
    PROVE  SafetyInv'
<1>1. TypeOK /\ PodsNamed
  BY DEF SafetyInv
<1>2. /\ call' = [r \in Runs |-> NoCall]
      /\ UNCHANGED <<pod, started, nad, policy, hash, expires, status, answered>>
  BY DEF Restart, kube, redis
<1>3. /\ failed' \in [Runs -> SUBSET Calls]
      /\ \A q \in Runs : failed[q] \subseteq failed'[q]
  BY <1>1, FailsFacts DEF Restart, Calls
<1>4. TypeOK'
  BY <1>1, <1>2, <1>3, NoCallFacts DEF TypeOK, CallRecord
<1>5. PodsNamed'
  BY <1>1, <1>2 DEF PodsNamed
<1>6. \A q \in Runs : Undisturbed(q)
  BY <1>2, <1>3 DEF Undisturbed
<1>7. QED
  BY <1>4, <1>5, <1>6, UndisturbedIsSafe DEF SafetyInv

\* A step of Kubernetes: a pod keeps its run while it lives, and every pod that
\* has run has an address.
LEMMA PodStep ==
    ASSUME SafetyInv, NEW s \in Submissions, PodStarts(s) \/ PodEnds(s) \/ PodCollected(s)
    PROVE  SafetyInv'
<1>1. TypeOK /\ PodsNamed
  BY DEF SafetyInv
<1>2. UNCHANGED <<nad, policy, hash, expires, status, call, answered, failed>>
  BY DEF PodStarts, PodEnds, PodCollected, redis
<1>3. pod[s] # NoPod /\ pod[s] \in Pod
  BY <1>1 DEF TypeOK, PodStarts, PodEnds, PodCollected
<1>4. /\ pod' \in [Submissions -> Pod \cup {NoPod}]
      /\ started' \in 0..MaxPods
      /\ \A t \in Submissions \ {s} : pod'[t] = pod[t]
      /\ pod'[s] # NoPod =>
            /\ pod'[s].run = pod[s].run
            /\ pod'[s].phase \in {"Running", "Succeeded"} => pod'[s].ip # 0
  <2>1. CASE PodStarts(s)
    <3> DEFINE new == [pod[s] EXCEPT !.phase = "Running", !.ip = started']
    <3>1. pod' = [pod EXCEPT ![s] = new] /\ started' = started + 1 /\ started < MaxPods
      BY <2>1 DEF PodStarts
    <3>2. started' \in Addresses /\ started' # 0 /\ started' \in 0..MaxPods
      BY <1>1, <3>1, SandboxAssumption DEF TypeOK, Addresses
    <3>3. new \in Pod /\ new.run = pod[s].run /\ new.ip = started'
      BY <1>3, <3>2 DEF Pod
    <3> HIDE DEF new
    <3>4. QED
      BY <1>1, <3>1, <3>2, <3>3 DEF TypeOK
  <2>2. CASE PodEnds(s)
    <3>1. PICK fate \in {"Succeeded", "Failed"} :
            /\ pod[s].phase = "Pending" => fate = "Failed"
            /\ pod' = [pod EXCEPT ![s] = [pod[s] EXCEPT !.phase = fate]]
      BY <2>2 DEF PodEnds
    <3> DEFINE new == [pod[s] EXCEPT !.phase = fate]
    <3>2. pod[s].phase \in {"Pending", "Running"} /\ started' = started
      BY <2>2 DEF PodEnds
    <3>3. new \in Pod /\ new.run = pod[s].run /\ new.phase = fate /\ new.ip = pod[s].ip
      BY <1>3 DEF Pod
    <3>4. fate = "Succeeded" => pod[s].ip # 0
      BY <1>1, <1>3, <3>1, <3>2 DEF TypeOK
    <3>5. pod' = [pod EXCEPT ![s] = new]
      BY <3>1
    <3> HIDE DEF new
    <3>6. QED
      BY <1>1, <3>2, <3>3, <3>4, <3>5 DEF TypeOK
  <2>3. CASE PodCollected(s)
    BY <1>1, <2>3 DEF PodCollected, TypeOK
  <2>4. QED
    BY <2>1, <2>2, <2>3
<1>5. TypeOK'
  <2>1. \A t \in Submissions :
            pod'[t] # NoPod /\ pod'[t].phase \in {"Running", "Succeeded"} => pod'[t].ip # 0
    BY <1>1, <1>4 DEF TypeOK
  <2>2. QED
    BY <1>1, <1>2, <1>4, <2>1 DEF TypeOK
<1>6. PodsNamed'
  BY <1>1, <1>3, <1>4 DEF PodsNamed
<1>7. \A q \in Runs : Undisturbed(q)
  BY <1>2, <1>3, <1>4 DEF Undisturbed
<1>8. QED
  BY <1>5, <1>6, <1>7, UndisturbedIsSafe DEF SafetyInv

-----------------------------------------------------------------------------
(* The theorems *)

\* Nothing exists yet: no pod, no overlay, no endpoint, no call.
LEMMA InitSafe == Init => SafetyInv
<1> SUFFICES ASSUME Init
             PROVE  SafetyInv
  OBVIOUS
<1>1. NewStatus \in SandboxStatus /\ NewStatus.phase = "unset"
  BY SandboxAssumption DEF NewStatus, SandboxStatus, Phases, Reasons, Addresses
<1>2. TypeOK
  BY <1>1, NoCallFacts, SandboxAssumption DEF Init, TypeOK, CallRecord
<1>3. PodsNamed
  BY DEF Init, PodsNamed
<1>4. ASSUME NEW r \in Runs
      PROVE  RunSafe(r)
  <2>1. /\ call[r].at = "idle" /\ call[r].st.phase = "unset"
        /\ status[r].phase = "unset" /\ NoPodOf(r)
        /\ \A p \in Protocols : hash[r][p] = NoEntry
    BY <1>1, NoCallFacts DEF Init, NoPodOf
  <2>2. QED
    BY <2>1 DEF RunSafe, PhaseOfCall, OverlayOfCall, CleanupOfCall, Isolated, EntriesOfCall,
                Creating, Probing, Settled
<1>5. QED
  BY <1>2, <1>3, <1>4 DEF SafetyInv

\* Every step of the calls, of Kubernetes and of the process keeps the invariant.
LEMMA NextSafe == SafetyInv /\ [Next]_vars => SafetyInv'
<1> SUFFICES ASSUME SafetyInv, [Next]_vars
             PROVE  SafetyInv'
  OBVIOUS
<1>1. ASSUME NEW r \in Runs, CreateSandbox(r)
      PROVE  SafetyInv'
  BY <1>1, CreateNADStep, CreateNetworkPolicyStep, UndoNADStep, CreatePodStep,
     DeleteNADStep, DeleteNetworkPolicyStep DEF CreateSandbox
<1>2. ASSUME NEW r \in Runs, RegisterAndProbeEndpoints(r)
      PROVE  SafetyInv'
  BY <1>2, RegisterEndpointsStep, ProbeEndpointsStep, UpdateEndpointStatusStep
     DEF RegisterAndProbeEndpoints
<1>3. CASE UNCHANGED vars
  <2>1. \A q \in Runs : Undisturbed(q)
    BY <1>3 DEF Undisturbed, vars, kube, redis
  <2>2. TypeOK' /\ PodsNamed'
    BY <1>3 DEF SafetyInv, TypeOK, PodsNamed, vars, kube, redis
  <2>3. QED
    BY <2>1, <2>2, UndisturbedIsSafe DEF SafetyInv
<1>4. QED
  BY <1>1, <1>2, <1>3, ReconcileStep, GetPodStep, WriteStatusStep, PodStep, RestartStep DEF Next

\* Whatever fails, restarts or interleaves, every call stays in a state its code
\* can account for.
THEOREM AlwaysSafe == Spec => []SafetyInv
BY InitSafe, NextSafe, PTL DEF Spec

\* A pod whose creation was acknowledged is on its own run's overlay.
THEOREM PodsAreIsolated == Spec => []IsolatedOnceAcknowledged
<1>1. SafetyInv => IsolatedOnceAcknowledged
  <2> SUFFICES ASSUME SafetyInv, NEW s \in Submissions, pod[s] # NoPod,
                      "pod" \notin failed[pod[s].run]
               PROVE  pod[s].run \in nad \cap policy
    BY DEF IsolatedOnceAcknowledged
  <2>1. pod[s].run \in Runs
    BY DEF SafetyInv, TypeOK, Pod
  <2>2. QED
    BY <2>1 DEF SafetyInv, RunSafe, Isolated, NoPodOf
<1>2. QED
  BY <1>1, AlwaysSafe, PTL

\* What the cluster holds agrees with the phases: a sandbox given up leaves neither
\* overlay nor pod behind unless creating or deleting one of them failed.
THEOREM ClusterAlwaysConsistent == Spec => []ClusterConsistent
<1>1. SafetyInv => ClusterConsistent
  BY DEF SafetyInv, RunSafe, CleanupOfCall, GaveUpCleanly, NoPodOf, ClusterConsistent,
         FailedLeavesNothing
<1>2. QED
  BY <1>1, AlwaysSafe, PTL

\* What a client is given for a running sandbox answered at the recorded address.
THEOREM ServedEndpointsAnswered == Spec => []ServedWhereProbed
<1>1. SafetyInv => ServedWhereProbed
  BY DEF SafetyInv, RunSafe, EntriesOfCall, ServedAs, ServedWhereProbed, Served
<1>2. QED
  BY <1>1, AlwaysSafe, PTL

-----------------------------------------------------------------------------
(* The supervisors of a running sandbox *)

\* How far the lifetime enforcer is tells of its collection and its releases.
EnforcerMakesSense ==
    /\ "lifetime" \in released => life \in {"releasing", "returned"}
    /\ life \in {"armed", "aborted", "stopping"} => collector = "none"
    /\ life \in {"armed", "aborted", "stopping", "collecting"} => ~late
    /\ life = "updating" => late
    /\ life \in {"releasing", "returned"} =>
           /\ collector = "running" => late
           /\ late => "COLLECTION_TIMEOUT" \in reported

SupervisorsInv == SupervisorsTypeOK /\ EnforcerMakesSense

\* Nothing the watch, the crash handler, the enforcer or the health check does, nor
\* the container or the owner, leads out of the types.
LEMMA SupervisorsTyped ==
    ASSUME SupervisorsTypeOK, SupervisorsNext
    PROVE  SupervisorsTypeOK'
<1>1. WatchTypes /\ CrashTypes /\ LifeTypes /\ SharedTypes /\ HealthTypes
  BY DEF SupervisorsTypeOK
<1>2. CASE Cancel \/ ContainerEnds
  <2>1. UNCHANGED <<watchVars, crashVars, lifeVars, released, reported, healthVars>>
    BY <1>2 DEF Cancel, ContainerEnds
  <2>2. WatchTypes' /\ CrashTypes' /\ LifeTypes'
    BY <1>1, <2>1 DEF WatchTypes, CrashTypes, LifeTypes, watchVars, crashVars, lifeVars
  <2>3. HealthTypes'
    BY <1>1, <2>1 DEF HealthTypes, healthVars
  <2>4. SharedTypes'
    BY <1>1, <1>2 DEF SharedTypes, Cancel, ContainerEnds
  <2>5. QED
    BY <2>2, <2>3, <2>4 DEF SupervisorsTypeOK
<1>3. CASE WatchPod
  <2>1. UNCHANGED <<cancelled, end, lifeVars, reported, healthVars>>
    BY <1>3 DEF WatchPod, WatchDelivers, SendEvent, WatchReturns
  <2>2. WatchTypes'
    BY <1>1, <1>3 DEF WatchTypes, watchVars, WatchPod, WatchDelivers, SendEvent, WatchReturns,
       PodEventFromPod
  <2>3. CrashTypes'
    BY <1>1, <1>3 DEF CrashTypes, crashVars, WatchPod, WatchDelivers, SendEvent, WatchReturns
  <2>4. SharedTypes'
    BY <1>1, <1>3, <2>1 DEF SharedTypes, WatchPod, WatchDelivers, SendEvent, WatchReturns
  <2>5. LifeTypes' /\ HealthTypes'
    BY <1>1, <2>1 DEF LifeTypes, HealthTypes, lifeVars, healthVars
  <2>6. QED
    BY <2>2, <2>3, <2>4, <2>5 DEF SupervisorsTypeOK
<1>4. CASE HandleCrash
  <2>1. UNCHANGED <<cancelled, end, watchVars, lifeVars, released, healthVars>>
    BY <1>4 DEF HandleCrash, ReleaserReturns, AwaitRelease, ReportCrash
  <2>2. CrashTypes' /\ SharedTypes'
    BY <1>1, <1>4 DEF CrashTypes, SharedTypes, HandleCrash, ReleaserReturns, AwaitRelease, ReportCrash
  <2>3. WatchTypes' /\ LifeTypes' /\ HealthTypes'
    BY <1>1, <2>1 DEF WatchTypes, LifeTypes, HealthTypes, watchVars, lifeVars, healthVars
  <2>4. QED
    BY <2>2, <2>3 DEF SupervisorsTypeOK
<1>5. CASE EnforceLifetime
  <2>1. UNCHANGED <<cancelled, watchVars, crashVars, healthVars>>
    BY <1>5 DEF EnforceLifetime, AbortLifetime, Expire, GracefulStop, CollectorReturns,
       AwaitCollection, ReportTimeout, ReleaseResources, LifetimeReturns
  <2>2. LifeTypes'
    BY <1>1, <1>5 DEF LifeTypes, lifeVars, EnforceLifetime, AbortLifetime, Expire, GracefulStop,
       CollectorReturns, AwaitCollection, ReportTimeout, ReleaseResources, LifetimeReturns
  <2>3. SharedTypes'
    BY <1>1, <1>5 DEF SharedTypes, Ends, EnforceLifetime, AbortLifetime, Expire, GracefulStop,
       CollectorReturns, AwaitCollection, ReportTimeout, ReleaseResources, LifetimeReturns
  <2>4. WatchTypes' /\ CrashTypes' /\ HealthTypes'
    BY <1>1, <2>1 DEF WatchTypes, CrashTypes, HealthTypes, watchVars, crashVars, healthVars
  <2>5. QED
    BY <2>2, <2>3, <2>4 DEF SupervisorsTypeOK
<1>6. CASE HealthCheck
  <2>1. UNCHANGED <<cancelled, end, watchVars, crashVars, lifeVars, released, reported>>
    BY <1>6 DEF HealthCheck, Tick, ProbeSucceeds, ProbeFails, HealthReturns
  <2>2. HealthTypes'
    <3>1. CASE Tick
      BY <1>1, <3>1 DEF HealthTypes, Tick
    <3>2. CASE ProbeSucceeds
      <4>1. fails' = 0 /\ 0 \in 0..MaxFails /\ 0 # MaxFails
        BY <3>2, SupervisorsAssumption DEF ProbeSucceeds
      <4>2. health' = "waiting" /\ unhealthy' = unhealthy /\ ~unhealthy /\ unhealthy \in BOOLEAN
        BY <1>1, <3>2 DEF HealthTypes, ProbeSucceeds
      <4>3. QED
        BY <4>1, <4>2 DEF HealthTypes
    <3>3. CASE ProbeFails
      <4>1. health = "probing" /\ ~unhealthy /\ unhealthy \in BOOLEAN
        BY <1>1, <3>3 DEF HealthTypes, ProbeFails
      <4>2. fails \in 0..MaxFails /\ fails # MaxFails /\ fails' = fails + 1
        BY <1>1, <3>3, <4>1 DEF HealthTypes, ProbeFails
      <4>3. fails' \in 0..MaxFails /\ (fails' >= MaxFails <=> fails' = MaxFails)
        BY <4>2, SupervisorsAssumption
      <4>4. CASE fails' = MaxFails
        <5>1. unhealthy' = TRUE /\ health' = "returned"
          BY <3>3, <4>3, <4>4 DEF ProbeFails
        <5>2. QED
          BY <4>3, <4>4, <5>1 DEF HealthTypes
      <4>5. CASE fails' # MaxFails
        <5>1. unhealthy' = unhealthy /\ health' = "waiting"
          BY <3>3, <4>3, <4>5 DEF ProbeFails
        <5>2. QED
          BY <4>1, <4>3, <4>5, <5>1 DEF HealthTypes
      <4>6. QED
        BY <4>4, <4>5
    <3>4. CASE HealthReturns
      BY <1>1, <3>4 DEF HealthTypes, HealthReturns
    <3>5. QED
      BY <1>6, <3>1, <3>2, <3>3, <3>4 DEF HealthCheck
  <2>3. WatchTypes' /\ CrashTypes' /\ LifeTypes' /\ SharedTypes'
    BY <1>1, <2>1 DEF WatchTypes, CrashTypes, LifeTypes, SharedTypes, watchVars, crashVars, lifeVars
  <2>4. QED
    BY <2>2, <2>3 DEF SupervisorsTypeOK
<1>7. QED
  BY <1>2, <1>3, <1>4, <1>5, <1>6 DEF SupervisorsNext

\* The enforcer releases only after its collection has ended or been given up, and
\* the others leave the collection alone.
LEMMA EnforcerKeepsSense ==
    ASSUME SupervisorsInv, SupervisorsNext
    PROVE  EnforcerMakesSense'
<1> USE DEF EnforcerMakesSense, watchVars, crashVars, lifeVars, healthVars
<1>1. CASE Cancel \/ ContainerEnds
  BY <1>1 DEF SupervisorsInv, Cancel, ContainerEnds
<1>2. CASE WatchPod
  BY <1>2 DEF SupervisorsInv, WatchPod, WatchDelivers, SendEvent, WatchReturns
<1>3. CASE HandleCrash
  BY <1>3 DEF SupervisorsInv, HandleCrash, ReleaserReturns, AwaitRelease, ReportCrash
<1>4. CASE AbortLifetime \/ Expire \/ GracefulStop \/ CollectorReturns
  BY <1>4 DEF SupervisorsInv, AbortLifetime, Expire, GracefulStop, CollectorReturns
<1>5. CASE AwaitCollection \/ ReportTimeout \/ ReleaseResources \/ LifetimeReturns
  BY <1>5 DEF SupervisorsInv, AwaitCollection, ReportTimeout, ReleaseResources, LifetimeReturns
<1>6. CASE HealthCheck
  BY <1>6 DEF SupervisorsInv, HealthCheck, Tick, ProbeSucceeds, ProbeFails, HealthReturns
<1>7. QED
  BY <1>1, <1>2, <1>3, <1>4, <1>5, <1>6 DEF SupervisorsNext, EnforceLifetime

\* The supervisors of a sandbox never take its resources from under a collection
\* that still has time, and the third failed probe in a row ends the health check.
THEOREM SupervisionAlwaysConsistent == SupervisorsSpec => []SupervisionConsistent
<1>1. SupervisorsInit => SupervisorsInv
  <2> SUFFICES ASSUME SupervisorsInit
               PROVE  SupervisorsInv
    OBVIOUS
  <2>1. fails = 0 /\ 0 \in 0..MaxFails /\ 0 # MaxFails
    BY SupervisorsAssumption DEF SupervisorsInit
  <2>2. HealthTypes
    BY <2>1 DEF SupervisorsInit, HealthTypes
  <2>3. WatchTypes /\ CrashTypes /\ LifeTypes /\ SharedTypes
    BY DEF SupervisorsInit, WatchTypes, CrashTypes, LifeTypes, SharedTypes
  <2>4. EnforcerMakesSense
    BY DEF SupervisorsInit, EnforcerMakesSense
  <2>5. QED
    BY <2>2, <2>3, <2>4 DEF SupervisorsInv, SupervisorsTypeOK
<1>2. SupervisorsInv /\ [SupervisorsNext]_supervisorsVars => SupervisorsInv'
  <2>1. SupervisorsInv /\ SupervisorsNext => SupervisorsInv'
    BY SupervisorsTyped, EnforcerKeepsSense DEF SupervisorsInv
  <2>2. SupervisorsInv /\ UNCHANGED supervisorsVars => SupervisorsInv'
    BY DEF SupervisorsInv, SupervisorsTypeOK, WatchTypes, CrashTypes, LifeTypes, SharedTypes,
           HealthTypes, EnforcerMakesSense, supervisorsVars, watchVars, crashVars, lifeVars, healthVars
  <2>3. QED
    BY <2>1, <2>2
<1>3. SupervisorsInv => SupervisionConsistent
  BY DEF SupervisorsInv, EnforcerMakesSense, SupervisionConsistent, CollectedBeforeRelease,
         SupervisorsTypeOK
<1>4. QED
  BY <1>1, <1>2, <1>3, PTL DEF SupervisorsSpec
=============================================================================
