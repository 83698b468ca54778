-------------------------- MODULE SandboxReconciler --------------------------
(***************************************************************************)
(* The sandbox controller's reconcile loop.  A sandbox belongs to one      *)
(* benchmark run; its overlay network (a NetworkAttachmentDefinition and a *)
(* NetworkPolicy) is named after the run, its pod after the submission.    *)
(* Every call to Kubernetes or Redis is a step of its own, which may fail  *)
(* without effect or take effect and lose its answer, and the controller   *)
(* may be restarted between any two of them.                               *)
(*                                                                         *)
(* External: Kubernetes, Redis, and the caller of Reconcile, which reads   *)
(* a sandbox's status, serialises the calls for one sandbox (as controller *)
(* runtimes do) and writes the returned status back.                       *)
(***************************************************************************)
EXTENDS Integers, FiniteSets, FiniteSetsExt

CONSTANTS Runs, Submissions,
          SubmissionOf,   \* the submission each run benchmarks
          Protocols,      \* the protocols a submission may declare
          Declares,       \* those of each run's sandbox
          NoPod, NoEntry,
          MaxPods,        \* bound on the pods ever started
          MaxFaults       \* bound on the calls that fail, one of each kind and run

ASSUME SandboxAssumption ==
    /\ SubmissionOf \in [Runs -> Submissions]
    /\ Declares \in [Runs -> SUBSET Protocols]
    /\ {MaxPods, MaxFaults} \subseteq Nat

VARIABLES pod,          \* the pod of each submission
          started,      \* how many pods have been given an address
          nad, policy,  \* the runs whose NAD, whose NetworkPolicy exists
          status,       \* SandboxStatus of each run's resource
          hash,         \* Redis: session:{run}:endpoints
          expires,      \* the runs whose hash has a time to live
          call,         \* the Reconcile call under way for each run
          answered,     \* history: what answered when it was dialled
          failed        \* history: the kinds of calls that failed, per run

kube == <<pod, started, nad, policy>>
redis == <<hash, expires>>
vars == <<kube, redis, status, call, answered, failed>>

\* "unset" is the empty string of a field that has not been assigned.
Phases == {"unset", "PENDING", "RUNNING", "UNHEALTHY", "CRASHED", "COMPLETED", "FAILED"}
Settled == Phases \ {"unset", "PENDING"}
Reasons == {"unset", "NETWORK_SETUP_FAILED", "pod creation failed", "exit", "NO_ENDPOINTS"}

\* An address is the ordinal of the pod that has it; 0 is "no address yet".
Addresses == 0..MaxPods

SandboxStatus == [phase : Phases, ip : Addresses, reason : Reasons, ready : SUBSET Protocols]
Pod == [run : Runs, phase : {"Pending", "Running", "Succeeded", "Failed"}, ip : Addresses]
EndpointInfo == [status : {"AVAILABLE", "UNAVAILABLE"}, ip : Addresses]
Steps == {"idle", "get", "nad", "policy", "undoNad", "pod", "delNad", "delPolicy",
          "register", "probe", "update", "write"}
Calls == (Steps \ {"idle", "probe"}) \cup {"restart"}

NewStatus == [phase |-> "unset", ip |-> 0, reason |-> "unset", ready |-> {}]
NoCall == [at |-> "idle", st |-> NewStatus, todo |-> {}]

Init ==
    /\ pod = [s \in Submissions |-> NoPod]
    /\ started = 0
    /\ nad = {} /\ policy = {}
    /\ status = [r \in Runs |-> NewStatus]
    /\ hash = [r \in Runs |-> [p \in Protocols |-> NoEntry]]
    /\ expires = {}
    /\ call = [r \in Runs |-> NoCall]
    /\ answered = {}
    /\ failed = [r \in Runs |-> {}]

-----------------------------------------------------------------------------
(* Steps of a call. *)

PodOf(r) == pod[SubmissionOf[r]]

At(r, step) == call[r].at = step
Goto(r, step) == call' = [call EXCEPT ![r] = [@ EXCEPT !.at = step]]

\* The call returns the status with this phase and reason.
Return(r, phase, reason) ==
    call' = [call EXCEPT ![r] =
        [@ EXCEPT !.at = "write", !.st = [call[r].st EXCEPT !.phase = phase, !.reason = reason]]]

\* The call the run is at fails, its effect, if any, notwithstanding.
Faults == MapThenSumSet(LAMBDA q : Cardinality(failed[q]), Runs)

Fails(r, kind) ==
    /\ kind \notin failed[r]
    /\ Faults < MaxFaults
    /\ failed' = [failed EXCEPT ![r] = @ \cup {kind}]

Succeeds == UNCHANGED failed
-----------------------------------------------------------------------------
(* Reconcile: read the pod, then follow it or create the sandbox. *)

\* A sandbox that is running or settled is left alone.
Reconcile(r) ==
    /\ At(r, "idle")
    /\ status[r].phase \notin Settled
    /\ call' = [call EXCEPT ![r] = [at |-> "get", st |-> status[r], todo |-> {}]]
    /\ UNCHANGED <<kube, redis, status, answered, failed>>

SyncPhaseFromPod(r, p) ==
    \/ /\ p.phase = "Running"
       /\ call' = [call EXCEPT ![r] =
              [@ EXCEPT !.at = IF Declares[r] = {} THEN "write" ELSE "register",
                        !.st = [call[r].st EXCEPT !.phase = "RUNNING", !.ip = p.ip]]]
    \/ /\ p.phase = "Failed"
       /\ Return(r, "CRASHED", "exit")
    \/ /\ p.phase = "Succeeded"
       /\ Return(r, "COMPLETED", call[r].st.reason)
    \/ /\ p.phase = "Pending"
       /\ Return(r, "PENDING", call[r].st.reason)

\* On an error other than NotFound the call ends and is made again.
GetPod(r) ==
    /\ At(r, "get")
    /\ \/ Fails(r, "get") /\ call' = [call EXCEPT ![r] = NoCall]
       \/ Succeeds /\ PodOf(r) = NoPod /\ Goto(r, "nad")
       \/ Succeeds /\ PodOf(r) # NoPod /\ SyncPhaseFromPod(r, PodOf(r))
    /\ UNCHANGED <<kube, redis, status, answered>>

-----------------------------------------------------------------------------
(* createSandbox: CreateOverlay, then the pod; clean up on failure. *)

\* Mutant of CreateNAD: the policy is not created.
CreateNADOnly(r) ==
    /\ At(r, "nad")
    /\ \/ Succeeds /\ nad' = nad \cup {r} /\ Goto(r, "pod")
       \/ /\ Fails(r, "nad")
          /\ nad' \in {nad, nad \cup {r}}
          /\ Return(r, "FAILED", "NETWORK_SETUP_FAILED")
    /\ UNCHANGED <<pod, started, policy, redis, status, answered>>

\* AlreadyExists counts as success, here and for the policy.
CreateNAD(r) ==
    /\ At(r, "nad")
    /\ \/ Succeeds /\ nad' = nad \cup {r} /\ Goto(r, "policy")
       \/ /\ Fails(r, "nad")
          /\ nad' \in {nad, nad \cup {r}}
          /\ Return(r, "FAILED", "NETWORK_SETUP_FAILED")
    /\ UNCHANGED <<pod, started, policy, redis, status, answered>>

CreateNetworkPolicy(r) ==
    /\ At(r, "policy")
    /\ \/ Succeeds /\ policy' = policy \cup {r} /\ Goto(r, "pod")
       \/ /\ Fails(r, "policy")
          /\ policy' \in {policy, policy \cup {r}}
          /\ Goto(r, "undoNad")
    /\ UNCHANGED <<pod, started, nad, redis, status, answered>>

\* The policy could not be created: best-effort deletion of the NAD.
UndoNAD(r) ==
    /\ At(r, "undoNad")
    /\ \/ Succeeds /\ nad' = nad \ {r}
       \/ Fails(r, "undoNad") /\ UNCHANGED nad
    /\ Return(r, "FAILED", "NETWORK_SETUP_FAILED")
    /\ UNCHANGED <<pod, started, policy, redis, status, answered>>

BuildPod(r) == [run |-> r, phase |-> "Pending", ip |-> 0]

\* Any error, AlreadyExists included, makes the call give the sandbox up.
CreatePod(r) ==
    /\ At(r, "pod")
    /\ \/ /\ Succeeds /\ PodOf(r) = NoPod
          /\ pod' = [pod EXCEPT ![SubmissionOf[r]] = BuildPod(r)]
          /\ Return(r, "PENDING", call[r].st.reason)
       \/ /\ Succeeds /\ PodOf(r) # NoPod
          /\ UNCHANGED pod
          /\ Goto(r, "delNad")
       \/ /\ Fails(r, "pod")
          /\ \/ UNCHANGED pod
             \/ PodOf(r) = NoPod /\ pod' = [pod EXCEPT ![SubmissionOf[r]] = BuildPod(r)]
          /\ Goto(r, "delNad")
    /\ UNCHANGED <<started, nad, policy, redis, status, answered>>

\* Mutant of DeleteNAD: DeleteOverlay returns after its first deletion.
DeleteNADOnly(r) ==
    /\ At(r, "delNad")
    /\ \/ Succeeds /\ nad' = nad \ {r}
       \/ Fails(r, "delNad") /\ UNCHANGED nad
    /\ Return(r, "FAILED", "pod creation failed")
    /\ UNCHANGED <<pod, started, policy, redis, status, answered>>

\* DeleteOverlay attempts both deletions; its error is ignored.
DeleteNAD(r) ==
    /\ At(r, "delNad")
    /\ \/ Succeeds /\ nad' = nad \ {r}
       \/ Fails(r, "delNad") /\ UNCHANGED nad
    /\ Goto(r, "delPolicy")
    /\ UNCHANGED <<pod, started, policy, redis, status, answered>>

DeleteNetworkPolicy(r) ==
    /\ At(r, "delPolicy")
    /\ \/ Succeeds /\ policy' = policy \ {r}
       \/ Fails(r, "delPolicy") /\ UNCHANGED policy
    /\ Return(r, "FAILED", "pod creation failed")
    /\ UNCHANGED <<pod, started, nad, redis, status, answered>>

-----------------------------------------------------------------------------
(* registerAndProbeEndpoints. *)

\* Entry for a protocol of the pod the call has seen.
Entry(r, st) == [status |-> st, ip |-> call[r].st.ip]

\* buildEndpoints: every declared endpoint is unavailable until it is probed.
Registered(r) ==
    [p \in Protocols |-> IF p \in Declares[r] THEN Entry(r, "UNAVAILABLE") ELSE hash[r][p]]

\* HSET and EXPIRE in one pipeline, not in one transaction; an error is logged.
RegisterEndpoints(r) ==
    /\ At(r, "register")
    /\ \/ /\ Succeeds
          /\ hash' = [hash EXCEPT ![r] = Registered(r)]
          /\ expires' = expires \cup {r}
       \/ /\ Fails(r, "register")
          /\ hash' \in {hash, [hash EXCEPT ![r] = Registered(r)]}
          /\ UNCHANGED expires
    /\ Goto(r, "probe")
    /\ UNCHANGED <<kube, status, answered>>

\* An endpoint can answer only while the pod that has the address runs.
MayAnswer(ip) == \E s \in Submissions : pod[s] # NoPod /\ pod[s].phase = "Running" /\ pod[s].ip = ip

\* Mutant of ProbeEndpoints: one answer makes every endpoint available.
ProbeEndpointsAny(r) ==
    /\ At(r, "probe")
    /\ \E ready \in SUBSET Declares[r] :
          /\ ready # {} => MayAnswer(call[r].st.ip)
          /\ answered' = answered \cup {<<p, call[r].st.ip>> : p \in ready}
          /\ call' = [call EXCEPT ![r] =
                 [@ EXCEPT !.at = "update", !.todo = Declares[r],
                           !.st = [call[r].st EXCEPT
                               !.ready = IF ready = {} THEN {} ELSE Declares[r],
                               !.reason = IF ready = {} THEN "NO_ENDPOINTS"
                                                            ELSE call[r].st.reason]]]
    /\ UNCHANGED <<kube, redis, status, failed>>

ProbeEndpoints(r) ==
    /\ At(r, "probe")
    /\ \E ready \in SUBSET Declares[r] :
          /\ ready # {} => MayAnswer(call[r].st.ip)
          /\ answered' = answered \cup {<<p, call[r].st.ip>> : p \in ready}
          /\ call' = [call EXCEPT ![r] =
                 [@ EXCEPT !.at = "update", !.todo = Declares[r],
                           !.st = [call[r].st EXCEPT
                               !.ready = ready,
                               !.reason = IF ready = {} THEN "NO_ENDPOINTS"
                                                            ELSE call[r].st.reason]]]
    /\ UNCHANGED <<kube, redis, status, failed>>

\* One HSET per endpoint, without EXPIRE; an error is logged.
UpdateEndpointStatus(r) ==
    /\ At(r, "update")
    /\ \E p \in call[r].todo :
          /\ \/ /\ Succeeds
                /\ hash' = [hash EXCEPT ![r] = [@ EXCEPT ![p] =
                       Entry(r, IF p \in call[r].st.ready THEN "AVAILABLE" ELSE "UNAVAILABLE")]]
             \/ Fails(r, "update") /\ UNCHANGED hash
          /\ call' = [call EXCEPT ![r] =
                 [@ EXCEPT !.todo = call[r].todo \ {p},
                           !.at = IF call[r].todo = {p} THEN "write" ELSE "update"]]
    /\ UNCHANGED <<kube, expires, status, answered>>

-----------------------------------------------------------------------------
(* The caller of Reconcile, the process, and Kubernetes: external. *)

\* The caller writes the status back; a status that is not written is lost.
WriteStatus(r) ==
    /\ At(r, "write")
    /\ \/ Succeeds /\ status' = [status EXCEPT ![r] = call[r].st]
       \/ Fails(r, "write") /\ UNCHANGED status
    /\ call' = [call EXCEPT ![r] = NoCall]
    /\ UNCHANGED <<kube, redis, answered>>

\* The controller ends and is started again: the calls under way are lost.
Restart ==
    /\ \E r \in Runs : ~At(r, "idle") /\ Fails(r, "restart")
    /\ call' = [r \in Runs |-> NoCall]
    /\ UNCHANGED <<kube, redis, status, answered>>

PodStarts(s) ==
    /\ pod[s] # NoPod /\ pod[s].phase = "Pending"
    /\ started < MaxPods
    /\ started' = started + 1
    /\ pod' = [pod EXCEPT ![s] = [@ EXCEPT !.phase = "Running", !.ip = started']]
    /\ UNCHANGED <<nad, policy, redis, status, call, answered, failed>>

\* A container that ends is not restarted (RestartPolicyNever).
PodEnds(s) ==
    /\ pod[s] # NoPod /\ pod[s].phase \in {"Pending", "Running"}
    /\ \E end \in {"Succeeded", "Failed"} :
          /\ pod[s].phase = "Pending" => end = "Failed"
          /\ pod' = [pod EXCEPT ![s] = [@ EXCEPT !.phase = end]]
    /\ UNCHANGED <<started, nad, policy, redis, status, call, answered, failed>>

\* Ended pods are garbage-collected; nothing in the controller deletes one.
PodCollected(s) ==
    /\ pod[s] # NoPod /\ pod[s].phase \in {"Succeeded", "Failed"}
    /\ pod' = [pod EXCEPT ![s] = NoPod]
    /\ UNCHANGED <<started, nad, policy, redis, status, call, answered, failed>>

CreateSandbox(r) ==
    CreateNAD(r) \/ CreateNetworkPolicy(r) \/ UndoNAD(r) \/ CreatePod(r)
        \/ DeleteNAD(r) \/ DeleteNetworkPolicy(r)

RegisterAndProbeEndpoints(r) == RegisterEndpoints(r) \/ ProbeEndpoints(r) \/ UpdateEndpointStatus(r)

Next ==
    \/ \E r \in Runs : \/ Reconcile(r) \/ GetPod(r) \/ CreateSandbox(r)
                       \/ RegisterAndProbeEndpoints(r) \/ WriteStatus(r)
    \/ \E s \in Submissions : PodStarts(s) \/ PodEnds(s) \/ PodCollected(s)
    \/ Restart

Spec == Init /\ [][Next]_vars
-----------------------------------------------------------------------------
(* GetSandboxEndpoints: what the bots and the control plane are told. *)

Served(r) ==
    IF status[r].phase # "RUNNING" THEN {}
    ELSE {p \in Protocols : hash[r][p] # NoEntry /\ hash[r][p].status = "AVAILABLE"}

-----------------------------------------------------------------------------
(* Properties. *)

\* Types, and what a phase says of an address: a pod has one once it runs, and a
\* sandbox is not RUNNING before its pod's address is recorded.  Endpoints expire,
\* unless their registration failed: later updates do not renew their life.
TypeOK ==
    /\ pod \in [Submissions -> Pod \cup {NoPod}]
    /\ started \in 0..MaxPods
    /\ nad \subseteq Runs /\ policy \subseteq Runs
    /\ status \in [Runs -> SandboxStatus]
    /\ hash \in [Runs -> [Protocols -> EndpointInfo \cup {NoEntry}]]
    /\ expires \subseteq Runs
    /\ call \in [Runs -> [at : Steps, st : SandboxStatus, todo : SUBSET Protocols]]
    /\ answered \subseteq Protocols \X Addresses
    /\ failed \in [Runs -> SUBSET Calls]
    /\ \A s \in Submissions :
           pod[s] # NoPod /\ pod[s].phase \in {"Running", "Succeeded"} => pod[s].ip # 0
    /\ \A r \in Runs : status[r].phase = "RUNNING" => status[r].ip # 0
    /\ \A r \in Runs : (\E p \in Protocols : hash[r][p] # NoEntry) =>
           r \in expires \/ "register" \in failed[r]

\* A pod whose creation was acknowledged stays on its own run's overlay, whatever
\* fails, restarts or reconciles in the meantime (createSandbox creates the overlay
\* first and deletes it only when the pod could not be created).
IsolatedOnceAcknowledged ==
    \A s \in Submissions :
        pod[s] # NoPod /\ "pod" \notin failed[pod[s].run] => pod[s].run \in nad \cap policy

\* A sandbox given up leaves no overlay and no pod, unless creating or deleting one
\* of its own failed: not when another run of the submission won the pod's name, and
\* not when an earlier attempt was cut short (createSandbox, DeleteOverlay).
Cleanup == {"nad", "policy", "undoNad", "pod", "delNad", "delPolicy"}

FailedLeavesNothing ==
    \A r \in Runs :
        status[r].phase = "FAILED" /\ failed[r] \cap Cleanup = {} =>
            /\ r \notin nad \cup policy
            /\ \A s \in Submissions : pod[s] # NoPod => pod[s].run # r

\* What the cluster holds agrees with the phases, of live sandboxes and of those
\* given up.
ClusterConsistent == TypeOK /\ FailedLeavesNothing

\* An endpoint served for a running sandbox is at the address recorded for it, is
\* AVAILABLE in its status too, and answered there when dialled, unless a write of
\* the run's endpoints to Redis failed (registerAndProbeEndpoints, GetSandboxEndpoints).
ServedWhereProbed ==
    \A r \in Runs :
        failed[r] \cap {"register", "update"} = {} =>
            \A p \in Served(r) :
                /\ hash[r][p].ip = status[r].ip
                /\ p \in status[r].ready
                /\ <<p, status[r].ip>> \in answered
=============================================================================
