---------------------------- MODULE ScanAuthority ----------------------------
(***************************************************************************)
(* From a scan request to the launch of its operations: POST /start and    *)
(* /approve (backend/app/api/scans.py), the manifest (core/                *)
(* scan_manifest.py), the authorization rows and their transactions        *)
(* (core/db.py), and the worker's way from those rows to a process:        *)
(* ScanExecutionAuthority (core/scan_execution_authority.py), the          *)
(* capability (core/execution_decision.py) and the execution context       *)
(* (core/execution_context.py).                                            *)
(*                                                                         *)
(* One tenant, one asset, one API process and one worker process with      *)
(* several threads.  Each call of /start owns the scan_request_id that it  *)
(* would insert, so a request is named by its call.  Digests, seals and    *)
(* fingerprints are the values they are computed from.  The rows of a      *)
(* child execution are those of ExecutionStore, reduced to what            *)
(* authorization reads; its settlement is one step here.                   *)
(***************************************************************************)
EXTENDS Naturals, FiniteSets

CONSTANTS
    Calls,        \* calls of POST /start
    Keys, ApprovalKeys,   \* idempotency keys of /start and of /approve
    Ops,          \* operations, engine:tool
    Bodies,       \* canonical scan inputs: the operations they ask for
    Native,       \* operations whose capability state rules out a process
    Images,       \* builds: worker generation and policy revision
    FirstImage,   \* the one both processes start with
    Represented,  \* the operations each policy revision has a row for
    Assets,       \* values of the asset, its project and its owner's standing
    Sessions,     \* administrator sessions
    Threads,      \* supervisor threads of the worker
    NoOne,
    CapabilityCap, ContextCap,   \* size limits of the two registries
    MaxChanges                   \* deployments and asset edits

ASSUME AuthorityAssumption ==
    /\ Bodies \subseteq SUBSET Ops /\ Native \subseteq Ops
    /\ FirstImage \in Images /\ \A i \in Images : Represented[i.policy] \subseteq Ops
    /\ NoOne \notin Calls \cup Keys \cup ApprovalKeys \cup Sessions \cup Threads \cup Assets
    /\ CapabilityCap \in Nat \ {0} /\ ContextCap \in Nat \ {0} /\ MaxChanges \in Nat

VARIABLES
    image,       \* the build that each process runs
    asset,       \* current value of the asset rows
    revoked,     \* revoked_tokens
    call,        \* progress of each /start
    request,     \* scan_authorization_requests
    late,        \* expires_at of a request and of its children has passed
    child,       \* execution rows of each operation of each request
    thread,      \* progress of each supervisor thread
    capabilities, registered,  \* _ISSUED_CAPABILITIES: live entries, and its size
    contexts,    \* _ISSUED_CONTEXTS
    granted,     \* positive approval answers (history)
    launches,    \* processes created for each child (history)
    changes      \* deployments and edits so far

durableVars == <<asset, revoked, request, late, child>>
workerVars  == <<thread, capabilities, registered, contexts, launches>>
vars == <<image, durableVars, call, workerVars, granted, changes>>

Processes == {"api", "worker"}
NoCall    == [pc |-> "idle", key |-> NoOne, body |-> {}, policy |-> NoOne,
              asset |-> NoOne, answer |-> NoOne]
NoRequest == [state |-> "NONE", key |-> NoOne, body |-> {}, policy |-> NoOne,
              asset |-> NoOne, approvalKey |-> NoOne, session |-> NoOne]
NoChild   == [run |-> "NONE", request |-> "NONE", revoked |-> FALSE, consumed |-> FALSE,
              fence |-> NoOne, session |-> NoOne, gen |-> NoOne, policy |-> NoOne]
NoThread  == [pc |-> "idle", req |-> NoOne, op |-> NoOne, consumed |-> FALSE,
              fence |-> NoOne]

(* build_scan_manifest: an operation that the canonical policy does not    *)
(* represent is recorded as EXCLUDED; the others are SELECTED.             *)
Selected(body, policy) == body \cap Represented[policy]

AuthorityInit ==
    /\ image = [p \in Processes |-> FirstImage]
    /\ asset \in Assets /\ revoked = {}
    /\ call = [c \in Calls |-> NoCall]
    /\ request = [c \in Calls |-> NoRequest] /\ late = [c \in Calls |-> FALSE]
    /\ child = [c \in Calls |-> [o \in Ops |-> NoChild]]
    /\ thread = [w \in Threads |-> NoThread]
    /\ capabilities = {} /\ registered = 0 /\ contexts = {}
    /\ granted = {} /\ launches = [c \in Calls |-> [o \in Ops |-> 0]]
    /\ changes = 0

-----------------------------------------------------------------------------
(* POST /start.                                                            *)

(* The local variables of a call end with it. *)
Answer(c, r) ==
    call' = [call EXCEPT ![c] = [NoCall EXCEPT !.pc = "done", !.key = call[c].key,
                                               !.body = call[c].body, !.answer = r]]
Lost == [NoCall EXCEPT !.pc = "conflict"]

Named(key) == {r \in Calls : request[r].state # "NONE" /\ request[r].key = key}

(* The answer for a key that is already bound: the same request, or 409    *)
(* when the input differs.                                                 *)
ReplayOrConflict(c, r) ==
    IF request[r].body = call[c].body
      THEN Answer(c, r)
      ELSE call' = [call EXCEPT ![c] = Lost]

ReceiveStart(c) ==
    /\ call[c].pc = "idle"
    /\ \E key \in Keys, body \in Bodies :
          call' = [call EXCEPT ![c] = [NoCall EXCEPT !.pc = "received", !.key = key,
                                                     !.body = body, !.asset = asset]]
    /\ UNCHANGED <<image, durableVars, workerVars, granted, changes>>

(* The lookup by idempotency key; without a row the manifest is built from *)
(* the policy of this build and from the asset that was read first.        *)
FindByIdempotency(c) ==
    /\ call[c].pc = "received"
    /\ \/ \E r \in Named(call[c].key) : ReplayOrConflict(c, r)
       \/ /\ Named(call[c].key) = {}
          /\ call' = [call EXCEPT ![c].pc = "built", ![c].policy = image["api"].policy]
    /\ UNCHANGED <<image, durableVars, workerVars, granted, changes>>

(* Mutant: nothing makes the key unique in the table. *)
KeyIsFreeUnchecked(c) == TRUE

(* UNIQUE(organization_id, creation_idempotency_key). *)
KeyIsFree(c) == Named(call[c].key) = {}

(* save_scan_and_authorization_request: scan, parent, operations, fleet    *)
(* and audit event in one transaction, or an integrity error and a second  *)
(* lookup.                                                                 *)
SaveScanAndAuthorizationRequest(c) ==
    /\ call[c].pc = "built"
    /\ IF KeyIsFree(c)
         THEN /\ request' = [request EXCEPT ![c] =
                    [NoRequest EXCEPT !.state = "REQUESTED", !.key = call[c].key,
                        !.body = call[c].body, !.policy = call[c].policy,
                        !.asset = call[c].asset]]
              /\ Answer(c, c)
         ELSE /\ \E r \in Named(call[c].key) : ReplayOrConflict(c, r)
              /\ UNCHANGED request
    /\ UNCHANGED <<image, asset, revoked, late, child, workerVars, granted, changes>>

StartScanRequest(c) ==
    ReceiveStart(c) \/ FindByIdempotency(c) \/ SaveScanAndAuthorizationRequest(c)

-----------------------------------------------------------------------------
(* POST /approve: approve_scan_authorization_request, one transaction that *)
(* locks the parent.                                                       *)

Approvable(r) == request[r].state \in {"REQUESTED", "DISPATCHABLE"}

(* A late approval closes a request that nobody has approved, and leaves a *)
(* dispatchable one as it is.                                              *)
ApproveExpired(r) ==
    /\ Approvable(r) /\ late[r] /\ request[r].state = "REQUESTED"
    /\ request' = [request EXCEPT ![r].state = "EXPIRED"]
    /\ UNCHANGED <<image, asset, revoked, late, child, call, workerVars, granted, changes>>

(* The approver's session, the policy of this build and the asset rows are *)
(* the ones that the manifest was sealed with.                             *)
MaterialCurrent(r, s) ==
    /\ Approvable(r) /\ ~late[r] /\ s \notin revoked
    /\ request[r].policy = image["api"].policy
    /\ request[r].asset = asset

ChildAuthority(r, s) ==
    [NoChild EXCEPT !.run = "REQUESTED", !.request = "AUTHORIZED", !.session = s,
                    !.gen = image["api"].gen, !.policy = request[r].policy]

ApproveFirst(r, key, s) ==
    /\ MaterialCurrent(r, s) /\ request[r].state = "REQUESTED"
    /\ request' = [request EXCEPT ![r].state = "DISPATCHABLE", ![r].approvalKey = key,
                                  ![r].session = s]
    /\ child' = [child EXCEPT ![r] =
                   [o \in Ops |-> IF o \in Selected(request[r].body, request[r].policy)
                                    THEN ChildAuthority(r, s) ELSE NoChild]]
    /\ granted' = granted \cup {<<r, key, s>>}
    /\ UNCHANGED <<image, asset, revoked, late, call, workerVars, changes>>

(* Mutant: any administrator's approval of a dispatchable parent is        *)
(* answered as a replay.                                                   *)
ReplayAnyApprover(r, key, s) == TRUE

(* _assert_materialized_child_authorities: every child as approval left it. *)
ExactReplay(r, key, s) ==
    /\ request[r].approvalKey = key /\ request[r].session = s
    /\ \A o \in Selected(request[r].body, request[r].policy) :
          /\ child[r][o].request = "AUTHORIZED" /\ child[r][o].run = "REQUESTED"
          /\ ~child[r][o].revoked /\ ~child[r][o].consumed

ApproveReplay(r, key, s) ==
    /\ MaterialCurrent(r, s) /\ request[r].state = "DISPATCHABLE"
    /\ ExactReplay(r, key, s)
    /\ granted' = granted \cup {<<r, key, s>>}
    /\ UNCHANGED <<image, durableVars, call, workerVars, changes>>

-----------------------------------------------------------------------------
(* Loss of authority.                                                      *)

(* The fifteen minutes of the manifest end. *)
RequestExpires(r) ==
    /\ request[r].state \in {"REQUESTED", "DISPATCHABLE"} /\ ~late[r]
    /\ late' = [late EXCEPT ![r] = TRUE]
    /\ UNCHANGED <<image, asset, revoked, request, child, call, workerVars, granted, changes>>

ChildrenOf(r) == {o \in Ops : child[r][o].run # "NONE"}

(* What a parent transition writes into the children of the request. *)
Propagated(r, target) ==
    [o \in Ops |->
        LET k == child[r][o]
        IN  CASE o \notin ChildrenOf(r) -> k
              [] target = "REVOKED" /\ o \in ChildrenOf(r) ->
                    [k EXCEPT !.revoked = TRUE,
                              !.request = IF k.request = "AUTHORIZED" THEN "REVOKED" ELSE @]
              [] target = "CONSUMED" /\ o \in ChildrenOf(r) ->
                    [k EXCEPT !.consumed = TRUE, !.fence = NoOne]
              [] OTHER -> k]

(* Mutant: the parent changes, its children keep their authority. *)
TransitionParentOnly(r, target) ==
    /\ request[r].state \in {"REQUESTED", "DISPATCHABLE"}
    /\ target = "CONSUMED" => request[r].state = "DISPATCHABLE"
    /\ request' = [request EXCEPT ![r].state = target]
    /\ UNCHANGED <<image, asset, revoked, late, child, call, workerVars, granted, changes>>

(* transition_scan_authorization_request.  EXPIRED moves expires_at of the *)
(* request and of its children to now.                                     *)
TransitionScanAuthorization(r, target) ==
    /\ request[r].state \in {"REQUESTED", "DISPATCHABLE"}
    /\ target = "CONSUMED" => request[r].state = "DISPATCHABLE"
    /\ request' = [request EXCEPT ![r].state = target]
    /\ late' = [late EXCEPT ![r] = @ \/ target = "EXPIRED"]
    /\ child' = [child EXCEPT ![r] = Propagated(r, target)]
    /\ UNCHANGED <<image, asset, revoked, call, workerVars, granted, changes>>

(* revoke_token: the session, its decisions and their pending requests. *)
RevokeToken(s) ==
    /\ s \notin revoked /\ revoked' = revoked \cup {s}
    /\ child' = [r \in Calls |-> [o \in Ops |->
          IF child[r][o].session = s
            THEN [child[r][o] EXCEPT !.revoked = TRUE,
                     !.request = IF @ = "AUTHORIZED" THEN "REVOKED" ELSE @]
            ELSE child[r][o]]]
    /\ UNCHANGED <<image, asset, request, late, call, workerVars, granted, changes>>

(* The asset, its project or its owner is edited. *)
EditAsset ==
    /\ changes < MaxChanges /\ changes' = changes + 1
    /\ asset' \in Assets \ {asset}
    /\ UNCHANGED <<image, revoked, request, late, child, call, workerVars, granted>>

(* A process is replaced by another build, or by a new copy of the same    *)
(* one.  The registries and the threads of the worker are lost; a /start   *)
(* in progress is lost with the API process.                               *)
Deploy(p) ==
    /\ changes < MaxChanges /\ changes' = changes + 1
    /\ \E i \in Images : image' = [image EXCEPT ![p] = i]
    /\ IF p = "worker"
         THEN /\ thread' = [w \in Threads |-> NoThread]
              /\ capabilities' = {} /\ registered' = 0 /\ contexts' = {}
              /\ UNCHANGED <<call, launches>>
         ELSE /\ call' = [c \in Calls |-> IF call[c].pc \in {"received", "built"}
                                            THEN Lost ELSE call[c]]
              /\ UNCHANGED workerVars
    /\ UNCHANGED <<durableVars, granted>>

-----------------------------------------------------------------------------
(* The worker: from the rows to a process.                                 *)

Row(w) == child[thread[w].req][thread[w].op]

At(w, pc) == thread[w].pc = pc
Goto(w, pc) == thread' = [thread EXCEPT ![w].pc = pc]
Return(w) == thread' = [thread EXCEPT ![w] = NoThread]

(* Mutant: the build is not compared with the one that was approved. *)
LaunchableAnyBuild(r, o) ==
    /\ request[r].state = "DISPATCHABLE" /\ o \in ChildrenOf(r) \ Native
    /\ child[r][o].request = "AUTHORIZED" /\ child[r][o].run \in {"REQUESTED", "STARTING"}
    /\ child[r][o].session \notin revoked
    /\ ~late[r] /\ ~child[r][o].revoked /\ ~child[r][o].consumed

(* resolve_launch_binding: the joined parent, operation and child rows,    *)
(* against the policy and the generation of this build.                    *)
Launchable(r, o) ==
    /\ request[r].state = "DISPATCHABLE" /\ o \in ChildrenOf(r) \ Native
    /\ child[r][o].policy = image["worker"].policy
    /\ o \in Represented[image["worker"].policy]
    /\ child[r][o].request = "AUTHORIZED" /\ child[r][o].run \in {"REQUESTED", "STARTING"}
    /\ child[r][o].gen = image["worker"].gen
    /\ child[r][o].session \notin revoked
    /\ ~late[r] /\ ~child[r][o].revoked /\ ~child[r][o].consumed

(* issue_execution_capability: the decision, for this policy revision. *)
DecisionLive(r, o) ==
    ~child[r][o].revoked /\ ~late[r] /\ child[r][o].session \notin revoked

Issuable(r, o) == DecisionLive(r, o) /\ child[r][o].policy = image["worker"].policy

(* issue_capability resolves the binding, reads the decision again and     *)
(* registers the capability.  The two reads are one step: what the first   *)
(* alone has seen can change as well between the second and the claim.  A  *)
(* full registry is cleared, with the capabilities of other threads that   *)
(* have not launched yet.                                                  *)
IssueCapability(w, r, o) ==
    /\ At(w, "idle") /\ Launchable(r, o) /\ Issuable(r, o)
    /\ thread' = [thread EXCEPT ![w] =
          [pc |-> "issued", req |-> r, op |-> o, consumed |-> child[r][o].consumed,
           fence |-> child[r][o].fence]]
    /\ IF registered >= CapabilityCap
         THEN capabilities' = {w} /\ registered' = 1
         ELSE capabilities' = capabilities \cup {w} /\ registered' = registered + 1
    /\ UNCHANGED <<image, durableVars, call, contexts, launches, granted, changes>>

(* revalidate_and_claim up to the claim: the object is still registered,   *)
(* and the decision equals the one it was issued for, claim included.      *)
Unchanged(w) ==
    /\ w \in capabilities /\ DecisionLive(thread[w].req, thread[w].op)
    /\ ~Row(w).consumed
    /\ thread[w].consumed = Row(w).consumed /\ thread[w].fence = Row(w).fence

Revalidate(w) ==
    /\ At(w, "issued")
    /\ \/ Unchanged(w) /\ Goto(w, "revalidated")
       \/ ~Unchanged(w) /\ Return(w)
    /\ UNCHANGED <<image, durableVars, call, capabilities, registered, contexts,
                   launches, granted, changes>>

(* Mutant: a dispatch that is already claimed can be claimed again. *)
ClaimAnyDispatch(w) ==
    ~Row(w).revoked /\ ~Row(w).consumed /\ Row(w).session \notin revoked

(* claim_execution_authority.  The expiry is compared with the time that   *)
(* revalidate_and_claim took before its own read, so an expiry since then  *)
(* does not refuse the claim.  The parent is not read.                     *)
ClaimOk(w) ==
    /\ ~Row(w).revoked /\ ~Row(w).consumed /\ Row(w).session \notin revoked
    /\ Row(w).request = "AUTHORIZED" /\ Row(w).run = "REQUESTED"

SetChild(w, k) == child' = [child EXCEPT ![thread[w].req][thread[w].op] = k]

Claim(w) ==
    /\ At(w, "revalidated")
    /\ \/ ClaimOk(w) /\ Goto(w, "claimed")
          /\ SetChild(w, [Row(w) EXCEPT !.run = "STARTING", !.fence = w])
       \/ ~ClaimOk(w) /\ Return(w) /\ UNCHANGED child
    /\ UNCHANGED <<image, asset, revoked, request, late, call, capabilities, registered,
                   contexts, launches, granted, changes>>

(* _register_issued_context: a full registry drops the contexts that have  *)
(* expired, and refuses the new one if that is not enough.                 *)
Purged == IF Cardinality(contexts) >= ContextCap
            THEN {k \in contexts : ~late[k[1]]} ELSE contexts

ContextFits == Cardinality(Purged) < ContextCap

(* settle_execution with no process; a decision that was consumed behind   *)
(* the worker's back leaves the run to recovery.                           *)
Block(w) ==
    /\ Return(w)
    /\ SetChild(w, IF Row(w).consumed THEN Row(w)
                     ELSE [Row(w) EXCEPT !.run = "ENDED", !.fence = NoOne])

(* issue_execution_context and assert_launch. *)
IssueContext(w) ==
    /\ At(w, "claimed")
    /\ \/ /\ w \in capabilities /\ ContextFits /\ ~late[thread[w].req]
          /\ contexts' = Purged \cup {<<thread[w].req, thread[w].op>>}
          /\ Goto(w, "cleared") /\ UNCHANGED child
       \/ /\ ~(w \in capabilities /\ ContextFits /\ ~late[thread[w].req])
          /\ contexts' = IF w \in capabilities THEN Purged ELSE contexts
          /\ Block(w)
    /\ UNCHANGED <<image, asset, revoked, request, late, call, capabilities, registered,
                   launches, granted, changes>>

(* Popen. *)
Launch(w) ==
    /\ At(w, "cleared") /\ Goto(w, "launched")
    /\ launches' = [launches EXCEPT ![thread[w].req][thread[w].op] = @ + 1]
    /\ UNCHANGED <<image, durableVars, call, capabilities, registered, contexts, granted,
                   changes>>

(* mark_execution_decision_started reads everything again. *)
StartOk(w) ==
    /\ DecisionLive(thread[w].req, thread[w].op)
    /\ ~Row(w).consumed /\ Row(w).fence = w
    /\ Row(w).request = "AUTHORIZED" /\ Row(w).run = "STARTING"

(* Without the mark the process is killed and the run left to recovery.    *)
MarkStarted(w) ==
    /\ At(w, "launched")
    /\ \/ StartOk(w) /\ Goto(w, "running")
          /\ SetChild(w, [Row(w) EXCEPT !.run = "RUNNING", !.consumed = TRUE, !.fence = NoOne])
       \/ ~StartOk(w) /\ Return(w) /\ UNCHANGED child
    /\ UNCHANGED <<image, asset, revoked, request, late, call, capabilities, registered,
                   contexts, launches, granted, changes>>

Finish(w) ==
    /\ At(w, "running") /\ Return(w)
    /\ SetChild(w, [Row(w) EXCEPT !.run = "ENDED"])
    /\ UNCHANGED <<image, asset, revoked, request, late, call, capabilities, registered,
                   contexts, launches, granted, changes>>

(* Recovery closes a run that no thread holds any more. *)
Recover(r, o) ==
    /\ child[r][o].run \in {"STARTING", "RUNNING"}
    /\ \A w \in Threads : thread[w].pc \in {"claimed", "cleared", "launched", "running"}
                             => <<thread[w].req, thread[w].op>> # <<r, o>>
    /\ child' = [child EXCEPT ![r][o] = [@ EXCEPT !.run = "ENDED", !.fence = NoOne]]
    /\ UNCHANGED <<image, asset, revoked, request, late, call, workerVars, granted, changes>>

WorkerStep(w) ==
    \/ \E r \in Calls, o \in Ops : IssueCapability(w, r, o)
    \/ Revalidate(w) \/ Claim(w) \/ IssueContext(w)
    \/ Launch(w) \/ MarkStarted(w) \/ Finish(w)

AuthorityNext ==
    \/ \E c \in Calls : StartScanRequest(c)
    \/ \E r \in Calls : ApproveExpired(r) \/ RequestExpires(r)
    \/ \E r \in Calls, key \in ApprovalKeys, s \in Sessions :
          ApproveFirst(r, key, s) \/ ApproveReplay(r, key, s)
    \/ \E r \in Calls, target \in {"REVOKED", "EXPIRED", "CONSUMED"} :
          TransitionScanAuthorization(r, target)
    \/ \E s \in Sessions : RevokeToken(s)
    \/ EditAsset
    \/ \E p \in Processes : Deploy(p)
    \/ \E w \in Threads : WorkerStep(w)
    \/ \E r \in Calls, o \in Ops : Recover(r, o)

AuthoritySpec == AuthorityInit /\ [][AuthorityNext]_vars
-----------------------------------------------------------------------------
Policies == {i.policy : i \in Images}
Gens     == {i.gen : i \in Images}

CallRows ==
    [pc : {"idle", "received", "built", "done", "conflict"}, key : Keys \cup {NoOne},
     body : Bodies \cup {{}}, policy : Policies \cup {NoOne}, asset : Assets \cup {NoOne},
     answer : Calls \cup {NoOne}]
RequestRows ==
    [state : {"NONE", "REQUESTED", "DISPATCHABLE", "EXPIRED", "REVOKED", "CONSUMED"},
     key : Keys \cup {NoOne}, body : Bodies \cup {{}}, policy : Policies \cup {NoOne},
     asset : Assets \cup {NoOne}, approvalKey : ApprovalKeys \cup {NoOne},
     session : Sessions \cup {NoOne}]
ChildRows ==
    [run : {"NONE", "REQUESTED", "STARTING", "RUNNING", "ENDED"},
     request : {"NONE", "AUTHORIZED", "REVOKED"}, revoked : BOOLEAN, consumed : BOOLEAN,
     fence : Threads \cup {NoOne}, session : Sessions \cup {NoOne},
     gen : Gens \cup {NoOne}, policy : Policies \cup {NoOne}]
ThreadStates ==
    [pc : {"idle", "issued", "revalidated", "claimed", "cleared", "launched", "running"},
     req : Calls \cup {NoOne}, op : Ops \cup {NoOne}, consumed : BOOLEAN,
     fence : Threads \cup {NoOne}]

(* Rows, calls and threads keep their types, the two registries of the     *)
(* worker stay within their limits, and a worker never has more live       *)
(* contexts than _ISSUED_CONTEXTS may hold.                                *)
AuthorityTypeOK ==
    /\ image \in [Processes -> Images] /\ asset \in Assets /\ revoked \subseteq Sessions
    /\ call \in [Calls -> CallRows] /\ request \in [Calls -> RequestRows]
    /\ late \in [Calls -> BOOLEAN] /\ child \in [Calls -> [Ops -> ChildRows]]
    /\ thread \in [Threads -> ThreadStates]
    /\ capabilities \subseteq Threads /\ registered \in 0 .. CapabilityCap
    /\ contexts \subseteq Calls \X Ops /\ IsFiniteSet(contexts)
    /\ Cardinality(contexts) <= ContextCap
    /\ granted \subseteq Calls \X ApprovalKeys \X Sessions
    /\ launches \in [Calls -> [Ops -> Nat]] /\ changes \in 0 .. MaxChanges

(* An idempotency key names one request: however the lookups and inserts   *)
(* of concurrent /start calls interleave, all answers for a key name the   *)
(* same scan_request_id, and that request holds the caller's own input.    *)
OneRequestPerKey ==
    /\ \A r, q \in Calls : request[r].state # "NONE" /\ request[q].state # "NONE"
                              /\ request[r].key = request[q].key => r = q
    /\ \A c \in Calls : call[c].answer # NoOne =>
          /\ request[call[c].answer].key = call[c].key
          /\ request[call[c].answer].body = call[c].body

(* Concurrent approvals of one manifest have one winner: every positive    *)
(* answer carries the key and the session that the parent and all of its   *)
(* children are bound to.                                                  *)
OneApprovalPerRequest ==
    \A g \in granted :
        /\ request[g[1]].approvalKey = g[2] /\ request[g[1]].session = g[3]
        /\ ChildrenOf(g[1]) = Selected(request[g[1]].body, request[g[1]].policy)
        /\ \A o \in ChildrenOf(g[1]) : child[g[1]][o].session = g[3]

(* An approval is used at most once: capabilities issued by several        *)
(* threads, restarts of the worker, new builds and repeated approvals      *)
(* never create a second process for a child.                              *)
LaunchedOnce == \A r \in Calls, o \in Ops : launches[r][o] <= 1

(* A child claims its dispatch, and later starts, only while its parent    *)
(* still stands, although neither transaction reads the parent: what       *)
(* closes the parent also reaches the rows they do read.  Only the claim   *)
(* may overtake an expiry, and the start then refuses.                     *)
ClosedParentStartsNothing ==
    [][\A r \in Calls, o \in Ops : child'[r][o].run # child[r][o].run =>
          /\ child'[r][o].run = "STARTING" =>
                request[r].state \in {"DISPATCHABLE", "EXPIRED"} /\ request[r].session \notin revoked
          /\ child'[r][o].run = "RUNNING" =>
                /\ request[r].state = "DISPATCHABLE" /\ ~late[r]
                /\ request[r].session \notin revoked]_vars

(* A process is created only by the build that the administrator approved, *)
(* for an operation that the sealed manifest selected, under the policy    *)
(* revision that was sealed, whatever was deployed or edited since.        *)
LaunchedAsApproved ==
    [][\A r \in Calls, o \in Ops : launches'[r][o] # launches[r][o] =>
          /\ o \in Selected(request[r].body, request[r].policy) \ Native
          /\ child[r][o].policy = request[r].policy
          /\ image["worker"].policy = request[r].policy
          /\ image["worker"].gen = child[r][o].gen]_vars
-----------------------------------------------------------------------------
(* Why the properties hold: what calls, rows and threads may rely on.      *)

Holding == {"claimed", "cleared", "launched", "running"}

(* A call has inserted nothing before it is answered, and an answer names  *)
(* a row.                                                                  *)
CallInv ==
    \A c \in Calls :
        /\ call[c].pc \in {"idle", "received", "built"} => request[c].state = "NONE"
        /\ call[c].answer # NoOne => request[call[c].answer].state # "NONE"

RequestInv == \A r \in Calls : request[r].state = "EXPIRED" => late[r]

(* The rows of a child exist from the approval on, for the operations of   *)
(* the sealed manifest, under its policy and the approver's session, and   *)
(* say what closed the parent.                                             *)
ChildInv ==
    \A r \in Calls, o \in Ops :
        /\ child[r][o].run # "NONE" =>
              /\ request[r].state \notin {"NONE", "REQUESTED"}
              /\ o \in Selected(request[r].body, request[r].policy)
              /\ child[r][o].policy = request[r].policy
              /\ child[r][o].session = request[r].session
              /\ request[r].state = "REVOKED" => child[r][o].revoked
              /\ request[r].state = "CONSUMED" => child[r][o].consumed
        /\ request[r].state = "DISPATCHABLE" /\ o \in Selected(request[r].body, request[r].policy)
              => child[r][o].run # "NONE"

GrantInv ==
    \A g \in granted :
        /\ request[g[1]].state \notin {"NONE", "REQUESTED"}
        /\ request[g[1]].approvalKey = g[2] /\ request[g[1]].session = g[3]
        /\ \A o \in Selected(request[g[1]].body, request[g[1]].policy) :
              child[g[1]][o].run # "NONE"

(* A thread past the resolution of its binding works on a child of its own *)
(* build; from the claim on no other thread holds that child.              *)
ThreadInv ==
    \A w \in Threads : thread[w].pc # "idle" =>
        /\ thread[w].req \in Calls /\ thread[w].op \in Ops \ Native
        /\ Row(w).run # "NONE"
        /\ Row(w).policy = image["worker"].policy /\ Row(w).gen = image["worker"].gen
        /\ thread[w].pc \in {"claimed", "cleared", "launched"} => Row(w).run = "STARTING"
        /\ thread[w].pc = "running" => Row(w).run = "RUNNING"
        /\ thread[w].pc \in {"claimed", "cleared"} => launches[thread[w].req][thread[w].op] = 0

HolderInv ==
    \A v, w \in Threads :
        /\ thread[v].pc \in Holding /\ thread[w].pc \in Holding
        /\ thread[v].req = thread[w].req /\ thread[v].op = thread[w].op
        => v = w

LaunchInv ==
    \A r \in Calls, o \in Ops :
        /\ launches[r][o] <= 1
        /\ child[r][o].run \in {"NONE", "REQUESTED"} => launches[r][o] = 0

AuthorityInv ==
    /\ AuthorityTypeOK /\ OneRequestPerKey
    /\ CallInv /\ RequestInv /\ ChildInv /\ GrantInv
    /\ ThreadInv /\ HolderInv /\ LaunchInv
=============================================================================
