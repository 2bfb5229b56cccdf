------------------------ MODULE ScanAuthorityProofs ------------------------
(***************************************************************************)
(* The authorization rows bind a scan request to its launches: one request *)
(* per idempotency key, one approval per request, one process per child,   *)
(* created by the build and under the parent that were approved.  Proved   *)
(* for any sets of calls, operations, builds, sessions and threads.        *)
(*                                                                         *)
(* AuthorityInv is inductive.  The lemmas on rows say what a write does to *)
(* every row; ThreadsUndisturbed, RowsUndisturbed, HolderWrites and their  *)
(* like say which steps leave which part of the invariant alone; one lemma *)
(* per action combines them.                                               *)
(***************************************************************************)
EXTENDS ScanAuthority, FiniteSetTheorems, TLAPS

(* The rows, calls and threads that the actions create are well typed. *)
LEMMA NewRows ==
    /\ NoCall \in CallRows /\ Lost \in CallRows /\ NoRequest \in RequestRows
    /\ NoChild \in ChildRows /\ NoThread \in ThreadStates
BY DEF NoCall, Lost, NoRequest, NoChild, NoThread, CallRows, RequestRows, ChildRows, ThreadStates

(* A manifest selects operations. *)
LEMMA SelectedOps ==
    ASSUME AuthorityTypeOK, NEW r \in Calls
    PROVE  Selected(request[r].body, request[r].policy) \subseteq Ops
BY AuthorityAssumption DEF AuthorityTypeOK, RequestRows, Selected

(* The one write of a worker's step, row by row. *)
LEMMA SetChildEffect ==
    ASSUME AuthorityTypeOK, NEW w \in Threads, NEW k \in ChildRows, SetChild(w, k),
           thread[w].req \in Calls, thread[w].op \in Ops
    PROVE  /\ child' \in [Calls -> [Ops -> ChildRows]]
           /\ \A r \in Calls, o \in Ops :
              child'[r][o] = IF r = thread[w].req /\ o = thread[w].op THEN k ELSE child[r][o]
BY DEF SetChild, AuthorityTypeOK

LEMMA RecoverEffect ==
    ASSUME AuthorityTypeOK, NEW a \in Calls, NEW b \in Ops, Recover(a, b)
    PROVE  /\ child' \in [Calls -> [Ops -> ChildRows]]
           /\ \A r \in Calls, o \in Ops :
              child'[r][o] = IF r = a /\ o = b
                               THEN [child[a][b] EXCEPT !.run = "ENDED", !.fence = NoOne]
                               ELSE child[r][o]
<1> DEFINE row == [child[a][b] EXCEPT !.run = "ENDED", !.fence = NoOne]
<1>1. child' = [child EXCEPT ![a][b] = row]
  BY DEF Recover
<1>2. row \in ChildRows
  <2>1. child[a][b] \in ChildRows
    BY DEF AuthorityTypeOK
  <2> QED BY <2>1 DEF ChildRows
<1>3. child' \in [Calls -> [Ops -> ChildRows]]
  BY <1>1, <1>2 DEF AuthorityTypeOK
<1>4. \A r \in Calls, o \in Ops : child'[r][o] = IF r = a /\ o = b THEN row ELSE child[r][o]
  BY <1>1 DEF AuthorityTypeOK
<1> QED BY <1>3, <1>4

(* What a parent transition leaves of a child: its run, its bindings, and  *)
(* the marks of the target.                                                *)
LEMMA PropagatedRows ==
    ASSUME AuthorityTypeOK, NEW r \in Calls, NEW target \in {"REVOKED", "EXPIRED", "CONSUMED"}
    PROVE  /\ Propagated(r, target) \in [Ops -> ChildRows]
           /\ \A o \in Ops :
                LET k == Propagated(r, target)[o] IN
                /\ k.run = child[r][o].run /\ k.policy = child[r][o].policy
                /\ k.gen = child[r][o].gen /\ k.session = child[r][o].session
                /\ target = "REVOKED" /\ k.run # "NONE" => k.revoked
                /\ target = "CONSUMED" /\ k.run # "NONE" => k.consumed
<1> SUFFICES ASSUME NEW o \in Ops
             PROVE  LET k == Propagated(r, target)[o] IN
                /\ k \in ChildRows
                /\ k.run = child[r][o].run /\ k.policy = child[r][o].policy
                /\ k.gen = child[r][o].gen /\ k.session = child[r][o].session
                /\ target = "REVOKED" /\ k.run # "NONE" => k.revoked
                /\ target = "CONSUMED" /\ k.run # "NONE" => k.consumed
  BY DEF Propagated
<1>1. child[r][o] \in ChildRows
  BY DEF AuthorityTypeOK
<1>2. CASE o \notin ChildrenOf(r)
  BY <1>1, <1>2 DEF Propagated, ChildrenOf
<1>3. CASE o \in ChildrenOf(r) /\ target = "REVOKED"
  BY <1>1, <1>3 DEF Propagated, ChildRows
<1>4. CASE o \in ChildrenOf(r) /\ target = "CONSUMED"
  BY <1>1, <1>4 DEF Propagated, ChildRows
<1>5. CASE o \in ChildrenOf(r) /\ target = "EXPIRED"
  BY <1>1, <1>5 DEF Propagated, ChildRows
<1> QED BY <1>2, <1>3, <1>4, <1>5

(* The registry of contexts stays finite and within its limit. *)
LEMMA PurgedFits ==
    ASSUME AuthorityTypeOK
    PROVE  /\ Purged \subseteq Calls \X Ops /\ IsFiniteSet(Purged)
           /\ Cardinality(Purged) <= ContextCap
           /\ \A k \in Calls \X Ops : ContextFits =>
                 /\ IsFiniteSet(Purged \cup {k}) /\ Cardinality(Purged \cup {k}) <= ContextCap
<1>1. IsFiniteSet(contexts) /\ Cardinality(contexts) <= ContextCap /\ ContextCap \in Nat
  BY AuthorityAssumption DEF AuthorityTypeOK
<1>2. Purged \subseteq contexts
  BY DEF Purged
<1>3. IsFiniteSet(Purged) /\ Cardinality(Purged) <= Cardinality(contexts)
  BY <1>1, <1>2, FS_Subset
<1>4. Cardinality(Purged) \in Nat /\ Cardinality(contexts) \in Nat
  BY <1>1, <1>3, FS_CardinalityType
<1>5. ASSUME NEW k, ContextFits
      PROVE  IsFiniteSet(Purged \cup {k}) /\ Cardinality(Purged \cup {k}) <= ContextCap
  BY <1>1, <1>3, <1>4, <1>5, FS_AddElement DEF ContextFits
<1>6. Purged \subseteq Calls \X Ops
  BY <1>2 DEF AuthorityTypeOK
<1>7. Cardinality(Purged) <= ContextCap
  BY <1>1, <1>3, <1>4
<1> QED BY <1>3, <1>5, <1>6, <1>7

-----------------------------------------------------------------------------
LEMMA InitInv == AuthorityInit => AuthorityInv
<1> SUFFICES ASSUME AuthorityInit PROVE AuthorityInv
  OBVIOUS
<1>1. AuthorityTypeOK
  BY NewRows, AuthorityAssumption, FS_EmptySet DEF AuthorityInit, AuthorityTypeOK, Processes
<1>2. OneRequestPerKey /\ CallInv /\ RequestInv /\ GrantInv
  BY DEF AuthorityInit, OneRequestPerKey, CallInv, RequestInv, GrantInv, NoCall, NoRequest
<1>3. ChildInv /\ LaunchInv
  BY DEF AuthorityInit, ChildInv, LaunchInv, NoChild, NoRequest
<1>4. ThreadInv /\ HolderInv
  BY DEF AuthorityInit, ThreadInv, HolderInv, NoThread, Holding
<1> QED BY <1>1, <1>2, <1>3, <1>4 DEF AuthorityInv

-----------------------------------------------------------------------------
(* POST /start *)

LEMMA ReceiveStartKeeps ==
    ASSUME AuthorityInv, NEW c \in Calls, ReceiveStart(c) PROVE AuthorityInv'
<1> USE DEF AuthorityInv, ReceiveStart, durableVars, workerVars
<1>1. PICK key \in Keys, body \in Bodies :
         call' = [call EXCEPT ![c] = [NoCall EXCEPT !.pc = "received", !.key = key,
                                                    !.body = body, !.asset = asset]]
  OBVIOUS
<1>2. AuthorityTypeOK'
  BY <1>1 DEF AuthorityTypeOK, NoCall, CallRows
<1>3. OneRequestPerKey' /\ CallInv'
  BY <1>1 DEF AuthorityTypeOK, NoCall, OneRequestPerKey, CallInv
<1>4. RequestInv' /\ ChildInv' /\ GrantInv' /\ ThreadInv' /\ HolderInv' /\ LaunchInv'
  BY DEF RequestInv, ChildInv, GrantInv, ThreadInv, HolderInv, LaunchInv, Row
<1> QED BY <1>2, <1>3, <1>4

(* A replay names the request of the key, with the same input. *)
LEMMA ReplayKeeps ==
    ASSUME AuthorityInv, NEW c \in Calls, NEW r \in Named(call[c].key),
           ReplayOrConflict(c, r), UNCHANGED request
    PROVE  call' \in [Calls -> CallRows] /\ OneRequestPerKey' /\ CallInv'
<1> USE DEF AuthorityInv, AuthorityTypeOK, Named, CallRows
<1>1. CASE request[r].body = call[c].body
  <2>1. call' = [call EXCEPT ![c] = [NoCall EXCEPT !.pc = "done", !.key = call[c].key,
                                               !.body = call[c].body, !.answer = r]]
    BY <1>1 DEF ReplayOrConflict, Answer
  <2> QED BY <1>1, <2>1 DEF NoCall, OneRequestPerKey, CallInv
<1>2. CASE request[r].body # call[c].body
  <2>1. call' = [call EXCEPT ![c] = Lost]
    BY <1>2 DEF ReplayOrConflict
  <2> QED BY <2>1 DEF NoCall, Lost, OneRequestPerKey, CallInv
<1> QED BY <1>1, <1>2

LEMMA FindKeeps ==
    ASSUME AuthorityInv, NEW c \in Calls, FindByIdempotency(c) PROVE AuthorityInv'
<1> USE DEF AuthorityInv, FindByIdempotency, durableVars, workerVars
<1>1. call' \in [Calls -> CallRows] /\ OneRequestPerKey' /\ CallInv'
  <2>1. CASE \E r \in Named(call[c].key) : ReplayOrConflict(c, r)
    BY <2>1, ReplayKeeps
  <2>2. CASE call' = [call EXCEPT ![c].pc = "built", ![c].policy = image["api"].policy]
    <3>1. image["api"].policy \in Policies
      BY DEF AuthorityTypeOK, Processes, Policies
    <3> DEFINE row == [call[c] EXCEPT !.pc = "built", !.policy = image["api"].policy]
    <3>2. call[c] \in CallRows /\ call' = [call EXCEPT ![c] = row]
      BY <2>2 DEF AuthorityTypeOK
    <3>3. /\ row \in CallRows /\ row.answer = call[c].answer /\ row.key = call[c].key
          /\ row.body = call[c].body
      BY <3>1, <3>2 DEF CallRows
    <3>4. request[c].state = "NONE" /\ UNCHANGED request
      BY DEF CallInv
    <3> HIDE DEF row
    <3>5. call' \in [Calls -> CallRows]
      BY <3>2, <3>3 DEF AuthorityTypeOK
    <3> QED BY <3>2, <3>3, <3>4, <3>5 DEF OneRequestPerKey, CallInv, AuthorityTypeOK
  <2> QED BY <2>1, <2>2
<1>2. AuthorityTypeOK'
  BY <1>1 DEF AuthorityTypeOK
<1>3. RequestInv' /\ ChildInv' /\ GrantInv' /\ ThreadInv' /\ HolderInv' /\ LaunchInv'
  BY DEF RequestInv, ChildInv, GrantInv, ThreadInv, HolderInv, LaunchInv, Row
<1> QED BY <1>1, <1>2, <1>3

LEMMA SaveKeeps ==
    ASSUME AuthorityInv, NEW c \in Calls, SaveScanAndAuthorizationRequest(c)
    PROVE  AuthorityInv'
<1> USE DEF AuthorityInv, SaveScanAndAuthorizationRequest, workerVars
<1>1. CASE ~KeyIsFree(c)
  <2>1. call' \in [Calls -> CallRows] /\ OneRequestPerKey' /\ CallInv'
    BY <1>1, ReplayKeeps
  <2>2. AuthorityTypeOK'
    BY <1>1, <2>1 DEF AuthorityTypeOK
  <2>3. RequestInv' /\ ChildInv' /\ GrantInv' /\ ThreadInv' /\ HolderInv' /\ LaunchInv'
    BY <1>1 DEF RequestInv, ChildInv, GrantInv, ThreadInv, HolderInv, LaunchInv, Row
  <2> QED BY <2>1, <2>2, <2>3
<1>2. CASE KeyIsFree(c)
  <2> DEFINE row == [NoRequest EXCEPT !.state = "REQUESTED", !.key = call[c].key,
                        !.body = call[c].body, !.policy = call[c].policy,
                        !.asset = call[c].asset]
  <2>1. request' = [request EXCEPT ![c] = row] /\ request[c].state = "NONE"
    BY <1>2 DEF CallInv
  <2>2. call' = [call EXCEPT ![c] = [NoCall EXCEPT !.pc = "done", !.key = call[c].key,
                                                   !.body = call[c].body, !.answer = c]]
    BY <1>2 DEF Answer
  <2>3. /\ row \in RequestRows /\ row.state = "REQUESTED"
        /\ row.key = call[c].key /\ row.body = call[c].body
    BY DEF NoRequest, RequestRows, AuthorityTypeOK, CallRows
  <2> HIDE DEF row
  <2>4. request' \in [Calls -> RequestRows] /\ request'[c] = row
        /\ \A r \in Calls \ {c} : request'[r] = request[r]
    BY <2>1, <2>3 DEF AuthorityTypeOK
  <2>5. call' \in [Calls -> CallRows]
    BY <2>2 DEF NoCall, CallRows, AuthorityTypeOK
  <2>6. AuthorityTypeOK'
    BY <2>4, <2>5 DEF AuthorityTypeOK
  <2>7. OneRequestPerKey'
    <3>1. \A r \in Calls : request[r].state # "NONE" => request[r].key # call[c].key
      BY <1>2 DEF KeyIsFree, Named
    <3>2. call'[c].answer = c /\ call'[c].key = row.key /\ call'[c].body = row.body
      BY <2>2, <2>3 DEF NoCall, AuthorityTypeOK
    <3>3. \A d \in Calls \ {c} : call'[d] = call[d] /\ (call[d].answer # NoOne => call[d].answer \in Calls \ {c})
      BY <2>1, <2>2 DEF AuthorityTypeOK, CallRows, CallInv
    <3> QED BY <2>3, <2>4, <3>1, <3>2, <3>3 DEF OneRequestPerKey
  <2>8. CallInv'
    <3>1. call'[c].answer = c /\ call'[c].pc = "done"
      BY <2>2 DEF NoCall, AuthorityTypeOK
    <3>3. \A d \in Calls \ {c} : call'[d] = call[d] /\ (call[d].answer # NoOne => call[d].answer \in Calls \ {c})
      BY <2>1, <2>2 DEF AuthorityTypeOK, CallRows, CallInv
    <3> QED BY <2>3, <2>4, <3>1, <3>3 DEF CallInv
  <2>9. RequestInv'
    BY <2>3, <2>4 DEF RequestInv
  <2>10. ChildInv' /\ LaunchInv'
    <3>1. \A o \in Ops : child[c][o].run = "NONE"
      BY <2>1 DEF ChildInv
    <3> QED BY <2>3, <2>4, <3>1 DEF ChildInv, LaunchInv
  <2>11. GrantInv'
    <3>1. \A g \in granted : g[1] \in Calls \ {c}
      BY <2>1 DEF GrantInv, AuthorityTypeOK
    <3> QED BY <2>4, <3>1 DEF GrantInv
  <2>12. ThreadInv' /\ HolderInv'
    BY DEF ThreadInv, HolderInv, Row
  <2> QED BY <2>6, <2>7, <2>8, <2>9, <2>10, <2>11, <2>12
<1> QED BY <1>1, <1>2

-----------------------------------------------------------------------------
(* POST /approve and the loss of authority *)

(* No child is created, started or bound to something else. *)
QuietRows ==
    \A r \in Calls, o \in Ops :
        /\ child'[r][o].run = child[r][o].run /\ child'[r][o].policy = child[r][o].policy
        /\ child'[r][o].gen = child[r][o].gen /\ child'[r][o].session = child[r][o].session

(* Threads do not notice a step that leaves the runs alone. *)
LEMMA ThreadsUndisturbed ==
    ASSUME AuthorityInv, QuietRows, UNCHANGED <<thread, launches>>,
           image'["worker"] = image["worker"]
    PROVE  ThreadInv' /\ HolderInv' /\ LaunchInv'
BY DEF AuthorityInv, QuietRows, ThreadInv, HolderInv, LaunchInv, Row

(* Calls and answers keep their meaning when rows only change their state. *)
LEMMA AnswersUndisturbed ==
    ASSUME AuthorityInv, UNCHANGED call,
           \A r \in Calls : /\ request'[r].state = "NONE" <=> request[r].state = "NONE"
                            /\ request'[r].key = request[r].key
                            /\ request'[r].body = request[r].body
    PROVE  OneRequestPerKey' /\ CallInv'
<1>1. \A c \in Calls : call[c].answer \in Calls \cup {NoOne}
  BY DEF AuthorityInv, AuthorityTypeOK, CallRows
<1>2. CallInv'
  BY <1>1 DEF AuthorityInv, CallInv
<1>3. OneRequestPerKey'
  BY <1>1 DEF AuthorityInv, OneRequestPerKey
<1> QED BY <1>2, <1>3

LEMMA ApproveExpiredKeeps ==
    ASSUME AuthorityInv, NEW a \in Calls, ApproveExpired(a) PROVE AuthorityInv'
<1> USE DEF AuthorityInv, ApproveExpired, workerVars
<1> DEFINE row == [request[a] EXCEPT !.state = "EXPIRED"]
<1>1. request[a] \in RequestRows /\ request' = [request EXCEPT ![a] = row]
  BY DEF AuthorityTypeOK
<1>2. /\ row \in RequestRows /\ row.state = "EXPIRED" /\ row.key = request[a].key
      /\ row.body = request[a].body
  BY <1>1 DEF RequestRows
<1> HIDE DEF row
<1>3. /\ request' \in [Calls -> RequestRows] /\ request'[a] = row
      /\ \A r \in Calls \ {a} : request'[r] = request[r]
  BY <1>1, <1>2 DEF AuthorityTypeOK
<1>4. AuthorityTypeOK'
  BY <1>3 DEF AuthorityTypeOK
<1>5. OneRequestPerKey' /\ CallInv'
  BY <1>2, <1>3, AnswersUndisturbed
<1>6. RequestInv'
  BY <1>3 DEF RequestInv
<1>7. ChildInv'
  <2>1. \A o \in Ops : child[a][o].run = "NONE"
    BY DEF ChildInv
  <2> QED BY <1>2, <1>3, <2>1 DEF ChildInv
<1>8. GrantInv'
  <2>1. \A g \in granted : g[1] \in Calls \ {a}
    BY DEF GrantInv, AuthorityTypeOK
  <2> QED BY <1>3, <2>1 DEF GrantInv
<1>9. ThreadInv' /\ HolderInv' /\ LaunchInv'
  BY ThreadsUndisturbed DEF QuietRows
<1> QED BY <1>4, <1>5, <1>6, <1>7, <1>8, <1>9

LEMMA ApproveFirstKeeps ==
    ASSUME AuthorityInv, NEW a \in Calls, NEW key \in ApprovalKeys, NEW s \in Sessions,
           ApproveFirst(a, key, s)
    PROVE  AuthorityInv'
<1> USE DEF AuthorityInv
<1> DEFINE row == [request[a] EXCEPT !.state = "DISPATCHABLE", !.approvalKey = key, !.session = s]
<1> DEFINE sel == Selected(request[a].body, request[a].policy)
<1> DEFINE kids == [o \in Ops |-> IF o \in sel THEN ChildAuthority(a, s) ELSE NoChild]
<1>1. /\ request[a] \in RequestRows /\ request' = [request EXCEPT ![a] = row]
      /\ request[a].state = "REQUESTED"
      /\ child' = [child EXCEPT ![a] = kids] /\ granted' = granted \cup {<<a, key, s>>}
      /\ UNCHANGED <<image, asset, revoked, late, call, workerVars, changes>>
  BY DEF AuthorityTypeOK, ApproveFirst
<1>2. /\ row \in RequestRows /\ row.state = "DISPATCHABLE" /\ row.key = request[a].key
      /\ row.body = request[a].body /\ row.policy = request[a].policy
      /\ row.approvalKey = key /\ row.session = s
  BY <1>1 DEF RequestRows
<1>3. /\ ChildAuthority(a, s) \in ChildRows /\ ChildAuthority(a, s).run = "REQUESTED"
      /\ ChildAuthority(a, s).policy = request[a].policy /\ ChildAuthority(a, s).session = s
  <2>1. image["api"].gen \in Gens /\ request[a].policy \in Policies \cup {NoOne}
    BY <1>1 DEF AuthorityTypeOK, Processes, Gens, RequestRows
  <2> QED BY <2>1 DEF ChildAuthority, NoChild, ChildRows
<1>4. kids \in [Ops -> ChildRows] /\ NoChild.run = "NONE"
  BY <1>3, NewRows DEF NoChild
<1>5. /\ request' \in [Calls -> RequestRows] /\ request'[a] = row
      /\ \A r \in Calls \ {a} : request'[r] = request[r]
  BY <1>1, <1>2 DEF AuthorityTypeOK
<1>6. /\ child' \in [Calls -> [Ops -> ChildRows]]
      /\ \A r \in Calls \ {a}, o \in Ops : child'[r][o] = child[r][o]
      /\ \A o \in Ops : child'[a][o] = IF o \in sel THEN ChildAuthority(a, s) ELSE NoChild
  BY <1>1, <1>4 DEF AuthorityTypeOK
<1>7. \A o \in Ops : child[a][o].run = "NONE" /\ launches[a][o] = 0
  BY <1>1 DEF ChildInv, LaunchInv
<1>8. Selected(row.body, row.policy) = sel
  BY <1>2
<1> HIDE DEF row, sel, kids
<1>9. AuthorityTypeOK'
  BY <1>1, <1>5, <1>6 DEF AuthorityTypeOK, workerVars
<1>10. OneRequestPerKey' /\ CallInv'
  BY <1>1, <1>2, <1>5, AnswersUndisturbed
<1>11. RequestInv'
  BY <1>1, <1>2, <1>5 DEF RequestInv
<1>12. ChildInv'
  <2>1. ASSUME NEW r \in Calls \ {a}, NEW o \in Ops
        PROVE  child'[r][o] = child[r][o] /\ request'[r] = request[r]
    BY <1>5, <1>6
  <2> QED BY <1>2, <1>3, <1>4, <1>5, <1>6, <1>8, <2>1 DEF ChildInv
<1>13. GrantInv'
  <2>1. \A g \in granted : g[1] \in Calls \ {a}
    BY <1>1 DEF GrantInv, AuthorityTypeOK
  <2>2. sel \subseteq Ops
    BY <1>1, SelectedOps DEF sel
  <2>3. \A g \in granted : Selected(request[g[1]].body, request[g[1]].policy) \subseteq Ops
    BY <2>1, SelectedOps
  <2>4. ASSUME NEW g \in granted
        PROVE  /\ request'[g[1]].state \notin {"NONE", "REQUESTED"}
               /\ request'[g[1]].approvalKey = g[2] /\ request'[g[1]].session = g[3]
               /\ \A o \in Selected(request'[g[1]].body, request'[g[1]].policy) :
                     child'[g[1]][o].run # "NONE"
    <3>1. g[1] \in Calls \ {a} /\ request'[g[1]] = request[g[1]]
      BY <1>5, <2>1
    <3>2. \A o \in Ops : child'[g[1]][o] = child[g[1]][o]
      BY <1>6, <3>1
    <3> QED BY <2>3, <3>1, <3>2 DEF GrantInv
  <2>5. \A o \in sel : child'[a][o].run # "NONE"
    BY <1>3, <1>6, <2>2
  <2> QED BY <1>1, <1>2, <1>5, <1>8, <2>4, <2>5 DEF GrantInv
<1>14. ThreadInv'
  <2>1. \A w \in Threads : thread[w].pc # "idle" => thread[w].req \in Calls \ {a}
    BY <1>7 DEF ThreadInv, Row
  <2> QED BY <1>1, <1>6, <2>1 DEF ThreadInv, Row, workerVars
<1>15. HolderInv'
  BY <1>1 DEF HolderInv, workerVars
<1>16. LaunchInv'
  BY <1>1, <1>6, <1>7 DEF LaunchInv, workerVars
<1> QED BY <1>9, <1>10, <1>11, <1>12, <1>13, <1>14, <1>15, <1>16

LEMMA ApproveReplayKeeps ==
    ASSUME AuthorityInv, NEW a \in Calls, NEW key \in ApprovalKeys, NEW s \in Sessions,
           ApproveReplay(a, key, s)
    PROVE  AuthorityInv'
<1> USE DEF AuthorityInv, ApproveReplay, durableVars, workerVars
<1>1. AuthorityTypeOK'
  BY DEF AuthorityTypeOK
<1>2. GrantInv'
  <2>1. /\ request[a].state = "DISPATCHABLE" /\ request[a].approvalKey = key
        /\ request[a].session = s /\ granted' = granted \cup {<<a, key, s>>}
        /\ UNCHANGED <<request, child>>
    BY DEF ExactReplay
  <2>2. \A o \in Selected(request[a].body, request[a].policy) : child[a][o].run # "NONE"
    BY <2>1, SelectedOps DEF ChildInv
  <2> QED BY <2>1, <2>2 DEF GrantInv
<1>3. OneRequestPerKey' /\ CallInv' /\ RequestInv' /\ ChildInv'
  BY DEF OneRequestPerKey, CallInv, RequestInv, ChildInv
<1>4. ThreadInv' /\ HolderInv' /\ LaunchInv'
  BY ThreadsUndisturbed DEF QuietRows
<1> QED BY <1>1, <1>2, <1>3, <1>4

LEMMA RequestExpiresKeeps ==
    ASSUME AuthorityInv, NEW a \in Calls, RequestExpires(a) PROVE AuthorityInv'
<1> USE DEF AuthorityInv, RequestExpires, workerVars
<1>1. AuthorityTypeOK' /\ RequestInv'
  BY DEF AuthorityTypeOK, RequestInv
<1>2. OneRequestPerKey' /\ CallInv' /\ ChildInv' /\ GrantInv'
  BY DEF OneRequestPerKey, CallInv, ChildInv, GrantInv
<1>3. ThreadInv' /\ HolderInv' /\ LaunchInv'
  BY ThreadsUndisturbed DEF QuietRows
<1> QED BY <1>1, <1>2, <1>3

LEMMA TransitionKeeps ==
    ASSUME AuthorityInv, NEW a \in Calls, NEW target \in {"REVOKED", "EXPIRED", "CONSUMED"},
           TransitionScanAuthorization(a, target)
    PROVE  AuthorityInv'
<1> USE DEF AuthorityInv
<1> DEFINE row == [request[a] EXCEPT !.state = target]
<1>1. /\ request[a] \in RequestRows /\ request' = [request EXCEPT ![a] = row]
      /\ request[a].state \in {"REQUESTED", "DISPATCHABLE"}
      /\ late' = [late EXCEPT ![a] = late[a] \/ target = "EXPIRED"]
      /\ child' = [child EXCEPT ![a] = Propagated(a, target)]
      /\ UNCHANGED <<image, asset, revoked, call, workerVars, granted, changes>>
  BY DEF AuthorityTypeOK, TransitionScanAuthorization
<1>2. /\ row \in RequestRows /\ row.state = target /\ row.key = request[a].key
      /\ row.body = request[a].body /\ row.policy = request[a].policy
      /\ row.approvalKey = request[a].approvalKey /\ row.session = request[a].session
  BY <1>1 DEF RequestRows
<1> HIDE DEF row
<1>3. /\ request' \in [Calls -> RequestRows] /\ request'[a] = row
      /\ \A r \in Calls \ {a} : request'[r] = request[r]
  BY <1>1, <1>2 DEF AuthorityTypeOK
<1>4. /\ child' \in [Calls -> [Ops -> ChildRows]]
      /\ \A r \in Calls \ {a} : child'[r] = child[r]
      /\ child'[a] = Propagated(a, target)
  BY <1>1, PropagatedRows DEF AuthorityTypeOK
<1>5. QuietRows
  <2> SUFFICES ASSUME NEW r \in Calls, NEW o \in Ops PROVE QuietRows!(r, o)
    BY DEF QuietRows
  <2>1. CASE r = a
    BY <1>4, <2>1, PropagatedRows
  <2>2. CASE r # a
    BY <1>4, <2>2
  <2> QED BY <2>1, <2>2
<1>6. late' \in [Calls -> BOOLEAN] /\ \A r \in Calls : late[r] => late'[r]
  BY <1>1 DEF AuthorityTypeOK
<1>7. AuthorityTypeOK'
  BY <1>1, <1>3, <1>4, <1>6 DEF AuthorityTypeOK, workerVars
<1>8. OneRequestPerKey' /\ CallInv'
  BY <1>1, <1>2, <1>3, AnswersUndisturbed
<1>9. RequestInv'
  <2>1. target = "EXPIRED" => late'[a]
    BY <1>1 DEF AuthorityTypeOK
  <2> QED BY <1>2, <1>3, <1>6, <2>1 DEF RequestInv
<1>10. ChildInv'
  <2> SUFFICES ASSUME NEW r \in Calls, NEW o \in Ops
               PROVE  ChildInv!(r, o)'
    BY DEF ChildInv
  <2>1. CASE r # a
    BY <1>3, <1>4, <2>1 DEF ChildInv
  <2>2. CASE r = a
    <3>1. /\ child'[a][o].run = child[a][o].run /\ child'[a][o].policy = child[a][o].policy
          /\ child'[a][o].session = child[a][o].session
          /\ target = "REVOKED" /\ child'[a][o].run # "NONE" => child'[a][o].revoked
          /\ target = "CONSUMED" /\ child'[a][o].run # "NONE" => child'[a][o].consumed
      BY <1>4, PropagatedRows
    <3> QED BY <1>1, <1>2, <1>3, <2>2, <3>1 DEF ChildInv
  <2> QED BY <2>1, <2>2
<1>11. GrantInv'
  <2> SUFFICES ASSUME NEW g \in granted PROVE GrantInv!(g)'
    BY <1>1 DEF GrantInv
  <2>1. g[1] \in Calls
    BY DEF AuthorityTypeOK
  <2>2. /\ request'[g[1]].state \notin {"NONE", "REQUESTED"}
        /\ request'[g[1]].body = request[g[1]].body /\ request'[g[1]].policy = request[g[1]].policy
        /\ request'[g[1]].approvalKey = g[2] /\ request'[g[1]].session = g[3]
    BY <1>2, <1>3, <2>1 DEF GrantInv
  <2>3. \A o \in Selected(request[g[1]].body, request[g[1]].policy) : child'[g[1]][o].run # "NONE"
    BY <1>5, <2>1, SelectedOps DEF QuietRows, GrantInv
  <2> QED BY <2>2, <2>3
<1>12. ThreadInv' /\ HolderInv' /\ LaunchInv'
  BY <1>1, <1>5, ThreadsUndisturbed DEF workerVars
<1> QED BY <1>7, <1>8, <1>9, <1>10, <1>11, <1>12

LEMMA RevokeTokenKeeps ==
    ASSUME AuthorityInv, NEW s \in Sessions, RevokeToken(s) PROVE AuthorityInv'
<1> USE DEF AuthorityInv
<1> DEFINE revokedRow(k) == [k EXCEPT !.revoked = TRUE,
                                !.request = IF k.request = "AUTHORIZED" THEN "REVOKED" ELSE k.request]
<1>1. /\ revoked' = revoked \cup {s}
      /\ UNCHANGED <<image, asset, request, late, call, workerVars, granted, changes>>
  BY DEF RevokeToken
<1>2. child' = [r \in Calls |-> [o \in Ops |->
                  IF child[r][o].session = s THEN revokedRow(child[r][o]) ELSE child[r][o]]]
  BY DEF RevokeToken
<1>3. \A k \in ChildRows :
         /\ revokedRow(k) \in ChildRows /\ revokedRow(k).revoked
         /\ revokedRow(k).run = k.run /\ revokedRow(k).policy = k.policy
         /\ revokedRow(k).gen = k.gen /\ revokedRow(k).session = k.session
         /\ revokedRow(k).consumed = k.consumed
  <2> TAKE k \in ChildRows
  <2>1. CASE k.request = "AUTHORIZED"
    BY <2>1 DEF ChildRows
  <2>2. CASE k.request # "AUTHORIZED"
    BY <2>2 DEF ChildRows
  <2> QED BY <2>1, <2>2
<1> HIDE DEF revokedRow
<1>4. \A r \in Calls, o \in Ops :
         /\ child'[r][o] \in ChildRows /\ (child[r][o].revoked => child'[r][o].revoked)
         /\ child'[r][o].run = child[r][o].run /\ child'[r][o].policy = child[r][o].policy
         /\ child'[r][o].gen = child[r][o].gen /\ child'[r][o].session = child[r][o].session
         /\ child'[r][o].consumed = child[r][o].consumed
  <2> TAKE r \in Calls, o \in Ops
  <2>1. child[r][o] \in ChildRows
    BY DEF AuthorityTypeOK
  <2>2. child'[r][o] = IF child[r][o].session = s THEN revokedRow(child[r][o]) ELSE child[r][o]
    BY <1>2
  <2> QED BY <1>3, <2>1, <2>2
<1>5. AuthorityTypeOK'
  <2>1. child' \in [Calls -> [Ops -> ChildRows]]
    BY <1>2, <1>4
  <2> QED BY <1>1, <2>1 DEF AuthorityTypeOK, workerVars
<1>6. OneRequestPerKey' /\ CallInv' /\ RequestInv'
  BY <1>1 DEF OneRequestPerKey, CallInv, RequestInv
<1>7. ChildInv'
  BY <1>1, <1>4 DEF ChildInv
<1>8. GrantInv'
  <2>1. \A g \in granted : g[1] \in Calls /\ Selected(request[g[1]].body, request[g[1]].policy) \subseteq Ops
    BY SelectedOps DEF AuthorityTypeOK
  <2> QED BY <1>1, <1>4, <2>1 DEF GrantInv
<1>9. ThreadInv' /\ HolderInv' /\ LaunchInv'
  BY <1>1, <1>4, ThreadsUndisturbed DEF workerVars, QuietRows
<1> QED BY <1>5, <1>6, <1>7, <1>8, <1>9

LEMMA EditAssetKeeps ==
    ASSUME AuthorityInv, EditAsset PROVE AuthorityInv'
<1> USE DEF AuthorityInv, EditAsset, workerVars
<1>1. AuthorityTypeOK'
  BY AuthorityAssumption DEF AuthorityTypeOK
<1>2. OneRequestPerKey' /\ CallInv' /\ RequestInv' /\ ChildInv' /\ GrantInv'
  BY DEF OneRequestPerKey, CallInv, RequestInv, ChildInv, GrantInv
<1>3. ThreadInv' /\ HolderInv' /\ LaunchInv'
  BY ThreadsUndisturbed DEF QuietRows
<1> QED BY <1>1, <1>2, <1>3

(* A new worker starts without threads, so nothing of the old build goes   *)
(* on; a new API process loses the calls that it had not answered.         *)
LEMMA DeployKeeps ==
    ASSUME AuthorityInv, NEW p \in Processes, Deploy(p) PROVE AuthorityInv'
<1> USE DEF AuthorityInv
<1>1. /\ image' \in [Processes -> Images] /\ changes' \in 0 .. MaxChanges
      /\ p = "api" => image'["worker"] = image["worker"]
      /\ UNCHANGED <<durableVars, granted>>
  BY AuthorityAssumption DEF Deploy, AuthorityTypeOK, Processes
<1>2. RequestInv' /\ ChildInv' /\ GrantInv'
  BY <1>1 DEF RequestInv, ChildInv, GrantInv, durableVars
<1>3. CASE p = "worker"
  <2>1. /\ thread' = [w \in Threads |-> NoThread] /\ UNCHANGED <<call, launches>>
        /\ capabilities' = {} /\ registered' = 0 /\ contexts' = {}
    BY <1>3 DEF Deploy
  <2>2. AuthorityTypeOK'
    <3>1. IsFiniteSet({}) /\ Cardinality({}) = 0
      BY FS_EmptySet
    <3> QED BY <1>1, <2>1, <3>1, NewRows, AuthorityAssumption DEF AuthorityTypeOK, durableVars
  <2>3. OneRequestPerKey' /\ CallInv' /\ LaunchInv'
    BY <1>1, <2>1 DEF OneRequestPerKey, CallInv, LaunchInv, durableVars
  <2>4. ThreadInv' /\ HolderInv'
    BY <2>1 DEF ThreadInv, HolderInv, NoThread, Holding
  <2> QED BY <1>2, <2>2, <2>3, <2>4
<1>4. CASE p = "api"
  <2>1. /\ call' = [c \in Calls |-> IF call[c].pc \in {"received", "built"} THEN Lost ELSE call[c]]
        /\ UNCHANGED workerVars
    BY <1>4 DEF Deploy
  <2>2. AuthorityTypeOK'
    BY <1>1, <2>1, NewRows DEF AuthorityTypeOK, durableVars, workerVars
  <2>3. \A c \in Calls : call'[c] = call[c] \/ (call'[c].answer = NoOne /\ call'[c].pc = "conflict")
    BY <2>1 DEF Lost, NoCall
  <2>4. OneRequestPerKey' /\ CallInv'
    BY <1>1, <2>3 DEF OneRequestPerKey, CallInv, durableVars
  <2>5. ThreadInv' /\ HolderInv' /\ LaunchInv'
    BY <1>1, <1>4, <2>1, ThreadsUndisturbed DEF QuietRows, durableVars, workerVars
  <2> QED BY <1>2, <2>2, <2>4, <2>5
<1> QED BY <1>3, <1>4 DEF Processes

-----------------------------------------------------------------------------
(* The worker *)

LEMMA GotoEffect ==
    ASSUME AuthorityTypeOK, NEW w \in Threads,
           NEW pc \in {"revalidated", "claimed", "cleared", "launched", "running"}, Goto(w, pc)
    PROVE  /\ thread' \in [Threads -> ThreadStates]
           /\ thread'[w].pc = pc /\ thread'[w].req = thread[w].req /\ thread'[w].op = thread[w].op
           /\ \A v \in Threads \ {w} : thread'[v] = thread[v]
<1>1. thread[w] \in ThreadStates /\ thread' = [thread EXCEPT ![w] = [thread[w] EXCEPT !.pc = pc]]
  BY DEF AuthorityTypeOK, Goto
<1> QED BY <1>1 DEF AuthorityTypeOK, ThreadStates

LEMMA ReturnEffect ==
    ASSUME AuthorityTypeOK, NEW w \in Threads, Return(w)
    PROVE  /\ thread' \in [Threads -> ThreadStates] /\ thread'[w].pc = "idle"
           /\ \A v \in Threads \ {w} : thread'[v] = thread[v]
BY NewRows DEF AuthorityTypeOK, Return, NoThread

(* A worker's step writes at most the run, the claim and the consumption   *)
(* of rows that exist.                                                     *)
RunsAdvance ==
    \A r \in Calls, o \in Ops :
        /\ child'[r][o].run # "NONE" <=> child[r][o].run # "NONE"
        /\ child'[r][o].run = "REQUESTED" => child[r][o].run = "REQUESTED"
        /\ child'[r][o].policy = child[r][o].policy /\ child'[r][o].gen = child[r][o].gen
        /\ child'[r][o].session = child[r][o].session
        /\ child'[r][o].revoked = child[r][o].revoked
        /\ child[r][o].consumed => child'[r][o].consumed

LEMMA RowsUndisturbed ==
    ASSUME AuthorityInv, RunsAdvance, UNCHANGED <<call, request, late, granted>>
    PROVE  OneRequestPerKey' /\ CallInv' /\ RequestInv' /\ ChildInv' /\ GrantInv'
<1> USE DEF AuthorityInv
<1>1. OneRequestPerKey' /\ CallInv' /\ RequestInv'
  BY DEF OneRequestPerKey, CallInv, RequestInv
<1>2. ChildInv'
  BY DEF ChildInv, RunsAdvance
<1>3. GrantInv'
  <2>1. \A g \in granted : g[1] \in Calls /\ Selected(request[g[1]].body, request[g[1]].policy) \subseteq Ops
    BY SelectedOps DEF AuthorityTypeOK
  <2> QED BY <2>1 DEF GrantInv, RunsAdvance
<1> QED BY <1>1, <1>2, <1>3

LEMMA IssueCapabilityKeeps ==
    ASSUME AuthorityInv, NEW w \in Threads, NEW a \in Calls, NEW b \in Ops,
           IssueCapability(w, a, b)
    PROVE  AuthorityInv'
<1> USE DEF AuthorityInv
<1> DEFINE state == [pc |-> "issued", req |-> a, op |-> b, consumed |-> child[a][b].consumed,
                     fence |-> child[a][b].fence]
<1>1. /\ thread' = [thread EXCEPT ![w] = state]
      /\ UNCHANGED <<image, durableVars, call, contexts, launches, granted, changes>>
  BY DEF IssueCapability
<1>2. state \in ThreadStates
  <2>1. child[a][b] \in ChildRows
    BY DEF AuthorityTypeOK
  <2> QED BY <2>1 DEF ThreadStates, ChildRows
<1>3. /\ thread' \in [Threads -> ThreadStates] /\ thread'[w] = state
      /\ \A v \in Threads \ {w} : thread'[v] = thread[v]
  BY <1>1, <1>2 DEF AuthorityTypeOK
<1>4. capabilities' \subseteq Threads /\ registered' \in 0 .. CapabilityCap
  BY AuthorityAssumption DEF IssueCapability, AuthorityTypeOK
<1>5. AuthorityTypeOK'
  BY <1>1, <1>3, <1>4 DEF AuthorityTypeOK, durableVars
<1>6. OneRequestPerKey' /\ CallInv' /\ RequestInv' /\ ChildInv' /\ GrantInv' /\ LaunchInv'
  BY <1>1 DEF OneRequestPerKey, CallInv, RequestInv, ChildInv, GrantInv, LaunchInv, durableVars
<1>7. ThreadInv'
  <2>1. /\ b \in Ops \ Native /\ child[a][b].run # "NONE"
        /\ child[a][b].policy = image["worker"].policy /\ child[a][b].gen = image["worker"].gen
    BY DEF IssueCapability, Launchable, ChildrenOf
  <2> QED BY <1>1, <1>3, <2>1 DEF ThreadInv, Row, durableVars
<1>8. HolderInv'
  BY <1>3 DEF HolderInv, Holding
<1> QED BY <1>5, <1>6, <1>7, <1>8

(* A thread that gives up holds nothing any more. *)
LEMMA ThreadReturns ==
    ASSUME AuthorityInv, NEW w \in Threads, Return(w), UNCHANGED <<image, child, launches>>
    PROVE  ThreadInv' /\ HolderInv' /\ LaunchInv'
<1> USE DEF AuthorityInv
<1>1. ThreadInv'
  BY ReturnEffect DEF ThreadInv, Row
<1>2. HolderInv' /\ LaunchInv'
  BY ReturnEffect DEF HolderInv, Holding, LaunchInv
<1> QED BY <1>1, <1>2

LEMMA RevalidateKeeps ==
    ASSUME AuthorityInv, NEW w \in Threads, Revalidate(w) PROVE AuthorityInv'
<1> USE DEF AuthorityInv
<1>1. /\ At(w, "issued")
      /\ Goto(w, "revalidated") \/ Return(w)
      /\ UNCHANGED <<image, durableVars, call, capabilities, registered, contexts,
                     launches, granted, changes>>
  BY DEF Revalidate
<1>2. AuthorityTypeOK'
  <2>1. thread' \in [Threads -> ThreadStates]
    BY <1>1, GotoEffect, ReturnEffect
  <2> QED BY <1>1, <2>1 DEF AuthorityTypeOK, durableVars
<1>3. OneRequestPerKey' /\ CallInv' /\ RequestInv' /\ ChildInv' /\ GrantInv' /\ LaunchInv'
  BY <1>1 DEF OneRequestPerKey, CallInv, RequestInv, ChildInv, GrantInv, LaunchInv, durableVars
<1>4. ThreadInv' /\ HolderInv'
  <2>1. CASE Return(w)
    BY <1>1, <2>1, ThreadReturns DEF durableVars
  <2>2. CASE Goto(w, "revalidated")
    <3>1. ThreadInv'
      BY <1>1, <2>2, GotoEffect DEF ThreadInv, Row, At, durableVars
    <3>2. HolderInv'
      BY <2>2, GotoEffect DEF HolderInv, Holding
    <3> QED BY <3>1, <3>2
  <2> QED BY <1>1, <2>1, <2>2
<1> QED BY <1>2, <1>3, <1>4

(* What a thread writes into its own row. *)
Advances(k, old) ==
    /\ k \in ChildRows /\ k.run \notin {"NONE", "REQUESTED"}
    /\ k.policy = old.policy /\ k.gen = old.gen /\ k.session = old.session
    /\ k.revoked = old.revoked /\ (old.consumed => k.consumed)

LEMMA OwnWrite ==
    ASSUME AuthorityInv, NEW w \in Threads, thread[w].pc # "idle", NEW k, SetChild(w, k),
           Advances(k, Row(w))
    PROVE  /\ child' \in [Calls -> [Ops -> ChildRows]] /\ RunsAdvance
           /\ thread[w].req \in Calls /\ thread[w].op \in Ops
           /\ \A r \in Calls, o \in Ops :
                child'[r][o] = IF r = thread[w].req /\ o = thread[w].op THEN k ELSE child[r][o]
<1>1. thread[w].req \in Calls /\ thread[w].op \in Ops /\ Row(w).run # "NONE"
  BY DEF AuthorityInv, ThreadInv
<1>2. k \in ChildRows
  BY DEF Advances
<1>3. /\ child' \in [Calls -> [Ops -> ChildRows]]
      /\ \A r \in Calls, o \in Ops :
            child'[r][o] = IF r = thread[w].req /\ o = thread[w].op THEN k ELSE child[r][o]
  BY <1>1, <1>2, SetChildEffect DEF AuthorityInv
<1>4. RunsAdvance
  BY <1>1, <1>3 DEF RunsAdvance, Advances, Row
<1> QED BY <1>1, <1>3, <1>4

LEMMA ClaimKeeps ==
    ASSUME AuthorityInv, NEW w \in Threads, Claim(w) PROVE AuthorityInv'
<1> USE DEF AuthorityInv
<1>1. /\ thread[w].pc = "revalidated"
      /\ UNCHANGED <<image, asset, revoked, request, late, call, capabilities, registered,
                     contexts, launches, granted, changes>>
  BY DEF Claim, At
<1>2. CASE ~ClaimOk(w)
  <2>1. Return(w) /\ UNCHANGED child
    BY <1>2 DEF Claim
  <2>2. AuthorityTypeOK'
    BY <1>1, <2>1, ReturnEffect DEF AuthorityTypeOK
  <2>3. OneRequestPerKey' /\ CallInv' /\ RequestInv' /\ ChildInv' /\ GrantInv'
    BY <1>1, <2>1 DEF OneRequestPerKey, CallInv, RequestInv, ChildInv, GrantInv
  <2> QED BY <1>1, <2>1, <2>2, <2>3, ThreadReturns
<1>3. CASE ClaimOk(w)
  <2> DEFINE k == [Row(w) EXCEPT !.run = "STARTING", !.fence = w]
  <2>1. Goto(w, "claimed") /\ SetChild(w, k) /\ Row(w).run = "REQUESTED"
    BY <1>3 DEF Claim, ClaimOk
  <2>2. Advances(k, Row(w)) /\ k.run = "STARTING"
    <3>1. Row(w) \in ChildRows
      BY <1>1 DEF AuthorityTypeOK, ThreadInv, Row
    <3> QED BY <3>1 DEF ChildRows, Advances
  <2> HIDE DEF k
  <2> DEFINE a == thread[w].req
  <2> DEFINE b == thread[w].op
  <2>3. /\ child' \in [Calls -> [Ops -> ChildRows]] /\ RunsAdvance
        /\ a \in Calls /\ b \in Ops
        /\ \A r \in Calls, o \in Ops : child'[r][o] = IF r = a /\ o = b THEN k ELSE child[r][o]
    BY <1>1, <2>1, <2>2, OwnWrite
  <2>4. /\ thread' \in [Threads -> ThreadStates]
        /\ thread'[w].pc = "claimed" /\ thread'[w].req = a /\ thread'[w].op = b
        /\ \A v \in Threads \ {w} : thread'[v] = thread[v]
    BY <2>1, GotoEffect
  <2>5. child[a][b].run = "REQUESTED"
    BY <2>1 DEF Row
  <2>6. /\ b \notin Native /\ launches[a][b] = 0
        /\ child[a][b].policy = image["worker"].policy /\ child[a][b].gen = image["worker"].gen
    BY <1>1, <2>3, <2>5 DEF ThreadInv, LaunchInv, Row
  <2>7. \A v \in Threads : thread[v].pc \in Holding => ~(thread[v].req = a /\ thread[v].op = b)
    BY <2>5 DEF ThreadInv, Row, Holding
  <2> HIDE DEF a, b
  <2>8. AuthorityTypeOK'
    BY <1>1, <2>3, <2>4 DEF AuthorityTypeOK
  <2>9. OneRequestPerKey' /\ CallInv' /\ RequestInv' /\ ChildInv' /\ GrantInv'
    BY <1>1, <2>3, RowsUndisturbed
  <2>10. ThreadInv'
    <3> SUFFICES ASSUME NEW v \in Threads, thread'[v].pc # "idle" PROVE ThreadInv!(v)!2'
      BY DEF ThreadInv
    <3>1. CASE v = w
      <4>1. child'[a][b] = k /\ k.policy = child[a][b].policy /\ k.gen = child[a][b].gen
        BY <2>2, <2>3 DEF Advances, Row, a, b
      <4> QED BY <1>1, <2>2, <2>3, <2>4, <2>6, <3>1, <4>1 DEF Row
    <3>2. CASE v # w
      <4>1. thread'[v] = thread[v] /\ thread[v].req \in Calls /\ thread[v].op \in Ops \ Native
        BY <2>4, <3>2 DEF ThreadInv
      <4>2. thread[v].pc \in Holding => child'[thread[v].req][thread[v].op] = child[thread[v].req][thread[v].op]
        BY <2>3, <2>7, <4>1
      <4> QED BY <1>1, <2>3, <4>1, <4>2 DEF ThreadInv, Row, Holding, RunsAdvance
    <3> QED BY <3>1, <3>2
  <2>11. HolderInv'
    BY <2>4, <2>7 DEF HolderInv
  <2>12. LaunchInv'
    BY <1>1, <2>3 DEF LaunchInv, RunsAdvance
  <2> QED BY <2>8, <2>9, <2>10, <2>11, <2>12
<1> QED BY <1>2, <1>3

(* No other thread that holds a child holds the child of w. *)
LEMMA HoldersApart ==
    ASSUME AuthorityInv, NEW w \in Threads, thread[w].pc \in Holding,
           NEW v \in Threads \ {w}, thread[v].pc \in Holding
    PROVE  ~(thread[v].req = thread[w].req /\ thread[v].op = thread[w].op)
BY DEF AuthorityInv, HolderInv

(* A holder writes its own row: the rows of all other threads are as their *)
(* control points say.                                                     *)
LEMMA HolderWrites ==
    ASSUME AuthorityInv, NEW w \in Threads, thread[w].pc \in Holding,
           NEW k, SetChild(w, k), Advances(k, Row(w)), UNCHANGED <<image, launches>>,
           \A v \in Threads \ {w} : thread'[v] = thread[v]
    PROVE  /\ child' \in [Calls -> [Ops -> ChildRows]] /\ RunsAdvance /\ LaunchInv'
           /\ \A v \in Threads \ {w} : thread'[v].pc # "idle" => ThreadInv!(v)!2'
           /\ child'[thread[w].req][thread[w].op] = k
<1> DEFINE a == thread[w].req
<1> DEFINE b == thread[w].op
<1>1. /\ child' \in [Calls -> [Ops -> ChildRows]] /\ RunsAdvance
      /\ a \in Calls /\ b \in Ops
      /\ \A r \in Calls, o \in Ops : child'[r][o] = IF r = a /\ o = b THEN k ELSE child[r][o]
  BY OwnWrite DEF Holding
<1>2. LaunchInv'
  BY <1>1 DEF AuthorityInv, LaunchInv, RunsAdvance
<1>3. ASSUME NEW v \in Threads \ {w}, thread'[v].pc # "idle" PROVE ThreadInv!(v)!2'
  <2>1. thread'[v] = thread[v] /\ thread[v].req \in Calls /\ thread[v].op \in Ops \ Native
    BY <1>3 DEF AuthorityInv, ThreadInv
  <2>2. thread[v].pc \in Holding => child'[thread[v].req][thread[v].op] = child[thread[v].req][thread[v].op]
    BY <1>1, <2>1, HoldersApart
  <2> HIDE DEF a, b
  <2> QED BY <1>1, <1>3, <2>1, <2>2 DEF AuthorityInv, ThreadInv, Row, Holding, RunsAdvance
<1> QED BY <1>1, <1>2, <1>3

LEMMA HolderReturns ==
    ASSUME AuthorityInv, NEW w \in Threads, thread[w].pc \in Holding, Return(w),
           NEW k, SetChild(w, k), Advances(k, Row(w)), UNCHANGED <<image, launches>>
    PROVE  /\ child' \in [Calls -> [Ops -> ChildRows]] /\ RunsAdvance
           /\ ThreadInv' /\ HolderInv' /\ LaunchInv'
<1>1. thread'[w].pc = "idle" /\ \A v \in Threads \ {w} : thread'[v] = thread[v]
  BY ReturnEffect DEF AuthorityInv
<1>2. /\ child' \in [Calls -> [Ops -> ChildRows]] /\ RunsAdvance /\ LaunchInv'
      /\ \A v \in Threads \ {w} : thread'[v].pc # "idle" => ThreadInv!(v)!2'
  BY <1>1, HolderWrites
<1>3. ThreadInv'
  BY <1>1, <1>2 DEF ThreadInv
<1>4. HolderInv'
  BY <1>1 DEF AuthorityInv, HolderInv, Holding
<1> QED BY <1>2, <1>3, <1>4

(* A holder goes on without touching a row. *)
LEMMA HolderGoes ==
    ASSUME AuthorityInv, NEW w \in Threads, thread[w].pc \in Holding,
           NEW pc \in {"cleared", "launched"}, Goto(w, pc), UNCHANGED <<image, child>>,
           \A v \in Threads \ {w} : thread[v].pc \in Holding =>
              launches'[thread[v].req][thread[v].op] = launches[thread[v].req][thread[v].op],
           Row(w).run = "STARTING",
           pc = "cleared" => launches'[thread[w].req][thread[w].op] = 0
    PROVE  ThreadInv' /\ HolderInv'
<1> USE DEF AuthorityInv
<1>1. /\ thread'[w].pc = pc /\ thread'[w].req = thread[w].req /\ thread'[w].op = thread[w].op
      /\ \A v \in Threads \ {w} : thread'[v] = thread[v]
  BY GotoEffect
<1>2. HolderInv'
  BY <1>1 DEF HolderInv, Holding
<1>3. ThreadInv'
  BY <1>1 DEF ThreadInv, Row, Holding
<1> QED BY <1>2, <1>3

LEMMA IssueContextKeeps ==
    ASSUME AuthorityInv, NEW w \in Threads, IssueContext(w) PROVE AuthorityInv'
<1> USE DEF AuthorityInv
<1>1. /\ thread[w].pc = "claimed"
      /\ UNCHANGED <<image, asset, revoked, request, late, call, capabilities, registered,
                     launches, granted, changes>>
  BY DEF IssueContext, At
<1>2. /\ thread[w].req \in Calls /\ thread[w].op \in Ops /\ Row(w).run = "STARTING"
      /\ launches[thread[w].req][thread[w].op] = 0
  BY <1>1 DEF ThreadInv
<1>3. Row(w) \in ChildRows
  BY <1>2 DEF AuthorityTypeOK, Row
<1>4. CASE w \in capabilities /\ ContextFits /\ ~late[thread[w].req]
  <2>1. /\ contexts' = Purged \cup {<<thread[w].req, thread[w].op>>}
        /\ Goto(w, "cleared") /\ UNCHANGED child
    BY <1>4 DEF IssueContext
  <2>2. /\ contexts' \subseteq Calls \X Ops /\ IsFiniteSet(contexts')
        /\ Cardinality(contexts') <= ContextCap
    BY <1>2, <1>4, <2>1, PurgedFits
  <2>3. AuthorityTypeOK'
    BY <1>1, <2>1, <2>2, GotoEffect DEF AuthorityTypeOK
  <2>4. ThreadInv' /\ HolderInv'
    BY <1>1, <1>2, <2>1, HolderGoes DEF Holding
  <2>5. OneRequestPerKey' /\ CallInv' /\ RequestInv' /\ ChildInv' /\ GrantInv' /\ LaunchInv'
    BY <1>1, <2>1 DEF OneRequestPerKey, CallInv, RequestInv, ChildInv, GrantInv, LaunchInv
  <2> QED BY <2>3, <2>4, <2>5
<1>5. CASE ~(w \in capabilities /\ ContextFits /\ ~late[thread[w].req])
  <2> DEFINE k == IF Row(w).consumed THEN Row(w)
                    ELSE [Row(w) EXCEPT !.run = "ENDED", !.fence = NoOne]
  <2>1. contexts' \in {Purged, contexts} /\ Return(w) /\ SetChild(w, k)
    BY <1>5 DEF IssueContext, Block
  <2>2. Advances(k, Row(w))
    BY <1>2, <1>3 DEF Advances, ChildRows
  <2> HIDE DEF k
  <2>3. /\ child' \in [Calls -> [Ops -> ChildRows]] /\ RunsAdvance
        /\ ThreadInv' /\ HolderInv' /\ LaunchInv'
    BY <1>1, <2>1, <2>2, HolderReturns DEF Holding
  <2>4. /\ contexts' \subseteq Calls \X Ops /\ IsFiniteSet(contexts')
        /\ Cardinality(contexts') <= ContextCap
    BY <2>1, PurgedFits DEF AuthorityTypeOK
  <2>5. AuthorityTypeOK'
    BY <1>1, <2>1, <2>3, <2>4, ReturnEffect DEF AuthorityTypeOK
  <2>6. OneRequestPerKey' /\ CallInv' /\ RequestInv' /\ ChildInv' /\ GrantInv'
    BY <1>1, <2>3, RowsUndisturbed
  <2> QED BY <2>3, <2>5, <2>6
<1> QED BY <1>4, <1>5

LEMMA LaunchKeeps ==
    ASSUME AuthorityInv, NEW w \in Threads, Launch(w) PROVE AuthorityInv'
<1> USE DEF AuthorityInv
<1> DEFINE a == thread[w].req
<1> DEFINE b == thread[w].op
<1>1. /\ thread[w].pc = "cleared" /\ Goto(w, "launched")
      /\ launches' = [launches EXCEPT ![a][b] = launches[a][b] + 1]
      /\ UNCHANGED <<image, durableVars, call, capabilities, registered, contexts, granted,
                     changes>>
  BY DEF Launch, At
<1>2. a \in Calls /\ b \in Ops /\ Row(w).run = "STARTING" /\ launches[a][b] = 0
  BY <1>1 DEF ThreadInv
<1>3. /\ launches' \in [Calls -> [Ops -> Nat]]
      /\ \A r \in Calls, o \in Ops :
            launches'[r][o] = IF r = a /\ o = b THEN 1 ELSE launches[r][o]
  BY <1>1, <1>2 DEF AuthorityTypeOK
<1>4. AuthorityTypeOK'
  BY <1>1, <1>3, GotoEffect DEF AuthorityTypeOK, durableVars
<1>5. OneRequestPerKey' /\ CallInv' /\ RequestInv' /\ ChildInv' /\ GrantInv'
  BY <1>1 DEF OneRequestPerKey, CallInv, RequestInv, ChildInv, GrantInv, durableVars
<1>6. \A v \in Threads \ {w} : thread[v].pc \in Holding =>
         launches'[thread[v].req][thread[v].op] = launches[thread[v].req][thread[v].op]
  <2> TAKE v \in Threads \ {w}
  <2> HAVE thread[v].pc \in Holding
  <2>1. thread[v].req \in Calls /\ thread[v].op \in Ops
    BY DEF ThreadInv, Holding
  <2>2. ~(thread[v].req = a /\ thread[v].op = b)
    BY <1>1, HoldersApart DEF Holding
  <2> QED BY <1>3, <2>1, <2>2
<1>7. ThreadInv' /\ HolderInv'
  BY <1>1, <1>2, <1>6, HolderGoes DEF Holding, durableVars
<1>8. LaunchInv'
  <2>1. child[a][b].run = "STARTING"
    BY <1>2 DEF Row
  <2> QED BY <1>1, <1>2, <1>3, <2>1 DEF LaunchInv, durableVars
<1> QED BY <1>4, <1>5, <1>7, <1>8

LEMMA MarkStartedKeeps ==
    ASSUME AuthorityInv, NEW w \in Threads, MarkStarted(w) PROVE AuthorityInv'
<1> USE DEF AuthorityInv
<1>1. /\ thread[w].pc = "launched"
      /\ UNCHANGED <<image, asset, revoked, request, late, call, capabilities, registered,
                     contexts, launches, granted, changes>>
  BY DEF MarkStarted, At
<1>2. CASE ~StartOk(w)
  <2>1. Return(w) /\ UNCHANGED child
    BY <1>2 DEF MarkStarted
  <2>2. AuthorityTypeOK'
    BY <1>1, <2>1, ReturnEffect DEF AuthorityTypeOK
  <2>3. OneRequestPerKey' /\ CallInv' /\ RequestInv' /\ ChildInv' /\ GrantInv'
    BY <1>1, <2>1 DEF OneRequestPerKey, CallInv, RequestInv, ChildInv, GrantInv
  <2> QED BY <1>1, <2>1, <2>2, <2>3, ThreadReturns
<1>3. CASE StartOk(w)
  <2> DEFINE k == [Row(w) EXCEPT !.run = "RUNNING", !.consumed = TRUE, !.fence = NoOne]
  <2>1. Goto(w, "running") /\ SetChild(w, k)
    BY <1>3 DEF MarkStarted
  <2>2. Advances(k, Row(w)) /\ k.run = "RUNNING"
    <3>1. Row(w) \in ChildRows
      BY <1>1 DEF AuthorityTypeOK, ThreadInv, Row
    <3> QED BY <3>1 DEF ChildRows, Advances
  <2> HIDE DEF k
  <2>3. /\ thread' \in [Threads -> ThreadStates]
        /\ thread'[w].pc = "running" /\ thread'[w].req = thread[w].req /\ thread'[w].op = thread[w].op
        /\ \A v \in Threads \ {w} : thread'[v] = thread[v]
    BY <2>1, GotoEffect
  <2>4. /\ child' \in [Calls -> [Ops -> ChildRows]] /\ RunsAdvance /\ LaunchInv'
        /\ \A v \in Threads \ {w} : thread'[v].pc # "idle" => ThreadInv!(v)!2'
        /\ child'[thread[w].req][thread[w].op] = k
    BY <1>1, <2>1, <2>2, <2>3, HolderWrites DEF Holding
  <2>5. AuthorityTypeOK'
    BY <1>1, <2>3, <2>4 DEF AuthorityTypeOK
  <2>6. OneRequestPerKey' /\ CallInv' /\ RequestInv' /\ ChildInv' /\ GrantInv'
    BY <1>1, <2>4, RowsUndisturbed
  <2>7. ThreadInv!(w)!2'
    <3>1. /\ thread[w].req \in Calls /\ thread[w].op \in Ops \ Native
          /\ Row(w).policy = image["worker"].policy /\ Row(w).gen = image["worker"].gen
      BY <1>1 DEF ThreadInv
    <3> QED BY <1>1, <2>2, <2>3, <2>4, <3>1 DEF Advances, Row
  <2>8. ThreadInv'
    BY <2>4, <2>7 DEF ThreadInv
  <2>9. HolderInv'
    BY <1>1, <2>3 DEF HolderInv, Holding
  <2> QED BY <2>4, <2>5, <2>6, <2>8, <2>9
<1> QED BY <1>2, <1>3

LEMMA FinishKeeps ==
    ASSUME AuthorityInv, NEW w \in Threads, Finish(w) PROVE AuthorityInv'
<1> USE DEF AuthorityInv
<1> DEFINE k == [Row(w) EXCEPT !.run = "ENDED"]
<1>1. /\ thread[w].pc = "running" /\ Return(w) /\ SetChild(w, k)
      /\ UNCHANGED <<image, asset, revoked, request, late, call, capabilities, registered,
                     contexts, launches, granted, changes>>
  BY DEF Finish, At
<1>2. Advances(k, Row(w))
  <2>1. Row(w) \in ChildRows
    BY <1>1 DEF AuthorityTypeOK, ThreadInv, Row
  <2> QED BY <2>1 DEF ChildRows, Advances
<1> HIDE DEF k
<1>3. /\ child' \in [Calls -> [Ops -> ChildRows]] /\ RunsAdvance
      /\ ThreadInv' /\ HolderInv' /\ LaunchInv'
  BY <1>1, <1>2, HolderReturns DEF Holding
<1>4. AuthorityTypeOK'
  BY <1>1, <1>3, ReturnEffect DEF AuthorityTypeOK
<1>5. OneRequestPerKey' /\ CallInv' /\ RequestInv' /\ ChildInv' /\ GrantInv'
  BY <1>1, <1>3, RowsUndisturbed
<1> QED BY <1>3, <1>4, <1>5

(* Recovery touches no child that a thread holds. *)
LEMMA RecoverKeeps ==
    ASSUME AuthorityInv, NEW a \in Calls, NEW b \in Ops, Recover(a, b) PROVE AuthorityInv'
<1> USE DEF AuthorityInv
<1> DEFINE k == [child[a][b] EXCEPT !.run = "ENDED", !.fence = NoOne]
<1>1. /\ child[a][b].run \in {"STARTING", "RUNNING"}
      /\ \A w \in Threads : thread[w].pc \in Holding => ~(thread[w].req = a /\ thread[w].op = b)
      /\ UNCHANGED <<image, asset, revoked, request, late, call, workerVars, granted, changes>>
  BY DEF Recover, Holding
<1>2. Advances(k, child[a][b])
  <2>1. child[a][b] \in ChildRows
    BY DEF AuthorityTypeOK
  <2> QED BY <2>1 DEF ChildRows, Advances
<1>3. /\ child' \in [Calls -> [Ops -> ChildRows]]
      /\ \A r \in Calls, o \in Ops : child'[r][o] = IF r = a /\ o = b THEN k ELSE child[r][o]
  BY RecoverEffect
<1> HIDE DEF k
<1>4. RunsAdvance
  BY <1>1, <1>2, <1>3 DEF RunsAdvance, Advances
<1>5. AuthorityTypeOK'
  BY <1>1, <1>3 DEF AuthorityTypeOK, workerVars
<1>6. OneRequestPerKey' /\ CallInv' /\ RequestInv' /\ ChildInv' /\ GrantInv'
  BY <1>1, <1>4, RowsUndisturbed
<1>7. ThreadInv'
  <2> SUFFICES ASSUME NEW v \in Threads, thread[v].pc # "idle" PROVE ThreadInv!(v)!2'
    BY <1>1 DEF ThreadInv, workerVars
  <2>1. thread[v].req \in Calls /\ thread[v].op \in Ops \ Native
    BY DEF ThreadInv
  <2>2. thread[v].pc \in Holding => child'[thread[v].req][thread[v].op] = child[thread[v].req][thread[v].op]
    BY <1>1, <1>3, <2>1
  <2>3. thread' = thread /\ image' = image /\ launches' = launches
    BY <1>1 DEF workerVars
  <2>4. /\ Row(v).run # "NONE"
        /\ Row(v).policy = image["worker"].policy /\ Row(v).gen = image["worker"].gen
        /\ thread[v].pc \in {"claimed", "cleared", "launched"} => Row(v).run = "STARTING"
        /\ thread[v].pc = "running" => Row(v).run = "RUNNING"
        /\ thread[v].pc \in {"claimed", "cleared"} => launches[thread[v].req][thread[v].op] = 0
    BY DEF ThreadInv
  <2>5. /\ Row(v)'.run # "NONE"
        /\ Row(v)'.policy = Row(v).policy /\ Row(v)'.gen = Row(v).gen
    BY <1>4, <2>1, <2>3, <2>4 DEF Row, RunsAdvance
  <2>6. thread[v].pc \in Holding => Row(v)' = Row(v)
    BY <2>2, <2>3 DEF Row
  <2> QED BY <2>1, <2>3, <2>4, <2>5, <2>6 DEF Holding
<1>8. HolderInv' /\ LaunchInv'
  BY <1>1, <1>4 DEF HolderInv, LaunchInv, RunsAdvance, workerVars
<1> QED BY <1>5, <1>6, <1>7, <1>8

-----------------------------------------------------------------------------
LEMMA WorkerKeeps ==
    ASSUME AuthorityInv, NEW w \in Threads, WorkerStep(w) PROVE AuthorityInv'
BY IssueCapabilityKeeps, RevalidateKeeps, ClaimKeeps, IssueContextKeeps, LaunchKeeps,
   MarkStartedKeeps, FinishKeeps DEF WorkerStep

LEMMA NextKeeps == AuthorityInv /\ [AuthorityNext]_vars => AuthorityInv'
<1> SUFFICES ASSUME AuthorityInv, [AuthorityNext]_vars PROVE AuthorityInv'
  OBVIOUS
<1>1. CASE \E c \in Calls : StartScanRequest(c)
  BY <1>1, ReceiveStartKeeps, FindKeeps, SaveKeeps DEF StartScanRequest
<1>2. CASE \E r \in Calls : ApproveExpired(r) \/ RequestExpires(r)
  BY <1>2, ApproveExpiredKeeps, RequestExpiresKeeps
<1>3. CASE \E r \in Calls, key \in ApprovalKeys, s \in Sessions :
              ApproveFirst(r, key, s) \/ ApproveReplay(r, key, s)
  BY <1>3, ApproveFirstKeeps, ApproveReplayKeeps
<1>4. CASE \E r \in Calls, target \in {"REVOKED", "EXPIRED", "CONSUMED"} :
              TransitionScanAuthorization(r, target)
  BY <1>4, TransitionKeeps
<1>5. CASE \E s \in Sessions : RevokeToken(s)
  BY <1>5, RevokeTokenKeeps
<1>6. CASE EditAsset
  BY <1>6, EditAssetKeeps
<1>7. CASE \E p \in Processes : Deploy(p)
  BY <1>7, DeployKeeps
<1>8. CASE \E w \in Threads : WorkerStep(w)
  BY <1>8, WorkerKeeps
<1>9. CASE \E r \in Calls, o \in Ops : Recover(r, o)
  BY <1>9, RecoverKeeps
<1>10. CASE UNCHANGED vars
  <2> USE <1>10 DEF AuthorityInv, vars, durableVars, workerVars
  <2>1. AuthorityTypeOK'
    BY DEF AuthorityTypeOK
  <2>2. OneRequestPerKey' /\ CallInv' /\ RequestInv' /\ ChildInv' /\ GrantInv'
    BY DEF OneRequestPerKey, CallInv, RequestInv, ChildInv, GrantInv
  <2>3. ThreadInv' /\ HolderInv' /\ LaunchInv'
    BY ThreadsUndisturbed DEF QuietRows
  <2> QED BY <2>1, <2>2, <2>3
<1> QED BY <1>1, <1>2, <1>3, <1>4, <1>5, <1>6, <1>7, <1>8, <1>9, <1>10 DEF AuthorityNext

(* The inductive invariant of the way from a scan request to a process, for *)
(* any number of calls, operations, sessions, builds and threads.          *)
THEOREM AuthorityInvariant == AuthoritySpec => []AuthorityInv
BY InitInv, NextKeeps, PTL DEF AuthoritySpec

(* Rows, calls and threads keep their types, and the registries of         *)
(* capabilities and contexts their size limits.                            *)
THEOREM AuthorityTypes == AuthoritySpec => []AuthorityTypeOK
<1>1. AuthorityInv => AuthorityTypeOK
  BY DEF AuthorityInv
<1> QED BY AuthorityInvariant, <1>1, PTL

(* An idempotency key of POST /start names one request. *)
THEOREM KeyNamesOneRequest == AuthoritySpec => []OneRequestPerKey
<1>1. AuthorityInv => OneRequestPerKey
  BY DEF AuthorityInv
<1> QED BY AuthorityInvariant, <1>1, PTL

(* Concurrent calls of POST /approve have one winner. *)
THEOREM ApprovalHasOneWinner == AuthoritySpec => []OneApprovalPerRequest
<1>1. AuthorityInv => OneApprovalPerRequest
  <2> SUFFICES ASSUME AuthorityInv, NEW g \in granted PROVE OneApprovalPerRequest!(g)
    BY DEF OneApprovalPerRequest
  <2> USE DEF AuthorityInv
  <2>1. g[1] \in Calls
    BY DEF AuthorityTypeOK
  <2>2. Selected(request[g[1]].body, request[g[1]].policy) \subseteq Ops
    BY <2>1, SelectedOps
  <2>3. ChildrenOf(g[1]) = Selected(request[g[1]].body, request[g[1]].policy)
    BY <2>1, <2>2 DEF ChildrenOf, ChildInv, GrantInv
  <2>4. \A o \in ChildrenOf(g[1]) : child[g[1]][o].session = g[3]
    BY <2>1 DEF ChildrenOf, ChildInv, GrantInv
  <2> QED BY <2>3, <2>4 DEF GrantInv
<1> QED BY AuthorityInvariant, <1>1, PTL

(* No child is launched twice, whatever is restarted or approved again. *)
THEOREM ApprovalUsedOnce == AuthoritySpec => []LaunchedOnce
<1>1. AuthorityInv => LaunchedOnce
  BY DEF AuthorityInv, LaunchInv, LaunchedOnce
<1> QED BY AuthorityInvariant, <1>1, PTL

-----------------------------------------------------------------------------
(* Which steps change a run, and under which parent. *)
Lawful(r, o) ==
    /\ child'[r][o].run = "STARTING" =>
          request[r].state \in {"DISPATCHABLE", "EXPIRED"} /\ request[r].session \notin revoked
    /\ child'[r][o].run = "RUNNING" =>
          /\ request[r].state = "DISPATCHABLE" /\ ~late[r]
          /\ request[r].session \notin revoked

RunsLawful == \A r \in Calls, o \in Ops : child'[r][o].run # child[r][o].run => Lawful(r, o)

LEMMA QuietIsLawful == QuietRows => RunsLawful
BY DEF QuietRows, RunsLawful

LEMMA ClosingIsQuiet ==
    ASSUME AuthorityInv, NEW a \in Calls, NEW target \in {"REVOKED", "EXPIRED", "CONSUMED"},
           TransitionScanAuthorization(a, target)
    PROVE  QuietRows
<1>1. child' = [child EXCEPT ![a] = Propagated(a, target)]
  BY DEF TransitionScanAuthorization
<1>2. child'[a] = Propagated(a, target) /\ \A r \in Calls \ {a} : child'[r] = child[r]
  BY <1>1 DEF AuthorityInv, AuthorityTypeOK
<1> SUFFICES ASSUME NEW r \in Calls, NEW o \in Ops PROVE QuietRows!(r, o)
  BY DEF QuietRows
<1>3. CASE r = a
  BY <1>2, <1>3, PropagatedRows DEF AuthorityInv
<1>4. CASE r # a
  BY <1>2, <1>4
<1> QED BY <1>3, <1>4

LEMMA RevokingIsQuiet ==
    ASSUME AuthorityInv, NEW s \in Sessions, RevokeToken(s) PROVE QuietRows
<1> SUFFICES ASSUME NEW r \in Calls, NEW o \in Ops PROVE QuietRows!(r, o)
  BY DEF QuietRows
<1>1. child[r][o] \in ChildRows
  BY DEF AuthorityInv, AuthorityTypeOK
<1> QED BY <1>1 DEF RevokeToken, ChildRows

(* Only a claim leads to STARTING and only a start to RUNNING. *)
LEMMA WorkerIsLawful ==
    ASSUME AuthorityInv, NEW w \in Threads, WorkerStep(w) PROVE RunsLawful
<1> USE DEF AuthorityInv
<1>1. CASE UNCHANGED child
  BY <1>1 DEF RunsLawful
<1>2. ASSUME NEW k, SetChild(w, k), Advances(k, Row(w)), thread[w].pc # "idle",
             k.run \notin {"STARTING", "RUNNING"} \/ k.run = Row(w).run
      PROVE  RunsLawful
  <2>1. \A r \in Calls, o \in Ops :
           child'[r][o] = IF r = thread[w].req /\ o = thread[w].op THEN k ELSE child[r][o]
    BY <1>2, OwnWrite
  <2> QED BY <1>2, <2>1 DEF RunsLawful, Lawful, Row
<1>3. ASSUME thread[w].pc # "idle"
      PROVE  /\ thread[w].req \in Calls /\ thread[w].op \in Ops /\ Row(w) \in ChildRows
             /\ Row(w).run # "NONE"
             /\ request[thread[w].req].state \notin {"NONE", "REQUESTED"}
             /\ Row(w).session = request[thread[w].req].session
             /\ request[thread[w].req].state = "REVOKED" => Row(w).revoked
             /\ request[thread[w].req].state = "CONSUMED" => Row(w).consumed
             /\ request[thread[w].req].state = "EXPIRED" => late[thread[w].req]
             /\ request[thread[w].req].state \in
                   {"NONE", "REQUESTED", "DISPATCHABLE", "EXPIRED", "REVOKED", "CONSUMED"}
  <2>1. thread[w].req \in Calls /\ thread[w].op \in Ops /\ Row(w).run # "NONE"
    BY <1>3 DEF ThreadInv
  <2> QED BY <2>1 DEF AuthorityTypeOK, RequestRows, ChildInv, RequestInv, Row
<1>4. CASE Claim(w) /\ ClaimOk(w)
  <2> DEFINE k == [Row(w) EXCEPT !.run = "STARTING", !.fence = w]
  <2>1. SetChild(w, k) /\ thread[w].pc # "idle"
    BY <1>4 DEF Claim, At
  <2>2. Advances(k, Row(w)) /\ k.run = "STARTING"
    BY <1>3, <2>1 DEF Advances, ChildRows
  <2>3. \A r \in Calls, o \in Ops :
           child'[r][o] = IF r = thread[w].req /\ o = thread[w].op THEN k ELSE child[r][o]
    BY <2>1, <2>2, OwnWrite
  <2>4. Lawful(thread[w].req, thread[w].op)
    BY <1>3, <1>4, <2>1, <2>2, <2>3 DEF Lawful, ClaimOk
  <2> HIDE DEF k
  <2> QED BY <2>3, <2>4 DEF RunsLawful
<1>5. CASE MarkStarted(w) /\ StartOk(w)
  <2> DEFINE k == [Row(w) EXCEPT !.run = "RUNNING", !.consumed = TRUE, !.fence = NoOne]
  <2>1. SetChild(w, k) /\ thread[w].pc # "idle"
    BY <1>5 DEF MarkStarted, At
  <2>2. Advances(k, Row(w)) /\ k.run = "RUNNING"
    BY <1>3, <2>1 DEF Advances, ChildRows
  <2>3. \A r \in Calls, o \in Ops :
           child'[r][o] = IF r = thread[w].req /\ o = thread[w].op THEN k ELSE child[r][o]
    BY <2>1, <2>2, OwnWrite
  <2>4. Lawful(thread[w].req, thread[w].op)
    BY <1>3, <1>5, <2>1, <2>2, <2>3 DEF Lawful, StartOk, DecisionLive, Row
  <2> HIDE DEF k
  <2> QED BY <2>3, <2>4 DEF RunsLawful
<1>6. CASE IssueContext(w) /\ child' # child
  <2> DEFINE k == IF Row(w).consumed THEN Row(w)
                    ELSE [Row(w) EXCEPT !.run = "ENDED", !.fence = NoOne]
  <2>1. SetChild(w, k) /\ thread[w].pc = "claimed"
    BY <1>6 DEF IssueContext, At, Block
  <2>2. Row(w).run = "STARTING"
    BY <2>1 DEF ThreadInv
  <2>3. Advances(k, Row(w)) /\ (k.run = "ENDED" \/ k.run = Row(w).run)
    BY <1>3, <2>1, <2>2 DEF Advances, ChildRows
  <2> QED BY <1>2, <2>1, <2>3
<1>7. CASE Finish(w)
  <2>1. SetChild(w, [Row(w) EXCEPT !.run = "ENDED"]) /\ thread[w].pc # "idle"
    BY <1>7 DEF Finish, At
  <2>2. Advances([Row(w) EXCEPT !.run = "ENDED"], Row(w)) /\ [Row(w) EXCEPT !.run = "ENDED"].run = "ENDED"
    BY <1>3, <2>1 DEF Advances, ChildRows
  <2> QED BY <1>2, <2>1, <2>2
<1> QED
  BY <1>1, <1>4, <1>5, <1>6, <1>7 DEF WorkerStep, IssueCapability, Revalidate, Claim, Launch,
     MarkStarted, durableVars

LEMMA NextIsLawful == AuthorityInv /\ [AuthorityNext]_vars => RunsLawful
<1> SUFFICES ASSUME AuthorityInv, [AuthorityNext]_vars PROVE RunsLawful
  OBVIOUS
<1>1. CASE UNCHANGED child
  BY <1>1 DEF RunsLawful
<1>2. ASSUME NEW a \in Calls, NEW key \in ApprovalKeys, NEW s \in Sessions, ApproveFirst(a, key, s)
      PROVE  RunsLawful
  <2>1. \A r \in Calls, o \in Ops : child'[r][o].run # child[r][o].run =>
           child'[r][o] \in {ChildAuthority(a, s), NoChild}
    BY <1>2 DEF ApproveFirst, AuthorityInv, AuthorityTypeOK
  <2>2. ChildAuthority(a, s).run = "REQUESTED" /\ NoChild.run = "NONE"
    BY DEF ChildAuthority, NoChild
  <2> QED BY <2>1, <2>2 DEF RunsLawful, Lawful
<1>3. ASSUME NEW a \in Calls, NEW target \in {"REVOKED", "EXPIRED", "CONSUMED"},
             TransitionScanAuthorization(a, target)
      PROVE  RunsLawful
  BY <1>3, ClosingIsQuiet, QuietIsLawful
<1>4. ASSUME NEW s \in Sessions, RevokeToken(s) PROVE RunsLawful
  BY <1>4, RevokingIsQuiet, QuietIsLawful
<1>5. ASSUME NEW w \in Threads, WorkerStep(w) PROVE RunsLawful
  BY <1>5, WorkerIsLawful
<1>6. ASSUME NEW a \in Calls, NEW b \in Ops, Recover(a, b) PROVE RunsLawful
  <2>1. child[a][b] \in ChildRows
    BY DEF AuthorityInv, AuthorityTypeOK
  <2> DEFINE k == [child[a][b] EXCEPT !.run = "ENDED", !.fence = NoOne]
  <2>2. k.run = "ENDED"
    BY <2>1 DEF ChildRows
  <2>3. \A r \in Calls, o \in Ops : child'[r][o] = IF r = a /\ o = b THEN k ELSE child[r][o]
    BY <1>6, RecoverEffect DEF AuthorityInv
  <2> HIDE DEF k
  <2> QED BY <2>2, <2>3 DEF RunsLawful, Lawful
<1> QED
  BY <1>1, <1>2, <1>3, <1>4, <1>5, <1>6 DEF AuthorityNext, StartScanRequest, ReceiveStart,
     FindByIdempotency, SaveScanAndAuthorizationRequest, ApproveExpired, RequestExpires,
     ApproveReplay, EditAsset, Deploy, vars, durableVars

(* claim_execution_authority and mark_execution_decision_started do not    *)
(* read the parent, and yet start nothing under a closed one.              *)
THEOREM ParentGuardsStart == AuthoritySpec => ClosedParentStartsNothing
<1>1. AuthorityInv /\ [AuthorityNext]_vars => [RunsLawful]_vars
  BY NextIsLawful
<1>2. AuthoritySpec => [][RunsLawful]_vars
  BY AuthorityInvariant, <1>1, PTL DEF AuthoritySpec
<1> QED BY <1>2 DEF ClosedParentStartsNothing, RunsLawful, Lawful

(* Only the build that was approved launches, and only what was sealed. *)
THEOREM LaunchFollowsApproval == AuthoritySpec => LaunchedAsApproved
<1> DEFINE A == \A r \in Calls, o \in Ops : launches'[r][o] # launches[r][o] =>
          /\ o \in Selected(request[r].body, request[r].policy) \ Native
          /\ child[r][o].policy = request[r].policy
          /\ image["worker"].policy = request[r].policy
          /\ image["worker"].gen = child[r][o].gen
<1>1. ASSUME AuthorityInv, [AuthorityNext]_vars PROVE A
  <2>1. CASE UNCHANGED launches
    BY <2>1
  <2>2. ASSUME NEW w \in Threads, Launch(w) PROVE A
    <3> USE <1>1 DEF AuthorityInv
    <3>1. /\ thread[w].pc = "cleared"
          /\ launches' = [launches EXCEPT ![thread[w].req][thread[w].op] = @ + 1]
      BY <2>2 DEF Launch, At
    <3>2. /\ thread[w].req \in Calls /\ thread[w].op \in Ops \ Native /\ Row(w).run # "NONE"
          /\ Row(w).policy = image["worker"].policy /\ Row(w).gen = image["worker"].gen
      BY <3>1 DEF ThreadInv
    <3>3. \A r \in Calls, o \in Ops : launches'[r][o] # launches[r][o] =>
             r = thread[w].req /\ o = thread[w].op
      BY <3>1, <3>2 DEF AuthorityTypeOK
    <3> QED BY <3>2, <3>3 DEF ChildInv, Row
  <2> QED
    BY <1>1, <2>1, <2>2 DEF AuthorityNext, StartScanRequest, ReceiveStart, FindByIdempotency,
       SaveScanAndAuthorizationRequest, ApproveExpired, ApproveFirst, RequestExpires,
       TransitionScanAuthorization, RevokeToken, Recover, ApproveReplay, EditAsset, Deploy,
       WorkerStep, IssueCapability, Revalidate, Claim, IssueContext, MarkStarted, Finish,
       vars, workerVars
<1>2. AuthorityInv /\ [AuthorityNext]_vars => [A]_vars
  BY <1>1
<1>3. AuthoritySpec => [][A]_vars
  BY AuthorityInvariant, <1>2, PTL DEF AuthoritySpec
<1> QED BY <1>3 DEF LaunchedAsApproved
=============================================================================
