--------------------------- MODULE IdentityProofs ---------------------------
(***************************************************************************)
(* Proofs about Identity, for any number of API processes, users, tenants, *)
(* tokens and keys, and with no bound on the faults and the operator's     *)
(* changes: IdentityInv is inductive, and the safety properties follow.    *)
(***************************************************************************)
EXTENDS Identity, FiniteSetTheorems, TLAPS

-----------------------------------------------------------------------------
(* Rows *)

LEMMA ScopesOfUser ==
    ASSUME NEW u \in UserRow
    PROVE  EffectiveScopes(u) \subseteq Scopes \cup {"*"}
  BY DEF EffectiveScopes, SystemAdmin, UserRow, Roles, Scopes, ROLE_BASE_SCOPES

LEMMA ScopesOfToken ==
    ASSUME NEW u \in UserRow, NEW claim \in SUBSET (Scopes \cup {"*"})
    PROVE  BoundedScopes(u, claim) \subseteq Scopes \cup {"*"}
  BY DEF BoundedScopes, SystemAdmin, UserRow, Roles, Scopes, ROLE_BASE_SCOPES

\* No key carries the wildcard.
LEMMA NoWildcard == "*" \notin API_KEY_ALLOWED_SCOPES
  BY DEF API_KEY_ALLOWED_SCOPES, Scopes, Roles, ROLE_BASE_SCOPES

LEMMA IdleRow == Idle \in RequestRow
  BY DEF Idle, RequestRow, NoWrite, Row, WriteRow

LEMMA NoWriteRow == NoWrite \in WriteRow /\ NoWrite.table = "none"
  BY DEF NoWrite, Row, WriteRow

\* A row that is written is a row of its table.
LEMMA WriteRows ==
    ASSUME NEW w \in WriteRow
    PROVE  /\ w.table \in {"none", "users", "tokens", "keys", "revoked"}
           /\ w.table = "none" => w = NoWrite
           /\ w.table = "users" => w.id \in Users /\ w.value \in UserRow
           /\ w.table = "tokens" => w.id \in Tokens /\ w.value \in TokenRow
           /\ w.table = "keys" => w.id \in Keys /\ w.value \in KeyRow
           /\ w.table = "revoked" => w.id \in Tokens
  BY DEF WriteRow, NoWrite, Row

\* A row that is there is well formed, and a well-formed row is there.
LEMMA Present ==
    ASSUME IdentityTypeOK
    PROVE  /\ \A u \in Users : Exists(users, u) <=> users[u] \in UserRow
           /\ \A t \in Tokens : Exists(tokens, t) <=> tokens[t] \in TokenRow
           /\ \A k \in Keys : Exists(keys, k) <=> keys[k] \in KeyRow
  BY IdentityAssumption DEF IdentityTypeOK, Exists

-----------------------------------------------------------------------------
(* Initially *)

LEMMA InitInv == IdentityInit => IdentityInv
  <1> SUFFICES ASSUME IdentityInit PROVE IdentityInv
    OBVIOUS
  <1>1. IdentityTypeOK
    <2>1. audit \in Seq(AuditRow)
      BY DEF IdentityInit
    <2>2. proc \in [Procs -> RequestRow]
      BY IdleRow DEF IdentityInit
    <2>3. held \in [Users -> SUBSET (Scopes \cup {"*"})] /\ cache \in [Procs -> SUBSET Tokens]
      BY DEF IdentityInit
    <2>4. users \in [Users -> UserRow \cup {Nobody}] /\ tokens \in [Tokens -> TokenRow \cup {Nobody}] /\ keys \in [Keys -> KeyRow \cup {Nobody}]
      BY DEF IdentityInit
    <2> QED BY <2>1, <2>2, <2>3, <2>4 DEF IdentityInit, IdentityTypeOK
  <1>2. TableInv
    BY DEF IdentityInit, TableInv, Exists
  <1>3. RequestInv
    BY IdentityAssumption
    DEF IdentityInit, RequestInv, CredentialInv, CallerInv, WriteInv, Idle, Creds
  <1>4. ExclusiveInv
    BY NoWriteRow DEF IdentityInit, ExclusiveInv, Idle
  <1>5. ChainInv
    BY IdentityAssumption DEF IdentityInit, ChainInv, At, Idle, AuditChainIntact
  <1>6. BootInv
    BY DEF IdentityInit, BootInv
  <1>7. ChangesAreAudited
    BY DEF IdentityInit, ChangesAreAudited, Exists
  <1> QED BY <1>1, <1>2, <1>3, <1>4, <1>5, <1>6, <1>7 DEF IdentityInv

-----------------------------------------------------------------------------
(* Steps of one request that leave the database alone *)

\* Of the requests, only that of p moves.
OnlyRequest(p) ==
    /\ proc' \in [Procs -> RequestRow]
    /\ \A q \in Procs : q # p => proc'[q] = proc[q]

\* What p is about to write nobody else is writing, unless both revoke.
Alone(p) ==
    \A q \in Procs :
        q # p /\ proc'[p].write.table = proc[q].write.table
              /\ proc'[p].write.id = proc[q].write.id
        => \/ proc'[p].write.table \in {"none", "revoked"}
           \/ proc'[p].write.table = "keys" /\ Exists(keys, proc'[p].write.id)

LEMMA BootKept ==
    ASSUME BootInv, UNCHANGED <<founded, audit>>
    PROVE  BootInv'
  BY DEF BootInv

\* A credential stays what it is while its rows do.
LEMMA CredentialCarried ==
    ASSUME NEW q \in Procs, proc'[q] = proc[q], CredentialInv(proc[q]),
           UNCHANGED <<users, tokens, keys, revoked, expired>>
    PROVE  CredentialInv(proc[q])'
  <1>1. \A f \in proc[q].dead : Flawed(f, proc[q].cred, users)'
    BY DEF CredentialInv, Flawed, OwnerGone
  <1> QED BY <1>1 DEF CredentialInv, Exists

\* A step of one request that commits nothing.  It may take or give back
\* locks of its own, and put on record that its event is lost.
LEMMA RequestStep ==
    ASSUME IdentityInv, NEW p \in Procs, OnlyRequest(p),
           UNCHANGED <<tables, expired, audit>>,
           cache' \in [Procs -> SUBSET Tokens],
           chainLock' \in Procs \cup {Nobody}, bootLock' \in Procs \cup {Nobody},
           \A q \in Procs : q # p => /\ chainLock = q <=> chainLock' = q
                                     /\ bootLock = q => bootLock' = q,
           At(p, "commit")' <=> chainLock' = p,
           At(p, "commit")' => /\ proc'[p].event \in AuditRow
                               /\ proc'[p].event.seq = Len(audit) + 1
                               /\ proc'[p].event.prev = Len(audit),
           CredentialInv(proc[p])', CallerInv(proc[p])', WriteInv(p, proc[p])',
           Alone(p),
           lost \subseteq lost', Owed(p) \subseteq Owed(p)' \cup lost'
    PROVE  IdentityInv'
  <1> USE DEF IdentityInv
  <1>u. UNCHANGED <<users, founded, tokens, keys, revoked, held, expired, audit>>
    BY DEF tables
  <1>1. IdentityTypeOK'
    BY <1>u DEF OnlyRequest, IdentityTypeOK
  <1>2. TableInv'
    BY <1>u DEF TableInv, Exists, Grounded, WithinGrant, EffectiveScopes, SystemAdmin
  <1>3. RequestInv'
    <2> SUFFICES ASSUME NEW q \in Procs, q # p
                 PROVE  /\ CredentialInv(proc[q])'
                        /\ CallerInv(proc[q])'
                        /\ WriteInv(q, proc[q])'
      BY DEF RequestInv
    <2>1. proc'[q] = proc[q] /\ (bootLock = q => bootLock' = q)
      BY DEF OnlyRequest
    <2>2. CredentialInv(proc[q])'
      BY <1>u, <2>1, CredentialCarried DEF RequestInv
    <2>3. CallerInv(proc[q])'
      BY <1>u, <2>1 DEF RequestInv, CallerInv, Exists
    <2>4. WriteInv(q, proc[q])'
      BY <1>u, <2>1 DEF RequestInv, WriteInv, ChangeInv, AuditedInv, Exists, Grounded, WithinGrant
    <2> QED BY <2>2, <2>3, <2>4
  <1>4. ExclusiveInv'
    <2> SUFFICES ASSUME NEW a \in Procs, NEW b \in Procs, a # b,
                        proc'[a].write.table = proc'[b].write.table,
                        proc'[a].write.id = proc'[b].write.id
                 PROVE  \/ proc'[a].write.table \in {"none", "revoked"}
                        \/ proc'[a].write.table = "keys" /\ Exists(keys, proc'[a].write.id)
      BY <1>u DEF ExclusiveInv, Exists
    <2>1. CASE a # p /\ b # p
      BY <2>1 DEF ExclusiveInv, OnlyRequest
    <2>2. CASE a = p
      BY <2>2 DEF Alone, OnlyRequest
    <2>3. CASE b = p
      BY <2>3 DEF Alone, OnlyRequest
    <2> QED BY <2>1, <2>2, <2>3
  <1>5. ChainInv'
    <2>1. \A q \in Procs : q # p => proc'[q] = proc[q]
      BY DEF OnlyRequest
    <2>2. AuditChainIntact'
      BY <1>u DEF ChainInv, AuditChainIntact
    <2>3. ASSUME NEW q \in Procs
          PROVE  At(q, "commit")' <=> chainLock' = q
      <3>1. CASE q = p
        BY <3>1
      <3>2. CASE q # p
        <4>1. At(q, "commit")' <=> At(q, "commit")
          BY <2>1, <3>2 DEF At
        <4>2. At(q, "commit") <=> chainLock = q
          BY DEF ChainInv
        <4>3. chainLock = q <=> chainLock' = q
          BY <3>2
        <4> QED BY <4>1, <4>2, <4>3
      <3> QED BY <3>1, <3>2
    <2>4. \A q \in Procs : At(q, "commit")' =>
             /\ proc'[q].event \in AuditRow
             /\ proc'[q].event.seq = Len(audit) + 1
             /\ proc'[q].event.prev = Len(audit)
      BY <2>1 DEF ChainInv, At
    <2> QED BY <1>u, <2>2, <2>3, <2>4 DEF ChainInv
  <1>6. BootInv'
    BY <1>u, BootKept
  <1>7. ChangesAreAudited'
    <2>1. \A q \in Procs : q # p => Owed(q) = Owed(q)'
      BY DEF OnlyRequest, Owed
    <2>2. lost \cup UNION {Owed(q) : q \in Procs}
            \subseteq lost' \cup UNION {Owed(q)' : q \in Procs}
      BY <2>1
    <2>3. \A a, o : Recorded(a, o) => Recorded(a, o)'
      BY <2>2, <1>u DEF Recorded
    <2> QED BY <1>u, <2>3 DEF ChangesAreAudited, Exists
  <1> QED BY <1>1, <1>2, <1>3, <1>4, <1>5, <1>6, <1>7

LEMMA QuietKeeps ==
    ASSUME IdentityInv, NEW p \in Procs, OnlyTheRequest, OnlyRequest(p),
           ~At(p, "append"), ~At(p, "commit"), ~At(p, "commit")',
           CredentialInv(proc[p])', CallerInv(proc[p])', WriteInv(p, proc[p])',
           Alone(p)
    PROVE  IdentityInv'
  <1>1. Owed(p) = {}
    BY DEF Owed, At
  <1>2. UNCHANGED <<tables, expired, audit>> /\ UNCHANGED <<cache, chainLock, bootLock, lost>>
    BY DEF OnlyTheRequest
  <1>3. chainLock # p
    BY DEF IdentityInv, ChainInv
  <1> QED BY <1>1, <1>2, <1>3, RequestStep DEF IdentityInv, IdentityTypeOK

\* A request that ends, or that has just begun, carries nothing.
LEMMA FreshRequest ==
    ASSUME IdentityInv, NEW p \in Procs, NEW n \in RequestRow,
           proc' = [proc EXCEPT ![p] = n]
    PROVE  OnlyRequest(p) /\ proc'[p] = n
  BY DEF IdentityInv, IdentityTypeOK, OnlyRequest

LEMMA AnswerKeeps ==
    ASSUME IdentityInv, NEW p \in Procs, OnlyTheRequest, Answer(p),
           ~At(p, "append"), ~At(p, "commit")
    PROVE  IdentityInv'
  <1>1. OnlyRequest(p) /\ proc'[p] = Idle
    BY IdleRow, FreshRequest DEF Answer
  <1>2. proc'[p].pc = "idle" /\ proc'[p].cred = Nobody /\ proc'[p].dead = {}
        /\ proc'[p].who = Nobody /\ proc'[p].write = NoWrite
    BY <1>1 DEF Idle
  <1>3. CredentialInv(proc[p])' /\ CallerInv(proc[p])' /\ WriteInv(p, proc[p])'
    BY <1>2, IdentityAssumption DEF CredentialInv, CallerInv, WriteInv
  <1>4. Alone(p) /\ ~At(p, "commit")'
    BY <1>2, NoWriteRow DEF Alone, At
  <1> QED BY <1>1, <1>3, <1>4, QuietKeeps

LEMMA ReceiveBootstrapKeeps ==
    ASSUME IdentityInv, NEW p \in Procs, ReceiveBootstrap(p)
    PROVE  IdentityInv'
  <1> DEFINE n == [Idle EXCEPT !.pc = "boot"]
  <1>1. n \in RequestRow
    BY IdleRow DEF RequestRow
  <1>2. OnlyRequest(p) /\ proc'[p] = n
    BY <1>1, FreshRequest DEF ReceiveBootstrap
  <1>3. proc'[p].pc = "boot" /\ proc'[p].cred = Nobody /\ proc'[p].dead = {}
        /\ proc'[p].who = Nobody /\ proc'[p].write = NoWrite
    BY <1>2 DEF Idle
  <1>4. CredentialInv(proc[p])' /\ CallerInv(proc[p])' /\ WriteInv(p, proc[p])'
    BY <1>3, IdentityAssumption DEF CredentialInv, CallerInv, WriteInv
  <1>5. Alone(p) /\ ~At(p, "commit")'
    BY <1>3, NoWriteRow DEF Alone, At
  <1> QED BY <1>2, <1>4, <1>5, QuietKeeps DEF ReceiveBootstrap, At

LEMMA LoginKeeps ==
    ASSUME IdentityInv, NEW p \in Procs, Login(p)
    PROVE  IdentityInv'
  <1>1. PICK u \in Users, t \in Unissued(tokens, "tokens") :
           /\ Exists(users, u)
           /\ proc' = [proc EXCEPT ![p] =
                 [Idle EXCEPT !.pc = "append",
                              !.write = Row("tokens", t, AccessToken(u)),
                              !.event = Event("LOGIN_SUCCESS", u, users[u].org)]]
    BY DEF Login
  <1> DEFINE w == Row("tokens", t, AccessToken(u))
             e == Event("LOGIN_SUCCESS", u, users[u].org)
             n == [Idle EXCEPT !.pc = "append", !.write = w, !.event = e]
  <1>2. users[u] \in UserRow
    BY <1>1, Present DEF IdentityInv
  <1>3. t \in Tokens /\ ~Exists(tokens, t)
        /\ \A q \in Procs : ~(proc[q].write.table = "tokens" /\ proc[q].write.id = t)
    BY DEF Unissued, IdentityInv, IdentityTypeOK
  <1>4. AccessToken(u) \in TokenRow
    BY <1>2, ScopesOfUser DEF AccessToken, TokenRow
  <1>5. w \in WriteRow /\ w.table = "tokens" /\ w.id = t /\ w.value.sub = u
    BY <1>3, <1>4 DEF Row, WriteRow, AccessToken
  <1>6. e \in EventRow /\ e.action = "LOGIN_SUCCESS" /\ e.object = u
    BY <1>2 DEF Event, EventRow, Actions, UserRow
  <1> HIDE DEF w, e
  <1>7. n \in RequestRow
    BY <1>5, <1>6, IdleRow DEF RequestRow
  <1>8. OnlyRequest(p) /\ proc'[p] = n
    BY <1>1, <1>7, FreshRequest DEF w, e
  <1>9. proc'[p].pc = "append" /\ proc'[p].cred = Nobody /\ proc'[p].dead = {}
        /\ proc'[p].who = Nobody /\ proc'[p].write = w /\ proc'[p].event = e
    BY <1>8 DEF Idle
  <1>10. CredentialInv(proc[p])' /\ CallerInv(proc[p])'
    BY <1>9, IdentityAssumption DEF CredentialInv, CallerInv
  <1>11. WriteInv(p, proc[p])'
    BY <1>9, <1>5, <1>6, <1>3, <1>1 DEF WriteInv, AuditedInv, Exists, Login, OnlyTheRequest, tables
  <1>12. Alone(p) /\ ~At(p, "commit")'
    BY <1>9, <1>5, <1>3 DEF Alone, At
  <1> QED BY <1>8, <1>10, <1>11, <1>12, QuietKeeps DEF Login, At

LEMMA ReceiveKeeps ==
    ASSUME IdentityInv, NEW p \in Procs, Receive(p)
    PROVE  IdentityInv'
  <1>1. PICK c \in Creds :
           /\ IF c \in Tokens THEN Exists(tokens, c) ELSE Exists(keys, c)
           /\ proc' = [proc EXCEPT ![p] =
                 [Idle EXCEPT !.pc = IF c \in Tokens THEN "decode" ELSE "key",
                              !.cred = c,
                              !.dead = {f \in Flaws : Flawed(f, c, users)}]]
    BY DEF Receive
  <1> DEFINE d == {f \in Flaws : Flawed(f, c, users)}
             n == [Idle EXCEPT !.pc = IF c \in Tokens THEN "decode" ELSE "key",
                               !.cred = c, !.dead = d]
  <1>2. d \subseteq Flaws /\ \A f \in d : Flawed(f, c, users)
    OBVIOUS
  <1> HIDE DEF d
  <1>3. n \in RequestRow
    BY <1>2, IdleRow DEF RequestRow
  <1>4. OnlyRequest(p) /\ proc'[p] = n
    BY <1>1, <1>3, FreshRequest DEF d
  <1>5. proc'[p].pc = (IF c \in Tokens THEN "decode" ELSE "key") /\ proc'[p].cred = c
        /\ proc'[p].dead = d /\ proc'[p].who = Nobody /\ proc'[p].write = NoWrite
    BY <1>4 DEF Idle
  <1>6. \A f \in d : Flawed(f, c, users)'
    BY <1>2 DEF Flawed, OwnerGone, Receive, OnlyTheRequest, tables
  <1>7. CredentialInv(proc[p])'
    BY <1>5, <1>1, <1>6, IdentityAssumption DEF CredentialInv, Creds, Exists, Receive, OnlyTheRequest, tables
  <1>8. CallerInv(proc[p])' /\ WriteInv(p, proc[p])'
    BY <1>5 DEF CallerInv, WriteInv
  <1>9. Alone(p) /\ ~At(p, "commit")'
    BY <1>5, NoWriteRow DEF Alone, At
  <1> QED BY <1>4, <1>7, <1>8, <1>9, QuietKeeps DEF Receive, At

\* A check that lets the credential through narrows the flaws it may have.
LEMMA CheckPassed ==
    ASSUME IdentityInv, NEW p \in Procs, OnlyTheRequest,
           NEW c \in {"user", "owner"}, Goto(p, c),
           At(p, IF c = "user" THEN "decode" ELSE "key"),
           ~Flawed("expired", proc[p].cred, users), ~Flawed("revoked", proc[p].cred, users)
    PROVE  IdentityInv'
  <1> DEFINE r == proc[p]
             n == [r EXCEPT !.pc = c]
  <1>1. r \in RequestRow
    BY DEF IdentityInv, IdentityTypeOK
  <1>2. n \in RequestRow
    BY <1>1 DEF RequestRow
  <1>3. proc' = [proc EXCEPT ![p] = n]
    BY DEF Goto
  <1>4. OnlyRequest(p) /\ proc'[p] = n
    BY <1>2, <1>3, FreshRequest
  <1>5. proc'[p].pc = c /\ proc'[p].cred = r.cred /\ proc'[p].dead = r.dead
        /\ proc'[p].who = r.who /\ proc'[p].write = r.write
    BY <1>4, <1>1 DEF RequestRow
  <1>6. CredentialInv(r) /\ CallerInv(r) /\ WriteInv(p, r)
    BY DEF IdentityInv, RequestInv
  <1>7. UNCHANGED <<users, tokens, keys, revoked, expired, held>>
    BY DEF OnlyTheRequest, tables
  <1>8. CredentialInv(proc[p])'
    <2>1. r.dead \subseteq {"owner"}
      BY <1>1, <1>6 DEF CredentialInv, RequestRow, Flaws
    <2>2. \A f \in proc'[p].dead : Flawed(f, proc[p].cred, users)'
      BY <1>5, <1>6, <1>7 DEF CredentialInv, Flawed, OwnerGone
    <2> QED BY <1>5, <1>6, <1>7, <2>1, <2>2 DEF CredentialInv, Exists, At
  <1>9. CallerInv(proc[p])'
    BY <1>5, <1>6, <1>7 DEF CallerInv, Exists
  <1>10. r.write = NoWrite
    BY <1>6 DEF WriteInv, At
  <1>11. WriteInv(p, proc[p])'
    BY <1>5, <1>10 DEF WriteInv
  <1>12. Alone(p) /\ ~At(p, "commit")'
    BY <1>5, <1>10, NoWriteRow DEF Alone, At
  <1> QED BY <1>4, <1>8, <1>9, <1>11, <1>12, QuietKeeps DEF At

LEMMA DecodeAccessTokenKeeps ==
    ASSUME IdentityInv, NEW p \in Procs, DecodeAccessToken(p)
    PROVE  IdentityInv'
  <1>1. CASE Answer(p)
    BY <1>1, AnswerKeeps DEF DecodeAccessToken, At
  <1>2. CASE proc[p].cred \notin KnownRevoked(p) \cup expired /\ Goto(p, "user")
    <2>1. proc[p].cred \in Tokens
      BY DEF IdentityInv, RequestInv, CredentialInv, DecodeAccessToken, At
    <2>2. ~Flawed("expired", proc[p].cred, users) /\ ~Flawed("revoked", proc[p].cred, users)
      BY <1>2, <2>1 DEF Flawed, KnownRevoked
    <2> QED BY <1>2, <2>2, CheckPassed DEF DecodeAccessToken
  <1> QED BY <1>1, <1>2 DEF DecodeAccessToken

LEMMA VerifyApiKeyHashKeeps ==
    ASSUME IdentityInv, NEW p \in Procs, VerifyApiKeyHash(p)
    PROVE  IdentityInv'
  <1>1. CASE Answer(p)
    BY <1>1, AnswerKeeps DEF VerifyApiKeyHash, At
  <1>2. CASE ~(keys[proc[p].cred].revoked \/ proc[p].cred \in expired) /\ Goto(p, "owner")
    <2>1. proc[p].cred \in Keys
      BY DEF IdentityInv, RequestInv, CredentialInv, VerifyApiKeyHash, At
    <2>2. ~Flawed("expired", proc[p].cred, users) /\ ~Flawed("revoked", proc[p].cred, users)
      BY <1>2, <2>1, IdentityAssumption DEF Flawed
    <2> QED BY <1>2, <2>2, CheckPassed DEF VerifyApiKeyHash
  <1> QED BY <1>1, <1>2 DEF VerifyApiKeyHash

\* The last check has found no flaw: the request has a caller.
LEMMA AuthenticatedKeeps ==
    ASSUME IdentityInv, NEW p \in Procs, OnlyTheRequest, NEW u \in PrincipalRow,
           Authenticated(p, u), At(p, "user") \/ At(p, "owner"),
           ~Flawed("owner", proc[p].cred, users),
           Exists(users, u.id),
           proc[p].cred \in Keys => u.scopes \subseteq keys[proc[p].cred].scopes,
           proc[p].cred \in Tokens => \/ u.scopes \subseteq held[u.id]
                                      \/ "*" \in held[u.id]
    PROVE  IdentityInv'
  <1> DEFINE r == proc[p]
             n == [r EXCEPT !.pc = "handler", !.who = u]
  <1>1. r \in RequestRow
    BY DEF IdentityInv, IdentityTypeOK
  <1>2. n \in RequestRow
    BY <1>1 DEF RequestRow
  <1>3. proc' = [proc EXCEPT ![p] = n]
    BY DEF Authenticated
  <1>4. OnlyRequest(p) /\ proc'[p] = n
    BY <1>2, <1>3, FreshRequest
  <1>5. proc'[p].pc = "handler" /\ proc'[p].cred = r.cred /\ proc'[p].dead = r.dead
        /\ proc'[p].who = u /\ proc'[p].write = r.write
    BY <1>4, <1>1 DEF RequestRow
  <1>6. CredentialInv(r) /\ CallerInv(r) /\ WriteInv(p, r)
    BY DEF IdentityInv, RequestInv
  <1>7. UNCHANGED <<users, tokens, keys, revoked, expired, held>>
    BY DEF OnlyTheRequest, tables
  <1>8. CredentialInv(proc[p])'
    <2>1. r.dead = {}
      BY <1>6 DEF CredentialInv, At
    <2>2. u # Nobody
      BY IdentityAssumption
    <2> QED BY <1>5, <1>6, <1>7, <2>1, <2>2 DEF CredentialInv, Exists
  <1>9. r.cred \in Creds
    BY <1>6 DEF CredentialInv, Creds, At
  <1>10. CallerInv(proc[p])'
    BY <1>5, <1>7, <1>9 DEF CallerInv, Exists
  <1>11. r.write = NoWrite
    BY <1>6 DEF WriteInv, At
  <1>12. WriteInv(p, proc[p])'
    BY <1>5, <1>11 DEF WriteInv
  <1>13. Alone(p) /\ ~At(p, "commit")'
    BY <1>5, <1>11, NoWriteRow DEF Alone, At
  <1> QED BY <1>4, <1>8, <1>10, <1>12, <1>13, QuietKeeps DEF At

LEMMA GetUserByIdKeeps ==
    ASSUME IdentityInv, NEW p \in Procs, GetUserById(p)
    PROVE  IdentityInv'
  <1> DEFINE token == tokens[proc[p].cred]
             user  == users[token.sub]
             u == Principal(token.sub, BoundedScopes(user, token.scopes))
  <1>1. CASE Answer(p)
    BY <1>1, AnswerKeeps DEF GetUserById, At
  <1>2. CASE user.active /\ Authenticated(p, u)
    <2>1. proc[p].cred \in Tokens /\ Exists(tokens, proc[p].cred)
      BY DEF IdentityInv, RequestInv, CredentialInv, GetUserById, At
    <2>2. token \in TokenRow /\ Exists(users, token.sub)
      BY <2>1, Present DEF IdentityInv, TableInv
    <2>3. token.sub \in Users /\ token.scopes \subseteq Scopes \cup {"*"} /\ user \in UserRow
      BY <2>2, Present DEF IdentityInv, TokenRow
    <2>4. EffectiveScopes(user) \subseteq held[token.sub]
      BY <2>2, <2>3 DEF IdentityInv, TableInv
    <2>5. u \in PrincipalRow /\ u.id = token.sub
          /\ u.scopes = BoundedScopes(user, token.scopes)
      BY <2>3, ScopesOfToken DEF Principal, PrincipalRow, UserRow
    <2>6. u.scopes \subseteq held[u.id] \/ "*" \in held[u.id]
      BY <2>4, <2>5 DEF EffectiveScopes, BoundedScopes
    <2>7. ~Flawed("owner", proc[p].cred, users)
      BY <1>2, <2>1 DEF Flawed
    <2>8. proc[p].cred \notin Keys
      BY <2>1, IdentityAssumption
    <2> HIDE DEF token, user, u
    <2> QED BY <1>2, <2>2, <2>5, <2>6, <2>7, <2>8, AuthenticatedKeeps DEF GetUserById
  <1> QED BY <1>1, <1>2 DEF GetUserById

LEMMA BoundUserKeeps ==
    ASSUME IdentityInv, NEW p \in Procs, BoundUser(p)
    PROVE  IdentityInv'
  <1> DEFINE key == keys[proc[p].cred]
             u == Principal(key.owner, key.scopes)
  <1>1. CASE Answer(p)
    BY <1>1, AnswerKeeps DEF BoundUser, At
  <1>2. CASE ~OwnerGone(users[key.owner], key.org) /\ Authenticated(p, u)
    <2>1. proc[p].cred \in Keys /\ Exists(keys, proc[p].cred)
      BY DEF IdentityInv, RequestInv, CredentialInv, BoundUser, At
    <2>2. key \in KeyRow /\ Exists(users, key.owner)
      BY <2>1, Present DEF IdentityInv, TableInv, Grounded
    <2>3. key.owner \in Users /\ key.scopes \subseteq Scopes \cup {"*"}
          /\ users[key.owner] \in UserRow
      BY <2>2, Present DEF IdentityInv, KeyRow, API_KEY_ALLOWED_SCOPES
    <2>5. u \in PrincipalRow /\ u.id = key.owner /\ u.scopes = key.scopes
      BY <2>3 DEF Principal, PrincipalRow, UserRow
    <2>7. ~Flawed("owner", proc[p].cred, users)
      BY <1>2, <2>1, IdentityAssumption DEF Flawed
    <2>8. proc[p].cred \notin Tokens
      BY <2>1, IdentityAssumption
    <2> HIDE DEF u
    <2> QED BY <1>2, <2>2, <2>5, <2>7, <2>8, AuthenticatedKeeps DEF BoundUser
  <1> QED BY <1>1, <1>2 DEF BoundUser

LEMMA ServeKeeps ==
    ASSUME IdentityInv, NEW p \in Procs, Serve(p)
    PROVE  IdentityInv'
  BY AnswerKeeps DEF Serve, At

-----------------------------------------------------------------------------
(* The handlers that write *)

\* The handler turns its request into a pending write and its event.
LEMMA HandlerKeeps ==
    ASSUME IdentityInv, NEW p \in Procs, OnlyTheRequest, At(p, "handler"),
           NEW c \in {"change", "append"}, NEW w \in WriteRow, NEW e \in EventRow,
           proc' = [proc EXCEPT ![p].pc = c, ![p].write = w, ![p].event = e],
           c = "change" => ChangeInv(w, e.action, e.object),
           c = "append" => AuditedInv(p, w, e.action, e.object),
           \A q \in Procs : w.table = proc[q].write.table /\ w.id = proc[q].write.id
               => \/ w.table \in {"none", "revoked"}
                  \/ w.table = "keys" /\ Exists(keys, w.id)
    PROVE  IdentityInv'
  <1> DEFINE r == proc[p]
             n == [r EXCEPT !.pc = c, !.write = w, !.event = e]
  <1>1. r \in RequestRow
    BY DEF IdentityInv, IdentityTypeOK
  <1>2. n \in RequestRow
    BY <1>1 DEF RequestRow
  <1>3. proc' = [proc EXCEPT ![p] = n]
    OBVIOUS
  <1>4. OnlyRequest(p) /\ proc'[p] = n
    BY <1>2, <1>3, FreshRequest
  <1>5. proc'[p].pc = c /\ proc'[p].cred = r.cred /\ proc'[p].dead = r.dead
        /\ proc'[p].who = r.who /\ proc'[p].write = w /\ proc'[p].event = e
    <2>1. n.pc = c /\ n.cred = r.cred /\ n.dead = r.dead /\ n.who = r.who
          /\ n.write = w /\ n.event = e
      BY <1>1 DEF RequestRow
    <2> QED BY <1>4, <2>1
  <1>6. CredentialInv(r) /\ CallerInv(r)
    BY DEF IdentityInv, RequestInv
  <1>7. UNCHANGED <<users, tokens, keys, revoked, expired, held, bootLock, founded>>
    BY DEF OnlyTheRequest, tables
  <1>8. CredentialInv(proc[p])'
    <2>1. r.dead = {}
      BY <1>6 DEF CredentialInv, At
    <2> QED BY <1>5, <1>6, <1>7, <2>1 DEF CredentialInv, Exists
  <1>9. CallerInv(proc[p])'
    BY <1>5, <1>6, <1>7 DEF CallerInv, Exists
  <1>10. WriteInv(p, proc[p])'
    BY <1>5, <1>7 DEF WriteInv, ChangeInv, AuditedInv, Grounded, WithinGrant, Exists
  <1>11. Alone(p) /\ ~At(p, "commit")'
    BY <1>5 DEF Alone, At
  <1> QED BY <1>4, <1>8, <1>9, <1>10, <1>11, QuietKeeps DEF At

\* The caller of a handler.
LEMMA Caller ==
    ASSUME IdentityInv, NEW p \in Procs, At(p, "handler")
    PROVE  /\ proc[p].who \in PrincipalRow
           /\ proc[p].cred \in Creds
           /\ Exists(users, proc[p].who.id)
           /\ proc[p].cred \in Keys => Exists(keys, proc[p].cred)
           /\ proc[p].cred \in Keys =>
                 proc[p].who.scopes \subseteq keys[proc[p].cred].scopes
           /\ proc[p].cred \in Tokens =>
                 \/ proc[p].who.scopes \subseteq held[proc[p].who.id]
                 \/ "*" \in held[proc[p].who.id]
  <1>1. proc[p] \in RequestRow
    BY DEF IdentityInv, IdentityTypeOK
  <1>2. CredentialInv(proc[p]) /\ CallerInv(proc[p])
    BY DEF IdentityInv, RequestInv
  <1>3. proc[p].who # Nobody /\ proc[p].who \in PrincipalRow
    BY <1>1, <1>2 DEF CredentialInv, RequestRow, At
  <1> QED BY <1>2, <1>3 DEF CredentialInv, CallerInv

LEMMA LogoutKeeps ==
    ASSUME IdentityInv, NEW p \in Procs, Logout(p)
    PROVE  IdentityInv'
  <1> DEFINE who == proc[p].who
             e == Event("LOGOUT", who.id, who.org)
             w == Row("revoked", proc[p].cred, Nobody)
  <1>1. At(p, "handler") /\ OnlyTheRequest
    BY DEF Logout, Handling
  <1>2. e \in EventRow /\ e.action = "LOGOUT"
    BY <1>1, Caller DEF Event, EventRow, Actions, PrincipalRow
  <1>3. CASE proc[p].cred \in Tokens
    <2>1. w \in WriteRow /\ w.table = "revoked"
      BY <1>3 DEF Row, WriteRow
    <2>2. ChangeInv(w, e.action, e.object)
      BY <1>2, <2>1 DEF ChangeInv
    <2>3. proc' = [proc EXCEPT ![p].pc = "change", ![p].write = w, ![p].event = e]
      BY <1>3 DEF Logout, Change
    <2> HIDE DEF w, e
    <2> QED BY <1>1, <1>2, <2>1, <2>2, <2>3, HandlerKeeps
  <1>4. CASE proc[p].cred \notin Tokens
    <2>1. NoWrite \in WriteRow /\ AuditedInv(p, NoWrite, e.action, e.object)
      BY <1>2, NoWriteRow DEF AuditedInv
    <2>3. proc' = [proc EXCEPT ![p].pc = "append", ![p].write = NoWrite, ![p].event = e]
      BY <1>4 DEF Logout
    <2> HIDE DEF e
    <2> QED BY <1>1, <1>2, <2>1, <2>3, NoWriteRow, HandlerKeeps
  <1> QED BY <1>3, <1>4

LEMMA CreateUserKeeps ==
    ASSUME IdentityInv, NEW p \in Procs, CreateUser(p)
    PROVE  IdentityInv'
  <1>1. At(p, "handler") /\ OnlyTheRequest
    BY DEF CreateUser, Handling
  <1>2. PICK u \in Unissued(users, "users"), role \in Roles, org \in Orgs :
           Change(p, Row("users", u, [role |-> role, org |-> org,
                                      active |-> TRUE, system |-> FALSE]),
                  Event("USER_CREATED", u, org))
    BY DEF CreateUser
  <1> DEFINE v == [role |-> role, org |-> org, active |-> TRUE, system |-> FALSE]
             w == Row("users", u, v)
             e == Event("USER_CREATED", u, org)
  <1>3. u \in Users /\ ~Exists(users, u)
        /\ \A q \in Procs : ~(proc[q].write.table = "users" /\ proc[q].write.id = u)
    BY DEF Unissued, IdentityInv, IdentityTypeOK
  <1>4. v \in UserRow
    BY DEF UserRow
  <1>5. w \in WriteRow /\ w.table = "users" /\ w.id = u
    BY <1>3, <1>4 DEF Row, WriteRow
  <1>6. e \in EventRow /\ e.action = "USER_CREATED" /\ e.object = u
    BY <1>3 DEF Event, EventRow, Actions
  <1>7. ChangeInv(w, e.action, e.object)
    BY <1>3, <1>5, <1>6 DEF ChangeInv
  <1>8. proc' = [proc EXCEPT ![p].pc = "change", ![p].write = w, ![p].event = e]
    BY <1>2 DEF Change
  <1> HIDE DEF v, w, e
  <1>9. \A q \in Procs : ~(w.table = proc[q].write.table /\ w.id = proc[q].write.id)
    BY <1>3, <1>5
  <1> QED BY <1>1, <1>5, <1>6, <1>7, <1>8, <1>9, HandlerKeeps

LEMMA CreateApiKeyKeeps ==
    ASSUME IdentityInv, NEW p \in Procs, CreateApiKey(p)
    PROVE  IdentityInv'
  <1> DEFINE who == proc[p].who
  <1>1. At(p, "handler") /\ OnlyTheRequest
    BY DEF CreateApiKey, Handling
  <1>2. PICK k \in Unissued(keys, "keys"), scopes \in SUBSET Grantable(who) :
           Change(p, Row("keys", k, [owner |-> who.id, org |-> who.org,
                                     scopes |-> scopes, revoked |-> FALSE,
                                     via |-> proc[p].cred]),
                  Event("API_KEY_CREATED", k, who.org))
    BY DEF CreateApiKey
  <1> DEFINE v == [owner |-> who.id, org |-> who.org, scopes |-> scopes,
                   revoked |-> FALSE, via |-> proc[p].cred]
             w == Row("keys", k, v)
             e == Event("API_KEY_CREATED", k, who.org)
  <1>3. k \in Keys /\ ~Exists(keys, k)
        /\ \A q \in Procs : ~(proc[q].write.table = "keys" /\ proc[q].write.id = k)
    BY DEF Unissued, IdentityInv, IdentityTypeOK
  <1>4. who \in PrincipalRow /\ proc[p].cred \in Creds
    BY <1>1, Caller
  <1>5. scopes \subseteq API_KEY_ALLOWED_SCOPES
    BY DEF Grantable
  <1>6. v \in KeyRow
    BY <1>4, <1>5 DEF KeyRow, PrincipalRow
  <1>7. w \in WriteRow /\ w.table = "keys" /\ w.id = k /\ w.value = v
    BY <1>3, <1>6 DEF Row, WriteRow
  <1>8. e \in EventRow /\ e.action = "API_KEY_CREATED" /\ e.object = k
    BY <1>3, <1>4 DEF Event, EventRow, Actions, PrincipalRow
  <1>9. WithinGrant(v)
    <2>1. v.via = proc[p].cred /\ v.scopes = scopes /\ v.owner = who.id
      OBVIOUS
    <2>2. CASE proc[p].cred \in Keys
      <3>1. keys[proc[p].cred] \in KeyRow
        BY <1>1, <2>2, Caller, Present DEF IdentityInv
      <3>2. "*" \notin who.scopes
        BY <1>1, <2>2, <3>1, Caller, NoWildcard DEF KeyRow
      <3>3. scopes \subseteq who.scopes
        BY <3>2 DEF Grantable
      <3> QED BY <1>1, <2>1, <2>2, <3>3, Caller DEF WithinGrant
    <2>3. CASE proc[p].cred \in Tokens
      <3>1. who.scopes \subseteq held[who.id] \/ "*" \in held[who.id]
        BY <1>1, <2>3, Caller
      <3>2. scopes \subseteq who.scopes \/ "*" \in who.scopes
        BY DEF Grantable
      <3>3. scopes \subseteq held[who.id] \/ "*" \in held[who.id]
        BY <3>1, <3>2
      <3> QED BY <2>1, <2>3, <3>3 DEF WithinGrant
    <2> QED BY <1>4, <2>2, <2>3 DEF Creds
  <1>10. Grounded(v) /\ ~v.revoked
    BY <1>1, <1>9, Caller DEF Grounded
  <1>11. ChangeInv(w, e.action, e.object)
    BY <1>3, <1>7, <1>8, <1>10 DEF ChangeInv
  <1>12. proc' = [proc EXCEPT ![p].pc = "change", ![p].write = w, ![p].event = e]
    BY <1>2 DEF Change
  <1> HIDE DEF v, w, e
  <1>13. \A q \in Procs : ~(w.table = proc[q].write.table /\ w.id = proc[q].write.id)
    BY <1>3, <1>7
  <1> QED BY <1>1, <1>7, <1>8, <1>11, <1>12, <1>13, HandlerKeeps

LEMMA RevokeApiKeyKeeps ==
    ASSUME IdentityInv, NEW p \in Procs, RevokeApiKey(p)
    PROVE  IdentityInv'
  <1> DEFINE who == proc[p].who
  <1>1. At(p, "handler") /\ OnlyTheRequest
    BY DEF RevokeApiKey, Handling
  <1>2. PICK k \in Keys :
           /\ Exists(keys, k)
           /\ Change(p, Row("keys", k, [keys[k] EXCEPT !.revoked = TRUE]),
                     Event("API_KEY_REVOKED", k, who.org))
    BY DEF RevokeApiKey
  <1> DEFINE v == [keys[k] EXCEPT !.revoked = TRUE]
             w == Row("keys", k, v)
             e == Event("API_KEY_REVOKED", k, who.org)
  <1>3. keys[k] \in KeyRow
    BY <1>2, Present DEF IdentityInv
  <1>4. v \in KeyRow
    BY <1>3 DEF KeyRow
  <1>5. w \in WriteRow /\ w.table = "keys" /\ w.id = k /\ w.value = v
    BY <1>4 DEF Row, WriteRow
  <1>6. e \in EventRow /\ e.action = "API_KEY_REVOKED" /\ e.object = k
    BY <1>1, Caller DEF Event, EventRow, Actions, PrincipalRow
  <1>7. ChangeInv(w, e.action, e.object)
    BY <1>2, <1>5, <1>6 DEF ChangeInv
  <1>8. proc' = [proc EXCEPT ![p].pc = "change", ![p].write = w, ![p].event = e]
    BY <1>2 DEF Change
  <1> HIDE DEF v, w, e
  <1> QED BY <1>1, <1>2, <1>5, <1>6, <1>7, <1>8, HandlerKeeps

-----------------------------------------------------------------------------
(* Locks, events and faults *)

LEMMA BootstrapSystemKeeps ==
    ASSUME IdentityInv, NEW p \in Procs, BootstrapSystem(p)
    PROVE  IdentityInv'
  <1>1. CASE Answer(p) /\ UNCHANGED bootLock
    <2>1. OnlyTheRequest
      BY <1>1 DEF BootstrapSystem, OnlyTheRequest
    <2> QED BY <1>1, <2>1, AnswerKeeps DEF BootstrapSystem, At
  <1>2. CASE ~founded /\ \E u \in Unissued(users, "users") :
                /\ bootLock' = p
                /\ proc' = [proc EXCEPT
                              ![p].pc = "append",
                              ![p].write = Row("users", u, Administrator),
                              ![p].event = Event("BOOTSTRAP_COMPLETE", u, Home)]
    <2>1. PICK u \in Unissued(users, "users") :
                /\ bootLock' = p
                /\ proc' = [proc EXCEPT
                              ![p].pc = "append",
                              ![p].write = Row("users", u, Administrator),
                              ![p].event = Event("BOOTSTRAP_COMPLETE", u, Home)]
      BY <1>2
    <2> DEFINE r == proc[p]
               w == Row("users", u, Administrator)
               e == Event("BOOTSTRAP_COMPLETE", u, Home)
               n == [r EXCEPT !.pc = "append", !.write = w, !.event = e]
    <2>2. u \in Users /\ ~Exists(users, u)
          /\ \A q \in Procs : ~(proc[q].write.table = "users" /\ proc[q].write.id = u)
      BY DEF Unissued, IdentityInv, IdentityTypeOK
    <2>3. w \in WriteRow /\ w.table = "users" /\ w.id = u
      BY <2>2, IdentityAssumption DEF Row, WriteRow, Administrator, UserRow, Roles, ROLE_BASE_SCOPES
    <2>4. e \in EventRow /\ e.action = "BOOTSTRAP_COMPLETE" /\ e.object = u
      BY <2>2, IdentityAssumption DEF Event, EventRow, Actions
    <2>5. proc' = [proc EXCEPT ![p] = n]
      BY <2>1
    <2> HIDE DEF w, e
    <2>6. r \in RequestRow
      BY DEF IdentityInv, IdentityTypeOK
    <2>7. n \in RequestRow /\ n.pc = "append" /\ n.cred = r.cred /\ n.dead = r.dead
          /\ n.who = r.who /\ n.write = w /\ n.event = e
      BY <2>3, <2>4, <2>6 DEF RequestRow
    <2> HIDE DEF n
    <2>8. OnlyRequest(p) /\ proc'[p] = n
      BY <2>5, <2>7, FreshRequest
    <2>9. UNCHANGED <<tables, expired, audit>> /\ UNCHANGED <<cache, chainLock, lost>>
          /\ bootLock' = p /\ bootLock = Nobody /\ At(p, "boot")
      BY <2>1 DEF BootstrapSystem, BootFree
    <2>10. UNCHANGED <<users, founded, tokens, keys, revoked, held, expired>>
      BY <2>9 DEF tables
    <2>11. CredentialInv(r) /\ CallerInv(r)
      BY DEF IdentityInv, RequestInv
    <2>12. CredentialInv(proc[p])'
      <3>1. \A f \in proc'[p].dead : Flawed(f, proc[p].cred, users)'
        BY <2>7, <2>8, <2>10, <2>11 DEF CredentialInv, Flawed, OwnerGone
      <3> QED BY <2>7, <2>8, <2>10, <2>11, <3>1 DEF CredentialInv, Exists
    <2>13. CallerInv(proc[p])'
      BY <2>7, <2>8, <2>10, <2>11 DEF CallerInv, Exists
    <2>14. WriteInv(p, proc[p])'
      BY <1>2, <2>2, <2>3, <2>4, <2>7, <2>8, <2>9, <2>10 DEF WriteInv, AuditedInv, Exists
    <2>15. Alone(p)
      BY <2>2, <2>3, <2>7, <2>8 DEF Alone
    <2>16. Owed(p) = {} /\ ~At(p, "commit")' /\ chainLock # p
      BY <2>7, <2>8, <2>9 DEF Owed, At, IdentityInv, ChainInv
    <2> QED BY <2>8, <2>9, <2>12, <2>13, <2>14, <2>15, <2>16, IdentityAssumption, RequestStep
            DEF IdentityInv, IdentityTypeOK
  <1> QED BY <1>1, <1>2 DEF BootstrapSystem

\* The predecessor that the holder of the lock reads is the last event.
LEMMA PredecessorIsLast ==
    ASSUME IdentityInv
    PROVE  Predecessor = Len(audit) /\ Len(audit) \in Nat
  <1>1. audit \in Seq(AuditRow) /\ Len(audit) \in Nat
    BY DEF IdentityInv, IdentityTypeOK
  <1>2. CASE audit = <<>>
    BY <1>2 DEF Predecessor
  <1>3. CASE audit # <<>>
    <2>1. Len(audit) \in 1..Len(audit)
      BY <1>1, <1>3
    <2>2. audit[Len(audit)].seq = Len(audit)
      BY <2>1 DEF IdentityInv, ChainInv, AuditChainIntact
    <2> QED BY <1>1, <1>3, <2>2 DEF Predecessor
  <1> QED BY <1>1, <1>2, <1>3

LEMMA InsertAuditEventKeeps ==
    ASSUME IdentityInv, NEW p \in Procs, InsertAuditEvent(p)
    PROVE  IdentityInv'
  <1> DEFINE r == proc[p]
             e == [seq |-> Predecessor + 1, prev |-> Predecessor,
                   action |-> r.event.action, object |-> r.event.object,
                   org |-> r.event.org]
             n == [r EXCEPT !.pc = "commit", !.event = e]
  <1>1. r \in RequestRow
    BY DEF IdentityInv, IdentityTypeOK
  <1>2. CredentialInv(r) /\ CallerInv(r) /\ WriteInv(p, r) /\ r.pc = "append"
    BY DEF IdentityInv, RequestInv, InsertAuditEvent, At
  <1>3. r.event.action \in Actions /\ r.event.object \in Users \cup Keys
        /\ r.event.org \in Orgs
    BY <1>2 DEF WriteInv, EventRow, AuditRow
  <1>4. /\ e \in AuditRow
        /\ e.seq = Len(audit) + 1 /\ e.prev = Len(audit)
        /\ e.action = r.event.action /\ e.object = r.event.object
    BY <1>3, PredecessorIsLast DEF AuditRow
  <1>5. proc' = [proc EXCEPT ![p] = n]
    BY DEF InsertAuditEvent
  <1> HIDE DEF e
  <1>6. n \in RequestRow /\ n.pc = "commit" /\ n.cred = r.cred /\ n.dead = r.dead
        /\ n.who = r.who /\ n.write = r.write /\ n.event = e
    BY <1>1, <1>4 DEF RequestRow
  <1> HIDE DEF n
  <1>7. OnlyRequest(p) /\ proc'[p] = n
    BY <1>5, <1>6, FreshRequest
  <1>8. UNCHANGED <<tables, expired, audit>> /\ UNCHANGED <<cache, bootLock, lost>>
        /\ chainLock' = p /\ chainLock = Nobody
    BY DEF InsertAuditEvent, ChainFree
  <1>9. UNCHANGED <<users, founded, tokens, keys, revoked, held, expired>>
    BY <1>8 DEF tables
  <1>10. CredentialInv(proc[p])'
    <2>1. \A f \in proc'[p].dead : Flawed(f, proc[p].cred, users)'
      BY <1>2, <1>6, <1>7, <1>9 DEF CredentialInv, Flawed, OwnerGone
    <2> QED BY <1>2, <1>6, <1>7, <1>9, <2>1 DEF CredentialInv, Exists
  <1>11. CallerInv(proc[p])'
    BY <1>2, <1>6, <1>7, <1>9 DEF CallerInv, Exists
  <1>12. WriteInv(p, proc[p])'
    BY <1>2, <1>4, <1>6, <1>7, <1>8, <1>9 DEF WriteInv, AuditedInv, Exists
  <1>13. Alone(p)
    BY <1>6, <1>7 DEF Alone, IdentityInv, ExclusiveInv
  <1>14. Owed(p) = Owed(p)'
    BY <1>2, <1>4, <1>6, <1>7 DEF Owed
  <1>15. At(p, "commit")'
    BY <1>6, <1>7 DEF At
  <1> QED BY <1>4, <1>6, <1>7, <1>8, <1>10, <1>11, <1>12, <1>13, <1>14, <1>15,
             IdentityAssumption, RequestStep
          DEF IdentityInv, IdentityTypeOK

\* A rollback gives the locks back and leaves the tables alone.
LEMMA FaultKeeps ==
    ASSUME IdentityInv, NEW p \in Procs, Fault(p), cache' \in [Procs -> SUBSET Tokens]
    PROVE  IdentityInv'
  <1>1. OnlyRequest(p) /\ proc'[p] = Idle
    BY IdleRow, FreshRequest DEF Fault, Answer
  <1>2. proc'[p].pc = "idle" /\ proc'[p].cred = Nobody /\ proc'[p].dead = {}
        /\ proc'[p].who = Nobody /\ proc'[p].write = NoWrite
    BY <1>1 DEF Idle
  <1>3. CredentialInv(proc[p])' /\ CallerInv(proc[p])' /\ WriteInv(p, proc[p])'
    BY <1>2, IdentityAssumption DEF CredentialInv, CallerInv, WriteInv
  <1>4. Alone(p) /\ ~At(p, "commit")'
    BY <1>2, NoWriteRow DEF Alone, At
  <1>5. UNCHANGED <<tables, expired, audit>> /\ lost' = lost \cup Owed(p)
    BY DEF Fault
  <1>6. /\ chainLock' \in Procs \cup {Nobody} /\ bootLock' \in Procs \cup {Nobody}
        /\ chainLock' # p
        /\ \A q \in Procs : q # p => /\ chainLock = q <=> chainLock' = q
                                     /\ bootLock = q => bootLock' = q
    BY IdentityAssumption DEF Fault, ReleaseLocks, IdentityInv, IdentityTypeOK
  <1> QED BY <1>1, <1>3, <1>4, <1>5, <1>6, RequestStep

LEMMA DatabaseErrorKeeps ==
    ASSUME IdentityInv, NEW p \in Procs, DatabaseError(p)
    PROVE  IdentityInv'
  BY FaultKeeps DEF DatabaseError, IdentityInv, IdentityTypeOK

LEMMA CrashKeeps ==
    ASSUME IdentityInv, NEW p \in Procs, Crash(p)
    PROVE  IdentityInv'
  <1>1. cache' \in [Procs -> SUBSET Tokens]
    BY DEF Crash, IdentityInv, IdentityTypeOK
  <1> QED BY <1>1, FaultKeeps DEF Crash

-----------------------------------------------------------------------------
(* Steps that change the tables *)

\* No committed row disappears, a key only ever becomes revoked, and nobody's
\* entitlements are forgotten.
TablesGrow ==
    /\ \A u \in Users : Exists(users, u) => Exists(users, u)'
    /\ \A t \in Tokens : Exists(tokens, t) => tokens'[t] = tokens[t]
    /\ \A k \in Keys : Exists(keys, k) =>
          keys'[k] \in {keys[k], [keys[k] EXCEPT !.revoked = TRUE]}
    /\ revoked \subseteq revoked' /\ expired \subseteq expired'
    /\ \A u \in Users : held[u] \subseteq held'[u]

\* The request of q is where it was; a flaw of its credential may be gone.
SameRequest(q) ==
    /\ proc'[q].pc = proc[q].pc /\ proc'[q].cred = proc[q].cred
    /\ proc'[q].who = proc[q].who /\ proc'[q].write = proc[q].write
    /\ proc'[q].event = proc[q].event
    /\ proc'[q].dead \subseteq proc[q].dead

LEMMA KeyGrows ==
    ASSUME IdentityTypeOK, TablesGrow, NEW k \in Keys, Exists(keys, k)
    PROVE  /\ Exists(keys, k)'
           /\ keys'[k].owner = keys[k].owner /\ keys'[k].org = keys[k].org
           /\ keys'[k].scopes = keys[k].scopes /\ keys'[k].via = keys[k].via
           /\ keys[k].revoked => keys'[k].revoked
           /\ keys'[k] \in KeyRow
  <1>1. keys[k] \in KeyRow
    BY Present
  <1>2. keys'[k] = keys[k] \/ keys'[k] = [keys[k] EXCEPT !.revoked = TRUE]
    BY DEF TablesGrow
  <1>3. keys'[k] \in KeyRow
    BY <1>1, <1>2 DEF KeyRow
  <1>4. Exists(keys, k)'
    BY <1>3, IdentityAssumption DEF Exists
  <1> QED BY <1>1, <1>2, <1>3, <1>4 DEF KeyRow

LEMMA TokenGrows ==
    ASSUME TablesGrow, NEW t \in Tokens, Exists(tokens, t)
    PROVE  Exists(tokens, t)' /\ tokens'[t] = tokens[t]
  BY DEF TablesGrow, Exists

LEMMA GroundedStable ==
    ASSUME IdentityTypeOK, TablesGrow, NEW row \in KeyRow, Grounded(row)
    PROVE  Grounded(row)'
  <1>1. row.owner \in Users /\ Exists(users, row.owner)'
    BY DEF KeyRow, Grounded, TablesGrow
  <1>2. row.via \in Keys => Exists(keys, row.via)' /\ keys'[row.via].scopes = keys[row.via].scopes
    BY KeyGrows DEF Grounded
  <1>3. held[row.owner] \subseteq held'[row.owner]
    BY <1>1 DEF TablesGrow
  <1>4. WithinGrant(row)'
    BY <1>2, <1>3 DEF Grounded, WithinGrant
  <1> QED BY <1>1, <1>2, <1>4 DEF Grounded

LEMMA CallerStable ==
    ASSUME IdentityInv, TablesGrow, NEW q \in Procs, SameRequest(q)
    PROVE  CallerInv(proc[q])'
  <1> DEFINE r == proc[q]
  <1>1. CASE r.who = Nobody
    BY <1>1 DEF SameRequest, CallerInv
  <1>2. CASE r.who # Nobody
    <2>1. r \in RequestRow /\ CredentialInv(r) /\ CallerInv(r)
      BY DEF IdentityInv, IdentityTypeOK, RequestInv
    <2>2. r.who.id \in Users
      BY <1>2, <2>1 DEF RequestRow, PrincipalRow
    <2>3. Exists(users, r.who.id)' /\ held[r.who.id] \subseteq held'[r.who.id]
      BY <1>2, <2>1, <2>2 DEF TablesGrow, CallerInv, SameRequest, Exists
    <2>4. r.cred \in Keys => keys'[r.cred].scopes = keys[r.cred].scopes
      BY <2>1, KeyGrows DEF CredentialInv, IdentityInv
    <2> QED BY <1>2, <2>1, <2>3, <2>4 DEF SameRequest, CallerInv, Exists
  <1> QED BY <1>1, <1>2

LEMMA CredentialStable ==
    ASSUME IdentityInv, TablesGrow, NEW q \in Procs, SameRequest(q),
           \A f \in proc'[q].dead : Flawed(f, proc[q].cred, users)'
    PROVE  CredentialInv(proc[q])'
  <1> DEFINE r == proc[q]
  <1>1. CredentialInv(r)
    BY DEF IdentityInv, RequestInv
  <1>2. r.cred \in Tokens => Exists(tokens, r.cred)'
    BY <1>1, TokenGrows DEF CredentialInv, SameRequest, Exists
  <1>3. r.cred \in Keys => Exists(keys, r.cred)'
    BY <1>1, KeyGrows DEF CredentialInv, IdentityInv, SameRequest, Exists
  <1> QED BY <1>1, <1>2, <1>3 DEF SameRequest, CredentialInv

\* A flaw stays as long as the row of the owner does.
LEMMA FlawStable ==
    ASSUME IdentityInv, TablesGrow, NEW q \in Procs, NEW f \in proc[q].dead,
           \A u \in Users : Exists(users, u) => users'[u] = users[u],
           proc'[q].cred = proc[q].cred
    PROVE  Flawed(f, proc[q].cred, users)'
  <1> DEFINE c == proc[q].cred
  <1>1. CredentialInv(proc[q])
    BY DEF IdentityInv, RequestInv
  <1>2. Flawed(f, c, users) /\ c \in Creds
    BY <1>1 DEF CredentialInv
  <1>3. CASE c \in Tokens
    <2>1. Exists(tokens, c) /\ tokens'[c] = tokens[c]
      BY <1>1, <1>3, TokenGrows DEF CredentialInv
    <2>2. tokens[c].sub \in Users /\ Exists(users, tokens[c].sub)
      BY <1>3, <2>1, Present DEF IdentityInv, TableInv, TokenRow
    <2>3. users'[tokens[c].sub] = users[tokens[c].sub]
      BY <2>2
    <2> QED BY <1>2, <1>3, <2>1, <2>3 DEF Flawed, TablesGrow
  <1>4. CASE c \in Keys
    <2>0. c \notin Tokens
      BY <1>4, IdentityAssumption
    <2>1. Exists(keys, c)
      BY <1>1, <1>4 DEF CredentialInv
    <2>2. keys[c].owner \in Users /\ Exists(users, keys[c].owner)
      BY <1>4, <2>1, Present DEF IdentityInv, TableInv, Grounded, KeyRow
    <2>3. users'[keys[c].owner] = users[keys[c].owner]
      BY <2>2
    <2>4. keys'[c].owner = keys[c].owner /\ keys'[c].org = keys[c].org
          /\ (keys[c].revoked => keys'[c].revoked)
      BY <1>4, <2>1, KeyGrows DEF IdentityInv
    <2> QED BY <1>2, <2>0, <2>3, <2>4 DEF Flawed, OwnerGone, TablesGrow
  <1> QED BY <1>2, <1>3, <1>4 DEF Creds

\* A pending write stays good as long as nobody takes its id or its lock.
LEMMA WriteStable ==
    ASSUME IdentityInv, TablesGrow, NEW q \in Procs, SameRequest(q),
           proc[q].write.table = "users" => users'[proc[q].write.id] = users[proc[q].write.id],
           proc[q].write.table = "tokens" => tokens'[proc[q].write.id] = tokens[proc[q].write.id],
           proc[q].write.table = "keys" /\ ~Exists(keys, proc[q].write.id) =>
               keys'[proc[q].write.id] = keys[proc[q].write.id],
           bootLock = q => bootLock' = q /\ founded' = founded
    PROVE  WriteInv(q, proc[q])'
  <1> DEFINE r == proc[q]
             w == r.write
  <1>1. r \in RequestRow /\ w \in WriteRow /\ WriteInv(q, r)
    BY DEF IdentityInv, IdentityTypeOK, RequestInv, RequestRow
  <1>2. ASSUME r.pc = "change"
        PROVE  ChangeInv(w, r.event.action, r.event.object)'
    <2>1. r.event \in EventRow /\ ChangeInv(w, r.event.action, r.event.object)
      BY <1>1, <1>2 DEF WriteInv
    <2>2. CASE w.table = "users"
      BY <2>1, <2>2 DEF ChangeInv, SameRequest, Exists
    <2>3. CASE w.table = "keys" /\ ~Exists(keys, w.id)
      <3>1. w.value \in KeyRow /\ Grounded(w.value)
        BY <1>1, <2>1, <2>3, WriteRows DEF ChangeInv
      <3>2. Grounded(w.value)'
        BY <3>1, GroundedStable DEF IdentityInv, SameRequest, Grounded, WithinGrant
      <3>3. ~Exists(keys, w.id)'
        BY <2>3 DEF Exists, SameRequest
      <3> QED BY <2>1, <2>3, <3>2, <3>3 DEF ChangeInv, SameRequest
    <2>4. CASE w.table = "keys" /\ Exists(keys, w.id)
      <3>1. w.id \in Keys /\ keys[w.id] \in KeyRow
        BY <1>1, <2>4, WriteRows, Present DEF IdentityInv
      <3>2. [keys'[w.id] EXCEPT !.revoked = TRUE] = [keys[w.id] EXCEPT !.revoked = TRUE]
        BY <2>4, <3>1 DEF TablesGrow, KeyRow
      <3>3. Exists(keys, w.id)'
        BY <2>4, <3>1, KeyGrows DEF IdentityInv, SameRequest, Exists
      <3> QED BY <2>1, <2>4, <3>2, <3>3 DEF ChangeInv, SameRequest
    <2>5. CASE w.table = "revoked"
      BY <2>1, <2>5 DEF ChangeInv, SameRequest
    <2> QED BY <2>1, <2>2, <2>3, <2>4, <2>5 DEF ChangeInv
  <1>3. ASSUME r.pc \in {"append", "commit"}
        PROVE  AuditedInv(q, w, r.event.action, r.event.object)'
    <2>1. AuditedInv(q, w, r.event.action, r.event.object)
      BY <1>1, <1>3 DEF WriteInv
    <2>2. CASE w = NoWrite
      BY <2>1, <2>2, NoWriteRow DEF AuditedInv, SameRequest
    <2>3. CASE w.table = "users"
      BY <2>1, <2>3, NoWriteRow DEF AuditedInv, SameRequest, Exists
    <2>4. CASE w.table = "tokens"
      <3>1. w.value.sub \in Users /\ Exists(users, w.value.sub)
        BY <1>1, <2>1, <2>4, NoWriteRow, WriteRows DEF AuditedInv, TokenRow
      <3>2. Exists(users, w.value.sub)'
        BY <3>1 DEF TablesGrow, SameRequest, Exists
      <3> QED BY <2>1, <2>4, <3>2, NoWriteRow DEF AuditedInv, SameRequest, Exists
    <2> QED BY <2>1, <2>2, <2>3, <2>4 DEF AuditedInv
  <1> QED BY <1>1, <1>2, <1>3 DEF WriteInv, SameRequest

\* The tables themselves, when a step adds to them.
LEMMA TableStable ==
    ASSUME IdentityInv, IdentityTypeOK', TablesGrow,
           \A u \in Users : Exists(users, u)' => EffectiveScopes(users[u])' \subseteq held'[u],
           \A t \in Tokens : Exists(tokens, t)' =>
               Exists(tokens, t) \/ Exists(users, tokens'[t].sub),
           \A k \in Keys : Exists(keys, k)' => Exists(keys, k) \/ Grounded(keys'[k])
    PROVE  TableInv'
  <1>1. ASSUME NEW t \in Tokens, Exists(tokens, t)'
        PROVE  Exists(users, tokens[t].sub)'
    <2>1. tokens'[t] \in TokenRow
      BY <1>1, IdentityAssumption DEF IdentityTypeOK, Exists
    <2>2. tokens'[t].sub \in Users
      BY <2>1 DEF TokenRow
    <2>3. Exists(users, tokens'[t].sub)
      BY <1>1, TokenGrows DEF IdentityInv, TableInv
    <2>4. users'[tokens'[t].sub] # Nobody
      BY <2>2, <2>3 DEF TablesGrow, Exists
    <2> QED BY <2>4 DEF Exists
  <1>2. ASSUME NEW k \in Keys, Exists(keys, k)'
        PROVE  Grounded(keys[k])'
    <2>1. keys'[k] \in KeyRow
      BY <1>2, IdentityAssumption DEF IdentityTypeOK, Exists
    <2>2. Grounded(keys'[k])
      <3>1. CASE Exists(keys, k)
        <4>1. Grounded(keys[k])
          BY <3>1 DEF IdentityInv, TableInv
        <4> QED BY <3>1, <4>1, KeyGrows DEF Grounded, WithinGrant, IdentityInv
      <3> QED BY <1>2, <3>1
    <2> DEFINE row == keys'[k]
    <2>3. /\ users'[row.owner] # Nobody
          /\ row.via \in Keys => keys'[row.via] # Nobody
          /\ \/ row.via \in Keys /\ row.scopes \subseteq keys'[row.via].scopes
             \/ /\ row.via \in Tokens
                /\ row.scopes \subseteq held'[row.owner] \/ "*" \in held'[row.owner]
      <3>1. row.owner \in Users /\ users'[row.owner] # Nobody
        BY <2>1, <2>2 DEF KeyRow, Grounded, TablesGrow, Exists
      <3>2. row.via \in Keys => keys'[row.via] # Nobody /\ keys'[row.via].scopes = keys[row.via].scopes
        BY <2>2, KeyGrows DEF Grounded, IdentityInv, Exists
      <3>3. held[row.owner] \subseteq held'[row.owner]
        BY <3>1 DEF TablesGrow
      <3> QED BY <2>2, <3>1, <3>2, <3>3 DEF Grounded, WithinGrant
    <2> QED BY <2>3 DEF Grounded, WithinGrant, Exists
  <1> QED BY <1>1, <1>2 DEF TableInv

\* A credential expires.
LEMMA ExpireKeeps ==
    ASSUME IdentityInv, Expire
    PROVE  IdentityInv'
  <1>1. UNCHANGED <<users, founded, tokens, keys, revoked, held, cache, audit, chainLock,
                    bootLock, proc, lost>>
    BY DEF Expire, tables
  <1>2. expired \subseteq expired' /\ expired' \subseteq Creds
    BY DEF Expire, IdentityInv, IdentityTypeOK
  <1>3. IdentityTypeOK'
    BY <1>1, <1>2 DEF IdentityInv, IdentityTypeOK
  <1>4. TablesGrow
    BY <1>1, <1>2 DEF TablesGrow, Exists
  <1>5. TableInv'
    BY <1>1 DEF IdentityInv, TableInv, Exists, Grounded, WithinGrant, EffectiveScopes, SystemAdmin
  <1>6. RequestInv'
    <2> SUFFICES ASSUME NEW q \in Procs
                 PROVE  /\ CredentialInv(proc[q])'
                        /\ CallerInv(proc[q])'
                        /\ WriteInv(q, proc[q])'
      BY DEF RequestInv
    <2>1. SameRequest(q)
      BY <1>1 DEF SameRequest
    <2>2. \A f \in proc'[q].dead : Flawed(f, proc[q].cred, users)'
      BY <1>1, <1>4, FlawStable
    <2> QED BY <1>1, <1>4, <2>1, <2>2, CredentialStable, CallerStable, WriteStable
  <1>7. ExclusiveInv'
    BY <1>1 DEF IdentityInv, ExclusiveInv, Exists
  <1>8. ChainInv'
    BY <1>1 DEF IdentityInv, ChainInv, AuditChainIntact, At
  <1>9. BootInv'
    BY <1>1, BootKept DEF IdentityInv
  <1>10. ChangesAreAudited'
    BY <1>1 DEF IdentityInv, ChangesAreAudited, Recorded, Owed, Exists
  <1> QED BY <1>3, <1>5, <1>6, <1>7, <1>8, <1>9, <1>10 DEF IdentityInv

\* An operator changes a user's row.
LEMMA OperatorChangeKeeps ==
    ASSUME IdentityInv, OperatorChange
    PROVE  IdentityInv'
  <1>1. UNCHANGED <<founded, tokens, keys, revoked, expired, cache, audit, chainLock,
                    bootLock, lost>>
    BY DEF OperatorChange
  <1>a. PICK v \in Users :
           /\ Exists(users, v)
           /\ \E row \in {[users[v] EXCEPT !.active = FALSE],
                          [users[v] EXCEPT !.role = "VIEWER"],
                          [users[v] EXCEPT !.system = TRUE]}
                         \cup {[users[v] EXCEPT !.org = o] : o \in Orgs} :
                /\ users' = [users EXCEPT ![v] = row]
                /\ held' = [held EXCEPT ![v] = @ \cup EffectiveScopes(row)]
    BY DEF OperatorChange
  <1>2. PICK row \in {[users[v] EXCEPT !.active = FALSE],
                     [users[v] EXCEPT !.role = "VIEWER"],
                     [users[v] EXCEPT !.system = TRUE]}
                    \cup {[users[v] EXCEPT !.org = o] : o \in Orgs} :
           /\ Exists(users, v)
           /\ users' = [users EXCEPT ![v] = row]
           /\ held' = [held EXCEPT ![v] = @ \cup EffectiveScopes(row)]
    BY <1>a
  <1>3. row \in UserRow
    <2>1. users[v] \in UserRow
      BY <1>2, Present DEF IdentityInv
    <2>2. CASE row \in {[users[v] EXCEPT !.org = o] : o \in Orgs}
      BY <2>1, <2>2 DEF UserRow
    <2>3. CASE row \in {[users[v] EXCEPT !.active = FALSE],
                         [users[v] EXCEPT !.role = "VIEWER"],
                         [users[v] EXCEPT !.system = TRUE]}
      BY <2>1, <2>3 DEF UserRow, Roles, ROLE_BASE_SCOPES
    <2> QED BY <2>2, <2>3
  <1>4. /\ users' \in [Users -> UserRow \cup {Nobody}] /\ users'[v] = row
        /\ \A u \in Users : u # v => users'[u] = users[u]
        /\ held' \in [Users -> SUBSET (Scopes \cup {"*"})]
        /\ held'[v] = held[v] \cup EffectiveScopes(row)
        /\ \A u \in Users : u # v => held'[u] = held[u]
    <2>1. EffectiveScopes(row) \subseteq Scopes \cup {"*"}
      BY <1>3, ScopesOfUser
    <2> QED BY <1>2, <1>3, <2>1 DEF IdentityInv, IdentityTypeOK
  <1>5. proc' = [p \in Procs |-> [proc[p] EXCEPT !.dead =
                                    {f \in @ : Flawed(f, proc[p].cred, users')}]]
    BY DEF OperatorChange
  <1>6. ASSUME NEW q \in Procs
        PROVE  /\ SameRequest(q) /\ proc'[q] \in RequestRow
               /\ \A f \in proc'[q].dead : Flawed(f, proc[q].cred, users)'
    <2> DEFINE d == {f \in proc[q].dead : Flawed(f, proc[q].cred, users')}
    <2>1. proc[q] \in RequestRow
      BY DEF IdentityInv, IdentityTypeOK
    <2>2. proc'[q] = [proc[q] EXCEPT !.dead = d]
      BY <1>5
    <2>3. d \subseteq proc[q].dead /\ \A f \in d : Flawed(f, proc[q].cred, users')
      OBVIOUS
    <2> HIDE DEF d
    <2>4. proc'[q] \in RequestRow /\ proc'[q].dead = d /\ SameRequest(q)
      BY <2>1, <2>2, <2>3 DEF RequestRow, SameRequest
    <2>5. ASSUME NEW f \in d
          PROVE  Flawed(f, proc[q].cred, users)'
      BY <1>1, <2>3, <2>4 DEF Flawed, OwnerGone, SameRequest
    <2> QED BY <2>4, <2>5
  <1>7. proc' \in [Procs -> RequestRow]
    BY <1>5, <1>6
  <1>8. IdentityTypeOK'
    BY <1>1, <1>4, <1>7 DEF IdentityInv, IdentityTypeOK
  <1>9. TablesGrow
    <2>1. \A u \in Users : Exists(users, u) => Exists(users, u)'
      BY <1>3, <1>4, IdentityAssumption DEF Exists
    <2> QED BY <1>1, <1>4, <2>1 DEF TablesGrow
  <1>10. TableInv'
    <2>1. ASSUME NEW u \in Users, Exists(users, u)'
          PROVE  EffectiveScopes(users[u])' \subseteq held'[u]
      <3>1. CASE u = v
        BY <1>4, <3>1 DEF EffectiveScopes, SystemAdmin
      <3>2. CASE u # v
        BY <1>4, <2>1, <3>2 DEF EffectiveScopes, SystemAdmin, IdentityInv, TableInv, Exists
      <3> QED BY <3>1, <3>2
    <2>2. /\ \A t \in Tokens : Exists(tokens, t)' => Exists(tokens, t)
          /\ \A k \in Keys : Exists(keys, k)' => Exists(keys, k)
      BY <1>1 DEF Exists
    <2> QED BY <1>8, <1>9, <2>1, <2>2, TableStable
  <1>11. RequestInv'
    <2> SUFFICES ASSUME NEW q \in Procs
                 PROVE  /\ CredentialInv(proc[q])'
                        /\ CallerInv(proc[q])'
                        /\ WriteInv(q, proc[q])'
      BY DEF RequestInv
    <2>1. CredentialInv(proc[q])' /\ CallerInv(proc[q])'
      BY <1>6, <1>9, CredentialStable, CallerStable
    <2>2. proc[q].write.table = "users" => users'[proc[q].write.id] = users[proc[q].write.id]
      <3>1. proc[q].write \in WriteRow /\ WriteInv(q, proc[q])
        BY DEF IdentityInv, IdentityTypeOK, RequestInv, RequestRow
      <3>2. proc[q].write.table = "users" =>
               proc[q].write.id \in Users /\ ~Exists(users, proc[q].write.id)
        BY <3>1, WriteRows, NoWriteRow DEF WriteInv, ChangeInv, AuditedInv
      <3> QED BY <1>2, <1>4, <3>2
    <2>3. WriteInv(q, proc[q])'
      BY <1>1, <1>6, <1>9, <2>2, WriteStable
    <2> QED BY <2>1, <2>3
  <1>12. ExclusiveInv'
    BY <1>1, <1>6 DEF IdentityInv, ExclusiveInv, Exists, SameRequest
  <1>13. ChainInv'
    BY <1>1, <1>6 DEF IdentityInv, ChainInv, AuditChainIntact, At, SameRequest
  <1>14. BootInv'
    BY <1>1, BootKept DEF IdentityInv
  <1>15. ChangesAreAudited'
    <2>1. \A q \in Procs : Owed(q)' = Owed(q)
      BY <1>6 DEF Owed, SameRequest
    <2>2. UNION {Owed(q)' : q \in Procs} = UNION {Owed(q) : q \in Procs}
      BY <2>1
    <2>3. \A a, o : Recorded(a, o) => Recorded(a, o)'
      BY <1>1, <2>2 DEF Recorded
    <2>4. \A u \in Users : Exists(users, u)' => Exists(users, u)
      BY <1>2, <1>4 DEF Exists
    <2> QED BY <1>1, <2>3, <2>4 DEF IdentityInv, ChangesAreAudited, Exists
  <1> QED BY <1>8, <1>10, <1>11, <1>12, <1>13, <1>14, <1>15 DEF IdentityInv

-----------------------------------------------------------------------------
(* Commits *)

\* What a transaction that commits writes.
LEMMA PendingWrite ==
    ASSUME IdentityInv, NEW p \in Procs
    PROVE  /\ proc[p].write \in WriteRow
           /\ proc[p].write.table = "users" => ~Exists(users, proc[p].write.id)
           /\ proc[p].write.table = "tokens" =>
                 ~Exists(tokens, proc[p].write.id) /\ Exists(users, proc[p].write.value.sub)
           /\ proc[p].write.table = "keys" =>
                 \/ ~Exists(keys, proc[p].write.id) /\ Grounded(proc[p].write.value)
                 \/ /\ Exists(keys, proc[p].write.id)
                    /\ proc[p].write.value = [keys[proc[p].write.id] EXCEPT !.revoked = TRUE]
  <1>1. proc[p] \in RequestRow /\ WriteInv(p, proc[p])
    BY DEF IdentityInv, IdentityTypeOK, RequestInv
  <1>2. proc[p].pc \notin {"change", "append", "commit"} => proc[p].write.table = "none"
    BY <1>1, NoWriteRow DEF WriteInv
  <1>3. proc[p].pc \in {"append", "commit"} =>
           /\ proc[p].write.table \in {"none", "users", "tokens"}
           /\ proc[p].write.table = "users" => ~Exists(users, proc[p].write.id)
           /\ proc[p].write.table = "tokens" =>
                 ~Exists(tokens, proc[p].write.id) /\ Exists(users, proc[p].write.value.sub)
    BY <1>1, NoWriteRow DEF WriteInv, AuditedInv
  <1>4. proc[p].pc = "change" =>
           ChangeInv(proc[p].write, proc[p].event.action, proc[p].event.object)
    BY <1>1 DEF WriteInv
  <1>5. proc[p].write \in WriteRow
    BY <1>1 DEF RequestRow
  <1> QED BY <1>2, <1>3, <1>4, <1>5 DEF ChangeInv

\* The tables after the commit, row by row.
LEMMA ApplyEffect ==
    ASSUME IdentityInv, NEW p \in Procs, Apply(p), NEW w, w = proc[p].write
    PROVE  /\ users' \in [Users -> UserRow \cup {Nobody}]
           /\ \A u \in Users :
                 users'[u] = IF w.table = "users" /\ u = w.id THEN w.value ELSE users[u]
           /\ tokens' \in [Tokens -> TokenRow \cup {Nobody}]
           /\ \A t \in Tokens :
                 tokens'[t] = IF w.table = "tokens" /\ t = w.id THEN w.value ELSE tokens[t]
           /\ keys' \in [Keys -> KeyRow \cup {Nobody}]
           /\ \A k \in Keys :
                 keys'[k] = IF w.table = "keys" /\ k = w.id THEN w.value ELSE keys[k]
           /\ revoked \subseteq revoked' /\ revoked' \subseteq Tokens
           /\ held' \in [Users -> SUBSET (Scopes \cup {"*"})]
           /\ \A u \in Users : held[u] \subseteq held'[u]
           /\ w.table = "users" => EffectiveScopes(w.value) \subseteq held'[w.id]
           /\ founded' \in BOOLEAN
  <1>1. w \in WriteRow
    BY PendingWrite
  <1>2. /\ w.table = "users" => w.id \in Users /\ w.value \in UserRow
        /\ w.table = "tokens" => w.id \in Tokens /\ w.value \in TokenRow
        /\ w.table = "keys" => w.id \in Keys /\ w.value \in KeyRow
        /\ w.table = "revoked" => w.id \in Tokens
    BY <1>1, WriteRows
  <1>3. /\ users' = Put(users, "users", w) /\ tokens' = Put(tokens, "tokens", w)
        /\ keys' = Put(keys, "keys", w) /\ held' = Entitled(w)
        /\ revoked' = IF w.table = "revoked" THEN revoked \cup {w.id} ELSE revoked
        /\ founded' \in BOOLEAN
    BY DEF Apply
  <1>4. /\ users' \in [Users -> UserRow \cup {Nobody}]
        /\ \A u \in Users :
              users'[u] = IF w.table = "users" /\ u = w.id THEN w.value ELSE users[u]
    BY <1>2, <1>3 DEF Put, IdentityInv, IdentityTypeOK
  <1>5. /\ tokens' \in [Tokens -> TokenRow \cup {Nobody}]
        /\ \A t \in Tokens :
              tokens'[t] = IF w.table = "tokens" /\ t = w.id THEN w.value ELSE tokens[t]
    BY <1>2, <1>3 DEF Put, IdentityInv, IdentityTypeOK
  <1>6. /\ keys' \in [Keys -> KeyRow \cup {Nobody}]
        /\ \A k \in Keys :
              keys'[k] = IF w.table = "keys" /\ k = w.id THEN w.value ELSE keys[k]
    BY <1>2, <1>3 DEF Put, IdentityInv, IdentityTypeOK
  <1>7. revoked \subseteq revoked' /\ revoked' \subseteq Tokens
    BY <1>2, <1>3 DEF IdentityInv, IdentityTypeOK
  <1>8. /\ held' \in [Users -> SUBSET (Scopes \cup {"*"})]
        /\ \A u \in Users : held[u] \subseteq held'[u]
        /\ w.table = "users" => EffectiveScopes(w.value) \subseteq held'[w.id]
    <2>1. CASE w.table = "users"
      <3>1. EffectiveScopes(w.value) \subseteq Scopes \cup {"*"}
        BY <1>2, <2>1, ScopesOfUser
      <3> QED BY <1>2, <1>3, <2>1, <3>1 DEF Entitled, IdentityInv, IdentityTypeOK
    <2>2. CASE w.table # "users"
      BY <1>3, <2>2 DEF Entitled, IdentityInv, IdentityTypeOK
    <2> QED BY <2>1, <2>2
  <1> QED BY <1>3, <1>4, <1>5, <1>6, <1>7, <1>8

\* A commit only adds to the tables, and leaves the other requests alone.
LEMMA CommitStep ==
    ASSUME IdentityInv, NEW p \in Procs, Apply(p), OnlyRequest(p), expired' = expired,
           cache' \in [Procs -> SUBSET Tokens], audit' \in Seq(AuditRow),
           chainLock' \in Procs \cup {Nobody}, bootLock' \in Procs \cup {Nobody},
           \A q \in Procs : q # p => (bootLock = q => bootLock' = q /\ founded' = founded)
    PROVE  /\ IdentityTypeOK' /\ TablesGrow /\ TableInv'
           /\ \A u \in Users : Exists(users, u) => users'[u] = users[u]
           /\ \A q \in Procs : q # p => /\ CredentialInv(proc[q])'
                                        /\ CallerInv(proc[q])'
                                        /\ WriteInv(q, proc[q])'
  <1> DEFINE w == proc[p].write
  <1>0. IdentityInv /\ IdentityTypeOK
    BY DEF IdentityInv
  <1>1. IdentityTypeOK'
    BY ApplyEffect DEF OnlyRequest, IdentityInv, IdentityTypeOK
  <1>2. \A u \in Users : Exists(users, u) => users'[u] = users[u]
    <2>1. \A u \in Users :
             users'[u] = IF w.table = "users" /\ u = w.id THEN w.value ELSE users[u]
      BY ApplyEffect
    <2> QED BY <2>1, PendingWrite
  <1>3. \A t \in Tokens : Exists(tokens, t) => tokens'[t] = tokens[t]
    <2>1. \A t \in Tokens :
             tokens'[t] = IF w.table = "tokens" /\ t = w.id THEN w.value ELSE tokens[t]
      BY ApplyEffect
    <2> QED BY <2>1, PendingWrite
  <1>4. \A k \in Keys : Exists(keys, k) =>
           keys'[k] \in {keys[k], [keys[k] EXCEPT !.revoked = TRUE]}
    <2>1. \A k \in Keys :
             keys'[k] = IF w.table = "keys" /\ k = w.id THEN w.value ELSE keys[k]
      BY ApplyEffect
    <2> QED BY <2>1, PendingWrite
  <1>5. TablesGrow
    <2>1. \A u \in Users : Exists(users, u) => Exists(users, u)'
      BY <1>2 DEF Exists
    <2> QED BY <1>3, <1>4, <2>1, ApplyEffect DEF TablesGrow
  <1>6. TableInv'
    <2>1. ASSUME NEW u \in Users, Exists(users, u)'
          PROVE  EffectiveScopes(users[u])' \subseteq held'[u]
      <3>1. CASE w.table = "users" /\ u = w.id
        <4>1. \A v \in Users :
                 users'[v] = IF w.table = "users" /\ v = w.id THEN w.value ELSE users[v]
          BY ApplyEffect
        <4>2. users'[u] = w.value
          BY <3>1, <4>1
        <4>3. w.table = "users" => EffectiveScopes(w.value) \subseteq held'[w.id]
          BY ApplyEffect
        <4>4. EffectiveScopes(w.value) \subseteq held'[u]
          BY <3>1, <4>3
        <4> QED BY <4>2, <4>4 DEF EffectiveScopes, SystemAdmin
      <3>2. CASE ~(w.table = "users" /\ u = w.id)
        <4>a. \A v \in Users :
                 users'[v] = IF w.table = "users" /\ v = w.id THEN w.value ELSE users[v]
          BY ApplyEffect
        <4>b. \A v \in Users : held[v] \subseteq held'[v]
          BY ApplyEffect
        <4>1. users'[u] = users[u] /\ held[u] \subseteq held'[u]
          BY <3>2, <4>a, <4>b
        <4> QED BY <2>1, <4>1 DEF EffectiveScopes, SystemAdmin, IdentityInv, TableInv, Exists
      <3> QED BY <3>1, <3>2
    <2>2. ASSUME NEW t \in Tokens, Exists(tokens, t)'
          PROVE  Exists(tokens, t) \/ Exists(users, tokens'[t].sub)
      <3>1. tokens'[t] = IF w.table = "tokens" /\ t = w.id THEN w.value ELSE tokens[t]
        BY ApplyEffect
      <3> QED BY <2>2, <3>1, PendingWrite DEF Exists
    <2>3. ASSUME NEW k \in Keys, Exists(keys, k)'
          PROVE  Exists(keys, k) \/ Grounded(keys'[k])
      <3>1. keys'[k] = IF w.table = "keys" /\ k = w.id THEN w.value ELSE keys[k]
        BY ApplyEffect
      <3>2. CASE w.table = "keys" /\ k = w.id
        BY <3>1, <3>2, PendingWrite
      <3>3. CASE ~(w.table = "keys" /\ k = w.id)
        BY <2>3, <3>1, <3>3 DEF Exists
      <3> QED BY <3>2, <3>3
    <2> QED BY <1>1, <1>5, <2>1, <2>2, <2>3, TableStable
  <1>7. ASSUME NEW q \in Procs, q # p
        PROVE  CredentialInv(proc[q])' /\ CallerInv(proc[q])' /\ WriteInv(q, proc[q])'
    <2>1. SameRequest(q) /\ proc'[q] = proc[q]
      BY <1>7 DEF OnlyRequest, SameRequest
    <2>2. \A f \in proc'[q].dead : Flawed(f, proc[q].cred, users)'
      BY <1>2, <1>5, <2>1, FlawStable
    <2>3. CredentialInv(proc[q])' /\ CallerInv(proc[q])'
      BY <1>5, <2>1, <2>2, CredentialStable, CallerStable
    <2>4. /\ proc[q].write \in WriteRow
          /\ ~(/\ w.table = proc[q].write.table /\ w.id = proc[q].write.id
               /\ \/ w.table \in {"users", "tokens"}
                  \/ w.table = "keys" /\ ~Exists(keys, w.id))
      BY <1>7, PendingWrite DEF IdentityInv, ExclusiveInv
    <2>5. /\ proc[q].write.table = "users" => proc[q].write.id \in Users
          /\ proc[q].write.table = "tokens" => proc[q].write.id \in Tokens
          /\ proc[q].write.table = "keys" => proc[q].write.id \in Keys
      BY <2>4, WriteRows
    <2>6. proc[q].write.table = "users" => users'[proc[q].write.id] = users[proc[q].write.id]
      BY <2>4, <2>5, ApplyEffect
    <2>7. proc[q].write.table = "tokens" => tokens'[proc[q].write.id] = tokens[proc[q].write.id]
      BY <2>4, <2>5, ApplyEffect
    <2>8. proc[q].write.table = "keys" /\ ~Exists(keys, proc[q].write.id) =>
             keys'[proc[q].write.id] = keys[proc[q].write.id]
      BY <2>4, <2>5, ApplyEffect
    <2>9. bootLock = q => bootLock' = q /\ founded' = founded
      BY <1>7
    <2>10. WriteInv(q, proc[q])'
      BY <1>5, <2>1, <2>6, <2>7, <2>8, <2>9, WriteStable
    <2> QED BY <2>3, <2>10
  <1> QED BY <1>1, <1>2, <1>5, <1>6, <1>7

\* A change commits; its event is owed from here on.
LEMMA CommitChangeKeeps ==
    ASSUME IdentityInv, NEW p \in Procs, CommitChange(p)
    PROVE  IdentityInv'
  <1> DEFINE r == proc[p]
             w == r.write
             a == r.event.action
             o == r.event.object
             n == [r EXCEPT !.pc = "append", !.write = NoWrite]
  <1>1. r \in RequestRow /\ r.pc = "change"
    BY DEF IdentityInv, IdentityTypeOK, CommitChange, At
  <1>2. CredentialInv(r) /\ CallerInv(r) /\ r.event \in EventRow /\ ChangeInv(w, a, o)
    BY <1>1 DEF IdentityInv, RequestInv, WriteInv
  <1>3. n \in RequestRow /\ n.pc = "append" /\ n.cred = r.cred /\ n.dead = r.dead
        /\ n.who = r.who /\ n.write = NoWrite /\ n.event = r.event
    BY <1>1, NoWriteRow DEF RequestRow
  <1>4. proc' = [proc EXCEPT ![p] = n]
    BY DEF CommitChange
  <1> HIDE DEF n
  <1>5. OnlyRequest(p) /\ proc'[p] = n
    BY <1>3, <1>4, FreshRequest
  <1>6. Apply(p) /\ UNCHANGED <<expired, audit, chainLock, bootLock, lost>>
    BY DEF CommitChange
  <1>7. a # "BOOTSTRAP_COMPLETE" /\ w \in WriteRow
    BY <1>2, PendingWrite DEF ChangeInv
  <1>8. founded' = founded
    BY <1>6, <1>7 DEF Apply, IdentityInv, IdentityTypeOK
  <1>9. cache' \in [Procs -> SUBSET Tokens]
    <2>1. w.table = "revoked" => w.id \in Tokens
      BY <1>7, WriteRows
    <2> QED BY <2>1 DEF CommitChange, IdentityInv, IdentityTypeOK
  <1>10. /\ IdentityTypeOK' /\ TablesGrow /\ TableInv'
         /\ \A u \in Users : Exists(users, u) => users'[u] = users[u]
         /\ \A q \in Procs : q # p => /\ CredentialInv(proc[q])'
                                      /\ CallerInv(proc[q])'
                                      /\ WriteInv(q, proc[q])'
    <2>1. audit' \in Seq(AuditRow) /\ chainLock' \in Procs \cup {Nobody}
          /\ bootLock' \in Procs \cup {Nobody}
      BY <1>6 DEF IdentityInv, IdentityTypeOK
    <2> QED BY <1>5, <1>6, <1>8, <1>9, <2>1, CommitStep
  <1>11. CredentialInv(proc[p])' /\ CallerInv(proc[p])' /\ WriteInv(p, proc[p])'
    <2>2. \A f \in proc'[p].dead : Flawed(f, proc[p].cred, users)'
      BY <1>3, <1>5, <1>10, FlawStable
    <2>3. CredentialInv(proc[p])'
      <3>1. r.cred \in Tokens => Exists(tokens, r.cred)'
        BY <1>2, <1>3, <1>5, <1>10, TokenGrows DEF CredentialInv, Exists
      <3>2. r.cred \in Keys => Exists(keys, r.cred)'
        BY <1>2, <1>3, <1>5, <1>10, KeyGrows DEF CredentialInv, IdentityInv, Exists
      <3> QED BY <1>2, <1>3, <1>5, <2>2, <3>1, <3>2 DEF CredentialInv
    <2>4. CallerInv(proc[p])'
      <3>1. CASE r.who = Nobody
        BY <1>3, <1>5, <3>1 DEF CallerInv
      <3>2. CASE r.who # Nobody
        <4>1. r.who.id \in Users
          BY <1>1, <3>2 DEF RequestRow, PrincipalRow
        <4>2. users'[r.who.id] # Nobody /\ held[r.who.id] \subseteq held'[r.who.id]
          BY <1>2, <1>10, <3>2, <4>1 DEF TablesGrow, CallerInv, Exists
        <4>3. r.cred \in Keys => keys'[r.cred].scopes = keys[r.cred].scopes
          BY <1>2, <1>10, KeyGrows DEF CredentialInv, IdentityInv
        <4> QED BY <1>2, <1>3, <1>5, <3>2, <4>2, <4>3 DEF CallerInv, Exists
      <3> QED BY <3>1, <3>2
    <2>5. WriteInv(p, proc[p])'
      BY <1>2, <1>3, <1>5, <1>7 DEF WriteInv, AuditedInv
    <2> QED BY <2>3, <2>4, <2>5
  <1>12. RequestInv'
    BY <1>10, <1>11 DEF RequestInv
  <1>13. ExclusiveInv'
    <2> SUFFICES ASSUME NEW x \in Procs, NEW y \in Procs, x # y,
                        proc'[x].write.table = proc'[y].write.table,
                        proc'[x].write.id = proc'[y].write.id
                 PROVE  \/ proc'[x].write.table \in {"none", "revoked"}
                        \/ proc'[x].write.table = "keys" /\ Exists(keys, proc[x].write.id)'
      BY DEF ExclusiveInv
    <2>1. CASE x = p \/ y = p
      BY <1>3, <1>5, <2>1, NoWriteRow
    <2>2. CASE x # p /\ y # p
      <3>1. proc'[x] = proc[x] /\ proc'[y] = proc[y]
        BY <1>5, <2>2 DEF OnlyRequest
      <3>2. CASE proc[x].write.table = "keys" /\ Exists(keys, proc[x].write.id)
        <4>1. proc[x].write.id \in Keys
          BY <3>2, PendingWrite, WriteRows
        <4>2. keys'[proc[x].write.id] # Nobody
          BY <1>10, <3>2, <4>1, KeyGrows DEF IdentityInv, Exists
        <4> QED BY <3>1, <3>2, <4>2 DEF Exists
      <3> QED BY <3>1, <3>2 DEF IdentityInv, ExclusiveInv
    <2> QED BY <2>1, <2>2
  <1>14. ChainInv'
    <2>1. \A q \in Procs : q # p => proc'[q] = proc[q]
      BY <1>5 DEF OnlyRequest
    <2>2. proc'[p].pc = "append" /\ chainLock # p
      BY <1>1, <1>3, <1>5 DEF IdentityInv, ChainInv, At
    <2> QED BY <1>6, <2>1, <2>2 DEF IdentityInv, ChainInv, AuditChainIntact, At
  <1>15. BootInv'
    BY <1>6, <1>8, BootKept DEF IdentityInv
  <1>16. ChangesAreAudited'
    <2>1. Owed(p) = {} /\ Owed(p)' = {<<a, o>>}
      BY <1>1, <1>3, <1>5 DEF Owed
    <2>2. \A q \in Procs : q # p => Owed(q) = Owed(q)'
      BY <1>5 DEF OnlyRequest, Owed
    <2>3. UNION {Owed(q) : q \in Procs} \subseteq UNION {Owed(q)' : q \in Procs}
          /\ <<a, o>> \in UNION {Owed(q)' : q \in Procs}
      BY <2>1, <2>2
    <2>4. \A x, y : Recorded(x, y) => Recorded(x, y)'
      BY <1>6, <2>3 DEF Recorded
    <2>5. \A x, y : x = a /\ y = o => Recorded(x, y)'
      BY <2>3 DEF Recorded
    <2>6. ASSUME NEW u \in Users, Exists(users, u)'
          PROVE  Recorded("USER_CREATED", u)' \/ Recorded("BOOTSTRAP_COMPLETE", u)'
      <3>1. users'[u] = IF w.table = "users" /\ u = w.id THEN w.value ELSE users[u]
        BY <1>6, ApplyEffect
      <3>2. CASE w.table = "users" /\ u = w.id
        BY <1>2, <2>5, <3>2 DEF ChangeInv
      <3>3. CASE ~(w.table = "users" /\ u = w.id)
        BY <2>4, <2>6, <3>1, <3>3 DEF IdentityInv, ChangesAreAudited, Exists
      <3> QED BY <3>2, <3>3
    <2>7. ASSUME NEW k \in Keys, Exists(keys, k)'
          PROVE  /\ Recorded("API_KEY_CREATED", k)'
                 /\ keys'[k].revoked => Recorded("API_KEY_REVOKED", k)'
      <3>1. keys'[k] = IF w.table = "keys" /\ k = w.id THEN w.value ELSE keys[k]
        BY <1>6, ApplyEffect
      <3>2. CASE w.table = "keys" /\ k = w.id /\ ~Exists(keys, k)
        BY <1>2, <2>5, <3>1, <3>2 DEF ChangeInv
      <3>3. CASE w.table = "keys" /\ k = w.id /\ Exists(keys, k)
        <4>1. Recorded("API_KEY_CREATED", k)
          BY <3>3 DEF IdentityInv, ChangesAreAudited
        <4>2. a = "API_KEY_REVOKED" /\ o = k
          BY <1>2, <3>3 DEF ChangeInv
        <4> QED BY <2>4, <2>5, <4>1, <4>2
      <3>4. CASE ~(w.table = "keys" /\ k = w.id)
        BY <2>4, <2>7, <3>1, <3>4 DEF IdentityInv, ChangesAreAudited, Exists
      <3> QED BY <3>2, <3>3, <3>4
    <2> QED BY <2>6, <2>7 DEF ChangesAreAudited
  <1> QED BY <1>10, <1>12, <1>13, <1>14, <1>15, <1>16 DEF IdentityInv

\* What a commit appends is the last event of the chain.
LEMMA AppendEffect ==
    ASSUME NEW e \in AuditRow, audit \in Seq(AuditRow), audit' = Append(audit, e)
    PROVE  /\ audit' \in Seq(AuditRow) /\ Len(audit') = Len(audit) + 1
           /\ Len(audit) \in Nat
           /\ \A i \in 1..Len(audit) : audit'[i] = audit[i]
           /\ audit'[Len(audit) + 1] = e
  OBVIOUS

\* A transaction commits with its event: the chain is one event longer, and
\* the request is done.
LEMMA CommitAuditedKeeps ==
    ASSUME IdentityInv, NEW p \in Procs, CommitAudited(p)
    PROVE  IdentityInv'
  <1> DEFINE r == proc[p]
             w == r.write
             e == r.event
             L == Len(audit)
  <1>1. r \in RequestRow /\ r.pc = "commit" /\ audit \in Seq(AuditRow)
    BY DEF IdentityInv, IdentityTypeOK, CommitAudited, At
  <1>2. /\ chainLock = p /\ e \in AuditRow /\ e.seq = L + 1 /\ e.prev = L
        /\ AuditedInv(p, w, e.action, e.object)
    BY <1>1 DEF IdentityInv, ChainInv, RequestInv, WriteInv, At
  <1>3. OnlyRequest(p) /\ proc'[p] = Idle
    BY IdleRow, FreshRequest DEF CommitAudited, Answer
  <1>4. proc'[p].pc = "idle" /\ proc'[p].cred = Nobody /\ proc'[p].dead = {}
        /\ proc'[p].who = Nobody /\ proc'[p].write = NoWrite
    BY <1>3 DEF Idle
  <1>5. Apply(p) /\ UNCHANGED <<cache, expired, lost>> /\ audit' = Append(audit, e)
    BY DEF CommitAudited
  <1>6. /\ audit' \in Seq(AuditRow) /\ Len(audit') = L + 1 /\ L \in Nat
        /\ \A i \in 1..L : audit'[i] = audit[i]
        /\ audit'[L + 1] = e
    BY <1>1, <1>2, <1>5, AppendEffect
  <1>7. /\ chainLock' = Nobody /\ bootLock' \in Procs \cup {Nobody}
        /\ \A q \in Procs : q # p => (bootLock = q => bootLock' = q)
    BY <1>2, IdentityAssumption DEF CommitAudited, ReleaseLocks, IdentityInv, IdentityTypeOK
  <1>8. founded' = (founded \/ e.action = "BOOTSTRAP_COMPLETE")
    BY <1>2, <1>5, NoWriteRow DEF Apply, AuditedInv
  <1>9. e.action = "BOOTSTRAP_COMPLETE" => bootLock = p /\ ~founded /\ w.table = "users" /\ e.object = w.id
    BY <1>2 DEF AuditedInv
  <1>10. /\ IdentityTypeOK' /\ TablesGrow /\ TableInv'
         /\ \A q \in Procs : q # p => /\ CredentialInv(proc[q])'
                                      /\ CallerInv(proc[q])'
                                      /\ WriteInv(q, proc[q])'
    <2>1. \A q \in Procs : q # p => (bootLock = q => bootLock' = q /\ founded' = founded)
      BY <1>7, <1>8, <1>9 DEF IdentityInv, IdentityTypeOK
    <2>2. cache' \in [Procs -> SUBSET Tokens] /\ expired' = expired
      BY <1>5 DEF IdentityInv, IdentityTypeOK
    <2> QED BY <1>3, <1>5, <1>6, <1>7, <2>1, <2>2, CommitStep
  <1>11. CredentialInv(proc[p])' /\ CallerInv(proc[p])' /\ WriteInv(p, proc[p])'
    BY <1>4, IdentityAssumption DEF CredentialInv, CallerInv, WriteInv
  <1>12. RequestInv'
    BY <1>10, <1>11 DEF RequestInv
  <1>13. ExclusiveInv'
    <2> SUFFICES ASSUME NEW x \in Procs, NEW y \in Procs, x # y,
                        proc'[x].write.table = proc'[y].write.table,
                        proc'[x].write.id = proc'[y].write.id
                 PROVE  \/ proc'[x].write.table \in {"none", "revoked"}
                        \/ proc'[x].write.table = "keys" /\ Exists(keys, proc[x].write.id)'
      BY DEF ExclusiveInv
    <2>1. CASE x = p \/ y = p
      BY <1>4, <2>1, NoWriteRow
    <2>2. CASE x # p /\ y # p
      <3>1. proc'[x] = proc[x] /\ proc'[y] = proc[y]
        BY <1>3, <2>2 DEF OnlyRequest
      <3>2. CASE proc[x].write.table = "keys" /\ Exists(keys, proc[x].write.id)
        <4>1. proc[x].write.id \in Keys
          BY <3>2, PendingWrite, WriteRows
        <4>2. keys'[proc[x].write.id] # Nobody
          BY <1>10, <3>2, <4>1, KeyGrows DEF IdentityInv, Exists
        <4> QED BY <3>1, <3>2, <4>2 DEF Exists
      <3> QED BY <3>1, <3>2 DEF IdentityInv, ExclusiveInv
    <2> QED BY <2>1, <2>2
  <1>14. ChainInv'
    <2>1. \A q \in Procs : proc'[q].pc # "commit"
      <3>1. ASSUME NEW q \in Procs, q # p
            PROVE  proc[q].pc # "commit"
        BY <1>2, <3>1 DEF IdentityInv, ChainInv, At
      <3> QED BY <1>3, <1>4, <3>1 DEF OnlyRequest
    <2>2. AuditChainIntact'
      <3> SUFFICES ASSUME NEW i \in 1..(L + 1)
                   PROVE  audit'[i].seq = i /\ audit'[i].prev = i - 1
        BY <1>6 DEF AuditChainIntact
      <3>1. CASE i = L + 1
        BY <1>2, <1>6, <3>1
      <3>2. CASE i # L + 1
        <4>1. i \in 1..L
          BY <1>6, <3>2
        <4> QED BY <1>6, <4>1 DEF IdentityInv, ChainInv, AuditChainIntact
      <3> QED BY <3>1, <3>2
    <2>3. \A q \in Procs : chainLock' # q
      BY <1>7, IdentityAssumption
    <2> QED BY <2>1, <2>2, <2>3 DEF ChainInv, At
  <1>15. BootInv'
    <2>1. CASE e.action = "BOOTSTRAP_COMPLETE"
      <3>1. founded' /\ \A j \in 1..L : audit[j].action # "BOOTSTRAP_COMPLETE"
        BY <1>8, <1>9, <2>1 DEF IdentityInv, BootInv
      <3>2. L + 1 \in 1..(L + 1)
        BY <1>6
      <3>3. \A j \in 1..(L + 1) : audit'[j].action = "BOOTSTRAP_COMPLETE" <=> j = L + 1
        <4> SUFFICES ASSUME NEW j \in 1..(L + 1)
                     PROVE  audit'[j].action = "BOOTSTRAP_COMPLETE" <=> j = L + 1
          OBVIOUS
        <4>1. CASE j = L + 1
          BY <1>6, <2>1, <4>1
        <4>2. CASE j # L + 1
          <5>1. j \in 1..L
            BY <1>6, <4>2
          <5> QED BY <1>6, <3>1, <4>2, <5>1
        <4> QED BY <4>1, <4>2
      <3> QED BY <1>6, <3>1, <3>2, <3>3 DEF BootInv
    <2>2. CASE e.action # "BOOTSTRAP_COMPLETE"
      <3>1. founded' = founded
        BY <1>8, <2>2 DEF IdentityInv, IdentityTypeOK
      <3>2. \A j \in 1..(L + 1) : j \in 1..L \/ j = L + 1
        BY <1>6
      <3>3. 1..L \subseteq 1..(L + 1) /\ \A j \in 1..L : j # L + 1
        BY <1>6
      <3>4. CASE founded
        <4>1. PICK i \in 1..L : \A j \in 1..L :
                 audit[j].action = "BOOTSTRAP_COMPLETE" <=> j = i
          BY <3>4 DEF IdentityInv, BootInv
        <4>2. \A j \in 1..(L + 1) : audit'[j].action = "BOOTSTRAP_COMPLETE" <=> j = i
          BY <1>6, <2>2, <3>2, <3>3, <4>1
        <4> QED BY <1>6, <3>1, <3>3, <3>4, <4>2 DEF BootInv
      <3>5. CASE ~founded
        <4>1. \A j \in 1..L : audit[j].action # "BOOTSTRAP_COMPLETE"
          BY <3>5 DEF IdentityInv, BootInv
        <4>2. \A j \in 1..(L + 1) : audit'[j].action # "BOOTSTRAP_COMPLETE"
          BY <1>6, <2>2, <3>2, <4>1
        <4> QED BY <1>6, <3>1, <3>5, <4>2 DEF BootInv
      <3> QED BY <3>4, <3>5
    <2> QED BY <2>1, <2>2
  <1>16. ChangesAreAudited'
    <2>1. \A q \in Procs : q # p => Owed(q) = Owed(q)'
      BY <1>3 DEF OnlyRequest, Owed
    <2>2. \A x \in UNION {Owed(q) : q \in Procs} :
             x \in UNION {Owed(q)' : q \in Procs} \/ x \in Owed(p)
      BY <2>1
    <2>3. \A x \in Owed(p) : x = <<e.action, e.object>>
      BY DEF Owed
    <2>4. L + 1 \in 1..(L + 1) /\ 1..L \subseteq 1..(L + 1)
      BY <1>6
    <2>5. \A x, y : x = e.action /\ y = e.object => Recorded(x, y)'
      BY <1>6, <2>4 DEF Recorded
    <2>6. ASSUME NEW x, NEW y, Recorded(x, y)
          PROVE  Recorded(x, y)'
      <3>1. CASE \E i \in 1..L : audit[i].action = x /\ audit[i].object = y
        <4>1. PICK i \in 1..L : audit[i].action = x /\ audit[i].object = y
          BY <3>1
        <4>2. i \in 1..(L + 1) /\ audit'[i] = audit[i]
          BY <1>6, <2>4
        <4> QED BY <1>6, <4>1, <4>2 DEF Recorded
      <3>2. CASE <<x, y>> \in lost
        BY <1>5, <3>2 DEF Recorded
      <3>3. CASE <<x, y>> \in UNION {Owed(q) : q \in Procs}
        <4>1. CASE <<x, y>> \in UNION {Owed(q)' : q \in Procs}
          BY <4>1 DEF Recorded
        <4>2. CASE <<x, y>> \in Owed(p)
          <5>1. x = e.action /\ y = e.object
            BY <2>3, <4>2
          <5> QED BY <2>5, <5>1
        <4> QED BY <2>2, <3>3, <4>1, <4>2
      <3> QED BY <2>6, <3>1, <3>2, <3>3 DEF Recorded
    <2>7. w.table # "keys"
      BY <1>2, NoWriteRow DEF AuditedInv
    <2>8. ASSUME NEW u \in Users, Exists(users, u)'
          PROVE  Recorded("USER_CREATED", u)' \/ Recorded("BOOTSTRAP_COMPLETE", u)'
      <3>1. users'[u] = IF w.table = "users" /\ u = w.id THEN w.value ELSE users[u]
        BY <1>5, ApplyEffect
      <3>2. CASE w.table = "users" /\ u = w.id
        BY <1>2, <2>5, <3>2, NoWriteRow DEF AuditedInv
      <3>3. CASE ~(w.table = "users" /\ u = w.id)
        BY <2>6, <2>8, <3>1, <3>3 DEF IdentityInv, ChangesAreAudited, Exists
      <3> QED BY <3>2, <3>3
    <2>9. \A k \in Keys : keys'[k] = keys[k]
      BY <1>5, <2>7, ApplyEffect
    <2> QED BY <2>6, <2>8, <2>9 DEF IdentityInv, ChangesAreAudited, Exists
  <1> QED BY <1>10, <1>12, <1>13, <1>14, <1>15, <1>16 DEF IdentityInv

-----------------------------------------------------------------------------
(* The invariant and the properties *)

LEMMA NextKeeps ==
    ASSUME IdentityInv, [IdentityNext]_vars
    PROVE  IdentityInv'
  <1>1. ASSUME NEW p \in Procs, Step(p)
        PROVE  IdentityInv'
    BY <1>1, BootstrapSystemKeeps, DecodeAccessTokenKeeps, GetUserByIdKeeps,
       VerifyApiKeyHashKeeps, BoundUserKeeps, ServeKeeps, LogoutKeeps, CreateUserKeeps,
       CreateApiKeyKeeps, RevokeApiKeyKeeps, InsertAuditEventKeeps, CommitChangeKeeps,
       CommitAuditedKeeps
    DEF Step
  <1>2. ASSUME NEW p \in Procs,
               \/ ReceiveBootstrap(p) \/ Login(p) \/ Receive(p)
               \/ DatabaseError(p) \/ Crash(p)
        PROVE  IdentityInv'
    BY <1>2, ReceiveBootstrapKeeps, LoginKeeps, ReceiveKeeps, DatabaseErrorKeeps, CrashKeeps
  <1>3. CASE OperatorChange
    BY <1>3, OperatorChangeKeeps
  <1>4. CASE Expire
    BY <1>4, ExpireKeeps
  <1>5. CASE UNCHANGED vars
    <2>1. UNCHANGED <<users, founded, tokens, keys, revoked, held, expired, cache, audit,
                      chainLock, bootLock, proc, lost>>
      BY <1>5 DEF vars, tables
    <2>2. IdentityTypeOK' /\ TableInv'
      BY <2>1 DEF IdentityInv, IdentityTypeOK, TableInv, Exists, Grounded, WithinGrant,
                  EffectiveScopes, SystemAdmin
    <2>3. RequestInv'
      <3>1. TablesGrow
        BY <2>1 DEF TablesGrow, Exists
      <3>2. \A q \in Procs : SameRequest(q)
        BY <2>1 DEF SameRequest
      <3>3. \A q \in Procs : \A f \in proc'[q].dead : Flawed(f, proc[q].cred, users)'
        BY <2>1, <3>1, FlawStable
      <3> QED BY <2>1, <3>1, <3>2, <3>3, CredentialStable, CallerStable, WriteStable
              DEF RequestInv
    <2>4. ExclusiveInv' /\ ChainInv'
      BY <2>1 DEF IdentityInv, ExclusiveInv, Exists, ChainInv, AuditChainIntact, At
    <2>5. BootInv' /\ ChangesAreAudited'
      BY <2>1, BootKept DEF IdentityInv, ChangesAreAudited, Recorded, Owed, Exists
    <2> QED BY <2>2, <2>3, <2>4, <2>5 DEF IdentityInv
  <1> QED BY <1>1, <1>2, <1>3, <1>4, <1>5 DEF IdentityNext

\* The invariant holds in every reachable state of the identity service.
THEOREM IdentityInvariant == IdentitySpec => []IdentityInv
  BY InitInv, NextKeeps, PTL DEF IdentitySpec

\* The rows of the tables and of the open requests are well formed: no API key
\* ever carries the wildcard or a scope outside API_KEY_ALLOWED_SCOPES.
THEOREM IdentityTypes == IdentitySpec => []IdentityTypeOK
  <1>1. IdentityInv => IdentityTypeOK
    BY DEF IdentityInv
  <1> QED BY <1>1, IdentityInvariant, PTL

\* get_current_user lets no request through whose credential was revoked,
\* expired or orphaned when it arrived and stayed so for that reason, with any
\* number of processes and of revocations, logouts and restarts in between.
THEOREM DeadCredentialsStayOut == IdentitySpec => []DeadCredentialStaysOut
  <1>1. IdentityInv => DeadCredentialStaysOut
    BY DEF IdentityInv, RequestInv, CredentialInv, DeadCredentialStaysOut
  <1> QED BY <1>1, IdentityInvariant, PTL

\* _insert_audit_event_conn builds one gap-free chain, whatever transactions
\* of however many processes interleave, roll back or crash.
THEOREM ChainStaysIntact == IdentitySpec => []AuditChainIntact
  <1>1. IdentityInv => AuditChainIntact
    BY DEF IdentityInv, ChainInv
  <1> QED BY <1>1, IdentityInvariant, PTL

\* bootstrap_system succeeds once, with its event, however many bootstraps
\* race and whatever becomes of the first administrator.
THEOREM OneBootstrap == IdentitySpec => []BootstrapIsAtomic
  <1>1. IdentityInv => BootstrapIsAtomic
    <2> SUFFICES ASSUME IdentityInv PROVE BootstrapIsAtomic
      OBVIOUS
    <2> DEFINE B == {i \in 1..Len(audit) : audit[i].action = "BOOTSTRAP_COMPLETE"}
    <2>1. CASE founded
      <3>1. PICK i \in 1..Len(audit) : \A j \in 1..Len(audit) :
               audit[j].action = "BOOTSTRAP_COMPLETE" <=> j = i
        BY <2>1 DEF IdentityInv, BootInv
      <3>2. B = {i}
        BY <3>1
      <3>3. Cardinality(B) = 1
        BY <3>2, FS_Singleton
      <3> QED BY <2>1, <3>3 DEF BootstrapIsAtomic
    <2>2. CASE ~founded
      <3>1. B = {}
        BY <2>2 DEF IdentityInv, BootInv
      <3>2. Cardinality(B) = 0
        BY <3>1, FS_EmptySet
      <3> QED BY <2>2, <3>2 DEF BootstrapIsAtomic
    <2> QED BY <2>1, <2>2
  <1> QED BY <1>1, IdentityInvariant, PTL

\* create_api_key never widens a grant, along chains of keys of any length and
\* whatever the operator does to the owners meanwhile.
THEOREM GrantsNeverWiden == IdentitySpec => []KeyWithinGrant
  <1>1. IdentityInv => KeyWithinGrant
    BY DEF IdentityInv, TableInv, Grounded, KeyWithinGrant
  <1> QED BY <1>1, IdentityInvariant, PTL

\* Of the handlers whose change and event are two transactions, none loses
\* the event but to a fault between the two.
THEOREM ChangesLeaveEvents == IdentitySpec => []ChangesAreAudited
  <1>1. IdentityInv => ChangesAreAudited
    BY DEF IdentityInv
  <1> QED BY <1>1, IdentityInvariant, PTL

=============================================================================
