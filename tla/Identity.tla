------------------------------ MODULE Identity ------------------------------
(***************************************************************************)
(* Users, sessions, API keys and the audit chain: core/auth.py,            *)
(* api/auth.py and the identity section of core/db.py.                     *)
(*                                                                         *)
(* Several API processes share one database.  The handlers are coroutines  *)
(* that never suspend, so a process serves one request at a time and the   *)
(* interleavings are those of the processes' transactions.  PostgreSQL is  *)
(* modelled (READ COMMITTED, transaction-scoped advisory locks); SQLite's  *)
(* single write lock allows fewer interleavings.  A refusal that changes   *)
(* nothing durable (401, 403, 404, 429, and the failed login, whose audit  *)
(* event is rolled back with the HTTPException) is the process going idle. *)
(***************************************************************************)
EXTENDS Naturals, Sequences, FiniteSets

CONSTANTS Procs,       \* API server processes
          Users,       \* user rows that may come to exist
          Orgs,        \* tenants
          Home,        \* the tenant bootstrap creates (slug "default")
          Tokens,      \* JWTs that may be issued, by jti
          Keys,        \* API keys that may be created
          Nobody,
          MaxAudit,    \* bound on the audit log
          MaxFaults,   \* bound on crashes and database errors
          MaxChanges   \* bound on operator changes of user rows

VARIABLES users,     \* the users table
          founded,   \* the organization with the unique slug "default" exists
          tokens,    \* issued JWTs: subject and scopes claim
          keys,      \* the api_keys table
          revoked,   \* the revoked_tokens table
          expired,   \* credentials past their expiry
          cache,     \* REVOKED_TOKENS_REGISTRY of each process
          audit,     \* the committed audit_events, by sequence_number
          chainLock, \* advisory lock cyberassess:audit-chain
          bootLock,  \* advisory lock cyberassess:bootstrap
          proc,      \* the request each process serves
          held,      \* history: the scopes a user has ever been entitled to
          lost,      \* history: changes whose audit event a fault swallowed
          faults, changes

tables == <<users, founded, tokens, keys, revoked, held>>
vars == <<tables, expired, cache, audit, chainLock, bootLock, proc,
          lost, faults, changes>>

OnlyTheRequest ==
    UNCHANGED <<tables, expired, cache, audit, chainLock, bootLock,
                lost, faults, changes>>

Creds == Tokens \cup Keys

\* One scope for each way the code tells scopes apart: held by every role,
\* by analysts, by administrators, and outside API_KEY_ALLOWED_SCOPES.
ROLE_BASE_SCOPES ==
    [VIEWER           |-> {"scan:read"},
     SECURITY_ANALYST |-> {"scan:read", "scan:create"},
     ADMIN            |-> {"scan:read", "scan:create", "execution:recovery"}]

Roles == DOMAIN ROLE_BASE_SCOPES
Scopes == UNION {ROLE_BASE_SCOPES[r] : r \in Roles}

API_KEY_ALLOWED_SCOPES == Scopes \ {"execution:recovery"}

\* The rows of the three tables.
UserRow == [role : Roles, org : Orgs, active : BOOLEAN, system : BOOLEAN]
TokenRow == [sub : Users, scopes : SUBSET (Scopes \cup {"*"})]
KeyRow == [owner : Users, org : Orgs, scopes : SUBSET API_KEY_ALLOWED_SCOPES,
           revoked : BOOLEAN, via : Creds]

\* What a request carries: its caller, the row it is about to write and the
\* audit event, which is in the chain's form once it has been inserted.
PrincipalRow == [id : Users, role : Roles, org : Orgs, system : BOOLEAN,
                 scopes : SUBSET (Scopes \cup {"*"})]

WriteRow == [table : {"none"}, id : {Nobody}, value : {Nobody}]
            \cup [table : {"users"}, id : Users, value : UserRow]
            \cup [table : {"tokens"}, id : Tokens, value : TokenRow]
            \cup [table : {"keys"}, id : Keys, value : KeyRow]
            \cup [table : {"revoked"}, id : Tokens, value : {Nobody}]

Actions == {"BOOTSTRAP_COMPLETE", "LOGIN_SUCCESS", "LOGOUT", "USER_CREATED",
            "API_KEY_CREATED", "API_KEY_REVOKED"}

EventRow == [action : Actions, object : Users \cup Keys, org : Orgs]
AuditRow == [seq : Nat, prev : Nat, action : Actions, object : Users \cup Keys,
             org : Orgs]

ASSUME IdentityAssumption ==
    /\ Home \in Orgs
    /\ Tokens \cap Keys = {}
    /\ Nobody \notin Procs \cup Users \cup Orgs \cup Tokens \cup Keys
    /\ Nobody \notin UserRow \cup TokenRow \cup KeyRow \cup PrincipalRow
    /\ {MaxAudit, MaxFaults, MaxChanges} \subseteq Nat

SystemAdmin(u) == u.system /\ u.role = "ADMIN"

\* resolve_effective_scopes without explicit scopes.  The tables hold no
\* extra scopes, so a tenant user's grant is its role's baseline.
EffectiveScopes(u) ==
    IF SystemAdmin(u) THEN {"*"} ELSE ROLE_BASE_SCOPES[u.role]

\* ... and with the scopes claim of a token.
BoundedScopes(u, claim) ==
    IF SystemAdmin(u) /\ "*" \in claim THEN {"*"}
    ELSE claim \cap ROLE_BASE_SCOPES[u.role]

Exists(f, x) == f[x] # Nobody

\* An uncommitted row of the transaction that a process has open.
Row(table, id, value) == [table |-> table, id |-> id, value |-> value]
NoWrite == Row("none", Nobody, Nobody)

Idle == [pc |-> "idle", cred |-> Nobody, dead |-> {},
         who |-> Nobody, write |-> NoWrite, event |-> Nobody]

Event(action, object, org) == [action |-> action, object |-> object, org |-> org]

IdentityInit ==
    /\ users = [u \in Users |-> Nobody]
    /\ founded = FALSE
    /\ tokens = [t \in Tokens |-> Nobody]
    /\ keys = [k \in Keys |-> Nobody]
    /\ revoked = {}
    /\ expired = {}
    /\ cache = [p \in Procs |-> {}]
    /\ audit = <<>>
    /\ chainLock = Nobody
    /\ bootLock = Nobody
    /\ proc = [p \in Procs |-> Idle]
    /\ held = [u \in Users |-> {}]
    /\ lost = {}
    /\ faults = 0
    /\ changes = 0

-----------------------------------------------------------------------------
(* Transactions and the audit chain *)

At(p, pc) == proc[p].pc = pc
Goto(p, pc) == proc' = [proc EXCEPT ![p].pc = pc]

\* The request ends: a response, or an error the framework reports.
Answer(p) == proc' = [proc EXCEPT ![p] = Idle]

Writing(p) == proc[p].pc \in {"boot", "change", "append", "commit"}

\* A request writes at most one event.
Room == Len(audit) + Cardinality({q \in Procs : Writing(q)}) < MaxAudit

\* Plausible slips: the critical section is entered without the lock.
ChainUnguarded == TRUE
BootUnguarded == TRUE

ChainFree == chainLock = Nobody
BootFree == bootLock = Nobody

\* The predecessor of a new event: an event's hash covers its own identity
\* and its predecessor's hash, so sequence numbers stand for hashes as long
\* as no two events share one.
Predecessor == IF audit = <<>> THEN 0 ELSE audit[Len(audit)].seq

\* _insert_audit_event_conn: take the chain lock for the rest of the
\* transaction, then read the predecessor and insert.
InsertAuditEvent(p) ==
    /\ At(p, "append")
    /\ ChainFree
    /\ chainLock' = p
    /\ proc' = [proc EXCEPT ![p].pc = "commit",
                            ![p].event = [seq  |-> Predecessor + 1,
                                          prev |-> Predecessor,
                                          action |-> @.action,
                                          object |-> @.object,
                                          org    |-> @.org]]
    /\ UNCHANGED <<tables, expired, cache, audit, bootLock, lost, faults, changes>>

ReleaseLocks(p) ==
    /\ chainLock' = IF chainLock = p THEN Nobody ELSE chainLock
    /\ bootLock' = IF bootLock = p THEN Nobody ELSE bootLock

Put(f, table, w) ==
    IF w.table = table THEN [f EXCEPT ![w.id] = w.value] ELSE f

\* create_access_token: the claims of a session of u.
AccessToken(u) == [sub |-> u, scopes |-> EffectiveScopes(users[u])]

\* The scopes a committed users row entitles its user to.
Entitled(w) ==
    IF w.table = "users"
    THEN [held EXCEPT ![w.id] = @ \cup EffectiveScopes(w.value)]
    ELSE held

\* The rows of the transaction of p become visible.
Apply(p) == LET w == proc[p].write IN
    /\ founded' = (founded \/ (w # NoWrite /\ proc[p].event.action = "BOOTSTRAP_COMPLETE"))
    /\ users' = Put(users, "users", w)
    /\ tokens' = Put(tokens, "tokens", w)
    /\ keys' = Put(keys, "keys", w)
    /\ revoked' = IF w.table = "revoked" THEN revoked \cup {w.id} ELSE revoked
    /\ held' = Entitled(w)

\* Commit of a transaction that wrote an audit event: the request is done.
CommitAudited(p) ==
    /\ At(p, "commit")
    /\ Apply(p)
    /\ audit' = Append(audit, proc[p].event)
    /\ ReleaseLocks(p)
    /\ Answer(p)
    /\ UNCHANGED <<cache, expired, lost, faults, changes>>

\* The process answers as soon as the change has committed.
CommitChangeUnaudited(p) ==
    /\ At(p, "change")
    /\ Apply(p)
    /\ UNCHANGED cache
    /\ Answer(p)
    /\ UNCHANGED <<expired, audit, chainLock, bootLock, lost, faults, changes>>

\* Commit of a change whose audit event follows in a transaction of its own:
\* create_user, create_api_key, revoke_api_key and logout.  A logout adds
\* the token to the process's own registry only after the durable write.
CommitChange(p) ==
    /\ At(p, "change")
    /\ Apply(p)
    /\ cache' = IF proc[p].write.table = "revoked"
                THEN [cache EXCEPT ![p] = @ \cup {proc[p].write.id}] ELSE cache
    /\ proc' = [proc EXCEPT ![p].pc = "append", ![p].write = NoWrite]
    /\ UNCHANGED <<expired, audit, chainLock, bootLock, lost, faults, changes>>

\* A committed change still waits for its audit event.
Owed(p) ==
    IF proc[p].pc \in {"append", "commit"} /\ proc[p].write = NoWrite
    THEN {<<proc[p].event.action, proc[p].event.object>>} ELSE {}

\* A database error: the open transaction is rolled back and the request
\* fails.  A crash also empties the process's registry.
Fault(p) ==
    /\ faults < MaxFaults
    /\ faults' = faults + 1
    /\ lost' = lost \cup Owed(p)
    /\ ReleaseLocks(p)
    /\ Answer(p)
    /\ UNCHANGED <<tables, expired, audit, changes>>

\* (Outside a writing transaction an error is one more refusal.)
DatabaseError(p) ==
    /\ Writing(p)
    /\ Fault(p)
    /\ UNCHANGED cache

Crash(p) == Fault(p) /\ cache' = [cache EXCEPT ![p] = {}]

-----------------------------------------------------------------------------
(* Bootstrap and login *)

IsInitialized == \E u \in Users : Exists(users, u) /\ users[u].role = "ADMIN"

\* POST /bootstrap: the unlocked check, the production gate and the password
\* policy; what they let through goes on to bootstrap_system.
ReceiveBootstrap(p) ==
    /\ At(p, "idle")
    /\ Room
    /\ ~IsInitialized
    /\ proc' = [proc EXCEPT ![p] = [Idle EXCEPT !.pc = "boot"]]
    /\ OnlyTheRequest

Administrator == [role |-> "ADMIN", org |-> Home, active |-> TRUE, system |-> FALSE]

\* Ids that no committed row and no open transaction uses.
Unissued(f, table) ==
    {x \in DOMAIN f : ~Exists(f, x) /\ \A q \in Procs :
        ~(proc[q].write.table = table /\ proc[q].write.id = x)}

\* bootstrap_system: lock, count the administrators again, insert the
\* organization and the administrator.  The slug is unique: where the only
\* administrator has been demoted the count is zero and the insert raises.
BootstrapSystem(p) ==
    /\ At(p, "boot")
    /\ BootFree
    /\ IF IsInitialized \/ founded
       THEN Answer(p) /\ UNCHANGED bootLock
       ELSE \E u \in Unissued(users, "users") :
              /\ bootLock' = p
              /\ proc' = [proc EXCEPT
                            ![p].pc = "append",
                            ![p].write = Row("users", u, Administrator),
                            ![p].event = Event("BOOTSTRAP_COMPLETE", u, Home)]
    /\ UNCHANGED <<tables, expired, cache, audit, chainLock, lost, faults, changes>>

\* POST /login with the right password: read the user, note the login and
\* append the event in one transaction.  The token leaves the process only
\* after the commit.  Every other outcome leaves no durable trace.
Login(p) ==
    /\ At(p, "idle")
    /\ Room
    /\ \E u \in Users, t \in Unissued(tokens, "tokens") :
         /\ Exists(users, u) /\ users[u].active
         /\ proc' = [proc EXCEPT ![p] =
              [Idle EXCEPT !.pc = "append",
                           !.write = Row("tokens", t, AccessToken(u)),
                           !.event = Event("LOGIN_SUCCESS", u, users[u].org)]]
    /\ OnlyTheRequest

-----------------------------------------------------------------------------
(* Authentication: get_current_user *)

OwnerGone(owner, org) == ~owner.active \/ owner.org # org

\* The ways in which a credential is useless, us being the users table.
\* Nothing but the return of a key's owner to its tenant undoes one.
Flaws == {"expired", "revoked", "owner"}

Flawed(flaw, c, us) ==
    \/ flaw = "expired" /\ c \in expired
    \/ /\ flaw = "revoked"
       /\ IF c \in Tokens THEN c \in revoked ELSE keys[c].revoked
    \/ /\ flaw = "owner"
       /\ IF c \in Tokens
          THEN ~us[tokens[c].sub].active
          ELSE OwnerGone(us[keys[c].owner], keys[c].org)

\* A request for a guarded operation arrives with a bearer token or an API
\* key, never with both.  dead is history: the flaws that the credential had
\* then and has had ever since.
Receive(p) ==
    /\ At(p, "idle")
    /\ \E c \in Creds :
         /\ IF c \in Tokens THEN Exists(tokens, c) ELSE Exists(keys, c)
         /\ proc' = [proc EXCEPT ![p] =
              [Idle EXCEPT !.pc = IF c \in Tokens THEN "decode" ELSE "key",
                           !.cred = c,
                           !.dead = {f \in Flaws : Flawed(f, c, users)}]]
    /\ OnlyTheRequest

\* The process trusts its own registry.
LocallyRevoked(p) == cache[p]

\* The tokens a process refuses as revoked: its own registry, then
\* is_token_revoked on the database.
KnownRevoked(p) == cache[p] \cup revoked

\* decode_access_token: the process's registry, the signature and the
\* claims, then is_token_revoked on the database.
DecodeAccessToken(p) ==
    /\ At(p, "decode")
    /\ IF proc[p].cred \in KnownRevoked(p) \cup expired
       THEN Answer(p) ELSE Goto(p, "user")
    /\ OnlyTheRequest

Principal(u, scopes) ==
    [id |-> u, role |-> users[u].role, org |-> users[u].org,
     system |-> users[u].system, scopes |-> scopes]

Authenticated(p, principal) ==
    proc' = [proc EXCEPT ![p].pc = "handler", ![p].who = principal]

\* get_user_by_id: the subject as it is now, with the token's scopes bounded
\* by its present role.
GetUserById(p) ==
    LET token == tokens[proc[p].cred]
        user  == users[token.sub]
    IN /\ At(p, "user")
       /\ IF user.active
          THEN Authenticated(p, Principal(token.sub, BoundedScopes(user, token.scopes)))
          ELSE Answer(p)
       /\ OnlyTheRequest

\* verify_api_key_hash reads the key and then its owner, in two statements
\* that need not see the same commits.
VerifyApiKeyHash(p) ==
    /\ At(p, "key")
    /\ IF keys[proc[p].cred].revoked \/ proc[p].cred \in expired
       THEN Answer(p) ELSE Goto(p, "owner")
    /\ OnlyTheRequest

BoundUser(p) ==
    LET key == keys[proc[p].cred]
    IN /\ At(p, "owner")
       /\ IF OwnerGone(users[key.owner], key.org)
          THEN Answer(p)
          ELSE Authenticated(p, Principal(key.owner, key.scopes))
       /\ OnlyTheRequest

-----------------------------------------------------------------------------
(* The guarded handlers *)

\* The handlers that write; which one runs depends only on the request.
Handling(p) == At(p, "handler") /\ Room

\* The handler's first transaction writes w, its second the event.
Change(p, w, event) ==
    proc' = [proc EXCEPT ![p].pc = "change", ![p].write = w, ![p].event = event]

RequireAdmin(who) == who.role = "ADMIN"
RequireAnalystOrAdmin(who) == who.role \in {"ADMIN", "SECURITY_ANALYST"}

\* Any other guarded operation, and a request its guard refuses: done.
Serve(p) ==
    /\ At(p, "handler")
    /\ Answer(p)
    /\ OnlyTheRequest

\* POST /logout.  Under an API key there is no bearer token to revoke and
\* only the event is written.
Logout(p) ==
    /\ Handling(p)
    /\ LET who == proc[p].who
           c   == proc[p].cred
       IN IF c \in Tokens
          THEN Change(p, Row("revoked", c, Nobody), Event("LOGOUT", who.id, who.org))
          ELSE proc' = [proc EXCEPT ![p].pc = "append", ![p].write = NoWrite,
                                    ![p].event = Event("LOGOUT", who.id, who.org)]
    /\ OnlyTheRequest

\* POST /users.  A concurrent insert of the same user name waits and fails.
CreateUser(p) ==
    /\ Handling(p)
    /\ RequireAdmin(proc[p].who)
    /\ \E u \in Unissued(users, "users"), role \in Roles, org \in Orgs :
         /\ org = proc[p].who.org \/ SystemAdmin(proc[p].who)
         /\ Change(p, Row("users", u, [role |-> role, org |-> org,
                                       active |-> TRUE, system |-> FALSE]),
                   Event("USER_CREATED", u, org))
    /\ OnlyTheRequest

\* The caller's role decides, whatever its credential is restricted to.
GrantableByRole(who) ==
    IF SystemAdmin(who) /\ "*" \in who.scopes THEN API_KEY_ALLOWED_SCOPES
    ELSE API_KEY_ALLOWED_SCOPES \cap ROLE_BASE_SCOPES[who.role]

\* The scopes a caller may put on a new key.
Grantable(who) ==
    IF SystemAdmin(who) /\ "*" \in who.scopes THEN API_KEY_ALLOWED_SCOPES
    ELSE API_KEY_ALLOWED_SCOPES \cap who.scopes

\* POST /api-keys.  via, the creating credential, is history.
CreateApiKey(p) ==
    LET who == proc[p].who
    IN /\ Handling(p)
       /\ RequireAnalystOrAdmin(who)
       /\ \E k \in Unissued(keys, "keys"), scopes \in SUBSET Grantable(who) \ {{}} :
            Change(p, Row("keys", k, [owner |-> who.id, org |-> who.org,
                                      scopes |-> scopes, revoked |-> FALSE,
                                      via |-> proc[p].cred]),
                   Event("API_KEY_CREATED", k, who.org))
       /\ OnlyTheRequest

\* DELETE /api-keys/{key_id}: any key for the system administrator, the
\* tenant's keys for everybody else.
RevokeApiKey(p) ==
    LET who == proc[p].who
    IN /\ Handling(p)
       /\ RequireAnalystOrAdmin(who)
       /\ \E k \in Keys :
            /\ Exists(keys, k)
            /\ SystemAdmin(who) \/ keys[k].org = who.org
            /\ Change(p, Row("keys", k, [keys[k] EXCEPT !.revoked = TRUE]),
                      Event("API_KEY_REVOKED", k, who.org))
       /\ OnlyTheRequest

-----------------------------------------------------------------------------
(* The environment *)

\* No handler changes a user row: an operator deactivates, demotes, moves or
\* promotes a user in the database.
OperatorChange ==
    /\ changes < MaxChanges
    /\ changes' = changes + 1
    /\ \E u \in Users :
         /\ Exists(users, u)
         /\ \E row \in {[users[u] EXCEPT !.active = FALSE],
                        [users[u] EXCEPT !.role = "VIEWER"],
                        [users[u] EXCEPT !.system = TRUE]}
                       \cup {[users[u] EXCEPT !.org = o] : o \in Orgs} :
              /\ row # users[u]
              /\ users' = [users EXCEPT ![u] = row]
              /\ held' = [held EXCEPT ![u] = @ \cup EffectiveScopes(row)]
    /\ proc' = [p \in Procs |->
                  [proc[p] EXCEPT !.dead =
                     {f \in @ : Flawed(f, proc[p].cred, users')}]]
    /\ UNCHANGED <<founded, tokens, keys, revoked, expired, cache, audit, chainLock,
                   bootLock, lost, faults>>

Expire ==
    /\ changes < MaxChanges
    /\ changes' = changes + 1
    /\ \E c \in Creds \ expired :
         /\ IF c \in Tokens THEN Exists(tokens, c) ELSE Exists(keys, c)
         /\ expired' = expired \cup {c}
    /\ UNCHANGED <<tables, cache, audit, chainLock, bootLock, proc, lost, faults>>

Step(p) ==
    \/ BootstrapSystem(p)
    \/ DecodeAccessToken(p)
    \/ GetUserById(p)
    \/ VerifyApiKeyHash(p)
    \/ BoundUser(p)
    \/ Serve(p)
    \/ Logout(p)
    \/ CreateUser(p)
    \/ CreateApiKey(p)
    \/ RevokeApiKey(p)
    \/ InsertAuditEvent(p)
    \/ CommitChange(p)
    \/ CommitAudited(p)

IdentityNext ==
    \/ \E p \in Procs :
         \/ ReceiveBootstrap(p)
         \/ Login(p)
         \/ Receive(p)
         \/ Step(p)
         \/ DatabaseError(p)
         \/ Crash(p)
    \/ OperatorChange
    \/ Expire

IdentitySpec == IdentityInit /\ [][IdentityNext]_vars

-----------------------------------------------------------------------------
(* Properties *)

RequestRow == [pc : {"idle", "boot", "decode", "user", "key", "owner", "handler",
                     "change", "append", "commit"},
               cred : Creds \cup {Nobody}, dead : SUBSET Flaws,
               who : PrincipalRow \cup {Nobody}, write : WriteRow,
               event : EventRow \cup AuditRow \cup {Nobody}]

\* The tables hold well-formed rows: a key never carries the wildcard or a
\* scope outside the allowlist.
IdentityTypeOK ==
    /\ users \in [Users -> UserRow \cup {Nobody}]
    /\ founded \in BOOLEAN
    /\ tokens \in [Tokens -> TokenRow \cup {Nobody}]
    /\ keys \in [Keys -> KeyRow \cup {Nobody}]
    /\ revoked \subseteq Tokens /\ expired \subseteq Creds
    /\ cache \in [Procs -> SUBSET Tokens]
    /\ audit \in Seq(AuditRow)
    /\ chainLock \in Procs \cup {Nobody} /\ bootLock \in Procs \cup {Nobody}
    /\ proc \in [Procs -> RequestRow]
    /\ held \in [Users -> SUBSET (Scopes \cup {"*"})]

\* A credential that was durably dead when a request arrived (token revoked
\* by another process, key revoked, owner deactivated or moved to another
\* tenant, or expired), and is so for that reason until the request has been
\* answered, never gets the request past get_current_user, whatever the
\* process's own registry says and whatever restarts it saw.
DeadCredentialStaysOut ==
    \A p \in Procs : proc[p].who # Nobody => proc[p].dead = {}

\* verify_audit_log_integrity over the whole log finds no broken link: the
\* concurrent writers of all processes, their rollbacks and their crashes
\* leave one gap-free chain.
AuditChainIntact ==
    \A i \in 1..Len(audit) : audit[i].seq = i /\ audit[i].prev = i - 1

\* bootstrap_system commits the first tenant, its administrator and the
\* BOOTSTRAP_COMPLETE event together and once, also when several bootstraps
\* race, the winner crashes or the administrator is later demoted.
BootstrapIsAtomic ==
    Cardinality({i \in 1..Len(audit) : audit[i].action = "BOOTSTRAP_COMPLETE"})
        = IF founded THEN 1 ELSE 0

\* The row carries no more than the credential it was made with allowed.
WithinGrant(row) ==
    \/ row.via \in Keys /\ row.scopes \subseteq keys[row.via].scopes
    \/ /\ row.via \in Tokens
       /\ row.scopes \subseteq held[row.owner] \/ "*" \in held[row.owner]

\* create_api_key never hands out more than its caller had: a key made with a
\* session lies within what its owner was ever entitled to, a key made with
\* another key within that key, along any chain of keys.
KeyWithinGrant ==
    \A k \in Keys : Exists(keys, k) => WithinGrant(keys[k])

Recorded(action, object) ==
    \/ \E i \in 1..Len(audit) : audit[i].action = action /\ audit[i].object = object
    \/ <<action, object>> \in lost \cup UNION {Owed(p) : p \in Procs}

\* Every user, key and key revocation in the tables has its audit event, or a
\* process is about to write it, or a fault struck between the change and the
\* event: the two transactions of the handlers lose no event otherwise.
ChangesAreAudited ==
    /\ \A u \in Users : Exists(users, u) =>
          Recorded("USER_CREATED", u) \/ Recorded("BOOTSTRAP_COMPLETE", u)
    /\ \A k \in Keys : Exists(keys, k) =>
          /\ Recorded("API_KEY_CREATED", k)
          /\ keys[k].revoked => Recorded("API_KEY_REVOKED", k)

-----------------------------------------------------------------------------
(* The inductive invariant *)

\* A key's owner and the key it was made with are rows of the tables.
Grounded(row) ==
    /\ Exists(users, row.owner)
    /\ row.via \in Keys => Exists(keys, row.via)
    /\ WithinGrant(row)

TableInv ==
    /\ \A u \in Users : Exists(users, u) => EffectiveScopes(users[u]) \subseteq held[u]
    /\ \A t \in Tokens : Exists(tokens, t) => Exists(users, tokens[t].sub)
    /\ \A k \in Keys : Exists(keys, k) => Grounded(keys[k])

\* The credential of a request exists, and the checks that the request has
\* passed have left it only the flaws that a later check looks for.
CredentialInv(r) ==
    /\ r.cred \in Tokens => Exists(tokens, r.cred)
    /\ r.cred \in Keys => Exists(keys, r.cred)
    /\ r.pc \in {"decode", "user"} => r.cred \in Tokens
    /\ r.pc \in {"key", "owner"} => r.cred \in Keys
    /\ r.pc = "handler" => r.who # Nobody
    /\ r.pc \in {"user", "owner"} => r.dead \subseteq {"owner"}
    /\ r.dead # {} => r.cred \in Creds /\ r.who = Nobody
    /\ \A f \in r.dead : Flawed(f, r.cred, users)

\* The caller of a request has no scope that its credential did not give.
CallerInv(r) ==
    r.who # Nobody =>
        /\ r.cred \in Creds
        /\ Exists(users, r.who.id)
        /\ r.cred \in Keys => r.who.scopes \subseteq keys[r.cred].scopes
        /\ r.cred \in Tokens => \/ r.who.scopes \subseteq held[r.who.id]
                                \/ "*" \in held[r.who.id]

\* What the first transaction of a handler is about to write.
ChangeInv(w, action, object) ==
    \/ /\ w.table = "users" /\ ~Exists(users, w.id)
       /\ action = "USER_CREATED" /\ object = w.id
    \/ /\ w.table = "keys" /\ ~Exists(keys, w.id) /\ Grounded(w.value)
       /\ ~w.value.revoked
       /\ action = "API_KEY_CREATED" /\ object = w.id
    \/ /\ w.table = "keys" /\ Exists(keys, w.id)
       /\ w.value = [keys[w.id] EXCEPT !.revoked = TRUE]
       /\ action = "API_KEY_REVOKED" /\ object = w.id
    \/ w.table = "revoked" /\ action = "LOGOUT"

\* What the transaction that appends the audit event writes besides.
AuditedInv(p, w, action, object) ==
    \/ w = NoWrite /\ action # "BOOTSTRAP_COMPLETE"
    \/ /\ w.table = "users" /\ ~Exists(users, w.id)
       /\ action = "BOOTSTRAP_COMPLETE" /\ object = w.id
       /\ bootLock = p /\ ~founded
    \/ /\ w.table = "tokens" /\ ~Exists(tokens, w.id)
       /\ Exists(users, w.value.sub)
       /\ action = "LOGIN_SUCCESS"

WriteInv(p, r) ==
    /\ r.pc \notin {"change", "append", "commit"} => r.write = NoWrite
    /\ r.pc = "change" => /\ r.event \in EventRow
                          /\ ChangeInv(r.write, r.event.action, r.event.object)
    /\ r.pc \in {"append", "commit"} =>
          /\ r.event \in EventRow \cup AuditRow
          /\ AuditedInv(p, r.write, r.event.action, r.event.object)

\* A row that one process is about to insert no other process is writing.
ExclusiveInv ==
    \A p, q \in Procs :
        p # q /\ proc[p].write.table = proc[q].write.table
              /\ proc[p].write.id = proc[q].write.id
        => \/ proc[p].write.table \in {"none", "revoked"}
           \/ proc[p].write.table = "keys" /\ Exists(keys, proc[p].write.id)

\* The holder of the chain lock, and nobody else, has the next event ready.
ChainInv ==
    /\ \A p \in Procs : At(p, "commit") <=> chainLock = p
    /\ \A p \in Procs : At(p, "commit") =>
          /\ proc[p].event \in AuditRow
          /\ proc[p].event.seq = Len(audit) + 1
          /\ proc[p].event.prev = Len(audit)
    /\ AuditChainIntact

BootInv ==
    IF founded
    THEN \E i \in 1..Len(audit) : \A j \in 1..Len(audit) :
            audit[j].action = "BOOTSTRAP_COMPLETE" <=> j = i
    ELSE \A j \in 1..Len(audit) : audit[j].action # "BOOTSTRAP_COMPLETE"

RequestInv ==
    \A p \in Procs : /\ CredentialInv(proc[p])
                     /\ CallerInv(proc[p])
                     /\ WriteInv(p, proc[p])

\* What keeps the properties above true from step to step.
IdentityInv ==
    /\ IdentityTypeOK
    /\ TableInv
    /\ RequestInv
    /\ ExclusiveInv
    /\ ChainInv
    /\ BootInv
    /\ ChangesAreAudited

=============================================================================
