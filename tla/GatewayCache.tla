---------------------------- MODULE GatewayCache ----------------------------
(***************************************************************************)
(* What the gateway knows of one API key.  The truth is the key's status   *)
(* and the merchant's plan (the SaaS application's tables).  The SaaS      *)
(* application copies it to a row of gateway_access_profiles and to Redis  *)
(* (GatewayAccessProfileService); the gateway answers from Redis, and from *)
(* the row when Redis does not know (services/gatewayAccess.js).  The      *)
(* admin application changes the key and tells the gateway to forget it.   *)
(*                                                                         *)
(* Every statement and every Redis command is a step of its own, and each  *)
(* Redis command may fail: all callers swallow that.  Time is counted in   *)
(* ticks; Redis entries carry the tick at which they expire.               *)
(***************************************************************************)
EXTENDS Integers

CONSTANTS
    Requests,     \* requests to the gateway with this key
    Syncs,        \* processes of the SaaS application: workers and web requests
    Plans, NoPlan,
    AuthTtl,      \* GATEWAY_AUTH_CACHE_TTL_SECONDS and CACHE_TTL_SECONDS
    NegativeTtl,  \* GATEWAY_NEGATIVE_CACHE_TTL_SECONDS
    LockTtl,      \* LOCK_TTL_SECONDS
    Latency,      \* ticks a request, a sync or a notice may take
    MaxTime, MaxChanges, MaxJobs

ASSUME PlanAssumption == NoPlan \notin Plans /\ {"active", "inactive"} \intersect (Plans \union {NoPlan}) = {}
ASSUME TtlAssumption == {AuthTtl, NegativeTtl, LockTtl} \subseteq Nat \ {0} /\ Latency \in Nat
ASSUME BoundAssumption == {MaxTime, MaxChanges, MaxJobs} \subseteq Nat

VARIABLES
    now,
    key, plan,    \* merchant_api_keys.status and the active subscription, committed
    row,          \* the row of gateway_access_profiles, committed
    tx,           \* the syncs inside a transaction that has changed the key: at most one
    entry,        \* gateway:auth:v1:<hash>, with the tick it expires at
    marker, lock, \* gateway:auth:v1:invalid:<hash> and lock:<hash>: the tick each expires at
    req,          \* per request: where it stands, since when, and the profile it read
    sync,         \* per SaaS process: where it stands, since when, and what it read
    notice,       \* the admin application's call of /internal/cache/invalidate
    jobs,         \* queued SyncGatewayAccessProfileJobs
    changes,      \* changes made so far, at most MaxChanges
    held,         \* the last tick at which each column value was in a table
    refused,      \* the last tick at which there was a reason to refuse the key
    told          \* the key was revoked by the admin application and the gateway has forgotten it

tables == <<key, plan, row, tx>>
redis == <<entry, marker, lock>>
work == <<req, sync, notice, jobs>>
history == <<held, refused, told>>
cacheVars == <<now, tables, redis, work, changes, history>>

Profile == [status : {"active", "inactive"}, plan : Plans \cup {NoPlan}]
Valid(p) == p.status = "active" /\ p.plan # NoPlan
Nothing == [status |-> "inactive", plan |-> NoPlan]
NoEntry == [profile |-> Nothing, until |-> 0]
Idle == [pc |-> "idle", since |-> 0]
Resting == [pc |-> "idle", since |-> 0, profile |-> Nothing]
Asleep == [pc |-> "idle", since |-> 0, read |-> Nothing, loaded |-> Nothing]

CacheTypeOK ==
    /\ now \in 0..MaxTime
    /\ key \in {"active", "inactive"} /\ plan \in Plans \cup {NoPlan}
    /\ row \in Profile
    /\ tx \subseteq Syncs
    /\ entry \in [profile : Profile, until : Nat]
    /\ marker \in Nat /\ lock \in Nat
    /\ req \in [Requests -> [pc : {"idle", "entry", "lock", "wait", "select", "clear", "fill",
                                   "mark", "unlock"}, since : Nat, profile : Profile]]
    /\ sync \in [Syncs -> [pc : {"idle", "plan", "row", "save", "cache", "clear", "commit"},
                           since : Nat, read : Profile, loaded : Profile]]
    /\ notice \in [pc : {"idle", "forget", "mark"}, since : Nat]
    /\ jobs \in 0..MaxJobs /\ changes \in 0..MaxChanges

CacheInit ==
    /\ now = 0
    /\ key = "active" /\ plan \in Plans
    /\ row = [status |-> key, plan |-> plan]
    /\ tx = {}
    /\ entry = NoEntry /\ marker = 0 /\ lock = 0
    /\ req = [r \in Requests |-> Resting]
    /\ sync = [s \in Syncs |-> Asleep]
    /\ notice = Idle
    /\ jobs = 0 /\ changes = 0
    /\ held = [v \in {"active"} \cup Plans |-> IF v \in {key, plan} THEN 0 ELSE -1]
    /\ refused = -1 /\ told = FALSE

-----------------------------------------------------------------------------
Live(until) == now < until
Hit == Live(entry.until) /\ Valid(entry.profile)

\* The values the tables show now, and the history that follows from them.
Shown == {key, plan, row.status, row.plan}

Observe ==
    /\ held' = [v \in DOMAIN held |-> IF v \in Shown' THEN now' ELSE IF v \in Shown THEN now ELSE held[v]]
    /\ refused' = IF notice.pc = "mark" \/ ~Valid(row)' THEN now' ELSE IF ~Valid(row) THEN now ELSE refused
    /\ told' = (key' = "inactive" /\ (told \/ (notice.pc = "mark" /\ notice'.pc = "idle" /\ ~Hit' /\ marker' > now)))

\* A Redis write takes effect, or fails and is swallowed.
SetEntry(p) == entry' \in {entry, [profile |-> p, until |-> now + AuthTtl]}
DelEntry == entry' \in {entry, NoEntry}
SetMarker == marker' \in {marker, now + NegativeTtl}
DelMarker == marker' \in {marker, 0}

Move(r, pc) == req' = [req EXCEPT ![r].pc = pc]
Leave(r) == req' = [req EXCEPT ![r].pc = "unlock", ![r].profile = Nothing]
End(r) == req' = [req EXCEPT ![r] = Resting]
Rest == UNCHANGED <<now, tables, sync, notice, jobs, changes>>

\* getGatewayAccess, one action per command.  A GET that fails finds nothing.
ReadMarker(r) ==
    /\ req[r].pc = "idle"
    /\ req' = [req EXCEPT ![r].pc = "entry", ![r].since = now]
    /\ UNCHANGED redis /\ Rest

\* Fault: finding the marker renews it.
RefuseAndRenew(r) ==
    /\ req[r].pc = "idle" /\ Live(marker)
    /\ marker' = now + NegativeTtl
    /\ UNCHANGED <<entry, lock, req>> /\ Rest

RefuseMarked(r) ==
    /\ req[r].pc = "idle" /\ Live(marker)
    /\ UNCHANGED <<redis, req>> /\ Rest

\* Fault: a hit renews the entry.
ServeAndRenew(r) ==
    /\ req[r].pc \in {"entry", "wait"} /\ Hit
    /\ End(r)
    /\ entry' = [entry EXCEPT !.until = now + AuthTtl]
    /\ UNCHANGED <<marker, lock>> /\ Rest

Serve(r) ==
    /\ req[r].pc \in {"entry", "wait"} /\ Hit
    /\ End(r)
    /\ UNCHANGED redis /\ Rest

Miss(r) ==
    /\ \/ req[r].pc = "entry" /\ Move(r, "lock")
       \/ req[r].pc = "wait" /\ Move(r, "select")
    /\ UNCHANGED redis /\ Rest

\* SET NX EX: refused while the lock lives; a failing Redis counts as the lock.
AcquireLock(r) ==
    /\ req[r].pc = "lock"
    /\ \/ ~Live(lock) /\ lock' = now + LockTtl /\ Move(r, "select")
       \/ Live(lock) /\ UNCHANGED lock /\ Move(r, "wait")
       \/ UNCHANGED lock /\ Move(r, "select")
    /\ UNCHANGED <<entry, marker>> /\ Rest

LoadGatewayProfile(r) ==
    /\ req[r].pc = "select"
    /\ req' = [req EXCEPT ![r].pc = IF Valid(row) THEN "clear" ELSE "mark",
                          ![r].profile = IF Valid(row) THEN row ELSE Nothing]
    /\ UNCHANGED redis /\ Rest

\* The query throws: the caller is answered 500, the lock is released.
LoadFails(r) ==
    /\ req[r].pc = "select"
    /\ Leave(r)
    /\ UNCHANGED redis /\ Rest

Refuse(r) ==
    /\ req[r].pc = "mark"
    /\ SetMarker
    /\ Leave(r)
    /\ UNCHANGED <<entry, lock>> /\ Rest

ClearMarker(r) ==
    /\ req[r].pc = "clear"
    /\ DelMarker
    /\ Move(r, "fill")
    /\ UNCHANGED <<entry, lock>> /\ Rest

Accept(r) ==
    /\ req[r].pc = "fill"
    /\ SetEntry(req[r].profile)
    /\ Leave(r)
    /\ UNCHANGED <<marker, lock>> /\ Rest

\* finally: the lock is deleted, by a request that never held it as well.
Unlock(r) ==
    /\ req[r].pc = "unlock"
    /\ lock' \in {lock, 0}
    /\ End(r)
    /\ UNCHANGED <<entry, marker>> /\ Rest

Request(r) ==
    \/ ReadMarker(r) \/ RefuseMarked(r) \/ Serve(r) \/ Miss(r) \/ AcquireLock(r)
    \/ LoadGatewayProfile(r) \/ LoadFails(r) \/ Refuse(r) \/ ClearMarker(r) \/ Accept(r) \/ Unlock(r)

-----------------------------------------------------------------------------
\* The SaaS application.  A transaction that has changed the key makes every
\* other change of the key wait, and one that has saved its row those of the row.
RowUnlocked(s) == \A t \in tx \ {s} : sync[t].pc \in {"plan", "row", "save"}
Change == changes < MaxChanges /\ changes' = changes + 1
Dispatch == jobs < MaxJobs /\ jobs' = jobs + 1
Start(s, pc, status) ==
    sync' = [sync EXCEPT ![s] = [pc |-> pc, since |-> now, loaded |-> Nothing,
                                 read |-> [status |-> status, plan |-> NoPlan]]]
Step(s, pc) == sync' = [sync EXCEPT ![s].pc = pc]
Finish(s) == sync' = IF s \in tx THEN [sync EXCEPT ![s].pc = "commit"] ELSE [sync EXCEPT ![s] = Asleep]
OnlySync == UNCHANGED <<now, key, plan, redis, req, notice>>

\* The merchant's subscription changes; the observer queues sync_merchant.
ChangePlan(p) ==
    /\ p # plan /\ Change /\ Dispatch
    /\ plan' = p
    /\ UNCHANGED <<now, key, row, tx, redis, req, sync, notice>>

\* ApiKeyController.destroy: the key is revoked, the observer queues a job,
\* and the web request itself syncs what it holds in memory.
Revoke(s) ==
    /\ sync[s].pc = "idle" /\ key = "active" /\ tx = {} /\ Change /\ Dispatch
    /\ key' = "inactive"
    /\ Start(s, "plan", "inactive")
    /\ UNCHANGED <<now, plan, row, tx, redis, req, notice>>

\* generateForMerchant revokes inside a transaction: the job is queued and the
\* caches are written before the transaction commits.
Replace(s) ==
    /\ sync[s].pc = "idle" /\ key = "active" /\ tx = {} /\ Change /\ Dispatch
    /\ tx' = {s}
    /\ Start(s, "plan", "inactive")
    /\ UNCHANGED <<now, key, plan, row, redis, req, notice>>

\* A worker takes a job and reads the key afresh.
FindKey(s) ==
    /\ sync[s].pc = "idle" /\ jobs > 0
    /\ jobs' = jobs - 1
    /\ Start(s, "plan", key)
    /\ UNCHANGED <<row, tx, changes>> /\ OnlySync

\* Three attempts failed: the job is given up.
JobFails ==
    /\ jobs > 0
    /\ jobs' = jobs - 1
    /\ UNCHANGED <<row, tx, changes, sync>> /\ OnlySync

FindSubscription(s) ==
    /\ sync[s].pc = "plan"
    /\ sync' = [sync EXCEPT ![s].pc = "row", ![s].read.plan = plan]
    /\ UNCHANGED <<row, tx, jobs, changes>> /\ OnlySync

LoadRow(s) ==
    /\ sync[s].pc = "row"
    /\ sync' = [sync EXCEPT ![s].pc = "save", ![s].loaded = row]
    /\ UNCHANGED <<row, tx, jobs, changes>> /\ OnlySync

\* updateOrCreate writes the columns that differ from the row it loaded.
Dirty(s, r) == [c \in DOMAIN r |-> IF sync[s].read[c] = sync[s].loaded[c] THEN r[c] ELSE sync[s].read[c]]

SaveRow(s) ==
    /\ sync[s].pc = "save" /\ RowUnlocked(s)
    /\ row' = IF s \in tx THEN row ELSE Dirty(s, row)
    /\ Step(s, "cache")
    /\ UNCHANGED <<tx, jobs, changes>> /\ OnlySync

\* writeCache stores what the process holds in memory, valid or not; when the
\* SETEX throws, the marker is left alone.
WriteCache(s) ==
    /\ sync[s].pc = "cache"
    /\ \/ entry' = [profile |-> sync[s].read, until |-> now + AuthTtl] /\ Step(s, "clear")
       \/ UNCHANGED entry /\ Finish(s)
    /\ UNCHANGED <<now, tables, marker, lock, req, notice, jobs, changes>>

DropMarker(s) ==
    /\ sync[s].pc = "clear"
    /\ DelMarker
    /\ Finish(s)
    /\ UNCHANGED <<now, tables, entry, lock, req, notice, jobs, changes>>

\* The transaction commits, or the database undoes it; Redis keeps what it was told.
Commit(s) ==
    /\ sync[s].pc = "commit"
    /\ \/ key' = "inactive" /\ row' = Dirty(s, row)
       \/ UNCHANGED <<key, row>>
    /\ tx' = {}
    /\ sync' = [sync EXCEPT ![s] = Asleep]
    /\ UNCHANGED <<now, plan, redis, req, notice, jobs, changes>>

-----------------------------------------------------------------------------
\* The admin application: it changes the key only, and asks the gateway to
\* forget it, if the call succeeds.
AdminRevoke ==
    /\ key = "active" /\ tx = {} /\ notice.pc = "idle" /\ Change
    /\ key' = "inactive"
    /\ notice' \in {notice, [pc |-> "forget", since |-> now]}
    /\ UNCHANGED <<now, plan, row, tx, redis, req, sync, jobs>>

AdminActivate ==
    /\ key = "inactive" /\ tx = {} /\ Change
    /\ key' = "active"
    /\ UNCHANGED <<now, plan, row, tx, redis, req, sync, notice, jobs>>

\* invalidateCacheForHash
Forget ==
    /\ notice.pc = "forget"
    /\ DelEntry
    /\ notice' = [notice EXCEPT !.pc = "mark"]
    /\ UNCHANGED <<now, tables, marker, lock, req, sync, jobs, changes>>

MarkForgotten ==
    /\ notice.pc = "mark"
    /\ SetMarker
    /\ notice' = Idle
    /\ UNCHANGED <<now, tables, entry, lock, req, sync, jobs, changes>>

\* Time passes, but nobody takes longer than Latency.
InTime(p) == p.pc = "idle" \/ now < p.since + Latency
Tick ==
    /\ now < MaxTime
    /\ \A r \in Requests : InTime(req[r])
    /\ \A s \in Syncs : InTime(sync[s])
    /\ InTime(notice)
    /\ now' = now + 1
    /\ UNCHANGED <<tables, redis, work, changes>>

CacheNext ==
    /\ \/ \E r \in Requests : Request(r)
       \/ \E s \in Syncs : \/ Revoke(s) \/ Replace(s) \/ FindKey(s) \/ FindSubscription(s) \/ LoadRow(s)
                           \/ SaveRow(s) \/ WriteCache(s) \/ DropMarker(s) \/ Commit(s)
       \/ \E p \in Plans \cup {NoPlan} : ChangePlan(p)
       \/ JobFails \/ AdminRevoke \/ AdminActivate \/ Forget \/ MarkForgotten \/ Tick
    /\ Observe

-----------------------------------------------------------------------------
Fresh(p, age) == \A c \in {p.status, p.plan} : now - held[c] <= age

\* The gateway accepts a key for a profile whose every column was in a table
\* at most one time-to-live and one fill ago, whoever filled the cache, out
\* of whatever order; the table itself is newer still.
AnswersAreFresh ==
    /\ Hit => Fresh(entry.profile, AuthTtl + Latency)
    /\ \A r \in Requests : req[r].pc \in {"clear", "fill"} => Fresh(req[r].profile, Latency)

\* A key is refused without a look at the table only when there was a reason
\* to refuse it at most one negative time-to-live and one request ago.
RefusalsAreEarned == Live(marker) => now - refused <= NegativeTtl + Latency

\* What routes/internal.js says of /internal/cache/invalidate: a revoked key is
\* rejected instead of being served from the cache.
ForgottenIsNotServed == told => Live(marker) \/ ~Hit
=============================================================================
