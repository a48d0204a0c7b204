---------------------------- MODULE GatewayProofs ----------------------------
(***************************************************************************)
(* Proofs about Gateway, for any number of requests, any threshold and any *)
(* times to live: what the cache answers is as fresh as the times to live  *)
(* and the latency allow, whichever requests, syncs and notices interleave *)
(* and whichever Redis commands fail; and the breaker's counter counts.    *)
(***************************************************************************)
EXTENDS Gateway, FiniteSetTheorems, TLAPS

----------------------------------------------------------------------------
(* The circuit breaker *)

\* The breaker counts what it records.
BreakerInv == BreakerTypeOK /\ CounterNeverOverstates

\* How many replies of n INCRs trip the breaker is a number.
LEMMA TripCount ==
  ASSUME NEW n \in Nat, NEW k0 \in Nat
  PROVE  Cardinality({k \in 1..n : k0 + k >= Threshold}) \in Nat
<1>1. IsFiniteSet(1..n)
  BY FS_Interval
<1> QED
  BY <1>1, FS_Subset, FS_CardinalityType

\* So is how many listeners a response fires.
LEMMA ListenerCount ==
  ASSUME BreakerTypeOK
  PROVE  Cardinality(listening) \in Nat
BY PostAssumption, FS_Subset, FS_CardinalityType DEF BreakerTypeOK

\* n failures raise the counter and the streak alike.
LEMMA FailuresCount ==
  ASSUME BreakerInv, NEW n \in Nat, Failures(n)
  PROVE  /\ fails' \in Nat /\ streak' \in Nat /\ trips' \in Nat /\ open' \in BOOLEAN
         /\ CounterNeverOverstates'
<1>1. Cardinality({k \in 1..n : fails + k >= Threshold}) \in Nat
  BY TripCount DEF BreakerInv, BreakerTypeOK
<1> QED
  BY <1>1 DEF Failures, BreakerInv, BreakerTypeOK, CounterNeverOverstates

\* A response leaves the counters right and no listener.
LEMMA FireCounts ==
  ASSUME BreakerInv, NEW outcome \in {"ok", "error"}, Fire(outcome)
  PROVE  /\ fails' \in Nat /\ streak' \in Nat /\ trips' \in Nat /\ open' \in BOOLEAN
         /\ CounterNeverOverstates'
         /\ listening' = {} /\ heard' \in [Post -> SUBSET {"ok", "error"}]
<1>1. listening' = {} /\ heard' \in [Post -> SUBSET {"ok", "error"}]
  BY DEF Fire, BreakerInv, BreakerTypeOK
<1>2. /\ fails' \in Nat /\ streak' \in Nat /\ trips' \in Nat /\ open' \in BOOLEAN
      /\ CounterNeverOverstates'
  <2>1. CASE UNCHANGED <<breaker, trips, streak>>
    BY <2>1 DEF breaker, BreakerInv, BreakerTypeOK, CounterNeverOverstates
  <2>2. CASE Success
    <3>1. open' \in BOOLEAN
      BY <2>2, Zenon DEF Success
    <3>2. fails' = 0 /\ streak' = 0 /\ trips' = trips
      BY <2>2 DEF Success
    <3> QED
      BY <3>1, <3>2 DEF BreakerInv, BreakerTypeOK, CounterNeverOverstates
  <2>3. CASE Failures(Cardinality(listening))
    BY <2>3, FailuresCount, ListenerCount DEF BreakerInv
  <2> QED
    BY <2>1, <2>2, <2>3 DEF Fire
<1> QED
  BY <1>1, <1>2

\* At first nothing is counted and nobody listens.
LEMMA BreakerInitHolds == BreakerInit => BreakerInv
<1> SUFFICES ASSUME BreakerInit PROVE BreakerInv
  OBVIOUS
<1>1. open \in BOOLEAN
  BY Zenon DEF BreakerInit
<1>2. BreakerTypeOK
  BY <1>1 DEF BreakerInit, BreakerTypeOK
<1>3. CounterNeverOverstates
  BY DEF BreakerInit, CounterNeverOverstates
<1> QED
  BY <1>2, <1>3 DEF BreakerInv

\* Every step of the breaker keeps the invariant.
LEMMA BreakerSteps ==
  ASSUME BreakerInv, BreakerNext
  PROVE  BreakerInv'
<1> USE DEF BreakerInv, breaker
<1>1. ASSUME NEW p \in Post, Check(p) \/ Forward(p) \/ ClientAborts(p)
      PROVE  BreakerInv'
  BY <1>1 DEF Check, Forward, ClientAborts, Goto, BreakerTypeOK, CounterNeverOverstates
<1>2. ASSUME NEW p \in Post, Respond(p)
      PROVE  BreakerInv'
  <2>1. PICK outcome \in {"ok", "error"} : answer' = [answer EXCEPT ![p] = outcome] /\ Fire(outcome)
    BY <1>2 DEF Respond
  <2>2. BreakerTypeOK' /\ CounterNeverOverstates'
    BY <1>2, <2>1, FireCounts DEF Respond, Goto, BreakerTypeOK
  <2> QED
    BY <2>2
<1>3. CASE RespondToGet
  <2>1. PICK outcome \in {"ok", "error"} : Fire(outcome)
    BY <1>3 DEF RespondToGet
  <2>2. BreakerTypeOK' /\ CounterNeverOverstates'
    BY <1>3, <2>1, FireCounts DEF RespondToGet, BreakerTypeOK
  <2> QED
    BY <2>2
<1>4. ASSUME NEW p \in Post, Unreachable(p)
      PROVE  BreakerInv'
  <2>1. /\ fails' \in Nat /\ streak' \in Nat /\ trips' \in Nat /\ open' \in BOOLEAN
        /\ CounterNeverOverstates'
    BY <1>4, FailuresCount DEF Unreachable
  <2>2. BreakerTypeOK'
    BY <1>4, <2>1 DEF Unreachable, Goto, BreakerTypeOK
  <2> QED
    BY <2>1, <2>2
<1>5. CASE Trip \/ Expire \/ Restart
  <2>1. open' \in BOOLEAN
    BY <1>5, Zenon DEF Trip, Expire, Restart, BreakerTypeOK
  <2>2. BreakerTypeOK'
    BY <1>5, <2>1 DEF Trip, Expire, Restart, BreakerTypeOK
  <2>3. CounterNeverOverstates'
    BY <1>5 DEF Trip, Expire, Restart, BreakerTypeOK, CounterNeverOverstates
  <2> QED
    BY <2>2, <2>3
<1> QED
  BY <1>1, <1>2, <1>3, <1>4, <1>5 DEF BreakerNext

----------------------------------------------------------------------------
(* The cache *)

Values == {"active"} \cup Plans

\* The history: nothing was seen in the future, and what a table shows is seen now.
HistoryInv ==
    /\ held \in [Values -> Int] /\ refused \in Int
    /\ \A v \in Values : held[v] <= now
    /\ refused <= now
    /\ \A v \in Values \cap Shown : held[v] = now

\* What somebody started may still be under way.
Young(p) == p.pc # "idle" => p.since <= now /\ now <= p.since + Latency

\* A request that saw an invalid row saw it after it started, and one that saw a valid row
\* saw both columns after it started.
RequestRight(q) ==
    /\ Young(q)
    /\ q.pc = "mark" => q.since <= refused
    /\ q.pc \in {"clear", "fill"} =>
         /\ Valid(q.profile)
         /\ \A c \in {q.profile.status, q.profile.plan} : q.since <= held[c]

RequestInv == \A r \in Requests : RequestRight(req[r])

\* So it is with what a sync has read so far.
SyncRight(p) ==
    /\ Young(p)
    /\ p.pc # "idle" => \A c \in Values \cap {p.read.status, p.read.plan} : p.since <= held[c]

SyncInv == \A s \in Syncs : SyncRight(sync[s])

\* The entry and the marker outlive what they say by no more than their time and the latency.
EntryInv ==
    Valid(entry.profile) =>
      \A c \in {entry.profile.status, entry.profile.plan} : entry.until <= held[c] + AuthTtl + Latency

MarkerInv == marker = 0 \/ marker <= refused + NegativeTtl + Latency

CacheInv == CacheTypeOK /\ HistoryInv /\ RequestInv /\ SyncInv /\ EntryInv /\ MarkerInv

LEMMA TimesAreNumbers ==
  /\ AuthTtl \in Nat /\ NegativeTtl \in Nat /\ LockTtl \in Nat /\ Latency \in Nat
  /\ MaxTime \in Nat /\ MaxChanges \in Nat /\ MaxJobs \in Nat
BY TtlAssumption, BoundAssumption

\* A valid profile's columns have a history.
LEMMA ValidHasValues ==
  ASSUME NEW p \in Profile, Valid(p)
  PROVE  p.status \in Values /\ p.plan \in Values
BY DEF Profile, Valid, Values

\* Only columns that differ are written, with what was read.
LEMMA DirtyIsProfile ==
  ASSUME CacheTypeOK, NEW s \in Syncs
  PROVE  Dirty(s, row) \in Profile
<1>1. row \in Profile /\ sync[s].read \in Profile
  BY DEF CacheTypeOK
<1> DEFINE d == Dirty(s, row)
<1>2. DOMAIN row = {"status", "plan"}
  BY <1>1 DEF Profile
<1>3. d = [c \in {"status", "plan"} |->
             IF sync[s].read[c] = sync[s].loaded[c] THEN row[c] ELSE sync[s].read[c]]
  BY <1>2 DEF Dirty
<1>4. d = [status |-> d["status"], plan |-> d["plan"]]
  BY <1>3
<1>5. d["status"] \in {"active", "inactive"} /\ d["plan"] \in Plans \cup {NoPlan}
  BY <1>1, <1>3 DEF Profile
<1> QED
  BY <1>4, <1>5 DEF Profile

\* The history only grows.
Grown ==
    /\ \A v \in Values : held[v] <= held'[v]
    /\ refused <= refused'

LEMMA HistoryGrows ==
  ASSUME CacheInv, CacheTypeOK', now <= now', Observe
  PROVE  HistoryInv' /\ Grown
<1>1. now \in Int /\ now' \in Int
  BY DEF CacheInv, CacheTypeOK
<1>2. held' = [v \in Values |-> IF v \in Shown' THEN now' ELSE IF v \in Shown THEN now ELSE held[v]]
  BY DEF Observe, CacheInv, HistoryInv
<1>3. refused' \in {now', now, refused}
  BY DEF Observe
<1>4. held' \in [Values -> Int] /\ \A v \in Values : held[v] <= held'[v] /\ held'[v] <= now'
  BY <1>1, <1>2 DEF CacheInv, HistoryInv
<1>5. \A v \in Values \cap Shown' : held'[v] = now'
  BY <1>2
<1> QED
  BY <1>1, <1>3, <1>4, <1>5 DEF CacheInv, HistoryInv, Grown

\* What a step leaves alone stays right as the history grows.
LEMMA Kept ==
  ASSUME CacheInv, HistoryInv', Grown, now' = now \/ Tick
  PROVE  /\ \A r \in Requests : req'[r] = req[r] => RequestRight(req[r])'
         /\ \A s \in Syncs : sync'[s] = sync[s] => SyncRight(sync[s])'
         /\ entry' \in {entry, NoEntry} => EntryInv'
         /\ marker' \in {marker, 0} => MarkerInv'
<1>0. /\ held \in [Values -> Int] /\ held' \in [Values -> Int]
      /\ \A v \in Values : held[v] <= held'[v]
  BY DEF CacheInv, HistoryInv, Grown
<1>7. refused \in Int /\ refused' \in Int /\ refused <= refused'
  BY DEF CacheInv, HistoryInv, Grown
<1>1. ASSUME NEW r \in Requests, req'[r] = req[r]
      PROVE  RequestRight(req[r])'
  <2>1. now \in Int /\ req[r].since \in Int /\ req[r].profile \in Profile /\ RequestRight(req[r])
    BY DEF CacheInv, CacheTypeOK, RequestInv
  <2>2. Young(req[r])'
    BY <1>1, <2>1, TimesAreNumbers DEF RequestRight, Young, Tick, InTime
  <2>3. CASE req[r].pc \in {"clear", "fill"}
    <3>1. Valid(req[r].profile)
      BY <2>1, <2>3 DEF RequestRight
    <3>2. \A c \in {req[r].profile.status, req[r].profile.plan} : req[r].since <= held'[c]
      BY <1>0, <2>1, <2>3, <3>1, ValidHasValues DEF RequestRight
    <3> QED
      BY <1>1, <2>2, <2>3, <3>1, <3>2 DEF RequestRight, Valid
  <2>4. CASE req[r].pc \notin {"clear", "fill"}
    BY <1>7, <1>1, <2>1, <2>2, <2>4 DEF RequestRight
  <2> QED
    BY <2>3, <2>4
<1>2. ASSUME NEW s \in Syncs, sync'[s] = sync[s]
      PROVE  SyncRight(sync[s])'
  <2>1. now \in Int /\ sync[s].since \in Int /\ SyncRight(sync[s])
    BY DEF CacheInv, CacheTypeOK, SyncInv
  <2>2. Young(sync[s])'
    BY <1>2, <2>1, TimesAreNumbers DEF SyncRight, Young, Tick, InTime
  <2> QED
    BY <1>0, <1>2, <2>1, <2>2 DEF SyncRight
<1>3. ASSUME entry' = entry PROVE EntryInv'
  <2>1. entry.until \in Int /\ entry.profile \in Profile /\ EntryInv
    BY DEF CacheInv, CacheTypeOK
  <2> SUFFICES ASSUME Valid(entry.profile), NEW c \in {entry.profile.status, entry.profile.plan}
               PROVE  entry.until <= held'[c] + AuthTtl + Latency
    BY <1>3 DEF EntryInv, Valid
  <2>2. c \in Values
    BY <2>1, ValidHasValues
  <2> QED
    BY <1>0, <2>1, <2>2, TimesAreNumbers DEF EntryInv
<1>4. ASSUME entry' = NoEntry PROVE EntryInv'
  BY <1>4 DEF EntryInv, NoEntry, Nothing, Valid
<1>5. ASSUME marker' = marker PROVE MarkerInv'
  <2>1. CASE marker = 0
    BY <1>5, <2>1 DEF MarkerInv
  <2>2. CASE marker <= refused + NegativeTtl + Latency
    <3>1. marker \in Int /\ NegativeTtl \in Int /\ Latency \in Int
      BY TimesAreNumbers DEF CacheInv, CacheTypeOK
    <3>2. \A m, n, l, a, b \in Int : m <= a + n + l /\ a <= b => m <= b + n + l
      OBVIOUS
    <3>3. marker <= refused' + NegativeTtl + Latency
      BY <1>7, <2>2, <3>1, <3>2
    <3> QED
      BY <1>5, <3>3, Zenon DEF MarkerInv
  <2> QED
    BY <2>1, <2>2 DEF CacheInv, MarkerInv
<1>6. ASSUME marker' = 0 PROVE MarkerInv'
  BY <1>6 DEF MarkerInv
<1> QED
  BY <1>1, <1>2, <1>3, <1>4, <1>5, <1>6

\* A step of a request.
LEMMA RequestSteps ==
  ASSUME CacheInv, NEW r \in Requests, Request(r), Observe
  PROVE  CacheInv'
<1> USE TimesAreNumbers DEF Rest, tables, redis
<1>1. now' = now /\ UNCHANGED <<key, plan, row, tx, sync, notice, jobs, changes>>
  BY DEF Request, ReadMarker, RefuseMarked, Serve, Miss, AcquireLock, LoadGatewayProfile, LoadFails,
         Refuse, ClearMarker, Accept, Unlock
<1>2. now \in Nat /\ req[r].since \in Nat /\ req[r].profile \in Profile /\ Nothing \in Profile /\ row \in Profile
  BY DEF CacheInv, CacheTypeOK, Profile, Nothing
<1>3. CacheTypeOK'
  <2>1. req' \in [Requests -> [pc : {"idle", "entry", "lock", "wait", "select", "clear", "fill",
                                     "mark", "unlock"}, since : Nat, profile : Profile]]
    BY <1>2 DEF Request, ReadMarker, RefuseMarked, Serve, Miss, AcquireLock, LoadGatewayProfile, LoadFails,
                Refuse, ClearMarker, Accept, Unlock, CacheInv, CacheTypeOK, Move, Leave, End, Resting
  <2>2. entry' \in [profile : Profile, until : Nat] /\ marker' \in Nat /\ lock' \in Nat
    BY <1>2 DEF Request, ReadMarker, RefuseMarked, Serve, Miss, AcquireLock, LoadGatewayProfile, LoadFails,
                Refuse, ClearMarker, Accept, Unlock, CacheInv, CacheTypeOK, SetEntry, SetMarker, DelMarker
  <2> QED
    BY <1>1, <2>1, <2>2 DEF CacheInv, CacheTypeOK
<1>4. HistoryInv' /\ Grown
  BY <1>1, <1>2, <1>3, HistoryGrows
<1>5. RequestRight(req[r]) /\ req \in [Requests -> [pc : {"idle", "entry", "lock", "wait", "select", "clear",
                                                        "fill", "mark", "unlock"}, since : Nat, profile : Profile]]
  BY DEF CacheInv, CacheTypeOK, RequestInv
<1>6. \A x \in Requests \ {r} : req'[x] = req[x]
  BY <1>5 DEF Request, ReadMarker, RefuseMarked, Serve, Miss, AcquireLock, LoadGatewayProfile, LoadFails,
              Refuse, ClearMarker, Accept, Unlock, Move, Leave, End
<1>7. CASE ReadMarker(r) \/ Miss(r) \/ AcquireLock(r) \/ Unlock(r) \/ Serve(r) \/ RefuseMarked(r)
  <2>1. RequestRight(req[r])'
    BY <1>1, <1>2, <1>4, <1>5, <1>7 DEF ReadMarker, Miss, AcquireLock, Unlock, Serve, RefuseMarked,
                                        Move, End, Resting, RequestRight, Young
  <2>2. UNCHANGED <<entry, marker>>
    BY <1>7 DEF ReadMarker, Miss, AcquireLock, Unlock, Serve, RefuseMarked
  <2> QED
    BY <1>1, <1>3, <1>4, <1>6, <2>1, <2>2, Kept DEF CacheInv, RequestInv, SyncInv
<1>8. CASE LoadGatewayProfile(r)
  <2>1. RequestRight(req[r])'
    <3>1. CASE Valid(row)
      <4>1. row.status \in Values \cap Shown' /\ row.plan \in Values \cap Shown'
        BY <1>1, <1>2, <3>1, ValidHasValues DEF Shown
      <4>2. held'[row.status] = now' /\ held'[row.plan] = now'
        BY <1>4, <4>1 DEF HistoryInv
      <4>3. req'[r] = [req[r] EXCEPT !.pc = "clear", !.profile = row]
        BY <1>5, <1>8, <3>1 DEF LoadGatewayProfile
      <4> QED
        BY <1>1, <1>2, <1>5, <1>8, <3>1, <4>2, <4>3 DEF LoadGatewayProfile, RequestRight, Young, Valid
    <3>2. CASE ~Valid(row)
      <4>1. refused' = now
        BY <1>1, <3>2 DEF Observe, Valid
      <4>2. req'[r] = [req[r] EXCEPT !.pc = "mark", !.profile = Nothing]
        BY <1>5, <1>8, <3>2 DEF LoadGatewayProfile
      <4> QED
        BY <1>1, <1>2, <1>5, <1>8, <4>1, <4>2 DEF LoadGatewayProfile, RequestRight, Young
    <3> QED
      BY <3>1, <3>2
  <2>2. UNCHANGED <<entry, marker>>
    BY <1>8 DEF LoadGatewayProfile
  <2> QED
    BY <1>1, <1>3, <1>4, <1>6, <2>1, <2>2, Kept DEF CacheInv, RequestInv, SyncInv
<1>9. CASE LoadFails(r) \/ ClearMarker(r) \/ Accept(r) \/ Refuse(r)
  <2>1. RequestRight(req[r])'
    <3>1. CASE ClearMarker(r)
      <4>1. req'[r] = [req[r] EXCEPT !.pc = "fill"] /\ req[r].pc = "clear"
        BY <1>5, <3>1 DEF ClearMarker, Move
      <4>2. Valid(req[r].profile)
        BY <1>5, <4>1 DEF RequestRight
      <4>3. req[r].profile.status \in Values /\ req[r].profile.plan \in Values
        BY <1>2, <4>2, ValidHasValues
      <4>4. held \in [Values -> Int] /\ held' \in [Values -> Int]
        BY <1>4 DEF CacheInv, HistoryInv
      <4>5. \A c \in {req[r].profile.status, req[r].profile.plan} : req[r].since <= held'[c]
        BY <1>2, <1>4, <1>5, <4>1, <4>3, <4>4 DEF RequestRight, Grown
      <4> QED
        BY <1>1, <1>5, <4>1, <4>2, <4>5 DEF RequestRight, Young, Valid
    <3>2. CASE LoadFails(r) \/ Accept(r) \/ Refuse(r)
      <4>1. req'[r] = [req[r] EXCEPT !.pc = "unlock", !.profile = Nothing] /\ req[r].pc # "idle"
        BY <1>5, <3>2 DEF LoadFails, Accept, Refuse, Leave
      <4> QED
        BY <1>1, <1>5, <4>1 DEF RequestRight, Young
    <3> QED
      BY <1>9, <3>1, <3>2
  <2>2. EntryInv'
    <3>1. CASE entry' = entry
      BY <1>1, <1>4, <3>1, Kept
    <3>2. CASE entry' = [profile |-> req[r].profile, until |-> now + AuthTtl] /\ req[r].pc = "fill"
      <4>1. Valid(req[r].profile) /\ now <= req[r].since + Latency
        BY <1>5, <3>2 DEF RequestRight, Young
      <4>2. req[r].profile.status \in Values /\ req[r].profile.plan \in Values
        BY <1>2, <4>1, ValidHasValues
      <4>3. held \in [Values -> Int] /\ held' \in [Values -> Int]
        BY <1>4 DEF CacheInv, HistoryInv
      <4>4. \A c \in {req[r].profile.status, req[r].profile.plan} : req[r].since <= held'[c]
        BY <1>2, <1>4, <1>5, <3>2, <4>2, <4>3 DEF RequestRight, Grown
      <4> QED
        BY <1>2, <3>2, <4>1, <4>2, <4>3, <4>4 DEF EntryInv
    <3> QED
      BY <1>9, <3>1, <3>2 DEF LoadFails, ClearMarker, Accept, Refuse, SetEntry
  <2>3. MarkerInv'
    <3>1. CASE marker' \in {marker, 0}
      BY <1>1, <1>4, <3>1, Kept
    <3>2. CASE marker' = now + NegativeTtl /\ req[r].pc = "mark"
      <4>1. req[r].since <= refused /\ now <= req[r].since + Latency
        BY <1>5, <3>2 DEF RequestRight, Young
      <4>2. refused \in Int /\ refused' \in Int /\ refused <= refused'
        BY <1>4 DEF CacheInv, HistoryInv, Grown
      <4> QED
        BY <1>2, <3>2, <4>1, <4>2 DEF MarkerInv
    <3> QED
      BY <1>9, <3>1, <3>2 DEF LoadFails, ClearMarker, Accept, Refuse, SetMarker, DelMarker
  <2> QED
    BY <1>1, <1>3, <1>4, <1>6, <2>1, <2>2, <2>3, Kept DEF CacheInv, RequestInv, SyncInv
<1> QED
  BY <1>7, <1>8, <1>9 DEF Request

\* A step of a sync, and what the SaaS application does that starts one.
LEMMA SyncSteps ==
  ASSUME CacheInv, Observe, NEW s \in Syncs,
         \/ Revoke(s) \/ Replace(s) \/ FindKey(s) \/ FindSubscription(s) \/ LoadRow(s)
         \/ SaveRow(s) \/ WriteCache(s) \/ DropMarker(s) \/ Commit(s)
  PROVE  CacheInv'
<1> USE TimesAreNumbers DEF OnlySync, tables, redis
<1> DEFINE Pc == {"idle", "plan", "row", "save", "cache", "clear", "commit"}
<1>1. UNCHANGED <<now, plan, lock, req, notice>>
  BY DEF Revoke, Replace, FindKey, FindSubscription, LoadRow, SaveRow, WriteCache, DropMarker, Commit
<1>2. /\ now \in Nat /\ changes \in 0..MaxChanges /\ jobs \in 0..MaxJobs
      /\ key \in {"active", "inactive"} /\ plan \in Plans \cup {NoPlan}
      /\ row \in Profile /\ Nothing \in Profile /\ Dirty(s, row) \in Profile
      /\ sync \in [Syncs -> [pc : Pc, since : Nat, read : Profile, loaded : Profile]]
      /\ SyncRight(sync[s])
  BY DirtyIsProfile DEF CacheInv, CacheTypeOK, SyncInv, Profile, Nothing
<1>3. CacheTypeOK'
  <2>1. sync' \in [Syncs -> [pc : Pc, since : Nat, read : Profile, loaded : Profile]]
    <3>1. CASE Revoke(s) \/ Replace(s) \/ FindKey(s)
      <4>1. PICK status \in {"active", "inactive"} :
              sync' = [sync EXCEPT ![s] = [pc |-> "plan", since |-> now, loaded |-> Nothing,
                                           read |-> [status |-> status, plan |-> NoPlan]]]
        BY <1>2, <3>1 DEF Revoke, Replace, FindKey, Start
      <4> QED
        BY <1>2, <4>1 DEF Profile
    <3>2. CASE FindSubscription(s)
      <4>1. sync' = [sync EXCEPT ![s] = [sync[s] EXCEPT !.pc = "row", !.read = [sync[s].read EXCEPT !.plan = plan]]]
        BY <1>2, <3>2 DEF FindSubscription
      <4>2. [sync[s].read EXCEPT !.plan = plan] \in Profile
        BY <1>2 DEF Profile
      <4> QED
        BY <1>2, <4>1, <4>2
    <3>3. CASE LoadRow(s) \/ SaveRow(s) \/ WriteCache(s) \/ DropMarker(s) \/ Commit(s)
      BY <1>2, <3>3 DEF LoadRow, SaveRow, WriteCache, DropMarker, Commit, Step, Finish, Asleep
    <3> QED
      BY <3>1, <3>2, <3>3
  <2>2. entry' \in [profile : Profile, until : Nat] /\ marker' \in Nat
    BY <1>2 DEF Revoke, Replace, FindKey, FindSubscription, LoadRow, SaveRow, WriteCache, DropMarker, Commit,
                CacheInv, CacheTypeOK, DelMarker
  <2>3. /\ key' \in {"active", "inactive"} /\ row' \in Profile /\ tx' \subseteq Syncs
    BY <1>2 DEF Revoke, Replace, FindKey, FindSubscription, LoadRow, SaveRow, WriteCache, DropMarker, Commit,
                CacheInv, CacheTypeOK
  <2>4. jobs' \in 0..MaxJobs /\ changes' \in 0..MaxChanges
    BY <1>2 DEF Revoke, Replace, FindKey, FindSubscription, LoadRow, SaveRow, WriteCache, DropMarker, Commit,
                Change, Dispatch
  <2> QED
    BY <1>1, <2>1, <2>2, <2>3, <2>4 DEF CacheInv, CacheTypeOK
<1>4. HistoryInv' /\ Grown
  BY <1>1, <1>2, <1>3, HistoryGrows
<1>5. \A x \in Syncs \ {s} : sync'[x] = sync[x]
  BY <1>2 DEF Revoke, Replace, FindKey, FindSubscription, LoadRow, SaveRow, WriteCache, DropMarker, Commit,
              Start, Step, Finish
<1>6. held \in [Values -> Int] /\ held' \in [Values -> Int]
  BY <1>4 DEF CacheInv, HistoryInv
<1>7. SyncRight(sync[s])'
  <2>1. CASE Revoke(s) \/ Replace(s) \/ FindKey(s)
    <3> DEFINE Started(status) == sync' = [sync EXCEPT ![s] = [pc |-> "plan", since |-> now, loaded |-> Nothing,
                                                               read |-> [status |-> status, plan |-> NoPlan]]]
    <3>1. Started("inactive") \/ (Started(key) /\ key' = key)
      BY <2>1, Zenon DEF Revoke, Replace, FindKey, Start
    <3>4. /\ sync'[s].read.plan = NoPlan /\ sync'[s].since = now
          /\ sync'[s].read.status = "inactive" \/ (sync'[s].read.status = key /\ key' = key)
      BY <1>2, <3>1
    <3>2. NoPlan \notin Values /\ "inactive" \notin Values
      BY PlanAssumption DEF Values
    <3>3. key' = key /\ key \in Values => held'[key] = now
      BY <1>1, <1>4 DEF HistoryInv, Shown
    <3> QED
      BY <1>1, <1>2, <3>1, <3>2, <3>3, <3>4 DEF SyncRight, Young
  <2>2. CASE FindSubscription(s)
    <3>1. sync'[s] = [sync[s] EXCEPT !.pc = "row", !.read = [@ EXCEPT !.plan = plan]] /\ sync[s].pc = "plan"
      BY <1>2, <2>2 DEF FindSubscription
    <3>2. sync[s].read.status \in Values => sync[s].since <= held'[sync[s].read.status]
      BY <1>2, <1>4, <1>6, <3>1 DEF SyncRight, Grown
    <3>3. plan \in Values => held'[plan] = now
      BY <1>1, <1>4 DEF HistoryInv, Shown
    <3>4. sync'[s].read.status = sync[s].read.status /\ sync'[s].read.plan = plan /\ sync'[s].since = sync[s].since
      BY <1>2, <3>1 DEF Profile
    <3> QED
      BY <1>1, <1>2, <3>1, <3>2, <3>3, <3>4 DEF SyncRight, Young
  <2>3. CASE LoadRow(s) \/ SaveRow(s) \/ WriteCache(s) \/ DropMarker(s) \/ Commit(s)
    <3>1. /\ sync[s].pc # "idle"
          /\ sync'[s] = Asleep \/ (sync'[s].read = sync[s].read /\ sync'[s].since = sync[s].since)
      <4>1. CASE LoadRow(s)
        BY <1>2, <4>1 DEF LoadRow
      <4>2. CASE Step(s, "cache") \/ Step(s, "clear")
        BY <1>2, <2>3, <4>2 DEF LoadRow, SaveRow, WriteCache, DropMarker, Commit, Step
      <4>3. CASE Finish(s)
        <5>1. sync[s].pc # "idle"
          BY <2>3 DEF LoadRow, SaveRow, WriteCache, DropMarker, Commit
        <5>4. DOMAIN sync = Syncs
          BY <1>2
        <5>2. CASE s \in tx
          BY <1>2, <4>3, <5>1, <5>2 DEF Finish
        <5>3. CASE s \notin tx
          <6>1. sync'[s] = Asleep
            BY <4>3, <5>3, <5>4 DEF Finish
          <6> QED
            BY <5>1, <6>1
        <5> QED
          BY <5>2, <5>3
      <4>4. CASE Commit(s)
        <5>1. sync[s].pc # "idle" /\ sync' = [sync EXCEPT ![s] = Asleep]
          BY <4>4 DEF Commit
        <5>2. DOMAIN sync = Syncs
          BY <1>2
        <5>3. sync'[s] = Asleep
          BY <5>1, <5>2
        <5> QED
          BY <5>1, <5>3
      <4> QED
        BY <2>3, <4>1, <4>2, <4>3, <4>4 DEF SaveRow, WriteCache, DropMarker
    <3>2. CASE sync'[s] = Asleep
      BY <3>2 DEF SyncRight, Young, Asleep
    <3>3. CASE sync'[s].read = sync[s].read /\ sync'[s].since = sync[s].since
      BY <1>1, <1>2, <1>4, <1>6, <3>1, <3>3 DEF SyncRight, Young, Grown
    <3> QED
      BY <3>1, <3>2, <3>3
  <2> QED
    BY <2>1, <2>2, <2>3
<1>8. EntryInv'
  <2>1. CASE entry' = entry
    BY <1>1, <1>4, <2>1, Kept
  <2>2. CASE sync[s].pc = "cache" /\ entry' = [profile |-> sync[s].read, until |-> now + AuthTtl]
    <3> SUFFICES ASSUME Valid(sync[s].read), NEW c \in {sync[s].read.status, sync[s].read.plan}
                 PROVE  now + AuthTtl <= held'[c] + AuthTtl + Latency
      BY <2>2 DEF EntryInv, Valid
    <3>1. c \in Values
      BY <1>2, ValidHasValues
    <3>2. sync[s].since <= held'[c] /\ now <= sync[s].since + Latency
      BY <1>2, <1>4, <1>6, <2>2, <3>1 DEF SyncRight, Young, Grown
    <3> QED
      BY <1>2, <1>6, <3>1, <3>2
  <2> QED
    BY <2>1, <2>2 DEF Revoke, Replace, FindKey, FindSubscription, LoadRow, SaveRow, WriteCache, DropMarker, Commit
<1>9. MarkerInv'
  <2>1. marker' \in {marker, 0}
    BY DEF Revoke, Replace, FindKey, FindSubscription, LoadRow, SaveRow, WriteCache, DropMarker, Commit, DelMarker
  <2> QED
    BY <1>1, <1>4, <2>1, Kept
<1> QED
  BY <1>1, <1>3, <1>4, <1>5, <1>7, <1>8, <1>9, Kept DEF CacheInv, RequestInv, SyncInv

\* The rest: subscriptions, failing jobs, the admin application and its notice.
LEMMA OtherSteps ==
  ASSUME CacheInv, Observe,
         \/ \E p \in Plans \cup {NoPlan} : ChangePlan(p)
         \/ JobFails \/ AdminRevoke \/ AdminActivate \/ Forget \/ MarkForgotten
  PROVE  CacheInv'
<1> USE TimesAreNumbers DEF OnlySync, tables, redis
<1>1. UNCHANGED <<now, row, tx, lock, req, sync>>
  BY DEF ChangePlan, JobFails, AdminRevoke, AdminActivate, Forget, MarkForgotten
<1>2. /\ now \in Nat /\ changes \in 0..MaxChanges /\ jobs \in 0..MaxJobs
      /\ key \in {"active", "inactive"} /\ plan \in Plans \cup {NoPlan}
      /\ entry \in [profile : Profile, until : Nat] /\ NoEntry \in [profile : Profile, until : Nat]
      /\ marker \in Nat /\ notice \in [pc : {"idle", "forget", "mark"}, since : Nat]
  BY DEF CacheInv, CacheTypeOK, Profile, Nothing, NoEntry
<1>3. entry' \in {entry, NoEntry}
  BY DEF ChangePlan, JobFails, AdminRevoke, AdminActivate, Forget, MarkForgotten, DelEntry
<1>4. marker' = marker \/ (MarkForgotten /\ marker' = now + NegativeTtl)
  <2>1. CASE MarkForgotten
    <3>1. marker' \in {marker, now + NegativeTtl}
      BY <2>1 DEF MarkForgotten, SetMarker
    <3> QED
      BY <2>1, <3>1, Zenon
  <2>2. CASE ~MarkForgotten
    <3>1. marker' = marker
      BY <2>2 DEF ChangePlan, JobFails, AdminRevoke, AdminActivate, Forget
    <3> QED
      BY <3>1, Zenon
  <2> QED
    BY <2>1, <2>2
<1>5. CacheTypeOK'
  <2>1. notice' \in [pc : {"idle", "forget", "mark"}, since : Nat]
    BY <1>2 DEF ChangePlan, JobFails, AdminRevoke, AdminActivate, Forget, MarkForgotten, Idle
  <2>2. key' \in {"active", "inactive"} /\ plan' \in Plans \cup {NoPlan}
    BY <1>2 DEF ChangePlan, JobFails, AdminRevoke, AdminActivate, Forget, MarkForgotten
  <2>3. jobs' \in 0..MaxJobs /\ changes' \in 0..MaxChanges
    BY <1>2 DEF ChangePlan, JobFails, AdminRevoke, AdminActivate, Forget, MarkForgotten, Change, Dispatch
  <2>4. entry' \in [profile : Profile, until : Nat] /\ marker' \in Nat
    BY <1>2, <1>3, <1>4
  <2> QED
    BY <1>1, <2>1, <2>2, <2>3, <2>4 DEF CacheInv, CacheTypeOK
<1>6. HistoryInv' /\ Grown
  BY <1>1, <1>2, <1>5, HistoryGrows
<1>7. MarkerInv'
  <2>1. CASE marker' = marker
    BY <1>1, <1>6, <2>1, Kept
  <2>2. CASE MarkForgotten /\ marker' = now + NegativeTtl
    <3>1. refused' = now
      BY <1>1, <2>2 DEF Observe, MarkForgotten
    <3> QED
      BY <1>2, <2>2, <3>1 DEF MarkerInv
  <2> QED
    BY <1>4, <2>1, <2>2
<1> QED
  BY <1>1, <1>3, <1>5, <1>6, <1>7, Kept DEF CacheInv, RequestInv, SyncInv

\* Time passes: nobody becomes too old, and nothing else changes.
LEMMA TickKeeps ==
  ASSUME CacheInv, Observe, Tick
  PROVE  CacheInv'
<1> USE TimesAreNumbers DEF Tick, tables, redis, work
<1>1. now \in Nat /\ now' = now + 1
  BY DEF CacheInv, CacheTypeOK
<1>2. CacheTypeOK'
  BY <1>1 DEF CacheInv, CacheTypeOK
<1>3. HistoryInv' /\ Grown
  BY <1>1, <1>2, HistoryGrows
<1> QED
  BY <1>2, <1>3, Kept DEF CacheInv, RequestInv, SyncInv

\* At first the row is true and Redis knows nothing.
LEMMA CacheInitHolds == CacheInit => CacheInv
<1> SUFFICES ASSUME CacheInit PROVE CacheInv
  OBVIOUS
<1> USE TimesAreNumbers, PlanAssumption DEF CacheInit
<1>1. CacheTypeOK
  BY DEF CacheTypeOK, Profile, Nothing, NoEntry, Resting, Asleep, Idle
<1>2. HistoryInv
  BY DEF HistoryInv, Values, Shown
<1>3. RequestInv
  BY DEF RequestInv, RequestRight, Young, Resting
<1>4. SyncInv
  BY DEF SyncInv, SyncRight, Young, Asleep
<1>5. EntryInv /\ MarkerInv
  BY DEF EntryInv, MarkerInv, NoEntry, Nothing, Valid
<1> QED
  BY <1>1, <1>2, <1>3, <1>4, <1>5 DEF CacheInv

LEMMA CacheSteps ==
  ASSUME CacheInv, CacheNext
  PROVE  CacheInv'
BY RequestSteps, SyncSteps, OtherSteps, TickKeeps DEF CacheNext

----------------------------------------------------------------------------
(* The gateway *)

\* The inductive invariant: one part moves and the other stands still.
IInv == part \in {"breaker", "cache"} /\ BreakerInv /\ CacheInv

LEMMA GatewayInvariant == Spec => []IInv
<1>1. Init => IInv
  BY BreakerInitHolds, CacheInitHolds DEF Init, IInv
<1>2. IInv /\ [Next]_gatewayVars => IInv'
  <2> SUFFICES ASSUME IInv, [Next]_gatewayVars PROVE IInv'
    OBVIOUS
  <2>1. UNCHANGED breakerVars => BreakerInv'
    BY DEF IInv, breakerVars, breaker, BreakerInv, BreakerTypeOK, CounterNeverOverstates
  <2>2. UNCHANGED cacheVars => CacheInv'
    BY DEF IInv, cacheVars, tables, redis, work, history, CacheInv, CacheTypeOK, HistoryInv, RequestInv, RequestRight,
           SyncInv, SyncRight, EntryInv, MarkerInv, Young, Valid, Shown
  <2>3. UNCHANGED part
    BY DEF Next, gatewayVars
  <2>4. CASE BreakerNext /\ UNCHANGED cacheVars
    BY <2>2, <2>3, <2>4, BreakerSteps DEF IInv
  <2>5. CASE CacheNext /\ UNCHANGED breakerVars
    BY <2>1, <2>3, <2>5, CacheSteps DEF IInv
  <2>6. CASE UNCHANGED gatewayVars
    BY <2>1, <2>2, <2>6 DEF IInv, gatewayVars
  <2> QED
    BY <2>4, <2>5, <2>6 DEF Next
<1> QED
  BY <1>1, <1>2, PTL DEF Spec

\* Every variable has its type.
THEOREM GatewayTypes == Spec => []TypeOK
<1>1. IInv => TypeOK
  BY DEF IInv, BreakerInv, CacheInv, TypeOK
<1> QED
  BY <1>1, GatewayInvariant, PTL

\* The breaker's counter never exceeds the failures since the last success (circuitBreaker.js:14).
THEOREM CounterHonest == Spec => []CounterNeverOverstates
<1>1. IInv => CounterNeverOverstates
  BY DEF IInv, BreakerInv
<1> QED
  BY <1>1, GatewayInvariant, PTL

\* What the gateway accepts was in a table at most a time to live and a latency ago, whatever
\* interleaves (gatewayAccess.js:71).
THEOREM FreshAnswers == Spec => []AnswersAreFresh
<1>1. IInv => AnswersAreFresh
  <2> SUFFICES ASSUME CacheInv PROVE AnswersAreFresh
    BY DEF IInv
  <2> USE TimesAreNumbers
  <2>1. now \in Int /\ held \in [Values -> Int]
    BY DEF CacheInv, CacheTypeOK, HistoryInv
  <2>2. Hit => Fresh(entry.profile, AuthTtl + Latency)
    <3> SUFFICES ASSUME Hit, NEW c \in {entry.profile.status, entry.profile.plan}
                 PROVE  now - held[c] <= AuthTtl + Latency
      BY DEF Fresh
    <3>1. entry.until \in Int /\ entry.profile \in Profile /\ now < entry.until /\ Valid(entry.profile)
      BY DEF Hit, Live, CacheInv, CacheTypeOK
    <3>2. entry.until <= held[c] + AuthTtl + Latency /\ c \in Values
      BY <3>1, ValidHasValues DEF CacheInv, EntryInv
    <3> QED
      BY <2>1, <3>1, <3>2
  <2>3. ASSUME NEW r \in Requests, req[r].pc \in {"clear", "fill"}
        PROVE  Fresh(req[r].profile, Latency)
    <3> SUFFICES ASSUME NEW c \in {req[r].profile.status, req[r].profile.plan}
                 PROVE  now - held[c] <= Latency
      BY DEF Fresh
    <3>1. req[r].since \in Int /\ req[r].profile \in Profile /\ RequestRight(req[r])
      BY DEF CacheInv, CacheTypeOK, RequestInv
    <3>2. req[r].since <= held[c] /\ c \in Values /\ now <= req[r].since + Latency
      BY <2>3, <3>1, ValidHasValues DEF RequestRight, Young
    <3> QED
      BY <2>1, <3>1, <3>2
  <2> QED
    BY <2>2, <2>3 DEF AnswersAreFresh
<1> QED
  BY <1>1, GatewayInvariant, PTL

\* A refusal without a look at the table had its reason at most a negative time to live and a
\* latency ago (gatewayAccess.js:81).
THEOREM EarnedRefusals == Spec => []RefusalsAreEarned
<1>1. IInv => RefusalsAreEarned
  <2> SUFFICES ASSUME CacheInv, Live(marker) PROVE now - refused <= NegativeTtl + Latency
    BY DEF IInv, RefusalsAreEarned
  <2>1. now \in Nat /\ marker \in Nat /\ refused \in Int /\ now < marker
    BY DEF CacheInv, CacheTypeOK, HistoryInv, Live
  <2>2. marker <= refused + NegativeTtl + Latency
    BY <2>1 DEF CacheInv, MarkerInv
  <2> QED
    BY <2>1, <2>2, TimesAreNumbers
<1> QED
  BY <1>1, GatewayInvariant, PTL
=============================================================================
