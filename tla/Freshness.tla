----------------------------- MODULE Freshness -----------------------------
(***************************************************************************)
(* How old a metadata copy may get: the clocks of internal/mirror.         *)
(*                                                                         *)
(* The mirror keeps a metadata object for METADATA_CACHE_SECONDS.  It does *)
(* not note when it last asked upstream about a copy: the age is read off  *)
(* the time the file in the disk cache was written, the time S3 gives the  *)
(* object (its upload), the LastModified of a cached head, which is one of *)
(* these two, and the map "validated".  All of them are local times, also  *)
(* the one that is sent to upstream as If-Modified-Since.                  *)
(*                                                                         *)
(* One metadata object, which upstream always has, and GETs of it without  *)
(* a Range header; Mirror has the other requests and the negative cache.   *)
(* S3 answers what it is asked; only storing may fail (Mirror has the rest)*)
(* Clocks agree.  A handler may be overtaken by time, by Lag at most.      *)
(***************************************************************************)
EXTENDS Integers

CONSTANTS
    Requests,       \* handlers; each handles one request after another
    Nobody,         \* no handler
    TTL,            \* METADATA_CACHE_SECONDS
    Lag,            \* bound: how long a handler or its goroutine takes
    MaxTime,        \* bound: the clock stops
    MaxVersion,     \* bound: upstream publishes versions 1..MaxVersion
    LastNews,       \* bound: and none after this time
    MaxRenewals,    \* bound: see renewed
    MaxRestarts,    \* bound: restarts of the process
    Disks,          \* {TRUE}: LOCAL_CACHE_BYTES # 0; {FALSE}: it is 0; or both
    Validators,     \* how upstream treats If-Modified-Since (see Unmodified)
    Lengths,        \* how long the versions are: functions [Versions -> Nat]
    UpstreamFails,  \* upstream may answer with an error
    StoreFails      \* an upload may fail, and so may writing the spool file

ASSUME FreshnessAssumption ==
    /\ Nobody \notin Requests
    /\ {TTL, Lag, MaxTime, LastNews, MaxRenewals, MaxRestarts} \subseteq Nat
    /\ MaxVersion \in Nat \ {0}
    /\ Disks \subseteq BOOLEAN /\ {UpstreamFails, StoreFails} \subseteq BOOLEAN
    /\ Lengths \subseteq [1 .. MaxVersion -> Nat]
    /\ Validators \subseteq {"since", "never"}

VARIABLES
    now,        \* the time
    published,  \* [1..MaxVersion -> time version v was published; NotYet]
    s3,         \* the object in the bucket, and when it was uploaded
    disk,       \* the file in the disk cache, and when it was written
    heads,      \* the cached head, its LastModified, and when it expires
    validated,  \* when the object was last marked validated, or Never
    inflight,   \* the leader of the registered flight, or Nobody
    pc, started, held, flight, pop, \* of each handler: where it is, since when, the
                \* copy in its hands, the leader it waited for, and the version its
                \* populate goroutine writes; 0: none
    asked,      \* when upstream was last asked for the object (not in the code)
    vain,       \* when upstream was last asked in vain, or Never: S3 had a replaced
                \* version and kept it, because upstream failed, or the copy passed for
                \* unmodified, or the new version was lost (not in the code)
    renewed,    \* copies S3 gave that were written to the disk since (not in the code)
    restarts,
    enabled, validator, lengthOf    \* chosen once

local   == <<started, held, flight>>
bounds  == <<restarts, enabled, validator, lengthOf>>
vars    == <<now, published, s3, disk, heads, validated, inflight, pc, local, pop,
             asked, vain, renewed, bounds>>

Never   == -1
NotYet  == MaxTime + 1
Time    == 0 .. MaxTime
Versions == 1 .. MaxVersion

(* A version and the time that belongs to the copy.                        *)
NoCopy  == [ver |-> 0, at |-> 0]
Copies  == [ver : 0 .. MaxVersion, at : Time]
CopyOf(v, t) == [ver |-> v, at |-> t]
NoHead  == [ver |-> 0, at |-> 0, exp |-> 0]

Current == CHOOSE v \in Versions :
    published[v] # NotYet /\ \A u \in Versions : u > v => published[u] = NotYet

Within(t) == now - t <= TTL

Init ==
    /\ now = 0
    /\ published = [v \in Versions |-> IF v = 1 THEN 0 ELSE NotYet]
    /\ s3 = NoCopy /\ disk = NoCopy /\ heads = NoHead /\ validated = Never
    /\ inflight = Nobody
    /\ pc = [r \in Requests |-> "idle"]
    /\ started = [r \in Requests |-> 0]
    /\ held = [r \in Requests |-> NoCopy]
    /\ flight = [r \in Requests |-> Nobody]
    /\ pop = [r \in Requests |-> 0]
    /\ asked = 0 /\ vain = Never /\ renewed = 0 /\ restarts = 0
    /\ enabled \in Disks /\ validator \in Validators /\ lengthOf \in Lengths

-----------------------------------------------------------------------------
Busy(r) == pc[r] # "idle" \/ pop[r] # 0

Tick ==
    /\ now < MaxTime
    /\ \A r \in Requests : Busy(r) => now < started[r] + Lag
    /\ now' = now + 1
    /\ UNCHANGED <<published, s3, disk, heads, validated, inflight, pc, local, pop,
                   asked, vain, renewed, bounds>>

Publish ==
    /\ Current < MaxVersion /\ now <= LastNews
    /\ published' = [published EXCEPT ![Current + 1] = now]
    /\ UNCHANGED <<now, s3, disk, heads, validated, inflight, pc, local, pop,
                   asked, vain, renewed, bounds>>

-----------------------------------------------------------------------------
(* The pieces handlers are made of.                                        *)

Step(r, from, to) ==
    /\ pc[r] = from
    /\ pc' = [pc EXCEPT ![r] = to]
    /\ UNCHANGED <<now, published, bounds>>

(* Mutant: the head of a file in the disk cache counts from now.           *)
RememberFromNow(copy) == heads' = [ver |-> copy.ver, at |-> now, exp |-> now + TTL]
Remember(copy) == heads' = [ver |-> copy.ver, at |-> copy.at, exp |-> now + TTL]

(* The handler has answered: the values it held are gone.                  *)
Done(r, from) ==
    /\ Step(r, from, "idle")
    /\ held' = [held EXCEPT ![r] = NoCopy]
    /\ flight' = [flight EXCEPT ![r] = Nobody]

(* And it leaves no goroutine behind.                                      *)
Ended(r) == started' = [started EXCEPT ![r] = 0]

Waited(r) == flight[r] # Nobody

(* headCache.Get at the given place: an entry, an expired one, or none.    *)
GetHead(r, from, hit, miss) ==
    /\ \/ /\ heads # NoHead /\ now <= heads.exp
          /\ Step(r, from, hit)
          /\ held' = [held EXCEPT ![r] = CopyOf(heads.ver, heads.at)]
       \/ /\ heads # NoHead /\ now > heads.exp
          /\ Step(r, from, "expire")
          /\ UNCHANGED held
       \/ /\ heads = NoHead
          /\ Step(r, from, miss)
          /\ UNCHANGED held
    /\ UNCHANGED <<s3, disk, heads, validated, inflight, started, flight, pop,
                   asked, vain, renewed>>

-----------------------------------------------------------------------------
(* ServeHTTP, tryDisk.                                                     *)

Arrive(r) ==
    /\ ~Busy(r)
    /\ Step(r, "idle", "disk")
    /\ started' = [started EXCEPT ![r] = now]
    /\ flight' = [flight EXCEPT ![r] = Nobody]
    /\ UNCHANGED <<s3, disk, heads, validated, inflight, held, pop, asked, vain, renewed>>

DiskLookup(r) ==
    /\ IF enabled /\ disk # NoCopy
       THEN /\ Step(r, "disk", IF Within(disk.at) THEN "diskserve" ELSE "diskold")
            /\ held' = [held EXCEPT ![r] = disk]
       ELSE Step(r, "disk", "heads") /\ UNCHANGED held
    /\ UNCHANGED <<s3, disk, heads, validated, inflight, started, flight, pop,
                   asked, vain, renewed>>

(* Delete takes whatever file is there by then.                            *)
DiskExpired(r) ==
    /\ Step(r, "diskold", "heads")
    /\ disk' = NoCopy
    /\ held' = [held EXCEPT ![r] = NoCopy]
    /\ UNCHANGED <<s3, heads, validated, inflight, started, flight, pop, asked, vain, renewed>>

OtherLength(copy) ==
    /\ heads # NoHead /\ now <= heads.exp
    /\ lengthOf[heads.ver] > 0 /\ lengthOf[heads.ver] # lengthOf[copy.ver]

(* A file whose length is not the cached head's is deleted; otherwise the  *)
(* file is served and its head cached.                                     *)
DiskServe(r) ==
    /\ \/ /\ Step(r, "diskserve", "diskold")
          /\ OtherLength(held[r])
          /\ UNCHANGED <<heads, local>>
       \/ /\ Done(r, "diskserve") /\ Ended(r)
          /\ ~OtherLength(held[r])
          /\ Remember(held[r])
    /\ UNCHANGED <<s3, disk, validated, inflight, pop, asked, vain, renewed>>

(* A request that waited for a flight does not check the head's age.       *)
HeadCacheGet(r) == GetHead(r, "heads", IF Waited(r) THEN "get" ELSE "fresh", "s3head")

(* The expired entry was seen under the read lock and is deleted under the *)
(* write lock: by then it may be another.                                  *)
DeleteExpired(r) ==
    /\ Step(r, "expire", "s3head")
    /\ heads' = NoHead
    /\ UNCHANGED <<s3, disk, validated, inflight, local, pop, asked, vain, renewed>>

S3Head(r) ==
    /\ \/ /\ s3 # NoCopy
          /\ Step(r, "s3head", "remember")
          /\ held' = [held EXCEPT ![r] = s3]
          /\ UNCHANGED <<started, flight>>
       \/ s3 = NoCopy /\ Waited(r) /\ Done(r, "s3head") /\ Ended(r)
       \/ s3 = NoCopy /\ ~Waited(r) /\ Step(r, "s3head", "join") /\ UNCHANGED local
    /\ UNCHANGED <<s3, disk, heads, validated, inflight, pop, asked, vain, renewed>>

RememberS3Head(r) ==
    /\ Step(r, "remember", IF Waited(r) THEN "get" ELSE "fresh")
    /\ Remember(held[r])
    /\ UNCHANGED <<s3, disk, validated, inflight, local, pop, asked, vain, renewed>>

-----------------------------------------------------------------------------
(* s3ObjectIsFresh and revalidateMetadata.                                 *)

Fresh(copy) == (validated # Never /\ Within(validated)) \/ Within(copy.at)

CheckFresh(r) ==
    /\ Step(r, "fresh", IF Fresh(held[r]) THEN "get" ELSE "reval")
    /\ UNCHANGED <<s3, disk, heads, validated, inflight, local, pop, asked, vain, renewed>>

(* "since": 304 unless the object was modified after If-Modified-Since.    *)
(* "never": a server that compares for equality, which a local time only   *)
(* meets by chance.  Then the copy is kept if it is as long as the current *)
(* version and that one was not published after the copy's local time.     *)
Unmodified(copy) ==
    /\ validator = "since" \/ lengthOf[copy.ver] = lengthOf[Current]
    /\ published[Current] <= copy.at

(* Nothing is missed when S3 has the current version.                      *)
InVain == vain' = IF s3.ver = Current THEN vain ELSE now
UpstreamError == UpstreamFails /\ InVain

Revalidate(r) ==
    /\ \/ /\ Step(r, "reval", "mark")
          /\ Unmodified(held[r])
          /\ InVain
       \/ Step(r, "reval", "stale") /\ ~Unmodified(held[r]) /\ UNCHANGED vain
       \/ Step(r, "reval", "mark") /\ UpstreamError
    /\ asked' = now /\ renewed' = 0
    /\ UNCHANGED <<s3, disk, heads, validated, inflight, local, pop>>

(* Mutant: the map holds the time until which the object is valid.         *)
MarkValidUntil(r) ==
    /\ Step(r, "mark", "get")
    /\ validated' = now + TTL
    /\ UNCHANGED <<s3, disk, heads, inflight, local, pop, asked, vain, renewed>>

(* Kept, on an error too.                                                  *)
MarkValidated(r) ==
    /\ Step(r, "mark", "get")
    /\ validated' = now
    /\ UNCHANGED <<s3, disk, heads, inflight, local, pop, asked, vain, renewed>>

(* Mutant: the copy that was found old is served once more.                *)
DropAndServe(r) ==
    /\ Step(r, "stale", "get")
    /\ heads' = NoHead
    /\ disk' = NoCopy
    /\ held' = [held EXCEPT ![r] = NoCopy]
    /\ UNCHANGED <<s3, validated, inflight, started, flight, pop, asked, vain, renewed>>

DropStale(r) ==
    /\ Step(r, "stale", "join")
    /\ heads' = NoHead
    /\ disk' = NoCopy
    /\ held' = [held EXCEPT ![r] = NoCopy]
    /\ UNCHANGED <<s3, validated, inflight, started, flight, pop, asked, vain, renewed>>

(* streamS3: the body, which a goroutine writes to the disk meanwhile, and *)
(* perhaps when the handler has returned.                                  *)
StreamS3(r) ==
    /\ Done(r, "get")
    /\ IF enabled
       THEN pop' = [pop EXCEPT ![r] = s3.ver] /\ UNCHANGED started
       ELSE Ended(r) /\ UNCHANGED pop
    /\ UNCHANGED <<s3, disk, heads, validated, inflight, asked, vain, renewed>>

Populate(r) ==
    /\ pop[r] # 0
    /\ \/ /\ renewed < MaxRenewals
          /\ disk' = CopyOf(pop[r], now)
          /\ renewed' = renewed + 1
       \/ UNCHANGED <<disk, renewed>>
    /\ pop' = [pop EXCEPT ![r] = 0]
    /\ Ended(r)
    /\ UNCHANGED <<now, published, s3, heads, validated, inflight, pc, held, flight,
                   asked, vain, bounds>>

-----------------------------------------------------------------------------
(* fetchUpstreamAndCache.                                                  *)

Join(r) ==
    /\ IF inflight = Nobody
       THEN Step(r, "join", "upget") /\ inflight' = r /\ UNCHANGED flight
       ELSE /\ Step(r, "join", "wait")
            /\ flight' = [flight EXCEPT ![r] = inflight]
            /\ UNCHANGED inflight
    /\ UNCHANGED <<s3, disk, heads, validated, started, held, pop, asked, vain, renewed>>

UpstreamGet(r) ==
    /\ \/ /\ Step(r, "upget", "upload")
          /\ held' = [held EXCEPT ![r] = CopyOf(Current, now)]
          /\ UNCHANGED vain
       \/ Step(r, "upget", "leave") /\ UpstreamError /\ UNCHANGED held
    /\ asked' = now /\ renewed' = 0
    /\ UNCHANGED <<s3, disk, heads, validated, inflight, started, flight, pop>>

(* uploadSpool.  An upload that fails may have been applied; no head and no*)
(* file is kept then, nor is the copy validated.                           *)
Upload(r) ==
    /\ \/ /\ s3' = CopyOf(held[r].ver, now)
          /\ \/ Step(r, "upload", "stored") /\ UNCHANGED held
             \/ StoreFails /\ Step(r, "upload", "leave") /\ held' = [held EXCEPT ![r] = NoCopy]
          /\ UNCHANGED vain
       \/ /\ StoreFails /\ InVain
          /\ Step(r, "upload", "leave")
          /\ held' = [held EXCEPT ![r] = NoCopy]
          /\ UNCHANGED s3
    /\ UNCHANGED <<disk, heads, validated, inflight, started, flight, pop, asked, renewed>>

Stored(r) ==
    /\ Step(r, "stored", "populate")
    /\ validated' = now
    /\ UNCHANGED <<s3, disk, heads, inflight, local, pop, asked, vain, renewed>>

PopulateFile(r) ==
    /\ Step(r, "populate", "lead")
    /\ disk' \in IF enabled THEN {disk, CopyOf(held[r].ver, now)} ELSE {disk}
    /\ UNCHANGED <<s3, heads, validated, inflight, local, pop, asked, vain, renewed>>

LeaderServes(r) ==
    /\ Step(r, "lead", "leave")
    /\ Remember(CopyOf(held[r].ver, now))
    /\ held' = [held EXCEPT ![r] = NoCopy]
    /\ UNCHANGED <<s3, disk, validated, inflight, started, flight, pop, asked, vain, renewed>>

(* The flight leaves the map, its channel is closed and wakes all waiters. *)
LeaveFlight(r) ==
    /\ pc[r] = "leave"
    /\ pc' = [q \in Requests |-> IF q = r THEN "idle"
                                 ELSE IF pc[q] = "wait" /\ flight[q] = r THEN "disk" ELSE pc[q]]
    /\ inflight' = Nobody
    /\ Ended(r)
    /\ UNCHANGED <<now, published, bounds, s3, disk, heads, validated, held, flight, pop,
                   asked, vain, renewed>>

-----------------------------------------------------------------------------
Evict ==
    /\ disk # NoCopy
    /\ disk' = NoCopy
    /\ UNCHANGED <<now, published, s3, heads, validated, inflight, pc, local, pop,
                   asked, vain, renewed, bounds>>

(* A handler has learnt that the copy is old and has not replaced it yet.  *)
Fetching == inflight # Nobody \/ \E r \in Requests : pc[r] \in {"stale", "join"}

(* The maps of the process are empty, the bucket and the disk as they were.*)
Restart ==
    /\ restarts < MaxRestarts
    /\ restarts' = restarts + 1
    /\ heads' = NoHead /\ validated' = Never /\ inflight' = Nobody
    /\ pc' = [r \in Requests |-> "idle"]
    /\ started' = [r \in Requests |-> 0]
    /\ held' = [r \in Requests |-> NoCopy]
    /\ flight' = [r \in Requests |-> Nobody]
    /\ pop' = [r \in Requests |-> 0]
    /\ IF Fetching THEN InVain ELSE UNCHANGED vain
    /\ UNCHANGED <<now, published, s3, disk, asked, renewed, enabled, validator, lengthOf>>

Handle(r) ==
    \/ Arrive(r) \/ DiskLookup(r) \/ DiskExpired(r) \/ DiskServe(r)
    \/ HeadCacheGet(r) \/ DeleteExpired(r) \/ S3Head(r) \/ RememberS3Head(r)
    \/ CheckFresh(r) \/ Revalidate(r) \/ MarkValidated(r) \/ DropStale(r)
    \/ StreamS3(r) \/ Populate(r)
    \/ Join(r) \/ UpstreamGet(r) \/ Upload(r) \/ Stored(r) \/ PopulateFile(r)
    \/ LeaderServes(r) \/ LeaveFlight(r)

Next == Tick \/ Publish \/ Evict \/ Restart \/ \E r \in Requests : Handle(r)

Spec == Init /\ [][Next]_vars

-----------------------------------------------------------------------------
TypeOK ==
    /\ now \in Time
    /\ published \in [Versions -> Time \cup {NotYet}]
    /\ s3 \in Copies /\ disk \in Copies
    /\ heads \in [ver : 0 .. MaxVersion, at : Time, exp : Nat]
    /\ validated \in Time \cup {Never}
    /\ inflight \in Requests \cup {Nobody}
    /\ pc \in [Requests -> {"idle", "disk", "diskold", "diskserve", "heads", "expire", "s3head",
          "remember", "fresh", "reval", "mark", "stale", "get", "join", "wait", "upget",
          "upload", "stored", "populate", "lead", "leave"}]
    /\ started \in [Requests -> Time] /\ held \in [Requests -> Copies]
    /\ flight \in [Requests -> Requests \cup {Nobody}]
    /\ pop \in [Requests -> 0 .. MaxVersion]
    /\ asked \in Time /\ vain \in Time \cup {Never}
    /\ renewed \in 0 .. MaxRenewals /\ restarts \in 0 .. MaxRestarts

(* A step in which a handler answers with a copy, and its version.         *)
Answers(r) == \/ pc[r] \in {"diskserve", "get"} /\ pc'[r] = "idle" /\ restarts' = restarts
              \/ pc[r] = "lead" /\ pc'[r] = "leave"
Answer(r)  == IF pc[r] = "get" THEN s3.ver ELSE held[r].ver

(* What the TTL amounts to: one from the answer of upstream, and one more  *)
(* for every time the copy was written to the disk since, because each     *)
(* write restarts it.  Each of these may take as long as a handler does.   *)
Longest == (1 + renewed) * TTL + (2 + renewed) * Lag

(* Whatever fails, expires, is evicted or restarts: a request answered with*)
(* a copy finds upstream asked about it not longer ago than that           *)
(* (handler.go:162-184, 316-320, 344-348, 526-568).                        *)
AskedInTime == [][\A r \in Requests : Answers(r) => now - asked <= Longest]_vars

(* A copy that upstream has replaced is handed out no longer than this     *)
(* after the replacement, or after the last time upstream was asked in vain*)
(* since.  It takes StaleAtMost for upstream to be asked, and then either  *)
(* the new version gets into S3 or the question was in vain.  The leader   *)
(* that was answered before needs a Lag to upload the old copy, renewals   *)
(* take a TTL and a Lag each; then it expires, a handler that trusted it   *)
(* has a Lag and the one that finds it replaced another; a goroutine that  *)
(* is still writing the old copy restarts the TTL a last time, and takes a *)
(* Lag, as does the handler that serves the file                           *)
(* (handler.go:162-184, 316-320, 344-348, 526-572, spool.go:82-176).       *)
ReplacedAt(v) == IF v = MaxVersion THEN NotYet ELSE published[v + 1]
Since(v)      == IF vain <= ReplacedAt(v) THEN ReplacedAt(v) ELSE vain
StaleAtMost   == (2 + MaxRenewals) * TTL + (5 + MaxRenewals) * Lag

StaleIfAsked == [][\A r \in Requests :
    Answers(r) => now - Since(Answer(r)) <= StaleAtMost]_vars

(* "METADATA_CACHE_SECONDS ... Metadata revalidation interval"             *)
(* (README.md:358): a copy that upstream has replaced is found out by the  *)
(* next revalidation.                                                      *)
RevalidationFinds == [][\A r \in Requests :
    Answers(r) => now - ReplacedAt(Answer(r)) <= StaleAtMost]_vars
=============================================================================
