------------------------------- MODULE Mirror -------------------------------
(***************************************************************************)
(* The request path of the caching mirror: internal/mirror/handler.go and  *)
(* spool.go, with the head cache of headcache.go.                          *)
(*                                                                         *)
(* Every HTTP request is a process.  It looks for its object in the        *)
(* negative cache, on the local disk, in the in-memory head cache, in the  *)
(* S3 bucket and finally upstream; a miss is fetched by one leader per key *)
(* while the other requests for the key wait for it.  One action stands    *)
(* for the code between two accesses to state that other goroutines share  *)
(* (each access is under its own mutex, or is one S3, disk or upstream     *)
(* operation), so every interleaving of handlers is a behaviour here.      *)
(*                                                                         *)
(* An object is the version number upstream published it under; only its   *)
(* size is told apart, because sizes are what the code compares.  Time is  *)
(* left out: an expiry is an action that may happen.                       *)
(***************************************************************************)
EXTENDS Integers, FiniteSets

CONSTANTS
    Requests,       \* the requests, each handled once
    NoReq,          \* "no request"
    Packages,       \* keys for which upstream.IsMetadataKey is false
    Metadata,       \* keys for which it is true
    MaxVersion,     \* bound: upstream publishes versions 1..MaxVersion
    SizeOf,         \* SizeOf[v]: the length of version v
    MaxSpools,      \* MAX_CONCURRENT_SPOOLS
    Methods,        \* the methods clients use: a subset of {"GET", "HEAD"}
    RangeKinds,     \* what their Range headers select (see Unsatisfiable)
    DiskEnabled,    \* LOCAL_CACHE_BYTES # 0
    S3ReadsMayFail, \* S3 may answer a read with an error other than "not found"
    EdgesMayLag     \* upstream may answer 404 for an object it has published

Keys     == Packages \cup Metadata
Versions == 1 .. MaxVersion
NoHead   == -1                          \* a nil *store.ObjectHead

(* A file in the disk cache: the version its bytes come from and how many  *)
(* of them there are.  Version 0 is no file.                               *)
NoFile   == [ver |-> 0, size |-> 0]
Whole(v) == IF v = 0 THEN NoFile ELSE [ver |-> v, size |-> SizeOf[v]]
Files    == [ver : 0 .. MaxVersion, size : Nat]

ASSUME RequestsAssumption == IsFiniteSet(Requests) /\ NoReq \notin Requests
ASSUME KeysAssumption     == Packages \cap Metadata = {}
ASSUME VersionsAssumption == MaxVersion \in Nat /\ SizeOf \in [Versions -> Nat]
ASSUME SpoolsAssumption   == MaxSpools \in Nat \ {0}
ASSUME ClientsAssumption  ==
    /\ Methods \subseteq {"GET", "HEAD"}
    /\ RangeKinds \subseteq {"full", "part", "outside"}
ASSUME FlagsAssumption    ==
    /\ DiskEnabled \in BOOLEAN
    /\ S3ReadsMayFail \in BOOLEAN
    /\ EdgesMayLag \in BOOLEAN

VARIABLES
    upstream,   \* [Keys -> 0..MaxVersion] what the official upstream serves; 0: nothing
    s3,         \* [Keys -> 0..MaxVersion] what the bucket holds
    disk,       \* [Keys -> Files] what the local disk cache holds
    heads,      \* [Keys -> size] the head cache; NoHead: no entry
    negative,   \* keys with an unexpired entry in the negative cache
    inflight,   \* [Keys -> leader of the flight registered for the key, or NoReq]
    done,       \* flights (named by their leader) whose channel is closed
    slots,      \* requests holding a token of spoolSem
    spool,      \* [Requests -> 0..MaxVersion] the leader's temporary file; 0: none
    pop,        \* [Requests -> Files] what the request's populate goroutine will install
    pc,         \* [Requests -> Locations]
    key, meth, rng, \* what the client asked for; chosen once
    hold,       \* [Requests -> size] the head in the handler's hands
    obj,        \* [Requests -> Files] the opened file or body in its hands
    flight,     \* [Requests -> the leader it waited for, or NoReq]
    answer      \* [Requests -> the response]

shared  == <<s3, disk, heads, negative>>
flights == <<inflight, done, slots, spool>>
locals  == <<hold, obj, flight>>
asked   == <<key, meth, rng>>
vars    == <<upstream, shared, flights, pop, pc, asked, locals, answer>>

(* Where a leader is while its flight is registered, and the part of it    *)
(* during which it holds a spool slot, then a temporary file.              *)
SlotLocations  == {"upget", "spooling", "upload", "stored", "populate"}
SpoolLocations == {"spooling", "upload", "stored", "populate", "lead", "serve"}
LeadLocations  == {"capacity", "slot", "leave"} \cup SlotLocations \cup SpoolLocations
Locations      == LeadLocations \cup
    {"new", "disk", "diskcheck", "diskserve", "front", "s3head", "remember",
     "fresh", "reval", "stale", "gone", "pkgget", "pkgserve", "s3get",
     "headmiss", "hwait", "hs3head", "uphead", "headneg", "join", "fwait",
     "fhead", "fs3head", "fneg", "close", "end"}

Outcomes == {"NONE", "NEGATIVE", "HIT-DISK", "HIT-S3", "MISS", "MISS-STORED",
             "CONFLICT", "RANGE-416", "COALESCE-FAIL", "FAILED", "NOT-FOUND"}

(* A response: its outcome, the body length it announces (NoHead when it   *)
(* announces none or a part) and the bytes it sends.                       *)
Answers  == [how : Outcomes, length : Nat \cup {NoHead}, body : Files]
NoAnswer == [how |-> "NONE", length |-> NoHead, body |-> NoFile]

(* The state after a start or a restart: the bucket and the disk kept what *)
(* they had, the maps of the process are empty (handler.New).              *)
Init ==
    /\ upstream \in [Keys -> 0 .. (IF MaxVersion = 0 THEN 0 ELSE 1)]
    /\ s3 \in [Keys -> 0 .. MaxVersion] /\ \A k \in Keys : s3[k] <= upstream[k]
    /\ disk \in [Keys -> {Whole(v) : v \in 0 .. MaxVersion}]
    /\ \A k \in Keys : disk[k].ver <= s3[k] /\ (disk[k].ver = 0 \/ DiskEnabled)
    /\ heads = [k \in Keys |-> NoHead]
    /\ negative = {}
    /\ inflight = [k \in Keys |-> NoReq]
    /\ done = {}
    /\ slots = {}
    /\ spool = [r \in Requests |-> 0]
    /\ pop = [r \in Requests |-> NoFile]
    /\ pc = [r \in Requests |-> "new"]
    /\ key \in [Requests -> Keys]
    /\ meth \in [Requests -> Methods]
    /\ rng \in [Requests -> RangeKinds]
    /\ hold = [r \in Requests |-> NoHead]
    /\ obj = [r \in Requests |-> NoFile]
    /\ flight = [r \in Requests |-> NoReq]
    /\ answer = [r \in Requests |-> NoAnswer]

-----------------------------------------------------------------------------
(* The pieces handlers are made of.                                        *)

(* A step of a handler leaves upstream and what was asked for alone.       *)
Goto(r, from, to) ==
    /\ pc[r] = from
    /\ pc' = [pc EXCEPT ![r] = to]
    /\ UNCHANGED <<upstream, asked>>

Reply(r, how, length, body) ==
    answer' = [answer EXCEPT ![r] = [how |-> how,
        length |-> IF rng[r] = "part" THEN NoHead ELSE length, body |-> body]]

(* The handler returns: the values it held are gone.                       *)
Return(r, from, how, length, body) ==
    /\ Goto(r, from, "end")
    /\ Reply(r, how, length, body)
    /\ hold' = [hold EXCEPT ![r] = NoHead]
    /\ obj'  = [obj EXCEPT ![r] = NoFile]
    /\ UNCHANGED flight

IsPackage(r) == key[r] \in Packages
IsHead(r)    == meth[r] = "HEAD"
IsFollower(r) == flight[r] # NoReq

(* parseBytesRange against an object of the given size: "full" is no Range *)
(* header, "part" selects bytes that exist in every non-empty version,     *)
(* "outside" starts past the end of all of them (ByteRange has the parser).*)
Unsatisfiable(r, size) == rng[r] = "outside" \/ (rng[r] = "part" /\ size = 0)

RememberHead(k, size) == heads' = [heads EXCEPT ![k] = size]
DropHead(k)           == heads' = [heads EXCEPT ![k] = NoHead]
DropFile(k)           == disk' = [disk EXCEPT ![k] = NoFile]

(* headResponseS3 and streamS3, once the head to serve from is known.  A   *)
(* HEAD that waited for a flight is answered without its Range header.     *)
ServeFromHead(r, from, size) ==
    IF IsHead(r)
    THEN IF Unsatisfiable(r, size) /\ ~IsFollower(r)
         THEN Return(r, from, "RANGE-416", NoHead, NoFile)
         ELSE Return(r, from, "HIT-S3", size, NoFile)
    ELSE /\ Goto(r, from, "s3get")
         /\ hold' = [hold EXCEPT ![r] = size]
         /\ UNCHANGED <<obj, flight, answer>>

-----------------------------------------------------------------------------
(* ServeHTTP and tryDisk.                                                  *)

Arrive(r) ==
    /\ IF key[r] \in negative
       THEN Return(r, "new", "NEGATIVE", NoHead, NoFile)
       ELSE Goto(r, "new", "disk") /\ UNCHANGED <<locals, answer>>
    /\ UNCHANGED <<shared, flights, pop>>

AfterDiskMiss(r) == IF IsFollower(r) THEN "fhead" ELSE "front"

(* Lookup opens the file: from here on its bytes cannot change.            *)
DiskLookup(r) ==
    /\ IF DiskEnabled /\ disk[key[r]] # NoFile
       THEN /\ Goto(r, "disk", "diskcheck")
            /\ obj' = [obj EXCEPT ![r] = disk[key[r]]]
       ELSE Goto(r, "disk", AfterDiskMiss(r)) /\ UNCHANGED obj
    /\ UNCHANGED <<shared, flights, pop, hold, flight, answer>>

(* An expired metadata file, and one whose size is not the head cache's,   *)
(* is deleted and counts as a miss.                                        *)
DiskCheck(r) ==
    /\ \/ /\ \/ key[r] \in Metadata
             \/ heads[key[r]] > 0 /\ heads[key[r]] # obj[r].size
          /\ Goto(r, "diskcheck", AfterDiskMiss(r))
          /\ DropFile(key[r])
          /\ obj' = [obj EXCEPT ![r] = NoFile]
       \/ /\ heads[key[r]] > 0 => heads[key[r]] = obj[r].size
          /\ Goto(r, "diskcheck", "diskserve")
          /\ UNCHANGED <<disk, obj>>
    /\ UNCHANGED <<s3, heads, negative, flights, pop, hold, flight, answer>>

DiskServe(r) ==
    /\ IF Unsatisfiable(r, obj[r].size)
       THEN Return(r, "diskserve", "RANGE-416", NoHead, NoFile) /\ UNCHANGED heads
       ELSE /\ Return(r, "diskserve", "HIT-DISK", obj[r].size,
                      IF IsHead(r) THEN NoFile ELSE obj[r])
            /\ RememberHead(key[r], obj[r].size)
    /\ UNCHANGED <<s3, disk, negative, flights, pop>>

(* heads.Get, first thing after a disk miss.                               *)
HeadCacheGet(r) ==
    /\ IF heads[key[r]] # NoHead
       THEN IF IsPackage(r)
            THEN ServeFromHead(r, "front", heads[key[r]])
            ELSE /\ Goto(r, "front", "fresh")
                 /\ hold' = [hold EXCEPT ![r] = heads[key[r]]]
                 /\ UNCHANGED <<obj, flight, answer>>
       ELSE /\ Goto(r, "front", IF IsPackage(r) /\ ~IsHead(r) THEN "pkgget" ELSE "s3head")
            /\ UNCHANGED <<locals, answer>>
    /\ UNCHANGED <<shared, flights, pop>>

(* store.Head on the bucket, at the given place of the handler: found, or  *)
(* not found or failed.                                                    *)
S3HeadAt(r, from, missTo) ==
    /\ \/ /\ s3[key[r]] # 0
          /\ Goto(r, from, "remember")
          /\ hold' = [hold EXCEPT ![r] = SizeOf[s3[key[r]]]]
       \/ /\ s3[key[r]] = 0 \/ S3ReadsMayFail
          /\ Goto(r, from, missTo)
          /\ UNCHANGED hold
    /\ UNCHANGED <<shared, flights, pop, obj, flight, answer>>

S3Head(r) == S3HeadAt(r, "s3head", IF IsHead(r) THEN "headmiss" ELSE "join")

(* The head read from S3 is cached, whatever was cached meanwhile.         *)
RememberS3Head(r) ==
    /\ RememberHead(key[r], hold[r])
    /\ IF IsPackage(r) \/ IsFollower(r)
       THEN ServeFromHead(r, "remember", hold[r])
       ELSE Goto(r, "remember", "fresh") /\ UNCHANGED <<locals, answer>>
    /\ UNCHANGED <<s3, disk, negative, flights, pop>>

(* s3ObjectIsFresh, whose verdict is the clock's.                          *)
CheckFresh(r) ==
    /\ \/ ServeFromHead(r, "fresh", hold[r])
       \/ Goto(r, "fresh", "reval") /\ UNCHANGED <<locals, answer>>
    /\ UNCHANGED <<shared, flights, pop>>

(* revalidateMetadata: a conditional HEAD upstream.  Not modified, an      *)
(* error, or the same length and date keep the copy; 404 and another       *)
(* object drop it.                                                         *)
Revalidate(r) ==
    /\ \/ ServeFromHead(r, "reval", hold[r])
       \/ /\ \/ Goto(r, "reval", "stale") /\ upstream[key[r]] # 0
             \/ Goto(r, "reval", "gone") /\ (upstream[key[r]] = 0 \/ EdgesMayLag)
          /\ UNCHANGED <<locals, answer>>
    /\ UNCHANGED <<shared, flights, pop>>

(* heads.Delete and disk.Delete, and rememberNegative after a 404.         *)
DropStale(r) ==
    /\ \/ /\ Goto(r, "stale", IF IsHead(r) THEN "headmiss" ELSE "join")
          /\ UNCHANGED negative
       \/ /\ Goto(r, "gone", IF IsHead(r) THEN "headmiss" ELSE "join")
          /\ negative' = negative \cup {key[r]}
    /\ DropHead(key[r])
    /\ DropFile(key[r])
    /\ UNCHANGED <<s3, flights, pop, locals, answer>>

-----------------------------------------------------------------------------
(* tryPackageGet and streamS3: bodies from the bucket, teed to the disk.   *)

(* A package GET asks S3 for the object without a HEAD.                    *)
PackageGet(r) ==
    LET v == s3[key[r]] IN
    /\ \/ /\ v # 0 /\ ~Unsatisfiable(r, SizeOf[v])
          /\ Goto(r, "pkgget", "pkgserve")
          /\ obj' = [obj EXCEPT ![r] = Whole(v)]
          /\ UNCHANGED <<hold, flight, answer>>
       \/ /\ v # 0 /\ Unsatisfiable(r, SizeOf[v])
          /\ Return(r, "pkgget", "RANGE-416", NoHead, NoFile)
       \/ /\ v = 0 \/ S3ReadsMayFail
          /\ Goto(r, "pkgget", "join")
          /\ UNCHANGED <<locals, answer>>
    /\ UNCHANGED <<shared, flights, pop>>

(* The goroutine started beside a full body receives a body of the given   *)
(* version and installs exactly size bytes of it, if there are as many.    *)
StartPopulate(r, v, size) ==
    pop' = IF DiskEnabled /\ rng[r] = "full" /\ size > 0 /\ size <= SizeOf[v]
           THEN [pop EXCEPT ![r] = [ver |-> v, size |-> size]]
           ELSE pop

PackageServe(r) ==
    /\ RememberHead(key[r], obj[r].size)
    /\ Return(r, "pkgserve", "HIT-S3", obj[r].size, obj[r])
    /\ StartPopulate(r, obj[r].ver, obj[r].size)
    /\ UNCHANGED <<s3, disk, negative, flights>>

(* The length announced and installed is the head's, the body S3's; a part *)
(* computed from the head may not exist in a shorter object.  An object    *)
(* that is not there, against what the head says, drops both copies of it. *)
StreamS3(r) ==
    LET v == s3[key[r]] IN
    \/ /\ Unsatisfiable(r, hold[r])
       /\ Return(r, "s3get", "RANGE-416", NoHead, NoFile)
       /\ UNCHANGED <<shared, flights, pop>>
    \/ /\ v # 0 /\ ~Unsatisfiable(r, hold[r])
       /\ Return(r, "s3get", "HIT-S3", hold[r], Whole(v))
       /\ StartPopulate(r, v, hold[r])
       /\ UNCHANGED <<shared, flights>>
    \/ /\ ~Unsatisfiable(r, hold[r])
       /\ v = 0 \/ S3ReadsMayFail \/ (rng[r] = "part" /\ SizeOf[v] < hold[r])
       /\ Return(r, "s3get", "FAILED", NoHead, NoFile)
       /\ IF v = 0 THEN DropHead(key[r]) /\ DropFile(key[r]) ELSE UNCHANGED <<disk, heads>>
       /\ UNCHANGED <<s3, negative, flights, pop>>

(* populateDisk in its goroutine: PutReader installs the file or gives up. *)
Populate(r) ==
    /\ pop[r] # NoFile
    /\ pop' = [pop EXCEPT ![r] = NoFile]
    /\ \/ disk' = [disk EXCEPT ![key[r]] = pop[r]]
       \/ UNCHANGED disk
    /\ UNCHANGED <<upstream, s3, heads, negative, flights, pc, asked, locals, answer>>

-----------------------------------------------------------------------------
(* headMiss: a HEAD that S3 did not answer.                                *)

HeadMiss(r) ==
    /\ IF inflight[key[r]] # NoReq
       THEN /\ Goto(r, "headmiss", "hwait")
            /\ flight' = [flight EXCEPT ![r] = inflight[key[r]]]
       ELSE Goto(r, "headmiss", "uphead") /\ UNCHANGED flight
    /\ UNCHANGED <<shared, flights, pop, hold, obj, answer>>

HeadWake(r) ==
    /\ flight[r] \in done
    /\ Goto(r, "hwait", "hs3head")
    /\ UNCHANGED <<shared, flights, pop, locals, answer>>

HeadAfterFlight(r) == S3HeadAt(r, "hs3head", "uphead")

UpstreamHead(r) ==
    /\ \/ /\ upstream[key[r]] # 0
          /\ Return(r, "uphead", "MISS", SizeOf[upstream[key[r]]], NoFile)
       \/ /\ upstream[key[r]] = 0 \/ EdgesMayLag
          /\ Goto(r, "uphead", "headneg")
          /\ UNCHANGED <<locals, answer>>
       \/ Return(r, "uphead", "FAILED", NoHead, NoFile)
    /\ UNCHANGED <<shared, flights, pop>>

(* The 404 is recorded when its response is handled, not when it was true. *)
HeadNotFound(r) ==
    /\ Return(r, "headneg", "NOT-FOUND", NoHead, NoFile)
    /\ negative' = negative \cup {key[r]}
    /\ UNCHANGED <<s3, disk, heads, flights, pop>>

-----------------------------------------------------------------------------
(* fetchUpstreamAndCache: one leader per key, the others wait for it.      *)

(* Mutant: a request does not look for a flight before it starts one.      *)
JoinAlone(r) ==
    /\ Goto(r, "join", "capacity")
    /\ inflight' = [inflight EXCEPT ![key[r]] = r]
    /\ UNCHANGED <<shared, done, slots, spool, pop, locals, answer>>

Join(r) ==
    /\ IF inflight[key[r]] # NoReq
       THEN /\ Goto(r, "join", "fwait")
            /\ flight' = [flight EXCEPT ![r] = inflight[key[r]]]
            /\ UNCHANGED inflight
       ELSE /\ Goto(r, "join", "capacity")
            /\ inflight' = [inflight EXCEPT ![key[r]] = r]
            /\ UNCHANGED flight
    /\ UNCHANGED <<shared, done, slots, spool, pop, hold, obj, answer>>

(* <-f.done: the follower starts over with the disk, the head cache and S3.*)
FollowerWake(r) ==
    /\ flight[r] \in done
    /\ Goto(r, "fwait", "disk")
    /\ UNCHANGED <<shared, flights, pop, locals, answer>>

(* Mutant: a follower without a cached head gives up before asking S3.     *)
FollowerHeadCacheOnly(r) ==
    /\ IF heads[key[r]] # NoHead
       THEN ServeFromHead(r, "fhead", heads[key[r]])
       ELSE Goto(r, "fhead", "fneg") /\ UNCHANGED <<locals, answer>>
    /\ UNCHANGED <<shared, flights, pop>>

FollowerHeadCache(r) ==
    /\ IF heads[key[r]] # NoHead
       THEN ServeFromHead(r, "fhead", heads[key[r]])
       ELSE Goto(r, "fhead", "fs3head") /\ UNCHANGED <<locals, answer>>
    /\ UNCHANGED <<shared, flights, pop>>

FollowerS3Head(r) == S3HeadAt(r, "fs3head", "fneg")

FollowerFails(r) ==
    /\ Return(r, "fneg", IF key[r] \in negative THEN "NEGATIVE" ELSE "COALESCE-FAIL",
              NoHead, NoFile)
    /\ UNCHANGED <<shared, flights, pop>>

-----------------------------------------------------------------------------
(* The leader: fetchAndUpload, uploadSpool, serveFromSpool.                *)

(* Mutants: a failing leader returns without the deferred calls that close *)
(* its flight, remove its file, or give its slot back.                     *)
GiveUpKeepsFlight(r, from, how) ==
    /\ Goto(r, from, "end")
    /\ Reply(r, how, NoHead, NoFile)
    /\ slots' = slots \ {r}
    /\ spool' = [spool EXCEPT ![r] = 0]
    /\ UNCHANGED <<disk, heads, inflight, done, pop, locals>>
GiveUpKeepsFile(r, from, how) ==
    /\ Goto(r, from, "leave")
    /\ Reply(r, how, NoHead, NoFile)
    /\ slots' = slots \ {r}
    /\ UNCHANGED <<disk, heads, inflight, done, spool, pop, locals>>
GiveUpKeepsSlot(r, from, how) ==
    /\ Goto(r, from, "leave")
    /\ Reply(r, how, NoHead, NoFile)
    /\ spool' = [spool EXCEPT ![r] = 0]
    /\ UNCHANGED <<disk, heads, inflight, done, slots, pop, locals>>

(* fetchAndUpload returns a status: its deferred calls remove the file and *)
(* give the slot back, and the status is written to the client.            *)
GiveUp(r, from, how) ==
    /\ Goto(r, from, "leave")
    /\ Reply(r, how, NoHead, NoFile)
    /\ slots' = slots \ {r}
    /\ spool' = [spool EXCEPT ![r] = 0]
    /\ UNCHANGED <<disk, heads, inflight, done, pop, locals>>

(* ensureSpoolCapacity(0).                                                 *)
Capacity(r) ==
    \/ /\ Goto(r, "capacity", "slot")
       /\ UNCHANGED <<shared, flights, pop, locals, answer>>
    \/ GiveUp(r, "capacity", "FAILED") /\ UNCHANGED <<s3, negative>>

(* Mutant: the semaphore has one token too many.                           *)
AcquireOneMore(r) ==
    /\ Cardinality(slots) <= MaxSpools
    /\ Goto(r, "slot", "upget")
    /\ slots' = slots \cup {r}
    /\ UNCHANGED <<shared, inflight, done, spool, pop, locals, answer>>

AcquireSlot(r) ==
    /\ Cardinality(slots) < MaxSpools
    /\ Goto(r, "slot", "upget")
    /\ slots' = slots \cup {r}
    /\ UNCHANGED <<shared, inflight, done, spool, pop, locals, answer>>

(* The client goes away while the leader queues for a slot.                *)
Cancelled(r) == GiveUp(r, "slot", "FAILED") /\ UNCHANGED <<s3, negative>>

(* Mutant: the 404 is recorded under the request, not under the key.       *)
UpstreamGetWrongName(r) ==
    \/ /\ upstream[key[r]] # 0
       /\ Goto(r, "upget", "spooling")
       /\ spool' = [spool EXCEPT ![r] = upstream[key[r]]]
       /\ UNCHANGED <<shared, inflight, done, slots, pop, locals, answer>>
    \/ /\ upstream[key[r]] = 0 \/ EdgesMayLag
       /\ GiveUp(r, "upget", "NOT-FOUND")
       /\ negative' = negative \cup {r}
       /\ UNCHANGED s3
    \/ GiveUp(r, "upget", "FAILED") /\ UNCHANGED <<s3, negative>>

(* Mutant: the flight ends once upstream has answered.                     *)
UpstreamGetLeaves(r) ==
    \/ /\ upstream[key[r]] # 0
       /\ Goto(r, "upget", "spooling")
       /\ spool' = [spool EXCEPT ![r] = upstream[key[r]]]
       /\ inflight' = [inflight EXCEPT ![key[r]] = NoReq]
       /\ UNCHANGED <<shared, done, slots, pop, locals, answer>>
    \/ GiveUp(r, "upget", "FAILED") /\ UNCHANGED <<s3, negative>>

(* The response header: an object, a 404, or a redirect, an error status,  *)
(* an object too large or no space for it.                                 *)
UpstreamGet(r) ==
    \/ /\ upstream[key[r]] # 0
       /\ Goto(r, "upget", "spooling")
       /\ spool' = [spool EXCEPT ![r] = upstream[key[r]]]
       /\ UNCHANGED <<shared, inflight, done, slots, pop, locals, answer>>
    \/ /\ upstream[key[r]] = 0 \/ EdgesMayLag
       /\ GiveUp(r, "upget", "NOT-FOUND")
       /\ negative' = negative \cup {key[r]}
       /\ UNCHANGED s3
    \/ GiveUp(r, "upget", "FAILED") /\ UNCHANGED <<s3, negative>>

(* The body is read to its end into the file, or the read, the write, the  *)
(* size limit or the sync fails.                                           *)
Spool(r) ==
    \/ /\ Goto(r, "spooling", "upload")
       /\ UNCHANGED <<shared, flights, pop, locals, answer>>
    \/ GiveUp(r, "spooling", "FAILED") /\ UNCHANGED <<s3, negative>>

(* A package whose size differs from the head the handler came with.       *)
Conflicts(r) == IsPackage(r) /\ hold[r] # NoHead /\ hold[r] # SizeOf[spool[r]]

(* uploadSpool up to PutObject: a conflicting package is not stored, the   *)
(* rest is, and a PutObject that fails may have been applied by S3.        *)
SkipConflict(r) ==
    /\ Goto(r, "upload", "lead")
    /\ DropHead(key[r])
    /\ DropFile(key[r])
    /\ slots' = slots \ {r}
    /\ UNCHANGED <<s3, negative, inflight, done, spool, pop, locals, answer>>

(* Mutant: a failed PutObject is taken for a success.                      *)
PutObjectUnchecked(r) ==
    /\ Goto(r, "upload", "stored")
    /\ s3' \in {s3, [s3 EXCEPT ![key[r]] = spool[r]]}
    /\ UNCHANGED <<disk, heads, negative, flights, pop, locals, answer>>

PutObject(r) ==
    \/ /\ Goto(r, "upload", "stored")
       /\ s3' = [s3 EXCEPT ![key[r]] = spool[r]]
       /\ UNCHANGED <<disk, heads, negative, flights, pop, locals, answer>>
    \/ /\ GiveUp(r, "upload", "FAILED")
       /\ s3' \in {s3, [s3 EXCEPT ![key[r]] = spool[r]]}
       /\ UNCHANGED negative

Upload(r) ==
    /\ pc[r] = "upload"
    /\ IF Conflicts(r) THEN SkipConflict(r) ELSE PutObject(r)

(* clearNegative, and markValidated for metadata.                          *)
Stored(r) ==
    /\ Goto(r, "stored", "populate")
    /\ negative' = negative \ {key[r]}
    /\ UNCHANGED <<s3, disk, heads, flights, pop, locals, answer>>

(* populateDiskFile, best effort; fetchAndUpload returns and its deferred  *)
(* call gives the slot back.                                               *)
PopulateFile(r) ==
    /\ Goto(r, "populate", "lead")
    /\ \/ /\ DiskEnabled /\ SizeOf[spool[r]] > 0
          /\ disk' = [disk EXCEPT ![key[r]] = Whole(spool[r])]
       \/ UNCHANGED disk
    /\ slots' = slots \ {r}
    /\ UNCHANGED <<s3, heads, negative, inflight, done, spool, pop, locals, answer>>

LeaderRemembers(r) ==
    /\ Goto(r, "lead", "serve")
    /\ RememberHead(key[r], SizeOf[spool[r]])
    /\ UNCHANGED <<s3, disk, negative, flights, pop, locals, answer>>

(* The body goes to the client from the file, which is then removed.       *)
ServeSpool(r) ==
    /\ Goto(r, "serve", "leave")
    /\ \/ /\ Unsatisfiable(r, SizeOf[spool[r]])
          /\ Reply(r, "RANGE-416", NoHead, NoFile)
       \/ /\ ~Unsatisfiable(r, SizeOf[spool[r]])
          /\ Reply(r, IF Conflicts(r) THEN "CONFLICT" ELSE "MISS-STORED",
                   SizeOf[spool[r]], Whole(spool[r]))
       \/ /\ ~Unsatisfiable(r, SizeOf[spool[r]])        \* os.Open fails
          /\ Reply(r, "FAILED", NoHead, NoFile)
    /\ spool' = [spool EXCEPT ![r] = 0]
    /\ UNCHANGED <<shared, inflight, done, slots, pop, locals>>

(* The deferred function: the flight leaves the map, then its channel is   *)
(* closed, and between the two a request may start the next flight.        *)
LeaveFlight(r) ==
    /\ Goto(r, "leave", "close")
    /\ inflight' = [inflight EXCEPT ![key[r]] = NoReq]
    /\ UNCHANGED <<shared, done, slots, spool, pop, locals, answer>>

(* Mutant: the flight leaves the map but its channel is never closed.      *)
CloseFlightForgotten(r) ==
    /\ Goto(r, "close", "end")
    /\ hold' = [hold EXCEPT ![r] = NoHead]
    /\ UNCHANGED <<shared, inflight, done, slots, spool, pop, obj, flight, answer>>

CloseFlight(r) ==
    /\ Goto(r, "close", "end")
    /\ done' = done \cup {r}
    /\ hold' = [hold EXCEPT ![r] = NoHead]
    /\ UNCHANGED <<shared, inflight, slots, spool, pop, obj, flight, answer>>

-----------------------------------------------------------------------------
(* What happens around the handlers.                                       *)

(* Upstream replaces an object, or publishes a new one.                    *)
Publish(k) ==
    /\ upstream[k] < MaxVersion
    /\ upstream' = [upstream EXCEPT ![k] = @ + 1]
    /\ UNCHANGED <<shared, flights, pop, pc, asked, locals, answer>>

(* The disk cache evicts the file to make room for another.                *)
DiskEvict(k) ==
    /\ disk[k] # NoFile
    /\ DropFile(k)
    /\ UNCHANGED <<upstream, s3, heads, negative, flights, pop, pc, asked,
                   locals, answer>>

(* A head expires (metadata) or is dropped when the head cache is full.    *)
HeadDropped(k) ==
    /\ heads[k] # NoHead
    /\ DropHead(k)
    /\ UNCHANGED <<upstream, s3, disk, negative, flights, pop, pc, asked,
                   locals, answer>>

NegativeExpires(k) ==
    /\ k \in negative
    /\ negative' = negative \ {k}
    /\ UNCHANGED <<upstream, s3, disk, heads, flights, pop, pc, asked,
                   locals, answer>>

-----------------------------------------------------------------------------
(* The steps a request takes on its own, then the two that wait for the    *)
(* network with no timeout in the code: upstream's body and the client.    *)
Handle(r) ==
    \/ Arrive(r) \/ DiskLookup(r) \/ DiskCheck(r) \/ DiskServe(r)
    \/ HeadCacheGet(r) \/ S3Head(r) \/ RememberS3Head(r) \/ CheckFresh(r)
    \/ Revalidate(r) \/ DropStale(r)
    \/ PackageGet(r) \/ PackageServe(r) \/ StreamS3(r)
    \/ HeadMiss(r) \/ HeadWake(r) \/ HeadAfterFlight(r) \/ UpstreamHead(r)
    \/ HeadNotFound(r)
    \/ Join(r) \/ FollowerWake(r) \/ FollowerHeadCache(r) \/ FollowerS3Head(r)
    \/ FollowerFails(r)
    \/ Capacity(r) \/ AcquireSlot(r) \/ UpstreamGet(r) \/ Upload(r) \/ Stored(r)
    \/ PopulateFile(r) \/ LeaderRemembers(r) \/ LeaveFlight(r) \/ CloseFlight(r)

Transfer(r) == Spool(r) \/ ServeSpool(r)

Around(k) == Publish(k) \/ DiskEvict(k) \/ HeadDropped(k) \/ NegativeExpires(k)

(* Every request has been handled and nothing is left to happen.           *)
Finished == (\A r \in Requests : pc[r] = "end") /\ UNCHANGED vars

Next ==
    \/ \E r \in Requests : Handle(r) \/ Transfer(r) \/ Cancelled(r) \/ Populate(r)
    \/ \E k \in Keys : Around(k)
    \/ Finished

(* The Go scheduler runs every runnable goroutine; a body that upstream    *)
(* sends, or that a client reads, ends one day.                            *)
Fairness == \A r \in Requests : WF_vars(Handle(r)) /\ WF_vars(Transfer(r))

Spec     == Init /\ [][Next]_vars
FairSpec == Spec /\ Fairness

-----------------------------------------------------------------------------
TypeOK ==
    /\ upstream \in [Keys -> 0 .. MaxVersion]
    /\ s3 \in [Keys -> 0 .. MaxVersion]
    /\ disk \in [Keys -> Files]
    /\ heads \in [Keys -> Nat \cup {NoHead}]
    /\ negative \subseteq Keys
    /\ inflight \in [Keys -> Requests \cup {NoReq}]
    /\ done \subseteq Requests
    /\ slots \subseteq Requests
    /\ spool \in [Requests -> 0 .. MaxVersion]
    /\ pop \in [Requests -> Files]
    /\ pc \in [Requests -> Locations]
    /\ key \in [Requests -> Keys]
    /\ meth \in [Requests -> Methods]
    /\ rng \in [Requests -> RangeKinds]
    /\ hold \in [Requests -> Nat \cup {NoHead}]
    /\ obj \in [Requests -> Files]
    /\ flight \in [Requests -> Requests \cup {NoReq}]
    /\ answer \in [Requests -> Answers]

(* A flight is registered exactly while its leader is between joining and  *)
(* leaving, so two requests never fetch one key at the same time, and a    *)
(* leader that fails or is cancelled leaves no flight behind that would    *)
(* block the key (handler.go:675-715).                                     *)
OneFetchPerKey ==
    \A k \in Keys, r \in Requests :
        inflight[k] = r <=> (key[r] = k /\ pc[r] \in LeadLocations)

(* spoolSem: the tokens taken are those of the leaders between the upstream*)
(* request and the end of fetchAndUpload, on every path out of it, and     *)
(* never more than MAX_CONCURRENT_SPOOLS (spool.go:51-56).                 *)
SpoolLimit ==
    /\ slots = {r \in Requests : pc[r] \in SlotLocations}
    /\ Cardinality(slots) <= MaxSpools

(* A temporary file exists exactly while a leader fills, uploads or serves *)
(* it: no path leaks one, and none is removed while still needed           *)
(* (spool.go:103-119, 154, 194).                                           *)
NoSpoolLeak ==
    \A r \in Requests : spool[r] # 0 <=> pc[r] \in SpoolLocations

(* No lost wakeup: a request that waits for a flight waits for one that is *)
(* closed, or whose leader has yet to close it (handler.go:476, 679).      *)
WaitsForLiveFlight ==
    \A r \in Requests : pc[r] \in {"fwait", "hwait"} =>
        /\ flight[r] \in Requests
        /\ flight[r] \in done \/ pc[flight[r]] \in LeadLocations \cup {"close"}

(* The bucket is the durable tier: no copy a request serves, or that sits  *)
(* on the disk or on its way there, is newer than what the bucket holds -  *)
(* a client is never handed an object that was not stored (README.md:17).  *)
BucketIsNewest ==
    /\ \A k \in Keys : disk[k].ver <= s3[k] /\ s3[k] <= upstream[k]
    /\ \A r \in Requests :
        /\ pop[r].ver <= s3[key[r]]
        /\ obj[r].ver <= s3[key[r]]
        /\ answer[r].body.ver <= s3[key[r]]

(* However misses, failed uploads and refetches interleave, a stored object*)
(* is never replaced by an older version of itself (spool.go:172).         *)
S3NeverRegresses == [][\A k \in Keys : s3'[k] >= s3[k]]_vars

(* A leader is about to store, or has just stored, the newest version the  *)
(* bucket has, and comes without a head when it fetches a package: what the*)
(* other invariants rest on.                                               *)
LeaderIsNewest ==
    \A r \in Requests :
        /\ spool[r] <= upstream[key[r]]
        /\ pc[r] \in {"spooling", "upload"} => s3[key[r]] <= spool[r]
        /\ pc[r] \in {"stored", "populate", "lead", "serve"} => spool[r] <= s3[key[r]]
        /\ IsPackage(r) /\ hold[r] # NoHead => pc[r] \in {"remember", "s3get"}

(* The conjunction that every step preserves.                              *)
IInv ==
    /\ TypeOK
    /\ OneFetchPerKey
    /\ SpoolLimit
    /\ NoSpoolLeak
    /\ WaitsForLiveFlight
    /\ BucketIsNewest
    /\ LeaderIsNewest

(* A request that waited for a flight which stored the object is served the*)
(* object, from the disk or from S3, and not told that the fetch failed or *)
(* that the object does not exist (handler.go:680-703, 477-482).           *)
CoalescedServed ==
    \A r \in Requests :
        pc[r] = "end" /\ IsFollower(r) /\ rng[r] = "full" =>
            (answer[flight[r]].how = "MISS-STORED" => answer[r].how \in {"HIT-DISK", "HIT-S3"})

(* Later requests hit disk or S3 (README.md:17): once a request was served *)
(* MISS-STORED, one that arrives afterwards is not answered NEGATIVE.      *)
LaterRequestsHit ==
    [][\A r \in Requests :
        pc[r] = "new" /\ pc'[r] = "end" =>
            \A q \in Requests : key[q] = key[r] => answer[q].how # "MISS-STORED"]_vars

(* Package size conflicts are treated as immutable (README.md:45): a stored*)
(* package is not replaced by an object of another size.  uploadSpool      *)
(* compares with the head it is passed (spool.go:159), and for packages the*)
(* handler passes none (handler.go:257).                                   *)
PackagesKeepSize ==
    [][\A k \in Packages : s3[k] # 0 => SizeOf[s3'[k]] = SizeOf[s3[k]]]_vars

(* PutReader writes exactly size bytes (cache.go:298): a file installed in *)
(* the disk cache is the whole of a version.                               *)
DiskHoldsWholeObjects == \A k \in Keys : disk[k] = Whole(disk[k].ver)

-----------------------------------------------------------------------------
(* The request path implements ReadThrough: the flight registered for a    *)
(* key is its fetch, and the leader's temporary file what it has read.     *)
Fetched(k) == IF inflight[k] = NoReq THEN 0 ELSE spool[inflight[k]]

Promise == INSTANCE ReadThrough WITH
    Clients   <- Requests,
    NoClient  <- NoReq,
    published <- upstream,
    stored    <- s3,
    wants     <- key,
    fetcher   <- inflight,
    fetched   <- [k \in Keys |-> Fetched(k)],
    served    <- [r \in Requests |-> answer[r].body.ver]

(* However hits, misses, failures and revalidations interleave, the bucket *)
(* changes only by the one fetch in progress for a key, to the version it  *)
(* read, and no client is handed more than the bucket holds (README.md:17: *)
(* "spool to /tmp, upload to S3, then serve").                             *)
ImplementsPromise == Promise!Spec

(* Every request is answered, whatever the others do and whatever fails.   *)
AllAnswered == \A r \in Requests : <>(pc[r] = "end" /\ answer[r] # NoAnswer)
=============================================================================
