# Verification of the Linux mirror caching server

TLA+ models of the on-demand mirror in `src/`: what requests do between their
clients, the local disk, the in-memory caches, S3 and the upstream; what the disk
cache does between two system calls; what Range headers select and how a body
reaches a client and the disk at once; how old a metadata copy may get; what the
counters and the usage figures are worth. TLC checks the models on small
instances; TLAPS proves the main safety properties, and that the request path and
the disk cache implement their abstract specifications, for every value of the
constants.

    tlc -config MirrorMetadata.cfg MCMirror      # a run
    tlapm MirrorProofs.tla                       # the proofs

`PROJECT.json` lists the runs, the source lines of every definition, the hazards
and, for every checked property, a mutation of the model (defined beside the
definition it replaces, and commented "Mutant") under which the property fails.

## 1. The system

| Part | Source | State | Operations |
|---|---|---|---|
| Request handler, single flight | `internal/mirror/handler.go` | `inflight`, `negative`, `validated` (each under its mutex), the head cache | `ServeHTTP`, `tryDisk`, `tryPackageGet`, `streamS3`, `headResponseS3`, `headMiss`, `revalidateMetadata`, `fetchUpstreamAndCache` |
| Spool and upload | `internal/mirror/spool.go` | `spoolSem`, one temporary file per leader | `fetchAndUpload`, `uploadSpool`, `serveFromSpool` |
| Byte ranges | `internal/mirror/range.go` | none | `parseBytesRange` |
| Head cache | `internal/mirror/headcache.go` | key to head and expiry, under an RWMutex | `Get`, `Put`, `Delete` |
| Copy buffers | `internal/mirror/copy.go` | a pool of buffers | `copyBuf` |
| Disk cache | `internal/diskcache/cache.go` | files; `index`, the order of use and `used` under a mutex | `Lookup`, `Delete`, `PutFile`, `PutReader`, `ensureSpace`, `rebuild` |
| S3 client, bucket usage | `internal/store/s3.go` | the bucket; usage counters | `Head`, `Get`, `PutFile`; `NoteStore`, `RefreshUsage`, `UsageLoop` |
| Metrics | `internal/metrics/metrics.go` | atomic counters, a dirty flag, a state file | `Incr`, `SetInflight`, `SaveToDisk`, `LoadFromDisk`, `FlushLoop` |
| Start and shutdown | `cmd/mirror/main.go` | - | wiring, signals, final save |
| Upstream routing | `internal/upstream/upstream.go` | none | `NormalizePath`, `Resolve`, `IsMetadataKey` |
| Configuration | `internal/config/config.go` | none | read from the environment |
| Web site | `internal/web/site.go` | cached number of GitHub stars | pages and JSON |
| Client switcher | `scripts/switch-mirror.sh` | files of a client machine | edits with backups |

**How they interact.** A request passes the negative cache, the disk, the head
cache and S3 in this order and ends at `fetchUpstreamAndCache` (a HEAD at
`headMiss`). The first request for a key becomes the leader of a *flight*; the
others wait on its channel, then start over with the disk, the head cache and S3.
The leader takes a spool slot, spools the upstream body into a file, uploads it,
notes it in the usage figures, clears the negative entry, copies the file to the
disk, caches the head and streams the file to its client; only then does the
flight end. A full body that comes from S3 goes through a pipe to a goroutine that
populates the disk, and from the same loop to the client. Metadata that is older
than its TTL, by the disk's or by S3's clock, is revalidated upstream. Nothing
ties these steps together but the per-map mutexes: between any two of them another
request may run, an entry may expire, a file may be evicted, the process may die
and upstream may publish.

**What is hard**, and what is owed:

* *handler and spool* - one fetch per key, every flight closed, every slot and
  file given back on each of about fifteen exits; nothing served that is not in
  the bucket; no return to an older version; waiters served; every request answered;
* *disk cache* - whole files only, also after crashes and while being replaced;
  the cap and the reserve; files and index in step;
* *ranges and bodies* - 200, 206 or 416 exactly when the object and the header say
  so, by every tier, so that a resumed download is the object; a pipe that
  neither hangs nor cuts a client off, and never installs a part;
* *metadata* - copies that are found out in time although every write restarts
  their age, an error counts as a validation, and entries are deleted after they
  were looked at;
* *metrics and usage* - counters replaced by older snapshots, lost dirty flags, two
  savers of one file, listings that overlap uploads.

`PROJECT.json` "hazards" has the full list with lines.

## 2. Modules

| Module | Models |
|---|---|
| `ReadThrough` | abstract: what the mirror promises about the bucket it fills on demand |
| `ReadThroughProofs` | the promise's own consequences |
| `Mirror` | `handler.go` and `spool.go`, one process per request; refines `ReadThrough` |
| `MirrorProofs` | the inductive invariant and the safety theorems of `Mirror`, and that it implements `ReadThrough` |
| `AtomicCache` | abstract: what the disk cache promises the handler |
| `DiskCache` | `cache.go` down to system calls on inodes; refines `AtomicCache` |
| `DiskCacheProofs` | what is installed is whole, and `DiskCache` implements `AtomicCache` |
| `DiskSpaceProofs` | the types of `DiskCache`, its byte count, its index, the cap and the reserve; extends `DiskCacheProofs` |
| `ByteRange` | `range.go` and what each tier answers with it |
| `Download` | one client, the body loop, the pipe and the populate goroutine; extends `ByteRange` |
| `DownloadProofs` | the parser and the tiers, for every length and number; the inductive invariant and the safety theorems of `Download` |
| `Freshness` | the clocks of the handler and `headcache.go`: one metadata object |
| `FreshnessProofs` | the inductive invariants of `Freshness`: how old any copy may be, and how long a replaced one is handed out |
| `Metrics` | `metrics.go` with the shutdown of `main.go` |
| `Usage` | the usage figures of `s3.go` |
| `BookkeepingProofs` | the inductive invariants and the safety theorems of `Metrics` and of `Usage` |
| `SumProofs` | lemmas about sums over finite sets |
| `MC*` | the constants of the runs, symmetry and constraints |

### ReadThrough and Mirror

`ReadThrough` has, per key, the version upstream has published, the one in the
bucket, the client that fetches it and what that fetch has read, and per client the
version it was handed. A fetch begins when there is none for the key, reads what
upstream has then, may store what it read (a failed store may have had its effect),
and ends; a client is handed at most one object, no newer than the bucket's.

In `Mirror` a request `r` carries its program counter `pc[r]` and the values its
handler holds: `hold` (the `*ObjectHead` in hand, by its length), `obj` (an opened
file or body), `flight` (the flight it waited for). `upstream`, `s3`, `disk`,
`heads`, `negative`, `inflight`, `slots` (the semaphore) and `spool` (the temporary
file) are the shared state; `done` are the closed channels and `pop` what populate
goroutines will install. One action is the code between two accesses to shared
state; each action names the function it belongs to. An object is the number of
the version upstream published, and versions are told apart by their length,
which is all that the code compares. The refinement maps the registered flight to
the fetch, the leader's temporary file to what it read, and the bodies of answers
to what was handed out (`ImplementsPromise`).

Abstractions, and why they keep the behaviour:

* There is no clock. An entry expires, an age test fails or an eviction happens
  whenever it may (`HeadDropped`, `NegativeExpires`, `DiskEvict`, `CheckFresh`,
  the metadata case of `DiskCheck`). More behaviours than the code has, never fewer;
  `validated` only feeds such a test and is left to `Freshness`.
* `Revalidate` may keep any copy: a 304, an error, a redirect and an equal length
  and date all do, and an upstream may answer any of them.
* Upstream may answer 404 for what it has published when `EdgesMayLag` (a CDN edge
  that has not got it yet); it never serves an older version than it served before.
* A `PutObject` that fails may have been applied; one that is applied is applied
  before it returns. S3 is read-after-write consistent.
* A disk install is atomic here. `DiskCache` looks inside, and shows when it is not.
* `SkipConflict` translates the package conflict branch of `uploadSpool`. It is
  never taken, because handler.go:257 passes no head for a package: see
  `find_conflict` below.
* Content types, cache-control, logging and counters are left out.

### AtomicCache and DiskCache

`AtomicCache`: a key holds an object or nothing; a put replaces it at one
instant or leaves no trace; a reader keeps the object it opened; objects may
disappear; a restart loses nothing that was installed. Two puts of one key that
overlap may each install a damaged object instead of theirs, and nothing else may.

In `DiskCache`, `files` are inodes (sequences of blocks, each tagged with the
version it belongs to), `dir` the names `key` and `key.tmp`, `index`, `lru` and
`used` the guarded state. A put is `StartPut`, `EnsureSpace` (one critical section),
`Create` (`O_TRUNC`), `Write` per block, `Close`, `Rename`, `Note`; it may fail before
there is a file (`CreateFails`) or later (`PutFails`, `Abandon`). A lookup is `Open`, `Stat`, `Done`; a delete `Unlink`, `Forget`. A
`Restart` may happen between any two steps and rebuilds the index from the files,
temporary ones included, in any order of use. An inode lives while a name or a
descriptor refers to it. A crash is that of the process: data survives in the
page cache, and a loss of power (the code does not sync here) is not modelled.
`budget` is `LOCAL_CACHE_BYTES` or the automatic one.

The cache does not keep its callers apart, and neither does the handler: flights keep
the leaders' puts of one key apart, but not the goroutines beside S3 streams, nor
deletes. So the workers of `DiskCache` do anything at any time. Five history variables,
which no step reads, record where they met, and the properties say that only such a
meeting spoils what they promise, and what mends it:

| History | Set when | Spoils | Until |
|---|---|---|---|
| `crowded`, `suspect` | a put creates `key.tmp` while another put of the key fills it | what these puts install: `WholeUnlessCrowded`, `ImplementsPromise` | a put of the key that met no other installs its file |
| `resized` | a lookup finds another size than the indexed one | `used`: `UsedIsIndexed`, `CapRespected` | the next start |
| `room` | room is given to two puts at once, or (fixed budget) bytes come in by a lookup or a restart | `CapRespected`, `ReserveKept` | the next put that is given room alone (for the cap: and succeeds) |
| `overtaken` | a put installs its object between the two steps of a delete | `NoOrphans`, for this key | it is looked up, put again, or the process restarts |

What the first of these costs is `find_torn_install` below.

### ByteRange and Download

`Parse` is `parseBytesRange` on the two numbers the regular expression captures;
`Malformed`, `Ignores` and `Refuses` are its exits. `Selected` is the reference:
the positions a header selects. `Answer` is what `tryDisk`, `serveFromSpool` and
`headResponseS3` make of it, `StreamAnswer` adds the special case of empty objects
in `streamS3`, `PackageAnswer` passes the header to S3, whose reading (`S3Answer`)
is external.

`Download` answers one request after another of one client, from any tier that has the
object. The handler reads a block (`ReadBody`), writes it to the pipe if the body
is teed (`TeeWritten`, `TeeBroken`) and to the client (`WriteClient`); the goroutine
takes from the pipe (`Take`), which has no buffer, and installs the file
when it got all of it (`Install`). S3, the client and the disk may each fail
anywhere. A client that is cut off keeps what it got and asks for the rest. A body is
represented by how much of its selection has been sent.

### Freshness

One metadata object that upstream always has, two handlers, a clock. Each copy
carries its version and the local time that goes with it: the upload time in S3,
the modification time on the disk, the `LastModified` of a cached head. Handlers
read the clock where the code does (`DiskLookup`, `headCache.Get`, `s3ObjectIsFresh`,
`markValidated`), and `GetHead`/`DeleteExpired` separate the read of an expired
head from its deletion. Versions have a length each, the same or not (`lengthOf`,
chosen once), because the disk compares lengths with the cached head (`OtherLength`) and a
revalidation compares them with upstream's (`Unmodified`). An upstream either honours
`If-Modified-Since` by date or always answers 200; in that case the copy is kept when
its length is upstream's and upstream's date is not after the local one.

`asked`, `vain` and `renewed` are history: when upstream was last asked, when it was last
asked *in vain*, and how often the copy has been written to the disk from S3 since. A
question is in vain when S3 has a replaced version and keeps it: because upstream
failed, because the copy passed for unmodified, because the new version could not be
spooled or uploaded (`StoreFails`; an upload that fails may have been applied), or because the
process stopped before it was. All clocks agree; a handler takes at most `Lag` (`Tick` waits for it).

### Metrics and Usage

`Metrics` makes every access to an atomic a step; only the compare-and-swap loop
that raises the peak is one step, its last iteration (the `dirty.Store` that follows it in
`SetInflight` is `MarkRaised`), and a snapshot is read at once.
One counter stands for the twelve that `Incr` adds to, which are treated alike. The file and
its temporary name are opened, truncated, written and renamed by two savers (the flush loop
and `main`), and a descriptor follows a rename. `Signal`, `FinalSave` and `Exit` are
the shutdown of `main.go`; `Restart` is a start after it or after a crash.

`Usage` has uploads that look at an object, store and note it, and a listing that
reads one key per page. A `PutObject` that fails either leaves the bucket alone
(`StoresNothing`) or was applied all the same (`PutUnnoted`). `drift` is history: something
was stored or noted while the bucket was listed, replaced an object the request had not
seen, or was stored by an upload that failed.

## 3. Runs

| Run | Instance | Checks |
|---|---|---|
| `metadata` | 3 GET/HEAD, 1 metadata key, 2 versions, 2 slots, reliable S3 reads, all other failures | `TypeOK`, `OneFetchPerKey`, `WaitsForLiveFlight`, `BucketIsNewest`, `CoalescedServed`, `S3NeverRegresses`, `ImplementsPromise` |
| `packages` | 2 GET/HEAD, 2 packages, 1 version, 1 slot, ranges, all failures, fair | `SpoolLimit`, `NoSpoolLeak`, `AllAnswered` |
| `disk` | 3 workers, 2 keys, 2 versions of 2 blocks and of 1, 3 operations, 1 crash, both budgets | `TypeOK`, `WholeUnlessCrowded`, `UsedIsIndexed`, `CapRespected`, `ReserveKept`, `NoOrphans`, `ImplementsPromise` |
| `download` | lengths 0-3, numbers 0-4 and one past int64, blocks of 1-2, 2 failures, cache on and off, fair | `TypeOK`, `SendsSelection`, `RefusesOnlyEmpty`, `HonoursSelection`, `WarmsWhole`, `CompleteIsWhole`, `PipeInStep`, `TeeTransparent`, `NothingHangs`, `Warms`, `DownloadEnds` |
| `freshness` | 2 handlers, TTL 1, time 0-4, 2 versions of the same and of different length, 1 renewal, 1 restart, disk on and off, both kinds of upstream, failing uploads | `TypeOK`, `AskedInTime`, `StaleIfAsked` |
| `bookkeeping` | 2 requests, 1 failed save, 1 restart; 2 uploads of 2 keys, 1 failed listing, 1 crash | `MetricsTypeOK`, `UsageTypeOK`, `FileIsLastSave`, `PeakExact`, `UnsavedIsDirty`, `UsageExact`, `SavedNeverRegresses` |

**Bounds.** Three requests are the least for a leader, a follower and one that
comes between the removal of the flight from the map and the end of both; two
versions are the least for "older" and "newer"; two slots with one key leave it to the flight
alone to keep a second leader out. One slot with two keys makes leaders of different
keys wait for each other, for which two requests are enough: a third only waits
longer. `MaxVersion` bounds publications in the guard of `Publish`. Version `v` has length
`v` in `Mirror`, so lengths differ and no object is empty; empty objects are in
`Download`, equal lengths in `Freshness`. `metadata` has `S3ReadsMayFail = FALSE`, which
`CoalescedServed` needs: a follower whose S3 HEAD fails is told `COALESCE-FAIL`, rightly.
`packages` has it `TRUE`, and the theorems about the other properties of `metadata` hold for both.

In `DiskCache`, `MaxOps` and `MaxCrashes` bound the operations started and the restarts.
Three operations by three workers are the least for two that meet and one that is
affected or mends it; the two versions differ in size, so that every key may change its
size; objects of two blocks are the least that can be torn, and a capacity of two holds one
such object and no other, so that a put of one key evicts the other. In `Download`, a
block of two and objects of three make blocks and bodies end apart, and two failures let
one follow another in the next response. In `Freshness`, `Lag` is 0 in the run: steps of
handlers interleave freely within an instant, and `AskedInTime` and `StaleIfAsked`,
whose bounds have `Lag` in them, are proved for every other value; four units hold a
publication up to time 1, an expiry, a renewal and the second expiry by which
`StaleAtMost`, here three, is passed. `MaxRenewals` bounds
renewals, because each restarts the age: without the bound on it there is no bound on
how old a copy gets, which is what `Longest` says.

`MCBookkeeping` explores `Metrics` and `Usage` in one run, one of them at a time: they
share no state. Its constraint `Followed` keeps to states in which no request is
being served once both savers have overlapped. From there `FileIsLastSave`,
`SavedNeverRegresses` and `UnsavedIsDirty` promise nothing, and `PeakExact` does not
speak of the savers, so the states left out are ones in which only what is
checked elsewhere in the run happens.

The runs of `disk`, `freshness` and `bookkeeping` do not check deadlock: the
operations, the time or the requests of the instance are used up at their end. The runs of
`Mirror` do, with `Finished` as the regular end, and so does `download`.

**Fairness.** In `Mirror`, weak fairness of each request's own steps: the Go
scheduler runs every runnable goroutine, S3 and upstream answer or fail (the
transport has `ResponseHeaderTimeout`), and `net/http` answers every handler that
returns. Nothing stronger is needed for the semaphore: its waiters are requests
that are each handled once. The two steps that copy a body (`Transfer`) are assumed to end as
well: the code sets no timeout on the body of an upstream response or on a client's
reading, so this is an assumption about the network. Publications, expiries,
evictions, populate goroutines and cancellations are not fair. In `Download`, weak
fairness of the handler's loop and of the goroutine, and strong fairness of asking for
the rest: a client that wants the object comes back although it sometimes asks for
other things. `DownloadEnds` holds with finitely many failures (`MaxFaults`).

### Where documentation and code disagree

| Run | Property | What the documentation says | What happens |
|---|---|---|---|
| `find_masked` | `LaterRequestsHit` | `README.md:17`: later requests hit disk or S3 | A HEAD receives 404 from upstream, a GET stores the object and clears the negative entry, the HEAD records its 404: the stored object is `NEGATIVE` for a minute. |
| `find_truncated` | `DiskHoldsWholeObjects` | the comment of `PutReader`: exactly size bytes | `streamS3` installs as many bytes as an older, shorter head announced: a prefix of the new object is served as `HIT-DISK`. |
| `find_conflict` | `PackagesKeepSize` | `README.md:45`: package size conflicts treated as immutable | The conflict check needs the head of the stored object, and handler.go:257 passes none for a package. A GET whose read of the stored package fails (or missed it, before another request stored it) leads a flight and overwrites it with an object of another size. |
| `find_torn_install` | `InstalledWhole` | the same, and the rename it does | Two `HIT-S3` streams of one key populate the disk through the same `key.tmp`: the second `O_TRUNC` empties the file that the first renames into place. |
| `find_cut` | `StreamsWhole` | `README.md:16`: stream it and warm the disk cache | With `LOCAL_CACHE_BYTES=0` the populate goroutine closes the pipe at once; the next block ends the copy loop and the client of a whole `HIT-S3` body is cut off. |
| `find_stale` | `RevalidationFinds` | `README.md:358`: metadata revalidation interval | `If-Modified-Since` is the time of the upload to S3. A version published between the fetch and the end of its upload is older than that, so upstream answers 304 to every revalidation. |

More that have no run of their own: two puts that find room one after the other and then
both write exceed `LOCAL_CACHE_BYTES` (`cache.go:351`, what `room` records); a lookup
between the rename of a put and its index update, with objects of two sizes, leaves `used`
wrong for good (`cache.go:218`, what `resized` records); a GET of a directory without its
final slash, once something below it is cached, opens the directory and answers `HIT-DISK`
with the size of its inode and no body (`Lookup` does not ask whether it opened a file;
`README.md:45` says that directory listings are disabled); and an upstream that always
answers 200 is not believed when its new version has the length of the old one and was
published before the old one was uploaded (`handler.go:561-572`), the other half of `find_stale`.

## 4. Proofs

Constants are arbitrary: any finite set of requests, any keys, versions, lengths,
slots and flags, with the named assumptions of the modules.

`MirrorProofs` proves `Spec => []IInv` (theorem `Invariance`) and from it the
safety invariants of `metadata` and `packages` and the
action property `S3NeverRegresses`. None of the parts is inductive alone:

* `OneFetchPerKey` ties `inflight` to the program counters, so that the only
  writer of a key's bucket entry is the leader registered for the key;
* `SpoolLimit` and `NoSpoolLeak` tie the semaphore and the files to them;
* `LeaderIsNewest`, which only serves the proof, says that between the upstream
  response and the upload the bucket holds nothing newer than the spool. This needs the
  first part (nobody else may store) and `s3 <= upstream` from `BucketIsNewest`;
* `BucketIsNewest` in turn needs `LeaderIsNewest` when the spool is copied to the
  disk or to the client, and speaks of `pop` and `obj` because they reach the
  disk and the clients later;
* `WaitsForLiveFlight` needs that a leader which left `LeadLocations` has closed
  or is about to close.

`CoalescedServed` needs a second invariant on top (`CoalesceInv`): a request that was
woken waited for a flight that is over, whose answer no longer changes; if that was
`MISS-STORED` the bucket has the object for good, and as long as S3 answers reads
(`S3ReadsMayFail = FALSE`, the assumption of the theorem) the request stays on the places
of `AfterFlight`, all of which lead to a hit.

The proof has one step per action, and under it one per conjunct the action can
disturb; helper lemmas treat the shared shapes (`Return`, `ServeFromHead`, `GiveUp`).

The module then proves `Spec => ImplementsPromise` (theorem
`MirrorImplements`) on top of `IInv`, with one more invariant, `Unanswered`: a
request that is not over has been handed nothing. `HandleAnswers` says what any step
does to the answers; `ReplySimulated` and `LeaderReplySimulated` turn a reply into
`Serve` or `Drop` or nothing; joining, the upstream response, the upload and the
removal of the flight are `Begin`, `Fetch`, `Store` and `End`; everything else
stutters. `ReadThroughProofs` proves what the promise is worth by itself: the
bucket only grows, and what was served is stored. There the invariant `Between` says that
what a fetch has read lies between the bucket's version and upstream's.

`DownloadProofs` proves that the parser (`ParserExact`) and every tier
(`EveryTierExact`) answer exactly, for all lengths and numbers. It proves `DownInv`
inductive, for any block size, lengths, numbers and failures, and from it all eight
invariants of `download`. Its core is `Flow`, which ties the positions of handler and
goroutine to each other (the goroutine has what the client was sent, plus what it took
of the block between them) and to `lost`, the failures that explain any difference; that
a `200` answers only whole bodies and a 416 to `bytes=have-` means `have >= size` comes
from `EveryTierExact`.

`DiskCacheProofs` proves, whatever the callers do, that what is installed is whole unless
puts of its key met (`InstalledIsWhole`) and that every system call is a step of
`AtomicCache` or a stutter (`DiskImplements`). The invariant `DiskInv` is about the puts that
have met no other: nobody else has their file open or installed (`Private`) and it is
as far as they are (`Written`); no put has open what is installed or read and not in doubt
(`Sealed`), so that what a reader has open is whole although its name may be gone
(`ReadWhole`). `Met` makes the marks reliable: two puts that fill one `key.tmp` are both
crowded, because the second to create it marks both. A rename by a put that is not marked
therefore installs its own, whole file, which is why it also lifts the doubt from the key.

`DiskSpaceProofs` proves the rest of what `disk` checks. No theorem assumes anything of the
callers, of the sizes or of the reserve; the exceptions are in the properties.

* `DiskTypeCorrect`: the order of use lists exactly the indexed paths, and a file that is
  created finds a free inode, which is a counting argument (there are more inodes than names
  and descriptors; a worker that creates has none open, `Opened`);
* `UsedIsExact`: `Cache.used` is the sum of the index, because every step changes both by the
  same amount, except a lookup that finds another size than the indexed one. Overlapping
  puts and deletes of one key do not disturb it: each takes off what the index says then;
* `NothingOrphaned`: `Booked` says that an installed object which is not overtaken is indexed
  or about to be, and that no delete is about to take it out;
* `CapKept`: `Alone` says that while room is not lost, at most one put has been given room,
  and it has met no other; `Cap`, that with what this put has yet to add,
  and without what it replaces, `used` is within the cap. So what `ensureSpace` found
  is still true when the put is noted, whatever is deleted, evicted or looked up meanwhile;
* `ReserveIsKept`: `Spare` says that what all inodes hold, and what the put that was given
  room has yet to write, leave the reserve free. The automatic budget asks the file
  system, so this needs neither the byte count nor the index. A file system smaller than the
  reserve starts with `room` lost, and no put is ever given any.

`BookkeepingProofs` proves `MetricsInv` inductive and from it the invariants and the action
property of the counters, for any number of requests and any bounds. `PeakInv` says which
number each request carries between the flight map and its publication, and that none
exceeds `highest`; `TurnsInv`, that without an overlap at most one saver is under
way, and what the temporary file and the descriptors are at each of its steps; `SnapInv`, that
what a saver has read is no more than what the counters hold now. It also proves `UsageInv`
inductive and from it `UsageExact`, for any number of uploads, keys, sizes and failures
(`drift` excuses a failed upload that was applied, and only if it changed the length): an
undisturbed listing has summed up exactly the keys before its place (`ListedSoFar`), every
upload between `PutObject` and `NoteStore` accounts for its own difference, and nothing else
changes either side.

`SumProofs` has the lemmas both rest on: the sum over a finite set is that of all but
one member plus that member's, whichever member it is; sums of equal, larger, changed or
fewer numbers. The library's sum is a fold, which is a recursive function over sets, and
the lemmas need induction; it is done by hand, as the choice of a smallest set for which
a lemma fails (`SmallestSet`, from the library's theorem that the subsets of a finite
set are well-founded). `Without`, the recursive function that filters the order of use,
is treated the same way.

`FreshnessProofs` proves `AskedInTime` and `StaleIfAsked` for any TTL, any `Lag`, any lengths
and any number of versions, handlers, renewals and restarts, which goes beyond the run,
where `Lag` is 0. `Ages` bounds the time every copy carries by the last answer of upstream
plus an allowance that grows by a TTL and a delay per renewal; `Arrivals` bounds the arrival
of each handler that has decided to trust one, because it may still write that copy to the
disk, with a new time, a delay later.

`StaleIfAsked` needs more: `Flights` (one leader, and the waiting wait for it),
`InOrder` (S3 is the first to have a version and never goes back), and for every
replaced version `Underway` and `Remnants`. While S3 still has the old version, either
every time a copy carries is within the renewals counted since the replacement, or since
the last question in vain (`Settled`), or a handler that has found the copy replaced is
fetching. Its questions to upstream start the count of renewals again, so the times may
grow while it is underway; but if it came early it is done early, and if it came late nobody
trusted the old copy any more. `Remnants` bounds what is left of the version in goroutines
and on the disk when S3 has the new one. Every question in vain starts all of this anew,
because no time is later than the present (`Anew`). One thing in the property came out of
this proof: a restart that takes a handler between upstream's answer that the copy is
replaced and the fetch loses that answer, so `vain` counts it (`Fetching`).

**Only model-checked:** every invariant and every action property of the passing runs is proved.
What is left to TLC is liveness (`AllAnswered`, `NothingHangs`, `Warms`, `DownloadEnds`),
which is out of the prover's reach.

## 5. Not modelled

* *Upstream routing*: string work without state, a fixed table of prefixes; `Mirror`
  takes its results (a key, and whether it is metadata) as constants. With it, how keys
  become file names is left out: that `x.ctype` and `x.tmp` may be keys of their own,
  that a key may be a directory of others, and that `NormalizePath` decodes a path
  that `net/http` has decoded already (twice more, there and in `Resolve`).
* *Configuration*: read once; its values are the constants.
* *Web site, front end, templates, packaging*: presentation. The lock that is held
  over a request for the number of GitHub stars is listed under the hazards.
* *Client switcher*: text substitution on a client's machine.
* Details of modelled parts: the `.ctype` file beside a cached object, which buffer
  of the pool a copy uses, the last error and the time of the last listing, sizes that are only shown, the
  rounding of counters above 2^53, loss of power, how much free space the temporary
  directory has (a nondeterministic verdict), and how long followers wait.

## 6. Plan

What is left, in the order of its worth:

1. Path normalisation over segments, with the mapping of keys to file names and side files.
2. `switch-mirror.sh`: what a run that is cut off leaves on the client.
