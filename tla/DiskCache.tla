----------------------------- MODULE DiskCache -----------------------------
(***************************************************************************)
(* The local disk cache, internal/diskcache/cache.go, one action per file  *)
(* system call or critical section of Cache.mu.                            *)
(*                                                                         *)
(* The index (sizes, order of use, bytes used) is in memory and guarded by *)
(* the mutex; the files are not, so a put, a lookup and a delete of one    *)
(* key interleave between their calls.  Every put of a key goes through    *)
(* the same temporary name, key.tmp, and a file is an inode: it survives   *)
(* its name while a descriptor is open, and two descriptors of one inode   *)
(* write into the same bytes.                                              *)
(*                                                                         *)
(* A file's content is a sequence of blocks, each holding the version of   *)
(* the object it belongs to; block 0 is a hole a write left behind.  The   *)
(* .ctype file beside each object is left out.                             *)
(*                                                                         *)
(* Nothing here keeps callers apart: the handler populates a key from      *)
(* several requests at once and deletes it while others read or write it.  *)
(* Five history variables, which no step reads, record where calls met;    *)
(* the properties say what holds whatever the callers do, and what only    *)
(* such a meeting can spoil.                                               *)
(***************************************************************************)
EXTENDS Integers, Sequences, FiniteSets, FiniteSetsExt, SequencesExt, Functions

CONSTANTS
    Workers,    \* goroutines using the cache
    Keys,
    Versions,   \* versions of the objects, positive integers
    SizeOf,     \* SizeOf[v]: blocks of version v, positive
    Budgets,    \* how the budget may be configured: a subset of {"fixed", "auto"}
    Capacity,   \* LOCAL_CACHE_BYTES, the fixed budget
    DiskSize,   \* blocks of the file system, for the automatic budget
    Reserve,    \* LOCAL_CACHE_RESERVE_BYTES
    MaxOps,     \* bound: operations started, over all workers
    MaxCrashes  \* bound: restarts of the process

Object(k) == <<k, "object">>
Temp(k)   == <<k, "tmp">>
Paths     == Keys \X {"object", "tmp"}
Inodes    == 1 .. (2 * Cardinality(Keys) + Cardinality(Workers))
NoInode   == 0
Absent    == -1                         \* no entry in the index

ASSUME WorkersAssumption == IsFiniteSet(Workers) /\ IsFiniteSet(Keys) /\ Keys # {}
ASSUME VersionsAssumption ==
    /\ Versions \subseteq Nat \ {0} /\ Versions # {} /\ SizeOf \in [Versions -> Nat \ {0}]
ASSUME SpaceAssumption ==
    /\ Budgets \subseteq {"fixed", "auto"} /\ Capacity \in Nat /\ DiskSize \in Nat /\ Reserve \in Nat
    /\ MaxOps \in Nat /\ MaxCrashes \in Nat

VARIABLES
    budget,     \* chosen once: "fixed" (fixedCap is set) or "auto"
    files,      \* [Inodes -> content]
    dir,        \* [Paths -> Inodes or NoInode]
    index,      \* [Paths -> size or Absent]; after a restart it may name temporary files
    lru,        \* the indexed paths, the least recently used first
    used,       \* Cache.used
    pc,         \* [Workers -> where the worker is]
    target,     \* [Workers -> key]
    version,    \* [Workers -> version a put writes]
    fd,         \* [Workers -> open inode or NoInode]
    offset,     \* [Workers -> blocks written, or the size a lookup returned]
    started,    \* operations started so far
    crashes,
    \* History:
    crowded,    \* workers whose file more than one put may have written
    suspect,    \* keys whose installed file came from such a worker
    overtaken,  \* keys installed between the two steps of a delete
    resized,    \* since New, a lookup found another size than the indexed one
    room        \* "kept", or "lost" when room was taken without asking for it
                \* alone, "restoring" in the first put after that to ask alone

disk    == <<budget, files, dir>>
memory  == <<index, lru, used>>
worker  == <<pc, target, version, fd, offset>>
mixing  == <<crowded, suspect>>
books   == <<overtaken, resized, room>>
vars    == <<disk, memory, worker, started, crashes, mixing, books>>

(* The target and version of an idle worker, which nothing reads.          *)
AnyKey     == CHOOSE k \in Keys : TRUE
AnyVersion == CHOOSE v \in Versions : TRUE

Whole(v) == [i \in 1 .. SizeOf[v] |-> v]
IsWhole(content) == \E v \in Versions : content = Whole(v)

Sum(sizes, S) == SumFunctionOnSet(sizes, S)
Blocks        == [i \in Inodes |-> Len(files[i])]
Indexed(idx)  == {p \in Paths : idx[p] # Absent}

(* s without the members of gone.  (SelectSeq would do, but it is opaque to*)
(* the provers.)                                                           *)
Without(s, gone) ==
    LET kept[n \in 0 .. Len(s)] ==
            IF n = 0 THEN <<>>
            ELSE IF s[n] \in gone THEN kept[n - 1] ELSE Append(kept[n - 1], s[n])
    IN kept[Len(s)]
Forgotten(s, p) == Without(s, {p})
LastUsed(s, p)  == Append(Forgotten(s, p), p)

(* An inode without a name and without a descriptor gives its blocks back. *)
Reclaim ==
    /\ UNCHANGED budget
    /\ files' = [i \in Inodes |->
                IF (\E p \in Paths : dir'[p] = i) \/ (\E w \in Workers : fd'[w] = i)
                THEN files[i] ELSE <<>>]

Unused == CHOOSE i \in Inodes : /\ \A p \in Paths : dir[p] # i
                                /\ \A w \in Workers : fd[w] # i

(* Mutant: a restart finds the files but does not index them.              *)
RebuiltEmpty(idx, order, total) ==
    /\ idx = [p \in Paths |-> Absent]
    /\ order = <<>>
    /\ total = 0

(* rebuild: every file found is indexed with its size, temporary files     *)
(* too, in the order of modification times, which is anyone's guess.       *)
Rebuilt(idx, order, total) ==
    /\ idx = [p \in Paths |-> IF dir[p] = NoInode THEN Absent ELSE Len(files[dir[p]])]
    /\ order \in SetToSeqs({p \in Paths : dir[p] # NoInode})
    /\ total = Sum(idx, Indexed(idx))

Init ==
    /\ budget \in Budgets
    /\ files = [i \in Inodes |-> <<>>]
    /\ dir = [p \in Paths |-> NoInode]
    /\ Rebuilt(index, lru, used)
    /\ pc = [w \in Workers |-> "idle"]
    /\ target = [w \in Workers |-> AnyKey]
    /\ version = [w \in Workers |-> AnyVersion]
    /\ fd = [w \in Workers |-> NoInode]
    /\ offset = [w \in Workers |-> 0]
    /\ started = 0
    /\ crashes = 0
    /\ crowded = {} /\ suspect = {} /\ overtaken = {}
    /\ resized = FALSE
    /\ room = IF budget = "auto" /\ DiskSize < Reserve THEN "lost" ELSE "kept"

(* Worker w begins an operation on k; v is the version, for a put.         *)
Begin(w, k, v, to) ==
    /\ pc[w] = "idle" /\ started < MaxOps
    /\ pc' = [pc EXCEPT ![w] = to]
    /\ target' = [target EXCEPT ![w] = k]
    /\ version' = [version EXCEPT ![w] = v]
    /\ started' = started + 1
    /\ UNCHANGED <<offset, crashes>>

(* Within an operation; and its end, which forgets its locals.             *)
Goto(w, from, to) ==
    /\ pc[w] = from /\ pc' = [pc EXCEPT ![w] = to]
    /\ UNCHANGED <<target, version, started, crashes>>
End(w, from) ==
    /\ pc[w] = from /\ pc' = [pc EXCEPT ![w] = "idle"]
    /\ target' = [target EXCEPT ![w] = AnyKey]
    /\ version' = [version EXCEPT ![w] = AnyVersion]
    /\ offset' = [offset EXCEPT ![w] = 0]
    /\ crowded' = crowded \ {w}
    /\ UNCHANGED <<started, crashes>>

-----------------------------------------------------------------------------
(* PutFile and PutReader.                                                  *)

StartPut(w, k, v) ==
    /\ Begin(w, k, v, "space")
    /\ UNCHANGED <<disk, memory, fd, mixing, books>>

(* Mutant: makes room for what is there, not for what is coming.           *)
FitsWithoutNeed(k, need, victims) ==
    LET held == {dir[p] : p \in Paths \ victims} \cup {fd[w] : w \in Workers}
    IN IF budget = "fixed"
       THEN used - Sum(index, victims) <= Capacity
       ELSE 0 <= DiskSize - Reserve
                 - Sum(Blocks, held \ {NoInode})

(* Whether need blocks fit once the given victims are gone.  A fixed cap   *)
(* bounds the bytes used.  The automatic budget is used + free - reserve,  *)
(* and the free space must then cover need and the reserve, which implies  *)
(* the first.                                                              *)
Fits(k, need, victims) ==
    LET replaced == IF index[Object(k)] = Absent THEN 0 ELSE index[Object(k)]
        held     == {dir[p] : p \in Paths \ victims} \cup {fd[w] : w \in Workers}
    IN IF budget = "fixed"
       THEN used - Sum(index, victims) - replaced + need <= Capacity
       ELSE need <= DiskSize - Reserve
                    - Sum(Blocks, held \ {NoInode})

(* Mutant: what is evicted stays in the order of use.                      *)
EvictKeepsOrder(victims) ==
    /\ dir' = [p \in Paths |-> IF p \in victims THEN NoInode ELSE dir[p]]
    /\ index' = [p \in Paths |-> IF p \in victims THEN Absent ELSE index[p]]
    /\ used' = used - Sum(index, victims)
    /\ UNCHANGED <<fd, lru>>
    /\ Reclaim

Evict(victims) ==
    /\ dir' = [p \in Paths |-> IF p \in victims THEN NoInode ELSE dir[p]]
    /\ index' = [p \in Paths |-> IF p \in victims THEN Absent ELSE index[p]]
    /\ lru' = Without(lru, victims)
    /\ used' = used - Sum(index, victims)
    /\ UNCHANGED fd
    /\ Reclaim

(* A put that was given room and has not yet entered it in the index.      *)
Granted(w) == pc[w] \in {"create", "write", "rename", "note"}

(* ensureSpace: evicts in order of last use, never the key being replaced, *)
(* until the object fits; an object that cannot fit empties the cache and  *)
(* is refused.                                                             *)
EnsureSpace(w) ==
    LET order    == Forgotten(lru, Object(target[w]))
        First(n) == {order[i] : i \in 1 .. n}
        enough   == {n \in 0 .. Len(order) :
                        Fits(target[w], SizeOf[version[w]], First(n))}
    IN \/ /\ enough # {}
          /\ Goto(w, "space", "create") /\ UNCHANGED <<offset, mixing, overtaken, resized>>
          /\ Evict(First(Min(enough)))
          /\ room' = IF \E x \in Workers : Granted(x) THEN "lost"
                     ELSE IF room = "kept" THEN "kept" ELSE "restoring"
       \/ /\ enough = {}
          /\ End(w, "space") /\ UNCHANGED <<suspect, books>>
          /\ Evict(First(Len(order)))

(* The other puts that are between creating and renaming w's key.tmp.      *)
Filling(x) == pc[x] \in {"write", "rename"}
Rivals(w)  == {x \in Workers \ {w} : Filling(x) /\ target[x] = target[w]}

(* O_CREATE|O_TRUNC: an existing key.tmp is emptied, whoever writes it.    *)
Create(w) ==
    LET tmp == Temp(target[w])
        i   == IF dir[tmp] = NoInode THEN Unused ELSE dir[tmp]
    IN /\ Goto(w, "create", "write")
       /\ dir' = [dir EXCEPT ![tmp] = i]
       /\ fd' = [fd EXCEPT ![w] = i]
       /\ files' = [files EXCEPT ![i] = <<>>]
       /\ crowded' = IF Rivals(w) = {} THEN crowded ELSE crowded \cup Rivals(w) \cup {w}
       /\ UNCHANGED <<budget, memory, offset, suspect, books>>

(* The directory or key.tmp cannot be made, or PutFile cannot open its     *)
(* source: PutFile removes key.tmp then, whoever wrote it.                 *)
CreateFails(w) ==
    /\ \/ End(w, "create")
       \/ Goto(w, "create", "abandon") /\ UNCHANGED <<offset, crowded>>
    /\ UNCHANGED <<disk, memory, fd, suspect, books>>

(* One block more, at the descriptor's own offset: past the end of a file  *)
(* another writer has emptied it leaves a hole.                            *)
Write(w) ==
    LET at      == offset[w] + 1
        content == files[fd[w]]
    IN /\ at <= SizeOf[version[w]]
       /\ Goto(w, "write", "write")
       /\ files' = [files EXCEPT ![fd[w]] =
              [i \in 1 .. Max({at, Len(content)}) |->
                  IF i = at THEN version[w] ELSE IF i <= Len(content) THEN content[i] ELSE 0]]
       /\ offset' = [offset EXCEPT ![w] = at]
       /\ UNCHANGED <<budget, dir, memory, fd, mixing, books>>

CloseFile(w) ==
    /\ fd' = [fd EXCEPT ![w] = NoInode]
    /\ UNCHANGED <<dir, memory, suspect, books>>
    /\ Reclaim

(* Mutant: a short body is installed.                                      *)
CloseShort(w) ==
    /\ Goto(w, "write", "rename") /\ UNCHANGED <<offset, crowded>>
    /\ CloseFile(w)

(* All size blocks were received.                                          *)
Close(w) ==
    /\ offset[w] = SizeOf[version[w]]
    /\ Goto(w, "write", "rename") /\ UNCHANGED <<offset, crowded>>
    /\ CloseFile(w)

(* The body was short, or reading or writing failed.                       *)
PutFails(w) ==
    /\ Goto(w, "write", "abandon") /\ UNCHANGED <<offset, crowded>>
    /\ CloseFile(w)

(* A delete of k is between its unlink and its critical section.           *)
Deleted(k) == \E x \in Workers : pc[x] = "forget" /\ target[x] = k

(* The rename fails when another put has renamed or removed key.tmp.       *)
Rename(w) ==
    LET k == target[w] IN
    /\ IF dir[Temp(k)] # NoInode
       THEN /\ Goto(w, "rename", "note")
            /\ dir' = [dir EXCEPT ![Object(k)] = dir[Temp(k)], ![Temp(k)] = NoInode]
            /\ suspect' = IF w \in crowded THEN suspect \cup {k} ELSE suspect \ {k}
            /\ overtaken' = IF Deleted(k) THEN overtaken \cup {k} ELSE overtaken
       ELSE /\ Goto(w, "rename", "abandon")
            /\ UNCHANGED <<dir, suspect, overtaken>>
    /\ UNCHANGED <<memory, fd, offset, crowded, resized, room>>
    /\ Reclaim

(* A put that failed removes key.tmp, whoever wrote it.                    *)
Abandon(w) ==
    /\ dir' = [dir EXCEPT ![Temp(target[w])] = NoInode]
    /\ End(w, "abandon")
    /\ UNCHANGED <<memory, fd, suspect, books>>
    /\ Reclaim

(* Key k is in the index again, for good unless a delete is to take it out.*)
Entered(k) == overtaken' = IF Deleted(k) THEN overtaken ELSE overtaken \ {k}

(* The critical section that ends a put.                                   *)
Note(w) ==
    LET p    == Object(target[w])
        size == SizeOf[version[w]]
        old  == IF index[p] = Absent THEN 0 ELSE index[p]
    IN /\ index' = [index EXCEPT ![p] = size]
       /\ lru' = LastUsed(lru, p)
       /\ used' = used - old + size
       /\ End(w, "note")
       /\ Entered(target[w])
       /\ room' = IF room = "restoring" THEN "kept" ELSE room
       /\ UNCHANGED <<disk, fd, suspect, resized>>

-----------------------------------------------------------------------------
(* Lookup.                                                                 *)

Open(w, k) ==
    /\ dir[Object(k)] # NoInode
    /\ Begin(w, k, version[w], "stat")
    /\ fd' = [fd EXCEPT ![w] = dir[Object(k)]]
    /\ crowded' = IF k \in suspect THEN crowded \cup {w} ELSE crowded
    /\ UNCHANGED <<disk, memory, suspect, books>>

(* What the history keeps of a lookup that found size blocks: an entry it  *)
(* adds was not given room, one it changes makes used differ.              *)
Found(w, size) ==
    LET p == Object(target[w]) IN
    /\ resized' = (resized \/ index[p] \notin {Absent, size})
    /\ room' = IF budget = "fixed" /\ index[p] = Absent THEN "lost" ELSE room
    /\ Entered(target[w])

(* Mutant: every lookup adds the object's size.                            *)
StatCountsAgain(w) ==
    LET p    == Object(target[w])
        size == Len(files[fd[w]])
    IN /\ Goto(w, "stat", "reading")
       /\ index' = [index EXCEPT ![p] = size]
       /\ lru' = LastUsed(lru, p)
       /\ used' = used + size
       /\ offset' = [offset EXCEPT ![w] = size]
       /\ Found(w, size)
       /\ UNCHANGED <<disk, fd, mixing>>

(* Mutant: the file is opened again by its name when it is served.         *)
StatReopens(w) ==
    LET p    == Object(target[w])
        i    == IF dir[p] = NoInode THEN fd[w] ELSE dir[p]
        size == Len(files[i])
    IN /\ Goto(w, "stat", "reading")
       /\ index' = [index EXCEPT ![p] = size]
       /\ lru' = LastUsed(lru, p)
       /\ used' = IF index[p] = Absent THEN used + size ELSE used
       /\ offset' = [offset EXCEPT ![w] = size]
       /\ fd' = [fd EXCEPT ![w] = i]
       /\ Found(w, size)
       /\ UNCHANGED <<dir, mixing>>
       /\ Reclaim

(* An indexed object takes the size found without a change of used; one    *)
(* that is not indexed is added to both.                                   *)
Stat(w) ==
    LET p    == Object(target[w])
        size == Len(files[fd[w]])
    IN /\ Goto(w, "stat", "reading")
       /\ index' = [index EXCEPT ![p] = size]
       /\ lru' = LastUsed(lru, p)
       /\ used' = IF index[p] = Absent THEN used + size ELSE used
       /\ offset' = [offset EXCEPT ![w] = size]
       /\ Found(w, size)
       /\ UNCHANGED <<disk, fd, mixing>>

(* The handler has sent the file and closes it.                            *)
Done(w) == End(w, "reading") /\ CloseFile(w)

-----------------------------------------------------------------------------
(* Delete.                                                                 *)

Unlink(w, k) ==
    /\ Begin(w, k, version[w], "forget")
    /\ dir' = [dir EXCEPT ![Object(k)] = NoInode]
    /\ UNCHANGED <<memory, fd, mixing, books>>
    /\ Reclaim

Forget(w) ==
    LET p == Object(target[w]) IN
    /\ IF index[p] # Absent
       THEN /\ index' = [index EXCEPT ![p] = Absent]
            /\ lru' = Forgotten(lru, p)
            /\ used' = Max({0, used - index[p]})
       ELSE UNCHANGED memory
    /\ End(w, "forget")
    /\ UNCHANGED <<disk, fd, suspect, books>>

-----------------------------------------------------------------------------
(* The process dies between any two steps and New rebuilds the index.      *)
Restart ==
    /\ crashes < MaxCrashes
    /\ crashes' = crashes + 1
    /\ pc' = [w \in Workers |-> "idle"]
    /\ target' = [w \in Workers |-> AnyKey]
    /\ version' = [w \in Workers |-> AnyVersion]
    /\ fd' = [w \in Workers |-> NoInode]
    /\ offset' = [w \in Workers |-> 0]
    /\ crowded' = {} /\ overtaken' = {}
    /\ resized' = FALSE
    /\ room' = IF budget = "fixed" THEN "lost" ELSE room
    /\ UNCHANGED <<dir, started, suspect>>
    /\ Reclaim
    /\ Rebuilt(index', lru', used')

Put(w)  == \/ EnsureSpace(w) \/ Create(w) \/ CreateFails(w) \/ Write(w) \/ Close(w) \/ PutFails(w)
           \/ Rename(w) \/ Abandon(w) \/ Note(w)
Look(w) == Stat(w) \/ Done(w)

Next ==
    \/ \E w \in Workers : Put(w) \/ Look(w) \/ Forget(w)
    \/ \E w \in Workers, k \in Keys : Open(w, k) \/ Unlink(w, k)
    \/ \E w \in Workers, k \in Keys, v \in Versions : StartPut(w, k, v)
    \/ Restart

Spec == Init /\ [][Next]_vars

-----------------------------------------------------------------------------
TypeOK ==
    /\ budget \in Budgets
    /\ files \in [Inodes -> Seq(Versions \cup {0})]
    /\ dir \in [Paths -> Inodes \cup {NoInode}]
    /\ index \in [Paths -> Nat \cup {Absent}]
    /\ lru \in Seq(Paths) /\ {lru[i] : i \in 1 .. Len(lru)} = Indexed(index)
    /\ used \in Int
    /\ pc \in [Workers -> {"idle", "space", "create", "write", "rename", "abandon", "note",
                           "stat", "reading", "forget"}]
    /\ target \in [Workers -> Keys]
    /\ version \in [Workers -> Versions]
    /\ fd \in [Workers -> Inodes \cup {NoInode}]
    /\ offset \in [Workers -> Nat]
    /\ started \in 0 .. MaxOps
    /\ crashes \in 0 .. MaxCrashes
    /\ crowded \in SUBSET Workers /\ suspect \in SUBSET Keys /\ overtaken \in SUBSET Keys
    /\ resized \in BOOLEAN
    /\ room \in {"kept", "restoring", "lost"}

(* "Writes r (exactly size bytes) into the cache" (cache.go:298): what is  *)
(* installed under an object's name is the whole of a version, whatever    *)
(* failed or died on the way.                                              *)
InstalledWhole ==
    \A k \in Keys : dir[Object(k)] # NoInode => IsWhole(files[dir[Object(k)]])

(* Only puts of one key that overlap between creating and renaming key.tmp *)
(* can spoil it (cache.go:273-281, 313-339), and the next put of that key  *)
(* that meets no other mends it.                                           *)
WholeUnlessCrowded ==
    \A k \in Keys \ suspect : dir[Object(k)] # NoInode => IsWhole(files[dir[Object(k)]])

(* Cache.used, which decides evictions and is shown as the cache's bytes,  *)
(* is the sum of the indexed sizes, until a lookup finds another size than *)
(* the indexed one and changes the entry only (cache.go:216-222).          *)
UsedIsIndexed == ~resized => used = Sum(index, Indexed(index))

(* LOCAL_CACHE_BYTES is a cap (README.md:368): the index holds no more     *)
(* unless room was given to two puts at once or bytes came in without      *)
(* asking, on a restart or by a lookup; the next put that is given room    *)
(* alone and succeeds restores it.                                         *)
CapRespected == budget = "fixed" /\ room = "kept" /\ ~resized => used <= Capacity

(* LOCAL_CACHE_RESERVE_BYTES stays free when auto-sizing (README.md:367),  *)
(* temporary and deleted but open files included, from the moment a put is *)
(* given room alone until two are given room at once.                      *)
ReserveKept ==
    budget = "auto" /\ room # "lost" => DiskSize - Sum(Blocks, Inodes) >= Reserve

(* Nothing falls out of the books: an object on the disk is indexed, so it *)
(* can be evicted, unless a put of its key is about to index it.  Only a   *)
(* put that installs its object between the two steps of a delete breaks   *)
(* this, until the object is looked up (cache.go:239-253).                 *)
NoOrphans ==
    \A k \in Keys \ overtaken : dir[Object(k)] # NoInode =>
        \/ index[Object(k)] # Absent
        \/ \E w \in Workers : target[w] = k /\ pc[w] = "note"

-----------------------------------------------------------------------------
(* The cache implements AtomicCache: a key's object is the content of the  *)
(* inode that has its name, a put is in progress up to its rename, and a   *)
(* lookup reads the inode it opened.  What several puts may have written   *)
(* is a damaged object, whatever it holds.                                 *)
Mixed == <<0>>
Holding(k) == IF dir[Object(k)] = NoInode THEN <<>>
              ELSE IF k \in suspect THEN Mixed ELSE files[dir[Object(k)]]
InProgress(w) ==
    IF pc[w] \in {"space", "create", "write", "rename"}
    THEN [key |-> target[w], object |-> IF w \in crowded THEN Mixed ELSE Whole(version[w])]
    ELSE <<>>
Reading(w) == IF pc[w] \notin {"stat", "reading"} THEN <<>>
              ELSE IF w \in crowded THEN Mixed ELSE files[fd[w]]

Promise == INSTANCE AtomicCache WITH
    Objects  <- {Whole(v) : v \in Versions},
    Damaged  <- Mixed,
    NoObject <- <<>>,
    NoPut    <- <<>>,
    content  <- [k \in Keys |-> Holding(k)],
    putting  <- [w \in Workers |-> InProgress(w)],
    reading  <- [w \in Workers |-> Reading(w)]

(* No caller ever finds half an object, a put that failed or died leaves   *)
(* the previous object in place, and what a request reads does not change  *)
(* under it (cache.go:190-349), unless two puts of the key met.            *)
ImplementsPromise == Promise!Spec
=============================================================================
