------------------------------- MODULE Usage -------------------------------
(***************************************************************************)
(* How much the bucket holds, as internal/store reports it: uploadSpool    *)
(* tells Usage of every object it stores (NoteStore), and UsageLoop lists  *)
(* the bucket from time to time, page by page, and overwrites what Usage   *)
(* says (RefreshUsage).  The two are not ordered with respect to each other*)
(* or to the bucket: an object that is listed before it is noted counts    *)
(* twice, until the bucket is listed again.                                *)
(***************************************************************************)
EXTENDS Integers, FiniteSets, Functions

CONSTANTS
    Uploads,        \* leaders of flights
    LastKey,        \* the keys are 1 .. LastKey, in the order S3 lists them
    MaxSize,        \* bound: length of an object
    MaxStores,      \* bound: uploads begun
    MaxListFaults,  \* bound: failed listings
    MaxCrashes      \* bound: restarts of the process

Keys    == 1 .. LastKey
Lengths == 1 .. MaxSize
ASSUME UsageAssumption ==
    /\ IsFiniteSet(Uploads) /\ LastKey \in Nat \ {0} /\ MaxSize \in Nat \ {0}
    /\ MaxStores \in Nat /\ MaxListFaults \in Nat /\ MaxCrashes \in Nat

VARIABLES
    bucket,     \* the length of each object in S3; 0: there is none
    upload,     \* where each upload is
    key,        \* what it uploads
    existing,   \* the length of the object it replaces, as it saw it; 0: none
    size,       \* the length of what it has stored
    used, objects,      \* Usage: UsedBytes and ObjectCount
    listing,    \* RefreshUsage: the next key to list, and the sums so far; at 0: none
    cancelled,  \* main has cancelled the context of the loop
    stores, listFaults, crashes,
    (* History.                                                            *)
    drift,      \* Usage may be wrong until the bucket is listed again
    disturbed   \* something was stored or noted while it was being listed

flights   == <<upload, key, existing, size>>
sums      == <<used, objects>>
record  == <<drift, disturbed>>
usageVars == <<bucket, flights, sums, listing, cancelled, stores, listFaults, crashes, record>>

NoListing == [at |-> 0, bytes |-> 0, count |-> 0]
Unnoted   == {u \in Uploads : upload[u] = "stored"}

UsageInit ==
    /\ bucket \in [Keys -> {0, 1}]
    /\ upload = [u \in Uploads |-> "idle"] /\ key = [u \in Uploads |-> 1]
    /\ existing = [u \in Uploads |-> 0] /\ size = [u \in Uploads |-> 0]
    /\ used = 0 /\ objects = 0
    /\ listing = NoListing /\ cancelled = FALSE
    /\ stores = 0 /\ listFaults = 0 /\ crashes = 0
    /\ drift = TRUE /\ disturbed = FALSE

-----------------------------------------------------------------------------
(* An upload.                                                              *)

(* ServeHTTP looks for the object first; when it cannot, there is none.    *)
Look(u, k, seen) ==
    /\ upload[u] = "idle" /\ stores < MaxStores
    /\ seen \in {bucket[k], 0}
    /\ stores' = stores + 1
    /\ upload' = [upload EXCEPT ![u] = "looked"]
    /\ key' = [key EXCEPT ![u] = k]
    /\ existing' = [existing EXCEPT ![u] = seen]
    /\ UNCHANGED <<bucket, size, sums, listing, cancelled, listFaults, crashes, record>>

Forgotten(u) ==
    /\ upload' = [upload EXCEPT ![u] = "idle"]
    /\ key' = [key EXCEPT ![u] = 1]
    /\ existing' = [existing EXCEPT ![u] = 0] /\ size' = [size EXCEPT ![u] = 0]

(* PutObject; nobody else uploads this key, for it leads the flight.       *)
PutFile(u, s) ==
    /\ upload[u] = "looked" /\ \A o \in Unnoted : key[o] # key[u]
    /\ bucket' = [bucket EXCEPT ![key[u]] = s]
    /\ upload' = [upload EXCEPT ![u] = "stored"]
    /\ size' = [size EXCEPT ![u] = s]
    /\ drift' = (drift \/ existing[u] # bucket[key[u]])
    /\ disturbed' = (disturbed \/ listing.at # 0)
    /\ UNCHANGED <<key, existing, sums, listing, cancelled, stores, listFaults, crashes>>

(* PutObject fails, and S3 has stored the object all the same: nobody notes*)
(* it.                                                                     *)
PutUnnoted(u, s) ==
    /\ upload[u] = "looked" /\ \A o \in Unnoted : key[o] # key[u]
    /\ bucket' = [bucket EXCEPT ![key[u]] = s]
    /\ Forgotten(u)
    /\ drift' = (drift \/ s # bucket[key[u]])
    /\ disturbed' = (disturbed \/ listing.at # 0)
    /\ UNCHANGED <<sums, listing, cancelled, stores, listFaults, crashes>>

(* The fetch or the upload fails and leaves the bucket as it is, or it only*)
(* follows another's flight.                                               *)
StoresNothing(u) ==
    /\ upload[u] = "looked"
    /\ Forgotten(u)
    /\ UNCHANGED <<bucket, sums, listing, cancelled, stores, listFaults, crashes, record>>

(* Mutant: what is replaced still counts.                                  *)
GrowthOfNew(u) == size[u]
Growth(u) == size[u] - existing[u]

NoteStore(u) ==
    /\ upload[u] = "stored"
    /\ used' = used + Growth(u)
    /\ objects' = IF existing[u] = 0 THEN objects + 1 ELSE objects
    /\ Forgotten(u)
    /\ disturbed' = (disturbed \/ listing.at # 0)
    /\ UNCHANGED <<bucket, listing, cancelled, stores, listFaults, crashes, drift>>

-----------------------------------------------------------------------------
(* UsageLoop and RefreshUsage.                                             *)

(* Mutant: the sums start from what is known.                              *)
ListOnTop ==
    /\ listing.at = 0 /\ ~cancelled
    /\ listing' = [at |-> 1, bytes |-> used, count |-> objects]
    /\ disturbed' = (Unnoted # {})
    /\ UNCHANGED <<bucket, flights, sums, cancelled, stores, listFaults, crashes, drift>>
List ==
    /\ listing.at = 0 /\ ~cancelled
    /\ listing' = [NoListing EXCEPT !.at = 1]
    /\ disturbed' = (Unnoted # {})
    /\ UNCHANGED <<bucket, flights, sums, cancelled, stores, listFaults, crashes, drift>>

(* A page holds one key.                                                   *)
ListPage ==
    LET k == listing.at IN
    /\ k \in Keys
    /\ listing' = [at    |-> k + 1,
                   bytes |-> listing.bytes + bucket[k],
                   count |-> IF bucket[k] = 0 THEN listing.count ELSE listing.count + 1]
    /\ UNCHANGED <<bucket, flights, sums, cancelled, stores, listFaults, crashes, record>>

(* S3 fails, or the context is cancelled: Usage keeps its numbers.         *)
ListFails ==
    /\ listing.at \in Keys
    /\ listing' = NoListing /\ disturbed' = FALSE
    /\ \/ cancelled /\ UNCHANGED listFaults
       \/ listFaults < MaxListFaults /\ listFaults' = listFaults + 1
    /\ UNCHANGED <<bucket, flights, sums, cancelled, stores, crashes, drift>>

ListDone ==
    /\ listing.at > LastKey
    /\ used' = listing.bytes /\ objects' = listing.count
    /\ listing' = NoListing
    /\ drift' = disturbed /\ disturbed' = FALSE
    /\ UNCHANGED <<bucket, flights, cancelled, stores, listFaults, crashes>>

Cancel ==
    /\ ~cancelled /\ cancelled' = TRUE
    /\ UNCHANGED <<bucket, flights, sums, listing, stores, listFaults, crashes, record>>

(* Nothing of this is persisted: a new process starts from zero.           *)
Crash ==
    /\ crashes < MaxCrashes /\ crashes' = crashes + 1
    /\ upload' = [u \in Uploads |-> "idle"] /\ key' = [u \in Uploads |-> 1]
    /\ existing' = [u \in Uploads |-> 0] /\ size' = [u \in Uploads |-> 0]
    /\ used' = 0 /\ objects' = 0
    /\ listing' = NoListing /\ cancelled' = FALSE
    /\ drift' = TRUE /\ disturbed' = FALSE
    /\ UNCHANGED <<bucket, stores, listFaults>>

UsageNext ==
    \/ \E u \in Uploads :
         \/ \E k \in Keys, seen \in 0 .. MaxSize : Look(u, k, seen)
         \/ \E s \in Lengths : PutFile(u, s) \/ PutUnnoted(u, s)
         \/ StoresNothing(u) \/ NoteStore(u)
    \/ List \/ ListPage \/ ListFails \/ ListDone
    \/ Cancel \/ Crash

UsageSpec == UsageInit /\ [][UsageNext]_usageVars

-----------------------------------------------------------------------------
UsageTypeOK ==
    /\ bucket \in [Keys -> 0 .. MaxSize]
    /\ upload \in [Uploads -> {"idle", "looked", "stored"}] /\ key \in [Uploads -> Keys]
    /\ existing \in [Uploads -> 0 .. MaxSize] /\ size \in [Uploads -> 0 .. MaxSize]
    /\ used \in Int /\ objects \in Nat
    /\ listing \in [at : 0 .. LastKey + 1, bytes : Nat, count : 0 .. LastKey]
    /\ cancelled \in BOOLEAN /\ drift \in BOOLEAN /\ disturbed \in BOOLEAN
    /\ stores \in 0 .. MaxStores /\ listFaults \in 0 .. MaxListFaults
    /\ crashes \in 0 .. MaxCrashes

Holds == SumFunctionOnSet(bucket, Keys)
Grew  == [u \in Uploads |-> size[u] - existing[u]]

(* From one listing to the next, Usage and what is about to be noted are   *)
(* what the bucket holds, unless something was stored while it was listed, *)
(* replaced an object that the request had not seen, or was stored by an   *)
(* upload that failed (s3.go:80-89, 255-289; spool.go:172-184).            *)
UsageExact ==
    ~drift =>
        /\ used + SumFunctionOnSet(Grew, Unnoted) = Holds
        /\ objects + Cardinality({u \in Unnoted : existing[u] = 0})
               = Cardinality({k \in Keys : bucket[k] # 0})
=============================================================================
