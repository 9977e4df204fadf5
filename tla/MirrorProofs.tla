---------------------------- MODULE MirrorProofs ----------------------------
EXTENDS Mirror, FiniteSetTheorems, TLAPS

(* Whole files are files.                                                  *)
LEMMA WholeType ==
    /\ NoFile \in Files /\ NoFile.ver = 0
    /\ \A v \in 0 .. MaxVersion : Whole(v) \in Files /\ Whole(v).ver = v
    /\ \A v \in 1 .. MaxVersion : SizeOf[v] \in Nat
  BY VersionsAssumption DEF Whole, Files, NoFile, Versions

LEMMA ReplyType ==
    ASSUME TypeOK, NEW r \in Requests, NEW how \in Outcomes,
           NEW length \in Nat \cup {NoHead}, NEW body \in Files, Reply(r, how, length, body)
    PROVE  answer' \in [Requests -> Answers]
  BY DEF TypeOK, Reply, Answers, NoHead

LEMMA GotoType ==
    ASSUME TypeOK, NEW r \in Requests, NEW from, NEW to \in Locations, Goto(r, from, to)
    PROVE  /\ pc' \in [Requests -> Locations]
           /\ upstream' = upstream /\ key' = key /\ meth' = meth /\ rng' = rng
  BY DEF TypeOK, Goto, asked

LEMMA ReturnType ==
    ASSUME TypeOK, NEW r \in Requests, NEW from, NEW how \in Outcomes,
           NEW length \in Nat \cup {NoHead}, NEW body \in Files,
           Return(r, from, how, length, body)
    PROVE  /\ pc' \in [Requests -> Locations]
           /\ upstream' = upstream /\ key' = key /\ meth' = meth /\ rng' = rng
           /\ hold' \in [Requests -> Nat \cup {NoHead}]
           /\ obj' \in [Requests -> Files]
           /\ flight' \in [Requests -> Requests \cup {NoReq}]
           /\ answer' \in [Requests -> Answers]
  <1>1. "end" \in Locations
    BY DEF Locations
  <1>2. answer' \in [Requests -> Answers]
    BY ReplyType DEF Return
  <1> QED
    BY <1>1, <1>2, GotoType, WholeType DEF Return, TypeOK

LEMMA ServeFromHeadType ==
    ASSUME TypeOK, NEW r \in Requests, NEW from, NEW size \in Nat \cup {NoHead},
           ServeFromHead(r, from, size)
    PROVE  /\ pc' \in [Requests -> Locations]
           /\ upstream' = upstream /\ key' = key /\ meth' = meth /\ rng' = rng
           /\ hold' \in [Requests -> Nat \cup {NoHead}]
           /\ obj' \in [Requests -> Files]
           /\ flight' \in [Requests -> Requests \cup {NoReq}]
           /\ answer' \in [Requests -> Answers]
  <1>1. "RANGE-416" \in Outcomes /\ "HIT-S3" \in Outcomes /\ "s3get" \in Locations
    BY DEF Outcomes, Locations
  <1>2. CASE IsHead(r)
    BY <1>1, <1>2, ReturnType, WholeType DEF ServeFromHead
  <1>3. CASE ~IsHead(r)
    BY <1>1, <1>3, GotoType DEF ServeFromHead, TypeOK
  <1> QED BY <1>2, <1>3

LEMMA GiveUpType ==
    ASSUME TypeOK, NEW r \in Requests, NEW from, NEW how \in Outcomes, GiveUp(r, from, how),
           s3' \in [Keys -> 0 .. MaxVersion], negative' \subseteq Keys
    PROVE  TypeOK'
  <1>1. "leave" \in Locations
    BY DEF Locations, LeadLocations
  <1>2. answer' \in [Requests -> Answers]
    BY ReplyType, WholeType DEF GiveUp
  <1>3. spool' \in [Requests -> 0 .. MaxVersion]
    BY VersionsAssumption DEF GiveUp, TypeOK
  <1>4. slots' \subseteq Requests
    BY DEF GiveUp, TypeOK
  <1> QED
    BY <1>1, <1>2, <1>3, <1>4, GotoType DEF GiveUp, TypeOK, locals

LEMMA CacheType ==
    ASSUME TypeOK, NEW k \in Keys
    PROVE  /\ DropFile(k) => disk' \in [Keys -> Files]
           /\ DropHead(k) => heads' \in [Keys -> Nat \cup {NoHead}]
           /\ \A size \in Nat \cup {NoHead} :
                 RememberHead(k, size) => heads' \in [Keys -> Nat \cup {NoHead}]
  BY WholeType DEF TypeOK, DropFile, DropHead, RememberHead

LEMMA S3HeadAtType ==
    ASSUME TypeOK, NEW r \in Requests, NEW from, NEW missTo \in Locations,
           S3HeadAt(r, from, missTo)
    PROVE  TypeOK'
  <1>1. "remember" \in Locations /\ key[r] \in Keys
    BY DEF Locations, TypeOK
  <1>2. s3[key[r]] # 0 => SizeOf[s3[key[r]]] \in Nat
    BY <1>1, WholeType, VersionsAssumption DEF TypeOK
  <1>3. hold' \in [Requests -> Nat \cup {NoHead}]
    BY <1>2 DEF S3HeadAt, TypeOK
  <1>4. pc' \in [Requests -> Locations] /\ upstream' = upstream
        /\ key' = key /\ meth' = meth /\ rng' = rng
    BY <1>1, GotoType DEF S3HeadAt
  <1> QED
    BY <1>3, <1>4 DEF S3HeadAt, TypeOK, shared, flights

LEMMA StartPopulateType ==
    ASSUME TypeOK, NEW r \in Requests, NEW v \in 0 .. MaxVersion,
           NEW size \in Nat \cup {NoHead}, StartPopulate(r, v, size)
    PROVE  pop' \in [Requests -> Files]
  BY DEF StartPopulate, TypeOK, Files, NoHead

(* Every step of every request keeps the types: a leader that remembers or *)
(* serves its file has one, which is what NoSpoolLeak adds.                *)
LEMMA HandleTypeOK ==
    ASSUME TypeOK, NoSpoolLeak, NEW r \in Requests, Handle(r) \/ Transfer(r) \/ Cancelled(r) \/ Populate(r)
    PROVE  TypeOK'
  <1> USE DEF shared, flights, locals, asked
  <1>0. key[r] \in Keys /\ NoHead \in Nat \cup {NoHead}
    BY DEF TypeOK
  <1>1. /\ {"NEGATIVE", "HIT-DISK", "HIT-S3", "MISS", "MISS-STORED", "CONFLICT", "RANGE-416",
            "COALESCE-FAIL", "FAILED", "NOT-FOUND"} \subseteq Outcomes
    BY DEF Outcomes
  <1>2. {"disk", "diskcheck", "diskserve", "front", "s3head", "remember",
            "fresh", "reval", "stale", "gone", "pkgget", "pkgserve", "s3get",
            "headmiss", "hwait", "hs3head", "uphead", "headneg", "join", "fwait",
            "fhead", "fs3head", "fneg", "close", "end", "capacity", "slot", "leave",
            "upget", "spooling", "upload", "stored", "populate", "lead", "serve"}
           \subseteq Locations
    BY DEF Locations, LeadLocations, SlotLocations, SpoolLocations
  <1>3. /\ obj[r] \in Files /\ obj[r].size \in Nat /\ obj[r].ver \in 0 .. MaxVersion
        /\ hold[r] \in Nat \cup {NoHead} /\ heads[key[r]] \in Nat \cup {NoHead}
        /\ s3[key[r]] \in 0 .. MaxVersion /\ upstream[key[r]] \in 0 .. MaxVersion
        /\ spool[r] \in 0 .. MaxVersion
    BY <1>0 DEF TypeOK, Files
  <1>4. /\ Whole(s3[key[r]]) \in Files /\ Whole(spool[r]) \in Files
        /\ upstream[key[r]] # 0 => SizeOf[upstream[key[r]]] \in Nat
        /\ spool[r] # 0 => SizeOf[spool[r]] \in Nat
    BY <1>3, WholeType
  <1>5. pc[r] \in {"lead", "serve"} => spool[r] # 0
    BY DEF NoSpoolLeak, SpoolLocations
  <1>a. CASE Arrive(r)
    BY <1>a, <1>0, <1>1, <1>2, ReturnType, GotoType, WholeType DEF Arrive, TypeOK
  <1>b. CASE DiskLookup(r)
    BY <1>b, <1>0, <1>2, GotoType DEF DiskLookup, AfterDiskMiss, TypeOK
  <1>c. CASE DiskCheck(r)
    <2>1. disk' \in [Keys -> Files] /\ obj' \in [Requests -> Files]
      BY <1>c, <1>0, CacheType, WholeType DEF DiskCheck, TypeOK
    <2>2. pc' \in [Requests -> Locations] /\ upstream' = upstream
          /\ key' = key /\ meth' = meth /\ rng' = rng
      BY <1>c, <1>2, GotoType DEF DiskCheck, AfterDiskMiss
    <2> QED
      BY <1>c, <2>1, <2>2 DEF DiskCheck, TypeOK
  <1>d. CASE DiskServe(r)
    BY <1>d, <1>0, <1>1, <1>3, ReturnType, WholeType, CacheType DEF DiskServe, TypeOK
  <1>e. CASE HeadCacheGet(r)
    BY <1>e, <1>0, <1>2, <1>3, GotoType, ServeFromHeadType DEF HeadCacheGet, TypeOK
  <1>f. CASE S3Head(r)
    BY <1>f, <1>2, S3HeadAtType DEF S3Head
  <1>g. CASE RememberS3Head(r)
    BY <1>g, <1>0, <1>2, <1>3, GotoType, ServeFromHeadType, CacheType DEF RememberS3Head, TypeOK
  <1>h. CASE CheckFresh(r)
    BY <1>h, <1>0, <1>2, <1>3, GotoType, ServeFromHeadType DEF CheckFresh, TypeOK
  <1>i. CASE Revalidate(r)
    BY <1>i, <1>0, <1>2, <1>3, GotoType, ServeFromHeadType DEF Revalidate, TypeOK
  <1>j. CASE DropStale(r)
    BY <1>j, <1>0, <1>2, GotoType, CacheType DEF DropStale, TypeOK
  <1>k. CASE PackageGet(r)
    BY <1>k, <1>0, <1>1, <1>2, <1>4, GotoType, ReturnType, WholeType DEF PackageGet, TypeOK
  <1>l. CASE PackageServe(r)
    BY <1>l, <1>0, <1>1, <1>3, ReturnType, CacheType, StartPopulateType DEF PackageServe, TypeOK
  <1>m. CASE StreamS3(r)
    BY <1>m, <1>0, <1>1, <1>3, <1>4, ReturnType, WholeType, CacheType, StartPopulateType
    DEF StreamS3, TypeOK
  <1>n. CASE Populate(r)
    BY <1>n, <1>0, WholeType DEF Populate, TypeOK
  <1>o. CASE HeadMiss(r)
    BY <1>o, <1>0, <1>2, GotoType DEF HeadMiss, TypeOK
  <1>p. CASE HeadWake(r)
    BY <1>p, <1>2, GotoType DEF HeadWake, TypeOK
  <1>q. CASE HeadAfterFlight(r)
    BY <1>q, <1>2, S3HeadAtType DEF HeadAfterFlight
  <1>r. CASE UpstreamHead(r)
    BY <1>r, <1>0, <1>1, <1>2, <1>4, GotoType, ReturnType, WholeType DEF UpstreamHead, TypeOK
  <1>s. CASE HeadNotFound(r)
    BY <1>s, <1>0, <1>1, ReturnType, WholeType DEF HeadNotFound, TypeOK
  <1>t. CASE Join(r)
    BY <1>t, <1>0, <1>2, GotoType DEF Join, TypeOK
  <1>u. CASE FollowerWake(r)
    BY <1>u, <1>2, GotoType DEF FollowerWake, TypeOK
  <1>v. CASE FollowerHeadCache(r)
    BY <1>v, <1>0, <1>2, <1>3, GotoType, ServeFromHeadType DEF FollowerHeadCache, TypeOK
  <1>w. CASE FollowerS3Head(r)
    BY <1>w, <1>2, S3HeadAtType DEF FollowerS3Head
  <1>x. CASE FollowerFails(r)
    BY <1>x, <1>0, <1>1, ReturnType, WholeType DEF FollowerFails, TypeOK
  <1>y. CASE Capacity(r) \/ Cancelled(r)
    BY <1>y, <1>1, <1>2, GotoType, GiveUpType DEF Capacity, Cancelled, TypeOK
  <1>z. CASE AcquireSlot(r)
    BY <1>z, <1>2, GotoType DEF AcquireSlot, TypeOK
  <1>aa. CASE UpstreamGet(r)
    BY <1>aa, <1>0, <1>1, <1>2, <1>3, GotoType, GiveUpType DEF UpstreamGet, TypeOK
  <1>bb. CASE Spool(r)
    BY <1>bb, <1>1, <1>2, GotoType, GiveUpType DEF Spool, TypeOK
  <1>cc. CASE Upload(r)
    <2>1. CASE SkipConflict(r)
      BY <2>1, <1>0, <1>2, GotoType, CacheType DEF SkipConflict, TypeOK
    <2>2. CASE PutObject(r)
      <3>1. s3' \in [Keys -> 0 .. MaxVersion]
        BY <2>2, <1>0, <1>3 DEF PutObject, TypeOK
      <3> QED
        BY <2>2, <3>1, <1>1, <1>2, GotoType, GiveUpType DEF PutObject, TypeOK
    <2> QED
      BY <1>cc, <2>1, <2>2 DEF Upload
  <1>dd. CASE Stored(r)
    BY <1>dd, <1>2, GotoType DEF Stored, TypeOK
  <1>ee. CASE PopulateFile(r)
    BY <1>ee, <1>0, <1>2, <1>4, GotoType DEF PopulateFile, TypeOK
  <1>ff. CASE LeaderRemembers(r)
    BY <1>ff, <1>5, <1>0, <1>2, <1>4, GotoType, CacheType DEF LeaderRemembers, Goto, TypeOK
  <1>gg. CASE ServeSpool(r)
    <2>1. answer' \in [Requests -> Answers]
      BY <1>gg, <1>1, <1>4, <1>5, ReplyType, WholeType DEF ServeSpool, Goto
    <2>2. spool' \in [Requests -> 0 .. MaxVersion]
      BY <1>gg, VersionsAssumption DEF ServeSpool, TypeOK
    <2> QED
      BY <1>gg, <2>1, <2>2, <1>2, GotoType DEF ServeSpool, TypeOK
  <1>hh. CASE LeaveFlight(r)
    BY <1>hh, <1>0, <1>2, GotoType DEF LeaveFlight, TypeOK
  <1>ii. CASE CloseFlight(r)
    BY <1>ii, <1>0, <1>2, GotoType DEF CloseFlight, TypeOK
  <1> QED
    BY <1>a, <1>b, <1>c, <1>d, <1>e, <1>f, <1>g, <1>h, <1>i, <1>j, <1>k, <1>l, <1>m, <1>n,
       <1>o, <1>p, <1>q, <1>r, <1>s, <1>t, <1>u, <1>v, <1>w, <1>x, <1>y, <1>z, <1>aa, <1>bb,
       <1>cc, <1>dd, <1>ee, <1>ff, <1>gg, <1>hh, <1>ii
    DEF Handle, Transfer

-----------------------------------------------------------------------------
(* What coalesces and bounds the misses: the flights, the slots, the files *)
(* and the waiters.                                                        *)
Control == OneFetchPerKey /\ SpoolLimit /\ NoSpoolLeak /\ WaitsForLiveFlight

(* Where a request is neither a leader nor about to close its flight.      *)
Bystanding == Locations \ (LeadLocations \cup {"close"})

(* A step of a bystander that does not start to wait disturbs none of it.  *)
LEMMA BystanderControl ==
    ASSUME TypeOK, Control, NEW r \in Requests,
           NEW from \in Bystanding, NEW to \in Bystanding \ {"fwait", "hwait"},
           Goto(r, from, to), UNCHANGED flights, flight' = flight
    PROVE  Control'
  <1>1. /\ \A q \in Requests : pc'[q] = IF q = r THEN to ELSE pc[q]
        /\ pc[r] = from /\ key' = key
        /\ inflight' = inflight /\ done' = done /\ slots' = slots /\ spool' = spool
    BY DEF Goto, TypeOK, asked, flights
  <1>2. /\ from \notin LeadLocations /\ to \notin LeadLocations
        /\ from # "close" /\ to \notin {"fwait", "hwait"}
        /\ SlotLocations \subseteq LeadLocations /\ SpoolLocations \subseteq LeadLocations
    BY DEF Bystanding, LeadLocations
  <1>3. OneFetchPerKey'
    BY <1>1, <1>2 DEF Control, OneFetchPerKey
  <1>4. SpoolLimit'
    <2>1. {q \in Requests : pc'[q] \in SlotLocations} = {q \in Requests : pc[q] \in SlotLocations}
      BY <1>1, <1>2
    <2> QED
      BY <2>1, <1>1 DEF Control, SpoolLimit
  <1>5. NoSpoolLeak'
    BY <1>1, <1>2 DEF Control, NoSpoolLeak
  <1>6. WaitsForLiveFlight'
    BY <1>1, <1>2 DEF Control, WaitsForLiveFlight
  <1> QED
    BY <1>3, <1>4, <1>5, <1>6 DEF Control

(* A bystander that waits for the flight it found registered for its key.  *)
LEMMA WaiterControl ==
    ASSUME TypeOK, Control, NEW r \in Requests,
           NEW from \in Bystanding, NEW to \in {"fwait", "hwait"},
           Goto(r, from, to), UNCHANGED flights, inflight[key[r]] # NoReq,
           flight' = [flight EXCEPT ![r] = inflight[key[r]]]
    PROVE  Control'
  <1>1. /\ \A q \in Requests : pc'[q] = IF q = r THEN to ELSE pc[q]
        /\ pc[r] = from /\ key' = key
        /\ inflight' = inflight /\ done' = done /\ slots' = slots /\ spool' = spool
        /\ \A q \in Requests : flight'[q] = IF q = r THEN inflight[key[r]] ELSE flight[q]
        /\ key[r] \in Keys
    BY DEF Goto, TypeOK, asked, flights
  <1>2. /\ from \notin LeadLocations /\ to \notin LeadLocations /\ from # "close"
        /\ SlotLocations \subseteq LeadLocations /\ SpoolLocations \subseteq LeadLocations
    BY DEF Bystanding, LeadLocations, SlotLocations, SpoolLocations
  <1>3. OneFetchPerKey'
    BY <1>1, <1>2 DEF Control, OneFetchPerKey
  <1>4. SpoolLimit'
    <2>1. {q \in Requests : pc'[q] \in SlotLocations} = {q \in Requests : pc[q] \in SlotLocations}
      BY <1>1, <1>2
    <2> QED
      BY <2>1, <1>1 DEF Control, SpoolLimit
  <1>5. NoSpoolLeak'
    BY <1>1, <1>2 DEF Control, NoSpoolLeak
  <1>6. inflight[key[r]] \in Requests /\ pc[inflight[key[r]]] \in LeadLocations
    BY <1>1 DEF Control, OneFetchPerKey, TypeOK
  <1>7. WaitsForLiveFlight'
    BY <1>1, <1>2, <1>6 DEF Control, WaitsForLiveFlight
  <1> QED
    BY <1>3, <1>4, <1>5, <1>7 DEF Control

(* A leader that goes on leading, and holds a slot and a file exactly where*)
(* the code does.                                                          *)
LEMMA LeaderControl ==
    ASSUME TypeOK, Control, NEW r \in Requests,
           NEW from \in LeadLocations, NEW to \in LeadLocations,
           Goto(r, from, to), UNCHANGED <<inflight, done, flight>>,
           slots' = IF to \in SlotLocations THEN slots \cup {r} ELSE slots \ {r},
           Cardinality(slots') <= MaxSpools,
           \A q \in Requests \ {r} : spool'[q] = spool[q],
           spool'[r] # 0 <=> to \in SpoolLocations
    PROVE  Control'
  <1>1. /\ \A q \in Requests : pc'[q] = IF q = r THEN to ELSE pc[q]
        /\ pc[r] = from /\ key' = key
    BY DEF Goto, TypeOK, asked
  <1>2. OneFetchPerKey'
    BY <1>1 DEF Control, OneFetchPerKey
  <1>3. slots' = {q \in Requests : pc'[q] \in SlotLocations}
    BY <1>1 DEF Control, SpoolLimit
  <1>4. NoSpoolLeak'
    BY <1>1 DEF Control, NoSpoolLeak
  <1>5. from \notin {"fwait", "hwait"} /\ to \notin {"fwait", "hwait"}
    BY DEF LeadLocations, SlotLocations, SpoolLocations
  <1>6. WaitsForLiveFlight'
    BY <1>1, <1>5 DEF Control, WaitsForLiveFlight
  <1> QED
    BY <1>2, <1>3, <1>4, <1>6 DEF Control, SpoolLimit

(* Giving a slot back, or keeping it, exceeds nothing.                     *)
LEMMA SlotsBounded ==
    ASSUME TypeOK, Control, NEW r \in Requests
    PROVE  /\ IsFiniteSet(slots)
           /\ Cardinality(slots) \in Nat
           /\ Cardinality(slots \ {r}) <= MaxSpools
           /\ Cardinality(slots) <= MaxSpools
           /\ r \in slots => slots \cup {r} = slots
           /\ r \notin slots => slots \ {r} = slots
           /\ Cardinality(slots) < MaxSpools => Cardinality(slots \cup {r}) <= MaxSpools
  <1>1. IsFiniteSet(slots)
    BY RequestsAssumption, FS_Subset DEF TypeOK
  <1>2. Cardinality(slots) \in Nat /\ Cardinality(slots) <= MaxSpools
    BY <1>1, FS_CardinalityType DEF Control, SpoolLimit
  <1>3. Cardinality(slots \ {r}) <= Cardinality(slots) /\ Cardinality(slots \ {r}) \in Nat
    BY <1>1, FS_Subset, FS_CardinalityType
  <1>4. Cardinality(slots \cup {r}) = IF r \in slots THEN Cardinality(slots) ELSE Cardinality(slots) + 1
    BY <1>1, FS_AddElement
  <1> QED
    BY <1>1, <1>2, <1>3, <1>4, SpoolsAssumption

LEMMA GiveUpControl ==
    ASSUME TypeOK, Control, NEW r \in Requests,
           NEW from \in LeadLocations, NEW how, GiveUp(r, from, how)
    PROVE  Control'
  <1>1. "leave" \in LeadLocations /\ "leave" \notin SlotLocations /\ "leave" \notin SpoolLocations
    BY DEF LeadLocations, SlotLocations, SpoolLocations
  <1>2. /\ slots' = slots \ {r} /\ Goto(r, from, "leave")
        /\ spool' = [spool EXCEPT ![r] = 0] /\ UNCHANGED <<inflight, done, flight>>
    BY DEF GiveUp, locals
  <1>3. (\A q \in Requests \ {r} : spool'[q] = spool[q]) /\ spool'[r] = 0
    BY <1>2 DEF TypeOK
  <1> QED
    BY <1>1, <1>2, <1>3, LeaderControl, SlotsBounded

(* Every step of every request keeps Control.                              *)
LEMMA HandleControl ==
    ASSUME TypeOK, Control, NEW r \in Requests,
           Handle(r) \/ Transfer(r) \/ Cancelled(r) \/ Populate(r)
    PROVE  Control'
  <1>1. /\ {"new", "disk", "diskcheck", "diskserve", "front", "s3head", "remember",
            "fresh", "reval", "stale", "gone", "pkgget", "pkgserve", "s3get",
            "headmiss", "hs3head", "uphead", "headneg", "join",
            "fhead", "fs3head", "fneg", "end"} \subseteq Bystanding \ {"fwait", "hwait"}
        /\ {"fwait", "hwait"} \subseteq Bystanding
    BY DEF Bystanding, Locations, LeadLocations, SlotLocations, SpoolLocations
  <1>2. {"capacity", "slot", "upget", "spooling", "upload", "stored", "populate", "lead",
         "serve", "leave"} \subseteq LeadLocations
    BY DEF LeadLocations, SlotLocations, SpoolLocations
  <1>3. \A l \in LeadLocations :
          /\ l \in SlotLocations <=> l \in {"upget", "spooling", "upload", "stored", "populate"}
          /\ l \in SpoolLocations <=>
                l \in {"spooling", "upload", "stored", "populate", "lead", "serve"}
    BY DEF SlotLocations, SpoolLocations
  <1>4. /\ pc[r] \in SlotLocations <=> r \in slots
        /\ pc[r] \in SpoolLocations <=> spool[r] # 0
        /\ pc[r] \in LeadLocations => inflight[key[r]] = r
        /\ key[r] \in Keys
    BY DEF Control, SpoolLimit, NoSpoolLeak, OneFetchPerKey, TypeOK
  <1> USE DEF flights
  <1>a. CASE Arrive(r)
    BY <1>a, <1>1, BystanderControl DEF Arrive, Return, locals
  <1>b. CASE DiskLookup(r)
    BY <1>b, <1>1, BystanderControl DEF DiskLookup, AfterDiskMiss
  <1>c. CASE DiskCheck(r)
    BY <1>c, <1>1, BystanderControl DEF DiskCheck, AfterDiskMiss
  <1>d. CASE DiskServe(r)
    BY <1>d, <1>1, BystanderControl DEF DiskServe, Return
  <1>e. CASE HeadCacheGet(r)
    BY <1>e, <1>1, BystanderControl DEF HeadCacheGet, ServeFromHead, Return, locals
  <1>f. CASE S3Head(r)
    BY <1>f, <1>1, BystanderControl DEF S3Head, S3HeadAt
  <1>g. CASE RememberS3Head(r)
    BY <1>g, <1>1, BystanderControl DEF RememberS3Head, ServeFromHead, Return, locals
  <1>h. CASE CheckFresh(r)
    BY <1>h, <1>1, BystanderControl DEF CheckFresh, ServeFromHead, Return, locals
  <1>i. CASE Revalidate(r)
    BY <1>i, <1>1, BystanderControl DEF Revalidate, ServeFromHead, Return, locals
  <1>j. CASE DropStale(r)
    BY <1>j, <1>1, BystanderControl DEF DropStale, locals
  <1>k. CASE PackageGet(r)
    BY <1>k, <1>1, BystanderControl DEF PackageGet, Return, locals
  <1>l. CASE PackageServe(r)
    BY <1>l, <1>1, BystanderControl DEF PackageServe, Return
  <1>m. CASE StreamS3(r)
    BY <1>m, <1>1, BystanderControl DEF StreamS3, Return
  <1>n. CASE HeadWake(r)
    BY <1>n, <1>1, BystanderControl DEF HeadWake, locals
  <1>o. CASE HeadAfterFlight(r)
    BY <1>o, <1>1, BystanderControl DEF HeadAfterFlight, S3HeadAt
  <1>p. CASE UpstreamHead(r)
    BY <1>p, <1>1, BystanderControl DEF UpstreamHead, Return, locals
  <1>q. CASE HeadNotFound(r)
    BY <1>q, <1>1, BystanderControl DEF HeadNotFound, Return
  <1>r. CASE FollowerWake(r)
    BY <1>r, <1>1, BystanderControl DEF FollowerWake, locals
  <1>s. CASE FollowerHeadCache(r)
    BY <1>s, <1>1, BystanderControl DEF FollowerHeadCache, ServeFromHead, Return, locals
  <1>t. CASE FollowerS3Head(r)
    BY <1>t, <1>1, BystanderControl DEF FollowerS3Head, S3HeadAt
  <1>u. CASE FollowerFails(r)
    BY <1>u, <1>1, BystanderControl DEF FollowerFails, Return
  <1>v. CASE HeadMiss(r)
    <2>1. CASE inflight[key[r]] # NoReq
      BY <1>v, <2>1, <1>1, WaiterControl DEF HeadMiss
    <2>2. CASE inflight[key[r]] = NoReq
      BY <1>v, <2>2, <1>1, BystanderControl DEF HeadMiss
    <2> QED BY <2>1, <2>2
  <1>w. CASE Join(r)
    <2>1. CASE inflight[key[r]] # NoReq
      BY <1>w, <2>1, <1>1, WaiterControl DEF Join
    <2>2. CASE inflight[key[r]] = NoReq
      <3>1. /\ \A q \in Requests : pc'[q] = IF q = r THEN "capacity" ELSE pc[q]
            /\ pc[r] = "join" /\ key' = key /\ flight' = flight
            /\ \A k \in Keys : inflight'[k] = IF k = key[r] THEN r ELSE inflight[k]
            /\ done' = done /\ slots' = slots /\ spool' = spool
        BY <1>w, <2>2 DEF Join, Goto, asked, TypeOK
      <3>2. /\ "join" \notin LeadLocations /\ "capacity" \in LeadLocations
            /\ {"join", "capacity"} \cap (SlotLocations \cup SpoolLocations) = {}
        BY DEF LeadLocations, SlotLocations, SpoolLocations
      <3>3. OneFetchPerKey'
        BY <3>1, <3>2, <2>2, RequestsAssumption DEF Control, OneFetchPerKey
      <3>4. SpoolLimit'
        <4>1. {q \in Requests : pc'[q] \in SlotLocations} = {q \in Requests : pc[q] \in SlotLocations}
          BY <3>1, <3>2
        <4> QED BY <4>1, <3>1 DEF Control, SpoolLimit
      <3>5. NoSpoolLeak'
        BY <3>1, <3>2 DEF Control, NoSpoolLeak
      <3>6. WaitsForLiveFlight'
        BY <3>1, <3>2 DEF Control, WaitsForLiveFlight
      <3> QED BY <3>3, <3>4, <3>5, <3>6 DEF Control
    <2> QED BY <2>1, <2>2
  <1>x. CASE Capacity(r)
    <2>1. CASE GiveUp(r, "capacity", "FAILED")
      BY <2>1, <1>2, GiveUpControl
    <2>2. CASE Goto(r, "capacity", "slot") /\ UNCHANGED <<flights, locals>>
      BY <2>2, <1>2, <1>3, <1>4, LeaderControl, SlotsBounded DEF Goto, locals
    <2> QED BY <1>x, <2>1, <2>2 DEF Capacity
  <1>y. CASE AcquireSlot(r)
    BY <1>y, <1>2, <1>3, <1>4, LeaderControl, SlotsBounded DEF AcquireSlot, Goto, locals
  <1>z. CASE Cancelled(r)
    BY <1>z, <1>2, GiveUpControl DEF Cancelled
  <1>aa. CASE UpstreamGet(r)
    <2>1. ASSUME NEW how, GiveUp(r, "upget", how) PROVE Control'
      BY <2>1, <1>2, GiveUpControl
    <2>2. CASE /\ upstream[key[r]] # 0 /\ Goto(r, "upget", "spooling")
               /\ spool' = [spool EXCEPT ![r] = upstream[key[r]]]
               /\ UNCHANGED <<inflight, done, slots, locals>>
      <3>1. spool'[r] # 0 /\ \A q \in Requests \ {r} : spool'[q] = spool[q]
        BY <2>2 DEF TypeOK
      <3> QED BY <2>2, <3>1, <1>2, <1>3, <1>4, LeaderControl, SlotsBounded DEF Goto, locals
    <2> QED BY <1>aa, <2>1, <2>2 DEF UpstreamGet
  <1>bb. CASE Spool(r)
    BY <1>bb, <1>2, <1>3, <1>4, LeaderControl, GiveUpControl, SlotsBounded DEF Spool, Goto, locals
  <1>cc. CASE Upload(r)
    <2>1. CASE SkipConflict(r)
      BY <2>1, <1>2, <1>3, <1>4, LeaderControl, SlotsBounded DEF SkipConflict, Goto, locals
    <2>2. CASE PutObject(r)
      BY <2>2, <1>2, <1>3, <1>4, LeaderControl, GiveUpControl, SlotsBounded
      DEF PutObject, Goto, locals
    <2> QED BY <1>cc, <2>1, <2>2 DEF Upload
  <1>dd. CASE Stored(r)
    BY <1>dd, <1>2, <1>3, <1>4, LeaderControl, SlotsBounded, ZenonT(40) DEF Stored, Goto, locals
  <1>ee. CASE PopulateFile(r)
    BY <1>ee, <1>2, <1>3, <1>4, LeaderControl, SlotsBounded DEF PopulateFile, Goto, locals
  <1>ff. CASE LeaderRemembers(r)
    BY <1>ff, <1>2, <1>3, <1>4, LeaderControl, SlotsBounded DEF LeaderRemembers, Goto, locals
  <1>gg. CASE ServeSpool(r)
    BY <1>gg, <1>2, <1>3, <1>4, LeaderControl, SlotsBounded DEF ServeSpool, Goto, locals, TypeOK
  <1>hh. CASE LeaveFlight(r)
    <2>1. /\ \A q \in Requests : pc'[q] = IF q = r THEN "close" ELSE pc[q]
          /\ pc[r] = "leave" /\ key' = key /\ flight' = flight
          /\ \A k \in Keys : inflight'[k] = IF k = key[r] THEN NoReq ELSE inflight[k]
          /\ done' = done /\ slots' = slots /\ spool' = spool
      BY <1>hh DEF LeaveFlight, Goto, asked, locals, TypeOK
    <2>2. /\ "close" \notin LeadLocations /\ "leave" \in LeadLocations
          /\ {"leave", "close"} \cap (SlotLocations \cup SpoolLocations) = {}
      BY DEF LeadLocations, SlotLocations, SpoolLocations
    <2>3. OneFetchPerKey'
      BY <2>1, <2>2, <1>4, RequestsAssumption DEF Control, OneFetchPerKey
    <2>4. SpoolLimit'
      <3>1. {q \in Requests : pc'[q] \in SlotLocations} = {q \in Requests : pc[q] \in SlotLocations}
        BY <2>1, <2>2
      <3> QED BY <3>1, <2>1 DEF Control, SpoolLimit
    <2>5. NoSpoolLeak'
      BY <2>1, <2>2 DEF Control, NoSpoolLeak
    <2>6. WaitsForLiveFlight'
      BY <2>1, <2>2 DEF Control, WaitsForLiveFlight
    <2> QED BY <2>3, <2>4, <2>5, <2>6 DEF Control
  <1>ii. CASE CloseFlight(r)
    <2>1. /\ \A q \in Requests : pc'[q] = IF q = r THEN "end" ELSE pc[q]
          /\ pc[r] = "close" /\ key' = key /\ flight' = flight /\ inflight' = inflight
          /\ done' = done \cup {r} /\ slots' = slots /\ spool' = spool
      BY <1>ii DEF CloseFlight, Goto, asked, TypeOK
    <2>2. /\ "close" \notin LeadLocations /\ "end" \notin LeadLocations
          /\ {"end", "close"} \cap (SlotLocations \cup SpoolLocations) = {}
      BY DEF LeadLocations, SlotLocations, SpoolLocations
    <2>3. OneFetchPerKey'
      BY <2>1, <2>2 DEF Control, OneFetchPerKey
    <2>4. SpoolLimit'
      <3>1. {q \in Requests : pc'[q] \in SlotLocations} = {q \in Requests : pc[q] \in SlotLocations}
        BY <2>1, <2>2
      <3> QED BY <3>1, <2>1 DEF Control, SpoolLimit
    <2>5. NoSpoolLeak'
      BY <2>1, <2>2 DEF Control, NoSpoolLeak
    <2>6. WaitsForLiveFlight'
      BY <2>1, <2>2 DEF Control, WaitsForLiveFlight
    <2> QED BY <2>3, <2>4, <2>5, <2>6 DEF Control
  <1>jj. CASE Populate(r)
    BY <1>jj DEF Populate, Control, OneFetchPerKey, SpoolLimit, NoSpoolLeak, WaitsForLiveFlight,
                 asked, locals
  <1> QED
    BY <1>a, <1>b, <1>c, <1>d, <1>e, <1>f, <1>g, <1>h, <1>i, <1>j, <1>k, <1>l, <1>m, <1>n,
       <1>o, <1>p, <1>q, <1>r, <1>s, <1>t, <1>u, <1>v, <1>w, <1>x, <1>y, <1>z, <1>aa, <1>bb,
       <1>cc, <1>dd, <1>ee, <1>ff, <1>gg, <1>hh, <1>ii, <1>jj
    DEF Handle, Transfer

-----------------------------------------------------------------------------
(* What the copies are worth: no copy is newer than the bucket, and no     *)
(* store makes the bucket older.                                           *)

(* The bucket grows, or stays; every copy is an old one or one that the    *)
(* bucket has caught up with.                                              *)
LEMMA CopiesFrame ==
    ASSUME TypeOK, TypeOK', BucketIsNewest, key' = key,
           \A k \in Keys : s3[k] <= s3'[k] /\ s3'[k] <= upstream'[k],
           \A k \in Keys : disk'[k].ver <= s3[k] \/ disk'[k].ver <= s3'[k],
           \A q \in Requests :
               /\ pop'[q].ver <= s3[key[q]]
               /\ obj'[q].ver <= s3[key[q]]
               /\ answer'[q].body.ver <= s3[key[q]]
    PROVE  BucketIsNewest'
  <1>1. \A k \in Keys : /\ s3[k] \in Int /\ s3'[k] \in Int
                        /\ disk'[k].ver \in Int
    BY DEF TypeOK, Files
  <1>2. \A q \in Requests : /\ key[q] \in Keys
                            /\ pop'[q].ver \in Int /\ obj'[q].ver \in Int
                            /\ answer'[q].body.ver \in Int
    BY DEF TypeOK, Files, Answers
  <1>3. \A k \in Keys : disk'[k].ver <= s3'[k]
    BY <1>1
  <1>4. \A q \in Requests : /\ pop'[q].ver <= s3'[key[q]]
                            /\ obj'[q].ver <= s3'[key[q]]
                            /\ answer'[q].body.ver <= s3'[key[q]]
    BY <1>1, <1>2
  <1> QED
    BY <1>3, <1>4 DEF BucketIsNewest

(* The values a handler holds, and the answers, after a step of r.         *)
CopiesOK ==
    \A q \in Requests :
        /\ obj'[q].ver <= s3[key[q]]
        /\ answer'[q].body.ver <= s3[key[q]]
HoldOK(r, to) ==
    /\ \A q \in Requests \ {r} : hold'[q] = hold[q]
    /\ IsPackage(r) /\ hold'[r] # NoHead => to \in {"remember", "s3get"}

LEMMA ReplyData ==
    ASSUME TypeOK, BucketIsNewest, NEW r \in Requests, NEW how, NEW length, NEW body,
           Reply(r, how, length, body), body.ver <= s3[key[r]]
    PROVE  \A q \in Requests : answer'[q].body.ver <= s3[key[q]]
  BY DEF Reply, TypeOK, BucketIsNewest

LEMMA NoFileData ==
    ASSUME TypeOK, NEW r \in Requests
    PROVE  NoFile.ver = 0 /\ 0 <= s3[key[r]]
  BY DEF NoFile, TypeOK

LEMMA ReturnData ==
    ASSUME TypeOK, BucketIsNewest, NEW r \in Requests, NEW from, NEW how, NEW length, NEW body,
           Return(r, from, how, length, body), body.ver <= s3[key[r]]
    PROVE  CopiesOK /\ HoldOK(r, "end")
  <1>1. \A q \in Requests : answer'[q].body.ver <= s3[key[q]]
    BY ReplyData DEF Return
  <1>2. \A q \in Requests : obj'[q].ver <= s3[key[q]]
    BY NoFileData DEF Return, TypeOK, BucketIsNewest
  <1>3. HoldOK(r, "end")
    BY DEF Return, HoldOK, TypeOK
  <1> QED BY <1>1, <1>2, <1>3 DEF CopiesOK

LEMMA SameData ==
    ASSUME TypeOK, BucketIsNewest, UNCHANGED <<obj, answer>>
    PROVE  CopiesOK
  BY DEF CopiesOK, BucketIsNewest

LEMMA ObjData ==
    ASSUME TypeOK, BucketIsNewest, NEW r \in Requests, NEW file,
           obj' = [obj EXCEPT ![r] = file], file.ver <= s3[key[r]], answer' = answer
    PROVE  CopiesOK
  <1>1. \A q \in Requests : obj'[q].ver <= s3[key[q]]
    BY DEF TypeOK, BucketIsNewest
  <1> QED BY <1>1 DEF CopiesOK, BucketIsNewest

LEMMA SameHold ==
    ASSUME TypeOK, LeaderIsNewest, NEW r \in Requests, NEW to, hold' = hold,
           pc[r] \notin {"remember", "s3get"} \/ to \in {"remember", "s3get"}
    PROVE  HoldOK(r, to)
  BY DEF HoldOK, LeaderIsNewest

LEMMA ServeFromHeadData ==
    ASSUME TypeOK, BucketIsNewest, NEW r \in Requests, NEW from, NEW size,
           ServeFromHead(r, from, size)
    PROVE  \E to \in {"end", "s3get"} : Goto(r, from, to) /\ CopiesOK /\ HoldOK(r, to)
  <1>1. CASE IsHead(r)
    BY <1>1, ReturnData, NoFileData DEF ServeFromHead, Return
  <1>2. CASE ~IsHead(r)
    <2>1. HoldOK(r, "s3get")
      BY <1>2 DEF ServeFromHead, HoldOK, TypeOK
    <2> QED BY <1>2, <2>1, SameData DEF ServeFromHead
  <1> QED BY <1>1, <1>2

(* A step that stores nothing and does not advance a leader's file.        *)
LEMMA QuietData ==
    ASSUME TypeOK, TypeOK', BucketIsNewest, LeaderIsNewest, NEW r \in Requests,
           NEW from, NEW to \in Locations \ SpoolLocations,
           Goto(r, from, to), s3' = s3, CopiesOK, HoldOK(r, to),
           \A q \in Requests \ {r} : spool'[q] = spool[q],
           spool'[r] \in {spool[r], 0},
           \A k \in Keys : disk'[k].ver <= s3[k],
           \A q \in Requests : pop'[q].ver <= s3[key[q]]
    PROVE  BucketIsNewest' /\ LeaderIsNewest'
  <1>1. /\ key' = key /\ upstream' = upstream
        /\ \A q \in Requests : pc'[q] = IF q = r THEN to ELSE pc[q]
    BY DEF Goto, asked, TypeOK
  <1>2. \A k \in Keys : s3[k] <= s3'[k] /\ s3'[k] <= upstream'[k]
    BY <1>1 DEF BucketIsNewest, TypeOK
  <1>3. BucketIsNewest'
    BY <1>1, <1>2, CopiesFrame DEF CopiesOK
  <1>4. 0 <= upstream[key[r]]
    BY DEF TypeOK
  <1>5. LeaderIsNewest'
    BY <1>1, <1>4 DEF LeaderIsNewest, HoldOK, IsPackage, SpoolLocations
  <1> QED BY <1>3, <1>5

(* Nothing on the disk but what was there, or a copy of a stored object.   *)
LEMMA DropFileData ==
    ASSUME TypeOK, BucketIsNewest, NEW k \in Keys
    PROVE  /\ DropFile(k) => \A j \in Keys : disk'[j].ver <= s3[j]
           /\ disk' = disk => \A j \in Keys : disk'[j].ver <= s3[j]
           /\ pop' = pop => \A q \in Requests : pop'[q].ver <= s3[key[q]]
  <1>1. NoFile.ver = 0 /\ \A j \in Keys : 0 <= s3[j]
    BY DEF NoFile, TypeOK
  <1> QED BY <1>1 DEF DropFile, TypeOK, BucketIsNewest

LEMMA StartPopulateData ==
    ASSUME TypeOK, BucketIsNewest, NEW r \in Requests, NEW v, NEW size,
           StartPopulate(r, v, size), v <= s3[key[r]]
    PROVE  \A q \in Requests : pop'[q].ver <= s3[key[q]]
  BY DEF StartPopulate, TypeOK, BucketIsNewest

LEMMA GiveUpData ==
    ASSUME TypeOK, TypeOK', BucketIsNewest, LeaderIsNewest, NEW r \in Requests,
           NEW from \in LeadLocations, NEW how, GiveUp(r, from, how), s3' = s3
    PROVE  BucketIsNewest' /\ LeaderIsNewest'
  <1>1. "leave" \in Locations \ SpoolLocations
    BY DEF Locations, LeadLocations, SpoolLocations
  <1>2. CopiesOK
    <2>1. \A q \in Requests : answer'[q].body.ver <= s3[key[q]]
      BY ReplyData, NoFileData DEF GiveUp
    <2> QED BY <2>1 DEF CopiesOK, GiveUp, locals, BucketIsNewest
  <1>3. HoldOK(r, "leave")
    BY SameHold DEF GiveUp, Goto, locals, LeadLocations, SlotLocations, SpoolLocations
  <1>4. key[r] \in Keys
    BY DEF TypeOK
  <1> QED
    BY <1>1, <1>2, <1>3, <1>4, QuietData, DropFileData DEF GiveUp, TypeOK

(* Every step of every request that neither advances a leader's file nor   *)
(* stores it keeps the copies behind the bucket.                           *)
LEMMA BystanderData ==
    ASSUME TypeOK, TypeOK', BucketIsNewest, LeaderIsNewest, NEW r \in Requests,
           \/ Arrive(r) \/ DiskLookup(r) \/ DiskCheck(r) \/ DiskServe(r)
           \/ HeadCacheGet(r) \/ S3Head(r) \/ RememberS3Head(r) \/ CheckFresh(r)
           \/ Revalidate(r) \/ DropStale(r) \/ PackageGet(r) \/ PackageServe(r) \/ StreamS3(r)
           \/ HeadMiss(r) \/ HeadWake(r) \/ HeadAfterFlight(r) \/ UpstreamHead(r)
           \/ HeadNotFound(r) \/ Join(r) \/ FollowerWake(r) \/ FollowerHeadCache(r)
           \/ FollowerS3Head(r) \/ FollowerFails(r) \/ Capacity(r) \/ AcquireSlot(r)
           \/ Cancelled(r) \/ ServeSpool(r) \/ LeaveFlight(r) \/ CloseFlight(r)
    PROVE  BucketIsNewest' /\ LeaderIsNewest' /\ s3' = s3
  <1>1. /\ key[r] \in Keys /\ s3[key[r]] \in 0 .. MaxVersion
        /\ \A q \in Requests : spool'[q] = spool[q] \/ spool' # spool
    BY DEF TypeOK
  <1>2. /\ {"new", "disk", "diskcheck", "diskserve", "front", "s3head", "remember",
            "fresh", "reval", "stale", "gone", "pkgget", "pkgserve", "s3get",
            "headmiss", "hwait", "hs3head", "uphead", "headneg", "join", "fwait",
            "fhead", "fs3head", "fneg", "close", "end", "capacity", "slot", "leave",
            "upget"} \subseteq Locations \ SpoolLocations
        /\ {"capacity", "slot", "leave", "serve"} \subseteq LeadLocations
    BY DEF Locations, LeadLocations, SlotLocations, SpoolLocations
  <1>a. CASE Arrive(r)
    BY <1>a, <1>1, <1>2, ReturnData, NoFileData, SameHold, SameData, DropFileData, QuietData DEF Arrive, Return, Goto, flights, shared, locals
  <1>b. CASE DiskLookup(r)
    <2>2. CopiesOK
      BY <1>b, <1>1, ObjData, SameData DEF DiskLookup, BucketIsNewest
    <2> QED BY <1>b, <1>1, <1>2, <2>2, SameHold, DropFileData, QuietData
        DEF DiskLookup, AfterDiskMiss, Goto, flights, shared
  <1>c. CASE DiskCheck(r)
    <2>2. CopiesOK
      BY <1>c, NoFileData, ObjData, SameData DEF DiskCheck
    <2> QED BY <1>c, <1>1, <1>2, <2>2, SameHold, DropFileData, QuietData
        DEF DiskCheck, AfterDiskMiss, Goto, flights, shared
  <1>d. CASE DiskServe(r)
    BY <1>d, <1>1, <1>2, ReturnData, NoFileData, SameHold, SameData, DropFileData, QuietData DEF DiskServe, Return, BucketIsNewest, flights, shared, locals
  <1>e. CASE HeadCacheGet(r)
    <2>1. CASE heads[key[r]] # NoHead /\ IsPackage(r)
      BY <1>e, <2>1, <1>1, <1>2, ServeFromHeadData, DropFileData, QuietData
      DEF HeadCacheGet, flights, shared
    <2>2. CASE heads[key[r]] # NoHead /\ ~IsPackage(r)
      <3>1. HoldOK(r, "fresh")
        BY <1>e, <2>2 DEF HeadCacheGet, HoldOK, TypeOK
      <3> QED
        BY <1>e, <2>2, <3>1, <1>1, <1>2, SameData, DropFileData, QuietData
        DEF HeadCacheGet, flights, shared
    <2>3. CASE heads[key[r]] = NoHead
      BY <1>e, <2>3, <1>1, <1>2, SameHold, SameData, DropFileData, QuietData
      DEF HeadCacheGet, Goto, flights, shared, locals
    <2> QED BY <2>1, <2>2, <2>3
  <1>f. CASE S3Head(r)
    BY <1>f, <1>1, <1>2, SameData, DropFileData, QuietData DEF S3Head, S3HeadAt, Goto, HoldOK, LeaderIsNewest, TypeOK, flights, shared, locals
  <1>g. CASE RememberS3Head(r)
    BY <1>g, <1>1, <1>2, ServeFromHeadData, SameHold, SameData, DropFileData, QuietData DEF RememberS3Head, Goto, HoldOK, flights, shared, locals
  <1>h. CASE CheckFresh(r)
    BY <1>h, <1>1, <1>2, ServeFromHeadData, SameHold, SameData, DropFileData, QuietData DEF CheckFresh, Goto, flights, shared, locals
  <1>i. CASE Revalidate(r)
    BY <1>i, <1>1, <1>2, ServeFromHeadData, SameHold, SameData, DropFileData, QuietData DEF Revalidate, Goto, flights, shared, locals
  <1>j. CASE DropStale(r)
    BY <1>j, <1>1, <1>2, SameHold, SameData, DropFileData, QuietData DEF DropStale, Goto, flights, shared, locals
  <1>k. CASE PackageGet(r)
    <2>1. CASE Return(r, "pkgget", "RANGE-416", NoHead, NoFile)
      BY <1>k, <2>1, <1>1, <1>2, ReturnData, NoFileData, DropFileData, QuietData
      DEF PackageGet, Return, flights, shared
    <2>2. CASE ~Return(r, "pkgget", "RANGE-416", NoHead, NoFile)
      <3>1. Whole(s3[key[r]]).ver <= s3[key[r]]
        BY <1>1, WholeType
      <3>2. CopiesOK
        BY <1>k, <2>2, <3>1, ObjData, SameData DEF PackageGet, locals
      <3> QED BY <1>k, <2>2, <1>1, <1>2, <3>2, SameHold, DropFileData, QuietData
          DEF PackageGet, Goto, flights, shared, locals
    <2> QED BY <2>1, <2>2
  <1>l. CASE PackageServe(r)
    BY <1>l, <1>1, <1>2, ReturnData, StartPopulateData, DropFileData, QuietData DEF PackageServe, Return, BucketIsNewest, flights, shared, locals
  <1>m. CASE StreamS3(r)
    BY <1>m, <1>1, <1>2, ReturnData, NoFileData, WholeType, StartPopulateData, DropFileData, QuietData DEF StreamS3, Return, flights, shared, locals
  <1>n. CASE HeadMiss(r)
    BY <1>n, <1>1, <1>2, SameHold, SameData, DropFileData, QuietData DEF HeadMiss, Goto, flights, shared, locals
  <1>o. CASE HeadWake(r)
    BY <1>o, <1>1, <1>2, SameHold, SameData, DropFileData, QuietData DEF HeadWake, Goto, flights, shared, locals
  <1>p. CASE HeadAfterFlight(r)
    BY <1>p, <1>1, <1>2, SameData, DropFileData, QuietData DEF HeadAfterFlight, S3HeadAt, Goto, HoldOK, LeaderIsNewest, TypeOK, flights, shared, locals
  <1>q. CASE UpstreamHead(r)
    BY <1>q, <1>1, <1>2, ReturnData, NoFileData, SameHold, SameData, DropFileData, QuietData DEF UpstreamHead, Return, Goto, flights, shared, locals
  <1>r. CASE HeadNotFound(r)
    BY <1>r, <1>1, <1>2, ReturnData, NoFileData, SameHold, SameData, DropFileData, QuietData DEF HeadNotFound, Return, Goto, flights, shared, locals
  <1>s. CASE Join(r)
    BY <1>s, <1>1, <1>2, SameHold, SameData, DropFileData, QuietData DEF Join, Goto, flights, shared, locals
  <1>t. CASE FollowerWake(r)
    BY <1>t, <1>1, <1>2, SameHold, SameData, DropFileData, QuietData DEF FollowerWake, Goto, flights, shared, locals
  <1>u. CASE FollowerHeadCache(r)
    BY <1>u, <1>1, <1>2, ServeFromHeadData, SameHold, SameData, DropFileData, QuietData DEF FollowerHeadCache, Goto, flights, shared, locals
  <1>v. CASE FollowerS3Head(r)
    BY <1>v, <1>1, <1>2, SameData, DropFileData, QuietData DEF FollowerS3Head, S3HeadAt, Goto, HoldOK, LeaderIsNewest, TypeOK, flights, shared, locals
  <1>w. CASE FollowerFails(r)
    BY <1>w, <1>1, <1>2, ReturnData, NoFileData, SameHold, SameData, DropFileData, QuietData DEF FollowerFails, Return, Goto, flights, shared, locals
  <1>x. CASE Capacity(r)
    BY <1>x, <1>1, <1>2, GiveUpData, SameHold, SameData, DropFileData, QuietData DEF Capacity, Goto, flights, shared, locals
  <1>y. CASE AcquireSlot(r)
    BY <1>y, <1>1, <1>2, SameHold, SameData, DropFileData, QuietData DEF AcquireSlot, Goto, flights, shared, locals
  <1>z. CASE Cancelled(r)
    BY <1>z, <1>1, <1>2, GiveUpData DEF Cancelled, flights, shared, locals
  <1>aa. CASE ServeSpool(r)
    <2>1. spool[r] <= s3[key[r]] /\ spool[r] \in 0 .. MaxVersion
      BY <1>aa DEF ServeSpool, Goto, LeaderIsNewest, TypeOK
    <2>2. \A q \in Requests : answer'[q].body.ver <= s3[key[q]]
      BY <1>aa, <2>1, ReplyData, NoFileData, WholeType DEF ServeSpool
    <2>3. CopiesOK
      BY <1>aa, <2>2 DEF ServeSpool, CopiesOK, BucketIsNewest, locals
    <2>4. (\A q \in Requests \ {r} : spool'[q] = spool[q]) /\ spool'[r] = 0
      BY <1>aa DEF ServeSpool, TypeOK
    <2>5. Goto(r, "serve", "leave") /\ HoldOK(r, "leave")
      BY <1>aa, SameHold DEF ServeSpool, Goto, locals
    <2> QED
      BY <1>aa, <1>1, <1>2, <2>3, <2>4, <2>5, DropFileData, QuietData
      DEF ServeSpool, shared
  <1>bb. CASE LeaveFlight(r)
    BY <1>bb, <1>1, <1>2, SameHold, SameData, DropFileData, QuietData DEF LeaveFlight, Goto, flights, shared, locals
  <1>cc. CASE CloseFlight(r)
    <2>1. HoldOK(r, "end")
      BY <1>cc DEF CloseFlight, HoldOK, TypeOK
    <2> QED BY <1>cc, <1>1, <1>2, <2>1, SameData, DropFileData, QuietData
        DEF CloseFlight, Goto, flights, shared
  <1> QED
    BY <1>a, <1>b, <1>c, <1>d, <1>e, <1>f, <1>g, <1>h, <1>i, <1>j, <1>k, <1>l, <1>m, <1>n, <1>o, <1>p, <1>q, <1>r, <1>s, <1>t, <1>u, <1>v, <1>w, <1>x, <1>y, <1>z, <1>aa, <1>bb, <1>cc

(* A leader that fills its file, stores it and installs it: it is the only *)
(* one for its key, so nobody else's version can come in between.          *)
LEMMA LeaderData ==
    ASSUME TypeOK, TypeOK', OneFetchPerKey, BucketIsNewest, LeaderIsNewest, NEW r \in Requests,
           \/ UpstreamGet(r) \/ Spool(r) \/ Upload(r) \/ Stored(r) \/ PopulateFile(r)
           \/ LeaderRemembers(r)
    PROVE  BucketIsNewest' /\ LeaderIsNewest' /\ \A k \in Keys : s3[k] <= s3'[k]
  <1>1. /\ key[r] \in Keys /\ spool[r] \in 0 .. MaxVersion
        /\ \A k \in Keys : s3[k] \in Nat /\ upstream[k] \in Nat /\ s3[k] <= s3[k]
    BY DEF TypeOK
  <1>2. {"upget", "spooling", "upload"} \subseteq LeadLocations
    BY DEF LeadLocations, SlotLocations
  <1>3. \A how : \A from \in LeadLocations : GiveUp(r, from, how) /\ s3' = s3 =>
            BucketIsNewest' /\ LeaderIsNewest' /\ \A k \in Keys : s3[k] <= s3'[k]
    BY <1>1, GiveUpData
  <1>4. ASSUME NEW from, NEW to, Goto(r, from, to), UNCHANGED <<s3, obj, answer, hold, pop>>,
               from \notin {"remember", "s3get"},
               \A k \in Keys : disk'[k].ver <= s3[k],
               \A q \in Requests \ {r} : spool'[q] = spool[q],
               spool'[r] <= upstream[key[r]],
               to \in {"spooling", "upload"} => s3[key[r]] <= spool'[r],
               to \in {"stored", "populate", "lead", "serve"} => spool'[r] <= s3[key[r]]
        PROVE  BucketIsNewest' /\ LeaderIsNewest' /\ \A k \in Keys : s3[k] <= s3'[k]
    <2>1. /\ key' = key /\ upstream' = upstream
          /\ \A q \in Requests : pc'[q] = IF q = r THEN to ELSE pc[q]
      BY <1>4 DEF Goto, asked, TypeOK
    <2>2. BucketIsNewest'
      BY <1>4, <2>1, <1>1, CopiesFrame DEF BucketIsNewest
    <2>3. LeaderIsNewest'
      BY <1>4, <2>1 DEF LeaderIsNewest, IsPackage, Goto
    <2> QED BY <2>2, <2>3, <1>1, <1>4
  <1>5. disk' = disk => \A k \in Keys : disk'[k].ver <= s3[k]
    BY DEF BucketIsNewest
  <1>a. CASE UpstreamGet(r)
    <2>1. CASE Goto(r, "upget", "spooling") /\ spool' = [spool EXCEPT ![r] = upstream[key[r]]]
               /\ UNCHANGED <<shared, inflight, done, slots, pop, locals, answer>>
      <3>1. /\ spool'[r] = upstream[key[r]] /\ \A q \in Requests \ {r} : spool'[q] = spool[q]
            /\ s3[key[r]] <= upstream[key[r]]
        BY <2>1, <1>1 DEF TypeOK, BucketIsNewest
      <3> QED BY <2>1, <3>1, <1>1, <1>4, <1>5 DEF shared, locals
    <2> QED BY <1>a, <2>1, <1>2, <1>3 DEF UpstreamGet
  <1>b. CASE Spool(r)
    <2>1. CASE Goto(r, "spooling", "upload") /\ UNCHANGED <<shared, flights, pop, locals, answer>>
      BY <2>1, <1>1, <1>4, <1>5 DEF shared, locals, flights, LeaderIsNewest, Goto
    <2> QED BY <1>b, <2>1, <1>2, <1>3 DEF Spool
  <1>c. CASE Upload(r)
    <2>0. pc[r] = "upload" /\ ~Conflicts(r) /\ PutObject(r)
      BY <1>c DEF Upload, Conflicts, LeaderIsNewest
    <2>1. CASE GiveUp(r, "upload", "FAILED") /\ s3' = s3
      BY <2>1, <1>2, <1>3
    <2>2. CASE s3' = [s3 EXCEPT ![key[r]] = spool[r]]
      <3>1. /\ \A k \in Keys : s3'[k] = IF k = key[r] THEN spool[r] ELSE s3[k]
            /\ s3[key[r]] <= spool[r] /\ spool[r] <= upstream[key[r]]
        BY <2>0, <2>2, <1>1 DEF TypeOK, LeaderIsNewest
      <3>2. /\ UNCHANGED <<disk, pop, obj, hold>> /\ key' = key /\ upstream' = upstream
            /\ \A q \in Requests \ {r} : spool'[q] = spool[q] /\ pc'[q] = pc[q]
            /\ \/ pc'[r] = "stored" /\ spool'[r] = spool[r]
               \/ pc'[r] = "leave" /\ spool'[r] = 0
        BY <2>0, <1>1 DEF PutObject, GiveUp, Goto, flights, locals, asked, TypeOK
      <3>3. \A q \in Requests : answer'[q].body.ver <= s3[key[q]]
        BY <2>0, ReplyData, NoFileData DEF PutObject, GiveUp, BucketIsNewest
      <3>4. \A k \in Keys : s3[k] <= s3'[k] /\ s3'[k] <= upstream'[k]
        BY <3>1, <3>2, <1>1 DEF BucketIsNewest
      <3>5. BucketIsNewest'
        BY <3>2, <3>3, <3>4, <1>5, CopiesFrame DEF BucketIsNewest
      <3>6. \A q \in Requests \ {r} : key[q] = key[r] => pc[q] \notin LeadLocations
        BY <2>0, <1>1, <1>2 DEF OneFetchPerKey
      <3>7. {"spooling", "upload", "stored", "populate", "lead", "serve"} \subseteq LeadLocations
        BY DEF LeadLocations, SpoolLocations
      <3>8. \A q \in Requests : key[q] \in Keys
        BY DEF TypeOK
      <3>9. LeaderIsNewest'
        BY <3>1, <3>2, <3>6, <3>7, <3>8, <2>0, <1>1 DEF LeaderIsNewest, IsPackage
      <3> QED BY <3>4, <3>5, <3>9
    <2> QED BY <2>0, <2>1, <2>2 DEF PutObject
  <1>d. CASE Stored(r)
    BY <1>d, <1>1, <1>4, <1>5 DEF Stored, shared, locals, flights, LeaderIsNewest, Goto
  <1>e. CASE PopulateFile(r)
    <2>1. spool[r] <= s3[key[r]] /\ spool[r] <= upstream[key[r]]
      BY <1>e DEF PopulateFile, Goto, LeaderIsNewest
    <2>2. \A k \in Keys : disk'[k].ver <= s3[k]
      BY <1>e, <2>1, <1>1, WholeType DEF PopulateFile, BucketIsNewest, TypeOK
    <2> QED BY <1>e, <2>1, <2>2, <1>4 DEF PopulateFile, locals
  <1>f. CASE LeaderRemembers(r)
    BY <1>f, <1>1, <1>4, <1>5 DEF LeaderRemembers, locals, flights, LeaderIsNewest, Goto
  <1> QED
    BY <1>a, <1>b, <1>c, <1>d, <1>e, <1>f

(* The populate goroutines, and what happens around the handlers.          *)
LEMMA AroundInv ==
    ASSUME TypeOK, Control, BucketIsNewest, LeaderIsNewest,
           \/ \E r \in Requests : Populate(r)
           \/ \E k \in Keys : Around(k)
    PROVE  TypeOK' /\ Control' /\ BucketIsNewest' /\ LeaderIsNewest' /\ s3' = s3
  <1> USE DEF flights, locals, asked
  <1>1. UNCHANGED <<s3, flights, pc, asked, locals, answer>>
    BY DEF Around, Populate, Publish, DiskEvict, HeadDropped, NegativeExpires, shared
  <1>2. Control'
    BY <1>1 DEF Control, OneFetchPerKey, SpoolLimit, NoSpoolLeak, WaitsForLiveFlight
  <1>3. /\ \A k \in Keys : upstream[k] <= upstream'[k] /\ upstream'[k] \in 0 .. MaxVersion
        /\ upstream' \in [Keys -> 0 .. MaxVersion]
    BY VersionsAssumption DEF Around, Populate, Publish, DiskEvict, HeadDropped, NegativeExpires,
                             TypeOK
  <1>4. /\ pop' \in [Requests -> Files] /\ disk' \in [Keys -> Files]
        /\ \A q \in Requests : pop'[q].ver <= s3[key[q]]
        /\ \A k \in Keys : disk'[k].ver <= s3[k]
    <2>1. CASE \E r \in Requests : Populate(r)
      <3>1. PICK r \in Requests : Populate(r) BY <2>1
      <3>2. key[r] \in Keys /\ 0 <= s3[key[r]] BY DEF TypeOK
      <3> QED BY <3>1, <3>2, WholeType DEF Populate, TypeOK, BucketIsNewest
    <2>2. CASE \E k \in Keys : Around(k)
      <3>1. PICK k \in Keys : Around(k) BY <2>2
      <3>2. pop' = pop /\ (disk' = disk \/ DropFile(k))
        BY <3>1 DEF Around, Publish, DiskEvict, HeadDropped, NegativeExpires, shared
      <3>3. disk' \in [Keys -> Files]
        BY <3>2, CacheType DEF TypeOK
      <3> QED BY <3>2, <3>3, DropFileData DEF TypeOK
    <2> QED BY <2>1, <2>2
  <1>5. heads' \in [Keys -> Nat \cup {NoHead}] /\ negative' \subseteq Keys
    BY CacheType DEF Around, Populate, Publish, DiskEvict, HeadDropped, NegativeExpires,
                     TypeOK, shared
  <1>6. TypeOK'
    BY <1>1, <1>3, <1>4, <1>5 DEF TypeOK
  <1>7. \A k \in Keys : s3[k] <= s3'[k] /\ s3'[k] <= upstream'[k]
    BY <1>1, <1>3 DEF TypeOK, BucketIsNewest
  <1>8. BucketIsNewest'
    BY <1>1, <1>4, <1>6, <1>7, CopiesFrame DEF BucketIsNewest
  <1>9. LeaderIsNewest'
    <2>1. \A q \in Requests : spool[q] <= upstream[key[q]] /\ upstream[key[q]] <= upstream'[key[q]]
                              /\ spool[q] \in Int /\ upstream[key[q]] \in Int
                              /\ upstream'[key[q]] \in Int
      BY <1>3 DEF LeaderIsNewest, TypeOK
    <2>2. \A q \in Requests : spool[q] <= upstream'[key[q]]
      BY <2>1
    <2> QED BY <1>1, <2>2 DEF LeaderIsNewest, IsPackage
  <1> QED BY <1>1, <1>2, <1>6, <1>8, <1>9

-----------------------------------------------------------------------------
LEMMA InitInv == Init => IInv
  <1> SUFFICES ASSUME Init PROVE IInv
    OBVIOUS
  <1>1. TypeOK
    <2>1. upstream \in [Keys -> 0 .. MaxVersion]
      BY VersionsAssumption DEF Init
    <2>2. disk \in [Keys -> Files]
      BY WholeType DEF Init
    <2>3. NoAnswer \in Answers /\ "new" \in Locations /\ NoFile \in Files
      BY WholeType DEF NoAnswer, Answers, Outcomes, Locations
    <2> QED
      BY <2>1, <2>2, <2>3, VersionsAssumption DEF Init, TypeOK
  <1>2. {"new"} \cap (LeadLocations \cup {"fwait", "hwait", "spooling", "upload"}) = {}
        /\ SlotLocations \subseteq LeadLocations /\ SpoolLocations \subseteq LeadLocations
    BY DEF LeadLocations, SlotLocations, SpoolLocations
  <1>3. OneFetchPerKey /\ NoSpoolLeak /\ WaitsForLiveFlight
    BY <1>2, RequestsAssumption DEF Init, OneFetchPerKey, NoSpoolLeak, WaitsForLiveFlight
  <1>4. SpoolLimit
    <2>1. {r \in Requests : pc[r] \in SlotLocations} = {}
      BY <1>2 DEF Init
    <2> QED BY <2>1, FS_EmptySet, SpoolsAssumption DEF Init, SpoolLimit
  <1>5. BucketIsNewest /\ LeaderIsNewest
    BY <1>1, WholeType DEF Init, BucketIsNewest, LeaderIsNewest, TypeOK, NoAnswer, NoHead
  <1> QED BY <1>1, <1>3, <1>4, <1>5 DEF IInv

(* Every step keeps the invariant and makes no object in the bucket older. *)
LEMMA StepInv ==
    ASSUME IInv, [Next]_vars
    PROVE  IInv' /\ \A k \in Keys : s3'[k] >= s3[k]
  <1>0. \A k \in Keys : s3[k] \in Nat
    BY DEF IInv, TypeOK
  <1>1. CASE UNCHANGED vars
    BY <1>0, <1>1 DEF IInv, TypeOK, OneFetchPerKey, SpoolLimit, NoSpoolLeak, WaitsForLiveFlight,
                BucketIsNewest, LeaderIsNewest, IsPackage, vars, shared, flights, locals, asked
  <1>2. CASE \E r \in Requests : Populate(r)
    BY <1>0, <1>2, AroundInv DEF IInv, Control
  <1>3. CASE \E k \in Keys : Around(k)
    BY <1>0, <1>3, AroundInv DEF IInv, Control
  <1>4. ASSUME NEW r \in Requests, Handle(r) \/ Transfer(r) \/ Cancelled(r)
        PROVE  IInv' /\ \A k \in Keys : s3'[k] >= s3[k]
    <2>1. TypeOK'
      BY <1>4, HandleTypeOK DEF IInv
    <2>2. Control'
      BY <1>4, HandleControl DEF IInv, Control
    <2>3. CASE UpstreamGet(r) \/ Spool(r) \/ Upload(r) \/ Stored(r) \/ PopulateFile(r)
               \/ LeaderRemembers(r)
      BY <1>0, <2>1, <2>2, <2>3, LeaderData DEF IInv, Control, TypeOK
    <2>4. CASE ~(UpstreamGet(r) \/ Spool(r) \/ Upload(r) \/ Stored(r) \/ PopulateFile(r)
               \/ LeaderRemembers(r))
      <3>1. BucketIsNewest' /\ LeaderIsNewest' /\ s3' = s3
        BY <1>4, <2>1, <2>4, BystanderData DEF Handle, Transfer, IInv
      <3> QED BY <3>1, <2>1, <2>2, <1>0 DEF IInv, Control
    <2> QED BY <2>3, <2>4
  <1> QED
    BY <1>1, <1>2, <1>3, <1>4 DEF Next, Finished

(* The inductive invariant holds in every reachable state.                 *)
THEOREM Invariance == Spec => []IInv
  <1>1. IInv /\ [Next]_vars => IInv'
    BY StepInv
  <1> QED BY InitInv, <1>1, PTL DEF Spec

(* Every variable keeps its type.                                          *)
THEOREM TypeCorrect == Spec => []TypeOK
  BY Invariance, PTL DEF IInv

(* At most one flight per key: a request leads exactly while its flight is *)
(* registered, for any number of requests and keys.                        *)
THEOREM SingleFlight == Spec => []OneFetchPerKey
  BY Invariance, PTL DEF IInv

(* MAX_CONCURRENT_SPOOLS is never exceeded and no path loses a token.      *)
THEOREM SpoolsBounded == Spec => []SpoolLimit
  BY Invariance, PTL DEF IInv

(* No path leaves a temporary file behind, or serves one already removed.  *)
THEOREM SpoolsRemoved == Spec => []NoSpoolLeak
  BY Invariance, PTL DEF IInv

(* A waiting request's flight is closed or still has a leader to close it. *)
THEOREM WaitersWakeable == Spec => []WaitsForLiveFlight
  BY Invariance, PTL DEF IInv

(* Every copy served or cached is of a version the bucket has reached.     *)
THEOREM DurableFirst == Spec => []BucketIsNewest
  BY Invariance, PTL DEF IInv

(* No interleaving of fetches makes a stored object older.                 *)
THEOREM S3Monotone == Spec => S3NeverRegresses
  <1>1. IInv /\ [Next]_vars => [\A k \in Keys : s3'[k] >= s3[k]]_vars
    BY StepInv
  <1> QED BY Invariance, <1>1, PTL DEF Spec, S3NeverRegresses
-----------------------------------------------------------------------------
(* A request that waited for a flight which stored the object.             *)

Waits == {"fwait", "hwait"}

(* Where it may be once it has been woken, until it is answered.           *)
AfterFlight == {"disk", "diskcheck", "diskserve", "fhead", "fs3head", "hs3head", "remember",
                "s3get"}
Served(r) == pc[r] = "end" /\ answer[r].how \in {"HIT-DISK", "HIT-S3"}

(* Whoever waits, waits for a flight of its key; an answer MISS-STORED says*)
(* that the bucket has the object, and from then on no place is reached    *)
(* from which a request that waited could be told otherwise.               *)
CoalesceInv ==
    /\ \A r \in Requests : answer[r].how = "MISS-STORED" => s3[key[r]] # 0
    /\ \A r \in Requests : IsFollower(r) =>
        /\ flight[r] \in Requests /\ key[flight[r]] = key[r]
        /\ pc[r] \notin Waits => flight[r] \in done
    /\ \A r \in done : pc[r] = "end"
    /\ \A r \in Requests :
        IsFollower(r) /\ rng[r] = "full" /\ answer[flight[r]].how = "MISS-STORED"
            => pc[r] \in Waits \cup AfterFlight \/ Served(r)

(* What a step of r owes to it.                                            *)
KeepsServing(r) ==
    /\ \A q \in Requests \ {r} :
        pc'[q] = pc[q] /\ answer'[q] = answer[q] /\ flight'[q] = flight[q]
    /\ key' = key /\ rng' = rng /\ pc[r] # "end"
    /\ \A k \in Keys : s3[k] # 0 => s3'[k] # 0
    /\ answer'[r].how = "MISS-STORED" => answer'[r] = answer[r] \/ s3'[key[r]] # 0
    /\ done' = done \/ (done' = done \cup {r} /\ pc'[r] = "end")
    /\ \/ flight'[r] = flight[r] /\ (pc[r] \in Waits /\ pc'[r] \notin Waits => flight[r] \in done)
       \/ pc'[r] \in Waits /\ flight'[r] \in Requests /\ key[flight'[r]] = key[r]
    /\ IsFollower(r) /\ rng[r] = "full" /\ s3[key[r]] # 0 /\ pc[r] \in Waits \cup AfterFlight
        => pc'[r] \in Waits \cup AfterFlight \/ Served(r)'

LEMMA ServingKept ==
    ASSUME TypeOK, CoalesceInv, NEW r \in Requests, KeepsServing(r)
    PROVE  CoalesceInv'
  <1> USE DEF KeepsServing, IsFollower
  <1>0. r \notin done /\ \A q \in Requests : key[q] \in Keys
    BY DEF CoalesceInv, TypeOK
  <1>1. \A q \in Requests : answer'[q].how = "MISS-STORED" => s3'[key'[q]] # 0
    BY <1>0 DEF CoalesceInv
  <1>2. ASSUME NEW q \in Requests, IsFollower(q)'
        PROVE  /\ flight'[q] \in Requests /\ key'[flight'[q]] = key'[q]
               /\ pc'[q] \notin Waits => flight'[q] \in done
    BY <1>2 DEF CoalesceInv
  <1>3. \A q \in done' : pc'[q] = "end"
    BY <1>0 DEF CoalesceInv, TypeOK
  <1>4. ASSUME NEW q \in Requests, IsFollower(q)', rng'[q] = "full",
               answer'[flight'[q]].how = "MISS-STORED", pc'[q] \notin Waits
        PROVE  pc'[q] \in AfterFlight \/ Served(q)'
    <2>1. /\ flight'[q] = flight[q] /\ flight[q] \in done /\ flight[q] # r
          /\ flight[q] \in Requests /\ key[flight[q]] = key[q]
      BY <1>0, <1>2, <1>4
    <2>2. answer[flight[q]].how = "MISS-STORED" /\ IsFollower(q) /\ rng[q] = "full"
      BY <1>4, <2>1
    <2>3. s3[key[q]] # 0 /\ (pc[q] \in Waits \cup AfterFlight \/ Served(q))
      BY <2>1, <2>2 DEF CoalesceInv
    <2>4. CASE q = r
      BY <1>4, <2>2, <2>3, <2>4 DEF Served
    <2>5. CASE q # r
      BY <1>4, <2>3, <2>5 DEF Served
    <2> QED BY <2>4, <2>5
  <1>5. \A q \in Requests : pc'[q] \notin Waits /\ IsFollower(q)' => flight'[q] \in done'
    BY <1>2
  <1> QED BY <1>1, <1>2, <1>3, <1>4, <1>5 DEF CoalesceInv

(* The shapes of steps: one that answers nothing,                          *)
LEMMA QuietServes ==
    ASSUME TypeOK, NEW r \in Requests, NEW from, NEW to, from # "end", Goto(r, from, to),
           UNCHANGED <<flight, answer, done>>,
           \A k \in Keys : s3[k] # 0 => s3'[k] # 0,
           from \in Waits => flight[r] \in done,
           IsFollower(r) /\ rng[r] = "full" /\ s3[key[r]] # 0 /\ from \in Waits \cup AfterFlight
              => to \in AfterFlight
    PROVE  KeepsServing(r)
  <1>1. pc[r] = from /\ pc'[r] = to /\ \A q \in Requests \ {r} : pc'[q] = pc[q]
    BY DEF TypeOK, Goto
  <1>2. key' = key /\ rng' = rng
    BY DEF Goto, asked
  <1>3. IsFollower(r) /\ rng[r] = "full" /\ s3[key[r]] # 0 /\ pc[r] \in Waits \cup AfterFlight
           => pc'[r] \in Waits \cup AfterFlight
    BY <1>1
  <1>4. /\ pc[r] \in Waits /\ pc'[r] \notin Waits => flight[r] \in done
        /\ pc[r] # "end"
    BY <1>1
  <1>5. /\ \A q \in Requests \ {r} :
             pc'[q] = pc[q] /\ answer'[q] = answer[q] /\ flight'[q] = flight[q]
        /\ key' = key /\ rng' = rng /\ pc[r] # "end"
    BY <1>1, <1>2, <1>4
  <1>6. answer'[r].how = "MISS-STORED" => answer'[r] = answer[r] \/ s3'[key[r]] # 0
    BY <1>1
  <1>7. \/ flight'[r] = flight[r] /\ (pc[r] \in Waits /\ pc'[r] \notin Waits => flight[r] \in done)
        \/ pc'[r] \in Waits /\ flight'[r] \in Requests /\ key[flight'[r]] = key[r]
    BY <1>4
  <1> QED BY <1>1, <1>3, <1>5, <1>6, <1>7 DEF KeepsServing

(* and one that answers r.                                                 *)
LEMMA ReplyServes ==
    ASSUME TypeOK, NEW r \in Requests, NEW from, NEW to, from \notin Waits \cup {"end"},
           Goto(r, from, to), NEW how, NEW length, NEW body, Reply(r, how, length, body),
           UNCHANGED <<flight, done>>,
           \A k \in Keys : s3[k] # 0 => s3'[k] # 0,
           how = "MISS-STORED" => s3'[key[r]] # 0,
           IsFollower(r) /\ rng[r] = "full" /\ s3[key[r]] # 0 /\ from \in AfterFlight
              => to = "end" /\ how \in {"HIT-DISK", "HIT-S3"}
    PROVE  KeepsServing(r)
  <1>1. pc[r] = from /\ pc'[r] = to /\ \A q \in Requests \ {r} : pc'[q] = pc[q]
    BY DEF TypeOK, Goto
  <1>2. key' = key /\ rng' = rng
    BY DEF Goto, asked
  <1>3. answer'[r].how = how /\ \A q \in Requests \ {r} : answer'[q] = answer[q]
    BY DEF TypeOK, Reply
  <1>4. IsFollower(r) /\ rng[r] = "full" /\ s3[key[r]] # 0 /\ pc[r] \in Waits \cup AfterFlight
           => Served(r)'
    BY <1>1, <1>3 DEF Served
  <1>5. pc[r] \notin Waits /\ pc[r] # "end"
    BY <1>1
  <1>6. /\ \A q \in Requests \ {r} :
             pc'[q] = pc[q] /\ answer'[q] = answer[q] /\ flight'[q] = flight[q]
        /\ key' = key /\ rng' = rng /\ pc[r] # "end"
    BY <1>1, <1>2, <1>3, <1>5
  <1>7. answer'[r].how = "MISS-STORED" => answer'[r] = answer[r] \/ s3'[key[r]] # 0
    BY <1>3
  <1>8. \/ flight'[r] = flight[r] /\ (pc[r] \in Waits /\ pc'[r] \notin Waits => flight[r] \in done)
        \/ pc'[r] \in Waits /\ flight'[r] \in Requests /\ key[flight'[r]] = key[r]
    BY <1>5
  <1> QED BY <1>1, <1>4, <1>6, <1>7, <1>8 DEF KeepsServing

LEMMA ReturnServes ==
    ASSUME TypeOK, NEW r \in Requests, NEW from, from \notin Waits \cup {"end"},
           NEW how, NEW length, NEW body, Return(r, from, how, length, body),
           UNCHANGED <<s3, done>>, how # "MISS-STORED",
           IsFollower(r) /\ rng[r] = "full" /\ s3[key[r]] # 0 /\ from \in AfterFlight
              => how \in {"HIT-DISK", "HIT-S3"}
    PROVE  KeepsServing(r)
  BY ReplyServes DEF Return

LEMMA HeadServes ==
    ASSUME TypeOK, NEW r \in Requests, NEW from, from \notin Waits \cup {"end"}, NEW size,
           ServeFromHead(r, from, size), UNCHANGED <<s3, done>>
    PROVE  KeepsServing(r)
  <1>1. CASE IsHead(r) /\ Unsatisfiable(r, size) /\ ~IsFollower(r)
    BY <1>1, ReturnServes DEF ServeFromHead
  <1>2. CASE IsHead(r) /\ ~(Unsatisfiable(r, size) /\ ~IsFollower(r))
    BY <1>2, ReturnServes DEF ServeFromHead
  <1>3. CASE ~IsHead(r)
    <2>1. "s3get" \in AfterFlight /\ Goto(r, from, "s3get") /\ UNCHANGED <<flight, answer>>
      BY <1>3 DEF ServeFromHead, AfterFlight
    <2> QED BY <2>1, QuietServes
  <1> QED BY <1>1, <1>2, <1>3

LEMMA GiveUpServes ==
    ASSUME TypeOK, NEW r \in Requests, NEW from, from \notin Waits \cup AfterFlight \cup {"end"},
           NEW how, how # "MISS-STORED", GiveUp(r, from, how),
           \A k \in Keys : s3[k] # 0 => s3'[k] # 0
    PROVE  KeepsServing(r)
  BY ReplyServes DEF GiveUp, locals

LEMMA BucketServes ==
    ASSUME TypeOK, S3ReadsMayFail = FALSE, NEW r \in Requests, NEW from, NEW missTo,
           S3HeadAt(r, from, missTo), from # "end", from \in Waits => flight[r] \in done
    PROVE  KeepsServing(r)
  <1>1. UNCHANGED <<s3, flight, answer, done>>
    BY DEF S3HeadAt, shared, flights
  <1>2. CASE s3[key[r]] # 0 /\ Goto(r, from, "remember")
    BY <1>1, <1>2, QuietServes DEF AfterFlight
  <1>3. CASE s3[key[r]] = 0 /\ Goto(r, from, missTo)
    BY <1>1, <1>3, QuietServes
  <1> QED BY <1>2, <1>3 DEF S3HeadAt

(* No step of a request takes an object out of the bucket, answers         *)
(* MISS-STORED without one, or leads a follower astray.                    *)
LEMMA HandleServes ==
    ASSUME IInv, IInv', S3ReadsMayFail = FALSE, NEW r \in Requests,
           Handle(r) \/ Transfer(r) \/ Cancelled(r)
    PROVE  KeepsServing(r)
  <1>0. TypeOK /\ TypeOK' /\ OneFetchPerKey /\ NoSpoolLeak /\ BucketIsNewest' /\ key[r] \in Keys
    BY DEF IInv, TypeOK
  <1> USE <1>0
  <1>3. CASE Arrive(r)
    <2>1. UNCHANGED <<s3, done>>
      BY <1>3 DEF Arrive, shared, flights
    <2>2. CASE Return(r, "new", "NEGATIVE", NoHead, NoFile)
      BY <2>1, <2>2, ReturnServes DEF Waits, AfterFlight
    <2>3. CASE Goto(r, "new", "disk") /\ UNCHANGED <<locals, answer>>
      BY <2>1, <2>3, QuietServes DEF AfterFlight, Waits, locals
    <2> QED BY <1>3, <2>2, <2>3 DEF Arrive
  <1>4. CASE DiskLookup(r) \/ DiskCheck(r)
    <2>1. UNCHANGED <<s3, done, flight, answer>>
      BY <1>4 DEF DiskLookup, DiskCheck, shared, flights
    <2>2. PICK from \in {"disk", "diskcheck"} :
            Goto(r, from, "diskcheck") \/ Goto(r, from, "diskserve") \/ Goto(r, from, AfterDiskMiss(r))
      BY <1>4 DEF DiskLookup, DiskCheck
    <2>3. IsFollower(r) => AfterDiskMiss(r) \in AfterFlight
      BY DEF AfterDiskMiss, AfterFlight
    <2>4. ASSUME NEW to, Goto(r, from, to), IsFollower(r) => to \in AfterFlight
          PROVE  KeepsServing(r)
      BY <2>1, <2>4, QuietServes DEF Waits
    <2>5. {"diskcheck", "diskserve"} \subseteq AfterFlight
      BY DEF AfterFlight
    <2> QED BY <2>2, <2>3, <2>4, <2>5
  <1>5. CASE DiskServe(r)
    <2>1. UNCHANGED <<s3, done>>
      BY <1>5 DEF DiskServe, flights
    <2>2. CASE Unsatisfiable(r, obj[r].size)
      BY <1>5, <2>1, <2>2, ReturnServes DEF DiskServe, Unsatisfiable, Waits
    <2>3. CASE ~Unsatisfiable(r, obj[r].size)
      BY <1>5, <2>1, <2>3, ReturnServes DEF DiskServe, Waits
    <2> QED BY <2>2, <2>3
  <1>6. CASE S3Head(r) \/ HeadAfterFlight(r) \/ FollowerS3Head(r)
    BY <1>6, BucketServes DEF S3Head, HeadAfterFlight, FollowerS3Head, Waits
  <1>7. CASE DropStale(r)
    <2>1. UNCHANGED <<s3, done, flight, answer>>
      BY <1>7 DEF DropStale, flights, locals
    <2>2. PICK from \in {"stale", "gone"} : \E to : Goto(r, from, to)
      BY <1>7 DEF DropStale
    <2>3. PICK to : Goto(r, from, to)
      BY <2>2
    <2> QED BY <2>1, <2>3, QuietServes DEF Waits, AfterFlight
  <1>8. CASE HeadCacheGet(r) \/ FollowerHeadCache(r) \/ CheckFresh(r) \/ Revalidate(r)
             \/ RememberS3Head(r)
    <2>1. UNCHANGED <<s3, done>>
      BY <1>8 DEF HeadCacheGet, FollowerHeadCache, CheckFresh, Revalidate, RememberS3Head, shared,
                  flights
    <2>2. ASSUME NEW from \in {"front", "fhead", "fresh", "reval", "remember"}, NEW size,
                 ServeFromHead(r, from, size)
          PROVE  KeepsServing(r)
      BY <2>1, <2>2, HeadServes DEF Waits
    <2>3. ASSUME NEW from \in {"front", "fhead", "fresh", "reval", "remember"}, NEW to,
                 Goto(r, from, to), UNCHANGED <<flight, answer>>,
                 IsFollower(r) /\ from \in AfterFlight => to \in AfterFlight
          PROVE  KeepsServing(r)
      BY <2>1, <2>3, QuietServes DEF Waits
    <2>4. CASE HeadCacheGet(r)
      <3>1. CASE ServeFromHead(r, "front", heads[key[r]])
        BY <3>1, <2>2
      <3>2. CASE Goto(r, "front", "fresh") /\ UNCHANGED <<flight, answer>>
        BY <3>2, <2>3 DEF AfterFlight
      <3>3. CASE UNCHANGED <<locals, answer>> /\ \E to : Goto(r, "front", to)
        BY <3>3, <2>3 DEF AfterFlight, locals
      <3> QED BY <2>4, <3>1, <3>2, <3>3 DEF HeadCacheGet
    <2>5. CASE FollowerHeadCache(r)
      <3>1. CASE ServeFromHead(r, "fhead", heads[key[r]])
        BY <3>1, <2>2
      <3>2. CASE Goto(r, "fhead", "fs3head") /\ UNCHANGED <<locals, answer>>
        BY <3>2, <2>3 DEF AfterFlight, locals
      <3> QED BY <2>5, <3>1, <3>2 DEF FollowerHeadCache
    <2>6. CASE CheckFresh(r) \/ Revalidate(r)
      <3>1. CASE ServeFromHead(r, "fresh", hold[r]) \/ ServeFromHead(r, "reval", hold[r])
        BY <3>1, <2>2
      <3>2. CASE /\ \E from \in {"fresh", "reval"} : \E to : Goto(r, from, to)
                 /\ UNCHANGED <<locals, answer>>
        BY <3>2, <2>3 DEF AfterFlight, locals
      <3> QED BY <2>6, <3>1, <3>2 DEF CheckFresh, Revalidate
    <2>7. CASE RememberS3Head(r)
      <3>1. CASE ServeFromHead(r, "remember", hold[r])
        BY <3>1, <2>2
      <3>2. CASE /\ Goto(r, "remember", "fresh") /\ ~IsFollower(r)
                 /\ UNCHANGED <<locals, answer>>
        BY <3>2, <2>3 DEF AfterFlight, locals
      <3> QED BY <2>7, <3>1, <3>2 DEF RememberS3Head
    <2> QED BY <1>8, <2>4, <2>5, <2>6, <2>7
  <1>9. CASE PackageGet(r) \/ PackageServe(r)
    <2>1. UNCHANGED <<s3, done>>
      BY <1>9 DEF PackageGet, PackageServe, shared, flights
    <2>2. CASE PackageServe(r)
      BY <2>1, <2>2, ReturnServes DEF PackageServe, Waits, AfterFlight
    <2>3. CASE Return(r, "pkgget", "RANGE-416", NoHead, NoFile)
      BY <2>1, <2>3, ReturnServes DEF Waits, AfterFlight
    <2>4. CASE UNCHANGED <<flight, answer>> /\ \E to : Goto(r, "pkgget", to)
      BY <2>1, <2>4, QuietServes DEF Waits, AfterFlight
    <2> QED BY <1>9, <2>2, <2>3, <2>4 DEF PackageGet, locals
  <1>10. CASE StreamS3(r)
    <2>1. UNCHANGED <<s3, done>>
      BY <1>10 DEF StreamS3, shared, flights
    <2>2. CASE Return(r, "s3get", "RANGE-416", NoHead, NoFile) /\ Unsatisfiable(r, hold[r])
      BY <2>1, <2>2, ReturnServes DEF Waits, Unsatisfiable
    <2>3. CASE Return(r, "s3get", "HIT-S3", hold[r], Whole(s3[key[r]]))
      BY <2>1, <2>3, ReturnServes DEF Waits
    <2>4. CASE Return(r, "s3get", "FAILED", NoHead, NoFile) /\ (s3[key[r]] = 0 \/ rng[r] # "full")
      BY <2>1, <2>4, ReturnServes DEF Waits
    <2> QED BY <1>10, <2>2, <2>3, <2>4 DEF StreamS3
  <1>11. CASE HeadMiss(r) \/ Join(r)
    <2>1. UNCHANGED <<s3, done, answer>>
      BY <1>11 DEF HeadMiss, Join, shared, flights
    <2>2. CASE flight' = flight
      <3>1. PICK from \in {"headmiss", "join"} : \E to : Goto(r, from, to)
        BY <1>11 DEF HeadMiss, Join
      <3>2. PICK to : Goto(r, from, to)
        BY <3>1
      <3> QED BY <2>1, <2>2, <3>2, QuietServes DEF Waits, AfterFlight
    <2>3. CASE flight' # flight
      <3>1. /\ inflight[key[r]] # NoReq /\ flight' = [flight EXCEPT ![r] = inflight[key[r]]]
            /\ Goto(r, "headmiss", "hwait") \/ Goto(r, "join", "fwait")
        BY <1>11, <2>3 DEF HeadMiss, Join
      <3>2. inflight[key[r]] \in Requests /\ key[inflight[key[r]]] = key[r]
        BY <3>1 DEF OneFetchPerKey, TypeOK
      <3>3. flight'[r] = inflight[key[r]] /\ \A q \in Requests \ {r} : flight'[q] = flight[q]
        BY <3>1 DEF TypeOK
      <3>4. /\ pc[r] \in {"headmiss", "join"} /\ pc'[r] \in Waits
            /\ \A q \in Requests \ {r} : pc'[q] = pc[q]
        BY <3>1 DEF TypeOK, Goto, Waits
      <3>5. key' = key /\ rng' = rng
        BY <3>1 DEF Goto, asked
      <3>6. pc[r] # "end" /\ s3' = s3 /\ answer' = answer /\ done' = done
        BY <2>1, <3>4
      <3>7. pc[r] \notin Waits \cup AfterFlight
        BY <3>4 DEF Waits, AfterFlight
      <3> QED BY <3>2, <3>3, <3>4, <3>5, <3>6, <3>7 DEF KeepsServing
    <2> QED BY <2>2, <2>3
  <1>12. CASE HeadWake(r) \/ FollowerWake(r)
    <2>1. UNCHANGED <<s3, done, flight, answer>> /\ flight[r] \in done
      BY <1>12 DEF HeadWake, FollowerWake, shared, flights, locals
    <2>2. Goto(r, "hwait", "hs3head") \/ Goto(r, "fwait", "disk")
      BY <1>12 DEF HeadWake, FollowerWake
    <2> QED BY <2>1, <2>2, QuietServes DEF AfterFlight
  <1>13. CASE UpstreamHead(r) \/ HeadNotFound(r) \/ FollowerFails(r)
    <2>1. UNCHANGED <<s3, done>>
      BY <1>13 DEF UpstreamHead, HeadNotFound, FollowerFails, shared, flights
    <2>2. CASE UNCHANGED <<locals, answer>> /\ Goto(r, "uphead", "headneg")
      BY <2>1, <2>2, QuietServes DEF Waits, AfterFlight, locals
    <2>3. ASSUME NEW from \in {"uphead", "headneg", "fneg"}, NEW length,
                 NEW how \in {"MISS", "FAILED", "NOT-FOUND", "NEGATIVE", "COALESCE-FAIL"},
                 Return(r, from, how, length, NoFile)
          PROVE  KeepsServing(r)
      BY <2>1, <2>3, ReturnServes DEF Waits, AfterFlight
    <2>4. CASE UpstreamHead(r)
      BY <2>2, <2>3, <2>4 DEF UpstreamHead
    <2>5. CASE HeadNotFound(r)
      BY <2>3, <2>5 DEF HeadNotFound
    <2>6. CASE FollowerFails(r)
      BY <2>3, <2>6 DEF FollowerFails
    <2> QED BY <1>13, <2>4, <2>5, <2>6
  <1>14. CASE Capacity(r) \/ AcquireSlot(r) \/ Cancelled(r) \/ Spool(r) \/ UpstreamGet(r)
    <2>1. s3' = s3
      BY <1>14 DEF Capacity, AcquireSlot, Cancelled, Spool, UpstreamGet, shared
    <2>2. CASE \E from \in LeadLocations, how \in {"FAILED", "NOT-FOUND"} : GiveUp(r, from, how)
      BY <2>1, <2>2, GiveUpServes DEF Waits, AfterFlight, LeadLocations, SlotLocations, SpoolLocations
    <2>3. CASE /\ UNCHANGED <<done, locals, answer>>
               /\ \E from \in {"capacity", "slot", "spooling", "upget"} : \E to : Goto(r, from, to)
      BY <2>1, <2>3, QuietServes DEF Waits, AfterFlight, locals
    <2> QED
      BY <1>14, <2>2, <2>3 DEF Capacity, AcquireSlot, Cancelled, Spool, UpstreamGet, flights,
                               LeadLocations, SlotLocations, SpoolLocations
  <1>15. CASE Upload(r)
    <2>1. pc[r] = "upload" /\ spool[r] # 0 /\ (SkipConflict(r) \/ PutObject(r))
      BY <1>15 DEF Upload, NoSpoolLeak, SpoolLocations
    <2>2. \A k \in Keys : s3[k] # 0 => s3'[k] # 0
      BY <2>1 DEF SkipConflict, PutObject, TypeOK
    <2>3. CASE GiveUp(r, "upload", "FAILED")
      BY <2>2, <2>3, GiveUpServes DEF Waits, AfterFlight
    <2>4. CASE UNCHANGED <<done, locals, answer>> /\ \E to : Goto(r, "upload", to)
      BY <2>2, <2>4, QuietServes DEF Waits, AfterFlight, locals
    <2> QED BY <2>1, <2>3, <2>4 DEF SkipConflict, PutObject, flights
  <1>16. CASE Stored(r) \/ PopulateFile(r) \/ LeaderRemembers(r) \/ LeaveFlight(r)
    <2>1. UNCHANGED <<s3, done, flight, answer>>
      BY <1>16 DEF Stored, PopulateFile, LeaderRemembers, LeaveFlight, shared, flights, locals
    <2>2. PICK from \in {"stored", "populate", "lead", "leave"} : \E to : Goto(r, from, to)
      BY <1>16 DEF Stored, PopulateFile, LeaderRemembers, LeaveFlight
    <2>3. PICK to : Goto(r, from, to)
      BY <2>2
    <2> QED BY <2>1, <2>3, QuietServes DEF Waits, AfterFlight
  <1>17. CASE CloseFlight(r)
    <2>1. UNCHANGED <<s3, flight, answer>> /\ done' = done \cup {r} /\ Goto(r, "close", "end")
      BY <1>17 DEF CloseFlight, shared
    <2>2. pc[r] = "close" /\ pc'[r] = "end" /\ \A q \in Requests \ {r} : pc'[q] = pc[q]
      BY <2>1 DEF TypeOK, Goto
    <2>3. key' = key /\ rng' = rng
      BY <2>1 DEF Goto, asked
    <2> QED BY <2>1, <2>2, <2>3 DEF KeepsServing, Waits, AfterFlight
  <1>18. CASE ServeSpool(r)
    <2>1. spool[r] # 0 /\ s3' = s3 /\ key' = key /\ UNCHANGED <<flight, done>>
          /\ Goto(r, "serve", "leave") /\ s3[key[r]] \in Nat /\ spool[r] \in Nat
      BY <1>18 DEF ServeSpool, NoSpoolLeak, SpoolLocations, TypeOK, shared, locals, Goto, asked
    <2>2. PICK how, length, body : /\ Reply(r, how, length, body)
                                   /\ how = "MISS-STORED" => body = Whole(spool[r])
      BY <1>18 DEF ServeSpool
    <2>3. answer'[r].body = body
      BY <2>2 DEF Reply, TypeOK
    <2>4. how = "MISS-STORED" => body.ver = spool[r]
      BY <2>1, <2>2 DEF Whole
    <2>5. how = "MISS-STORED" => s3'[key[r]] # 0
      BY <2>1, <2>3, <2>4 DEF BucketIsNewest
    <2> QED BY <2>1, <2>2, <2>5, ReplyServes DEF Waits, AfterFlight
  <1> QED
    BY <1>3, <1>4, <1>5, <1>6, <1>7, <1>8, <1>9, <1>10, <1>11, <1>12, <1>13, <1>14, <1>15, <1>16,
       <1>17, <1>18 DEF Handle, Transfer

LEMMA ServingStep ==
    ASSUME IInv, IInv', S3ReadsMayFail = FALSE, CoalesceInv, [Next]_vars
    PROVE  CoalesceInv'
  <1>1. ASSUME UNCHANGED <<s3, done, pc, asked, flight, answer>>
        PROVE  CoalesceInv'
    BY <1>1 DEF CoalesceInv, Served, IsFollower, asked
  <1>2. CASE UNCHANGED vars
    BY <1>1, <1>2 DEF vars, shared, flights, locals
  <1>3. CASE \E r \in Requests : Populate(r)
    BY <1>1, <1>3 DEF Populate, flights, locals
  <1>4. CASE \E k \in Keys : Around(k)
    BY <1>1, <1>4 DEF Around, Publish, DiskEvict, HeadDropped, NegativeExpires, shared, flights,
                      locals
  <1>5. CASE \E r \in Requests : Handle(r) \/ Transfer(r) \/ Cancelled(r)
    BY <1>5, HandleServes, ServingKept DEF IInv
  <1> QED BY <1>2, <1>3, <1>4, <1>5 DEF Next, Finished

(* As long as S3 answers reads, a request that waited for a flight which   *)
(* stored its object is served the object, whatever is evicted, expires, is*)
(* replaced or fails meanwhile (handler.go:476-482, 679-703).              *)
THEOREM FollowersServed ==
    ASSUME S3ReadsMayFail = FALSE
    PROVE  Spec => []CoalescedServed
  <1>1. Init => CoalesceInv
    BY DEF Init, CoalesceInv, IsFollower, NoAnswer
  <1>2. IInv /\ IInv' /\ CoalesceInv /\ [Next]_vars => CoalesceInv'
    BY ServingStep
  <1>3. CoalesceInv => CoalescedServed
    BY DEF CoalesceInv, CoalescedServed, Served, Waits, AfterFlight
  <1> QED BY Invariance, <1>1, <1>2, <1>3, PTL DEF Spec

-----------------------------------------------------------------------------
(* The request path implements ReadThrough: each step of Mirror is a step  *)
(* of the promise or leaves everything it speaks about unchanged.          *)

(* A request that is not over has been handed nothing.                     *)
Over       == {"leave", "close", "end"}
Unanswered == \A r \in Requests : pc[r] \notin Over => answer[r].body.ver = 0

Simulated  == Promise!Next \/ UNCHANGED Promise!vars

(* What a step of r does to the answers.                                   *)
AnswersOnly(r) == \A q \in Requests \ {r} : pc'[q] = pc[q] /\ answer'[q] = answer[q]
EndsOrSilent(r) == pc'[r] \in Over \/ (pc[r] \notin Over /\ answer'[r] = answer[r])

-----------------------------------------------------------------------------
(* The shapes of steps.                                                    *)

(* What the flights have read, when a leader's file changes.               *)
LEMMA FetchedChanges ==
    ASSUME TypeOK, OneFetchPerKey, NEW r \in Requests, inflight[key[r]] = r,
           UNCHANGED <<key, inflight>>, \A q \in Requests \ {r} : spool'[q] = spool[q]
    PROVE  /\ [k \in Keys |-> Fetched(k)]'
                  = [[k \in Keys |-> Fetched(k)] EXCEPT ![key[r]] = spool'[r]]
           /\ [k \in Keys |-> Fetched(k)][key[r]] = spool[r]
  <1>1. key[r] \in Keys /\ r # NoReq
    BY RequestsAssumption DEF TypeOK
  <1>2. \A k \in Keys \ {key[r]} : inflight[k] # r /\ inflight[k] \in Requests \cup {NoReq}
    BY DEF OneFetchPerKey, TypeOK
  <1>3. \A k \in Keys : Fetched(k)' = IF k = key[r] THEN spool'[r] ELSE Fetched(k)
    BY <1>1, <1>2 DEF Fetched
  <1>4. Fetched(key[r]) = spool[r]
    BY <1>1 DEF Fetched
  <1> QED BY <1>1, <1>3, <1>4

LEMMA FetchedStays ==
    ASSUME UNCHANGED <<inflight, spool>>
    PROVE  [k \in Keys |-> Fetched(k)]' = [k \in Keys |-> Fetched(k)]
  BY DEF Fetched

(* A step of r hands out nothing more than it replies to r.                *)
LEMMA ServedChanges ==
    ASSUME NEW r \in Requests, AnswersOnly(r)
    PROVE  [q \in Requests |-> answer[q].body.ver]'
               = [[q \in Requests |-> answer[q].body.ver] EXCEPT ![r] = answer'[r].body.ver]
  BY DEF AnswersOnly

LEMMA StutterSimulated ==
    ASSUME UNCHANGED <<upstream, s3, key, inflight, spool>>,
           \A r \in Requests : answer'[r].body.ver = answer[r].body.ver
    PROVE  Simulated
  <1>1. [k \in Keys |-> Fetched(k)]' = [k \in Keys |-> Fetched(k)]
    BY FetchedStays
  <1>2. [r \in Requests |-> answer[r].body.ver]' = [r \in Requests |-> answer[r].body.ver]
    OBVIOUS
  <1> QED BY <1>1, <1>2 DEF Simulated, Promise!vars

(* What a request that is not over is handed, it is handed now, and the    *)
(* bucket holds it.                                                        *)
LEMMA HandedNow ==
    ASSUME TypeOK, TypeOK', BucketIsNewest', Unanswered, NEW r \in Requests,
           pc[r] \notin Over, UNCHANGED <<s3, key>>
    PROVE  /\ answer[r].body.ver = 0 /\ key[r] \in Keys
           /\ answer'[r].body.ver = 0 \/ answer'[r].body.ver \in 1 .. s3[key[r]]
  BY DEF TypeOK, BucketIsNewest, Unanswered, Answers, Files

LEMMA ReplySimulated ==
    ASSUME TypeOK, TypeOK', BucketIsNewest', Unanswered, NEW r \in Requests, AnswersOnly(r),
           pc[r] \notin Over, UNCHANGED <<upstream, s3, key, inflight, spool>>
    PROVE  Simulated
  <1>1. CASE answer'[r].body.ver = 0
    BY <1>1, HandedNow, StutterSimulated DEF AnswersOnly
  <1>2. CASE answer'[r].body.ver # 0
    <2>1. Promise!Serve(r)
      BY <1>2, HandedNow, ServedChanges, FetchedStays DEF Promise!Serve
    <2> QED BY <2>1 DEF Simulated, Promise!Next
  <1> QED BY <1>1, <1>2

(* A leader that is done with its file, and may have served it.            *)
LEMMA LeaderReplySimulated ==
    ASSUME TypeOK, TypeOK', BucketIsNewest', OneFetchPerKey, Unanswered,
           NEW r \in Requests, AnswersOnly(r), pc[r] \in LeadLocations \ {"leave"},
           UNCHANGED <<upstream, s3, key, inflight>>, spool' = [spool EXCEPT ![r] = 0]
    PROVE  Simulated
  <1>1. pc[r] \notin Over /\ inflight[key[r]] = r
    BY DEF Over, LeadLocations, SlotLocations, SpoolLocations, OneFetchPerKey, TypeOK
  <1>2. spool'[r] = 0 /\ \A q \in Requests \ {r} : spool'[q] = spool[q]
    BY DEF TypeOK
  <1>3. [k \in Keys |-> Fetched(k)]' = [[k \in Keys |-> Fetched(k)] EXCEPT ![key[r]] = 0]
    BY <1>1, <1>2, FetchedChanges
  <1>4. CASE answer'[r].body.ver = 0
    <2>1. [q \in Requests |-> answer[q].body.ver]' = [q \in Requests |-> answer[q].body.ver]
      BY <1>1, <1>4, HandedNow DEF AnswersOnly
    <2>2. Promise!Drop(r)
      BY <1>1, <1>3, <2>1 DEF Promise!Drop
    <2> QED BY <2>2 DEF Simulated, Promise!Next
  <1>5. CASE answer'[r].body.ver # 0
    <2>1. Promise!Serve(r)
      BY <1>1, <1>3, <1>5, HandedNow, ServedChanges DEF Promise!Serve
    <2> QED BY <2>1 DEF Simulated, Promise!Next
  <1> QED BY <1>4, <1>5

-----------------------------------------------------------------------------
(* Every step of a request either says nothing or ends what it can say.    *)
LEMMA HandleAnswers ==
    ASSUME TypeOK, NEW r \in Requests, Handle(r) \/ Transfer(r) \/ Cancelled(r)
    PROVE  AnswersOnly(r) /\ EndsOrSilent(r) /\ upstream' = upstream /\ key' = key
  <1> USE DEF TypeOK, AnswersOnly, EndsOrSilent, Over, Goto, asked, locals, Reply, Return
  <1>1. ASSUME NEW from, NEW size, from \notin Over, ServeFromHead(r, from, size)
        PROVE  AnswersOnly(r) /\ EndsOrSilent(r) /\ upstream' = upstream /\ key' = key
    BY <1>1 DEF ServeFromHead
  <1>2. ASSUME NEW from, NEW how, GiveUp(r, from, how)
        PROVE  AnswersOnly(r) /\ EndsOrSilent(r) /\ upstream' = upstream /\ key' = key
    BY <1>2 DEF GiveUp
  <1>3. CASE Arrive(r) \/ DiskLookup(r) \/ DiskCheck(r) \/ DiskServe(r) \/ S3Head(r)
             \/ DropStale(r)
    BY <1>3 DEF Arrive, DiskLookup, AfterDiskMiss, DiskCheck, DiskServe, S3Head, S3HeadAt, DropStale
  <1>4. CASE HeadCacheGet(r) \/ RememberS3Head(r) \/ CheckFresh(r) \/ Revalidate(r)
             \/ FollowerHeadCache(r)
    BY <1>1, <1>4 DEF HeadCacheGet, RememberS3Head, CheckFresh, Revalidate, FollowerHeadCache
  <1>5. CASE PackageGet(r) \/ PackageServe(r) \/ StreamS3(r)
    BY <1>5 DEF PackageGet, PackageServe, StreamS3
  <1>6. CASE HeadMiss(r) \/ HeadWake(r) \/ HeadAfterFlight(r) \/ UpstreamHead(r)
             \/ HeadNotFound(r) \/ Join(r) \/ FollowerWake(r) \/ FollowerS3Head(r)
             \/ FollowerFails(r)
    BY <1>6 DEF HeadMiss, HeadWake, HeadAfterFlight, S3HeadAt, UpstreamHead, HeadNotFound, Join,
                FollowerWake, FollowerS3Head, FollowerFails
  <1>7. CASE Capacity(r) \/ AcquireSlot(r) \/ Cancelled(r) \/ UpstreamGet(r) \/ Spool(r)
    BY <1>2, <1>7 DEF Capacity, AcquireSlot, Cancelled, UpstreamGet, Spool
  <1>8. CASE Upload(r) \/ Stored(r) \/ PopulateFile(r) \/ LeaderRemembers(r)
    BY <1>2, <1>8 DEF Upload, SkipConflict, PutObject, Stored, PopulateFile, LeaderRemembers
  <1>9. CASE ServeSpool(r) \/ LeaveFlight(r) \/ CloseFlight(r)
    BY <1>9 DEF ServeSpool, LeaveFlight, CloseFlight
  <1> QED
    BY <1>3, <1>4, <1>5, <1>6, <1>7, <1>8, <1>9 DEF Handle, Transfer

(* The steps that neither start, end nor feed a flight.                    *)
LEMMA BystanderSimulated ==
    ASSUME TypeOK, TypeOK', BucketIsNewest', Unanswered, NEW r \in Requests,
           AnswersOnly(r), UNCHANGED <<upstream, key>>,
           \/ Arrive(r) \/ DiskLookup(r) \/ DiskCheck(r) \/ DiskServe(r)
           \/ HeadCacheGet(r) \/ S3Head(r) \/ RememberS3Head(r) \/ CheckFresh(r)
           \/ Revalidate(r) \/ DropStale(r) \/ PackageGet(r) \/ PackageServe(r) \/ StreamS3(r)
           \/ HeadMiss(r) \/ HeadWake(r) \/ HeadAfterFlight(r) \/ UpstreamHead(r)
           \/ HeadNotFound(r) \/ FollowerWake(r) \/ FollowerHeadCache(r)
           \/ FollowerS3Head(r) \/ FollowerFails(r) \/ AcquireSlot(r) \/ Stored(r)
           \/ PopulateFile(r) \/ LeaderRemembers(r)
    PROVE  Simulated
  <1> USE DEF Over, Goto, shared, flights, Return
  <1>1. \A from, size : ServeFromHead(r, from, size) => pc[r] = from
    BY DEF ServeFromHead
  <1>2. CASE Arrive(r) \/ DiskLookup(r) \/ DiskCheck(r) \/ DiskServe(r) \/ S3Head(r)
             \/ DropStale(r)
    <2>1. pc[r] \notin Over /\ UNCHANGED <<s3, inflight, spool>>
      BY <1>2 DEF Arrive, DiskLookup, AfterDiskMiss, DiskCheck, DiskServe, S3Head, S3HeadAt,
                  DropStale
    <2> QED BY <2>1, ReplySimulated
  <1>3. CASE HeadCacheGet(r) \/ RememberS3Head(r) \/ CheckFresh(r) \/ Revalidate(r)
             \/ FollowerHeadCache(r)
    <2>1. pc[r] \notin Over /\ UNCHANGED <<s3, inflight, spool>>
      BY <1>1, <1>3 DEF HeadCacheGet, RememberS3Head, CheckFresh, Revalidate, FollowerHeadCache
    <2> QED BY <2>1, ReplySimulated
  <1>4. CASE PackageGet(r) \/ PackageServe(r) \/ StreamS3(r)
    <2>1. pc[r] \notin Over /\ UNCHANGED <<s3, inflight, spool>>
      BY <1>4 DEF PackageGet, PackageServe, StreamS3
    <2> QED BY <2>1, ReplySimulated
  <1>5. CASE HeadMiss(r) \/ HeadWake(r) \/ HeadAfterFlight(r) \/ UpstreamHead(r)
             \/ HeadNotFound(r) \/ FollowerWake(r) \/ FollowerS3Head(r) \/ FollowerFails(r)
    <2>1. pc[r] \notin Over /\ UNCHANGED <<s3, inflight, spool>>
      BY <1>5 DEF HeadMiss, HeadWake, HeadAfterFlight, S3HeadAt, UpstreamHead, HeadNotFound,
                  FollowerWake, FollowerS3Head, FollowerFails
    <2> QED BY <2>1, ReplySimulated
  <1>6. CASE AcquireSlot(r) \/ Stored(r) \/ PopulateFile(r) \/ LeaderRemembers(r)
    <2>1. pc[r] \notin Over /\ UNCHANGED <<s3, inflight, spool>>
      BY <1>6 DEF AcquireSlot, Stored, PopulateFile, LeaderRemembers
    <2> QED BY <2>1, ReplySimulated
  <1> QED
    BY <1>2, <1>3, <1>4, <1>5, <1>6

(* A flight begins, reads upstream's version, stores it and ends.          *)
LEMMA LeaderSimulated ==
    ASSUME IInv, TypeOK', BucketIsNewest', Unanswered, NEW r \in Requests,
           AnswersOnly(r), UNCHANGED <<upstream, key>>,
           \/ Join(r) \/ Capacity(r) \/ Cancelled(r) \/ UpstreamGet(r) \/ Spool(r)
           \/ Upload(r) \/ ServeSpool(r) \/ LeaveFlight(r) \/ CloseFlight(r)
    PROVE  Simulated
  <1>1. /\ TypeOK /\ OneFetchPerKey /\ NoSpoolLeak /\ LeaderIsNewest /\ key[r] \in Keys
        /\ r # NoReq
    BY RequestsAssumption DEF IInv, TypeOK
  <1>2. /\ {"capacity", "slot", "upget", "spooling", "upload", "serve"}
               \subseteq LeadLocations \ {"leave"}
        /\ "leave" \in LeadLocations /\ "join" \notin LeadLocations
        /\ {"join", "capacity", "slot", "upget", "spooling", "upload", "serve"} \cap Over = {}
        /\ {"spooling", "upload"} \subseteq SpoolLocations
        /\ {"join", "upget", "leave"} \cap SpoolLocations = {}
    BY DEF LeadLocations, SlotLocations, SpoolLocations, Over
  <1>3. ASSUME NEW from \in LeadLocations \ {"leave"}, NEW how, GiveUp(r, from, how), s3' = s3
        PROVE  Simulated
    BY <1>1, <1>3, LeaderReplySimulated DEF GiveUp, Goto
  <1>5. answer' = answer =>
            [q \in Requests |-> answer[q].body.ver]' = [q \in Requests |-> answer[q].body.ver]
    OBVIOUS
  <1>6. pc[r] \in LeadLocations => inflight[key[r]] = r
    BY <1>1 DEF OneFetchPerKey
  <1>a. CASE Join(r)
    <2>1. CASE inflight[key[r]] # NoReq
      BY <1>a, <2>1, <1>1, <1>2, ReplySimulated DEF Join, Goto, shared, IInv
    <2>2. CASE inflight[key[r]] = NoReq
      <3>1. /\ inflight' = [inflight EXCEPT ![key[r]] = r] /\ spool[r] = 0
            /\ UNCHANGED <<s3, spool, answer>>
        BY <1>a, <2>2, <1>1, <1>2 DEF Join, Goto, shared, NoSpoolLeak
      <3>2. \A k \in Keys : Fetched(k)' = Fetched(k)
        BY <3>1, <2>2, <1>1 DEF Fetched, TypeOK
      <3>3. [k \in Keys |-> Fetched(k)]' = [k \in Keys |-> Fetched(k)]
        BY <3>2
      <3>4. Promise!Begin(r)
        BY <2>2, <3>1, <3>3, <1>5 DEF Promise!Begin
      <3> QED BY <3>4 DEF Simulated, Promise!Next
    <2> QED BY <2>1, <2>2
  <1>b. CASE Capacity(r) \/ Cancelled(r)
    <2>1. CASE \E from \in {"capacity", "slot"} : GiveUp(r, from, "FAILED") /\ s3' = s3
      BY <2>1, <1>2, <1>3
    <2>2. CASE Goto(r, "capacity", "slot") /\ UNCHANGED <<shared, flights, answer>>
      BY <2>2, <1>1, <1>2, ReplySimulated DEF Goto, shared, flights, IInv
    <2> QED BY <1>b, <2>1, <2>2 DEF Capacity, Cancelled
  <1>c. CASE UpstreamGet(r)
    <2>1. CASE \E how : GiveUp(r, "upget", how) /\ s3' = s3
      BY <2>1, <1>2, <1>3
    <2>2. CASE /\ upstream[key[r]] # 0 /\ Goto(r, "upget", "spooling")
               /\ spool' = [spool EXCEPT ![r] = upstream[key[r]]]
               /\ UNCHANGED <<shared, inflight, done, slots, pop, locals, answer>>
      <3>1. /\ inflight[key[r]] = r /\ spool[r] = 0
            /\ spool'[r] = upstream[key[r]] /\ \A q \in Requests \ {r} : spool'[q] = spool[q]
            /\ UNCHANGED <<s3, inflight, answer>>
        BY <2>2, <1>1, <1>2, <1>6 DEF Goto, shared, NoSpoolLeak, TypeOK
      <3>2. /\ [k \in Keys |-> Fetched(k)]'
                   = [[k \in Keys |-> Fetched(k)] EXCEPT ![key[r]] = upstream[key[r]]]
            /\ [k \in Keys |-> Fetched(k)][key[r]] = 0
        BY <3>1, <1>1, FetchedChanges
      <3>3. Promise!Fetch(r)
        BY <2>2, <3>1, <3>2, <1>5 DEF Promise!Fetch
      <3> QED BY <3>3 DEF Simulated, Promise!Next
    <2> QED BY <1>c, <2>1, <2>2 DEF UpstreamGet
  <1>d. CASE Spool(r)
    <2>1. CASE GiveUp(r, "spooling", "FAILED") /\ s3' = s3
      BY <2>1, <1>2, <1>3
    <2>2. CASE Goto(r, "spooling", "upload") /\ UNCHANGED <<shared, flights, answer>>
      BY <2>2, <1>1, <1>2, ReplySimulated DEF Goto, shared, flights, IInv
    <2> QED BY <1>d, <2>1, <2>2 DEF Spool
  <1>e. CASE Upload(r)
    <2>1. pc[r] = "upload" /\ PutObject(r)
      BY <1>e, <1>1 DEF Upload, Conflicts, LeaderIsNewest
    <2>2. CASE GiveUp(r, "upload", "FAILED") /\ s3' = s3
      BY <2>2, <1>2, <1>3
    <2>3. CASE s3' = [s3 EXCEPT ![key[r]] = spool[r]]
      <3>1. /\ inflight[key[r]] = r /\ spool[r] # 0 /\ inflight' = inflight
            /\ \A q \in Requests \ {r} : spool'[q] = spool[q]
            /\ \/ spool' = spool /\ answer' = answer
               \/ spool'[r] = 0 /\ answer'[r].body = NoFile
        BY <2>1, <1>1, <1>2, <1>6 DEF PutObject, GiveUp, Reply, flights, NoSpoolLeak, TypeOK
      <3>2. \A q \in Requests : answer'[q].body.ver = answer[q].body.ver
        BY <2>1, <3>1, <1>2 DEF Unanswered, AnswersOnly, NoFile
      <3>3. [q \in Requests |-> answer[q].body.ver]' = [q \in Requests |-> answer[q].body.ver]
        BY <3>2
      <3>4. /\ [k \in Keys |-> Fetched(k)]'
                   = [[k \in Keys |-> Fetched(k)] EXCEPT ![key[r]] = spool'[r]]
            /\ [k \in Keys |-> Fetched(k)][key[r]] = spool[r]
        BY <3>1, <1>1, FetchedChanges
      <3>5. [k \in Keys |-> Fetched(k)]' = [k \in Keys |-> Fetched(k)]
            \/ [k \in Keys |-> Fetched(k)]' = [[k \in Keys |-> Fetched(k)] EXCEPT ![key[r]] = 0]
        BY <3>1, <3>4, FetchedStays
      <3>6. Promise!Store(r)
        BY <2>3, <3>1, <3>3, <3>4, <3>5 DEF Promise!Store
      <3> QED BY <3>6 DEF Simulated, Promise!Next
    <2> QED BY <2>1, <2>2, <2>3 DEF PutObject
  <1>f. CASE ServeSpool(r)
    BY <1>f, <1>1, <1>2, LeaderReplySimulated DEF ServeSpool, Goto, shared
  <1>g. CASE LeaveFlight(r)
    <2>1. /\ inflight[key[r]] = r /\ inflight' = [inflight EXCEPT ![key[r]] = NoReq]
          /\ spool[r] = 0 /\ UNCHANGED <<s3, spool, answer>>
      BY <1>g, <1>1, <1>2, <1>6 DEF LeaveFlight, Goto, shared, NoSpoolLeak
    <2>2. \A k \in Keys : Fetched(k)' = Fetched(k)
      BY <2>1, <1>1 DEF Fetched, TypeOK
    <2>3. [k \in Keys |-> Fetched(k)]' = [k \in Keys |-> Fetched(k)]
      BY <2>2
    <2>4. [k \in Keys |-> Fetched(k)][key[r]] = 0
      BY <2>1, <1>1 DEF Fetched
    <2>5. Promise!End(r)
      BY <2>1, <2>3, <2>4, <1>5 DEF Promise!End
    <2> QED BY <2>5 DEF Simulated, Promise!Next
  <1>h. CASE CloseFlight(r)
    BY <1>h, StutterSimulated DEF CloseFlight, shared
  <1> QED
    BY <1>a, <1>b, <1>c, <1>d, <1>e, <1>f, <1>g, <1>h

-----------------------------------------------------------------------------
LEMMA InitPromised == Init => Promise!Init /\ Unanswered
  <1> SUFFICES ASSUME Init PROVE Promise!Init /\ Unanswered
    OBVIOUS
  <1>1. \A k \in Keys : upstream[k] \in 0 .. MaxVersion
    BY VersionsAssumption DEF Init
  <1>2. upstream \in [Keys -> 0 .. MaxVersion]
    BY <1>1 DEF Init
  <1>3. [k \in Keys |-> Fetched(k)] = [k \in Keys |-> 0]
    BY DEF Init, Fetched
  <1>4. [r \in Requests |-> answer[r].body.ver] = [r \in Requests |-> 0]
    BY DEF Init, NoAnswer, NoFile
  <1>5. Unanswered
    BY DEF Init, Unanswered, NoAnswer, NoFile
  <1> QED BY <1>2, <1>3, <1>4, <1>5 DEF Init, Promise!Init

(* Every step is one of the promise's, or none.                            *)
LEMMA StepPromised ==
    ASSUME IInv, IInv', Unanswered, [Next]_vars
    PROVE  Unanswered' /\ Simulated
  <1>1. TypeOK /\ TypeOK' /\ BucketIsNewest'
    BY DEF IInv
  <1>2. ASSUME UNCHANGED <<upstream, s3, key, inflight, spool, pc, answer>>
        PROVE  Unanswered' /\ Simulated
    BY <1>2, StutterSimulated DEF Unanswered
  <1>3. CASE UNCHANGED vars
    BY <1>2, <1>3 DEF vars, shared, flights, asked
  <1>4. CASE \E r \in Requests : Populate(r)
    BY <1>2, <1>4 DEF Populate, flights, asked
  <1>5. ASSUME NEW k \in Keys, Around(k)
        PROVE  Unanswered' /\ Simulated
    <2>1. CASE Publish(k)
      <3>1. UNCHANGED <<s3, key, inflight, spool, pc, answer>>
        BY <2>1 DEF Publish, shared, flights, asked
      <3>2. [j \in Keys |-> Fetched(j)]' = [j \in Keys |-> Fetched(j)]
        BY <3>1, FetchedStays
      <3>3. [r \in Requests |-> answer[r].body.ver]' = [r \in Requests |-> answer[r].body.ver]
        BY <3>1
      <3>4. Promise!Publish(k)
        BY <2>1, <3>1, <3>2, <3>3 DEF Publish, Promise!Publish
      <3> QED BY <3>1, <3>4 DEF Unanswered, Simulated, Promise!Next
    <2>2. CASE DiskEvict(k) \/ HeadDropped(k) \/ NegativeExpires(k)
      BY <1>2, <2>2 DEF DiskEvict, HeadDropped, NegativeExpires, flights, asked
    <2> QED BY <1>5, <2>1, <2>2 DEF Around
  <1>6. ASSUME NEW r \in Requests, Handle(r) \/ Transfer(r) \/ Cancelled(r)
        PROVE  Unanswered' /\ Simulated
    <2>1. AnswersOnly(r) /\ EndsOrSilent(r) /\ UNCHANGED <<upstream, key>>
      BY <1>1, <1>6, HandleAnswers
    <2>2. Unanswered'
      BY <2>1 DEF Unanswered, AnswersOnly, EndsOrSilent
    <2>3. CASE Join(r) \/ Capacity(r) \/ Cancelled(r) \/ UpstreamGet(r) \/ Spool(r)
               \/ Upload(r) \/ ServeSpool(r) \/ LeaveFlight(r) \/ CloseFlight(r)
      BY <1>1, <2>1, <2>2, <2>3, LeaderSimulated
    <2>4. CASE ~(Join(r) \/ Capacity(r) \/ Cancelled(r) \/ UpstreamGet(r) \/ Spool(r)
               \/ Upload(r) \/ ServeSpool(r) \/ LeaveFlight(r) \/ CloseFlight(r))
      BY <1>1, <1>6, <2>1, <2>2, <2>4, BystanderSimulated DEF Handle, Transfer
    <2> QED BY <2>2, <2>3, <2>4
  <1> QED
    BY <1>3, <1>4, <1>5, <1>6 DEF Next, Finished

(* For any number of requests, keys and versions, what the handlers, the   *)
(* single flight and the spooled uploads do together is what ReadThrough   *)
(* allows (handler.go:664-716, spool.go:44-196).                           *)
THEOREM MirrorImplements == Spec => ImplementsPromise
  <1>1. IInv /\ IInv' /\ Unanswered /\ [Next]_vars => Unanswered' /\ [Promise!Next]_(Promise!vars)
    BY StepPromised DEF Simulated
  <1> QED
    BY InitPromised, Invariance, <1>1, PTL DEF Spec, ImplementsPromise, Promise!Spec
=============================================================================
