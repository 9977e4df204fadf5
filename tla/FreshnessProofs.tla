-------------------------- MODULE FreshnessProofs --------------------------
(***************************************************************************)
(* Proofs about Freshness, for any TTL, any delay of the handlers and any  *)
(* number of handlers, renewals, restarts and publications.                *)
(***************************************************************************)
EXTENDS Freshness, TLAPS

(* Versions are published one after the other.                             *)
Published == \E c \in Versions : \A u \in Versions : published[u] # NotYet <=> u <= c

(* How much later than the last answer of upstream the time of a copy may  *)
(* be: the leader's own delay, and a TTL and a delay for every renewal.    *)
Allowance(n) == Lag + n * (TTL + Lag)

(* Where a handler has been answered by upstream since it arrived.         *)
HasAsked == {"mark", "upload", "stored", "populate", "lead", "leave"}

(* The handler is about to hand out a copy, or to write one to the disk.   *)
Committed(r) ==
    \/ pc[r] \in {"diskserve", "get"} \/ pop[r] # 0
    \/ Waited(r) /\ pc[r] # "wait"

(* Nothing is from the future, and no handler is overtaken by more than Lag*)
Clocks ==
    /\ asked <= now /\ s3.at <= now /\ disk.at <= now /\ heads.at <= now /\ validated <= now
    /\ vain <= now
    /\ \A r \in Requests : held[r].at <= now /\ started[r] <= now
    /\ \A r \in Requests : Busy(r) => now <= started[r] + Lag
    /\ \A r \in Requests : pop[r] # 0 => pc[r] = "idle"

(* No time a copy carries is far from the last answer of upstream.         *)
Ages ==
    /\ s3.at <= asked + Lag /\ validated <= asked + Lag
    /\ disk.at <= asked + Allowance(renewed) /\ heads.at <= asked + Allowance(renewed)
    /\ \A r \in Requests : held[r].at <= asked + Allowance(renewed)

(* Nor is the arrival of a handler that trusts one.                        *)
Arrivals ==
    \A r \in Requests :
        /\ pc[r] \in HasAsked => started[r] <= asked
        /\ Committed(r) => started[r] <= asked + Allowance(renewed) + TTL

FreshInv == TypeOK /\ Published /\ Clocks /\ Ages /\ Arrivals

-----------------------------------------------------------------------------
LEMMA Numbers == TTL \in Nat /\ Lag \in Nat /\ MaxTime \in Nat /\ MaxRenewals \in Nat
                 /\ MaxRestarts \in Nat /\ MaxVersion \in Nat \ {0}
  BY FreshnessAssumption

LEMMA AllowanceGrows ==
    ASSUME NEW n \in Nat
    PROVE  /\ Allowance(n) \in Nat /\ Lag <= Allowance(n)
           /\ Allowance(n + 1) = Allowance(n) + TTL + Lag
  <1> DEFINE step == TTL + Lag
  <1>1. step \in Nat
    BY Numbers
  <1> HIDE DEF step
  <1>2. n * step \in Nat /\ (n + 1) * step = n * step + step
    BY <1>1
  <1> QED BY <1>1, <1>2, Numbers DEF Allowance, step

LEMMA CurrentIsLast ==
    ASSUME FreshInv
    PROVE  /\ Current \in Versions /\ published[Current] # NotYet
           /\ \A u \in Versions : published[u] # NotYet <=> u <= Current
  <1>1. PICK c \in Versions : \A u \in Versions : published[u] # NotYet <=> u <= c
    BY DEF FreshInv, Published
  <1> DEFINE last(v) == published[v] # NotYet /\ \A u \in Versions : u > v => published[u] = NotYet
  <1>2. c \in Int /\ last(c)
    BY <1>1 DEF Versions
  <1>3. Current \in Versions /\ last(Current)
    BY <1>1, <1>2 DEF Current
  <1>4. Current \in Int
    BY <1>3 DEF Versions
  <1>5. Current = c
    BY <1>1, <1>2, <1>3, <1>4
  <1> QED BY <1>1, <1>3, <1>5

-----------------------------------------------------------------------------
LEMMA Copying ==
    ASSUME NEW v \in 0 .. MaxVersion, NEW t \in Time
    PROVE  CopyOf(v, t) \in Copies /\ CopyOf(v, t).at = t /\ CopyOf(v, t).ver = v
  BY DEF CopyOf, Copies

LEMMA Nothing == NoCopy \in Copies /\ NoCopy.at = 0 /\ NoHead.at = 0 /\ 0 \in Time
                 /\ NoHead \in [ver : 0 .. MaxVersion, at : Time, exp : Nat]
  BY Numbers DEF NoCopy, NoHead, Copies, Time

LEMMA CopyFields ==
    ASSUME NEW c \in Copies
    PROVE  c.at \in Nat /\ c.at \in Time /\ c.ver \in 0 .. MaxVersion
  BY Numbers DEF Copies, Time

(* Facts of every state that the steps below rest on.                      *)
LEMMA Bounds ==
    ASSUME FreshInv
    PROVE  /\ now \in Nat /\ asked \in Nat /\ renewed \in Nat
           /\ s3.at \in Nat /\ disk.at \in Nat /\ heads.at \in Nat /\ validated \in Int
           /\ vain \in Int
           /\ \A r \in Requests : held[r].at \in Nat /\ started[r] \in Nat
           /\ Allowance(renewed) \in Nat /\ Lag <= Allowance(renewed)
           /\ TTL \in Nat /\ Lag \in Nat
  <1>1. now \in Nat /\ asked \in Nat /\ renewed \in Nat
    BY Numbers DEF FreshInv, TypeOK, Time
  <1>2. s3.at \in Nat /\ disk.at \in Nat /\ heads.at \in Nat /\ validated \in Int /\ vain \in Int
    BY Numbers DEF FreshInv, TypeOK, Time, Copies, Never
  <1>3. \A r \in Requests : held[r].at \in Nat /\ started[r] \in Nat
    BY Numbers DEF FreshInv, TypeOK, Time, Copies
  <1> QED BY <1>1, <1>2, <1>3, AllowanceGrows, Numbers

LEMMA Shapes ==
    ASSUME FreshInv
    PROVE  /\ DOMAIN pc = Requests /\ DOMAIN started = Requests /\ DOMAIN held = Requests
           /\ DOMAIN flight = Requests /\ DOMAIN pop = Requests
           /\ pc = [q \in Requests |-> pc[q]] /\ started = [q \in Requests |-> started[q]]
           /\ held = [q \in Requests |-> held[q]] /\ flight = [q \in Requests |-> flight[q]]
           /\ pop = [q \in Requests |-> pop[q]]
  BY DEF FreshInv, TypeOK

LEMMA Hands ==
    ASSUME FreshInv
    PROVE  /\ held \in [Requests -> Copies] /\ flight \in [Requests -> Requests \cup {Nobody}]
           /\ s3 \in Copies /\ disk \in Copies /\ now \in Time /\ asked \in Time
           /\ renewed \in 0 .. MaxRenewals /\ 0 \in 0 .. MaxRenewals /\ vain \in Time \cup {Never}
           /\ inflight \in Requests \cup {Nobody}
           /\ CopyOf(heads.ver, heads.at) \in Copies
  <1>1. CopyOf(heads.ver, heads.at) \in Copies
    BY DEF FreshInv, TypeOK, CopyOf, Copies
  <1>2. 0 \in 0 .. MaxRenewals
    BY Numbers
  <1> QED BY <1>1, <1>2 DEF FreshInv, TypeOK

LEMMA Versioned ==
    ASSUME FreshInv
    PROVE  CopyOf(Current, now) \in Copies
  <1>1. Current \in 0 .. MaxVersion
    BY CurrentIsLast, Numbers DEF Versions
  <1> QED BY <1>1, Hands, Copying

Places == {"idle", "disk", "diskold", "diskserve", "heads", "expire", "s3head",
           "remember", "fresh", "reval", "mark", "stale", "get", "join", "wait", "upget",
           "upload", "stored", "populate", "lead", "leave"}

(* A step of r that changes no other handler and no clock.                 *)
Others(r) ==
    \A q \in Requests \ {r} :
        /\ pc'[q] = pc[q] /\ started'[q] = started[q] /\ held'[q] = held[q]
        /\ flight'[q] = flight[q] /\ pop'[q] = pop[q]

(* What such a step owes to the invariant: that what it writes is in time. *)
LEMMA StepInTime ==
    ASSUME FreshInv, NEW r \in Requests, Others(r), TypeOK',
           now' = now, published' = published,
           \/ asked' = asked /\ renewed' = renewed
           \/ asked' = now /\ renewed' = 0
           \/ asked' = asked /\ renewed' = renewed + 1,
           s3'.at = s3.at \/ (s3'.at <= asked' + Lag /\ s3'.at <= now),
           validated' = validated \/ (validated' <= asked' + Lag /\ validated' <= now),
           disk'.at = disk.at \/ (disk'.at <= asked' + Allowance(renewed') /\ disk'.at <= now),
           heads'.at = heads.at \/ (heads'.at <= asked' + Allowance(renewed') /\ heads'.at <= now),
           held'[r].at = held[r].at
             \/ (held'[r].at <= asked' + Allowance(renewed') /\ held'[r].at <= now),
           started'[r] \in {started[r], now, 0}, vain' \in {vain, now},
           Busy(r)' => now <= started'[r] + Lag, pop'[r] # 0 => pc'[r] = "idle",
           pc'[r] \in HasAsked => started'[r] <= asked',
           Committed(r)' => started'[r] <= asked' + Allowance(renewed') + TTL
    PROVE  FreshInv'
  <1> USE Bounds, Nothing
  <1>0. /\ now' \in Nat /\ asked' \in Nat /\ renewed' \in Nat /\ renewed + 1 \in Nat
        /\ s3'.at \in Nat /\ disk'.at \in Nat /\ heads'.at \in Nat /\ validated' \in Int
        /\ \A q \in Requests : held'[q].at \in Nat /\ started'[q] \in Nat
    BY Numbers DEF TypeOK, Time, Copies, Never
  <1>1. \/ asked' = asked /\ Allowance(renewed) <= Allowance(renewed')
        \/ asked' = now /\ renewed' = 0
    BY AllowanceGrows
  <1>2. Allowance(renewed') \in Nat /\ Lag <= Allowance(renewed')
    BY <1>0, AllowanceGrows
  <1>3. Published'
    BY DEF FreshInv, Published
  <1>4. Clocks'
    <2>1. asked' <= now' /\ s3'.at <= now' /\ disk'.at <= now' /\ heads'.at <= now'
          /\ validated' <= now' /\ vain' <= now'
      BY <1>0 DEF FreshInv, Clocks
    <2>2. ASSUME NEW q \in Requests
          PROVE  held'[q].at <= now' /\ started'[q] <= now'
                 /\ (Busy(q)' => now' <= started'[q] + Lag) /\ (pop'[q] # 0 => pc'[q] = "idle")
      BY <1>0 DEF FreshInv, Clocks, Others, Busy
    <2> QED BY <2>1, <2>2 DEF Clocks
  <1>5. Ages'
    <2>1. s3'.at <= asked' + Lag /\ validated' <= asked' + Lag
      BY <1>0 DEF FreshInv, Ages, Clocks
    <2>2. disk'.at <= asked' + Allowance(renewed') /\ heads'.at <= asked' + Allowance(renewed')
      BY <1>0, <1>1, <1>2 DEF FreshInv, Ages, Clocks
    <2>3. ASSUME NEW q \in Requests PROVE held'[q].at <= asked' + Allowance(renewed')
      <3>1. held'[q].at = held[q].at \/ held'[q].at <= asked' + Allowance(renewed')
        BY DEF Others
      <3>2. held[q].at <= asked + Allowance(renewed) /\ held[q].at <= now
        BY DEF FreshInv, Ages, Clocks
      <3> QED BY <1>0, <1>1, <1>2, <3>1, <3>2
    <2> QED BY <2>1, <2>2, <2>3 DEF Ages
  <1>6. Arrivals'
    <2>1. ASSUME NEW q \in Requests
          PROVE  /\ pc'[q] \in HasAsked => started'[q] <= asked'
                 /\ Committed(q)' => started'[q] <= asked' + Allowance(renewed') + TTL
      <3>1. CASE q = r
        BY <3>1
      <3>2. CASE q # r
        <4>1. /\ pc'[q] = pc[q] /\ started'[q] = started[q]
              /\ Committed(q)' <=> Committed(q)
          BY <3>2 DEF Others, Committed, Waited
        <4>2. /\ pc[q] \in HasAsked => started[q] <= asked
              /\ Committed(q) => started[q] <= asked + Allowance(renewed) + TTL
              /\ started[q] <= now
          BY DEF FreshInv, Arrivals, Clocks
        <4> QED BY <1>0, <1>1, <1>2, <4>1, <4>2
      <3> QED BY <3>1, <3>2
    <2> QED BY <2>1 DEF Arrivals
  <1> QED BY <1>3, <1>4, <1>5, <1>6 DEF FreshInv

(* Where the steps start from.                                             *)
LEMMA Timely ==
    ASSUME FreshInv, NEW r \in Requests
    PROVE  /\ s3.at <= now /\ disk.at <= now /\ heads.at <= now /\ held[r].at <= now
           /\ started[r] <= now /\ validated <= now /\ asked <= now
           /\ s3.at <= asked + Lag /\ validated <= asked + Lag
           /\ s3.at <= asked + Allowance(renewed)
           /\ disk.at <= asked + Allowance(renewed) /\ heads.at <= asked + Allowance(renewed)
           /\ held[r].at <= asked + Allowance(renewed)
           /\ Busy(r) => now <= started[r] + Lag
           /\ pop[r] # 0 => pc[r] = "idle"
           /\ Committed(r) => started[r] <= asked + Allowance(renewed) + TTL
           /\ pc[r] \in HasAsked =>
                /\ started[r] <= asked
                /\ now <= asked + Lag /\ now <= asked + Allowance(renewed)
  <1>1. pc[r] \in HasAsked => Busy(r)
    BY DEF HasAsked, Busy
  <1>2. pc[r] \in HasAsked => started[r] <= asked
    BY DEF FreshInv, Arrivals
  <1>3. Busy(r) => now <= started[r] + Lag
    BY DEF FreshInv, Clocks
  <1> QED BY <1>1, <1>2, <1>3, Bounds DEF FreshInv, Ages, Clocks, Arrivals

LEMMA ArriveInv ==
    ASSUME FreshInv, NEW r \in Requests, Arrive(r)
    PROVE  FreshInv'
  <1> USE DEF Step, bounds, local, Busy, Arrive
  <1>1. TypeOK'
    BY Numbers, Nothing, Copying, CopyFields DEF FreshInv, TypeOK
  <1>2. Others(r)
    BY Shapes DEF Others
  <1> QED
    BY <1>1, <1>2, Shapes, Bounds, Timely, Nothing, StepInTime
       DEF CopyOf, Busy, Committed, Waited, HasAsked

LEMMA DiskLookupInv ==
    ASSUME FreshInv, NEW r \in Requests, DiskLookup(r)
    PROVE  FreshInv'
  <1> USE DEF Step, bounds, local, Within, DiskLookup
  <1>c1. CASE enabled /\ disk # NoCopy /\ now - disk.at <= TTL
    <2>1. TypeOK'
      <3>1. pc' \in [Requests -> Places]
        BY <1>c1, Shapes DEF FreshInv, TypeOK, Places
      <3>2. held' \in [Requests -> Copies] /\ flight' \in [Requests -> Requests \cup {Nobody}]
        BY <1>c1, Hands, Nothing
      <3>3. heads' \in [ver : 0 .. MaxVersion, at : Time, exp : Nat]
        BY <1>c1, Bounds, CopyFields DEF FreshInv, TypeOK
      <3>4. asked' \in Time /\ renewed' \in 0 .. MaxRenewals /\ vain' \in Time \cup {Never}
        BY <1>c1, Hands
      <3> QED
        BY <1>c1, <3>1, <3>2, <3>3, <3>4 DEF FreshInv, TypeOK, Places
    <2>2. Others(r)
      BY <1>c1, Shapes DEF Others
    <2> QED
      BY <1>c1, <2>1, <2>2, Shapes, Bounds, Timely, Nothing, StepInTime
         DEF CopyOf, Busy, Committed, Waited, HasAsked
  <1>c2. CASE enabled /\ disk # NoCopy /\ ~(now - disk.at <= TTL)
    <2>1. TypeOK'
      <3>1. pc' \in [Requests -> Places]
        BY <1>c2, Shapes DEF FreshInv, TypeOK, Places
      <3>2. held' \in [Requests -> Copies] /\ flight' \in [Requests -> Requests \cup {Nobody}]
        BY <1>c2, Hands, Nothing
      <3>3. heads' \in [ver : 0 .. MaxVersion, at : Time, exp : Nat]
        BY <1>c2, Bounds, CopyFields DEF FreshInv, TypeOK
      <3>4. asked' \in Time /\ renewed' \in 0 .. MaxRenewals /\ vain' \in Time \cup {Never}
        BY <1>c2, Hands
      <3> QED
        BY <1>c2, <3>1, <3>2, <3>3, <3>4 DEF FreshInv, TypeOK, Places
    <2>2. Others(r)
      BY <1>c2, Shapes DEF Others
    <2> QED
      BY <1>c2, <2>1, <2>2, Shapes, Bounds, Timely, Nothing, StepInTime
         DEF CopyOf, Busy, Committed, Waited, HasAsked
  <1>c3. CASE ~(enabled /\ disk # NoCopy)
    <2>1. TypeOK'
      <3>1. pc' \in [Requests -> Places]
        BY <1>c3, Shapes DEF FreshInv, TypeOK, Places
      <3>2. held' \in [Requests -> Copies] /\ flight' \in [Requests -> Requests \cup {Nobody}]
        BY <1>c3, Hands, Nothing
      <3>3. heads' \in [ver : 0 .. MaxVersion, at : Time, exp : Nat]
        BY <1>c3, Bounds, CopyFields DEF FreshInv, TypeOK
      <3>4. asked' \in Time /\ renewed' \in 0 .. MaxRenewals /\ vain' \in Time \cup {Never}
        BY <1>c3, Hands
      <3> QED
        BY <1>c3, <3>1, <3>2, <3>3, <3>4 DEF FreshInv, TypeOK, Places
    <2>2. Others(r)
      BY <1>c3, Shapes DEF Others
    <2> QED
      BY <1>c3, <2>1, <2>2, Shapes, Bounds, Timely, Nothing, StepInTime
         DEF CopyOf, Busy, Committed, Waited, HasAsked
  <1> QED BY <1>c1, <1>c2, <1>c3

LEMMA DiskExpiredInv ==
    ASSUME FreshInv, NEW r \in Requests, DiskExpired(r)
    PROVE  FreshInv'
  <1> USE DEF Step, bounds, local, DiskExpired
  <1>1. TypeOK'
    BY Numbers, Nothing, Copying, CopyFields DEF FreshInv, TypeOK
  <1>2. Others(r)
    BY Shapes DEF Others
  <1> QED
    BY <1>1, <1>2, Shapes, Bounds, Timely, Nothing, StepInTime
       DEF CopyOf, Busy, Committed, Waited, HasAsked

LEMMA DiskServeInv ==
    ASSUME FreshInv, NEW r \in Requests, DiskServe(r)
    PROVE  FreshInv'
  <1> USE DEF Step, bounds, local, Done, Remember, DiskServe, Ended
  <1>c1. CASE pc'[r] = "diskold"
    <2>1. TypeOK'
      <3>1. pc' \in [Requests -> Places]
        BY <1>c1, Shapes DEF FreshInv, TypeOK, Places
      <3>2. held' \in [Requests -> Copies] /\ flight' \in [Requests -> Requests \cup {Nobody}]
        BY <1>c1, Hands, Nothing
      <3>3. heads' \in [ver : 0 .. MaxVersion, at : Time, exp : Nat]
        BY <1>c1, Bounds, CopyFields DEF FreshInv, TypeOK
      <3>4. asked' \in Time /\ renewed' \in 0 .. MaxRenewals /\ vain' \in Time \cup {Never}
        BY <1>c1, Hands
      <3> QED
        BY <1>c1, <3>1, <3>2, <3>3, <3>4 DEF FreshInv, TypeOK, Places
    <2>2. Others(r)
      BY <1>c1, Shapes DEF Others
    <2> QED
      BY <1>c1, <2>1, <2>2, Shapes, Bounds, Timely, Nothing, StepInTime
         DEF CopyOf, Busy, Committed, Waited, HasAsked
  <1>c2. CASE pc'[r] # "diskold"
    <2>1. TypeOK'
      <3>1. pc' \in [Requests -> Places]
        BY <1>c2, Shapes DEF FreshInv, TypeOK, Places
      <3>2. held' \in [Requests -> Copies] /\ flight' \in [Requests -> Requests \cup {Nobody}]
        BY <1>c2, Hands, Nothing
      <3>3. heads' \in [ver : 0 .. MaxVersion, at : Time, exp : Nat]
        BY <1>c2, Bounds, CopyFields DEF FreshInv, TypeOK
      <3>4. asked' \in Time /\ renewed' \in 0 .. MaxRenewals /\ vain' \in Time \cup {Never}
        BY <1>c2, Hands
      <3>5. started' \in [Requests -> Time]
        BY <1>c2, Nothing DEF FreshInv, TypeOK
      <3> QED
        BY <1>c2, <3>1, <3>2, <3>3, <3>4, <3>5 DEF FreshInv, TypeOK, Places
    <2>2. Others(r)
      BY <1>c2, Shapes DEF Others
    <2> QED
      BY <1>c2, <2>1, <2>2, Shapes, Bounds, Timely, Nothing, StepInTime
         DEF CopyOf, Busy, Committed, Waited, HasAsked
  <1> QED BY <1>c1, <1>c2

LEMMA HeadCacheGetInv ==
    ASSUME FreshInv, NEW r \in Requests, HeadCacheGet(r)
    PROVE  FreshInv'
  <1> USE DEF Step, bounds, local, GetHead, Waited, HeadCacheGet
  <1>c1. CASE heads # NoHead /\ now <= heads.exp
    <2>1. TypeOK'
      <3>1. pc' \in [Requests -> Places]
        BY <1>c1, Shapes DEF FreshInv, TypeOK, Places
      <3>2. held' \in [Requests -> Copies] /\ flight' \in [Requests -> Requests \cup {Nobody}]
        BY <1>c1, Hands, Nothing
      <3>3. heads' \in [ver : 0 .. MaxVersion, at : Time, exp : Nat]
        BY <1>c1, Bounds, CopyFields DEF FreshInv, TypeOK
      <3>4. asked' \in Time /\ renewed' \in 0 .. MaxRenewals /\ vain' \in Time \cup {Never}
        BY <1>c1, Hands
      <3> QED
        BY <1>c1, <3>1, <3>2, <3>3, <3>4 DEF FreshInv, TypeOK, Places
    <2>2. Others(r)
      BY <1>c1, Shapes DEF Others
    <2> QED
      BY <1>c1, <2>1, <2>2, Shapes, Bounds, Timely, Nothing, StepInTime
         DEF CopyOf, Busy, Committed, Waited, HasAsked
  <1>c2. CASE ~(heads # NoHead /\ now <= heads.exp)
    <2>1. TypeOK'
      <3>1. pc' \in [Requests -> Places]
        BY <1>c2, Shapes DEF FreshInv, TypeOK, Places
      <3>2. held' \in [Requests -> Copies] /\ flight' \in [Requests -> Requests \cup {Nobody}]
        BY <1>c2, Hands, Nothing
      <3>3. heads' \in [ver : 0 .. MaxVersion, at : Time, exp : Nat]
        BY <1>c2, Bounds, CopyFields DEF FreshInv, TypeOK
      <3>4. asked' \in Time /\ renewed' \in 0 .. MaxRenewals /\ vain' \in Time \cup {Never}
        BY <1>c2, Hands
      <3> QED
        BY <1>c2, <3>1, <3>2, <3>3, <3>4 DEF FreshInv, TypeOK, Places
    <2>2. Others(r)
      BY <1>c2, Shapes DEF Others
    <2> QED
      BY <1>c2, <2>1, <2>2, Shapes, Bounds, Timely, Nothing, StepInTime
         DEF CopyOf, Busy, Committed, Waited, HasAsked
  <1> QED BY <1>c1, <1>c2

LEMMA DeleteExpiredInv ==
    ASSUME FreshInv, NEW r \in Requests, DeleteExpired(r)
    PROVE  FreshInv'
  <1> USE DEF Step, bounds, local, DeleteExpired
  <1>1. TypeOK'
    BY Numbers, Nothing, Copying, CopyFields DEF FreshInv, TypeOK
  <1>2. Others(r)
    BY Shapes DEF Others
  <1> QED
    BY <1>1, <1>2, Shapes, Bounds, Timely, Nothing, StepInTime
       DEF CopyOf, Busy, Committed, Waited, HasAsked

LEMMA S3HeadInv ==
    ASSUME FreshInv, NEW r \in Requests, S3Head(r)
    PROVE  FreshInv'
  <1> USE DEF Step, bounds, local, Done, Waited, S3Head, Ended
  <1>c1. CASE s3 # NoCopy
    <2>1. TypeOK'
      <3>1. pc' \in [Requests -> Places]
        BY <1>c1, Shapes DEF FreshInv, TypeOK, Places
      <3>2. held' \in [Requests -> Copies] /\ flight' \in [Requests -> Requests \cup {Nobody}]
        BY <1>c1, Hands, Nothing
      <3>3. heads' \in [ver : 0 .. MaxVersion, at : Time, exp : Nat]
        BY <1>c1, Bounds, CopyFields DEF FreshInv, TypeOK
      <3>4. asked' \in Time /\ renewed' \in 0 .. MaxRenewals /\ vain' \in Time \cup {Never}
        BY <1>c1, Hands
      <3> QED
        BY <1>c1, <3>1, <3>2, <3>3, <3>4 DEF FreshInv, TypeOK, Places
    <2>2. Others(r)
      BY <1>c1, Shapes DEF Others
    <2> QED
      BY <1>c1, <2>1, <2>2, Shapes, Bounds, Timely, Nothing, StepInTime
         DEF CopyOf, Busy, Committed, Waited, HasAsked
  <1>c2. CASE s3 = NoCopy
    <2>1. TypeOK'
      <3>1. pc' \in [Requests -> Places]
        BY <1>c2, Shapes DEF FreshInv, TypeOK, Places
      <3>2. held' \in [Requests -> Copies] /\ flight' \in [Requests -> Requests \cup {Nobody}]
        BY <1>c2, Hands, Nothing
      <3>3. heads' \in [ver : 0 .. MaxVersion, at : Time, exp : Nat]
        BY <1>c2, Bounds, CopyFields DEF FreshInv, TypeOK
      <3>4. asked' \in Time /\ renewed' \in 0 .. MaxRenewals /\ vain' \in Time \cup {Never}
        BY <1>c2, Hands
      <3>5. started' \in [Requests -> Time]
        BY <1>c2, Nothing DEF FreshInv, TypeOK
      <3> QED
        BY <1>c2, <3>1, <3>2, <3>3, <3>4, <3>5 DEF FreshInv, TypeOK, Places
    <2>2. Others(r)
      BY <1>c2, Shapes DEF Others
    <2> QED
      BY <1>c2, <2>1, <2>2, Shapes, Bounds, Timely, Nothing, StepInTime
         DEF CopyOf, Busy, Committed, Waited, HasAsked
  <1> QED BY <1>c1, <1>c2

LEMMA RememberS3HeadInv ==
    ASSUME FreshInv, NEW r \in Requests, RememberS3Head(r)
    PROVE  FreshInv'
  <1> USE DEF Step, bounds, local, Remember, Waited, RememberS3Head
  <1>1. TypeOK'
    BY Numbers, Nothing, Copying, CopyFields DEF FreshInv, TypeOK
  <1>2. Others(r)
    BY Shapes DEF Others
  <1> QED
    BY <1>1, <1>2, Shapes, Bounds, Timely, Nothing, StepInTime
       DEF CopyOf, Busy, Committed, Waited, HasAsked

LEMMA CheckFreshInv ==
    ASSUME FreshInv, NEW r \in Requests, CheckFresh(r)
    PROVE  FreshInv'
  <1> USE DEF Step, bounds, local, Fresh, Within, CheckFresh
  <1>1. TypeOK'
    BY Numbers, Nothing, Copying, CopyFields DEF FreshInv, TypeOK
  <1>2. Others(r)
    BY Shapes DEF Others
  <1> QED
    BY <1>1, <1>2, Shapes, Bounds, Timely, Nothing, StepInTime
       DEF CopyOf, Busy, Committed, Waited, HasAsked

LEMMA RevalidateInv ==
    ASSUME FreshInv, NEW r \in Requests, Revalidate(r)
    PROVE  FreshInv'
  <1> USE DEF Step, bounds, local, UpstreamError, Revalidate, InVain
  <1>1. TypeOK'
    <2>1. pc' \in [Requests -> Places]
      BY Shapes DEF FreshInv, TypeOK, Places
    <2>2. held' \in [Requests -> Copies] /\ flight' \in [Requests -> Requests \cup {Nobody}]
      BY Hands, Nothing
    <2>3. heads' \in [ver : 0 .. MaxVersion, at : Time, exp : Nat]
      BY Bounds, CopyFields DEF FreshInv, TypeOK
    <2>4. asked' \in Time /\ renewed' \in 0 .. MaxRenewals /\ vain' \in Time \cup {Never}
      BY Hands
    <2> QED
      BY <2>1, <2>2, <2>3, <2>4 DEF FreshInv, TypeOK, Places
  <1>2. Others(r)
    BY Shapes DEF Others
  <1> QED
    BY <1>1, <1>2, Shapes, Bounds, Timely, Nothing, AllowanceGrows, StepInTime
       DEF CopyOf, Busy, Committed, Waited, HasAsked

LEMMA MarkValidatedInv ==
    ASSUME FreshInv, NEW r \in Requests, MarkValidated(r)
    PROVE  FreshInv'
  <1> USE DEF Step, bounds, local, MarkValidated
  <1>1. TypeOK'
    BY Numbers, Nothing, Copying, CopyFields DEF FreshInv, TypeOK
  <1>2. Others(r)
    BY Shapes DEF Others
  <1> QED
    BY <1>1, <1>2, Shapes, Bounds, Timely, Nothing, StepInTime
       DEF CopyOf, Busy, Committed, Waited, HasAsked

LEMMA DropStaleInv ==
    ASSUME FreshInv, NEW r \in Requests, DropStale(r)
    PROVE  FreshInv'
  <1> USE DEF Step, bounds, local, DropStale
  <1>1. TypeOK'
    BY Numbers, Nothing, Copying, CopyFields DEF FreshInv, TypeOK
  <1>2. Others(r)
    BY Shapes DEF Others
  <1> QED
    BY <1>1, <1>2, Shapes, Bounds, Timely, Nothing, StepInTime
       DEF CopyOf, Busy, Committed, Waited, HasAsked

LEMMA StreamS3Inv ==
    ASSUME FreshInv, NEW r \in Requests, StreamS3(r)
    PROVE  FreshInv'
  <1> USE DEF Step, bounds, local, Done, StreamS3, Ended
  <1>1. TypeOK'
    <2>1. pc' \in [Requests -> Places] /\ held' \in [Requests -> Copies]
      BY Shapes, Nothing DEF FreshInv, TypeOK, Places
    <2>2. started' \in [Requests -> Time] /\ pop' \in [Requests -> 0 .. MaxVersion]
      BY Nothing, CopyFields DEF FreshInv, TypeOK
    <2> QED BY <2>1, <2>2 DEF FreshInv, TypeOK, Places
  <1>2. Others(r)
    BY Shapes DEF Others
  <1> QED
    BY <1>1, <1>2, Shapes, Bounds, Timely, Nothing, StepInTime
       DEF CopyOf, Busy, Committed, Waited, HasAsked

LEMMA PopulateInv ==
    ASSUME FreshInv, NEW r \in Requests, Populate(r)
    PROVE  FreshInv'
  <1> USE DEF Step, bounds, local, Populate, Ended
  <1>c1. CASE renewed' = renewed + 1 /\ renewed < MaxRenewals /\ disk' = CopyOf(pop[r], now)
    <2>1. TypeOK'
      BY <1>c1, Numbers, Nothing, Copying, CopyFields DEF FreshInv, TypeOK
    <2>2. Others(r)
      BY <1>c1, Shapes DEF Others
    <2> QED
      BY <1>c1, <2>1, <2>2, Shapes, Bounds, Timely, Nothing, AllowanceGrows, StepInTime
         DEF CopyOf, Busy, Committed, Waited, HasAsked
  <1>c2. CASE renewed' = renewed /\ disk' = disk
    <2>1. TypeOK'
      BY <1>c2, Numbers, Nothing, Copying, CopyFields DEF FreshInv, TypeOK
    <2>2. Others(r)
      BY <1>c2, Shapes DEF Others
    <2> QED
      BY <1>c2, <2>1, <2>2, Shapes, Bounds, Timely, Nothing, AllowanceGrows, StepInTime
         DEF CopyOf, Busy, Committed, Waited, HasAsked
  <1> QED BY <1>c1, <1>c2

LEMMA JoinInv ==
    ASSUME FreshInv, NEW r \in Requests, Join(r)
    PROVE  FreshInv'
  <1> USE DEF Step, bounds, local, Join
  <1>c1. CASE inflight = Nobody
    <2>1. TypeOK'
      <3>1. pc' \in [Requests -> Places]
        BY <1>c1, Shapes DEF FreshInv, TypeOK, Places
      <3>2. held' \in [Requests -> Copies] /\ flight' \in [Requests -> Requests \cup {Nobody}]
        BY <1>c1, Hands, Nothing
      <3>3. heads' \in [ver : 0 .. MaxVersion, at : Time, exp : Nat]
        BY <1>c1, Bounds, CopyFields DEF FreshInv, TypeOK
      <3>4. asked' \in Time /\ renewed' \in 0 .. MaxRenewals /\ vain' \in Time \cup {Never}
        BY <1>c1, Hands
      <3> QED
        BY <1>c1, <3>1, <3>2, <3>3, <3>4 DEF FreshInv, TypeOK, Places
    <2>2. Others(r)
      BY <1>c1, Shapes DEF Others
    <2> QED
      BY <1>c1, <2>1, <2>2, Shapes, Bounds, Timely, Nothing, StepInTime
         DEF CopyOf, Busy, Committed, Waited, HasAsked
  <1>c2. CASE inflight # Nobody
    <2>1. TypeOK'
      <3>1. pc' \in [Requests -> Places]
        BY <1>c2, Shapes DEF FreshInv, TypeOK, Places
      <3>2. held' \in [Requests -> Copies] /\ flight' \in [Requests -> Requests \cup {Nobody}]
        BY <1>c2, Hands, Nothing
      <3>3. heads' \in [ver : 0 .. MaxVersion, at : Time, exp : Nat]
        BY <1>c2, Bounds, CopyFields DEF FreshInv, TypeOK
      <3>4. asked' \in Time /\ renewed' \in 0 .. MaxRenewals /\ vain' \in Time \cup {Never}
        BY <1>c2, Hands
      <3> QED
        BY <1>c2, <3>1, <3>2, <3>3, <3>4 DEF FreshInv, TypeOK, Places
    <2>2. Others(r)
      BY <1>c2, Shapes DEF Others
    <2> QED
      BY <1>c2, <2>1, <2>2, Shapes, Bounds, Timely, Nothing, StepInTime
         DEF CopyOf, Busy, Committed, Waited, HasAsked
  <1> QED BY <1>c1, <1>c2

LEMMA UpstreamGetInv ==
    ASSUME FreshInv, NEW r \in Requests, UpstreamGet(r)
    PROVE  FreshInv'
  <1> USE DEF Step, bounds, local, UpstreamError, UpstreamGet, InVain
  <1>c1. CASE pc'[r] = "upload"
    <2>1. TypeOK'
      <3>1. pc' \in [Requests -> Places]
        BY <1>c1, Shapes DEF FreshInv, TypeOK, Places
      <3>2. held' \in [Requests -> Copies] /\ flight' \in [Requests -> Requests \cup {Nobody}]
        BY <1>c1, Hands, Nothing, Versioned
      <3>3. heads' \in [ver : 0 .. MaxVersion, at : Time, exp : Nat]
        BY <1>c1, Bounds, CopyFields DEF FreshInv, TypeOK
      <3>4. asked' \in Time /\ renewed' \in 0 .. MaxRenewals /\ vain' \in Time \cup {Never}
        BY <1>c1, Hands
      <3> QED
        BY <1>c1, <3>1, <3>2, <3>3, <3>4 DEF FreshInv, TypeOK, Places
    <2>2. Others(r)
      BY <1>c1, Shapes DEF Others
    <2> QED
      BY <1>c1, <2>1, <2>2, Shapes, Bounds, Timely, Nothing, AllowanceGrows, StepInTime, SMTT(20)
         DEF CopyOf, Busy, Committed, Waited, HasAsked
  <1>c2. CASE pc'[r] # "upload"
    <2>1. TypeOK'
      <3>1. pc' \in [Requests -> Places]
        BY <1>c2, Shapes DEF FreshInv, TypeOK, Places
      <3>2. held' \in [Requests -> Copies] /\ flight' \in [Requests -> Requests \cup {Nobody}]
        BY <1>c2, Hands, Nothing, Versioned
      <3>3. heads' \in [ver : 0 .. MaxVersion, at : Time, exp : Nat]
        BY <1>c2, Bounds, CopyFields DEF FreshInv, TypeOK
      <3>4. asked' \in Time /\ renewed' \in 0 .. MaxRenewals /\ vain' \in Time \cup {Never}
        BY <1>c2, Hands
      <3> QED
        BY <1>c2, <3>1, <3>2, <3>3, <3>4 DEF FreshInv, TypeOK, Places
    <2>2. Others(r)
      BY <1>c2, Shapes DEF Others
    <2> QED
      BY <1>c2, <2>1, <2>2, Shapes, Bounds, Timely, Nothing, AllowanceGrows, StepInTime
         DEF CopyOf, Busy, Committed, Waited, HasAsked
  <1> QED BY <1>c1, <1>c2

LEMMA UploadInv ==
    ASSUME FreshInv, NEW r \in Requests, Upload(r)
    PROVE  FreshInv'
  <1> USE DEF Step, bounds, local, Upload, InVain
  <1>0. CopyOf(held[r].ver, now) \in Copies /\ CopyOf(held[r].ver, now).at = now
    BY Hands, Copying, CopyFields
  <1>1. TypeOK'
    <2>1. pc' \in [Requests -> Places]
      BY Shapes DEF FreshInv, TypeOK, Places
    <2>2. held' \in [Requests -> Copies] /\ s3' \in Copies /\ vain' \in Time \cup {Never}
      BY <1>0, Hands, Nothing
    <2> QED BY <2>1, <2>2 DEF FreshInv, TypeOK, Places
  <1>2. Others(r)
    BY Shapes DEF Others
  <1>3. /\ s3' = s3 \/ s3'.at = now
        /\ held'[r] = held[r] \/ held'[r] = NoCopy
        /\ pc[r] = "upload" /\ pc'[r] \in {"stored", "leave"}
    BY <1>0, Shapes
  <1> QED
    BY <1>1, <1>2, <1>3, Shapes, Bounds, Timely, Nothing, StepInTime
       DEF Busy, Committed, Waited, HasAsked

LEMMA StoredInv ==
    ASSUME FreshInv, NEW r \in Requests, Stored(r)
    PROVE  FreshInv'
  <1> USE DEF Step, bounds, local, Stored
  <1>1. TypeOK'
    BY Numbers, Nothing, Copying, CopyFields DEF FreshInv, TypeOK
  <1>2. Others(r)
    BY Shapes DEF Others
  <1> QED
    BY <1>1, <1>2, Shapes, Bounds, Timely, Nothing, StepInTime
       DEF CopyOf, Busy, Committed, Waited, HasAsked

LEMMA PopulateFileInv ==
    ASSUME FreshInv, NEW r \in Requests, PopulateFile(r)
    PROVE  FreshInv'
  <1> USE DEF Step, bounds, local, PopulateFile
  <1>c1. CASE disk' = disk
    <2>1. TypeOK'
      BY <1>c1, Numbers, Nothing, Copying, CopyFields DEF FreshInv, TypeOK
    <2>2. Others(r)
      BY <1>c1, Shapes DEF Others
    <2> QED
      BY <1>c1, <2>1, <2>2, Shapes, Bounds, Timely, Nothing, StepInTime
         DEF CopyOf, Busy, Committed, Waited, HasAsked
  <1>c2. CASE disk' = CopyOf(held[r].ver, now)
    <2>1. TypeOK'
      BY <1>c2, Numbers, Nothing, Copying, CopyFields DEF FreshInv, TypeOK
    <2>2. Others(r)
      BY <1>c2, Shapes DEF Others
    <2> QED
      BY <1>c2, <2>1, <2>2, Shapes, Bounds, Timely, Nothing, StepInTime
         DEF CopyOf, Busy, Committed, Waited, HasAsked
  <1> QED BY <1>c1, <1>c2

LEMMA LeaderServesInv ==
    ASSUME FreshInv, NEW r \in Requests, LeaderServes(r)
    PROVE  FreshInv'
  <1> USE DEF Step, bounds, local, Remember, LeaderServes
  <1>1. TypeOK'
    BY Numbers, Nothing, Copying, CopyFields DEF FreshInv, TypeOK
  <1>2. Others(r)
    BY Shapes DEF Others
  <1> QED
    BY <1>1, <1>2, Shapes, Bounds, Timely, Nothing, StepInTime
       DEF CopyOf, Busy, Committed, Waited, HasAsked

LEMMA LeaveFlightInv ==
    ASSUME FreshInv, NEW r \in Requests, LeaveFlight(r)
    PROVE  FreshInv'
  <1> USE DEF LeaveFlight, bounds, local, Ended
  <1>0. /\ started'[r] = 0 /\ pc'[r] = "idle" /\ pop[r] = 0
        /\ \A q \in Requests \ {r} : started'[q] = started[q]
    BY Shapes, Timely
  <1>1. TypeOK'
    BY Nothing DEF FreshInv, TypeOK
  <1>2. Published'
    BY DEF FreshInv, Published
  <1>3. Clocks'
    BY <1>0, Bounds DEF FreshInv, Clocks, Busy, TypeOK
  <1>4. Ages'
    BY DEF FreshInv, Ages
  <1>5. Arrivals'
    <2>1. now <= asked + Lag
      BY Timely DEF HasAsked
    <2> SUFFICES ASSUME NEW q \in Requests
                 PROVE  /\ pc'[q] \in HasAsked => started'[q] <= asked
                        /\ Committed(q)' => started'[q] <= asked + Allowance(renewed) + TTL
      BY DEF Arrivals
    <2>2. CASE q # r /\ pc[q] = "wait" /\ flight[q] = r
      BY <1>0, <2>1, <2>2, Bounds DEF FreshInv, Clocks, HasAsked
    <2>3. CASE ~(q # r /\ pc[q] = "wait" /\ flight[q] = r)
      <3>1. CASE q = r
        BY <1>0, <3>1, Bounds DEF HasAsked
      <3>2. CASE q # r
        <4>1. pc'[q] = pc[q] /\ (Committed(q)' <=> Committed(q))
          BY <2>3, <3>2 DEF Committed, Waited
        <4> QED BY <1>0, <3>2, <4>1 DEF FreshInv, Arrivals
      <3> QED BY <3>1, <3>2
    <2> QED BY <2>2, <2>3
  <1> QED BY <1>1, <1>2, <1>3, <1>4, <1>5 DEF FreshInv

LEMMA TickInv ==
    ASSUME FreshInv, Tick
    PROVE  FreshInv'
  <1> USE Bounds DEF Tick, bounds, local
  <1>1. TypeOK'
    <2>1. now' \in Time
      BY Numbers DEF Time
    <2> QED BY <2>1 DEF FreshInv, TypeOK
  <1>2. Published'
    BY DEF FreshInv, Published
  <1>3. Clocks'
    BY DEF FreshInv, Clocks, Busy
  <1>4. Ages' /\ Arrivals'
    BY DEF FreshInv, Ages, Arrivals, Committed, Waited
  <1> QED BY <1>1, <1>2, <1>3, <1>4 DEF FreshInv

LEMMA PublishInv ==
    ASSUME FreshInv, Publish
    PROVE  FreshInv'
  <1> USE DEF Publish, bounds, local
  <1>1. TypeOK'
    BY DEF FreshInv, TypeOK
  <1>2. Published'
    <2>1. Current \in Int /\ Current + 1 \in Versions /\ now # NotYet
      BY CurrentIsLast, Numbers, Hands DEF Versions, Time, NotYet
    <2>2. \A u \in Versions : published[u] # NotYet <=> u <= Current
      BY CurrentIsLast
    <2>3. \A u \in Versions : published'[u] # NotYet <=> u <= Current + 1
      BY <2>1, <2>2 DEF FreshInv, TypeOK, Versions
    <2> QED BY <2>1, <2>3 DEF Published, NotYet
  <1>3. Clocks' /\ Ages' /\ Arrivals'
    BY DEF FreshInv, Clocks, Busy, Ages, Arrivals, Committed, Waited
  <1> QED BY <1>1, <1>2, <1>3 DEF FreshInv

LEMMA EvictInv ==
    ASSUME FreshInv, Evict
    PROVE  FreshInv'
  <1> USE Nothing, Bounds DEF Evict, bounds, local
  <1>1. TypeOK' /\ Published'
    BY DEF FreshInv, TypeOK, Published
  <1>2. Clocks' /\ Ages' /\ Arrivals'
    BY DEF FreshInv, Clocks, Busy, Ages, Arrivals, Committed, Waited
  <1> QED BY <1>1, <1>2 DEF FreshInv

(* The copies on the disk and in S3 outlive the process, and so do the     *)
(* times they carry; nothing else does.                                    *)
LEMMA RestartInv ==
    ASSUME FreshInv, Restart
    PROVE  FreshInv'
  <1> USE Nothing, Bounds DEF Restart, InVain, Fetching
  <1>1. TypeOK'
    <2>1. restarts' \in 0 .. MaxRestarts
      BY Numbers DEF FreshInv, TypeOK
    <2>2. vain' \in Time \cup {Never}
      BY Hands
    <2>3. 0 \in Time /\ 0 \in 0 .. MaxVersion
      BY Numbers DEF Time
    <2> QED BY <2>1, <2>2, <2>3 DEF FreshInv, TypeOK
  <1>2. Published'
    BY DEF FreshInv, Published
  <1>3. Clocks'
    <2>1. \A r \in Requests : held'[r].at = 0 /\ started'[r] = 0 /\ ~Busy(r)'
      BY DEF Busy
    <2> QED BY <2>1 DEF FreshInv, Clocks, Never
  <1>4. Ages'
    <2>1. \A r \in Requests : held'[r].at = 0
      OBVIOUS
    <2> QED BY <2>1 DEF FreshInv, Ages, Never
  <1>5. Arrivals'
    BY DEF Arrivals, Committed, Waited, HasAsked
  <1> QED BY <1>1, <1>2, <1>3, <1>4, <1>5 DEF FreshInv

LEMMA FreshInit ==
    ASSUME Init
    PROVE  FreshInv
  <1> USE Numbers, Nothing DEF Init
  <1>1. TypeOK
    <2>1. 0 \in Time /\ NotYet \in Int /\ 0 \in 0 .. MaxVersion
      BY DEF Time, NotYet
    <2>2. enabled \in Disks /\ 0 \in 0 .. MaxRenewals /\ 0 \in 0 .. MaxRestarts
      OBVIOUS
    <2>3. published \in [Versions -> Time \cup {NotYet}]
      BY <2>1
    <2> QED BY <2>1, <2>2, <2>3 DEF TypeOK
  <1>2. Published
    <2>1. 1 \in Versions /\ 0 # NotYet
      BY DEF Versions, NotYet
    <2> QED BY <2>1 DEF Published, Versions
  <1>3. Clocks
    BY DEF Clocks, Busy, Never
  <1>4. Ages
    <2>1. Allowance(renewed) \in Nat
      BY AllowanceGrows
    <2> QED BY <2>1 DEF Ages, Never
  <1>5. Arrivals
    BY DEF Arrivals, Committed, Waited, HasAsked
  <1> QED BY <1>1, <1>2, <1>3, <1>4, <1>5 DEF FreshInv

LEMMA FreshStep ==
    ASSUME FreshInv, [Next]_vars
    PROVE  FreshInv'
  <1>1. CASE UNCHANGED vars
    BY <1>1 DEF vars, local, bounds, FreshInv, TypeOK, Published, Clocks, Busy, Ages, Arrivals,
                Committed, Waited
  <1>2. ASSUME NEW r \in Requests, Handle(r)
        PROVE  FreshInv'
    BY <1>2, ArriveInv, DiskLookupInv, DiskExpiredInv, DiskServeInv, HeadCacheGetInv,
       DeleteExpiredInv, S3HeadInv, RememberS3HeadInv, CheckFreshInv, RevalidateInv,
       MarkValidatedInv, DropStaleInv, StreamS3Inv, PopulateInv, JoinInv, UpstreamGetInv,
       UploadInv, StoredInv, PopulateFileInv, LeaderServesInv, LeaveFlightInv DEF Handle
  <1> QED BY <1>1, <1>2, TickInv, PublishInv, EvictInv, RestartInv DEF Next

(* The types, the clocks and how old the copies may be hold together in    *)
(* every reachable state, whatever fails, expires, is evicted or restarts  *)
(* (handler.go:162-184, 305-350, 508-576, 673-742).                        *)
THEOREM FreshInvariance == Spec => []FreshInv
  BY FreshInit, FreshStep, PTL DEF Spec

(* Every variable keeps its type; upstream's versions appear in order, so  *)
(* that there always is a current one.                                     *)
THEOREM FreshTyped == Spec => []TypeOK
  <1>1. FreshInv => TypeOK
    BY DEF FreshInv
  <1> QED BY FreshInvariance, <1>1, PTL

(* Upstream was asked about every copy that is handed out no longer ago    *)
(* than the TTL and the renewals of the copy add up to, for any TTL and any*)
(* delay of the handlers (handler.go:162-184, 316-320, 344-348, 526-568).  *)
THEOREM AskedAsPromised == Spec => AskedInTime
  <1>1. ASSUME FreshInv, NEW r \in Requests, Answers(r)
        PROVE  now - asked <= Longest
    <2> USE <1>1, Bounds
    <2>1. Longest = Allowance(renewed) + TTL + Lag
      <3> DEFINE rest == renewed * TTL
                 late == renewed * Lag
      <3>1. rest \in Nat /\ late \in Nat
        OBVIOUS
      <3>2. (1 + renewed) * TTL = TTL + rest /\ (2 + renewed) * Lag = 2 * Lag + late
            /\ renewed * (TTL + Lag) = rest + late
        OBVIOUS
      <3> HIDE DEF rest, late
      <3> QED BY <3>1, <3>2 DEF Longest, Allowance
    <2>2. CASE pc[r] \in {"diskserve", "get"}
      <3>1. Busy(r) /\ Committed(r)
        BY <2>2 DEF Busy, Committed
      <3> QED BY <2>1, <3>1, Timely
    <2>3. CASE pc[r] = "lead"
      BY <2>1, <2>3, Timely DEF HasAsked
    <2> QED BY <1>1, <2>2, <2>3 DEF Answers
  <1>2. FreshInv /\ [Next]_vars
           => [\A r \in Requests : Answers(r) => now - asked <= Longest]_vars
    BY <1>1
  <1> QED BY FreshInvariance, <1>2, PTL DEF Spec, AskedInTime

-----------------------------------------------------------------------------
(* How long a copy is handed out after upstream has replaced it.           *)

(* Where the leader of the registered flight is.                           *)
Leading == {"upget", "upload", "stored", "populate", "lead", "leave"}

Flights ==
    \A r \in Requests :
        /\ inflight = r <=> pc[r] \in Leading
        /\ pc[r] = "wait" => flight[r] = inflight /\ inflight # Nobody

HasCopy == {"diskserve", "remember", "fresh", "reval", "mark", "stale", "get", "upload",
            "stored", "populate", "lead"}

(* S3 is the first to get a version, and never goes back to an older one:  *)
(* what the disk, the cached head and the handlers have came from there.   *)
InOrder ==
    /\ s3.ver # 0 => published[s3.ver] # NotYet
    /\ disk.ver <= s3.ver /\ heads.ver <= s3.ver
    /\ s3.ver = 0 => s3 = NoCopy
    /\ disk.ver = 0 => disk = NoCopy
    /\ heads.ver = 0 => heads = NoHead
    /\ \A r \in Requests :
        /\ pop[r] <= s3.ver
        /\ pc[r] \in HasCopy => held[r].ver # 0
        /\ pc[r] = "upload" => s3.ver <= held[r].ver /\ published[held[r].ver] # NotYet
        /\ pc[r] # "upload" => held[r].ver <= s3.ver

FlowInv == FreshInv /\ Flights /\ InOrder

(* Version v + 1 replaces the older ones at published[v + 1].  The leader  *)
(* that was answered before may upload an older one until Settled(v), and  *)
(* everything starts over when upstream is asked in vain: see Since.       *)
Settled(v) == Since(v) + Lag

(* Until then an older copy is as old as n renewals make it.               *)
Until(v, n) == Settled(v) + n * (TTL + Lag)
Trusted(v)  == Until(v, MaxRenewals)

(* By then S3 has the new version, if a handler found out early enough.    *)
Relied(v)   == Trusted(v) + TTL + 2 * Lag

(* Handlers that make sure that S3 gets a version newer than v.            *)
Fetches(r, v) ==
    \/ pc[r] \in {"stale", "join", "upget"}
    \/ pc[r] = "upload" /\ held[r].ver > v
Owes(r, v) == Fetches(r, v) \/ (pc[r] = "wait" /\ Fetches(flight[r], v))

(* No copy is trusted because of a time later than t, nor will be.         *)
Behind(v, t) ==
    /\ s3.at <= t /\ disk.at <= t /\ heads.at <= t /\ validated <= t
    /\ \A r \in Requests :
        /\ held[r].ver <= v => held[r].at <= t
        /\ Committed(r) => started[r] <= t + TTL

(* As long as S3 has an older version: no copy is trusted for long, and    *)
(* renewals go on only while a handler fetches the new version.  If that   *)
(* one is early, it is done before long; if not, it found no copy trusted. *)
Underway(v) == s3.ver <= v =>
    \/ \E r \in Requests : Owes(r, v) /\ started[r] <= Trusted(v) + TTL + Lag
    \/ Behind(v, Trusted(v)) /\ \E r \in Requests : Owes(r, v)
    \/ Behind(v, Until(v, renewed))

(* What is left of the older versions, also when S3 has the new one.       *)
Remnants(v) ==
    /\ disk.ver \in 1 .. v => disk.at <= Relied(v) + Lag
    /\ \A r \in Requests :
        /\ pop[r] \in 1 .. v => started[r] <= Relied(v)
        /\ pc[r] = "diskserve" /\ held[r].ver \in 1 .. v => started[r] <= Relied(v) + Lag + TTL
        /\ pc[r] \in {"upload", "stored", "populate", "lead"} /\ held[r].ver <= v
                => started[r] <= Since(v)
        /\ pc[r] \in {"mark", "leave"} /\ s3.ver <= v => started[r] <= Since(v)

Replaced == {v \in 1 .. MaxVersion - 1 : published[v + 1] # NotYet}

StaleInv == FlowInv /\ \A v \in Replaced : Underway(v) /\ Remnants(v)

-----------------------------------------------------------------------------
LEMMA Ver ==
    ASSUME FreshInv
    PROVE  /\ s3.ver \in Nat /\ disk.ver \in Nat /\ heads.ver \in Nat
           /\ \A q \in Requests : held[q].ver \in Nat /\ pop[q] \in Nat
           /\ NoCopy.ver = 0 /\ NoHead.ver = 0
  BY Numbers DEF FreshInv, TypeOK, Copies, NoCopy, NoHead

LEMMA Copied ==
    ASSUME NEW u, NEW t
    PROVE  CopyOf(u, t).ver = u /\ CopyOf(u, t).at = t
  BY DEF CopyOf

(* A step of r keeps the flights and the order of the versions if what r   *)
(* itself becomes is right: only the leader changes S3, and there is one.  *)
LEMMA FlowStep ==
    ASSUME FlowInv, FreshInv', NEW r \in Requests, Others(r), published' = published,
           \/ inflight' = inflight /\ (pc'[r] \in Leading <=> pc[r] \in Leading)
           \/ inflight = Nobody /\ inflight' = r /\ pc'[r] \in Leading,
           pc'[r] = "wait" => flight'[r] = inflight' /\ inflight' # Nobody,
           s3' = s3 \/ (pc[r] = "upload" /\ s3'.ver = held[r].ver /\ pc'[r] # "upload"),
           disk'.ver <= s3'.ver, disk'.ver = 0 => disk' = NoCopy,
           heads'.ver <= s3'.ver, heads'.ver = 0 => heads' = NoHead,
           pop'[r] <= s3'.ver,
           pc'[r] \in HasCopy => held'[r].ver # 0,
           pc'[r] = "upload" => s3'.ver <= held'[r].ver /\ published[held'[r].ver] # NotYet,
           pc'[r] # "upload" => held'[r].ver <= s3'.ver
    PROVE  FlowInv'
  <1> USE Ver
  <1>0. /\ s3'.ver \in Nat
        /\ \A q \in Requests : held'[q].ver \in Nat /\ pop'[q] \in Nat
    BY Numbers DEF FreshInv, TypeOK, Copies
  <1>1. Flights'
    <2> SUFFICES ASSUME NEW q \in Requests
                 PROVE  /\ inflight' = q <=> pc'[q] \in Leading
                        /\ pc'[q] = "wait" => flight'[q] = inflight' /\ inflight' # Nobody
      BY DEF Flights
    <2>1. CASE q = r
      BY <2>1, FreshnessAssumption DEF FlowInv, Flights
    <2>2. CASE q # r
      BY <2>2, FreshnessAssumption DEF FlowInv, Flights, Others
    <2> QED BY <2>1, <2>2
  <1>2. s3.ver <= s3'.ver
    BY DEF FlowInv, InOrder
  <1>3. InOrder'
    <2>1. s3'.ver # 0 => published'[s3'.ver] # NotYet
      BY DEF FlowInv, InOrder
    <2>2. s3'.ver = 0 => s3' = NoCopy
      BY <1>2 DEF FlowInv, InOrder, HasCopy
    <2>3. ASSUME NEW q \in Requests
          PROVE  /\ pop'[q] <= s3'.ver
                 /\ pc'[q] \in HasCopy => held'[q].ver # 0
                 /\ pc'[q] = "upload" => s3'.ver <= held'[q].ver /\ published'[held'[q].ver] # NotYet
                 /\ pc'[q] # "upload" => held'[q].ver <= s3'.ver
      <3>1. CASE q = r
        BY <3>1
      <3>2. CASE q # r
        <4>1. pc[q] = "upload" => s3' = s3
          BY <3>2 DEF FlowInv, Flights, Leading
        <4>2. pc'[q] = pc[q] /\ held'[q] = held[q] /\ pop'[q] = pop[q]
          BY <3>2 DEF Others
        <4> QED BY <1>0, <1>2, <4>1, <4>2 DEF FlowInv, InOrder
      <3> QED BY <3>1, <3>2
    <2> QED BY <2>1, <2>2, <2>3 DEF InOrder, NotYet
  <1> QED BY <1>1, <1>3 DEF FlowInv

LEMMA Flow ==
    ASSUME FlowInv, NEW r \in Requests
    PROVE  /\ s3.ver # 0 => published[s3.ver] # NotYet
           /\ disk.ver <= s3.ver /\ heads.ver <= s3.ver
           /\ s3.ver = 0 => s3 = NoCopy
           /\ disk.ver = 0 => disk = NoCopy
           /\ heads.ver = 0 => heads = NoHead
           /\ pop[r] <= s3.ver
           /\ pc[r] \in HasCopy => held[r].ver # 0
           /\ pc[r] = "upload" => s3.ver <= held[r].ver /\ published[held[r].ver] # NotYet
           /\ pc[r] # "upload" => held[r].ver <= s3.ver
           /\ inflight = r <=> pc[r] \in Leading
           /\ pc[r] = "wait" => flight[r] = inflight /\ inflight # Nobody
           /\ r # Nobody
  BY FreshnessAssumption DEF FlowInv, Flights, InOrder

LEMMA ArriveFlow ==
    ASSUME FlowInv, NEW r \in Requests, Arrive(r)
    PROVE  FlowInv'
  <1> USE DEF Step, bounds, local, Arrive
  <1>1. FreshInv' /\ FreshInv
    BY ArriveInv DEF FlowInv
  <1>2. Others(r)
    BY <1>1, Shapes DEF Others
  <1> QED
    BY <1>1, <1>2, Shapes, Ver, Copied, Flow, FlowStep DEF Leading, HasCopy

LEMMA DiskLookupFlow ==
    ASSUME FlowInv, NEW r \in Requests, DiskLookup(r)
    PROVE  FlowInv'
  <1> USE DEF Step, bounds, local, DiskLookup
  <1>1. FreshInv' /\ FreshInv
    BY DiskLookupInv DEF FlowInv
  <1>2. Others(r)
    BY <1>1, Shapes DEF Others
  <1> QED
    BY <1>1, <1>2, Shapes, Ver, Copied, Flow, FlowStep DEF Leading, HasCopy

LEMMA DiskExpiredFlow ==
    ASSUME FlowInv, NEW r \in Requests, DiskExpired(r)
    PROVE  FlowInv'
  <1> USE DEF Step, bounds, local, DiskExpired
  <1>1. FreshInv' /\ FreshInv
    BY DiskExpiredInv DEF FlowInv
  <1>2. Others(r)
    BY <1>1, Shapes DEF Others
  <1> QED
    BY <1>1, <1>2, Shapes, Ver, Copied, Flow, FlowStep DEF Leading, HasCopy

LEMMA DiskServeFlow ==
    ASSUME FlowInv, NEW r \in Requests, DiskServe(r)
    PROVE  FlowInv'
  <1> USE DEF Step, bounds, local, Done, Remember, DiskServe, Ended
  <1>1. FreshInv' /\ FreshInv
    BY DiskServeInv DEF FlowInv
  <1>2. Others(r)
    BY <1>1, Shapes DEF Others
  <1> QED
    BY <1>1, <1>2, Shapes, Ver, Copied, Flow, FlowStep DEF Leading, HasCopy

LEMMA HeadCacheGetFlow ==
    ASSUME FlowInv, NEW r \in Requests, HeadCacheGet(r)
    PROVE  FlowInv'
  <1> USE DEF Step, bounds, local, GetHead, HeadCacheGet
  <1>1. FreshInv' /\ FreshInv
    BY HeadCacheGetInv DEF FlowInv
  <1>2. Others(r)
    BY <1>1, Shapes DEF Others
  <1> QED
    BY <1>1, <1>2, Shapes, Ver, Copied, Flow, FlowStep DEF Leading, HasCopy

LEMMA DeleteExpiredFlow ==
    ASSUME FlowInv, NEW r \in Requests, DeleteExpired(r)
    PROVE  FlowInv'
  <1> USE DEF Step, bounds, local, DeleteExpired
  <1>1. FreshInv' /\ FreshInv
    BY DeleteExpiredInv DEF FlowInv
  <1>2. Others(r)
    BY <1>1, Shapes DEF Others
  <1> QED
    BY <1>1, <1>2, Shapes, Ver, Copied, Flow, FlowStep DEF Leading, HasCopy

LEMMA S3HeadFlow ==
    ASSUME FlowInv, NEW r \in Requests, S3Head(r)
    PROVE  FlowInv'
  <1> USE DEF Step, bounds, local, Done, S3Head, Ended
  <1>1. FreshInv' /\ FreshInv
    BY S3HeadInv DEF FlowInv
  <1>2. Others(r)
    BY <1>1, Shapes DEF Others
  <1> QED
    BY <1>1, <1>2, Shapes, Ver, Copied, Flow, FlowStep DEF Leading, HasCopy

LEMMA RememberS3HeadFlow ==
    ASSUME FlowInv, NEW r \in Requests, RememberS3Head(r)
    PROVE  FlowInv'
  <1> USE DEF Step, bounds, local, Remember, RememberS3Head
  <1>1. FreshInv' /\ FreshInv
    BY RememberS3HeadInv DEF FlowInv
  <1>2. Others(r)
    BY <1>1, Shapes DEF Others
  <1> QED
    BY <1>1, <1>2, Shapes, Ver, Copied, Flow, FlowStep DEF Leading, HasCopy

LEMMA CheckFreshFlow ==
    ASSUME FlowInv, NEW r \in Requests, CheckFresh(r)
    PROVE  FlowInv'
  <1> USE DEF Step, bounds, local, CheckFresh
  <1>1. FreshInv' /\ FreshInv
    BY CheckFreshInv DEF FlowInv
  <1>2. Others(r)
    BY <1>1, Shapes DEF Others
  <1> QED
    BY <1>1, <1>2, Shapes, Ver, Copied, Flow, FlowStep DEF Leading, HasCopy

LEMMA RevalidateFlow ==
    ASSUME FlowInv, NEW r \in Requests, Revalidate(r)
    PROVE  FlowInv'
  <1> USE DEF Step, bounds, local, UpstreamError, Revalidate, InVain
  <1>1. FreshInv' /\ FreshInv
    BY RevalidateInv DEF FlowInv
  <1>2. Others(r)
    BY <1>1, Shapes DEF Others
  <1> QED
    BY <1>1, <1>2, Shapes, Ver, Copied, Flow, FlowStep DEF Leading, HasCopy

LEMMA MarkValidatedFlow ==
    ASSUME FlowInv, NEW r \in Requests, MarkValidated(r)
    PROVE  FlowInv'
  <1> USE DEF Step, bounds, local, MarkValidated
  <1>1. FreshInv' /\ FreshInv
    BY MarkValidatedInv DEF FlowInv
  <1>2. Others(r)
    BY <1>1, Shapes DEF Others
  <1> QED
    BY <1>1, <1>2, Shapes, Ver, Copied, Flow, FlowStep DEF Leading, HasCopy

LEMMA DropStaleFlow ==
    ASSUME FlowInv, NEW r \in Requests, DropStale(r)
    PROVE  FlowInv'
  <1> USE DEF Step, bounds, local, DropStale
  <1>1. FreshInv' /\ FreshInv
    BY DropStaleInv DEF FlowInv
  <1>2. Others(r)
    BY <1>1, Shapes DEF Others
  <1> QED
    BY <1>1, <1>2, Shapes, Ver, Copied, Flow, FlowStep DEF Leading, HasCopy

LEMMA StreamS3Flow ==
    ASSUME FlowInv, NEW r \in Requests, StreamS3(r)
    PROVE  FlowInv'
  <1> USE DEF Step, bounds, local, Done, StreamS3, Ended
  <1>1. FreshInv' /\ FreshInv
    BY StreamS3Inv DEF FlowInv
  <1>2. Others(r)
    BY <1>1, Shapes DEF Others
  <1> QED
    BY <1>1, <1>2, Shapes, Ver, Copied, Flow, FlowStep DEF Leading, HasCopy

LEMMA PopulateFlow ==
    ASSUME FlowInv, NEW r \in Requests, Populate(r)
    PROVE  FlowInv'
  <1> USE DEF Step, bounds, local, Populate, Ended
  <1>1. FreshInv' /\ FreshInv
    BY PopulateInv DEF FlowInv
  <1>2. Others(r)
    BY <1>1, Shapes DEF Others
  <1> QED
    BY <1>1, <1>2, Shapes, Ver, Copied, Flow, FlowStep DEF Leading, HasCopy

LEMMA JoinFlow ==
    ASSUME FlowInv, NEW r \in Requests, Join(r)
    PROVE  FlowInv'
  <1> USE DEF Step, bounds, local, Join
  <1>1. FreshInv' /\ FreshInv
    BY JoinInv DEF FlowInv
  <1>2. Others(r)
    BY <1>1, Shapes DEF Others
  <1> QED
    BY <1>1, <1>2, Shapes, Ver, Copied, Flow, FlowStep DEF Leading, HasCopy

LEMMA UpstreamGetFlow ==
    ASSUME FlowInv, NEW r \in Requests, UpstreamGet(r)
    PROVE  FlowInv'
  <1> USE DEF Step, bounds, local, UpstreamError, UpstreamGet, InVain
  <1>1. FreshInv' /\ FreshInv
    BY UpstreamGetInv DEF FlowInv
  <1>2. Others(r)
    BY <1>1, Shapes DEF Others
  <1>3. Current \in Nat \ {0} /\ published[Current] # NotYet /\ s3.ver <= Current
    <2>1. s3.ver \in 0 .. MaxVersion /\ (s3.ver # 0 => published[s3.ver] # NotYet)
      BY <1>1, Flow, CopyFields DEF FreshInv, TypeOK
    <2> QED BY <1>1, <2>1, CurrentIsLast, Numbers DEF Versions
  <1>4. CASE pc'[r] = "upload"
    BY <1>1, <1>2, <1>3, <1>4, Shapes, Ver, Copied, Flow, FlowStep DEF Leading, HasCopy
  <1>5. CASE pc'[r] # "upload"
    BY <1>1, <1>2, <1>5, Shapes, Ver, Copied, Flow, FlowStep DEF Leading, HasCopy
  <1> QED BY <1>4, <1>5

LEMMA UploadFlow ==
    ASSUME FlowInv, NEW r \in Requests, Upload(r)
    PROVE  FlowInv'
  <1> USE DEF Step, bounds, local, Upload, InVain
  <1>1. FreshInv' /\ FreshInv
    BY UploadInv DEF FlowInv
  <1>2. Others(r)
    BY <1>1, Shapes DEF Others
  <1> QED
    BY <1>1, <1>2, Shapes, Ver, Copied, Flow, FlowStep DEF Leading, HasCopy

LEMMA StoredFlow ==
    ASSUME FlowInv, NEW r \in Requests, Stored(r)
    PROVE  FlowInv'
  <1> USE DEF Step, bounds, local, Stored
  <1>1. FreshInv' /\ FreshInv
    BY StoredInv DEF FlowInv
  <1>2. Others(r)
    BY <1>1, Shapes DEF Others
  <1> QED
    BY <1>1, <1>2, Shapes, Ver, Copied, Flow, FlowStep DEF Leading, HasCopy

LEMMA PopulateFileFlow ==
    ASSUME FlowInv, NEW r \in Requests, PopulateFile(r)
    PROVE  FlowInv'
  <1> USE DEF Step, bounds, local, PopulateFile
  <1>1. FreshInv' /\ FreshInv
    BY PopulateFileInv DEF FlowInv
  <1>2. Others(r)
    BY <1>1, Shapes DEF Others
  <1> QED
    BY <1>1, <1>2, Shapes, Ver, Copied, Flow, FlowStep DEF Leading, HasCopy

LEMMA LeaderServesFlow ==
    ASSUME FlowInv, NEW r \in Requests, LeaderServes(r)
    PROVE  FlowInv'
  <1> USE DEF Step, bounds, local, Remember, LeaderServes
  <1>1. FreshInv' /\ FreshInv
    BY LeaderServesInv DEF FlowInv
  <1>2. Others(r)
    BY <1>1, Shapes DEF Others
  <1> QED
    BY <1>1, <1>2, Shapes, Ver, Copied, Flow, FlowStep DEF Leading, HasCopy

LEMMA LeaveFlightFlow ==
    ASSUME FlowInv, NEW r \in Requests, LeaveFlight(r)
    PROVE  FlowInv'
  <1> USE DEF LeaveFlight, bounds, local, Ended
  <1>1. FreshInv' /\ FreshInv /\ inflight = r
    BY LeaveFlightInv DEF FlowInv, Flights, Leading
  <1>2. ASSUME NEW q \in Requests
        PROVE  /\ pc'[q] = IF q = r THEN "idle"
                           ELSE IF pc[q] = "wait" /\ flight[q] = r THEN "disk" ELSE pc[q]
               /\ pc'[q] # "wait" /\ pc'[q] \notin Leading
    BY <1>1, Shapes, Flow DEF Leading
  <1>3. Flights'
    BY <1>2, FreshnessAssumption DEF Flights
  <1>4. InOrder'
    <2>1. ASSUME NEW q \in Requests
          PROVE  /\ pop[q] <= s3.ver
                 /\ pc'[q] \in HasCopy => held[q].ver # 0
                 /\ pc'[q] # "upload" /\ held[q].ver <= s3.ver
      BY <1>1, <1>2, Flow DEF HasCopy, Leading
    <2> QED BY <2>1, Flow DEF InOrder, FlowInv
  <1> QED BY <1>1, <1>3, <1>4 DEF FlowInv

LEMMA TickFlow ==
    ASSUME FlowInv, Tick
    PROVE  FlowInv'
  BY TickInv DEF FlowInv, Flights, InOrder, NotYet, Tick, bounds, local

LEMMA PublishFlow ==
    ASSUME FlowInv, Publish
    PROVE  FlowInv'
  <1> USE DEF Publish, bounds, local
  <1>1. FreshInv' /\ FreshInv /\ now # NotYet /\ published \in [Versions -> Time \cup {NotYet}]
    BY PublishInv, Numbers DEF FlowInv, FreshInv, TypeOK, Time, NotYet
  <1>2. \A u \in Nat : published[u] # NotYet => published'[u] # NotYet
    BY <1>1, CurrentIsLast
  <1>3. InOrder'
    BY <1>1, <1>2, Ver DEF InOrder, FlowInv, NotYet
  <1> QED BY <1>1, <1>3 DEF FlowInv, Flights

LEMMA EvictFlow ==
    ASSUME FlowInv, Evict
    PROVE  FlowInv'
  <1> USE DEF Evict, bounds, local
  <1>1. FreshInv' /\ FreshInv
    BY EvictInv DEF FlowInv
  <1> QED BY <1>1, Ver DEF FlowInv, Flights, InOrder, NotYet

LEMMA RestartFlow ==
    ASSUME FlowInv, Restart
    PROVE  FlowInv'
  <1> USE DEF Restart, InVain, Fetching
  <1>1. FreshInv' /\ FreshInv
    BY RestartInv DEF FlowInv
  <1>2. Flights'
    BY FreshnessAssumption DEF Flights, Leading
  <1>3. InOrder'
    BY <1>1, Ver DEF FlowInv, InOrder, HasCopy, NotYet
  <1> QED BY <1>1, <1>2, <1>3 DEF FlowInv

LEMMA FlowInit ==
    ASSUME Init
    PROVE  FlowInv
  <1> USE DEF Init
  <1>1. FreshInv
    BY FreshInit
  <1>2. Flights
    BY FreshnessAssumption DEF Flights, Leading
  <1>3. InOrder
    BY <1>1, Ver DEF InOrder, HasCopy
  <1> QED BY <1>1, <1>2, <1>3 DEF FlowInv

LEMMA FlowNext ==
    ASSUME FlowInv, [Next]_vars
    PROVE  FlowInv'
  <1>1. CASE UNCHANGED vars
    <2>1. FreshInv'
      BY <1>1, FreshStep DEF FlowInv
    <2> QED BY <1>1, <2>1 DEF vars, local, bounds, FlowInv, Flights, InOrder, NotYet
  <1>2. ASSUME NEW r \in Requests, Handle(r)
        PROVE  FlowInv'
    BY <1>2, ArriveFlow, DiskLookupFlow, DiskExpiredFlow, DiskServeFlow, HeadCacheGetFlow,
       DeleteExpiredFlow, S3HeadFlow, RememberS3HeadFlow, CheckFreshFlow, RevalidateFlow,
       MarkValidatedFlow, DropStaleFlow, StreamS3Flow, PopulateFlow, JoinFlow, UpstreamGetFlow,
       UploadFlow, StoredFlow, PopulateFileFlow, LeaderServesFlow, LeaveFlightFlow DEF Handle
  <1> QED BY <1>1, <1>2, TickFlow, PublishFlow, EvictFlow, RestartFlow DEF Next

-----------------------------------------------------------------------------
LEMMA UntilGrows ==
    ASSUME FreshInv, NEW v \in Replaced
    PROVE  /\ v \in Nat \ {0} /\ v + 1 \in Versions
           /\ Since(v) \in Nat /\ vain <= Since(v) /\ published[v + 1] <= Since(v)
           /\ published[v + 1] \in Nat /\ Settled(v) = Since(v) + Lag /\ Settled(v) \in Nat
           /\ Trusted(v) \in Nat /\ Relied(v) \in Nat
           /\ \A n \in 0 .. MaxRenewals :
                /\ Until(v, n) \in Nat /\ Settled(v) <= Until(v, n) /\ Until(v, n) <= Trusted(v)
                /\ Until(v, n + 1) = Until(v, n) + TTL + Lag
  <1> USE Numbers
  <1> DEFINE step == TTL + Lag
  <1>1. step \in Nat
    OBVIOUS
  <1>2. v \in Nat \ {0} /\ v + 1 \in Versions
    BY DEF Replaced, Versions
  <1>3. /\ Since(v) \in Nat /\ vain <= Since(v) /\ published[v + 1] <= Since(v)
        /\ published[v + 1] \in Nat /\ Settled(v) = Since(v) + Lag /\ Settled(v) \in Nat
    <2>1. published[v + 1] \in Nat /\ ReplacedAt(v) = published[v + 1]
      BY <1>2 DEF FreshInv, TypeOK, Replaced, Time, ReplacedAt
    <2>2. vain \in Int
      BY Bounds
    <2> QED BY <2>1, <2>2 DEF Settled, Since
  <1> HIDE DEF step
  <1>4. ASSUME NEW n \in 0 .. MaxRenewals
        PROVE  /\ n * step \in Nat /\ n * step <= MaxRenewals * step
               /\ (n + 1) * step = n * step + step
    <2> DEFINE rest == MaxRenewals - n
    <2>1. rest \in Nat /\ n \in Nat /\ MaxRenewals = n + rest
      OBVIOUS
    <2> HIDE DEF rest
    <2>2. rest * step \in Nat /\ n * step \in Nat /\ (n + rest) * step = n * step + rest * step
          /\ (n + 1) * step = n * step + step
      BY <1>1, <2>1
    <2> QED BY <2>1, <2>2
  <1>5. MaxRenewals * step \in Nat
    BY <1>1
  <1>6. Trusted(v) \in Nat /\ Relied(v) \in Nat
    BY <1>1, <1>3, <1>5 DEF Trusted, Relied, Until, step
  <1>7. ASSUME NEW n \in 0 .. MaxRenewals
        PROVE  /\ Until(v, n) \in Nat /\ Settled(v) <= Until(v, n) /\ Until(v, n) <= Trusted(v)
               /\ Until(v, n + 1) = Until(v, n) + TTL + Lag
    BY <1>1, <1>3, <1>4, <1>5 DEF Trusted, Until, step
  <1> QED BY <1>2, <1>3, <1>6, <1>7

LEMMA NewIsCurrent ==
    ASSUME FreshInv, NEW v \in Replaced
    PROVE  Current \in Nat /\ v < Current
  BY UntilGrows, CurrentIsLast DEF Replaced, Versions

LEMMA Whens ==
    ASSUME FreshInv
    PROVE  /\ now \in Nat /\ s3.at \in Nat /\ disk.at \in Nat /\ heads.at \in Nat
           /\ validated \in Int /\ renewed \in 0 .. MaxRenewals
           /\ s3.ver \in Nat /\ disk.ver \in Nat /\ heads.ver \in Nat
           /\ TTL \in Nat /\ Lag \in Nat
           /\ \A q \in Requests : /\ held[q].at \in Nat /\ started[q] \in Nat
                                  /\ held[q].ver \in Nat /\ pop[q] \in Nat
                                  /\ started[q] <= now /\ (Busy(q) => now <= started[q] + Lag)
           /\ s3.at <= now /\ disk.at <= now /\ heads.at <= now /\ validated <= now
           /\ \A q \in Requests : held[q].at <= now
  BY Bounds, Ver, Hands DEF FreshInv, Clocks

(* Not long after the publication nothing can be trusted for long.         *)
LEMMA Early ==
    ASSUME FreshInv, NEW v \in Replaced, now <= Settled(v)
    PROVE  Underway(v)
  BY Whens, UntilGrows DEF Underway, Behind

(* Later, no handler has an older version from upstream in its hands.      *)
LEMMA Late ==
    ASSUME FlowInv, NEW v \in Replaced, Remnants(v), s3.ver <= v, now > Settled(v),
           NEW r \in Requests
    PROVE  /\ pc[r] \notin {"stored", "populate", "lead", "mark", "leave"}
           /\ pc[r] = "upload" => held[r].ver > v
  <1> USE DEF FlowInv
  <1>1. pc[r] \in {"upload", "stored", "populate", "lead", "mark", "leave"} => now <= started[r] + Lag
    BY Whens DEF Busy
  <1>2. pc[r] \in {"stored", "populate", "lead"} => held[r].ver <= v
    BY Flow, Whens, UntilGrows
  <1> QED BY <1>1, <1>2, Whens, UntilGrows DEF Remnants, Settled, Since, ReplacedAt

(* While S3 has an older version, no copy is handed out very late.         *)
LEMMA Soon ==
    ASSUME FlowInv, NEW v \in Replaced, Underway(v), s3.ver <= v, NEW r \in Requests, Committed(r)
    PROVE  started[r] <= Relied(v)
  <1> USE Whens, UntilGrows DEF FlowInv
  <1>1. ASSUME NEW q \in Requests, Owes(q, v), started[q] <= Trusted(v) + TTL + Lag
        PROVE  started[r] <= Relied(v)
    <2>1. Busy(q)
      BY <1>1 DEF Owes, Fetches, Busy
    <2> QED BY <1>1, <2>1 DEF Relied
  <1>2. CASE Behind(v, Trusted(v))
    BY <1>2 DEF Behind, Relied
  <1>3. CASE Behind(v, Until(v, renewed))
    BY <1>3 DEF Behind, Relied
  <1> QED BY <1>1, <1>2, <1>3 DEF Underway

-----------------------------------------------------------------------------
(* What a step of r owes to Behind.                                        *)
Kept(r, v, t) ==
    /\ s3'.at <= t /\ disk'.at <= t /\ heads'.at <= t /\ validated' <= t
    /\ held'[r].ver <= v => held'[r].at <= t
    /\ Committed(r)' => started'[r] <= t + TTL

LEMMA BehindStep ==
    ASSUME NEW r \in Requests, Others(r), NEW v, NEW t, Behind(v, t), Kept(r, v, t)
    PROVE  /\ s3'.at <= t /\ disk'.at <= t /\ heads'.at <= t /\ validated' <= t
           /\ \A q \in Requests :
                /\ held'[q].ver <= v => held'[q].at <= t
                /\ Committed(q)' => started'[q] <= t + TTL
  <1> SUFFICES ASSUME NEW q \in Requests
               PROVE  /\ held'[q].ver <= v => held'[q].at <= t
                      /\ Committed(q)' => started'[q] <= t + TTL
    BY DEF Kept
  <1>1. CASE q = r
    BY <1>1 DEF Kept
  <1>2. CASE q # r
    <2>1. /\ held'[q] = held[q] /\ started'[q] = started[q]
          /\ Committed(q)' <=> Committed(q)
      BY <1>2 DEF Others, Committed, Waited
    <2> QED BY <2>1 DEF Behind
  <1> QED BY <1>1, <1>2

(* Who fetches the new version goes on until S3 has it.                    *)
LEMMA OwesStep ==
    ASSUME FlowInv, NEW r \in Requests, Others(r), NEW v,
           Owes(r, v) => Owes(r, v)' /\ started'[r] = started[r],
           Fetches(r, v) /\ pc[r] \in Leading => Fetches(r, v)',
           NEW q \in Requests, Owes(q, v)
    PROVE  Owes(q, v)' /\ started'[q] = started[q]
  <1>1. CASE q = r
    BY <1>1
  <1>2. CASE q # r
    <2>1. /\ pc'[q] = pc[q] /\ flight'[q] = flight[q] /\ started'[q] = started[q]
          /\ Fetches(q, v)' <=> Fetches(q, v)
      BY <1>2 DEF Others, Fetches
    <2>2. ASSUME pc[q] = "wait", Fetches(flight[q], v)
          PROVE  Fetches(flight[q], v)'
      <3> DEFINE f == flight[q]
      <3>1. f = inflight /\ f \in Requests /\ pc[f] \in Leading
        BY <2>2, Hands, Flow DEF FlowInv, Flights
      <3>2. CASE f = r
        BY <2>1, <2>2, <3>1, <3>2 DEF Fetches
      <3>3. CASE f # r
        BY <2>1, <2>2, <3>1, <3>3 DEF Fetches, Others
      <3> QED BY <3>2, <3>3
    <2> QED BY <2>1, <2>2 DEF Owes
  <1> QED BY <1>1, <1>2

LEMMA UnderwayStep ==
    ASSUME FlowInv, FlowInv', NEW r \in Requests, Others(r), NEW v \in Replaced,
           published' = published, vain' = vain, Underway(v), s3.ver <= s3'.ver,
           \A t \in Int : t >= Settled(v) /\ Behind(v, t) => Kept(r, v, t),
           Owes(r, v) => Owes(r, v)' /\ started'[r] = started[r],
           Fetches(r, v) /\ pc[r] \in Leading => Fetches(r, v)',
           renewed' = renewed \/ Owes(r, v)'
    PROVE  Underway(v)'
  <1> SUFFICES ASSUME s3'.ver <= v
               PROVE  Underway(v)'
    BY DEF Underway
  <1>0. s3.ver <= v
    <2>1. s3'.ver \in Nat
      BY DEF FlowInv, FreshInv, TypeOK, Copies
    <2> QED BY <2>1, Whens, UntilGrows DEF FlowInv
  <1>1. /\ Trusted(v)' = Trusted(v) /\ Until(v, renewed)' = Until(v, renewed')
        /\ Until(v, renewed) \in Int /\ Until(v, renewed) <= Trusted(v)
        /\ Settled(v) <= Until(v, renewed) /\ Settled(v) <= Trusted(v)
        /\ Trusted(v) \in Int
    BY UntilGrows, Whens DEF FlowInv, Trusted, Until, Settled, Since, ReplacedAt
  <1>2. CASE \E q \in Requests : Owes(q, v) /\ started[q] <= Trusted(v) + TTL + Lag
    BY <1>1, <1>2, OwesStep DEF Underway
  <1>3. CASE Behind(v, Trusted(v)) /\ \E q \in Requests : Owes(q, v)
    <2>1. Behind(v, Trusted(v))'
      BY <1>1, <1>3, BehindStep DEF Behind
    <2> QED BY <1>3, <2>1, OwesStep DEF Underway
  <1>4. CASE Behind(v, Until(v, renewed))
    <2>1. Kept(r, v, Until(v, renewed))
      BY <1>1, <1>4
    <2>2. CASE renewed' = renewed
      <3>1. Behind(v, Until(v, renewed))'
        BY <1>1, <1>4, <2>1, <2>2, BehindStep DEF Behind
      <3> QED BY <3>1 DEF Underway
    <2>3. CASE Owes(r, v)'
      <3>1. Behind(v, Trusted(v))
        BY <1>1, <1>4, Whens, Numbers DEF Behind, FlowInv
      <3>2. Behind(v, Trusted(v))'
        BY <1>1, <3>1, BehindStep DEF Behind
      <3> QED BY <2>3, <3>2 DEF Underway
    <2> QED BY <2>2, <2>3
  <1> QED BY <1>0, <1>2, <1>3, <1>4 DEF Underway

LEMMA RemnantsStep ==
    ASSUME FlowInv, FlowInv', NEW r \in Requests, Others(r), NEW v \in Replaced,
           published' = published, vain' = vain, Remnants(v), s3.ver <= s3'.ver,
           disk'.ver \in 1 .. v => disk'.at <= Relied(v) + Lag,
           pop'[r] \in 1 .. v => started'[r] <= Relied(v),
           pc'[r] = "diskserve" /\ held'[r].ver \in 1 .. v => started'[r] <= Relied(v) + Lag + TTL,
           pc'[r] \in {"upload", "stored", "populate", "lead"} /\ held'[r].ver <= v
               => started'[r] <= Since(v),
           pc'[r] \in {"mark", "leave"} /\ s3'.ver <= v => started'[r] <= Since(v)
    PROVE  Remnants(v)'
  <1>0. s3'.ver \in Nat /\ s3.ver \in Nat /\ v \in Nat /\ Relied(v)' = Relied(v)
        /\ Since(v)' = Since(v)
    BY Whens, UntilGrows
       DEF FlowInv, FreshInv, TypeOK, Copies, Relied, Trusted, Until, Settled, Since, ReplacedAt
  <1>1. ASSUME NEW q \in Requests
        PROVE  /\ pop'[q] \in 1 .. v => started'[q] <= Relied(v)
               /\ pc'[q] = "diskserve" /\ held'[q].ver \in 1 .. v
                     => started'[q] <= Relied(v) + Lag + TTL
               /\ pc'[q] \in {"upload", "stored", "populate", "lead"} /\ held'[q].ver <= v
                     => started'[q] <= Since(v)
               /\ pc'[q] \in {"mark", "leave"} /\ s3'.ver <= v => started'[q] <= Since(v)
    <2>1. CASE q = r
      BY <2>1
    <2>2. CASE q # r
      <3>1. pc'[q] = pc[q] /\ held'[q] = held[q] /\ pop'[q] = pop[q] /\ started'[q] = started[q]
        BY <2>2 DEF Others
      <3>2. s3'.ver <= v => s3.ver <= v
        BY <1>0
      <3> QED BY <3>1, <3>2 DEF Remnants
    <2> QED BY <2>1, <2>2
  <1> QED BY <1>0, <1>1 DEF Remnants

LEMMA EarlyNext == FreshInv' => (\A v \in Replaced : now <= Settled(v) => Underway(v))'
  <1>1. FreshInv => \A v \in Replaced : now <= Settled(v) => Underway(v)
    BY Early
  <1> QED BY <1>1, PTL

(* A question asked in vain is as good as a publication.                   *)
LEMMA Anew ==
    ASSUME FreshInv, NEW v \in Replaced, vain = now
    PROVE  Underway(v) /\ Remnants(v)
  <1> USE Whens, UntilGrows
  <1>1. now <= Since(v) /\ Since(v) <= Settled(v) /\ Settled(v) <= Relied(v)
    BY DEF Relied, Trusted
  <1>2. Underway(v)
    BY <1>1, Early
  <1>3. Remnants(v)
    BY <1>1 DEF Remnants
  <1> QED BY <1>2, <1>3

LEMMA AnewNext == FreshInv' => (\A v \in Replaced : vain = now => Underway(v) /\ Remnants(v))'
  <1>1. FreshInv => \A v \in Replaced : vain = now => Underway(v) /\ Remnants(v)
    BY Anew
  <1> QED BY <1>1, PTL

(* What a step of r owes while S3 has an older version, and what it leaves *)
(* of those versions.                                                      *)
GoesOn(r, v) ==
    /\ \A t \in Int : t >= Settled(v) /\ Behind(v, t) => Kept(r, v, t)
    /\ Owes(r, v) => Owes(r, v)' /\ started'[r] = started[r]
    /\ Fetches(r, v) /\ pc[r] \in Leading => Fetches(r, v)'
    /\ renewed' = renewed \/ Owes(r, v)'

Leaves(r, v) ==
    /\ disk'.ver \in 1 .. v => disk'.at <= Relied(v) + Lag
    /\ pop'[r] \in 1 .. v => started'[r] <= Relied(v)
    /\ pc'[r] = "diskserve" /\ held'[r].ver \in 1 .. v => started'[r] <= Relied(v) + Lag + TTL
    /\ pc'[r] \in {"upload", "stored", "populate", "lead"} /\ held'[r].ver <= v
         => started'[r] <= Since(v)
    /\ pc'[r] \in {"mark", "leave"} /\ s3'.ver <= v => started'[r] <= Since(v)

LEMMA StaleStep ==
    ASSUME FlowInv, FlowInv', NEW r \in Requests, Others(r), NEW v \in Replaced,
           now' = now, published' = published, vain' = vain,
           Underway(v), Remnants(v), s3.ver <= s3'.ver,
           s3'.ver <= v /\ now > Settled(v) => GoesOn(r, v),
           Leaves(r, v)
    PROVE  Underway(v)' /\ Remnants(v)'
  <1>1. Remnants(v)'
    BY RemnantsStep DEF Leaves
  <1>2. CASE now <= Settled(v)
    <2>1. now' <= Settled(v)' /\ v \in Replaced'
      BY <1>2 DEF Settled, Since, ReplacedAt, Replaced, NotYet
    <2> QED BY <1>1, <2>1, EarlyNext DEF FlowInv
  <1>3. CASE now > Settled(v) /\ s3'.ver <= v
    BY <1>1, <1>3, UnderwayStep DEF GoesOn
  <1>4. CASE ~(s3'.ver <= v)
    BY <1>1, <1>4 DEF Underway
  <1>5. now <= Settled(v) \/ now > Settled(v)
    BY Whens, UntilGrows DEF FlowInv
  <1> QED BY <1>2, <1>3, <1>4, <1>5

(* Where such steps start from.                                            *)
LEMMA Remain ==
    ASSUME FlowInv, NEW r \in Requests, NEW v \in Replaced, Remnants(v)
    PROVE  /\ disk.ver \in 1 .. v => disk.at <= Relied(v) + Lag
           /\ pop[r] \in 1 .. v => started[r] <= Relied(v)
           /\ pc[r] = "diskserve" /\ held[r].ver \in 1 .. v => started[r] <= Relied(v) + Lag + TTL
           /\ pc[r] \in {"upload", "stored", "populate", "lead"} /\ held[r].ver <= v
                => started[r] <= Since(v)
           /\ pc[r] \in {"mark", "leave"} /\ s3.ver <= v => started[r] <= Since(v)
  BY DEF Remnants

LEMMA Trusting ==
    ASSUME NEW v, NEW t, Behind(v, t), NEW r \in Requests
    PROVE  /\ s3.at <= t /\ disk.at <= t /\ heads.at <= t /\ validated <= t
           /\ held[r].ver <= v => held[r].at <= t
           /\ Committed(r) => started[r] <= t + TTL
  BY DEF Behind

LEMMA ArriveStale ==
    ASSUME FlowInv, NEW r \in Requests, Arrive(r), vain' = vain, vain' # now,
           NEW v \in Replaced, Underway(v), Remnants(v)
    PROVE  Underway(v)' /\ Remnants(v)'
  <1> USE DEF Busy, Step, bounds, local, Arrive
  <1>1. FlowInv' /\ FreshInv
    BY ArriveFlow DEF FlowInv
  <1>2. Others(r) /\ s3.ver <= s3'.ver
    BY <1>1, Shapes, Ver, Flow, Copied DEF Others
  <1>3. ASSUME s3'.ver <= v, now > Settled(v)
        PROVE  GoesOn(r, v)
    <2>1. s3.ver <= v
      BY <1>1, <1>2, <1>3, Ver, UntilGrows
    <2>2. ASSUME NEW t \in Int, t >= Settled(v), Behind(v, t)
          PROVE  Kept(r, v, t)
      BY <1>1, <1>3, <2>1, <2>2, Shapes, Whens, UntilGrows, Trusting, Late, Flow, Copied, Nothing
         DEF Kept, Committed, Waited
    <2>3. /\ Owes(r, v) => Owes(r, v)' /\ started'[r] = started[r]
          /\ Fetches(r, v) /\ pc[r] \in Leading => Fetches(r, v)'
          /\ renewed' = renewed \/ Owes(r, v)'
      BY <1>1, <1>3, <2>1, Shapes, Late DEF Owes, Fetches, Leading
    <2> QED BY <2>2, <2>3 DEF GoesOn
  <1>4. Leaves(r, v)
    BY <1>1, Shapes, Ver, Whens, UntilGrows, Remain, Flow, Copied DEF Leaves
  <1> QED BY <1>1, <1>2, <1>3, <1>4, StaleStep

LEMMA DiskLookupStale ==
    ASSUME FlowInv, NEW r \in Requests, DiskLookup(r), vain' = vain, vain' # now,
           NEW v \in Replaced, Underway(v), Remnants(v)
    PROVE  Underway(v)' /\ Remnants(v)'
  <1> USE DEF Within, Step, bounds, local, DiskLookup
  <1>1. FlowInv' /\ FreshInv
    BY DiskLookupFlow DEF FlowInv
  <1>2. Others(r) /\ s3.ver <= s3'.ver
    BY <1>1, Shapes, Ver, Flow, Copied DEF Others
  <1>3. ASSUME s3'.ver <= v, now > Settled(v)
        PROVE  GoesOn(r, v)
    <2>1. s3.ver <= v
      BY <1>1, <1>2, <1>3, Ver, UntilGrows
    <2>2. ASSUME NEW t \in Int, t >= Settled(v), Behind(v, t)
          PROVE  Kept(r, v, t)
      BY <1>1, <1>3, <2>1, <2>2, Shapes, Whens, UntilGrows, Trusting, Late, Flow, Copied, Nothing
         DEF Kept, Committed, Waited
    <2>3. /\ Owes(r, v) => Owes(r, v)' /\ started'[r] = started[r]
          /\ Fetches(r, v) /\ pc[r] \in Leading => Fetches(r, v)'
          /\ renewed' = renewed \/ Owes(r, v)'
      BY <1>1, <1>3, <2>1, Shapes, Late DEF Owes, Fetches, Leading
    <2> QED BY <2>2, <2>3 DEF GoesOn
  <1>4. Leaves(r, v)
    BY <1>1, Shapes, Ver, Whens, UntilGrows, Remain, Flow, Copied DEF Leaves
  <1> QED BY <1>1, <1>2, <1>3, <1>4, StaleStep

LEMMA DiskExpiredStale ==
    ASSUME FlowInv, NEW r \in Requests, DiskExpired(r), vain' = vain, vain' # now,
           NEW v \in Replaced, Underway(v), Remnants(v)
    PROVE  Underway(v)' /\ Remnants(v)'
  <1> USE DEF Step, bounds, local, DiskExpired
  <1>1. FlowInv' /\ FreshInv
    BY DiskExpiredFlow DEF FlowInv
  <1>2. Others(r) /\ s3.ver <= s3'.ver
    BY <1>1, Shapes, Ver, Flow, Copied DEF Others
  <1>3. ASSUME s3'.ver <= v, now > Settled(v)
        PROVE  GoesOn(r, v)
    <2>1. s3.ver <= v
      BY <1>1, <1>2, <1>3, Ver, UntilGrows
    <2>2. ASSUME NEW t \in Int, t >= Settled(v), Behind(v, t)
          PROVE  Kept(r, v, t)
      BY <1>1, <1>3, <2>1, <2>2, Shapes, Whens, UntilGrows, Trusting, Late, Flow, Copied, Nothing
         DEF Kept, Committed, Waited
    <2>3. /\ Owes(r, v) => Owes(r, v)' /\ started'[r] = started[r]
          /\ Fetches(r, v) /\ pc[r] \in Leading => Fetches(r, v)'
          /\ renewed' = renewed \/ Owes(r, v)'
      BY <1>1, <1>3, <2>1, Shapes, Late DEF Owes, Fetches, Leading
    <2> QED BY <2>2, <2>3 DEF GoesOn
  <1>4. Leaves(r, v)
    BY <1>1, Shapes, Ver, Whens, UntilGrows, Remain, Flow, Copied DEF Leaves
  <1> QED BY <1>1, <1>2, <1>3, <1>4, StaleStep

LEMMA DiskServeStale ==
    ASSUME FlowInv, NEW r \in Requests, DiskServe(r), vain' = vain, vain' # now,
           NEW v \in Replaced, Underway(v), Remnants(v)
    PROVE  Underway(v)' /\ Remnants(v)'
  <1> USE DEF Step, bounds, local, Done, Remember, DiskServe, Ended
  <1>1. FlowInv' /\ FreshInv
    BY DiskServeFlow DEF FlowInv
  <1>2. Others(r) /\ s3.ver <= s3'.ver
    BY <1>1, Shapes, Ver, Flow, Copied DEF Others
  <1>3. ASSUME s3'.ver <= v, now > Settled(v)
        PROVE  GoesOn(r, v)
    <2>1. s3.ver <= v
      BY <1>1, <1>2, <1>3, Ver, UntilGrows
    <2>2. ASSUME NEW t \in Int, t >= Settled(v), Behind(v, t)
          PROVE  Kept(r, v, t)
      BY <1>1, <1>3, <2>1, <2>2, Shapes, Whens, UntilGrows, Trusting, Late, Flow, Copied, Nothing
         DEF Kept, Committed, Waited
    <2>3. /\ Owes(r, v) => Owes(r, v)' /\ started'[r] = started[r]
          /\ Fetches(r, v) /\ pc[r] \in Leading => Fetches(r, v)'
          /\ renewed' = renewed \/ Owes(r, v)'
      BY <1>1, <1>3, <2>1, Shapes, Late DEF Owes, Fetches, Leading
    <2> QED BY <2>2, <2>3 DEF GoesOn
  <1>4. Leaves(r, v)
    BY <1>1, Shapes, Ver, Whens, UntilGrows, Remain, Flow, Copied DEF Leaves
  <1> QED BY <1>1, <1>2, <1>3, <1>4, StaleStep

LEMMA HeadCacheGetStale ==
    ASSUME FlowInv, NEW r \in Requests, HeadCacheGet(r), vain' = vain, vain' # now,
           NEW v \in Replaced, Underway(v), Remnants(v)
    PROVE  Underway(v)' /\ Remnants(v)'
  <1> USE DEF Step, bounds, local, GetHead, HeadCacheGet
  <1>1. FlowInv' /\ FreshInv
    BY HeadCacheGetFlow DEF FlowInv
  <1>2. Others(r) /\ s3.ver <= s3'.ver
    BY <1>1, Shapes, Ver, Flow, Copied DEF Others
  <1>3. ASSUME s3'.ver <= v, now > Settled(v)
        PROVE  GoesOn(r, v)
    <2>1. s3.ver <= v
      BY <1>1, <1>2, <1>3, Ver, UntilGrows
    <2>2. ASSUME NEW t \in Int, t >= Settled(v), Behind(v, t)
          PROVE  Kept(r, v, t)
      BY <1>1, <1>3, <2>1, <2>2, Shapes, Whens, UntilGrows, Trusting, Late, Flow, Copied, Nothing
         DEF Kept, Committed, Waited
    <2>3. /\ Owes(r, v) => Owes(r, v)' /\ started'[r] = started[r]
          /\ Fetches(r, v) /\ pc[r] \in Leading => Fetches(r, v)'
          /\ renewed' = renewed \/ Owes(r, v)'
      BY <1>1, <1>3, <2>1, Shapes, Late DEF Owes, Fetches, Leading
    <2> QED BY <2>2, <2>3 DEF GoesOn
  <1>4. Leaves(r, v)
    BY <1>1, Shapes, Ver, Whens, UntilGrows, Remain, Flow, Copied DEF Leaves
  <1> QED BY <1>1, <1>2, <1>3, <1>4, StaleStep

LEMMA DeleteExpiredStale ==
    ASSUME FlowInv, NEW r \in Requests, DeleteExpired(r), vain' = vain, vain' # now,
           NEW v \in Replaced, Underway(v), Remnants(v)
    PROVE  Underway(v)' /\ Remnants(v)'
  <1> USE DEF Step, bounds, local, DeleteExpired
  <1>1. FlowInv' /\ FreshInv
    BY DeleteExpiredFlow DEF FlowInv
  <1>2. Others(r) /\ s3.ver <= s3'.ver
    BY <1>1, Shapes, Ver, Flow, Copied DEF Others
  <1>3. ASSUME s3'.ver <= v, now > Settled(v)
        PROVE  GoesOn(r, v)
    <2>1. s3.ver <= v
      BY <1>1, <1>2, <1>3, Ver, UntilGrows
    <2>2. ASSUME NEW t \in Int, t >= Settled(v), Behind(v, t)
          PROVE  Kept(r, v, t)
      BY <1>1, <1>3, <2>1, <2>2, Shapes, Whens, UntilGrows, Trusting, Late, Flow, Copied, Nothing
         DEF Kept, Committed, Waited
    <2>3. /\ Owes(r, v) => Owes(r, v)' /\ started'[r] = started[r]
          /\ Fetches(r, v) /\ pc[r] \in Leading => Fetches(r, v)'
          /\ renewed' = renewed \/ Owes(r, v)'
      BY <1>1, <1>3, <2>1, Shapes, Late DEF Owes, Fetches, Leading
    <2> QED BY <2>2, <2>3 DEF GoesOn
  <1>4. Leaves(r, v)
    BY <1>1, Shapes, Ver, Whens, UntilGrows, Remain, Flow, Copied DEF Leaves
  <1> QED BY <1>1, <1>2, <1>3, <1>4, StaleStep

LEMMA S3HeadStale ==
    ASSUME FlowInv, NEW r \in Requests, S3Head(r), vain' = vain, vain' # now,
           NEW v \in Replaced, Underway(v), Remnants(v)
    PROVE  Underway(v)' /\ Remnants(v)'
  <1> USE DEF Step, bounds, local, Done, S3Head, Ended
  <1>1. FlowInv' /\ FreshInv
    BY S3HeadFlow DEF FlowInv
  <1>2. Others(r) /\ s3.ver <= s3'.ver
    BY <1>1, Shapes, Ver, Flow, Copied DEF Others
  <1>3. ASSUME s3'.ver <= v, now > Settled(v)
        PROVE  GoesOn(r, v)
    <2>1. s3.ver <= v
      BY <1>1, <1>2, <1>3, Ver, UntilGrows
    <2>2. ASSUME NEW t \in Int, t >= Settled(v), Behind(v, t)
          PROVE  Kept(r, v, t)
      BY <1>1, <1>3, <2>1, <2>2, Shapes, Whens, UntilGrows, Trusting, Late, Flow, Copied, Nothing
         DEF Kept, Committed, Waited
    <2>3. /\ Owes(r, v) => Owes(r, v)' /\ started'[r] = started[r]
          /\ Fetches(r, v) /\ pc[r] \in Leading => Fetches(r, v)'
          /\ renewed' = renewed \/ Owes(r, v)'
      BY <1>1, <1>3, <2>1, Shapes, Late DEF Owes, Fetches, Leading
    <2> QED BY <2>2, <2>3 DEF GoesOn
  <1>4. Leaves(r, v)
    BY <1>1, Shapes, Ver, Whens, UntilGrows, Remain, Flow, Copied DEF Leaves
  <1> QED BY <1>1, <1>2, <1>3, <1>4, StaleStep

LEMMA RememberS3HeadStale ==
    ASSUME FlowInv, NEW r \in Requests, RememberS3Head(r), vain' = vain, vain' # now,
           NEW v \in Replaced, Underway(v), Remnants(v)
    PROVE  Underway(v)' /\ Remnants(v)'
  <1> USE DEF Step, bounds, local, Remember, RememberS3Head
  <1>1. FlowInv' /\ FreshInv
    BY RememberS3HeadFlow DEF FlowInv
  <1>2. Others(r) /\ s3.ver <= s3'.ver
    BY <1>1, Shapes, Ver, Flow, Copied DEF Others
  <1>3. ASSUME s3'.ver <= v, now > Settled(v)
        PROVE  GoesOn(r, v)
    <2>1. s3.ver <= v
      BY <1>1, <1>2, <1>3, Ver, UntilGrows
    <2>2. ASSUME NEW t \in Int, t >= Settled(v), Behind(v, t)
          PROVE  Kept(r, v, t)
      BY <1>1, <1>3, <2>1, <2>2, Shapes, Whens, UntilGrows, Trusting, Late, Flow, Copied, Nothing
         DEF Kept, Committed, Waited
    <2>3. /\ Owes(r, v) => Owes(r, v)' /\ started'[r] = started[r]
          /\ Fetches(r, v) /\ pc[r] \in Leading => Fetches(r, v)'
          /\ renewed' = renewed \/ Owes(r, v)'
      BY <1>1, <1>3, <2>1, Shapes, Late DEF Owes, Fetches, Leading
    <2> QED BY <2>2, <2>3 DEF GoesOn
  <1>4. Leaves(r, v)
    BY <1>1, Shapes, Ver, Whens, UntilGrows, Remain, Flow, Copied DEF Leaves
  <1> QED BY <1>1, <1>2, <1>3, <1>4, StaleStep

LEMMA CheckFreshStale ==
    ASSUME FlowInv, NEW r \in Requests, CheckFresh(r), vain' = vain, vain' # now,
           NEW v \in Replaced, Underway(v), Remnants(v)
    PROVE  Underway(v)' /\ Remnants(v)'
  <1> USE DEF Fresh, Within, Never, Step, bounds, local, CheckFresh
  <1>1. FlowInv' /\ FreshInv
    BY CheckFreshFlow DEF FlowInv
  <1>2. Others(r) /\ s3.ver <= s3'.ver
    BY <1>1, Shapes, Ver, Flow, Copied DEF Others
  <1>3. ASSUME s3'.ver <= v, now > Settled(v)
        PROVE  GoesOn(r, v)
    <2>1. s3.ver <= v
      BY <1>1, <1>2, <1>3, Ver, UntilGrows
    <2>2. ASSUME NEW t \in Int, t >= Settled(v), Behind(v, t)
          PROVE  Kept(r, v, t)
      BY <1>1, <1>3, <2>1, <2>2, Shapes, Whens, UntilGrows, Trusting, Late, Flow, Copied, Nothing
         DEF Kept, Committed, Waited
    <2>3. /\ Owes(r, v) => Owes(r, v)' /\ started'[r] = started[r]
          /\ Fetches(r, v) /\ pc[r] \in Leading => Fetches(r, v)'
          /\ renewed' = renewed \/ Owes(r, v)'
      BY <1>1, <1>3, <2>1, Shapes, Late DEF Owes, Fetches, Leading
    <2> QED BY <2>2, <2>3 DEF GoesOn
  <1>4. Leaves(r, v)
    BY <1>1, Shapes, Ver, Whens, UntilGrows, Remain, Flow, Copied DEF Leaves
  <1> QED BY <1>1, <1>2, <1>3, <1>4, StaleStep

LEMMA RevalidateStale ==
    ASSUME FlowInv, NEW r \in Requests, Revalidate(r), vain' = vain, vain' # now,
           NEW v \in Replaced, Underway(v), Remnants(v)
    PROVE  Underway(v)' /\ Remnants(v)'
  <1> USE DEF Step, bounds, local, UpstreamError, Revalidate, InVain
  <1>1. FlowInv' /\ FreshInv
    BY RevalidateFlow DEF FlowInv
  <1>2. Others(r) /\ s3.ver <= s3'.ver
    BY <1>1, Shapes, Ver, Flow, Copied DEF Others
  <1>0. pc'[r] = "mark" => s3.ver > v
    BY <1>1, Shapes, Ver, NewIsCurrent, UntilGrows
  <1>3. ASSUME s3'.ver <= v, now > Settled(v)
        PROVE  GoesOn(r, v)
    <2>1. s3.ver <= v
      BY <1>1, <1>2, <1>3, Ver, UntilGrows
    <2>2. ASSUME NEW t \in Int, t >= Settled(v), Behind(v, t)
          PROVE  Kept(r, v, t)
      BY <1>1, <1>3, <2>1, <2>2, Shapes, Whens, UntilGrows, Trusting, Late, Flow, Copied, Nothing
         DEF Kept, Committed, Waited
    <2>3. /\ Owes(r, v) => Owes(r, v)' /\ started'[r] = started[r]
          /\ Fetches(r, v) /\ pc[r] \in Leading => Fetches(r, v)'
          /\ renewed' = renewed \/ Owes(r, v)'
      BY <1>0, <1>1, <1>3, <2>1, Shapes, Ver, UntilGrows DEF Owes, Fetches, Leading
    <2> QED BY <2>2, <2>3 DEF GoesOn
  <1>4. Leaves(r, v)
    BY <1>0, <1>1, Shapes, Ver, Whens, UntilGrows, Remain, Flow, Copied DEF Leaves
  <1> QED BY <1>1, <1>2, <1>3, <1>4, StaleStep

LEMMA MarkValidatedStale ==
    ASSUME FlowInv, NEW r \in Requests, MarkValidated(r), vain' = vain, vain' # now,
           NEW v \in Replaced, Underway(v), Remnants(v)
    PROVE  Underway(v)' /\ Remnants(v)'
  <1> USE DEF Step, bounds, local, MarkValidated
  <1>1. FlowInv' /\ FreshInv
    BY MarkValidatedFlow DEF FlowInv
  <1>2. Others(r) /\ s3.ver <= s3'.ver
    BY <1>1, Shapes, Ver, Flow, Copied DEF Others
  <1>3. ASSUME s3'.ver <= v, now > Settled(v)
        PROVE  GoesOn(r, v)
    <2>1. s3.ver <= v
      BY <1>1, <1>2, <1>3, Ver, UntilGrows
    <2>2. ASSUME NEW t \in Int, t >= Settled(v), Behind(v, t)
          PROVE  Kept(r, v, t)
      BY <1>1, <1>3, <2>1, <2>2, Shapes, Whens, UntilGrows, Trusting, Late, Flow, Copied, Nothing
         DEF Kept, Committed, Waited
    <2>3. /\ Owes(r, v) => Owes(r, v)' /\ started'[r] = started[r]
          /\ Fetches(r, v) /\ pc[r] \in Leading => Fetches(r, v)'
          /\ renewed' = renewed \/ Owes(r, v)'
      BY <1>1, <1>3, <2>1, Shapes, Late DEF Owes, Fetches, Leading
    <2> QED BY <2>2, <2>3 DEF GoesOn
  <1>4. Leaves(r, v)
    BY <1>1, Shapes, Ver, Whens, UntilGrows, Remain, Flow, Copied DEF Leaves
  <1> QED BY <1>1, <1>2, <1>3, <1>4, StaleStep

LEMMA DropStaleStale ==
    ASSUME FlowInv, NEW r \in Requests, DropStale(r), vain' = vain, vain' # now,
           NEW v \in Replaced, Underway(v), Remnants(v)
    PROVE  Underway(v)' /\ Remnants(v)'
  <1> USE DEF Step, bounds, local, DropStale
  <1>1. FlowInv' /\ FreshInv
    BY DropStaleFlow DEF FlowInv
  <1>2. Others(r) /\ s3.ver <= s3'.ver
    BY <1>1, Shapes, Ver, Flow, Copied DEF Others
  <1>3. ASSUME s3'.ver <= v, now > Settled(v)
        PROVE  GoesOn(r, v)
    <2>1. s3.ver <= v
      BY <1>1, <1>2, <1>3, Ver, UntilGrows
    <2>2. ASSUME NEW t \in Int, t >= Settled(v), Behind(v, t)
          PROVE  Kept(r, v, t)
      BY <1>1, <1>3, <2>1, <2>2, Shapes, Whens, UntilGrows, Trusting, Late, Flow, Copied, Nothing
         DEF Kept, Committed, Waited
    <2>3. /\ Owes(r, v) => Owes(r, v)' /\ started'[r] = started[r]
          /\ Fetches(r, v) /\ pc[r] \in Leading => Fetches(r, v)'
          /\ renewed' = renewed \/ Owes(r, v)'
      BY <1>1, <1>3, <2>1, Shapes, Late DEF Owes, Fetches, Leading
    <2> QED BY <2>2, <2>3 DEF GoesOn
  <1>4. Leaves(r, v)
    BY <1>1, Shapes, Ver, Whens, UntilGrows, Remain, Flow, Copied DEF Leaves
  <1> QED BY <1>1, <1>2, <1>3, <1>4, StaleStep

LEMMA StreamS3Stale ==
    ASSUME FlowInv, NEW r \in Requests, StreamS3(r), vain' = vain, vain' # now,
           NEW v \in Replaced, Underway(v), Remnants(v)
    PROVE  Underway(v)' /\ Remnants(v)'
  <1> USE DEF Step, bounds, local, Done, StreamS3, Ended
  <1>1. FlowInv' /\ FreshInv
    BY StreamS3Flow DEF FlowInv
  <1>2. Others(r) /\ s3.ver <= s3'.ver
    BY <1>1, Shapes, Ver, Flow, Copied DEF Others
  <1>3. ASSUME s3'.ver <= v, now > Settled(v)
        PROVE  GoesOn(r, v)
    <2>1. s3.ver <= v
      BY <1>1, <1>2, <1>3, Ver, UntilGrows
    <2>2. ASSUME NEW t \in Int, t >= Settled(v), Behind(v, t)
          PROVE  Kept(r, v, t)
      BY <1>1, <1>3, <2>1, <2>2, Shapes, Whens, UntilGrows, Trusting, Late, Flow, Copied, Nothing
         DEF Kept, Committed, Waited
    <2>3. /\ Owes(r, v) => Owes(r, v)' /\ started'[r] = started[r]
          /\ Fetches(r, v) /\ pc[r] \in Leading => Fetches(r, v)'
          /\ renewed' = renewed \/ Owes(r, v)'
      BY <1>1, <1>3, <2>1, Shapes, Late DEF Owes, Fetches, Leading
    <2> QED BY <2>2, <2>3 DEF GoesOn
  <1>4. Leaves(r, v)
    <2>1. s3.ver <= v => started[r] <= Relied(v)
      BY Soon DEF Committed
    <2> QED BY <1>1, <2>1, Shapes, Ver, Whens, UntilGrows, Remain, Flow, Copied DEF Leaves
  <1> QED BY <1>1, <1>2, <1>3, <1>4, StaleStep

LEMMA JoinStale ==
    ASSUME FlowInv, NEW r \in Requests, Join(r), vain' = vain, vain' # now,
           NEW v \in Replaced, Underway(v), Remnants(v)
    PROVE  Underway(v)' /\ Remnants(v)'
  <1> USE DEF Step, bounds, local, Join
  <1>1. FlowInv' /\ FreshInv
    BY JoinFlow DEF FlowInv
  <1>2. Others(r) /\ s3.ver <= s3'.ver
    BY <1>1, Shapes, Ver, Flow, Copied DEF Others
  <1>3. ASSUME s3'.ver <= v, now > Settled(v)
        PROVE  GoesOn(r, v)
    <2>1. s3.ver <= v
      BY <1>1, <1>2, <1>3, Ver, UntilGrows
    <2>2. ASSUME NEW t \in Int, t >= Settled(v), Behind(v, t)
          PROVE  Kept(r, v, t)
      BY <1>1, <1>3, <2>1, <2>2, Shapes, Whens, UntilGrows, Trusting, Late, Flow, Copied, Nothing
         DEF Kept, Committed, Waited
    <2>3. Owes(r, v)' /\ started'[r] = started[r] /\ renewed' = renewed
      <3>1. CASE inflight = Nobody
        BY <1>1, <3>1, Shapes DEF Owes, Fetches
      <3>2. CASE inflight # Nobody
        <4> DEFINE f == inflight
        <4>1. f \in Requests /\ pc[f] \in Leading /\ f # r
          BY <1>1, <3>2, Hands DEF FlowInv, Flights, Leading
        <4>2. pc'[f] = pc[f] /\ held'[f] = held[f] /\ pc'[r] = "wait" /\ flight'[r] = f
              /\ inflight' = inflight
          BY <1>1, <3>2, <4>1, Shapes
        <4>3. pc[f] = "upget" \/ (pc[f] = "upload" /\ held[f].ver > v)
          BY <1>3, <2>1, <4>1, Late DEF Leading
        <4>4. Fetches(f, v)'
          BY <4>2, <4>3 DEF Fetches
        <4> QED BY <1>1, <4>2, <4>4, Shapes DEF Owes
      <3> QED BY <3>1, <3>2
    <2>4. pc[r] \notin Leading
      BY DEF Leading
    <2> QED BY <2>2, <2>3, <2>4 DEF GoesOn
  <1>4. Leaves(r, v)
    BY <1>1, Shapes, Ver, Whens, UntilGrows, Remain, Flow, Copied DEF Leaves
  <1> QED BY <1>1, <1>2, <1>3, <1>4, StaleStep

LEMMA UpstreamGetStale ==
    ASSUME FlowInv, NEW r \in Requests, UpstreamGet(r), vain' = vain, vain' # now,
           NEW v \in Replaced, Underway(v), Remnants(v)
    PROVE  Underway(v)' /\ Remnants(v)'
  <1> USE DEF Step, bounds, local, UpstreamError, UpstreamGet, InVain
  <1>1. FlowInv' /\ FreshInv
    BY UpstreamGetFlow DEF FlowInv
  <1>2. Others(r) /\ s3.ver <= s3'.ver
    BY <1>1, Shapes, Ver, Flow, Copied DEF Others
  <1>e. CASE pc'[r] = "leave"
    <2>1. s3.ver > v /\ s3' = s3
      BY <1>1, <1>e, Shapes, NewIsCurrent, UntilGrows
    <2>2. Leaves(r, v)
      BY <1>1, <1>e, <2>1, Shapes, Ver, Whens, UntilGrows, Remain, Flow, Copied DEF Leaves
    <2> QED BY <1>1, <1>2, <2>1, <2>2, Ver, UntilGrows, StaleStep
  <1> SUFFICES ASSUME pc'[r] # "leave"
               PROVE  Underway(v)' /\ Remnants(v)'
    BY <1>e
  <1>0. /\ pc[r] = "upget" /\ pc'[r] = "upload"
        /\ held'[r].ver \in Nat /\ held'[r].ver > v /\ renewed' = 0
        /\ started' = started /\ flight' = flight /\ pop' = pop /\ s3' = s3 /\ disk' = disk
        /\ heads' = heads /\ validated' = validated /\ now' = now /\ published' = published
    BY <1>1, Shapes, Copied, NewIsCurrent, UntilGrows
  <1> HIDE DEF UpstreamGet
  <1>3. ASSUME s3'.ver <= v, now > Settled(v)
        PROVE  GoesOn(r, v)
    <2>1. s3.ver <= v
      BY <1>0, <1>1, <1>2, <1>3, Ver, UntilGrows
    <2>2. ASSUME NEW t \in Int, t >= Settled(v), Behind(v, t)
          PROVE  Kept(r, v, t)
      BY <1>0, <1>1, <1>3, <2>1, <2>2, Shapes, Whens, UntilGrows, Trusting, Late, Flow, Copied, Nothing
         DEF Kept, Committed, Waited
    <2>3. /\ Owes(r, v) => Owes(r, v)' /\ started'[r] = started[r]
          /\ Fetches(r, v) /\ pc[r] \in Leading => Fetches(r, v)'
          /\ renewed' = renewed \/ Owes(r, v)'
      BY <1>0, <1>1, <1>3, <2>1, Shapes, Late DEF Owes, Fetches, Leading
    <2> QED BY <2>2, <2>3 DEF GoesOn
  <1>4. Leaves(r, v)
    BY <1>0, <1>1, Shapes, Ver, Whens, UntilGrows, Remain, Flow, Copied DEF Leaves
  <1> QED BY <1>0, <1>1, <1>2, <1>3, <1>4, StaleStep

LEMMA UploadStale ==
    ASSUME FlowInv, NEW r \in Requests, Upload(r), vain' = vain, vain' # now,
           NEW v \in Replaced, Underway(v), Remnants(v)
    PROVE  Underway(v)' /\ Remnants(v)'
  <1> USE DEF Step, bounds, local, Upload, InVain
  <1>1. FlowInv' /\ FreshInv
    BY UploadFlow DEF FlowInv
  <1>2. Others(r) /\ s3.ver <= s3'.ver
    BY <1>1, Shapes, Ver, Flow, Copied DEF Others
  <1>3. ASSUME s3'.ver <= v, now > Settled(v)
        PROVE  GoesOn(r, v)
    <2>1. s3.ver <= v /\ held[r].ver <= v
      BY <1>1, <1>2, <1>3, Copied, Ver, UntilGrows, Flow, NewIsCurrent
    <2> QED BY <1>1, <1>3, <2>1, Late, Ver, UntilGrows
  <1>4. Leaves(r, v)
    <2>1. /\ pc[r] = "upload" /\ disk' = disk /\ pop' = pop /\ started' = started
          /\ \/ pc'[r] = "stored" /\ held' = held
             \/ pc'[r] = "leave" /\ (s3'.ver = held[r].ver \/ ~(s3'.ver <= v))
      BY <1>1, Shapes, Copied, NewIsCurrent, UntilGrows
    <2> QED BY <1>1, <2>1, Ver, UntilGrows, Remain DEF Leaves
  <1> QED BY <1>1, <1>2, <1>3, <1>4, StaleStep

LEMMA StoredStale ==
    ASSUME FlowInv, NEW r \in Requests, Stored(r), vain' = vain, vain' # now,
           NEW v \in Replaced, Underway(v), Remnants(v)
    PROVE  Underway(v)' /\ Remnants(v)'
  <1> USE DEF Step, bounds, local, Stored
  <1>1. FlowInv' /\ FreshInv
    BY StoredFlow DEF FlowInv
  <1>2. Others(r) /\ s3.ver <= s3'.ver
    BY <1>1, Shapes, Ver, Flow, Copied DEF Others
  <1>3. ASSUME s3'.ver <= v, now > Settled(v)
        PROVE  GoesOn(r, v)
    <2>1. s3.ver <= v
      BY <1>1, <1>2, <1>3, Ver, UntilGrows
    <2>2. ASSUME NEW t \in Int, t >= Settled(v), Behind(v, t)
          PROVE  Kept(r, v, t)
      BY <1>1, <1>3, <2>1, <2>2, Shapes, Whens, UntilGrows, Trusting, Late, Flow, Copied, Nothing
         DEF Kept, Committed, Waited
    <2>3. /\ Owes(r, v) => Owes(r, v)' /\ started'[r] = started[r]
          /\ Fetches(r, v) /\ pc[r] \in Leading => Fetches(r, v)'
          /\ renewed' = renewed \/ Owes(r, v)'
      BY <1>1, <1>3, <2>1, Shapes, Late DEF Owes, Fetches, Leading
    <2> QED BY <2>2, <2>3 DEF GoesOn
  <1>4. Leaves(r, v)
    BY <1>1, Shapes, Ver, Whens, UntilGrows, Remain, Flow, Copied DEF Leaves
  <1> QED BY <1>1, <1>2, <1>3, <1>4, StaleStep

LEMMA PopulateFileStale ==
    ASSUME FlowInv, NEW r \in Requests, PopulateFile(r), vain' = vain, vain' # now,
           NEW v \in Replaced, Underway(v), Remnants(v)
    PROVE  Underway(v)' /\ Remnants(v)'
  <1> USE DEF Step, bounds, local, PopulateFile
  <1>1. FlowInv' /\ FreshInv
    BY PopulateFileFlow DEF FlowInv
  <1>2. Others(r) /\ s3.ver <= s3'.ver
    BY <1>1, Shapes, Ver, Flow, Copied DEF Others
  <1>3. ASSUME s3'.ver <= v, now > Settled(v)
        PROVE  GoesOn(r, v)
    <2>1. s3.ver <= v
      BY <1>1, <1>2, <1>3, Ver, UntilGrows
    <2>2. ASSUME NEW t \in Int, t >= Settled(v), Behind(v, t)
          PROVE  Kept(r, v, t)
      BY <1>1, <1>3, <2>1, <2>2, Shapes, Whens, UntilGrows, Trusting, Late, Flow, Copied, Nothing
         DEF Kept, Committed, Waited
    <2>3. /\ Owes(r, v) => Owes(r, v)' /\ started'[r] = started[r]
          /\ Fetches(r, v) /\ pc[r] \in Leading => Fetches(r, v)'
          /\ renewed' = renewed \/ Owes(r, v)'
      BY <1>1, <1>3, <2>1, Shapes, Late DEF Owes, Fetches, Leading
    <2> QED BY <2>2, <2>3 DEF GoesOn
  <1>4. Leaves(r, v)
    <2>1. Busy(r) /\ pc'[r] = "lead" /\ Settled(v) <= Relied(v) + Lag
      BY <1>1, Shapes, UntilGrows, Numbers DEF Busy, Relied, Trusted
    <2>2. held[r].ver <= v => now <= Settled(v)
      BY <1>1, <2>1, Whens, UntilGrows, Remain DEF Settled, Since, ReplacedAt
    <2>3. disk'.ver \in 1 .. v => disk'.at <= Relied(v) + Lag
      BY <1>1, <2>1, <2>2, Whens, UntilGrows, Remain, Copied
    <2> QED BY <1>1, <2>3, Shapes, Ver, Whens, UntilGrows, Remain, Flow, Copied DEF Leaves
  <1> QED BY <1>1, <1>2, <1>3, <1>4, StaleStep

LEMMA LeaderServesStale ==
    ASSUME FlowInv, NEW r \in Requests, LeaderServes(r), vain' = vain, vain' # now,
           NEW v \in Replaced, Underway(v), Remnants(v)
    PROVE  Underway(v)' /\ Remnants(v)'
  <1> USE DEF Step, bounds, local, Remember, LeaderServes
  <1>1. FlowInv' /\ FreshInv
    BY LeaderServesFlow DEF FlowInv
  <1>2. Others(r) /\ s3.ver <= s3'.ver
    BY <1>1, Shapes, Ver, Flow, Copied DEF Others
  <1>3. ASSUME s3'.ver <= v, now > Settled(v)
        PROVE  GoesOn(r, v)
    <2>1. s3.ver <= v
      BY <1>1, <1>2, <1>3, Ver, UntilGrows
    <2>2. ASSUME NEW t \in Int, t >= Settled(v), Behind(v, t)
          PROVE  Kept(r, v, t)
      BY <1>1, <1>3, <2>1, <2>2, Shapes, Whens, UntilGrows, Trusting, Late, Flow, Copied, Nothing
         DEF Kept, Committed, Waited
    <2>3. /\ Owes(r, v) => Owes(r, v)' /\ started'[r] = started[r]
          /\ Fetches(r, v) /\ pc[r] \in Leading => Fetches(r, v)'
          /\ renewed' = renewed \/ Owes(r, v)'
      BY <1>1, <1>3, <2>1, Shapes, Late DEF Owes, Fetches, Leading
    <2> QED BY <2>2, <2>3 DEF GoesOn
  <1>4. Leaves(r, v)
    BY <1>1, Shapes, Ver, Whens, UntilGrows, Remain, Flow, Copied DEF Leaves
  <1> QED BY <1>1, <1>2, <1>3, <1>4, StaleStep

LEMMA PopulateStale ==
    ASSUME FlowInv, NEW r \in Requests, Populate(r), vain' = vain, vain' # now,
           NEW v \in Replaced, Underway(v), Remnants(v)
    PROVE  Underway(v)' /\ Remnants(v)'
  <1> USE DEF Populate, bounds, local, Ended
  <1>1. FlowInv' /\ FreshInv
    BY PopulateFlow DEF FlowInv
  <1>2. Others(r) /\ s3.ver <= s3'.ver
    BY <1>1, Shapes, Ver DEF Others
  <1>3. Busy(r) /\ Committed(r)
    BY DEF Busy, Committed
  <1>4. Remnants(v)'
    <2>1. disk'.ver \in 1 .. v => disk'.at <= Relied(v) + Lag
      BY <1>1, <1>3, Whens, UntilGrows, Remain, Copied
    <2>2. /\ pop'[r] = 0 /\ pc' = pc /\ held' = held /\ s3' = s3 /\ pc[r] = "idle"
          /\ published' = published /\ vain' = vain
      BY <1>1, Shapes, Timely
    <2> QED BY <1>1, <1>2, <2>1, <2>2, Remain, RemnantsStep
  <1>5. ASSUME NEW q \in Requests, Owes(q, v)
        PROVE  Owes(q, v)' /\ started'[q] = started[q]
    <2>1. pc[r] = "idle" /\ q # r
      BY <1>1, <1>5, Timely DEF Owes, Fetches
    <2> QED BY <1>1, <1>5, <2>1, Shapes DEF Owes, Fetches
  <1>6. Underway(v)'
    <2> SUFFICES ASSUME s3.ver <= v
                 PROVE  Underway(v)'
      BY DEF Underway
    <2>0. /\ Trusted(v)' = Trusted(v) /\ Until(v, renewed)' = Until(v, renewed')
          /\ renewed \in 0 .. MaxRenewals /\ renewed' \in 0 .. MaxRenewals
      BY <1>1, Whens DEF Trusted, Until, Settled, Since, ReplacedAt, FlowInv, FreshInv, TypeOK
    <2>1. CASE \E q \in Requests : Owes(q, v) /\ started[q] <= Trusted(v) + TTL + Lag
      BY <1>5, <2>0, <2>1 DEF Underway
    <2>2. CASE Behind(v, Trusted(v)) /\ \E q \in Requests : Owes(q, v)
      <3>1. PICK q \in Requests : Owes(q, v)
        BY <2>2
      <3>2. now <= Trusted(v) + TTL + Lag
        BY <1>1, <1>3, <2>2, Trusting, Whens, UntilGrows
      <3>3. started[q] <= Trusted(v) + TTL + Lag
        BY <1>1, <3>2, Whens, UntilGrows
      <3> QED BY <1>5, <2>0, <3>1, <3>3 DEF Underway
    <2>3. CASE Behind(v, Until(v, renewed))
      <3>1. now <= Until(v, renewed) + TTL + Lag
        BY <1>1, <1>3, <2>3, Trusting, Whens, UntilGrows
      <3>2. \/ disk' = disk /\ Until(v, renewed') = Until(v, renewed)
            \/ disk'.at <= Until(v, renewed') /\ Until(v, renewed) <= Until(v, renewed')
        BY <1>1, <2>0, <3>1, Copied, Whens, UntilGrows
      <3>3. ASSUME NEW q \in Requests
            PROVE  /\ held'[q] = held[q] /\ started'[q] <= started[q]
                   /\ started'[q] \in Nat
                   /\ Committed(q)' => Committed(q)
        BY <1>1, Shapes, Whens DEF Committed, Waited
      <3>4. Until(v, renewed) \in Nat /\ Until(v, renewed') \in Nat
        BY <1>1, <2>0, UntilGrows
      <3>5. Behind(v, Until(v, renewed))'
        BY <1>1, <2>0, <2>3, <3>2, <3>3, <3>4, Whens DEF Behind
      <3> QED BY <3>5 DEF Underway
    <2> QED BY <2>1, <2>2, <2>3 DEF Underway
  <1> QED BY <1>4, <1>6

LEMMA LeaveFlightStale ==
    ASSUME FlowInv, NEW r \in Requests, LeaveFlight(r), vain' = vain, vain' # now,
           NEW v \in Replaced, Underway(v), Remnants(v)
    PROVE  Underway(v)' /\ Remnants(v)'
  <1> USE DEF LeaveFlight, bounds, local, Ended
  <1>1. FlowInv' /\ FreshInv
    BY LeaveFlightFlow DEF FlowInv
  <1>2. Underway(v)'
    <2>1. CASE now <= Settled(v)
      <3>1. now' <= Settled(v)' /\ v \in Replaced'
        BY <2>1 DEF Settled, Since, ReplacedAt, Replaced, NotYet
      <3> QED BY <1>1, <3>1, EarlyNext DEF FlowInv
    <2>2. CASE now > Settled(v)
      BY <2>2, Late DEF Underway
    <2> QED BY <1>1, <2>1, <2>2, Whens, UntilGrows
  <1>3. Remnants(v)'
    <2>1. ASSUME NEW q \in Requests
          PROVE  /\ pc'[q] \in {"idle", "disk"} \/ pc'[q] = pc[q]
                 /\ q # r => started'[q] = started[q]
                 /\ q = r => pc'[q] = "idle" /\ started'[q] = 0
      BY <1>1, Shapes
    <2>2. Since(v)' = Since(v) /\ Relied(v)' = Relied(v) /\ Since(v) \in Nat /\ Relied(v) \in Nat
      BY <1>1, UntilGrows DEF Relied, Trusted, Until, Settled, Since, ReplacedAt
    <2> QED BY <2>1, <2>2 DEF Remnants
  <1> QED BY <1>2, <1>3

LEMMA TickStale ==
    ASSUME FlowInv, Tick, NEW v \in Replaced, Underway(v), Remnants(v)
    PROVE  Underway(v)' /\ Remnants(v)'
  BY DEF Tick, bounds, local, Underway, Owes, Fetches, Behind, Committed, Waited, Remnants,
         Relied, Trusted, Until, Settled, Since, ReplacedAt

LEMMA EvictStale ==
    ASSUME FlowInv, Evict, NEW v \in Replaced, Underway(v), Remnants(v)
    PROVE  Underway(v)' /\ Remnants(v)'
  <1> USE DEF Evict, bounds, local
  <1>1. /\ Trusted(v)' = Trusted(v) /\ Until(v, renewed)' = Until(v, renewed)
        /\ Relied(v)' = Relied(v) /\ Since(v)' = Since(v)
        /\ Trusted(v) \in Nat /\ Until(v, renewed) \in Nat
    BY UntilGrows, Whens DEF Relied, Trusted, Until, Settled, Since, ReplacedAt, FlowInv
  <1>2. \A t \in Nat : Behind(v, t) =>
            /\ s3'.at <= t /\ disk'.at <= t /\ heads'.at <= t /\ validated' <= t
            /\ \A r \in Requests :
                /\ held'[r].ver <= v => held'[r].at <= t
                /\ Committed(r)' => started'[r] <= t + TTL
    BY Nothing DEF Behind, Committed, Waited
  <1>3. \A q \in Requests : Owes(q, v) => Owes(q, v)'
    BY DEF Owes, Fetches
  <1>4. Underway(v)'
    <2>1. Behind(v, Trusted(v)) => Behind(v, Trusted(v))'
      BY <1>1, <1>2 DEF Behind
    <2>2. Behind(v, Until(v, renewed)) => Behind(v, Until(v, renewed))'
      BY <1>1, <1>2 DEF Behind
    <2> QED BY <1>1, <1>3, <2>1, <2>2 DEF Underway
  <1>5. Remnants(v)'
    <2>1. disk'.ver = 0
      BY Ver DEF FlowInv
    <2> QED BY <1>1, <2>1 DEF Remnants
  <1> QED BY <1>4, <1>5

(* A restart takes the handlers with it: when it loses no answer of        *)
(* upstream, no handler was fetching.                                      *)
LEMMA RestartStale ==
    ASSUME FlowInv, Restart, vain' = vain, vain' # now, NEW v \in Replaced, Underway(v), Remnants(v)
    PROVE  Underway(v)' /\ Remnants(v)'
  <1> USE DEF Restart, InVain, Fetching
  <1>1. s3.ver > v \/ \A q \in Requests : ~Owes(q, v)
    <2>1. CASE Fetching
      BY <2>1, NewIsCurrent DEF FlowInv
    <2>2. CASE ~Fetching
      BY <2>2, Hands, FreshnessAssumption DEF FlowInv, Flights, Leading, Owes, Fetches
    <2> QED BY <2>1, <2>2
  <1>2. /\ Until(v, renewed)' = Until(v, renewed) /\ Relied(v)' = Relied(v)
        /\ Until(v, renewed) \in Nat
    BY UntilGrows, Whens DEF Relied, Trusted, Until, Settled, Since, ReplacedAt, FlowInv
  <1>3. Underway(v)'
    <2>1. CASE Behind(v, Until(v, renewed))
      <3>1. \A q \in Requests : held'[q].at = 0 /\ ~Committed(q)'
        BY Nothing DEF Committed, Waited
      <3>2. Behind(v, Until(v, renewed))'
        BY <1>2, <2>1, <3>1, Nothing DEF Behind, Never
      <3> QED BY <3>2 DEF Underway
    <2>2. CASE s3.ver > v
      BY <2>2, Ver, UntilGrows DEF Underway, FlowInv
    <2>3. s3.ver \in Nat /\ v \in Nat
      BY Ver, UntilGrows DEF FlowInv
    <2> QED BY <1>1, <2>1, <2>2, <2>3 DEF Underway
  <1>4. Remnants(v)'
    BY <1>2 DEF Remnants
  <1> QED BY <1>3, <1>4

(* The publication itself makes one more version an old one.               *)
LEMMA PublishStale ==
    ASSUME FlowInv, Publish, NEW v \in Replaced',
           v \in Replaced => Underway(v) /\ Remnants(v)
    PROVE  Underway(v)' /\ Remnants(v)'
  <1> USE DEF Publish, bounds, local
  <1>1. FlowInv' /\ FreshInv
    BY PublishFlow DEF FlowInv
  <1>2. /\ v \in 1 .. MaxVersion - 1 /\ v + 1 \in Versions /\ Current \in Versions
        /\ published \in [Versions -> Time \cup {NotYet}]
    BY <1>1, CurrentIsLast, Numbers DEF Replaced, Versions, FreshInv, TypeOK
  <1>3. CASE v = Current
    <2>1. published'[v + 1] = now /\ now' = now /\ Since(v)' = now
      <3>1. published'[v + 1] = now /\ v # MaxVersion /\ vain <= now
        BY <1>1, <1>2, <1>3, Numbers DEF FreshInv, Clocks
      <3> QED BY <3>1 DEF Since, ReplacedAt
    <2>2. /\ Settled(v)' = now + Lag /\ now <= now + Lag
          /\ now <= Relied(v)' /\ now <= Relied(v)' + Lag /\ now <= Relied(v)' + Lag + TTL
          /\ Relied(v)' \in Int
      <3> DEFINE rest == MaxRenewals * (TTL + Lag)
      <3>1. rest \in Nat
        BY Numbers
      <3>2. Relied(v)' = now + Lag + rest + TTL + 2 * Lag
        BY <2>1 DEF Relied, Trusted, Until, Settled
      <3> HIDE DEF rest
      <3> QED BY <1>1, <2>1, <3>1, <3>2, Whens DEF Settled
    <2>3. Underway(v)'
      BY <1>1, <2>1, <2>2, EarlyNext DEF FlowInv
    <2>4. /\ disk'.at <= now
          /\ \A q \in Requests : started'[q] = started[q] /\ started[q] <= now
      BY <1>1, Whens
    <2>5. Remnants(v)'
      <3>1. disk'.at <= Relied(v)' + Lag
        BY <1>1, <2>2, <2>4, Whens
      <3>2. ASSUME NEW q \in Requests
            PROVE  /\ started'[q] <= Relied(v)' /\ started'[q] <= Relied(v)' + Lag + TTL
                   /\ started'[q] <= Since(v)'
        BY <1>1, <2>1, <2>2, <2>4, Whens
      <3> QED BY <3>1, <3>2 DEF Remnants
    <2> QED BY <2>3, <2>5
  <1>4. CASE v # Current
    <2>1. v + 1 # Current + 1 /\ published'[v + 1] = published[v + 1]
      BY <1>2, <1>4 DEF Versions
    <2>2. v \in Replaced
      BY <1>2, <2>1 DEF Replaced, NotYet
    <2>3. /\ Since(v)' = Since(v) /\ Settled(v)' = Settled(v)
          /\ Trusted(v)' = Trusted(v) /\ Relied(v)' = Relied(v)
          /\ Until(v, renewed)' = Until(v, renewed)
      BY <2>1 DEF Relied, Trusted, Until, Settled, Since, ReplacedAt
    <2> QED
      BY <2>1, <2>2, <2>3 DEF Underway, Owes, Fetches, Behind, Committed, Waited, Remnants
  <1> QED BY <1>3, <1>4

LEMMA HandleKeeps ==
    ASSUME NEW r \in Requests, Handle(r)
    PROVE  published' = published /\ now' = now /\ vain' \in {vain, now}
  <1> USE DEF Step, bounds, local, Done, GetHead, UpstreamError, InVain
  <1>1. CASE \/ Arrive(r) \/ DiskLookup(r) \/ DiskExpired(r) \/ DiskServe(r)
             \/ HeadCacheGet(r) \/ DeleteExpired(r) \/ S3Head(r) \/ RememberS3Head(r)
    BY <1>1 DEF Arrive, DiskLookup, DiskExpired, DiskServe, HeadCacheGet, DeleteExpired, S3Head,
                RememberS3Head
  <1>2. CASE CheckFresh(r) \/ Revalidate(r) \/ MarkValidated(r) \/ DropStale(r) \/ StreamS3(r)
             \/ Populate(r) \/ Join(r)
    BY <1>2 DEF CheckFresh, Revalidate, MarkValidated, DropStale, StreamS3, Populate, Join
  <1>3. CASE \/ UpstreamGet(r) \/ Upload(r) \/ Stored(r) \/ PopulateFile(r) \/ LeaderServes(r)
             \/ LeaveFlight(r)
    BY <1>3 DEF UpstreamGet, Upload, Stored, PopulateFile, LeaderServes, LeaveFlight
  <1> QED BY <1>1, <1>2, <1>3 DEF Handle

LEMMA StaleInit ==
    ASSUME Init
    PROVE  StaleInv
  <1>1. FlowInv
    BY FlowInit
  <1>2. Replaced = {}
    BY Numbers DEF Init, Replaced, Versions
  <1> QED BY <1>1, <1>2 DEF StaleInv

LEMMA StaleNext ==
    ASSUME StaleInv, [Next]_vars
    PROVE  StaleInv'
  <1>1. FlowInv /\ FlowInv'
    BY FlowNext DEF StaleInv
  <1>2. CASE UNCHANGED vars
    BY <1>1, <1>2 DEF vars, local, bounds, StaleInv, Replaced, NotYet, Underway, Owes, Fetches,
                      Behind, Committed, Waited, Remnants, Relied, Trusted, Until, Settled,
                      Since, ReplacedAt
  <1>3. CASE Tick
    <2>1. UNCHANGED <<published, vain>>
      BY <1>3 DEF Tick, bounds
    <2> QED BY <1>1, <1>3, <2>1, TickStale DEF StaleInv, Replaced, NotYet
  <1>4. CASE Publish
    BY <1>1, <1>4, PublishStale DEF StaleInv
  <1>5. CASE Evict
    <2>1. UNCHANGED <<published, vain>>
      BY <1>5 DEF Evict, bounds
    <2> QED BY <1>1, <1>5, <2>1, EvictStale DEF StaleInv, Replaced, NotYet
  <1>6. CASE Restart
    <2>1. published' = published /\ now' = now /\ vain' \in {vain, now}
      BY <1>6 DEF Restart, InVain
    <2>2. CASE vain' = now
      BY <1>1, <2>1, <2>2, AnewNext DEF StaleInv, FlowInv
    <2>3. CASE vain' # now
      BY <1>1, <1>6, <2>1, <2>3, RestartStale DEF StaleInv, Replaced, NotYet
    <2> QED BY <2>2, <2>3
  <1>7. ASSUME NEW r \in Requests, Handle(r)
        PROVE  StaleInv'
    <2>1. CASE vain' = now
      <3>1. now' = now
        BY <1>7, HandleKeeps
      <3> QED BY <1>1, <2>1, <3>1, AnewNext DEF StaleInv, FlowInv
    <2>2. ASSUME vain' = vain, vain' # now, NEW v \in Replaced, Underway(v), Remnants(v)
          PROVE  Underway(v)' /\ Remnants(v)'
      BY <1>1, <1>7, <2>2, ArriveStale, DiskLookupStale, DiskExpiredStale, DiskServeStale,
         HeadCacheGetStale, DeleteExpiredStale, S3HeadStale, RememberS3HeadStale, CheckFreshStale,
         RevalidateStale, MarkValidatedStale, DropStaleStale, StreamS3Stale, PopulateStale,
         JoinStale, UpstreamGetStale, UploadStale, StoredStale, PopulateFileStale,
         LeaderServesStale, LeaveFlightStale DEF Handle
    <2> QED BY <1>1, <1>7, <2>1, <2>2, HandleKeeps DEF StaleInv, Replaced, NotYet
  <1> QED BY <1>2, <1>3, <1>4, <1>5, <1>6, <1>7 DEF Next

(* One flight at a time, and S3 never goes back to an older version than   *)
(* one that the disk, a cached head or a handler has from it               *)
(* (handler.go:420-505, 673-742).                                          *)
THEOREM FlowInvariance == Spec => []FlowInv
  BY FlowInit, FlowNext, PTL DEF Spec

(* What keeps a replaced copy from being trusted for long, unless upstream *)
(* is asked in vain again and again.                                       *)
THEOREM StaleInvariance == Spec => []StaleInv
  BY StaleInit, StaleNext, PTL DEF Spec

(* A copy is handed out no longer than StaleAtMost after upstream replaced *)
(* it or was last asked in vain since, for any TTL, any lengths, any delay *)
(* of the handlers and any number of handlers, renewals and restarts       *)
(* (handler.go:162-184, 316-320, 344-348, 526-572, spool.go:82-176).       *)
THEOREM StaleOnlyBriefly == Spec => StaleIfAsked
  <1>1. ASSUME StaleInv, NEW r \in Requests, Answers(r)
        PROVE  now - Since(Answer(r)) <= StaleAtMost
    <2> DEFINE v == Answer(r)
    <2>1. FlowInv /\ FreshInv /\ (pc[r] \in {"diskserve", "get"} => Busy(r) /\ Committed(r))
      BY <1>1 DEF StaleInv, FlowInv, Busy, Committed
    <2>2. StaleAtMost \in Nat
      BY Numbers DEF StaleAtMost
    <2>3. v \in 1 .. MaxVersion
      BY <1>1, <2>1, Flow, Hands, CopyFields, Ver, Numbers DEF Answers, Answer, HasCopy
    <2>4. CASE v \notin Replaced
      <3>1. ReplacedAt(v) = NotYet /\ now <= MaxTime
        BY <2>1, <2>3, <2>4, Numbers, Hands DEF ReplacedAt, Replaced, Time
      <3>2. Since(v) = NotYet
        <4>1. vain \in Int /\ vain <= now /\ now \in Nat
          BY <2>1, Bounds DEF FreshInv, Clocks
        <4>2. vain <= NotYet
          BY <3>1, <4>1, Numbers DEF NotYet
        <4> QED BY <3>1, <4>2 DEF Since
      <3> QED BY <2>1, <2>2, <3>1, <3>2, Whens, Numbers DEF NotYet
    <2>5. CASE v \in Replaced
      <3> SUFFICES now - Since(v) <= StaleAtMost
        OBVIOUS
      <3> HIDE DEF v
      <3>1. Underway(v) /\ Remnants(v)
        BY <1>1, <2>5 DEF StaleInv
      <3>2. Since(v) \in Nat
        BY <2>1, <2>5, UntilGrows
      <3>3. /\ Relied(v) + 2 * Lag + TTL = Since(v) + StaleAtMost
            /\ Lag <= StaleAtMost
        <4> DEFINE rest == MaxRenewals * TTL
                   late == MaxRenewals * Lag
        <4>1. rest \in Nat /\ late \in Nat
          BY Numbers
        <4>2. /\ (2 + MaxRenewals) * TTL = 2 * TTL + rest
              /\ (5 + MaxRenewals) * Lag = 5 * Lag + late
              /\ MaxRenewals * (TTL + Lag) = rest + late
          BY Numbers
        <4> HIDE DEF rest, late
        <4> QED
          BY <2>1, <2>5, <4>1, <4>2, Numbers, UntilGrows
             DEF Relied, Trusted, Until, Settled, StaleAtMost
      <3>4. CASE pc[r] = "diskserve"
        <4>1. held[r].ver = v
          BY <3>4 DEF v, Answer
        <4>2. now <= Relied(v) + 2 * Lag + TTL
          BY <2>1, <2>3, <2>5, <3>1, <3>4, <4>1, Remain, Whens, UntilGrows
        <4> QED BY <2>1, <2>2, <2>5, <3>2, <3>3, <4>2, Whens, UntilGrows
      <3>5. CASE pc[r] = "get"
        <4>1. s3.ver = v
          BY <3>5 DEF v, Answer
        <4>2. now <= Relied(v) + 2 * Lag + TTL
          BY <2>1, <2>5, <3>1, <3>5, <4>1, Soon, Whens, UntilGrows
        <4> QED BY <2>1, <2>2, <2>5, <3>2, <3>3, <4>2, Whens, UntilGrows
      <3>6. CASE pc[r] = "lead"
        <4>1. held[r].ver = v /\ Busy(r)
          BY <3>6 DEF v, Answer, Busy
        <4>2. now <= Since(v) + Lag
          BY <2>1, <2>5, <3>1, <3>6, <4>1, Remain, Whens, UntilGrows
        <4> QED BY <2>1, <2>2, <2>5, <3>2, <3>3, <4>2, Whens, UntilGrows
      <3> QED BY <1>1, <3>4, <3>5, <3>6 DEF Answers, v
    <2> QED BY <2>4, <2>5
  <1>2. StaleInv /\ [Next]_vars
           => [\A r \in Requests : Answers(r) => now - Since(Answer(r)) <= StaleAtMost]_vars
    BY <1>1
  <1> QED BY StaleInvariance, <1>2, PTL DEF Spec, StaleIfAsked
=============================================================================
