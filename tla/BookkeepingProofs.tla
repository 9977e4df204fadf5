------------------------- MODULE BookkeepingProofs --------------------------
(***************************************************************************)
(* The counters, for any number of requests, saves, failures and restarts: *)
(* the peak is exact, metrics.json is the last save, what was saved is not *)
(* lost again, and what is not saved is marked, as long as main and the    *)
(* flush loop do not save at the same time.  And the usage of the bucket:  *)
(* exact from one listing to the next, unless something comes in between.  *)
(***************************************************************************)
EXTENDS Metrics, Usage, SumProofs

-----------------------------------------------------------------------------
(* Metrics.                                                                *)

(* Nothing that will be published exceeds the highest number of flights,   *)
(* and that number is the peak or about to be.                             *)
PeakInv ==
    /\ Cardinality(inflight) <= highest /\ peak <= highest /\ gauge <= highest
    /\ \A r \in Requests : n[r] <= highest
    /\ \/ peak = highest
       \/ \E r \in Requests : pc[r] \in {"enter_gauge", "enter_peak"} /\ n[r] = highest

(* A snapshot is of the past.                                              *)
SnapInv ==
    \A s \in Savers :
        Saving(s) => snap[s].is = "whole" /\ snap[s].counted <= counted /\ snap[s].peak <= peak

(* As long as the savers have taken turns.                                 *)
TurnsInv ==
    ~overlap =>
        /\ \A s, o \in Savers : Saving(s) /\ Saving(o) => s = o
        /\ \A s \in Savers :
              /\ fd[s] = IF saver[s] = "write" THEN "tmp" ELSE "none"
              /\ saver[s] = "write" => tmp = Torn
              /\ saver[s] = "rename" => tmp = snap[s]
              /\ saver[s] = "clean" => file = snap[s]
              /\ Saving(s) => file.counted <= snap[s].counted /\ file.peak <= snap[s].peak
        /\ file = saved
        /\ file.is = "none" => file = NoFile
        /\ file.counted <= counted /\ file.peak <= peak

MetricsInv == MetricsTypeOK /\ PeakInv /\ SnapInv /\ TurnsInv /\ UnsavedIsDirty

LEMMA FlightsAreCounted ==
    ASSUME NEW S \in SUBSET Requests
    PROVE  Cardinality(S) \in Nat
  BY MetricsAssumption, FS_Subset, FS_CardinalityType

LEMMA FewerFlights ==
    ASSUME NEW S \in SUBSET Requests, NEW r
    PROVE  Cardinality(S \ {r}) <= Cardinality(S) /\ Cardinality(S \ {r}) \in Nat
  <1>1. IsFiniteSet(S)
    BY MetricsAssumption, FS_Subset
  <1> QED BY <1>1, FS_Subset, FS_CardinalityType

-----------------------------------------------------------------------------
(* A request leaves the files alone, and only adds to the counters.        *)

Adds ==
    /\ UNCHANGED <<disk, savers, saved, overlap, missed>>
    /\ counted' >= counted /\ peak' >= peak

LEMMA AddsKeeps ==
    ASSUME MetricsInv, MetricsTypeOK', Adds
    PROVE  SnapInv' /\ TurnsInv'
  <1> USE DEF Adds, disk, savers
  <1>1. UNCHANGED <<file, tmp, fd, saver, snap, saved, overlap>>
    OBVIOUS
  <1>2. SnapInv'
    BY <1>1 DEF MetricsInv, MetricsTypeOK, SnapInv, Saving
  <1>3. TurnsInv'
    BY <1>1 DEF MetricsInv, MetricsTypeOK, TurnsInv, Saving
  <1> QED BY <1>2, <1>3

(* What a request adds, it marks, or is about to.                          *)
Mid == {"load", "raise", "dirty"}
LEMMA UnsavedKept ==
    ASSUME MetricsInv, Adds, NEW r \in Requests,
           \A q \in Requests \ {r} : pc'[q] = pc[q],
           \/ dirty'
           \/ pc'[r] \in Mid
           \/ pc[r] \notin Mid /\ counted' = counted /\ dirty' = dirty
    PROVE  UnsavedIsDirty'
  BY DEF MetricsInv, Adds, disk, UnsavedIsDirty, Loaded, Mid

LEMMA HitInv ==
    ASSUME MetricsInv, NEW r \in Requests, Hit(r) \/ Fetched(r)
    PROVE  MetricsInv'
  <1> USE DEF Hit, Fetched, Begin, Go, counters, disk, savers, history
  <1>1. MetricsTypeOK'
    BY MetricsAssumption, SMTT(20) DEF MetricsInv, MetricsTypeOK
  <1>2. PeakInv'
    BY DEF MetricsInv, MetricsTypeOK, PeakInv
  <1>3. Adds
    BY DEF MetricsInv, MetricsTypeOK, Adds
  <1>4. UnsavedIsDirty'
    BY <1>3, UnsavedKept DEF MetricsInv, MetricsTypeOK, Mid
  <1> QED BY <1>1, <1>2, <1>3, <1>4, AddsKeeps DEF MetricsInv

LEMMA EnterInv ==
    ASSUME MetricsInv, NEW r \in Requests, Enter(r)
    PROVE  MetricsInv'
  <1> USE DEF Enter, Begin, Go, counters, disk, savers
  <1>1. inflight' \in SUBSET Requests /\ Cardinality(inflight') \in Nat
    BY FlightsAreCounted DEF MetricsInv, MetricsTypeOK
  <1>2. highest' \in Nat /\ highest' >= highest /\ highest' >= Cardinality(inflight')
        /\ highest' \in {highest, Cardinality(inflight')}
    BY <1>1 DEF MetricsInv, MetricsTypeOK, Larger
  <1>3. MetricsTypeOK'
    BY <1>1, <1>2, MetricsAssumption DEF MetricsInv, MetricsTypeOK
  <1>4. pc'[r] = "enter_gauge" /\ n'[r] = Cardinality(inflight') /\ pc[r] = "idle"
        /\ \A q \in Requests \ {r} : pc'[q] = pc[q] /\ n'[q] = n[q]
    BY DEF MetricsInv, MetricsTypeOK
  <1>5. PeakInv'
    <2>1. /\ Cardinality(inflight') <= highest' /\ peak' <= highest' /\ gauge' <= highest'
          /\ \A q \in Requests : n'[q] <= highest'
      <3>1. highest \in Nat /\ peak \in Nat /\ gauge \in Nat /\ n \in [Requests -> Nat]
        BY DEF MetricsInv, MetricsTypeOK
      <3>2. peak <= highest /\ gauge <= highest /\ \A q \in Requests : n[q] <= highest
        BY DEF MetricsInv, PeakInv
      <3> QED BY <1>1, <1>2, <1>4, <3>1, <3>2, SMTT(20)
    <2>2. \/ peak' = highest'
          \/ \E q \in Requests : pc'[q] \in {"enter_gauge", "enter_peak"} /\ n'[q] = highest'
      BY <1>2, <1>4 DEF MetricsInv, PeakInv
    <2> QED BY <2>1, <2>2 DEF PeakInv
  <1>6. Adds
    BY DEF MetricsInv, MetricsTypeOK, Adds
  <1>7. UnsavedIsDirty'
    BY <1>4, <1>6, UnsavedKept DEF Mid
  <1> QED BY <1>3, <1>5, <1>6, <1>7, AddsKeeps DEF MetricsInv

LEMMA LeaveInv ==
    ASSUME MetricsInv, NEW r \in Requests, Leave(r)
    PROVE  MetricsInv'
  <1> USE DEF Leave, Go, counters, disk, savers, history
  <1>1. inflight' \in SUBSET Requests /\ Cardinality(inflight') \in Nat
        /\ Cardinality(inflight') <= Cardinality(inflight) /\ Cardinality(inflight) \in Nat
    BY FewerFlights, FlightsAreCounted DEF MetricsInv, MetricsTypeOK
  <1>2. MetricsTypeOK'
    BY <1>1 DEF MetricsInv, MetricsTypeOK
  <1>3. pc'[r] = "leave_gauge" /\ n'[r] = Cardinality(inflight') /\ pc[r] = "leave"
        /\ \A q \in Requests \ {r} : pc'[q] = pc[q] /\ n'[q] = n[q]
    BY DEF MetricsInv, MetricsTypeOK
  <1>4. PeakInv'
    <2>1. highest \in Nat /\ n \in [Requests -> Nat] /\ UNCHANGED <<highest, peak, gauge>>
      BY DEF MetricsInv, MetricsTypeOK
    <2>2. Cardinality(inflight') <= highest' /\ \A q \in Requests : n'[q] <= highest'
      BY <1>1, <1>3, <2>1 DEF MetricsInv, PeakInv
    <2>3. \/ peak' = highest'
          \/ \E q \in Requests : pc'[q] \in {"enter_gauge", "enter_peak"} /\ n'[q] = highest'
      BY <1>3, <2>1 DEF MetricsInv, PeakInv
    <2> QED BY <2>1, <2>2, <2>3 DEF MetricsInv, PeakInv
  <1>5. Adds
    BY DEF MetricsInv, MetricsTypeOK, Adds
  <1>6. UnsavedIsDirty'
    BY <1>3, <1>5, UnsavedKept DEF Mid
  <1> QED BY <1>2, <1>4, <1>5, <1>6, AddsKeeps DEF MetricsInv

LEMMA SetGaugeInv ==
    ASSUME MetricsInv, NEW r \in Requests,
           SetGauge(r, "enter_gauge", "enter_peak") \/ SetGauge(r, "leave_gauge", "leave_peak")
    PROVE  MetricsInv'
  <1> USE DEF SetGauge, Go, disk, savers, history
  <1>1. MetricsTypeOK'
    BY DEF MetricsInv, MetricsTypeOK
  <1>2. /\ pc[r] = "enter_gauge" => pc'[r] = "enter_peak"
        /\ pc[r] \notin {"enter_peak"} \cup Mid /\ pc'[r] \notin Mid
        /\ \A q \in Requests \ {r} : pc'[q] = pc[q]
    BY DEF MetricsInv, MetricsTypeOK, Mid
  <1>3. PeakInv'
    BY <1>2 DEF MetricsInv, MetricsTypeOK, PeakInv
  <1>4. Adds
    BY DEF MetricsInv, MetricsTypeOK, Adds
  <1>5. UnsavedIsDirty'
    BY <1>2, <1>4, UnsavedKept
  <1> QED BY <1>1, <1>3, <1>4, <1>5, AddsKeeps DEF MetricsInv

(* The peak is raised to what a request has read, whatever that is.        *)
LEMMA RaisedPeak ==
    ASSUME MetricsInv, NEW r \in Requests, peak' = RaisePeak(r), n' = [n EXCEPT ![r] = 0],
           UNCHANGED <<highest, inflight, gauge>>,
           \A q \in Requests \ {r} : pc'[q] = pc[q]
    PROVE  /\ PeakInv' /\ peak' \in Nat /\ peak' >= peak /\ n' \in [Requests -> Nat]
           /\ n[r] <= peak => peak' = peak
  <1>1. peak' \in Nat /\ peak' >= peak /\ peak' \in {peak, n[r]} /\ peak' >= n[r]
        /\ (n[r] <= peak => peak' = peak)
    BY DEF MetricsInv, MetricsTypeOK, RaisePeak, Larger
  <1>2. n' \in [Requests -> Nat] /\ n'[r] = 0 /\ \A q \in Requests \ {r} : n'[q] = n[q]
    BY DEF MetricsInv, MetricsTypeOK
  <1>3. /\ Cardinality(inflight') <= highest' /\ peak' <= highest' /\ gauge' <= highest'
        /\ \A q \in Requests : n'[q] <= highest'
    BY <1>1, <1>2 DEF MetricsInv, MetricsTypeOK, PeakInv
  <1>4. \/ peak' = highest'
        \/ \E q \in Requests : pc'[q] \in {"enter_gauge", "enter_peak"} /\ n'[q] = highest'
    BY <1>1, <1>2, <1>3 DEF MetricsInv, MetricsTypeOK, PeakInv
  <1> QED BY <1>1, <1>2, <1>3, <1>4 DEF PeakInv

LEMMA SetPeakInv ==
    ASSUME MetricsInv, NEW r \in Requests,
           \/ SetPeak(r, "enter_peak", "enter_dirty", "fetch")
           \/ SetPeak(r, "leave_peak", "leave_dirty", "idle")
    PROVE  MetricsInv'
  <1> USE DEF SetPeak, Go, disk, savers, history
  <1>1. pc[r] \notin Mid /\ \A q \in Requests \ {r} : pc'[q] = pc[q]
    BY DEF MetricsInv, MetricsTypeOK, Mid
  <1>2. PeakInv' /\ peak' \in Nat /\ peak' >= peak /\ n' \in [Requests -> Nat]
    BY <1>1, RaisedPeak
  <1>3. MetricsTypeOK'
    BY <1>2 DEF MetricsInv, MetricsTypeOK
  <1>4. Adds
    BY <1>2 DEF MetricsInv, MetricsTypeOK, Adds
  <1>5. UnsavedIsDirty'
    BY <1>1, <1>4, UnsavedKept
  <1> QED BY <1>2, <1>3, <1>4, <1>5, AddsKeeps DEF MetricsInv

LEMMA MarkRaisedInv ==
    ASSUME MetricsInv, NEW r \in Requests,
           MarkRaised(r, "enter_dirty", "fetch") \/ MarkRaised(r, "leave_dirty", "idle")
    PROVE  MetricsInv'
  <1> USE DEF MarkRaised, Go, disk, savers, history
  <1>1. MetricsTypeOK'
    BY DEF MetricsInv, MetricsTypeOK
  <1>2. \A q \in Requests \ {r} : pc'[q] = pc[q]
    BY DEF MetricsInv, MetricsTypeOK
  <1>3. PeakInv'
    BY <1>2 DEF MetricsInv, MetricsTypeOK, PeakInv
  <1>4. Adds
    BY DEF MetricsInv, MetricsTypeOK, Adds
  <1>5. UnsavedIsDirty'
    BY <1>2, <1>4, UnsavedKept
  <1> QED BY <1>1, <1>3, <1>4, <1>5, AddsKeeps DEF MetricsInv

LEMMA RaiseInv ==
    ASSUME MetricsInv, NEW r \in Requests, Raise(r)
    PROVE  MetricsInv'
  <1> USE DEF Raise, Go, disk, savers, history
  <1>1. pc'[r] = "dirty" /\ \A q \in Requests \ {r} : pc'[q] = pc[q]
    BY DEF MetricsInv, MetricsTypeOK
  <1>2. PeakInv' /\ peak' \in Nat /\ peak' >= peak /\ n' \in [Requests -> Nat]
    BY <1>1, RaisedPeak
  <1>3. MetricsTypeOK'
    BY <1>2 DEF MetricsInv, MetricsTypeOK
  <1>4. Adds
    BY <1>2 DEF MetricsInv, MetricsTypeOK, Adds
  <1>5. UnsavedIsDirty'
    BY <1>1, <1>4, UnsavedKept DEF Mid
  <1> QED BY <1>2, <1>3, <1>4, <1>5, AddsKeeps DEF MetricsInv

LEMMA AddInv ==
    ASSUME MetricsInv, NEW r \in Requests, Add(r) \/ Load(r) \/ MarkDirty(r)
    PROVE  MetricsInv'
  <1> USE DEF Add, Load, MarkDirty, Go, counters, disk, savers, history
  <1>1. MetricsTypeOK'
    <2>1. CASE Add(r)
      BY <2>1 DEF MetricsInv, MetricsTypeOK
    <2>2. CASE Load(r)
      BY <2>2 DEF MetricsInv, MetricsTypeOK
    <2>3. CASE MarkDirty(r)
      BY <2>3 DEF MetricsInv, MetricsTypeOK
    <2> QED BY <2>1, <2>2, <2>3
  <1>2. PeakInv'
    BY DEF MetricsInv, MetricsTypeOK, PeakInv
  <1>3. Adds
    BY DEF MetricsInv, MetricsTypeOK, Adds
  <1>4. \/ dirty' \/ pc'[r] \in Mid
    BY DEF MetricsInv, MetricsTypeOK, Mid
  <1>5. \A q \in Requests \ {r} : pc'[q] = pc[q]
    BY DEF MetricsInv, MetricsTypeOK
  <1>6. UnsavedIsDirty'
    BY <1>3, <1>4, <1>5, UnsavedKept
  <1> QED BY <1>1, <1>2, <1>3, <1>6, AddsKeeps DEF MetricsInv

LEMMA RequestInv ==
    ASSUME MetricsInv, NEW r \in Requests, Hit(r) \/ Enter(r) \/ Serve(r)
    PROVE  MetricsInv'
  BY HitInv, EnterInv, LeaveInv, SetGaugeInv, SetPeakInv, MarkRaisedInv,
     RaiseInv, AddInv DEF Serve

-----------------------------------------------------------------------------
(* Saving leaves the counters alone.                                       *)

LEMMA PeakKept ==
    ASSUME MetricsInv, UNCHANGED <<pc, inflight, n, peak, gauge, highest>>
    PROVE  PeakInv'
  BY DEF MetricsInv, PeakInv

LEMMA SnapshotInv ==
    ASSUME MetricsInv, NEW s \in Savers, Step(s, "idle", "create"), Snapshot(s),
           main' \in {"run", "stopping", "saving", "exited"}
    PROVE  MetricsInv'
  <1> USE DEF Step, Snapshot, requests, counters, disk
  <1>1. MetricsTypeOK'
    BY DEF MetricsInv, MetricsTypeOK, Savers
  <1>2. PeakInv'
    BY PeakKept
  <1>3. /\ saver'[s] = "create"
        /\ snap'[s] = [is |-> "whole", counted |-> counted, peak |-> peak]
        /\ \A o \in Savers \ {s} : saver'[o] = saver[o] /\ snap'[o] = snap[o]
    BY DEF MetricsInv, MetricsTypeOK
  <1>4. SnapInv'
    BY <1>3 DEF MetricsInv, MetricsTypeOK, SnapInv, Saving
  <1>5. TurnsInv'
    <2>1. CASE overlap'
      BY <2>1 DEF TurnsInv
    <2>2. CASE ~overlap'
      <3>1. ~overlap /\ \A o \in Savers \ {s} : ~Saving(o)
        BY <2>2 DEF MetricsInv, MetricsTypeOK
      <3>2. saver[s] = "idle"
        OBVIOUS
      <3> QED BY <1>3, <3>1, <3>2 DEF MetricsInv, MetricsTypeOK, TurnsInv, Saving
    <2> QED BY <2>1, <2>2
  <1>6. UnsavedIsDirty'
    BY DEF MetricsInv, MetricsTypeOK, UnsavedIsDirty, Loaded
  <1> QED BY <1>1, <1>2, <1>4, <1>5, <1>6 DEF MetricsInv

LEMMA MainInv ==
    ASSUME MetricsInv, FlushTick \/ FlushStops \/ Signal \/ FinalSave \/ Exit
    PROVE  MetricsInv'
  <1>1. CASE FlushTick
    <2>1. main' \in {"run", "stopping", "saving", "exited"}
      BY <1>1 DEF FlushTick, MetricsInv, MetricsTypeOK
    <2> QED BY <1>1, <2>1, SnapshotInv DEF FlushTick, Savers
  <1>2. CASE FinalSave
    BY <1>2, SnapshotInv DEF FinalSave, Savers
  <1>3. CASE FlushStops
    <2> USE <1>3 DEF FlushStops, Step, requests, counters, disk, history
    <2>1. MetricsTypeOK' /\ PeakInv'
      BY PeakKept DEF MetricsInv, MetricsTypeOK, Savers
    <2>2. saver'["flush"] = "stopped" /\ saver["flush"] = "idle"
          /\ \A o \in Savers \ {"flush"} : saver'[o] = saver[o]
      BY DEF MetricsInv, MetricsTypeOK, Savers
    <2>3. SnapInv' /\ TurnsInv'
      BY <2>2 DEF MetricsInv, SnapInv, TurnsInv, Saving
    <2>4. UnsavedIsDirty'
      BY DEF MetricsInv, UnsavedIsDirty, Loaded
    <2> QED BY <2>1, <2>3, <2>4 DEF MetricsInv
  <1>4. CASE Signal \/ Exit
    <2> USE <1>4 DEF Signal, Exit, requests, counters, disk, savers, history
    <2>1. MetricsTypeOK' /\ PeakInv'
      BY PeakKept DEF MetricsInv, MetricsTypeOK
    <2>2. SnapInv' /\ TurnsInv'
      BY DEF MetricsInv, SnapInv, TurnsInv, Saving
    <2>3. UnsavedIsDirty'
      BY DEF MetricsInv, UnsavedIsDirty, Loaded
    <2> QED BY <2>1, <2>2, <2>3 DEF MetricsInv
  <1> QED BY <1>1, <1>2, <1>3, <1>4

LEMMA CreateInv ==
    ASSUME MetricsInv, NEW s \in Savers, Create(s)
    PROVE  MetricsInv'
  <1> USE DEF Create, Step, requests, counters, history
  <1>1. MetricsTypeOK' /\ PeakInv'
    BY PeakKept DEF MetricsInv, MetricsTypeOK, Torn
  <1>2. /\ saver'[s] = "write" /\ saver[s] = "create" /\ fd'[s] = "tmp"
        /\ \A o \in Savers \ {s} : saver'[o] = saver[o] /\ fd'[o] = fd[o]
    BY DEF MetricsInv, MetricsTypeOK
  <1>3. SnapInv' /\ TurnsInv'
    BY <1>2 DEF MetricsInv, SnapInv, TurnsInv, Saving
  <1>4. UnsavedIsDirty'
    BY DEF MetricsInv, UnsavedIsDirty, Loaded
  <1> QED BY <1>1, <1>3, <1>4 DEF MetricsInv

LEMMA WriteInv ==
    ASSUME MetricsInv, NEW s \in Savers, Write(s)
    PROVE  MetricsInv'
  <1> USE DEF Write, Step, requests, counters, history
  <1>1. \A old, new : Over(old, new) \subseteq {new, Torn}
    BY DEF Over
  <1>2. tmp' \in {tmp, snap[s], Torn} /\ file' \in {file, snap[s], Torn}
    BY <1>1
  <1>3. MetricsTypeOK' /\ PeakInv'
    BY <1>2, PeakKept DEF MetricsInv, MetricsTypeOK, Torn
  <1>4. /\ saver'[s] = "rename" /\ saver[s] = "write" /\ fd'[s] = "none"
        /\ \A o \in Savers \ {s} : saver'[o] = saver[o] /\ fd'[o] = fd[o]
    BY DEF MetricsInv, MetricsTypeOK
  <1>5. ~overlap => tmp' = snap[s] /\ file' = file
    <2> SUFFICES ASSUME ~overlap PROVE tmp' = snap[s] /\ file' = file
      OBVIOUS
    <2>1. fd[s] = "tmp" /\ tmp = Torn
      BY <1>4 DEF MetricsInv, TurnsInv
    <2> QED BY <2>1 DEF Over, Torn
  <1>6. SnapInv' /\ TurnsInv'
    BY <1>4, <1>5 DEF MetricsInv, SnapInv, TurnsInv, Saving
  <1>7. UnsavedIsDirty'
    BY <1>5 DEF MetricsInv, UnsavedIsDirty, Loaded
  <1> QED BY <1>3, <1>6, <1>7 DEF MetricsInv

(* Under turns, a rename installs the saver's own snapshot, which is not   *)
(* behind what it replaces.                                                *)
LEMMA RenameInstalls ==
    ASSUME MetricsInv, NEW s \in Savers, Rename(s), ~overlap
    PROVE  file' = snap[s] /\ file'.counted >= file.counted /\ file'.peak >= file.peak
  BY DEF MetricsInv, MetricsTypeOK, TurnsInv, Saving, Rename, Step

LEMMA RenameInv ==
    ASSUME MetricsInv, NEW s \in Savers, Rename(s)
    PROVE  MetricsInv'
  <1> USE DEF Rename, Step, requests, counters
  <1>1. /\ saver'[s] = "clean" /\ saver[s] = "rename"
        /\ \A o \in Savers \ {s} : saver'[o] = saver[o]
    BY DEF MetricsInv, MetricsTypeOK
  <1>2. snap[s].is = "whole" /\ snap[s].counted <= counted /\ snap[s].peak <= peak
    BY <1>1 DEF MetricsInv, SnapInv, Saving
  <1>3. MetricsTypeOK' /\ PeakInv'
    BY <1>2, PeakKept DEF MetricsInv, MetricsTypeOK, NoFile
  <1>4. SnapInv'
    BY <1>1 DEF MetricsInv, SnapInv, Saving
  <1>5. TurnsInv'
    <2> SUFFICES ASSUME ~overlap PROVE TurnsInv'
      BY DEF TurnsInv
    <2>1. file' = snap[s] /\ saved' = snap[s]
      BY RenameInstalls
    <2>2. \A o \in Savers \ {s} : ~Saving(o) /\ fd[o] = "none"
      BY <1>1 DEF MetricsInv, TurnsInv, Saving
    <2>3. \A o \in Savers : fd'[o] = "none"
      BY <1>1, <2>2 DEF MetricsInv, TurnsInv
    <2> QED BY <1>1, <1>2, <2>1, <2>2, <2>3 DEF MetricsInv, MetricsTypeOK, TurnsInv, Saving
  <1>6. UnsavedIsDirty'
    <2> SUFFICES ASSUME ~overlap, UnsavedIsDirty PROVE UnsavedIsDirty'
      BY DEF MetricsInv, UnsavedIsDirty
    <2>1. /\ file' = snap[s] /\ file'.counted >= file.counted
          /\ file' \in [is : {"none", "whole"}, counted : Nat, peak : Nat]
      BY RenameInstalls DEF MetricsInv, MetricsTypeOK
    <2>2. Loaded.counted <= file.counted /\ Loaded'.counted = file'.counted /\ Loaded.counted \in Nat
      BY <1>2, <2>1 DEF MetricsInv, MetricsTypeOK, Loaded, NoFile
    <2> QED BY <2>1, <2>2 DEF MetricsInv, MetricsTypeOK, UnsavedIsDirty
  <1> QED BY <1>3, <1>4, <1>5, <1>6 DEF MetricsInv

LEMMA MarkCleanInv ==
    ASSUME MetricsInv, NEW s \in Savers, MarkClean(s)
    PROVE  MetricsInv'
  <1> USE DEF MarkClean, Step, After, requests, disk
  <1>1. /\ saver'[s] \in {"idle", "stopped"} /\ saver[s] = "clean"
        /\ \A o \in Savers \ {s} : saver'[o] = saver[o] /\ snap'[o] = snap[o]
    BY DEF MetricsInv, MetricsTypeOK
  <1>2. snap[s].is = "whole" /\ snap[s].counted <= counted /\ snap[s].counted \in Nat
    BY <1>1 DEF MetricsInv, MetricsTypeOK, SnapInv, Saving
  <1>3. MetricsTypeOK' /\ PeakInv'
    <2>1. saver' \in [Savers -> {"idle", "create", "write", "rename", "clean", "stopped"}]
      BY DEF MetricsInv, MetricsTypeOK
    <2>2. snap' \in [Savers -> [is : {"none", "whole"}, counted : Nat, peak : Nat]]
      BY DEF MetricsInv, MetricsTypeOK, NoFile
    <2>3. missed' \in Nat
      BY <1>2 DEF MetricsInv, MetricsTypeOK
    <2> QED BY <2>1, <2>2, <2>3, PeakKept DEF MetricsInv, MetricsTypeOK
  <1>4. SnapInv'
    BY <1>1 DEF MetricsInv, SnapInv, Saving
  <1>5. TurnsInv'
    BY <1>1 DEF MetricsInv, TurnsInv, Saving
  <1>6. UnsavedIsDirty'
    <2> SUFFICES ASSUME ~overlap PROVE counted' <= Loaded'.counted + missed'
      BY DEF UnsavedIsDirty
    <2>1. file' = snap[s]
      BY <1>1 DEF MetricsInv, TurnsInv
    <2> QED BY <1>2, <2>1 DEF MetricsInv, MetricsTypeOK, Loaded
  <1> QED BY <1>3, <1>4, <1>5, <1>6 DEF MetricsInv

LEMMA SaveFailsInv ==
    ASSUME MetricsInv, NEW s \in Savers, SaveFails(s)
    PROVE  MetricsInv'
  <1> USE DEF SaveFails, Step, After, requests, counters, history
  <1>1. /\ saver'[s] \in {"idle", "stopped"} /\ fd'[s] = "none"
        /\ \A o \in Savers \ {s} : saver'[o] = saver[o] /\ snap'[o] = snap[o] /\ fd'[o] = fd[o]
    BY DEF MetricsInv, MetricsTypeOK
  <1>2. MetricsTypeOK' /\ PeakInv'
    <2>1. saver' \in [Savers -> {"idle", "create", "write", "rename", "clean", "stopped"}]
      BY DEF MetricsInv, MetricsTypeOK
    <2>2. snap' \in [Savers -> [is : {"none", "whole"}, counted : Nat, peak : Nat]]
          /\ fd' \in [Savers -> {"none", "tmp", "file"}]
      BY DEF MetricsInv, MetricsTypeOK, NoFile
    <2>3. saveFaults' \in 0 .. MaxSaveFaults
      BY MetricsAssumption DEF MetricsInv, MetricsTypeOK
    <2> QED BY <2>1, <2>2, <2>3, PeakKept DEF MetricsInv, MetricsTypeOK
  <1>3. SnapInv' /\ TurnsInv'
    BY <1>1 DEF MetricsInv, SnapInv, TurnsInv, Saving
  <1>4. UnsavedIsDirty'
    BY DEF MetricsInv, UnsavedIsDirty, Loaded
  <1> QED BY <1>2, <1>3, <1>4 DEF MetricsInv

LEMMA RestartInv ==
    ASSUME MetricsInv, Restart
    PROVE  MetricsInv'
  <1> USE DEF Restart
  <1>1. Loaded.counted \in Nat /\ Loaded.peak \in Nat
    BY DEF MetricsInv, MetricsTypeOK, Loaded, NoFile
  <1>2. MetricsTypeOK'
    <2>1. restarts' \in 0 .. MaxRestarts
      BY MetricsAssumption DEF MetricsInv, MetricsTypeOK
    <2>2. /\ saver' \in [Savers -> {"idle", "create", "write", "rename", "clean", "stopped"}]
          /\ snap' \in [Savers -> [is : {"none", "whole"}, counted : Nat, peak : Nat]]
          /\ fd' \in [Savers -> {"none", "tmp", "file"}]
      BY DEF NoFile
    <2>3. n' \in [Requests -> Nat] /\ inflight' \subseteq Requests /\ 0 \in Nat
      OBVIOUS
    <2> QED BY <1>1, <2>1, <2>2, <2>3 DEF MetricsInv, MetricsTypeOK
  <1>3. PeakInv'
    <2>1. Cardinality(inflight') = 0
      BY FS_EmptySet
    <2> QED BY <1>1, <2>1 DEF PeakInv
  <1>4. SnapInv'
    BY DEF SnapInv, Saving
  <1>5. TurnsInv'
    <2> SUFFICES ASSUME ~overlap PROVE TurnsInv'
      BY DEF TurnsInv
    <2>1. file = saved /\ (file.is = "none" => file = NoFile)
      BY DEF MetricsInv, TurnsInv
    <2>2. Loaded = file
      BY <2>1 DEF MetricsInv, MetricsTypeOK, Loaded
    <2> QED BY <1>1, <2>1, <2>2 DEF TurnsInv, Saving
  <1>6. UnsavedIsDirty'
    BY <1>1 DEF UnsavedIsDirty, Loaded
  <1> QED BY <1>2, <1>3, <1>4, <1>5, <1>6 DEF MetricsInv

LEMMA CountersInit ==
    ASSUME MetricsInit
    PROVE  MetricsInv
  <1> USE DEF MetricsInit, NoFile
  <1>1. MetricsTypeOK
    <2>1. served \in 0 .. MaxServed /\ saveFaults \in 0 .. MaxSaveFaults
          /\ restarts \in 0 .. MaxRestarts
      BY MetricsAssumption
    <2>2. /\ saver \in [Savers -> {"idle", "create", "write", "rename", "clean", "stopped"}]
          /\ snap \in [Savers -> [is : {"none", "whole"}, counted : Nat, peak : Nat]]
          /\ fd \in [Savers -> {"none", "tmp", "file"}]
      OBVIOUS
    <2>3. n \in [Requests -> Nat] /\ inflight \subseteq Requests /\ 0 \in Nat
      OBVIOUS
    <2> QED BY <2>1, <2>2, <2>3 DEF MetricsTypeOK
  <1>2. PeakInv
    <2>1. Cardinality(inflight) = 0
      BY FS_EmptySet
    <2> QED BY <2>1 DEF PeakInv
  <1>3. SnapInv /\ TurnsInv
    BY DEF SnapInv, TurnsInv, Saving
  <1>4. UnsavedIsDirty
    BY DEF UnsavedIsDirty, Loaded
  <1> QED BY <1>1, <1>2, <1>3, <1>4 DEF MetricsInv

LEMMA CountersStep ==
    ASSUME MetricsInv, [MetricsNext]_metricsVars
    PROVE  MetricsInv'
  <1>1. CASE UNCHANGED metricsVars
    <2> USE <1>1 DEF metricsVars, requests, counters, disk, savers, history
    <2>1. MetricsTypeOK' /\ PeakInv'
      BY PeakKept DEF MetricsInv, MetricsTypeOK
    <2>2. SnapInv' /\ TurnsInv'
      BY DEF MetricsInv, SnapInv, TurnsInv, Saving
    <2>3. UnsavedIsDirty'
      BY DEF MetricsInv, UnsavedIsDirty, Loaded
    <2> QED BY <2>1, <2>2, <2>3 DEF MetricsInv
  <1>2. CASE MetricsNext
    BY <1>2, RequestInv, MainInv, CreateInv, WriteInv, RenameInv, MarkCleanInv, SaveFailsInv,
       RestartInv DEF MetricsNext, Save
  <1> QED BY <1>1, <1>2

(* The types, the peak, what the savers have read and what is marked dirty *)
(* hold together in every reachable state, whatever is stopped, fails or   *)
(* restarts (metrics.go:78-230).                                           *)
THEOREM CountersInvariance == MetricsSpec => []MetricsInv
  BY CountersInit, CountersStep, PTL DEF MetricsSpec

(* Counters, files and the places of requests and savers keep their types  *)
(* (metrics.go:30-230).                                                    *)
THEOREM CountersTyped == MetricsSpec => []MetricsTypeOK
  <1>1. MetricsInv => MetricsTypeOK
    BY DEF MetricsInv
  <1> QED BY CountersInvariance, <1>1, PTL

(* The peak is never more than the flights there were, and exact whenever  *)
(* no request is about to publish one (metrics.go:78-105).                 *)
THEOREM PeakIsExact == MetricsSpec => []PeakExact
  <1>1. MetricsInv => PeakExact
    BY DEF MetricsInv, PeakInv, PeakExact
  <1> QED BY CountersInvariance, <1>1, PTL

(* As long as the savers take turns, metrics.json is what the last renamed *)
(* save had read, wherever the process stops (metrics.go:220-226).         *)
THEOREM FileIsTheLastSave == MetricsSpec => []FileIsLastSave
  <1>1. MetricsInv => FileIsLastSave
    BY DEF MetricsInv, TurnsInv, FileIsLastSave
  <1> QED BY CountersInvariance, <1>1, PTL

(* A clean process that crashes loses at most what was added while the last*)
(* save was under way (metrics.go:90, 228).                                *)
THEOREM UnsavedIsMarked == MetricsSpec => []UnsavedIsDirty
  <1>1. MetricsInv => UnsavedIsDirty
    BY DEF MetricsInv
  <1> QED BY CountersInvariance, <1>1, PTL

(* No save, crash or restart takes the file back (metrics.go:155-230).     *)
THEOREM SavedStays == MetricsSpec => SavedNeverRegresses
  <1>1. ASSUME MetricsInv, MetricsInv', [MetricsNext]_metricsVars, file' # file, ~overlap'
        PROVE  file'.counted >= file.counted /\ file'.peak >= file.peak
    <2>1. CASE \E s \in Savers : Rename(s)
      BY <1>1, <2>1, RenameInstalls DEF Rename, history
    <2>2. CASE ~\E s \in Savers : Rename(s)
      <3>1. PICK s \in Savers : Write(s)
        BY <1>1, <2>2 DEF MetricsNext, Save, Serve, Hit, Enter, Leave, SetGauge, SetPeak,
                     MarkRaised, Fetched, Add, Load, Raise, MarkDirty, FlushTick, FlushStops, Snapshot, Create,
                     MarkClean, SaveFails, Signal, FinalSave, Exit, Restart, metricsVars, disk
      <3>2. fd[s] = "tmp"
        BY <1>1, <3>1 DEF MetricsInv, TurnsInv, Write, Step, history
      <3> QED BY <1>1, <3>1, <3>2 DEF Write
    <2> QED BY <2>1, <2>2
  <1>2. MetricsInv /\ MetricsInv' /\ [MetricsNext]_metricsVars
           => [~overlap' => file'.counted >= file.counted /\ file'.peak >= file.peak]_metricsVars
    <2>1. MetricsInv /\ file' = file => file'.counted >= file.counted /\ file'.peak >= file.peak
      BY DEF MetricsInv, MetricsTypeOK
    <2> QED BY <1>1, <2>1
  <1> QED BY CountersInvariance, <1>2, PTL DEF MetricsSpec, SavedNeverRegresses

-----------------------------------------------------------------------------
(* Usage of the bucket.                                                    *)

(* A listing has counted no more objects than it has seen keys; and what   *)
(* it has summed up is there, unless something came in between.            *)
ListedSoFar ==
    /\ listing.at # 0 => listing.count <= listing.at - 1
    /\ listing.at # 0 /\ ~disturbed =>
          /\ Unnoted = {}
          /\ listing.bytes = SumFunctionOnSet(bucket, 1 .. listing.at - 1)
          /\ listing.count = Cardinality({k \in 1 .. listing.at - 1 : bucket[k] # 0})

UsageInv == UsageTypeOK /\ ListedSoFar /\ UsageExact

LEMMA UsageFinite ==
    /\ IsFiniteSet(Keys) /\ LastKey \in Nat \ {0} /\ MaxSize \in Nat \ {0}
    /\ \A top \in Int : IsFiniteSet(1 .. top)
    /\ \A S \in SUBSET Uploads : IsFiniteSet(S)
    /\ \A S \in SUBSET Keys : IsFiniteSet(S)
  <1>1. \A top \in Int : IsFiniteSet(1 .. top)
    BY FS_Interval
  <1>2. LastKey \in Nat \ {0} /\ MaxSize \in Nat \ {0} /\ IsFiniteSet(Uploads)
    BY UsageAssumption
  <1>3. IsFiniteSet(Keys)
    BY <1>1, <1>2 DEF Keys
  <1>4. \A S \in SUBSET Uploads : IsFiniteSet(S)
    BY <1>2, FS_Subset
  <1>5. \A S \in SUBSET Keys : IsFiniteSet(S)
    BY <1>3, FS_Subset
  <1> QED BY <1>1, <1>2, <1>3, <1>4, <1>5

(* A listing that has not begun, and any other.                            *)
Listings == [at : 0 .. LastKey + 1, bytes : Nat, count : 0 .. LastKey]

LEMMA NoListingType == NoListing \in Listings /\ NoListing.at = 0
  <1>1. 0 \in 0 .. LastKey + 1 /\ 0 \in 0 .. LastKey /\ 0 \in Nat
    BY UsageFinite
  <1> QED BY <1>1 DEF NoListing, Listings

(* UsageTypeOK, but for the listing.                                       *)
RestOfType ==
    /\ bucket \in [Keys -> 0 .. MaxSize]
    /\ upload \in [Uploads -> {"idle", "looked", "stored"}] /\ key \in [Uploads -> Keys]
    /\ existing \in [Uploads -> 0 .. MaxSize] /\ size \in [Uploads -> 0 .. MaxSize]
    /\ used \in Int /\ objects \in Nat
    /\ cancelled \in BOOLEAN /\ drift \in BOOLEAN /\ disturbed \in BOOLEAN
    /\ stores \in 0 .. MaxStores /\ listFaults \in 0 .. MaxListFaults
    /\ crashes \in 0 .. MaxCrashes

LEMMA TypeParts ==
    /\ UsageTypeOK <=> RestOfType /\ listing \in Listings
    /\ UsageTypeOK' <=> RestOfType' /\ listing' \in Listings
  <1> DEFINE L == [at : 0 .. LastKey + 1, bytes : Nat, count : 0 .. LastKey]
  <1>1. L = Listings
    BY DEF Listings
  <1>2. /\ UsageTypeOK <=> RestOfType /\ listing \in L
        /\ UsageTypeOK' <=> RestOfType' /\ listing' \in L
    <2> HIDE DEF L
    <2> QED BY DEF UsageTypeOK, RestOfType, L
  <1> QED BY <1>1, <1>2

(* How many objects a set of keys has, when one of them changes.           *)
LEMMA CountAdd ==
    ASSUME NEW S, IsFiniteSet(S), NEW x, x \notin S
    PROVE  /\ IsFiniteSet(S \cup {x}) /\ Cardinality(S \cup {x}) = Cardinality(S) + 1
           /\ Cardinality(S) \in Nat
  BY FS_AddElement, FS_CardinalityType

LEMMA CountRemove ==
    ASSUME NEW S, IsFiniteSet(S), NEW x \in S
    PROVE  Cardinality(S) = Cardinality(S \ {x}) + 1 /\ Cardinality(S \ {x}) \in Nat
  <1>1. IsFiniteSet(S \ {x}) /\ x \notin S \ {x} /\ (S \ {x}) \cup {x} = S
    BY FS_RemoveElement
  <1>2. /\ Cardinality((S \ {x}) \cup {x}) = Cardinality(S \ {x}) + 1
        /\ Cardinality(S \ {x}) \in Nat
    BY <1>1, CountAdd
  <1> QED BY <1>1, <1>2

(* Both equations of UsageExact in terms of what they speak about.         *)
Owed    == SumFunctionOnSet(Grew, Unnoted)
Created == {u \in Unnoted : existing[u] = 0}
There   == {k \in Keys : bucket[k] # 0}

LEMMA UsageSums ==
    ASSUME UsageTypeOK
    PROVE  /\ IsFiniteSet(Unnoted) /\ IsFiniteSet(Created) /\ IsFiniteSet(There)
           /\ \A u \in Unnoted : Grew[u] \in Int
           /\ \A k \in Keys : bucket[k] \in Nat
           /\ Owed \in Int /\ Holds \in Int
           /\ Cardinality(Created) \in Nat /\ Cardinality(There) \in Nat
  <1>1. IsFiniteSet(Unnoted) /\ IsFiniteSet(Created) /\ IsFiniteSet(There)
    BY UsageFinite DEF Unnoted, Created, There
  <1>2. (\A u \in Unnoted : Grew[u] \in Int) /\ (\A k \in Keys : bucket[k] \in Nat)
    BY UsageFinite DEF UsageTypeOK, Unnoted, Grew
  <1>3. Owed \in Int
    BY <1>1, <1>2, SumInt DEF Owed
  <1>4. Holds \in Int
    BY <1>2, UsageFinite, SumInt DEF Holds
  <1> QED BY <1>1, <1>2, <1>3, <1>4, FS_CardinalityType

LEMMA Exactly ==
    /\ UsageExact <=>
         (~drift => used + Owed = Holds /\ objects + Cardinality(Created) = Cardinality(There))
    /\ UsageExact' <=>
         (~drift' => used' + Owed' = Holds' /\ objects' + Cardinality(Created') = Cardinality(There'))
  BY DEF UsageExact, Owed, Created, There

(* The books stay as exact as they are when neither the bucket nor what is *)
(* yet to be noted changes.                                                *)
LEMMA ExactKept ==
    ASSUME UsageExact, UNCHANGED <<bucket, used, objects, drift>>, Unnoted' = Unnoted,
           \A u \in Unnoted : existing'[u] = existing[u] /\ size'[u] = size[u],
           UsageTypeOK
    PROVE  UsageExact'
  <1>1. Owed' = Owed
    <2>1. \A u \in Unnoted : Grew'[u] = Grew[u]
      BY DEF Grew, Unnoted
    <2>2. ASSUME NEW f, NEW g, \A u \in Unnoted : f[u] = g[u]
          PROVE  SumFunctionOnSet(f, Unnoted) = SumFunctionOnSet(g, Unnoted)
      BY <2>2, UsageSums, SumSame
    <2> QED BY <2>1, <2>2 DEF Owed
  <1>2. Created' = Created /\ There' = There /\ Holds' = Holds
    BY DEF Created, There, Holds
  <1> QED BY <1>1, <1>2, Exactly

LEMMA ListedKept ==
    ASSUME ListedSoFar, UNCHANGED <<bucket, listing, disturbed>>, Unnoted' = Unnoted
    PROVE  ListedSoFar'
  BY DEF ListedSoFar

(* Requests that have stored nothing are in no sum.                        *)
LEMMA QuietSteps ==
    ASSUME UsageInv, UNCHANGED <<bucket, used, objects, listing, drift, disturbed>>,
           Unnoted' = Unnoted,
           \A u \in Unnoted : existing'[u] = existing[u] /\ size'[u] = size[u]
    PROVE  ListedSoFar' /\ UsageExact'
  BY ExactKept, ListedKept DEF UsageInv

LEMMA LookInv ==
    ASSUME UsageInv, NEW u \in Uploads,
           \/ \E k \in Keys, seen \in 0 .. MaxSize : Look(u, k, seen)
           \/ StoresNothing(u)
    PROVE  UsageInv'
  <1>1. UsageTypeOK'
    <2>1. 1 \in Keys /\ 0 \in 0 .. MaxSize
      BY UsageFinite DEF Keys
    <2>2. CASE \E k \in Keys, seen \in 0 .. MaxSize : Look(u, k, seen)
      BY <2>2, UsageAssumption DEF UsageInv, UsageTypeOK, Look, sums, record
    <2>3. CASE StoresNothing(u)
      BY <2>1, <2>3 DEF UsageInv, UsageTypeOK, StoresNothing, Forgotten, sums, record
    <2> QED BY <2>2, <2>3
  <1>2. /\ UNCHANGED <<bucket, used, objects, listing, drift, disturbed>>
        /\ Unnoted' = Unnoted
        /\ \A o \in Unnoted : existing'[o] = existing[o] /\ size'[o] = size[o]
    <2>1. u \notin Unnoted /\ UNCHANGED <<bucket, used, objects, listing, drift, disturbed>>
      BY DEF Look, StoresNothing, Unnoted, sums, record
    <2>2. upload'[u] # "stored"
          /\ \A o \in Uploads \ {u} : /\ upload'[o] = upload[o] /\ existing'[o] = existing[o]
                                      /\ size'[o] = size[o]
      BY DEF Look, StoresNothing, Forgotten, UsageInv, UsageTypeOK
    <2> QED BY <2>1, <2>2 DEF Unnoted
  <1> QED BY <1>1, <1>2, QuietSteps DEF UsageInv

(* What is stored is owed until it is noted.                               *)
LEMMA PutFileInv ==
    ASSUME UsageInv, NEW u \in Uploads, NEW s \in Lengths, PutFile(u, s)
    PROVE  UsageInv'
  <1> DEFINE k == key[u]
  <1>1. /\ UsageTypeOK /\ k \in Keys /\ s \in Nat \ {0} /\ s \in 0 .. MaxSize
        /\ existing[u] \in Nat /\ bucket[k] \in Nat
    BY SMTT(30), UsageFinite DEF UsageInv, UsageTypeOK, Lengths
  <1>2. UsageTypeOK'
    BY <1>1 DEF PutFile, UsageTypeOK, sums
  <1>3. ListedSoFar'
    BY DEF PutFile, UsageInv, ListedSoFar
  <1>4. ASSUME ~drift'
        PROVE  used' + Owed' = Holds' /\ objects' + Cardinality(Created') = Cardinality(There')
    <2>1. ~drift /\ existing[u] = bucket[k] /\ UNCHANGED <<used, objects, existing>>
      BY <1>4 DEF PutFile, sums
    <2>2. /\ used + Owed = Holds /\ objects + Cardinality(Created) = Cardinality(There)
          /\ used \in Int /\ objects \in Nat
      BY <1>1, <2>1, Exactly DEF UsageInv, UsageTypeOK
    <2>3. /\ u \notin Unnoted /\ Unnoted' = Unnoted \cup {u}
          /\ \A o \in Unnoted : Grew'[o] = Grew[o]
          /\ Grew'[u] = s - existing[u]
      BY <1>1, <2>1 DEF PutFile, UsageTypeOK, Unnoted, Grew
    <2>4. Owed' = (s - existing[u]) + Owed
      <3>1. ASSUME NEW f, NEW g, \A o \in Unnoted : f[o] \in Int /\ g[o] = f[o], g[u] \in Int
            PROVE  SumFunctionOnSet(g, Unnoted \cup {u}) = g[u] + SumFunctionOnSet(f, Unnoted)
        <4>1. \A o \in Unnoted \cup {u} : g[o] \in Int
          BY <3>1
        <4>2. SumFunctionOnSet(g, Unnoted \cup {u}) = g[u] + SumFunctionOnSet(g, Unnoted)
          BY <1>1, <2>3, <4>1, UsageSums, SumAdd
        <4>3. SumFunctionOnSet(g, Unnoted) = SumFunctionOnSet(f, Unnoted)
          BY <1>1, <3>1, UsageSums, SumSame
        <4> QED BY <4>2, <4>3
      <3>2. \A o \in Unnoted : Grew[o] \in Int /\ Grew'[o] = Grew[o]
        BY <1>1, <2>3, UsageSums
      <3>3. Grew'[u] \in Int
        BY <1>1, <2>3
      <3> QED BY <2>3, <3>1, <3>2, <3>3 DEF Owed
    <2>5. bucket' = [bucket EXCEPT ![k] = s] /\ bucket \in [Keys -> 0 .. MaxSize]
      BY <1>1 DEF PutFile, UsageTypeOK
    <2>6. Holds' = Holds - bucket[k] + s
      <3>1. ASSUME NEW f, NEW g, \A j \in Keys : f[j] \in Int, g[k] \in Int,
                   \A j \in Keys \ {k} : g[j] = f[j]
            PROVE  SumFunctionOnSet(g, Keys) = SumFunctionOnSet(f, Keys) - f[k] + g[k]
        BY <1>1, <3>1, UsageFinite, SumChange
      <3>2. /\ \A j \in Keys : bucket[j] \in Int
            /\ bucket'[k] = s /\ s \in Int /\ \A j \in Keys \ {k} : bucket'[j] = bucket[j]
        BY <1>1, <2>5, UsageSums
      <3> HIDE DEF k
      <3> QED BY <3>1, <3>2 DEF Holds
    <2>7. used' + Owed' = Holds'
      BY <1>1, <2>1, <2>2, <2>4, <2>6, UsageSums
    <2>8. objects' + Cardinality(Created') = Cardinality(There')
      <3>1. CASE existing[u] = 0
        <4>1. /\ Created' = Created \cup {u} /\ u \notin Created
              /\ There' = There \cup {k} /\ k \notin There
          BY <1>1, <2>1, <2>3, <2>5, <3>1 DEF Created, There
        <4>2. /\ Cardinality(Created \cup {u}) = Cardinality(Created) + 1
              /\ Cardinality(There \cup {k}) = Cardinality(There) + 1
          BY <1>1, <4>1, UsageSums, CountAdd
        <4> QED BY <1>1, <2>1, <2>2, <4>1, <4>2, UsageSums
      <3>2. CASE existing[u] # 0
        <4>1. Created' = Created /\ There' = There
          BY <1>1, <2>1, <2>3, <2>5, <3>2 DEF Created, There
        <4> QED BY <2>1, <2>2, <4>1
      <3> QED BY <3>1, <3>2
    <2> QED BY <2>7, <2>8
  <1> QED BY <1>2, <1>3, <1>4, Exactly DEF UsageInv

(* What a failed upload leaves in the bucket is noted by nobody.           *)
LEMMA PutUnnotedInv ==
    ASSUME UsageInv, NEW u \in Uploads, NEW s \in Lengths, PutUnnoted(u, s)
    PROVE  UsageInv'
  <1>1. /\ UsageTypeOK /\ key[u] \in Keys /\ s \in 0 .. MaxSize
        /\ 1 \in Keys /\ 0 \in 0 .. MaxSize
    BY SMTT(30), UsageFinite DEF UsageInv, UsageTypeOK, Lengths, Keys
  <1>2. UsageTypeOK'
    BY <1>1 DEF PutUnnoted, Forgotten, UsageTypeOK, sums
  <1>3. ListedSoFar'
    BY DEF PutUnnoted, UsageInv, ListedSoFar
  <1>4. CASE s # bucket[key[u]]
    <2>1. drift'
      BY <1>4 DEF PutUnnoted
    <2> QED BY <1>2, <1>3, <2>1, Exactly DEF UsageInv
  <1>5. CASE s = bucket[key[u]]
    <2>1. UNCHANGED <<bucket, used, objects, drift>>
      BY <1>1, <1>5 DEF PutUnnoted, UsageTypeOK, sums
    <2>2. /\ u \notin Unnoted /\ upload'[u] # "stored"
          /\ \A o \in Uploads \ {u} : /\ upload'[o] = upload[o] /\ existing'[o] = existing[o]
                                      /\ size'[o] = size[o]
      BY <1>1 DEF PutUnnoted, Forgotten, Unnoted, UsageTypeOK
    <2>3. Unnoted' = Unnoted
          /\ \A o \in Unnoted : existing'[o] = existing[o] /\ size'[o] = size[o]
      BY <2>2 DEF Unnoted
    <2>4. UsageExact'
      BY <1>1, <2>1, <2>3, ExactKept DEF UsageInv
    <2> QED BY <1>2, <1>3, <2>4 DEF UsageInv
  <1> QED BY <1>4, <1>5

LEMMA NoteStoreInv ==
    ASSUME UsageInv, NEW u \in Uploads, NoteStore(u)
    PROVE  UsageInv'
  <1>1. /\ UsageTypeOK /\ u \in Unnoted /\ existing[u] \in Nat /\ size[u] \in Nat
        /\ used \in Int /\ objects \in Nat
    BY UsageFinite DEF UsageInv, UsageTypeOK, NoteStore, Unnoted
  <1>2. UsageTypeOK'
    <2>1. 1 \in Keys /\ 0 \in 0 .. MaxSize
      BY UsageFinite DEF Keys
    <2> QED BY <1>1, <2>1 DEF NoteStore, Forgotten, Growth, UsageTypeOK
  <1>3. ListedSoFar'
    BY DEF NoteStore, UsageInv, ListedSoFar
  <1>4. ASSUME ~drift'
        PROVE  used' + Owed' = Holds' /\ objects' + Cardinality(Created') = Cardinality(There')
    <2>1. /\ used + Owed = Holds /\ objects + Cardinality(Created) = Cardinality(There)
          /\ used' = used + (size[u] - existing[u])
          /\ objects' = IF existing[u] = 0 THEN objects + 1 ELSE objects
          /\ bucket' = bucket
      BY <1>4, Exactly DEF UsageInv, NoteStore, Growth
    <2>2. /\ Unnoted' = Unnoted \ {u} /\ \A o \in Unnoted \ {u} : Grew'[o] = Grew[o]
          /\ \A o \in Unnoted \ {u} : existing'[o] = existing[o]
          /\ Grew[u] = size[u] - existing[u]
      BY <1>1 DEF NoteStore, Forgotten, UsageTypeOK, Unnoted, Grew
    <2>3. Owed = (size[u] - existing[u]) + Owed' /\ Owed' \in Int
      <3>1. ASSUME NEW f, NEW g, \A o \in Unnoted : f[o] \in Int,
                   \A o \in Unnoted \ {u} : g[o] = f[o]
            PROVE  /\ SumFunctionOnSet(f, Unnoted) = f[u] + SumFunctionOnSet(g, Unnoted \ {u})
                   /\ SumFunctionOnSet(g, Unnoted \ {u}) \in Int
        <4>1. IsFiniteSet(Unnoted) /\ IsFiniteSet(Unnoted \ {u})
          BY <1>1, UsageSums, FS_RemoveElement
        <4>2. SumFunctionOnSet(f, Unnoted) = f[u] + SumFunctionOnSet(f, Unnoted \ {u})
          BY <1>1, <3>1, <4>1, SumRemove
        <4>3. SumFunctionOnSet(f, Unnoted \ {u}) = SumFunctionOnSet(g, Unnoted \ {u})
          BY <3>1, <4>1, SumSame
        <4>4. SumFunctionOnSet(f, Unnoted \ {u}) \in Int
          BY <3>1, <4>1, SumInt
        <4> QED BY <4>2, <4>3, <4>4
      <3>2. \A o \in Unnoted : Grew[o] \in Int
        BY <1>1, UsageSums
      <3> QED BY <2>2, <3>1, <3>2 DEF Owed
    <2>4. Holds' = Holds /\ There' = There
      BY <2>1 DEF Holds, There
    <2>5. used' + Owed' = Holds'
      BY <1>1, <2>1, <2>3, <2>4
    <2>6. objects' + Cardinality(Created') = Cardinality(There')
      <3>1. CASE existing[u] = 0
        <4>1. Created' = Created \ {u} /\ u \in Created
          BY <1>1, <2>2, <3>1 DEF Created
        <4>2. Cardinality(Created) = Cardinality(Created \ {u}) + 1
              /\ Cardinality(Created \ {u}) \in Nat
          BY <1>1, <4>1, UsageSums, CountRemove
        <4> QED BY <1>1, <2>1, <2>4, <3>1, <4>1, <4>2, UsageSums
      <3>2. CASE existing[u] # 0
        <4>1. Created' = Created
          BY <1>1, <2>2, <3>2 DEF Created
        <4> QED BY <2>1, <2>4, <3>2, <4>1
      <3> QED BY <3>1, <3>2
    <2> QED BY <2>5, <2>6
  <1> QED BY <1>2, <1>3, <1>4, Exactly DEF UsageInv

-----------------------------------------------------------------------------
(* The listing.                                                            *)

LEMMA ListInv == ASSUME UsageInv, List PROVE UsageInv'
  <1>1. /\ UsageTypeOK /\ listing'.at = 1 /\ listing'.bytes = 0 /\ listing'.count = 0
        /\ listing' = [at |-> 1, bytes |-> 0, count |-> 0]
    BY DEF UsageInv, List, NoListing
  <1>2. UsageTypeOK'
    <2>1. listing' \in Listings
      <3>1. 1 \in 0 .. LastKey + 1 /\ 0 \in 0 .. LastKey
        BY UsageFinite
      <3> QED BY <1>1, <3>1 DEF Listings
    <2>2. RestOfType'
      BY <1>1, TypeParts DEF List, RestOfType, flights, sums
    <2> QED BY <2>1, <2>2, TypeParts
  <1>3. /\ Unnoted' = Unnoted /\ UNCHANGED <<bucket, existing, size, used, objects, drift>>
        /\ disturbed' = (Unnoted # {})
    BY DEF List, flights, sums, Unnoted
  <1>4. ListedSoFar'
    <2>1. 1 .. listing'.at - 1 = {} /\ {k \in 1 .. listing'.at - 1 : bucket'[k] # 0} = {}
      <3>1. listing'.at - 1 = 0
        BY <1>1
      <3> QED BY <3>1
    <2>2. SumFunctionOnSet(bucket', {}) = 0 /\ Cardinality({}) = 0
      BY SumEmpty, FS_EmptySet
    <2>3. listing'.at # 0 /\ listing'.count <= listing'.at - 1
      BY <1>1
    <2>4. ~disturbed' => Unnoted' = {}
      BY <1>3
    <2>5. /\ listing'.bytes = SumFunctionOnSet(bucket', 1 .. listing'.at - 1)
          /\ listing'.count = Cardinality({k \in 1 .. listing'.at - 1 : bucket'[k] # 0})
      <3>1. /\ SumFunctionOnSet(bucket', 1 .. listing'.at - 1) = 0
            /\ Cardinality({k \in 1 .. listing'.at - 1 : bucket'[k] # 0}) = 0
        BY <2>1, <2>2
      <3> QED BY <1>1, <3>1
    <2> QED BY <2>3, <2>4, <2>5 DEF ListedSoFar
  <1>5. UsageExact'
    BY <1>1, <1>3, ExactKept DEF UsageInv
  <1> QED BY <1>2, <1>4, <1>5 DEF UsageInv

LEMMA ListPageInv == ASSUME UsageInv, ListPage PROVE UsageInv'
  <1> DEFINE k == listing.at
  <1>1. /\ UsageTypeOK /\ k \in Keys /\ k \in 1 .. LastKey /\ bucket[k] \in Nat
        /\ listing.bytes \in Nat /\ listing.count \in Nat /\ listing.count <= k - 1
    <2>1. UsageTypeOK /\ RestOfType /\ listing \in Listings /\ k \in Keys
      BY TypeParts DEF UsageInv, ListPage
    <2>2. listing.bytes \in Nat /\ listing.count \in Nat
      BY <2>1 DEF Listings
    <2>3. k \in 1 .. LastKey /\ k # 0 /\ bucket[k] \in Nat
      BY <2>1, UsageFinite DEF RestOfType, Keys
    <2>4. listing.count <= k - 1
      BY <2>3 DEF UsageInv, ListedSoFar
    <2> QED BY <2>1, <2>2, <2>3, <2>4
  <1>2. /\ listing' = [at    |-> k + 1,
                       bytes |-> listing.bytes + bucket[k],
                       count |-> IF bucket[k] = 0 THEN listing.count ELSE listing.count + 1]
        /\ Unnoted' = Unnoted
        /\ UNCHANGED <<bucket, existing, size, used, objects, drift, disturbed>>
    BY DEF ListPage, flights, sums, record, Unnoted
  <1>3. UsageTypeOK'
    <2>1. /\ k + 1 \in 0 .. LastKey + 1 /\ listing.bytes + bucket[k] \in Nat
          /\ listing.count \in 0 .. LastKey /\ listing.count + 1 \in 0 .. LastKey
      BY SMTT(30), <1>1, UsageFinite
    <2>2. listing' \in Listings
      <3> HIDE DEF k
      <3> QED BY <1>2, <2>1 DEF Listings
    <2>3. RestOfType'
      BY <1>1, TypeParts DEF ListPage, RestOfType, flights, sums, record
    <2> QED BY <2>2, <2>3, TypeParts
  <1>4. ListedSoFar'
    <2>1. listing'.at = k + 1 /\ listing'.count <= k
      BY <1>1, <1>2
    <2>2. ASSUME ~disturbed
          PROVE  /\ Unnoted' = {}
                 /\ listing'.bytes = SumFunctionOnSet(bucket, 1 .. k)
                 /\ listing'.count = Cardinality({j \in 1 .. k : bucket[j] # 0})
      <3>1. /\ Unnoted = {}
            /\ listing.bytes = SumFunctionOnSet(bucket, 1 .. k - 1)
            /\ listing.count = Cardinality({j \in 1 .. k - 1 : bucket[j] # 0})
        BY <1>1, <2>2 DEF UsageInv, ListedSoFar
      <3>2. /\ 1 .. k = (1 .. k - 1) \cup {k} /\ k \notin 1 .. k - 1
            /\ \A j \in (1 .. k - 1) \cup {k} : bucket[j] \in Int
            /\ IsFiniteSet(1 .. k - 1)
        BY SMTT(30), <1>1, UsageFinite, UsageSums DEF Keys
      <3>3. SumFunctionOnSet(bucket, 1 .. k) = bucket[k] + SumFunctionOnSet(bucket, 1 .. k - 1)
        <4>1. SumFunctionOnSet(bucket, (1 .. k - 1) \cup {k})
                 = bucket[k] + SumFunctionOnSet(bucket, 1 .. k - 1)
          BY <3>2, SumAdd
        <4> QED BY <3>2, <4>1
      <3>4. listing'.bytes = SumFunctionOnSet(bucket, 1 .. k)
        BY <1>1, <1>2, <3>1, <3>3
      <3>5. listing'.count = Cardinality({j \in 1 .. k : bucket[j] # 0})
        <4> DEFINE before == {j \in 1 .. k - 1 : bucket[j] # 0}
        <4>1. IsFiniteSet(before) /\ k \notin before
          BY <1>1, <3>2, FS_Subset
        <4>2. CASE bucket[k] = 0
          <5>1. {j \in 1 .. k : bucket[j] # 0} = before
            BY <1>1, <4>2
          <5> QED BY <1>2, <3>1, <4>2, <5>1
        <4>3. CASE bucket[k] # 0
          <5>1. {j \in 1 .. k : bucket[j] # 0} = before \cup {k}
            BY <1>1, <4>3
          <5>2. Cardinality(before \cup {k}) = Cardinality(before) + 1
            BY <4>1, CountAdd
          <5> QED BY <1>2, <3>1, <4>3, <5>1, <5>2
        <4> QED BY <4>2, <4>3
      <3> QED BY <1>2, <3>1, <3>4, <3>5
    <2>3. 1 .. listing'.at - 1 = 1 .. k
      BY <1>1, <2>1
    <2> HIDE DEF k
    <2>4. listing'.at - 1 = k
      BY <1>1, <2>1 DEF Keys
    <2> QED BY <1>2, <2>1, <2>2, <2>4 DEF ListedSoFar
  <1>5. UsageExact'
    BY <1>1, <1>2, ExactKept DEF UsageInv
  <1> QED BY <1>3, <1>4, <1>5 DEF UsageInv

LEMMA ListEndsInv == ASSUME UsageInv, ListFails \/ ListDone PROVE UsageInv'
  <1>1. UsageTypeOK /\ listing' = [at |-> 0, bytes |-> 0, count |-> 0] /\ disturbed' = FALSE
    BY DEF UsageInv, ListFails, ListDone, NoListing
  <1>2. listing.at \in 0 .. LastKey + 1 /\ listing.bytes \in Nat /\ listing.count \in 0 .. LastKey
    <2>1. listing \in Listings
      BY TypeParts DEF UsageInv
    <2> QED BY <2>1 DEF Listings
  <1>3. ListedSoFar'
    BY <1>1 DEF ListedSoFar
  <1>4. Unnoted' = Unnoted /\ UNCHANGED <<bucket, existing, size>>
    BY DEF ListFails, ListDone, flights, Unnoted
  <1>5. CASE ListFails
    <2>1. UsageTypeOK'
      <3>1. RestOfType'
        <4>1. RestOfType
          BY <1>1, TypeParts
        <4>2. listFaults' \in 0 .. MaxListFaults
          BY <1>5, <4>1, UsageAssumption DEF ListFails, RestOfType
        <4>3. disturbed' \in BOOLEAN
          BY <1>1
        <4> QED BY <1>5, <4>1, <4>2, <4>3 DEF ListFails, RestOfType, flights, sums
      <3>2. listing' \in Listings
        BY <1>5, NoListingType DEF ListFails
      <3> QED BY <3>1, <3>2, TypeParts
    <2>2. UsageExact'
      BY <1>1, <1>4, <1>5, ExactKept DEF UsageInv, ListFails, sums
    <2> QED BY <1>3, <2>1, <2>2 DEF UsageInv
  <1>6. CASE ListDone
    <2>1. UsageTypeOK'
      <3>1. RestOfType'
        <4>1. RestOfType
          BY <1>1, TypeParts
        <4>2. used' \in Int /\ objects' \in Nat
          BY <1>2, <1>6, UsageFinite DEF ListDone
        <4>3. disturbed' \in BOOLEAN /\ drift' \in BOOLEAN
          BY <1>6, <4>1 DEF ListDone, RestOfType
        <4> QED BY <1>6, <4>1, <4>2, <4>3 DEF ListDone, RestOfType, flights
      <3>2. listing' \in Listings
        BY <1>6, NoListingType DEF ListDone
      <3> QED BY <3>1, <3>2, TypeParts
    <2>2. ASSUME ~drift'
          PROVE  used' + Owed' = Holds' /\ objects' + Cardinality(Created') = Cardinality(There')
      <3>1. listing.at = LastKey + 1 /\ ~disturbed /\ used' = listing.bytes /\ objects' = listing.count
        BY <1>2, <1>6, <2>2, UsageFinite DEF ListDone
      <3>2. /\ Unnoted = {} /\ listing.bytes = SumFunctionOnSet(bucket, 1 .. listing.at - 1)
            /\ listing.count = Cardinality({k \in 1 .. listing.at - 1 : bucket[k] # 0})
        BY <1>2, <3>1, UsageFinite DEF UsageInv, ListedSoFar
      <3>3. listing.at - 1 = LastKey
        BY <3>1, UsageFinite
      <3>4. used' = Holds /\ objects' = Cardinality(There)
        BY <3>1, <3>2, <3>3 DEF Holds, There, Keys
      <3>5. Owed' = 0 /\ Cardinality(Created') = 0
        BY <1>4, <3>2, SumEmpty, FS_EmptySet DEF Owed, Created
      <3>6. Holds' = Holds /\ There' = There
        BY <1>4 DEF Holds, There
      <3> QED BY <1>1, <3>4, <3>5, <3>6, UsageSums
    <2> QED BY <1>3, <2>1, <2>2, Exactly DEF UsageInv
  <1> QED BY <1>5, <1>6

LEMMA CancelInv == ASSUME UsageInv, Cancel PROVE UsageInv'
  <1>1. UsageTypeOK'
    BY DEF UsageInv, UsageTypeOK, Cancel, flights, sums, record
  <1>2. ListedSoFar' /\ UsageExact'
    BY QuietSteps DEF Cancel, flights, sums, record, Unnoted
  <1> QED BY <1>1, <1>2 DEF UsageInv

LEMMA CrashInv == ASSUME UsageInv, Crash PROVE UsageInv'
  <1>1. UsageTypeOK'
    <2>1. 1 \in Keys /\ 0 \in 0 .. MaxSize
      BY UsageFinite DEF Keys
    <2>2. RestOfType'
      <3>1. RestOfType
        BY TypeParts DEF UsageInv
      <3>2. crashes' \in 0 .. MaxCrashes /\ used' \in Int /\ objects' \in Nat
        BY <3>1, UsageAssumption DEF Crash, RestOfType
      <3>3. cancelled' \in BOOLEAN /\ drift' \in BOOLEAN /\ disturbed' \in BOOLEAN
        BY DEF Crash
      <3>4. /\ upload' \in [Uploads -> {"idle", "looked", "stored"}] /\ key' \in [Uploads -> Keys]
            /\ existing' \in [Uploads -> 0 .. MaxSize] /\ size' \in [Uploads -> 0 .. MaxSize]
        BY <2>1 DEF Crash
      <3> QED BY <3>1, <3>2, <3>3, <3>4 DEF Crash, RestOfType
    <2>3. listing' \in Listings
      BY NoListingType DEF Crash
    <2> QED BY <2>2, <2>3, TypeParts
  <1>2. ListedSoFar' /\ UsageExact'
    BY Exactly DEF Crash, NoListing, ListedSoFar
  <1> QED BY <1>1, <1>2 DEF UsageInv

(* The types, what a listing has counted so far and the figures themselves *)
(* hold together, whatever is stored, noted, listed, cancelled, fails or   *)
(* restarts (s3.go:80-89, 255-304; spool.go:172-184).                      *)
THEOREM UsageInvariance == UsageSpec => []UsageInv
  <1>1. UsageInit => UsageInv
    <2> SUFFICES ASSUME UsageInit PROVE UsageTypeOK /\ ListedSoFar /\ UsageExact
      BY DEF UsageInv
    <2>1. 1 \in Keys /\ {0, 1} \subseteq 0 .. MaxSize
      BY UsageFinite DEF Keys
    <2>2. UsageTypeOK
      <3>1. RestOfType
        <4>1. bucket \in [Keys -> 0 .. MaxSize]
          <5>1. bucket \in [Keys -> {0, 1}]
            BY DEF UsageInit
          <5> QED BY <2>1, <5>1
        <4>2. /\ stores \in 0 .. MaxStores /\ listFaults \in 0 .. MaxListFaults
              /\ crashes \in 0 .. MaxCrashes /\ used \in Int /\ objects \in Nat
          BY UsageAssumption DEF UsageInit
        <4>3. cancelled \in BOOLEAN /\ drift \in BOOLEAN /\ disturbed \in BOOLEAN
          BY DEF UsageInit
        <4>4. /\ upload \in [Uploads -> {"idle", "looked", "stored"}] /\ key \in [Uploads -> Keys]
              /\ existing \in [Uploads -> 0 .. MaxSize] /\ size \in [Uploads -> 0 .. MaxSize]
          BY <2>1 DEF UsageInit
        <4> QED BY <4>1, <4>2, <4>3, <4>4 DEF RestOfType
      <3>2. listing \in Listings
        BY NoListingType DEF UsageInit
      <3> QED BY <3>1, <3>2, TypeParts
    <2> QED BY <2>2, Exactly DEF UsageInit, NoListing, ListedSoFar
  <1>2. UsageInv /\ [UsageNext]_usageVars => UsageInv'
    <2> SUFFICES ASSUME UsageInv, [UsageNext]_usageVars PROVE UsageInv'
      OBVIOUS
    <2>1. CASE UNCHANGED usageVars
      <3>1. UsageTypeOK'
        BY <2>1 DEF UsageInv, UsageTypeOK, usageVars, flights, sums, record
      <3>2. ListedSoFar' /\ UsageExact'
        BY <2>1, QuietSteps DEF usageVars, flights, sums, record, Unnoted
      <3> QED BY <3>1, <3>2 DEF UsageInv
    <2> QED
      BY <2>1, LookInv, PutFileInv, PutUnnotedInv, NoteStoreInv, ListInv, ListPageInv, ListEndsInv,
         CancelInv, CrashInv DEF UsageNext
  <1> QED BY <1>1, <1>2, PTL DEF UsageSpec

(* The figures, the uploads and the listing keep their types; no listing   *)
(* counts more objects than there are keys (s3.go:255-289).                *)
THEOREM UsageTypeCorrect == UsageSpec => []UsageTypeOK
  <1>1. UsageInv => UsageTypeOK
    BY DEF UsageInv
  <1> QED BY <1>1, UsageInvariance, PTL

(* Usage and what is about to be noted are what the bucket holds, in bytes *)
(* and in objects, from a listing that nothing came in between to the next,*)
(* unless an upload replaced an object its request had not seen, or failed *)
(* after S3 had stored the object (s3.go:80-89, 255-289; spool.go:172-184).*)
THEOREM UsageIsExact == UsageSpec => []UsageExact
  <1>1. UsageInv => UsageExact
    BY DEF UsageInv
  <1> QED BY <1>1, UsageInvariance, PTL
=============================================================================
