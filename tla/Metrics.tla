------------------------------ MODULE Metrics ------------------------------
(***************************************************************************)
(* The counters of internal/metrics while requests are served, and what is *)
(* left of them after a shutdown of cmd/mirror or a crash.                 *)
(*                                                                         *)
(* Requests, the flush loop and main share the counters without a lock:    *)
(* every access to an atomic is a step of its own, except that raising the *)
(* peak with a compare-and-swap loop is the step of its last iteration, and*)
(* that a snapshot is read at once.  One counter stands for the twelve that*)
(* Incr adds to.                                                           *)
(***************************************************************************)
EXTENDS Integers, FiniteSets

CONSTANTS
    Requests,       \* the requests; those that lead a flight have a key each
    MaxServed,      \* bound: requests begun, over all restarts
    MaxSaveFaults,  \* bound: failed saves
    MaxRestarts     \* bound: crashes and restarts

ASSUME MetricsAssumption ==
    /\ IsFiniteSet(Requests)
    /\ MaxServed \in Nat /\ MaxSaveFaults \in Nat /\ MaxRestarts \in Nat

VARIABLES
    pc,         \* where each request is
    inflight,   \* Handler.inflight: those that lead a flight
    n,          \* the number of flights a request has read
    counted, peak, gauge, dirty,    \* Metrics: a counter, InflightPeak, inflight, dirty
    file, tmp,  \* metrics.json and metrics.json.tmp
    saver,      \* the two who save: where they are,
    snap,       \* what they write,
    fd,         \* and which name the file they have open bears
    main,       \* where main is
    served, saveFaults, restarts,
    (* History.                                                            *)
    highest,    \* the most flights there were, or the peak that was loaded
    saved,      \* what the last save that was renamed had read
    overlap,    \* both have saved at the same time
    missed      \* added while the last save that declared itself clean was under way

requests == <<pc, inflight, n, served>>
counters == <<counted, peak, gauge, dirty>>
disk     == <<file, tmp, fd>>
savers   == <<saver, snap>>
history  == <<highest, saved, overlap, missed>>
metricsVars == <<requests, counters, disk, savers, main, saveFaults, restarts, history>>

Savers   == {"flush", "main"}
NoFile   == [is |-> "none", counted |-> 0, peak |-> 0]
Torn     == [is |-> "torn", counted |-> 0, peak |-> 0]
Running  == main # "exited"
Larger(a, b) == IF a >= b THEN a ELSE b

MetricsInit ==
    /\ pc = [r \in Requests |-> "idle"] /\ inflight = {} /\ n = [r \in Requests |-> 0]
    /\ counted = 0 /\ peak = 0 /\ gauge = 0 /\ dirty = FALSE
    /\ file = NoFile /\ tmp = NoFile /\ fd = [s \in Savers |-> "none"]
    /\ saver = [s \in Savers |-> "idle"] /\ snap = [s \in Savers |-> NoFile]
    /\ main = "run"
    /\ served = 0 /\ saveFaults = 0 /\ restarts = 0
    /\ highest = 0 /\ saved = NoFile /\ overlap = FALSE /\ missed = 0

-----------------------------------------------------------------------------
(* A request.                                                              *)

Go(r, from, to) == Running /\ pc[r] = from /\ pc' = [pc EXCEPT ![r] = to]
Begin == main = "run" /\ served < MaxServed /\ served' = served + 1

(* Answered without a flight, and counted.                                 *)
Hit(r) ==
    /\ Begin /\ Go(r, "idle", "add")
    /\ UNCHANGED <<inflight, n, counters, disk, savers, main, saveFaults, restarts, history>>

(* fetchUpstreamAndCache, under flightMu.                                  *)
Enter(r) ==
    /\ Begin /\ Go(r, "idle", "enter_gauge")
    /\ inflight' = inflight \cup {r}
    /\ n' = [n EXCEPT ![r] = Cardinality(inflight')]
    /\ highest' = Larger(highest, Cardinality(inflight'))
    /\ UNCHANGED <<counters, disk, savers, main, saveFaults, restarts, saved, overlap, missed>>

(* Mutant: the flight is taken off twice.                                  *)
LeaveTwice(r) ==
    /\ Go(r, "leave", "leave_gauge")
    /\ inflight' = inflight \ {r}
    /\ n' = [n EXCEPT ![r] = Cardinality(inflight') - 1]
    /\ UNCHANGED <<served, counters, disk, savers, main, saveFaults, restarts, history>>
Leave(r) ==
    /\ Go(r, "leave", "leave_gauge")
    /\ inflight' = inflight \ {r}
    /\ n' = [n EXCEPT ![r] = Cardinality(inflight')]
    /\ UNCHANGED <<served, counters, disk, savers, main, saveFaults, restarts, history>>

(* SetInflight.                                                            *)
SetGauge(r, from, to) ==
    /\ Go(r, from, to)
    /\ gauge' = n[r]
    /\ UNCHANGED <<inflight, n, served, counted, peak, dirty, disk, savers, main,
                   saveFaults, restarts, history>>

(* Mutant: the peak is set, not raised.                                    *)
SetsPeak(r)  == n[r]
RaisePeak(r) == Larger(peak, n[r])

SetPeak(r, from, raised, to) ==
    /\ Go(r, from, IF n[r] > peak THEN raised ELSE to)
    /\ peak' = RaisePeak(r)
    /\ n' = [n EXCEPT ![r] = 0]
    /\ UNCHANGED <<inflight, served, counted, gauge, dirty, disk, savers, main,
                   saveFaults, restarts, history>>

(* dirty.Store(true), once the compare-and-swap has raised the peak.       *)
MarkRaised(r, from, to) ==
    /\ Go(r, from, to)
    /\ dirty' = TRUE
    /\ UNCHANGED <<inflight, n, served, counted, peak, gauge, disk, savers, main,
                   saveFaults, restarts, history>>

(* What it fetches is counted, stored or failed; or it gives up uncounted. *)
Fetched(r) ==
    /\ Go(r, "fetch", "add") \/ Go(r, "fetch", "leave")
    /\ UNCHANGED <<inflight, n, served, counters, disk, savers, main,
                   saveFaults, restarts, history>>

(* Incr.                                                                   *)
Add(r) ==
    /\ Go(r, "add", "load")
    /\ counted' = counted + 1
    /\ UNCHANGED <<inflight, n, served, peak, gauge, dirty, disk, savers, main,
                   saveFaults, restarts, history>>

Load(r) ==
    /\ Go(r, "load", "raise")
    /\ n' = [n EXCEPT ![r] = gauge]
    /\ UNCHANGED <<inflight, served, counters, disk, savers, main,
                   saveFaults, restarts, history>>

Raise(r) ==
    /\ Go(r, "raise", "dirty")
    /\ peak' = RaisePeak(r)
    /\ n' = [n EXCEPT ![r] = 0]
    /\ UNCHANGED <<inflight, served, counted, gauge, dirty, disk, savers, main,
                   saveFaults, restarts, history>>

(* Mutant: only the number of flights makes the counters dirty.            *)
MarkNothing(r) ==
    /\ Go(r, "dirty", IF r \in inflight THEN "leave" ELSE "idle")
    /\ UNCHANGED <<inflight, n, served, counters, disk, savers, main,
                   saveFaults, restarts, history>>
MarkDirty(r) ==
    /\ Go(r, "dirty", IF r \in inflight THEN "leave" ELSE "idle")
    /\ dirty' = TRUE
    /\ UNCHANGED <<inflight, n, served, counted, peak, gauge, disk, savers, main,
                   saveFaults, restarts, history>>

Serve(r) ==
    \/ SetGauge(r, "enter_gauge", "enter_peak")
    \/ SetPeak(r, "enter_peak", "enter_dirty", "fetch") \/ MarkRaised(r, "enter_dirty", "fetch")
    \/ Fetched(r)
    \/ Add(r) \/ Load(r) \/ Raise(r) \/ MarkDirty(r)
    \/ Leave(r)
    \/ SetGauge(r, "leave_gauge", "leave_peak")
    \/ SetPeak(r, "leave_peak", "leave_dirty", "idle") \/ MarkRaised(r, "leave_dirty", "idle")

-----------------------------------------------------------------------------
(* SaveToDisk, called by the flush loop and once by main.                  *)

Saving(s) == saver[s] \in {"create", "write", "rename", "clean"}
Step(s, from, to) == Running /\ saver[s] = from /\ saver' = [saver EXCEPT ![s] = to]
After(s) == IF s = "main" THEN "stopped" ELSE "idle"

(* persistable.                                                            *)
Snapshot(s) ==
    /\ snap' = [snap EXCEPT ![s] = [is |-> "whole", counted |-> counted, peak |-> peak]]
    /\ overlap' = (overlap \/ \E o \in Savers \ {s} : Saving(o))
    /\ UNCHANGED <<requests, counters, disk, saveFaults, restarts, highest, saved, missed>>

(* A tick; the select may still choose it when the loop is told to stop.   *)
FlushTick  == Step("flush", "idle", "create") /\ dirty /\ Snapshot("flush") /\ UNCHANGED main
FlushStops ==
    /\ main # "run" /\ Step("flush", "idle", "stopped")
    /\ UNCHANGED <<requests, counters, disk, snap, main, saveFaults, restarts, history>>

(* os.WriteFile opens and truncates the file of that name, or creates it.  *)
(* Mutant: the file is written in place.                                   *)
CreateInPlace(s) ==
    /\ Step(s, "create", "write")
    /\ file' = Torn /\ tmp' = Torn
    /\ fd' = [fd EXCEPT ![s] = "file"]
    /\ UNCHANGED <<requests, counters, snap, main, saveFaults, restarts, history>>
Create(s) ==
    /\ Step(s, "create", "write")
    /\ tmp' = Torn
    /\ fd' = [fd EXCEPT ![s] = "tmp"]
    /\ UNCHANGED <<requests, counters, file, snap, main, saveFaults, restarts, history>>

(* What is written over the other's text may be neither.                   *)
Over(old, new) == IF old.is = "whole" THEN {new, Torn} ELSE {new}

Write(s) ==
    /\ Step(s, "write", "rename")
    /\ tmp'  \in (IF fd[s] = "tmp"  THEN Over(tmp, snap[s])  ELSE {tmp})
    /\ file' \in (IF fd[s] = "file" THEN Over(file, snap[s]) ELSE {file})
    /\ fd' = [fd EXCEPT ![s] = "none"]
    /\ UNCHANGED <<requests, counters, snap, main, saveFaults, restarts, history>>

(* A file that is open under the old name goes on being written under the  *)
(* new one, and the one that is replaced is written for nobody.            *)
Rename(s) ==
    /\ Step(s, "rename", "clean") /\ tmp # NoFile
    /\ file' = tmp /\ tmp' = NoFile
    /\ fd' = [o \in Savers |-> IF fd[o] = "tmp" THEN "file" ELSE "none"]
    /\ saved' = snap[s]
    /\ UNCHANGED <<requests, counters, snap, main, saveFaults, restarts,
                   highest, overlap, missed>>

MarkClean(s) ==
    /\ Step(s, "clean", After(s))
    /\ dirty' = FALSE
    /\ missed' = counted - snap[s].counted
    /\ snap' = [snap EXCEPT ![s] = NoFile]
    /\ UNCHANGED <<requests, counted, peak, gauge, disk, main, saveFaults, restarts,
                   highest, saved, overlap>>

(* A full disk; or the other has renamed the temporary file.               *)
SaveFails(s) ==
    /\ \/ /\ Step(s, "create", After(s)) \/ Step(s, "write", After(s))
          /\ saveFaults < MaxSaveFaults /\ saveFaults' = saveFaults + 1
       \/ /\ Step(s, "rename", After(s))
          /\ tmp = NoFile /\ UNCHANGED saveFaults
    /\ fd' = [fd EXCEPT ![s] = "none"]
    /\ snap' = [snap EXCEPT ![s] = NoFile]
    /\ UNCHANGED <<requests, counters, file, tmp, main, restarts, history>>

Save(s) == Create(s) \/ Write(s) \/ Rename(s) \/ MarkClean(s)

-----------------------------------------------------------------------------
(* main, and the container that restarts it.                               *)

(* Shutdown returns when the handlers have, or after 30 seconds.           *)
Signal ==
    /\ main = "run" /\ main' = "stopping"
    /\ UNCHANGED <<requests, counters, disk, savers, saveFaults, restarts, history>>
FinalSave ==
    /\ main = "stopping" /\ main' = "saving"
    /\ Step("main", "idle", "create") /\ Snapshot("main")
Exit ==
    /\ main = "saving" /\ saver["main"] = "stopped" /\ main' = "exited"
    /\ UNCHANGED <<requests, counters, disk, savers, saveFaults, restarts, history>>

(* LoadFromDisk: a file that does not parse counts as none.                *)
(* Mutant: one of the keys is not restored.                                *)
LoadedWithoutPeak == IF file.is = "whole" THEN [file EXCEPT !.peak = 0] ELSE NoFile
Loaded == IF file.is = "whole" THEN file ELSE NoFile

(* The process ends, by Exit or anywhere in a crash, and is started again. *)
Restart ==
    /\ restarts < MaxRestarts /\ restarts' = restarts + 1
    /\ main' = "run"
    /\ pc' = [r \in Requests |-> "idle"] /\ inflight' = {} /\ n' = [r \in Requests |-> 0]
    /\ counted' = Loaded.counted /\ peak' = Loaded.peak /\ gauge' = 0 /\ dirty' = FALSE
    /\ fd' = [s \in Savers |-> "none"]
    /\ saver' = [s \in Savers |-> "idle"] /\ snap' = [s \in Savers |-> NoFile]
    /\ highest' = Loaded.peak /\ missed' = 0
    /\ UNCHANGED <<served, file, tmp, saveFaults, saved, overlap>>

MetricsNext ==
    \/ \E r \in Requests : Hit(r) \/ Enter(r) \/ Serve(r)
    \/ FlushTick \/ FlushStops
    \/ \E s \in Savers : Save(s) \/ SaveFails(s)
    \/ Signal \/ FinalSave \/ Exit \/ Restart

MetricsSpec == MetricsInit /\ [][MetricsNext]_metricsVars

-----------------------------------------------------------------------------
MetricsTypeOK ==
    /\ pc \in [Requests -> {"idle", "enter_gauge", "enter_peak", "enter_dirty", "fetch",
                            "add", "load", "raise", "dirty",
                            "leave", "leave_gauge", "leave_peak", "leave_dirty"}]
    /\ inflight \subseteq Requests /\ n \in [Requests -> Nat]
    /\ counted \in Nat /\ peak \in Nat /\ gauge \in Nat /\ dirty \in BOOLEAN
    /\ file \in [is : {"none", "torn", "whole"}, counted : Nat, peak : Nat]
    /\ tmp \in [is : {"none", "torn", "whole"}, counted : Nat, peak : Nat]
    /\ saver \in [Savers -> {"idle", "create", "write", "rename", "clean", "stopped"}]
    /\ snap \in [Savers -> [is : {"none", "whole"}, counted : Nat, peak : Nat]]
    /\ fd \in [Savers -> {"none", "tmp", "file"}]
    /\ main \in {"run", "stopping", "saving", "exited"}
    /\ served \in 0 .. MaxServed /\ saveFaults \in 0 .. MaxSaveFaults
    /\ restarts \in 0 .. MaxRestarts
    /\ highest \in Nat /\ missed \in Nat /\ overlap \in BOOLEAN
    /\ saved \in [is : {"none", "whole"}, counted : Nat, peak : Nat]

(* Wherever the process is stopped, metrics.json is what the last save that*)
(* was renamed had read, never part of one nor a mixture.  Only when main  *)
(* and the flush loop have saved at the same time may it be anything else  *)
(* (metrics.go:220-226).                                                   *)
FileIsLastSave == ~overlap => file = saved

(* What has been saved is not lost again: no save, crash or restart takes  *)
(* the file back to smaller numbers (metrics.go:155-230).                  *)
SavedNeverRegresses ==
    [][~overlap' => file'.counted >= file.counted /\ file'.peak >= file.peak]_metricsVars

(* The peak is the most flights there have been, but for those about to be *)
(* published, in whichever order they are (metrics.go:78-105).             *)
PeakExact ==
    /\ peak <= highest
    /\ (\A r \in Requests : pc[r] \notin {"enter_gauge", "enter_peak"}) => peak = highest

(* A crash of a clean process loses at most what was added while the last  *)
(* save was under way: anything else is in the file (metrics.go:90, 228).  *)
UnsavedIsDirty ==
    /\ ~dirty /\ ~overlap
    /\ \A r \in Requests : pc[r] \notin {"load", "raise", "dirty"}
    => counted <= Loaded.counted + missed
=============================================================================
