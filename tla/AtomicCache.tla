---------------------------- MODULE AtomicCache ----------------------------
(***************************************************************************)
(* What the disk cache promises the request handler: a key holds a whole   *)
(* object or nothing.  A put replaces it at one instant by the object it   *)
(* was given or leaves no trace, and a reader keeps the object it opened.  *)
(* Puts of one key that are in progress together may meet; what one of     *)
(* them then installs is damaged, until the next put of that key.          *)
(* Objects may disappear at any time; the cache is not durable storage,    *)
(* but a restart of the process loses nothing that was installed.          *)
(***************************************************************************)
CONSTANTS
    Workers,    \* goroutines using the cache
    Keys,
    Objects,    \* the objects' contents
    Damaged,    \* what puts that met install; not one of Objects
    NoObject,   \* nothing under a key, nothing being read;  neither of these
    NoPut       \* no put in progress; not a record

VARIABLES
    content,    \* [Keys -> Objects, Damaged or NoObject]
    putting,    \* [Workers -> the put in progress, or NoPut]
    reading     \* [Workers -> the object being read, Damaged or NoObject]

vars == <<content, putting, reading>>

Init ==
    /\ content = [k \in Keys |-> NoObject]
    /\ putting = [w \in Workers |-> NoPut]
    /\ reading = [w \in Workers |-> NoObject]

StartPut(w, k, o) ==
    /\ putting[w] = NoPut
    /\ putting' = [putting EXCEPT ![w] = [key |-> k, object |-> o]]
    /\ UNCHANGED <<content, reading>>

(* The puts in S, two or more, are all of key k.                           *)
Meet(k, S) ==
    /\ \A w \in S : putting[w] # NoPut /\ putting[w].key = k
    /\ \E w, x \in S : w # x
    /\ putting' = [w \in Workers |->
                      IF w \in S THEN [key |-> k, object |-> Damaged] ELSE putting[w]]
    /\ UNCHANGED <<content, reading>>

Install(w) ==
    /\ putting[w] # NoPut
    /\ content' = [content EXCEPT ![putting[w].key] = putting[w].object]
    /\ putting' = [putting EXCEPT ![w] = NoPut]
    /\ UNCHANGED reading

(* A put that is given up may have made room for itself first.             *)
GiveUp(w, gone) ==
    /\ putting[w] # NoPut
    /\ content' = [k \in Keys |-> IF k \in gone THEN NoObject ELSE content[k]]
    /\ putting' = [putting EXCEPT ![w] = NoPut]
    /\ UNCHANGED reading

Remove(gone) ==
    /\ content' = [k \in Keys |-> IF k \in gone THEN NoObject ELSE content[k]]
    /\ UNCHANGED <<putting, reading>>

Open(w, k) ==
    /\ content[k] # NoObject /\ reading[w] = NoObject
    /\ reading' = [reading EXCEPT ![w] = content[k]]
    /\ UNCHANGED <<content, putting>>

Done(w) ==
    /\ reading' = [reading EXCEPT ![w] = NoObject]
    /\ UNCHANGED <<content, putting>>

Restart ==
    /\ putting' = [w \in Workers |-> NoPut]
    /\ reading' = [w \in Workers |-> NoObject]
    /\ UNCHANGED content

Next ==
    \/ \E w \in Workers, k \in Keys, o \in Objects : StartPut(w, k, o)
    \/ \E k \in Keys, S \in SUBSET Workers : Meet(k, S)
    \/ \E w \in Workers : Install(w) \/ Done(w)
    \/ \E w \in Workers, gone \in SUBSET Keys : GiveUp(w, gone)
    \/ \E gone \in SUBSET Keys : Remove(gone)
    \/ \E w \in Workers, k \in Keys : Open(w, k)
    \/ Restart

Spec == Init /\ [][Next]_vars

-----------------------------------------------------------------------------
TypeOK ==
    /\ content \in [Keys -> Objects \cup {Damaged, NoObject}]
    /\ putting \in [Workers -> [key : Keys, object : Objects \cup {Damaged}] \cup {NoPut}]
    /\ reading \in [Workers -> Objects \cup {Damaged, NoObject}]
=============================================================================
