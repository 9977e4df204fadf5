---------------------------- MODULE ReadThrough ----------------------------
(***************************************************************************)
(* What the mirror promises about a bucket that it fills on demand: an     *)
(* object gets there by one fetch at a time, which stores what upstream    *)
(* published when it read it, or nothing; and a client is handed nothing   *)
(* that is newer than what the bucket holds.                               *)
(***************************************************************************)
EXTENDS Integers

CONSTANTS
    Clients, NoClient,  \* NoClient is not one of Clients
    Keys,
    MaxVersion          \* bound: upstream publishes versions 1..MaxVersion

VARIABLES
    published,  \* [Keys -> 0..MaxVersion] the newest version upstream has; 0: none
    stored,     \* [Keys -> 0..MaxVersion] the version in the bucket
    wants,      \* [Clients -> Keys] chosen once
    fetcher,    \* [Keys -> the client whose request fetches the key, or NoClient]
    fetched,    \* [Keys -> the version its fetch has read; 0: none yet, or no more]
    served      \* [Clients -> the version it was handed; 0: none]

vars == <<published, stored, wants, fetcher, fetched, served>>

Init ==
    /\ published \in [Keys -> 0 .. MaxVersion]
    /\ stored \in [Keys -> 0 .. MaxVersion] /\ \A k \in Keys : stored[k] <= published[k]
    /\ wants \in [Clients -> Keys]
    /\ fetcher = [k \in Keys |-> NoClient]
    /\ fetched = [k \in Keys |-> 0]
    /\ served = [c \in Clients |-> 0]

Publish(k) ==
    /\ published[k] < MaxVersion
    /\ published' = [published EXCEPT ![k] = @ + 1]
    /\ UNCHANGED <<stored, wants, fetcher, fetched, served>>

Begin(c) ==
    /\ fetcher[wants[c]] = NoClient
    /\ fetcher' = [fetcher EXCEPT ![wants[c]] = c]
    /\ UNCHANGED <<published, stored, wants, fetched, served>>

Fetch(c) ==
    LET k == wants[c] IN
    /\ fetcher[k] = c /\ fetched[k] = 0 /\ published[k] # 0
    /\ fetched' = [fetched EXCEPT ![k] = published[k]]
    /\ UNCHANGED <<published, stored, wants, fetcher, served>>

(* The fetch has no more use for what it read.                             *)
Drop(c) ==
    LET k == wants[c] IN
    /\ fetcher[k] = c
    /\ fetched' = [fetched EXCEPT ![k] = 0]
    /\ UNCHANGED <<published, stored, wants, fetcher, served>>

(* Storing may fail after all, and may have had its effect none the less.  *)
Store(c) ==
    LET k == wants[c] IN
    /\ fetcher[k] = c /\ fetched[k] # 0
    /\ stored' = [stored EXCEPT ![k] = fetched[k]]
    /\ fetched' \in {fetched, [fetched EXCEPT ![k] = 0]}
    /\ UNCHANGED <<published, wants, fetcher, served>>

End(c) ==
    LET k == wants[c] IN
    /\ fetcher[k] = c /\ fetched[k] = 0
    /\ fetcher' = [fetcher EXCEPT ![k] = NoClient]
    /\ UNCHANGED <<published, stored, wants, fetched, served>>

(* A client is handed one object, once, no newer than the bucket's; if it  *)
(* led the fetch, that is over.                                            *)
Serve(c) ==
    LET k == wants[c] IN
    /\ served[c] = 0
    /\ \E v \in 1 .. stored[k] : served' = [served EXCEPT ![c] = v]
    /\ \/ fetched' = fetched
       \/ fetcher[k] = c /\ fetched' = [fetched EXCEPT ![k] = 0]
    /\ UNCHANGED <<published, stored, wants, fetcher>>

Next ==
    \/ \E k \in Keys : Publish(k)
    \/ \E c \in Clients : Begin(c) \/ Fetch(c) \/ Drop(c) \/ Store(c) \/ End(c) \/ Serve(c)

Spec == Init /\ [][Next]_vars

-----------------------------------------------------------------------------
TypeOK ==
    /\ published \in [Keys -> 0 .. MaxVersion]
    /\ stored \in [Keys -> 0 .. MaxVersion]
    /\ wants \in [Clients -> Keys]
    /\ fetcher \in [Keys -> Clients \cup {NoClient}]
    /\ fetched \in [Keys -> 0 .. MaxVersion]
    /\ served \in [Clients -> 0 .. MaxVersion]

(* What a fetch has read is between the bucket's version and upstream's,   *)
(* because no other fetch of the key stores anything meanwhile.            *)
Between ==
    \A k \in Keys :
        /\ stored[k] <= published[k]
        /\ fetched[k] # 0 => stored[k] <= fetched[k] /\ fetched[k] <= published[k]

ServedIsStored == \A c \in Clients : served[c] <= stored[wants[c]]

StoredOnlyGrows == [][\A k \in Keys : stored'[k] >= stored[k]]_vars
=============================================================================
