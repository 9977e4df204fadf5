------------------------- MODULE ReadThroughProofs -------------------------
EXTENDS ReadThrough, TLAPS

LEMMA BetweenInit == ASSUME MaxVersion \in Nat, Init PROVE TypeOK /\ Between
  BY DEF Init, TypeOK, Between

LEMMA BetweenStep ==
    ASSUME MaxVersion \in Nat, TypeOK, Between, [Next]_vars
    PROVE  TypeOK' /\ Between' /\ \A k \in Keys : stored'[k] >= stored[k]
  <1>1. CASE UNCHANGED vars
    BY <1>1 DEF vars, TypeOK, Between
  <1>2. CASE \E k \in Keys : Publish(k)
    BY <1>2 DEF Publish, TypeOK, Between
  <1>3. ASSUME NEW c \in Clients, Begin(c) \/ Fetch(c) \/ Drop(c) \/ Store(c) \/ End(c) \/ Serve(c)
        PROVE  TypeOK' /\ Between' /\ \A k \in Keys : stored'[k] >= stored[k]
    <2>0. wants[c] \in Keys
      BY DEF TypeOK
    <2>1. CASE Begin(c) \/ End(c)
      BY <2>0, <2>1 DEF Begin, End, TypeOK, Between
    <2>2. CASE Fetch(c)
      BY <2>0, <2>2 DEF Fetch, TypeOK, Between
    <2>3. CASE Drop(c)
      BY <2>0, <2>3 DEF Drop, TypeOK, Between
    <2>4. CASE Store(c)
      BY <2>0, <2>4 DEF Store, TypeOK, Between
    <2>5. CASE Serve(c)
      BY <2>0, <2>5 DEF Serve, TypeOK, Between
    <2> QED BY <1>3, <2>1, <2>2, <2>3, <2>4, <2>5
  <1> QED BY <1>1, <1>2, <1>3 DEF Next

(* What the promise is worth: the version a bucket holds never goes back.  *)
THEOREM PromiseForward == ASSUME MaxVersion \in Nat PROVE Spec => StoredOnlyGrows
  <1>1. Init => TypeOK /\ Between
    BY BetweenInit
  <1>2. TypeOK /\ Between /\ [Next]_vars => (TypeOK /\ Between)'
    BY BetweenStep
  <1>3. TypeOK /\ Between /\ [Next]_vars => [\A k \in Keys : stored'[k] >= stored[k]]_vars
    BY BetweenStep
  <1> QED BY <1>1, <1>2, <1>3, PTL DEF Spec, StoredOnlyGrows

(* And every object a client was handed was stored before, and still is or *)
(* has been replaced by a newer one.                                       *)
THEOREM PromiseServed == ASSUME MaxVersion \in Nat PROVE Spec => []ServedIsStored
  <1>1. Init => TypeOK /\ Between /\ ServedIsStored
    <2> SUFFICES ASSUME Init PROVE ServedIsStored
      BY BetweenInit
    <2>1. \A c \in Clients : wants[c] \in Keys /\ served[c] = 0
      BY DEF Init
    <2>2. \A k \in Keys : 0 <= stored[k]
      BY DEF Init
    <2>3. \A c \in Clients : served[c] <= stored[wants[c]]
      BY <2>1, <2>2
    <2> QED BY <2>3 DEF ServedIsStored
  <1>2. TypeOK /\ Between /\ ServedIsStored /\ [Next]_vars
            => (TypeOK /\ Between /\ ServedIsStored)'
    <2> SUFFICES ASSUME TypeOK, Between, ServedIsStored, [Next]_vars PROVE ServedIsStored'
      BY BetweenStep
    <2>1. TypeOK' /\ \A k \in Keys : stored'[k] >= stored[k]
      BY BetweenStep
    <2>2. wants' = wants
      BY DEF Next, vars, Publish, Begin, Fetch, Drop, Store, End, Serve
    <2>3. CASE served' = served
      BY <2>1, <2>2, <2>3 DEF ServedIsStored, TypeOK
    <2>4. CASE \E c \in Clients : Serve(c)
      BY <2>1, <2>2, <2>4 DEF ServedIsStored, TypeOK, Serve
    <2> QED BY <2>3, <2>4 DEF Next, vars, Publish, Begin, Fetch, Drop, Store, End
  <1> QED BY <1>1, <1>2, PTL DEF Spec
=============================================================================
