--------------------------- MODULE DiskSpaceProofs ---------------------------
(***************************************************************************)
(* The types of the disk cache, its books and the space it uses: for any   *)
(* keys, sizes, budgets, failures and restarts, and for any callers.       *)
(*                                                                         *)
(* The argument: no step but the lookup that resizes an entry changes a    *)
(* size that is indexed without changing used by as much (UsedIsIndexed).  *)
(* While room is not lost, at most one put has been given room (Alone); so *)
(* what ensureSpace compared with the cap, or with the free space, still   *)
(* holds when that put is noted (Cap), or has written its file (Spare).    *)
(* What is not overtaken stays in the books from the rename on (Booked).   *)
(***************************************************************************)
EXTENDS DiskCacheProofs, SumProofs

-----------------------------------------------------------------------------
(* What Without leaves of a sequence.                                      *)

Elements(s) == {s[i] : i \in 1 .. Len(s)}
Kept(s, gone, n, g) ==
    g = [m \in 0 .. n |-> IF m = 0 THEN <<>>
                          ELSE IF s[m] \in gone THEN g[m - 1] ELSE Append(g[m - 1], s[m])]

LEMMA ElementsAppend ==
    ASSUME NEW S, NEW s \in Seq(S), NEW x \in S
    PROVE  Append(s, x) \in Seq(S) /\ Elements(Append(s, x)) = Elements(s) \cup {x}
  <1>1. /\ Append(s, x) \in Seq(S) /\ Len(Append(s, x)) = Len(s) + 1
        /\ \A i \in 1 .. Len(s) : Append(s, x)[i] = s[i]
        /\ Append(s, x)[Len(s) + 1] = x
    OBVIOUS
  <1>2. 1 .. Len(s) + 1 = (1 .. Len(s)) \cup {Len(s) + 1}
    OBVIOUS
  <1> QED BY <1>1, <1>2 DEF Elements

LEMMA KeptExists ==
    ASSUME NEW s, NEW gone, NEW N \in Nat
    PROVE  \E g : Kept(s, gone, N, g)
  <1> DEFINE Bad == {n \in 0 .. N : ~ \E g : Kept(s, gone, n, g)}
  <1>1. SUFFICES ASSUME Bad # {} PROVE FALSE
    OBVIOUS
  <1>2. Bad \in SUBSET (0 .. N)
    OBVIOUS
  <1>3. PICK n \in Bad : \A m \in 0 .. n - 1 : m \notin Bad
    <2> HIDE DEF Bad
    <2> QED BY <1>1, <1>2, SmallestNumber
  <1>4. CASE n = 0
    <2> DEFINE g == [m \in 0 .. 0 |-> <<>>]
    <2>1. Kept(s, gone, 0, g)
      BY DEF Kept
    <2> QED BY <1>3, <1>4, <2>1
  <1>5. CASE n # 0
    <2>1. PICK h : Kept(s, gone, n - 1, h)
      BY <1>3, <1>5
    <2> DEFINE g == [m \in 0 .. n |->
                        IF m < n THEN h[m]
                        ELSE IF s[n] \in gone THEN h[n - 1] ELSE Append(h[n - 1], s[n])]
    <2>2. ASSUME NEW m \in 0 .. n
          PROVE  g[m] = IF m = 0 THEN <<>>
                        ELSE IF s[m] \in gone THEN g[m - 1] ELSE Append(g[m - 1], s[m])
      <3>1. CASE m = n
        BY <1>5, <3>1
      <3>2. CASE m < n
        <4>1. m \in 0 .. n - 1 /\ g[m] = h[m] /\ (m # 0 => g[m - 1] = h[m - 1])
          BY <3>2
        <4>2. h[m] = IF m = 0 THEN <<>>
                     ELSE IF s[m] \in gone THEN h[m - 1] ELSE Append(h[m - 1], s[m])
          BY <2>1, <4>1 DEF Kept
        <4> QED BY <4>1, <4>2
      <3> QED BY <3>1, <3>2
    <2>3. Kept(s, gone, n, g)
      BY <2>2 DEF Kept
    <2> QED BY <1>3, <2>3
  <1> QED BY <1>4, <1>5

LEMMA WithoutElements ==
    ASSUME NEW S, NEW s \in Seq(S), NEW gone
    PROVE  Without(s, gone) \in Seq(S) /\ Elements(Without(s, gone)) = Elements(s) \ gone
  <1> DEFINE kept == CHOOSE g : Kept(s, gone, Len(s), g)
  <1>1. Without(s, gone) = kept[Len(s)]
    BY DEF Without, Kept
  <1>2. Kept(s, gone, Len(s), kept)
    BY KeptExists
  <1> HIDE DEF kept
  <1> DEFINE Good(n) == /\ kept[n] \in Seq(S)
                        /\ Elements(kept[n]) = {s[i] : i \in 1 .. n} \ gone
             Bad == {n \in 0 .. Len(s) : ~Good(n)}
  <1>3. SUFFICES ASSUME Bad # {} PROVE FALSE
    <2>1. Good(Len(s)) => Without(s, gone) \in Seq(S)
                          /\ Elements(Without(s, gone)) = Elements(s) \ gone
      BY <1>1 DEF Elements
    <2>2. Len(s) \in 0 .. Len(s)
      OBVIOUS
    <2> HIDE DEF Good
    <2> QED BY <2>1, <2>2
  <1>4. Bad \in SUBSET (0 .. Len(s)) /\ Len(s) \in Nat
    OBVIOUS
  <1>5. PICK n \in Bad : \A m \in 0 .. n - 1 : m \notin Bad
    <2> HIDE DEF Bad
    <2> QED BY <1>3, <1>4, SmallestNumber
  <1>6. kept[n] = IF n = 0 THEN <<>>
                  ELSE IF s[n] \in gone THEN kept[n - 1] ELSE Append(kept[n - 1], s[n])
    BY <1>2, <1>5 DEF Kept
  <1>7. CASE n = 0
    <2>1. kept[n] = <<>> /\ {s[i] : i \in 1 .. n} = {}
      BY <1>6, <1>7
    <2>2. <<>> \in Seq(S) /\ Elements(<<>>) = {}
      BY DEF Elements
    <2> QED BY <1>5, <2>1, <2>2
  <1>8. CASE n # 0
    <2>1. n \in 1 .. Len(s) /\ s[n] \in S
      BY <1>5, <1>8
    <2>0. Good(n - 1)
      <3>1. n - 1 \in 0 .. n - 1 /\ n - 1 \in 0 .. Len(s)
        BY <2>1
      <3>2. n - 1 \notin Bad
        BY <1>5, <3>1
      <3> HIDE DEF Good
      <3> QED BY <3>1, <3>2
    <2>2. {s[i] : i \in 1 .. n} = {s[i] : i \in 1 .. n - 1} \cup {s[n]}
      BY <2>1
    <2>3. CASE s[n] \in gone
      BY <1>5, <1>6, <1>8, <2>0, <2>1, <2>2, <2>3
    <2>4. CASE s[n] \notin gone
      <3>1. /\ Append(kept[n - 1], s[n]) \in Seq(S)
            /\ Elements(Append(kept[n - 1], s[n])) = Elements(kept[n - 1]) \cup {s[n]}
        BY <2>0, <2>1, ElementsAppend
      <3> QED BY <1>5, <1>6, <1>8, <2>0, <2>1, <2>2, <2>4, <3>1
    <2> QED BY <2>3, <2>4
  <1> QED BY <1>7, <1>8

LEMMA LastUsedElements ==
    ASSUME NEW S, NEW s \in Seq(S), NEW x \in S
    PROVE  LastUsed(s, x) \in Seq(S) /\ Elements(LastUsed(s, x)) = Elements(s) \cup {x}
  BY WithoutElements, ElementsAppend DEF LastUsed, Forgotten

(* An order of a finite set holds every element of it.                     *)
LEMMA OrderElements ==
    ASSUME NEW S, IsFiniteSet(S), NEW s \in SetToSeqs(S)
    PROVE  s \in Seq(S) /\ Elements(s) = S
  <1> DEFINE n == Cardinality(S)
             D == 1 .. n
  <1>1. /\ n \in Nat /\ s \in [D -> S]
        /\ \A i, j \in D : i # j => s[i] # s[j]
    BY FS_CardinalityType DEF SetToSeqs
  <1>2. s \in Seq(S) /\ Len(s) = n
    BY <1>1
  <1>3. Elements(s) \subseteq S /\ IsFiniteSet(Elements(s))
    BY <1>1, <1>2, FS_Subset DEF Elements
  <1>4. Cardinality(Elements(s)) = n
    <2>1. IsFiniteSet(D) /\ Cardinality(D) = n
      BY <1>1, FS_Interval
    <2>2. s \in [D -> Elements(s)]
      BY <1>1, <1>2 DEF Elements
    <2>3. \A t \in Elements(s) : \E i \in D : s[i] = t
      BY <1>2 DEF Elements
    <2>4. s \in Bijection(D, Elements(s))
      BY <1>1, <2>2, <2>3 DEF Bijection, Injection, Surjection, IsInjective
    <2>5. ExistsBijection(D, Elements(s))
      BY <2>4 DEF ExistsBijection
    <2> QED BY <1>3, <2>1, <2>5, FS_Bijection
  <1> QED BY <1>2, <1>3, <1>4, FS_Subset
-----------------------------------------------------------------------------
(* Types.                                                                  *)

(* A worker has a file open where the code has.                            *)
Opened  == \A w \in Workers : fd[w] # NoInode <=> pc[w] \in {"write", "stat", "reading"}
Typed   == TypeOK /\ Opened

OnDisk  == /\ budget \in Budgets
           /\ files \in [Inodes -> Seq(Versions \cup {0})]
           /\ dir \in [Paths -> Inodes \cup {NoInode}]
InMemory == /\ index \in [Paths -> Nat \cup {Absent}]
            /\ lru \in Seq(Paths) /\ Elements(lru) = Indexed(index)
            /\ used \in Int
AtWork  == /\ pc \in [Workers -> Locations]
           /\ target \in [Workers -> Keys]
           /\ version \in [Workers -> Versions]
           /\ fd \in [Workers -> Inodes \cup {NoInode}]
           /\ offset \in [Workers -> Nat]
           /\ Opened
Remembered ==
    /\ crowded \in SUBSET Workers /\ suspect \in SUBSET Keys /\ overtaken \in SUBSET Keys
    /\ resized \in BOOLEAN
    /\ room \in {"kept", "restoring", "lost"}
Counted == started \in 0 .. MaxOps /\ crashes \in 0 .. MaxCrashes

LEMMA TypedParts == Typed <=> OnDisk /\ InMemory /\ AtWork /\ Counted /\ Remembered
  BY DEF Typed, TypeOK, OnDisk, InMemory, AtWork, Counted, Remembered, Locations, Elements

LEMMA FinitePaths == IsFiniteSet(Paths) /\ IsFiniteSet(Inodes) /\ IsFiniteSet(Workers)
  <1>1. IsFiniteSet({"object", "tmp"})
    <2>1. {"object", "tmp"} = {"object"} \cup {"tmp"} /\ IsFiniteSet({"object"})
      BY FS_Singleton
    <2> QED BY <2>1, FS_AddElement
  <1>2. IsFiniteSet(Keys \X {"object", "tmp"})
    BY <1>1, WorkersAssumption, FS_Product
  <1>3. 2 * Cardinality(Keys) + Cardinality(Workers) \in Nat
    BY WorkersAssumption, FS_CardinalityType
  <1>4. IsFiniteSet(1 .. (2 * Cardinality(Keys) + Cardinality(Workers)))
    BY <1>3, FS_Interval
  <1> QED BY <1>2, <1>4, WorkersAssumption DEF Paths, Inodes

LEMMA DefaultsTyped == AnyKey \in Keys /\ AnyVersion \in Versions
  BY WorkersAssumption, VersionsAssumption DEF AnyKey, AnyVersion

(* The largest of two numbers and the smallest of a set.                   *)
LEMMA MaxOfTwo ==
    ASSUME NEW a \in Int, NEW b \in Int
    PROVE  Max({a, b}) = IF a < b THEN b ELSE a
  BY DEF Max

LEMMA MinOfSome ==
    ASSUME NEW N \in Nat, NEW S \in SUBSET (0 .. N), S # {}
    PROVE  Min(S) \in S
  <1>1. PICK n \in S : \A m \in 0 .. n - 1 : m \notin S
    BY SmallestNumber
  <1>2. \A y \in S : n <= y
    BY <1>1
  <1> QED BY <1>2 DEF Min

LEMMA ReclaimTyped ==
    ASSUME OnDisk, Reclaim, dir' \in [Paths -> Inodes \cup {NoInode}]
    PROVE  OnDisk'
  BY DEF OnDisk, Reclaim

(* Any part of the index has a sum, which is not negative.                 *)
LEMMA IndexSum ==
    ASSUME InMemory, NEW S \in SUBSET Indexed(index)
    PROVE  IsFiniteSet(S) /\ (\A p \in S : index[p] \in Nat) /\ Sum(index, S) \in Nat
  <1>1. IsFiniteSet(S)
    BY FinitePaths, FS_Subset DEF Indexed
  <1>2. \A p \in S : index[p] \in Nat
    BY DEF InMemory, Indexed
  <1> QED BY <1>1, <1>2, SumNat DEF Sum

(* EnsureSpace evicts indexed paths only, never the one to be replaced.    *)
LEMMA SpaceVictims ==
    ASSUME InMemory, NEW w \in Workers, target[w] \in Keys, EnsureSpace(w)
    PROVE  \E victims \in SUBSET (Indexed(index) \ {Object(target[w])}) :
             /\ Evict(victims)
             /\ \/ /\ Goto(w, "space", "create")
                   /\ UNCHANGED <<offset, mixing, overtaken, resized>>
                   /\ Fits(target[w], SizeOf[version[w]], victims)
                   /\ room' = IF \E x \in Workers : Granted(x) THEN "lost"
                              ELSE IF room = "kept" THEN "kept" ELSE "restoring"
                \/ End(w, "space") /\ UNCHANGED <<suspect, books>>
  <1> DEFINE p        == Object(target[w])
             order    == Forgotten(lru, p)
             First(n) == {order[i] : i \in 1 .. n}
             enough   == {n \in 0 .. Len(order) :
                             Fits(target[w], SizeOf[version[w]], First(n))}
  <1>1. order \in Seq(Paths) /\ Elements(order) = Indexed(index) \ {p}
    BY WithoutElements DEF InMemory, Forgotten
  <1>2. \A n \in 0 .. Len(order) : First(n) \in SUBSET (Indexed(index) \ {p})
    BY <1>1 DEF Elements
  <1>3. \/ /\ enough # {} /\ Goto(w, "space", "create")
           /\ UNCHANGED <<offset, mixing, overtaken, resized>>
           /\ Evict(First(Min(enough)))
           /\ room' = IF \E x \in Workers : Granted(x) THEN "lost"
                      ELSE IF room = "kept" THEN "kept" ELSE "restoring"
        \/ End(w, "space") /\ UNCHANGED <<suspect, books>> /\ Evict(First(Len(order)))
    BY DEF EnsureSpace
  <1>4. Len(order) \in 0 .. Len(order) /\ Len(order) \in Nat
    BY <1>1
  <1>5. enough # {} => Min(enough) \in enough
    BY <1>4, MinOfSome
  <1> HIDE DEF First, order, p
  <1> QED BY <1>2, <1>3, <1>4, <1>5 DEF p

LEMMA EvictTyped ==
    ASSUME OnDisk, InMemory, NEW victims \in SUBSET Indexed(index), Evict(victims)
    PROVE  OnDisk' /\ InMemory' /\ fd' = fd
  <1>1. OnDisk'
    BY EvictShape, ReclaimTyped DEF OnDisk
  <1>2. index' \in [Paths -> Nat \cup {Absent}] /\ Indexed(index') = Indexed(index) \ victims
    BY DEF Evict, InMemory, Indexed
  <1>3. lru' \in Seq(Paths) /\ Elements(lru') = Elements(lru) \ victims
    BY WithoutElements DEF Evict, InMemory
  <1>4. used' \in Int
    BY IndexSum DEF Evict, InMemory
  <1> QED BY <1>1, <1>2, <1>3, <1>4, EvictShape DEF InMemory

LEMMA IndexedTyped ==
    ASSUME InMemory, NEW p \in Paths, NEW size \in Nat,
           index' = [index EXCEPT ![p] = size], lru' = LastUsed(lru, p), used' \in Int
    PROVE  InMemory'
  <1>1. index' \in [Paths -> Nat \cup {Absent}] /\ Indexed(index') = Indexed(index) \cup {p}
    BY DEF InMemory, Indexed, Absent
  <1>2. lru' \in Seq(Paths) /\ Elements(lru') = Elements(lru) \cup {p}
    BY LastUsedElements DEF InMemory
  <1> QED BY <1>1, <1>2 DEF InMemory

LEMMA ForgottenTyped ==
    ASSUME InMemory, NEW p \in Paths,
           index' = [index EXCEPT ![p] = Absent], lru' = Forgotten(lru, p), used' \in Int
    PROVE  InMemory'
  <1>1. index' \in [Paths -> Nat \cup {Absent}] /\ Indexed(index') = Indexed(index) \ {p}
    BY DEF InMemory, Indexed
  <1>2. lru' \in Seq(Paths) /\ Elements(lru') = Elements(lru) \ {p}
    BY WithoutElements DEF InMemory, Forgotten
  <1> QED BY <1>1, <1>2 DEF InMemory

LEMMA RebuiltTyped ==
    ASSUME OnDisk, Rebuilt(index', lru', used')
    PROVE  InMemory'
  <1>1. \A i \in Inodes : Len(files[i]) \in Nat
    BY DEF OnDisk
  <1>2. /\ index' \in [Paths -> Nat \cup {Absent}]
        /\ Indexed(index') = {p \in Paths : dir[p] # NoInode}
    BY <1>1 DEF Rebuilt, OnDisk, Indexed, Absent
  <1>3. IsFiniteSet(Indexed(index')) /\ \A p \in Indexed(index') : index'[p] \in Nat
    BY <1>2, FinitePaths, FS_Subset DEF Indexed
  <1>4. lru' \in Seq(Indexed(index')) /\ Elements(lru') = Indexed(index')
    BY <1>2, <1>3, OrderElements DEF Rebuilt
  <1>5. lru' \in Seq(Paths)
    BY <1>4 DEF Indexed
  <1>6. used' \in Int
    BY <1>3, SumInt DEF Rebuilt, Sum
  <1> QED BY <1>2, <1>4, <1>5, <1>6 DEF InMemory

(* What the steps of a worker do to it, with the descriptor they leave it. *)
Holds(w, to) == /\ fd' \in [Workers -> Inodes \cup {NoInode}]
                /\ \A x \in Workers \ {w} : fd'[x] = fd[x]
                /\ fd'[w] # NoInode <=> to \in {"write", "stat", "reading"}

LEMMA BeginTyped ==
    ASSUME AtWork, Counted, NEW w \in Workers, NEW k \in Keys, NEW v \in Versions,
           NEW to \in Locations, Begin(w, k, v, to), Holds(w, to)
    PROVE  AtWork' /\ Counted'
  <1>1. AtWork'
    BY DEF AtWork, Begin, Opened, Holds
  <1>2. Counted'
    BY SpaceAssumption DEF Counted, Begin
  <1> QED BY <1>1, <1>2

LEMMA GotoTyped ==
    ASSUME AtWork, Counted, NEW w \in Workers, NEW from, NEW to \in Locations,
           Goto(w, from, to), Holds(w, to), offset' \in [Workers -> Nat]
    PROVE  AtWork' /\ Counted'
  BY DEF AtWork, Counted, Goto, Opened, Holds

LEMMA EndTyped ==
    ASSUME AtWork, Counted, NEW w \in Workers, NEW from, End(w, from), Holds(w, "idle")
    PROVE  AtWork' /\ Counted'
  BY DefaultsTyped DEF AtWork, Counted, End, Opened, Holds, Locations

(* A write past the end of a file leaves a hole.                           *)
LEMMA LongerTyped ==
    ASSUME NEW S, 0 \in S, NEW content \in Seq(S), NEW at \in Nat, NEW v \in S
    PROVE  [i \in 1 .. Max({at, Len(content)}) |->
               IF i = at THEN v ELSE IF i <= Len(content) THEN content[i] ELSE 0] \in Seq(S)
  <1>1. PICK size \in Nat : size = Max({at, Len(content)})
    BY MaxOfTwo
  <1>2. \A i \in 1 .. Len(content) : content[i] \in S
    OBVIOUS
  <1>3. [i \in 1 .. size |->
            IF i = at THEN v ELSE IF i <= Len(content) THEN content[i] ELSE 0] \in Seq(S)
    BY <1>2
  <1> QED BY <1>1, <1>3

LEMMA PutTyped ==
    ASSUME OnDisk, InMemory, AtWork, Counted, NEW w \in Workers, Put(w)
    PROVE  OnDisk' /\ InMemory' /\ AtWork' /\ Counted'
  <1>1. /\ target[w] \in Keys /\ Object(target[w]) \in Paths /\ Temp(target[w]) \in Paths
        /\ version[w] \in Versions /\ SizeOf[version[w]] \in Nat
        /\ fd \in [Workers -> Inodes \cup {NoInode}] /\ NoInode \notin Inodes
        /\ fd[w] # NoInode <=> pc[w] \in {"write", "stat", "reading"}
    BY Names, Sizes DEF AtWork, Opened
  <1>2. CASE EnsureSpace(w)
    <2>1. PICK victims \in SUBSET (Indexed(index) \ {Object(target[w])}) :
             /\ Evict(victims)
             /\ \/ Goto(w, "space", "create") /\ UNCHANGED offset
                \/ End(w, "space")
      BY <1>1, <1>2, SpaceVictims
    <2>2. OnDisk' /\ InMemory' /\ fd' = fd
      BY <2>1, EvictTyped
    <2>3. pc[w] = "space"
      BY <2>1 DEF Goto, End
    <2>4. Holds(w, "create") /\ Holds(w, "idle")
      BY <1>1, <2>2, <2>3 DEF Holds
    <2>5. AtWork' /\ Counted'
      BY <2>1, <2>4, GotoTyped, EndTyped DEF AtWork, Locations
    <2> QED BY <2>2, <2>5
  <1>3. CASE Create(w)
    <2> DEFINE tmp == Temp(target[w])
               i   == IF dir[tmp] = NoInode THEN Unused ELSE dir[tmp]
    <2>1. /\ Goto(w, "create", "write") /\ UNCHANGED offset
          /\ dir' = [dir EXCEPT ![tmp] = i] /\ fd' = [fd EXCEPT ![w] = i]
          /\ files' = [files EXCEPT ![i] = <<>>] /\ UNCHANGED <<budget, memory>>
      BY <1>3 DEF Create
    <2>2. fd[w] = NoInode
      BY <1>1, <2>1 DEF Goto
    <2>3. i \in Inodes
      BY <1>1, <2>2, UnusedIsFree DEF OnDisk
    <2> HIDE DEF tmp, i
    <2>4. OnDisk'
      <3>1. <<>> \in Seq(Versions \cup {0})
        OBVIOUS
      <3> QED BY <2>1, <2>3, <3>1 DEF OnDisk
    <2>5. Holds(w, "write")
      BY <1>1, <2>1, <2>3 DEF Holds
    <2>6. AtWork' /\ Counted'
      BY <2>1, <2>5, GotoTyped DEF AtWork, Locations
    <2> QED BY <2>1, <2>4, <2>6 DEF InMemory, memory
  <1>4. CASE Write(w)
    <2> DEFINE at == offset[w] + 1
               content == files[fd[w]]
               longer == [i \in 1 .. Max({at, Len(content)}) |->
                  IF i = at THEN version[w] ELSE IF i <= Len(content) THEN content[i] ELSE 0]
    <2>1. /\ Goto(w, "write", "write") /\ UNCHANGED <<budget, dir, memory, fd>>
          /\ files' = [files EXCEPT ![fd[w]] = longer]
          /\ offset' = [offset EXCEPT ![w] = at]
      BY <1>4 DEF Write
    <2>2. at \in Nat /\ content \in Seq(Versions \cup {0}) /\ fd[w] \in Inodes
      BY <1>1, <2>1 DEF AtWork, OnDisk, Goto
    <2>3. Max({at, Len(content)}) \in Nat
      BY <2>2, MaxOfTwo
    <2>4. longer \in Seq(Versions \cup {0})
      BY <1>1, <2>2, LongerTyped
    <2> HIDE DEF at, content, longer
    <2>5. OnDisk'
      BY <2>1, <2>2, <2>4 DEF OnDisk
    <2>6. Holds(w, "write") /\ offset' \in [Workers -> Nat]
      BY <1>1, <2>1, <2>2 DEF Holds, AtWork, Goto
    <2>7. AtWork' /\ Counted'
      BY <2>1, <2>6, GotoTyped DEF Locations
    <2> QED BY <2>1, <2>5, <2>7 DEF InMemory, memory
  <1>5. ASSUME NEW to \in {"rename", "abandon"}, Goto(w, "write", to), UNCHANGED offset,
               CloseFile(w)
        PROVE  OnDisk' /\ InMemory' /\ AtWork' /\ Counted'
    <2>1. OnDisk'
      BY <1>5, ReclaimTyped DEF CloseFile, OnDisk
    <2>2. Holds(w, to)
      BY <1>1, <1>5 DEF CloseFile, Holds
    <2>3. AtWork' /\ Counted'
      BY <1>5, <2>2, GotoTyped DEF AtWork, Locations
    <2> QED BY <1>5, <2>1, <2>3 DEF CloseFile, InMemory, memory
  <1>6. CASE Close(w) \/ PutFails(w)
    BY <1>5, <1>6 DEF Close, PutFails
  <1>7. CASE Rename(w)
    <2>1. /\ Reclaim /\ UNCHANGED <<memory, fd, offset>>
          /\ dir' \in [Paths -> Inodes \cup {NoInode}]
      BY <1>1, <1>7 DEF Rename, OnDisk
    <2>2. PICK to \in {"note", "abandon"} : Goto(w, "rename", to)
      BY <1>7 DEF Rename
    <2>3. Holds(w, to)
      BY <1>1, <2>1, <2>2 DEF Holds, Goto
    <2>4. AtWork' /\ Counted'
      BY <2>1, <2>2, <2>3, GotoTyped DEF AtWork, Locations
    <2> QED BY <2>1, <2>4, ReclaimTyped DEF InMemory, memory
  <1>8. CASE Abandon(w)
    <2>1. /\ Reclaim /\ UNCHANGED <<memory, fd>> /\ End(w, "abandon")
          /\ dir' \in [Paths -> Inodes \cup {NoInode}]
      BY <1>1, <1>8 DEF Abandon, OnDisk
    <2>2. Holds(w, "idle")
      BY <1>1, <2>1 DEF Holds, End
    <2> QED BY <2>1, <2>2, ReclaimTyped, EndTyped DEF InMemory, memory
  <1>9. CASE Note(w)
    <2>1. /\ index' = [index EXCEPT ![Object(target[w])] = SizeOf[version[w]]]
          /\ lru' = LastUsed(lru, Object(target[w]))
          /\ End(w, "note") /\ UNCHANGED <<disk, fd>>
      BY <1>9 DEF Note
    <2>2. used' \in Int
      BY <1>1, <1>9 DEF Note, InMemory, Absent
    <2>3. Holds(w, "idle")
      BY <1>1, <2>1 DEF Holds, End
    <2>4. InMemory'
      BY <1>1, <2>1, <2>2, IndexedTyped
    <2> QED BY <2>1, <2>3, <2>4, EndTyped DEF OnDisk, disk
  <1>10. CASE CreateFails(w)
    <2>1. /\ UNCHANGED <<disk, memory, fd>>
          /\ \/ End(w, "create")
             \/ Goto(w, "create", "abandon") /\ UNCHANGED offset
      BY <1>10 DEF CreateFails
    <2>2. Holds(w, "idle") /\ Holds(w, "abandon")
      BY <1>1, <2>1 DEF Holds, Goto, End
    <2>3. AtWork' /\ Counted'
      BY <2>1, <2>2, GotoTyped, EndTyped DEF AtWork, Locations
    <2> QED BY <2>1, <2>3 DEF OnDisk, InMemory, disk, memory
  <1> QED BY <1>2, <1>3, <1>4, <1>6, <1>7, <1>8, <1>9, <1>10 DEF Put

LEMMA LookTyped ==
    ASSUME OnDisk, InMemory, AtWork, Counted, NEW w \in Workers, Look(w) \/ Forget(w)
    PROVE  OnDisk' /\ InMemory' /\ AtWork' /\ Counted'
  <1>1. /\ target[w] \in Keys /\ Object(target[w]) \in Paths
        /\ fd \in [Workers -> Inodes \cup {NoInode}] /\ NoInode \notin Inodes
        /\ fd[w] # NoInode <=> pc[w] \in {"write", "stat", "reading"}
    BY Names DEF AtWork, Opened
  <1>2. CASE Stat(w)
    <2>1. /\ index' = [index EXCEPT ![Object(target[w])] = Len(files[fd[w]])]
          /\ lru' = LastUsed(lru, Object(target[w]))
          /\ offset' = [offset EXCEPT ![w] = Len(files[fd[w]])]
          /\ used' \in {used, used + Len(files[fd[w]])}
          /\ Goto(w, "stat", "reading") /\ UNCHANGED <<disk, fd>>
      BY <1>2 DEF Stat
    <2>2. Len(files[fd[w]]) \in Nat
      BY <1>1, <2>1 DEF OnDisk, Goto
    <2>3. InMemory'
      <3>1. used' \in Int
        BY <2>1, <2>2 DEF InMemory
      <3> QED BY <1>1, <2>1, <2>2, <3>1, IndexedTyped
    <2>4. Holds(w, "reading") /\ offset' \in [Workers -> Nat]
      BY <1>1, <2>1, <2>2 DEF Holds, AtWork, Goto
    <2>5. AtWork' /\ Counted'
      BY <2>1, <2>4, GotoTyped DEF Locations
    <2> QED BY <2>1, <2>3, <2>5 DEF OnDisk, disk
  <1>3. CASE Done(w)
    <2>1. OnDisk' /\ InMemory'
      BY <1>3, ReclaimTyped DEF Done, CloseFile, OnDisk, InMemory, memory
    <2>2. Holds(w, "idle")
      BY <1>1, <1>3 DEF Done, CloseFile, Holds
    <2> QED BY <1>3, <2>1, <2>2, EndTyped DEF Done
  <1>4. CASE Forget(w)
    <2>1. End(w, "forget") /\ UNCHANGED <<disk, fd>>
      BY <1>4 DEF Forget
    <2>2. Holds(w, "idle")
      BY <1>1, <2>1 DEF Holds, End
    <2>3. InMemory'
      <3>1. CASE index[Object(target[w])] # Absent
        <4>1. used - index[Object(target[w])] \in Int
          BY <1>1, <3>1 DEF InMemory
        <4>2. Max({0, used - index[Object(target[w])]}) \in Int
          BY <4>1, MaxOfTwo
        <4> QED BY <1>1, <1>4, <3>1, <4>2, ForgottenTyped DEF Forget
      <3>2. CASE index[Object(target[w])] = Absent
        BY <1>4, <3>2 DEF Forget, InMemory, memory
      <3> QED BY <3>1, <3>2
    <2> QED BY <2>1, <2>2, <2>3, EndTyped DEF OnDisk, disk
  <1> QED BY <1>2, <1>3, <1>4 DEF Look

LEMMA StartTyped ==
    ASSUME OnDisk, InMemory, AtWork, Counted, NEW w \in Workers, NEW k \in Keys,
           Open(w, k) \/ Unlink(w, k) \/ (\E v \in Versions : StartPut(w, k, v))
    PROVE  OnDisk' /\ InMemory' /\ AtWork' /\ Counted'
  <1>1. /\ version[w] \in Versions /\ Object(k) \in Paths /\ NoInode \notin Inodes
        /\ fd \in [Workers -> Inodes \cup {NoInode}]
        /\ fd[w] # NoInode <=> pc[w] \in {"write", "stat", "reading"}
    BY Names DEF AtWork, Opened
  <1>2. CASE Open(w, k)
    <2>1. dir[Object(k)] \in Inodes
      BY <1>1, <1>2 DEF Open, OnDisk
    <2>2. Begin(w, k, version[w], "stat") /\ UNCHANGED <<disk, memory>> /\ Holds(w, "stat")
      BY <1>1, <1>2, <2>1 DEF Open, Holds
    <2>3. AtWork' /\ Counted'
      BY <1>1, <2>2, BeginTyped DEF Locations
    <2> QED BY <2>2, <2>3 DEF OnDisk, InMemory, disk, memory
  <1>3. CASE Unlink(w, k)
    <2>1. /\ Begin(w, k, version[w], "forget") /\ UNCHANGED <<memory, fd>> /\ Reclaim
          /\ dir' \in [Paths -> Inodes \cup {NoInode}]
      BY <1>1, <1>3 DEF Unlink, OnDisk
    <2>2. Holds(w, "forget")
      BY <1>1, <2>1 DEF Holds, Begin
    <2>3. AtWork' /\ Counted'
      BY <1>1, <2>1, <2>2, BeginTyped DEF Locations
    <2> QED BY <2>1, <2>3, ReclaimTyped DEF InMemory, memory
  <1>4. ASSUME NEW v \in Versions, StartPut(w, k, v)
        PROVE  OnDisk' /\ InMemory' /\ AtWork' /\ Counted'
    <2>1. Begin(w, k, v, "space") /\ UNCHANGED <<disk, memory, fd>>
      BY <1>4 DEF StartPut
    <2>2. Holds(w, "space")
      BY <1>1, <2>1 DEF Holds, Begin
    <2>3. AtWork' /\ Counted'
      BY <2>1, <2>2, BeginTyped DEF Locations
    <2> QED BY <2>1, <2>3 DEF OnDisk, InMemory, disk, memory
  <1> QED BY <1>2, <1>3, <1>4

LEMMA RestartTyped ==
    ASSUME OnDisk, InMemory, AtWork, Counted, Restart
    PROVE  OnDisk' /\ InMemory' /\ AtWork' /\ Counted'
  <1>1. OnDisk' /\ InMemory'
    BY ReclaimTyped, RebuiltTyped DEF Restart, OnDisk
  <1>2. AtWork'
    BY DefaultsTyped, Names DEF Restart, AtWork, Opened, Locations
  <1>3. Counted'
    BY SpaceAssumption DEF Restart, Counted
  <1> QED BY <1>1, <1>2, <1>3

(* The history.                                                            *)
LEMMA HistoryTyped ==
    ASSUME InMemory, AtWork, Remembered, [Next]_vars
    PROVE  Remembered'
  <1>1. ASSUME NEW w \in Workers, Put(w) PROVE Remembered'
    <2>1. target[w] \in Keys
      BY DEF AtWork
    <2>2. CASE EnsureSpace(w)
      <3>1. PICK victims : \/ /\ UNCHANGED <<mixing, overtaken, resized>>
                              /\ room' \in {"kept", "restoring", "lost"}
                           \/ End(w, "space") /\ UNCHANGED <<suspect, books>>
        BY <2>1, <2>2, SpaceVictims
      <3> QED BY <3>1 DEF Remembered, End, mixing, books
    <2>3. CASE Create(w) \/ CreateFails(w) \/ Write(w) \/ Close(w) \/ PutFails(w)
      BY <2>3 DEF Create, CreateFails, Write, Close, PutFails, CloseFile, End, Remembered, Rivals,
                  mixing, books
    <2>4. CASE Rename(w) \/ Abandon(w)
      BY <2>1, <2>4 DEF Rename, Abandon, End, Remembered, books
    <2>5. CASE Note(w)
      BY <2>1, <2>5 DEF Note, End, Entered, Remembered
    <2> QED BY <1>1, <2>2, <2>3, <2>4, <2>5 DEF Put
  <1>2. ASSUME NEW w \in Workers, Look(w) \/ Forget(w) PROVE Remembered'
    BY <1>2 DEF Look, Stat, Done, Forget, CloseFile, End, Found, Entered, AtWork, Remembered,
                mixing, books
  <1>3. ASSUME NEW w \in Workers, NEW k \in Keys,
               Open(w, k) \/ Unlink(w, k) \/ \E v \in Versions : StartPut(w, k, v)
        PROVE  Remembered'
    BY <1>3 DEF Open, Unlink, StartPut, Remembered, mixing, books
  <1>4. CASE Restart
    BY <1>4 DEF Restart, Remembered
  <1>5. CASE UNCHANGED vars
    BY <1>5 DEF vars, mixing, books, Remembered
  <1> QED BY <1>1, <1>2, <1>3, <1>4, <1>5 DEF Next

LEMMA InitTyped == ASSUME Init PROVE Typed
  <1>1. OnDisk
    <2>1. <<>> \in Seq(Versions \cup {0})
      OBVIOUS
    <2> QED BY <2>1 DEF Init, OnDisk
  <1>2. InMemory
    <2>1. /\ index = [p \in Paths |-> Absent]
          /\ {p \in Paths : dir[p] # NoInode} = {} /\ Indexed(index) = {}
          /\ lru \in SetToSeqs({}) /\ used = Sum(index, {})
      BY DEF Init, Rebuilt, Indexed
    <2>2. lru \in Seq({}) /\ Elements(lru) = {}
      BY <2>1, OrderElements, FS_EmptySet
    <2>3. used = 0
      BY <2>1, SumEmpty DEF Sum
    <2> QED BY <2>1, <2>2, <2>3 DEF InMemory
  <1>3. AtWork /\ Counted
    BY DefaultsTyped, SpaceAssumption, Names DEF Init, AtWork, Counted, Opened, Locations
  <1>4. Remembered
    BY DEF Init, Remembered
  <1> QED BY <1>1, <1>2, <1>3, <1>4, TypedParts

LEMMA TypedInvariance == Spec => []Typed
  <1>1. Init => Typed
    BY InitTyped
  <1>2. Typed /\ [Next]_vars => Typed'
    <2> SUFFICES ASSUME OnDisk, InMemory, AtWork, Counted, Remembered, [Next]_vars
                 PROVE  OnDisk' /\ InMemory' /\ AtWork' /\ Counted' /\ Remembered'
      BY TypedParts DEF Typed, TypeOK, OnDisk, InMemory, AtWork, Counted, Remembered,
         Locations, Elements
    <2>1. CASE UNCHANGED vars
      <3>1. OnDisk' /\ InMemory' /\ AtWork' /\ Counted'
        BY <2>1 DEF vars, disk, memory, worker, OnDisk, InMemory, AtWork, Opened, Counted
      <3> QED BY <3>1, HistoryTyped
    <2> QED BY <2>1, PutTyped, LookTyped, StartTyped, RestartTyped, HistoryTyped DEF Next
  <1> QED BY <1>1, <1>2, PTL DEF Spec

(* Whoever calls the cache and however: the order of use is the indexed    *)
(* paths, no file is written that is not open, and there is always an inode*)
(* for a file that is created.                                             *)
THEOREM DiskTypeCorrect == Spec => []TypeOK
  <1>1. Typed => TypeOK
    BY DEF Typed
  <1> QED BY <1>1, TypedInvariance, PTL

-----------------------------------------------------------------------------
(* What the updates of the index do to its sum.                            *)

LEMMA EvictedSum ==
    ASSUME InMemory, NEW victims \in SUBSET Indexed(index),
           index' = [p \in Paths |-> IF p \in victims THEN Absent ELSE index[p]]
    PROVE  Sum(index', Indexed(index')) = Sum(index, Indexed(index)) - Sum(index, victims)
  <1>1. PICK I : I = Indexed(index)
    OBVIOUS
  <1>2. /\ IsFiniteSet(I) /\ IsFiniteSet(I \ victims) /\ \A p \in I : index[p] \in Int
        /\ Sum(index, victims) \in Nat /\ Sum(index, I \ victims) \in Nat
    BY <1>1, IndexSum
  <1>3. Indexed(index') = I \ victims /\ \A p \in I \ victims : index'[p] = index[p]
    BY <1>1 DEF Indexed
  <1>4. Sum(index', I \ victims) = Sum(index, I \ victims)
    BY <1>2, <1>3, SumSame DEF Sum
  <1>5. Sum(index, I) = Sum(index, victims) + Sum(index, I \ victims)
    BY <1>1, <1>2, SumSplit DEF Sum
  <1>6. Sum(index', Indexed(index')) = Sum(index, I \ victims)
    BY <1>3, <1>4
  <1> QED BY <1>1, <1>2, <1>5, <1>6

LEMMA ForgottenSum ==
    ASSUME InMemory, NEW p \in Indexed(index), index' = [index EXCEPT ![p] = Absent]
    PROVE  Sum(index', Indexed(index')) = Sum(index, Indexed(index)) - index[p]
  <1>1. PICK I : I = Indexed(index)
    OBVIOUS
  <1>2. /\ IsFiniteSet(I) /\ IsFiniteSet(I \ {p}) /\ \A q \in I : index[q] \in Int
        /\ p \in I /\ Sum(index, I \ {p}) \in Nat
    BY <1>1, IndexSum
  <1>3. Indexed(index') = I \ {p} /\ \A q \in I \ {p} : index'[q] = index[q]
    BY <1>1 DEF Indexed, InMemory
  <1>4. Sum(index', I \ {p}) = Sum(index, I \ {p})
    <2>1. ASSUME NEW f, NEW g, \A q \in I \ {p} : g[q] = f[q]
          PROVE  Sum(g, I \ {p}) = Sum(f, I \ {p})
      BY <1>2, <2>1, SumSame DEF Sum
    <2> QED BY <1>3, <2>1
  <1>5. Sum(index, I) = index[p] + Sum(index, I \ {p})
    BY <1>2, SumRemove DEF Sum
  <1>6. Sum(index', Indexed(index')) = Sum(index, I \ {p})
    BY <1>3, <1>4
  <1> QED BY <1>1, <1>2, <1>5, <1>6

LEMMA IndexedSum ==
    ASSUME InMemory, NEW p \in Paths, NEW size \in Nat, index' = [index EXCEPT ![p] = size]
    PROVE  Sum(index', Indexed(index'))
              = Sum(index, Indexed(index)) - (IF index[p] = Absent THEN 0 ELSE index[p]) + size
  <1>1. PICK I : I = Indexed(index)
    OBVIOUS
  <1>2. IsFiniteSet(I) /\ (\A q \in I : index[q] \in Int) /\ Sum(index, I) \in Nat
    BY <1>1, IndexSum
  <1>3. /\ Indexed(index') = I \cup {p} /\ index'[p] = size
        /\ \A q \in I \ {p} : index'[q] = index[q]
        /\ p \in I <=> index[p] # Absent
    BY <1>1 DEF Indexed, InMemory, Absent
  <1>4. CASE p \in I
    <2>1. Sum(index', I) = Sum(index, I) - index[p] + size
      <3>1. ASSUME NEW f, NEW g, \A q \in I : f[q] \in Int, g[p] = size,
                   \A q \in I \ {p} : g[q] = f[q]
            PROVE  Sum(g, I) = Sum(f, I) - f[p] + g[p]
        BY <1>2, <1>4, <3>1, SumChange DEF Sum
      <3> QED BY <1>2, <1>3, <3>1
    <2>2. I \cup {p} = I
      BY <1>4
    <2> QED BY <1>1, <1>3, <1>4, <2>1, <2>2
  <1>5. CASE p \notin I
    <2>1. (\A q \in I \cup {p} : index'[q] \in Int) /\ (\A q \in I : index'[q] = index[q])
      BY <1>2, <1>3, <1>5
    <2>2. Sum(index', I \cup {p}) = index'[p] + Sum(index', I)
      BY <1>2, <1>5, <2>1, SumAdd DEF Sum
    <2>3. Sum(index', I) = Sum(index, I)
      <3>1. ASSUME NEW f, NEW g, \A q \in I : g[q] = f[q] PROVE Sum(g, I) = Sum(f, I)
        BY <1>2, <3>1, SumSame DEF Sum
      <3> QED BY <2>1, <3>1
    <2>4. Sum(index', Indexed(index')) = size + Sum(index, I)
      BY <1>3, <2>2, <2>3
    <2> QED BY <1>1, <1>2, <1>3, <1>5, <2>4
  <1> QED BY <1>4, <1>5

-----------------------------------------------------------------------------
(* What the steps leave alone.                                             *)

LEMMA TypedMemory ==
    ASSUME Typed
    PROVE  /\ InMemory /\ Remembered
           /\ pc \in [Workers -> Locations]
           /\ target \in [Workers -> Keys]
           /\ version \in [Workers -> Versions]
           /\ fd \in [Workers -> Inodes \cup {NoInode}]
           /\ dir \in [Paths -> Inodes \cup {NoInode}]
           /\ \A w \in Workers : Object(target[w]) \in Paths /\ Temp(target[w]) \in Paths
  BY TypedParts, Names DEF AtWork, OnDisk

(* Worker w moves, and neither ends a put or a delete nor begins one of its*)
(* critical sections.                                                      *)
Others(w) == \A x \in Workers \ {w} :
                 pc'[x] = pc[x] /\ target'[x] = target[x] /\ version'[x] = version[x]
Plain(w) ==
    /\ UNCHANGED <<budget, memory, books>> /\ Others(w)
    /\ Granted(w)' => Granted(w) /\ target'[w] = target[w] /\ version'[w] = version[w]
    /\ pc[w] \notin {"note", "forget"} /\ pc'[w] \notin {"note", "forget"}
    /\ \A k \in Keys : dir'[Object(k)] \in {dir[Object(k)], NoInode}

LEMMA PlainSteps ==
    ASSUME Typed, NEW w \in Workers,
           \/ Create(w) \/ CreateFails(w) \/ Write(w) \/ Close(w) \/ PutFails(w) \/ Abandon(w)
           \/ Done(w) \/ (Rename(w) /\ dir[Temp(target[w])] = NoInode)
           \/ \E k \in Keys : Open(w, k) \/ \E v \in Versions : StartPut(w, k, v)
    PROVE  Plain(w)
  <1>1. /\ pc \in [Workers -> Locations] /\ target \in [Workers -> Keys]
        /\ version \in [Workers -> Versions] /\ dir \in [Paths -> Inodes \cup {NoInode}]
        /\ target[w] \in Keys /\ Temp(target[w]) \in Paths
    BY TypedMemory
  <1>2. \A k \in Keys : Object(k) \in Paths /\ Object(k) # Temp(target[w])
    BY <1>1, Names
  <1>3. CASE Create(w) \/ Abandon(w)
    <2>1. \A k \in Keys : dir'[Object(k)] = dir[Object(k)]
      BY <1>1, <1>2, <1>3 DEF Create, Abandon
    <2>2. /\ UNCHANGED <<budget, memory, books>> /\ Others(w)
          /\ Granted(w)' => Granted(w) /\ target'[w] = target[w] /\ version'[w] = version[w]
          /\ pc[w] \notin {"note", "forget"} /\ pc'[w] \notin {"note", "forget"}
      BY <1>1, <1>3 DEF Create, Abandon, Goto, End, Reclaim, Others, Granted
    <2> QED BY <2>1, <2>2 DEF Plain
  <1>4. CASE CreateFails(w)
    BY <1>1, <1>4 DEF CreateFails, Goto, End, Others, Granted, Plain, disk, books
  <1>5. CASE Write(w) \/ Close(w) \/ PutFails(w)
    BY <1>1, <1>5 DEF Write, Close, PutFails, CloseFile, Reclaim, Goto, Others, Granted, Plain
  <1>6. CASE Done(w)
    BY <1>1, <1>6 DEF Done, CloseFile, Reclaim, End, Others, Granted, Plain
  <1>7. CASE Rename(w) /\ dir[Temp(target[w])] = NoInode
    BY <1>1, <1>7 DEF Rename, Reclaim, Goto, Others, Granted, Plain, books
  <1>8. ASSUME NEW k \in Keys, Open(w, k) PROVE Plain(w)
    BY <1>1, <1>8 DEF Open, Begin, Others, Granted, Plain, disk
  <1>9. ASSUME NEW k \in Keys, NEW v \in Versions, StartPut(w, k, v) PROVE Plain(w)
    BY <1>1, <1>9 DEF StartPut, Begin, Others, Granted, Plain, disk
  <1> QED BY <1>3, <1>4, <1>5, <1>6, <1>7, <1>8, <1>9

(* All steps: these, and those the books are about.                        *)
LEMMA StepCases ==
    ASSUME Typed, [Next]_vars
    PROVE  \/ UNCHANGED vars
           \/ \E w \in Workers :
                 \/ Plain(w) \/ EnsureSpace(w) \/ Note(w) \/ Stat(w) \/ Forget(w)
                 \/ Rename(w) /\ dir[Temp(target[w])] # NoInode
                 \/ \E k \in Keys : Unlink(w, k)
           \/ Restart
  <1>1. ASSUME NEW w \in Workers, Put(w) \/ Look(w) \/ Forget(w)
        PROVE  \/ Plain(w) \/ EnsureSpace(w) \/ Note(w) \/ Stat(w) \/ Forget(w)
               \/ Rename(w) /\ dir[Temp(target[w])] # NoInode
    <2>1. CASE Create(w) \/ CreateFails(w) \/ Write(w) \/ Close(w) \/ PutFails(w) \/ Abandon(w)
               \/ Done(w)
      BY <2>1, PlainSteps
    <2>2. CASE Rename(w)
      <3>1. CASE dir[Temp(target[w])] = NoInode
        BY <2>2, <3>1, PlainSteps
      <3>2. CASE dir[Temp(target[w])] # NoInode
        BY <2>2, <3>2
      <3> QED BY <3>1, <3>2
    <2> QED BY <1>1, <2>1, <2>2 DEF Put, Look
  <1>2. ASSUME NEW w \in Workers, NEW k \in Keys,
               Open(w, k) \/ \E v \in Versions : StartPut(w, k, v)
        PROVE  Plain(w)
    BY <1>2, PlainSteps
  <1> QED BY <1>1, <1>2 DEF Next

-----------------------------------------------------------------------------
(* The bytes used.                                                         *)

Replaced(k) == IF index[Object(k)] = Absent THEN 0 ELSE index[Object(k)]

LEMMA UsedKept ==
    ASSUME UsedIsIndexed, UNCHANGED <<memory, resized>>
    PROVE  UsedIsIndexed'
  BY DEF UsedIsIndexed, memory, Indexed

(* A delete takes out what was in, so it never meets the floor of zero.    *)
LEMMA ForgetUses ==
    ASSUME Typed, UsedIsIndexed, ~resized, NEW w \in Workers, Forget(w),
           index[Object(target[w])] # Absent
    PROVE  /\ used' = used - index[Object(target[w])] /\ index[Object(target[w])] \in Nat
           /\ index' = [index EXCEPT ![Object(target[w])] = Absent]
           /\ used' = Sum(index', Indexed(index'))
  <1> DEFINE p == Object(target[w])
  <1>1. InMemory /\ p \in Paths
    BY TypedMemory
  <1>2. index' = [index EXCEPT ![p] = Absent] /\ used' = Max({0, used - index[p]})
    BY DEF Forget
  <1>3. p \in Indexed(index) /\ index[p] \in Nat /\ used \in Int
    BY <1>1 DEF Indexed, InMemory
  <1>4. Sum(index', Indexed(index')) = used - index[p]
    BY <1>1, <1>2, <1>3, ForgottenSum DEF UsedIsIndexed
  <1>5. Indexed(index') \subseteq Indexed(index) /\ \A q \in Indexed(index') : index'[q] = index[q]
    BY <1>1, <1>2 DEF Indexed, InMemory
  <1>6. used - index[p] \in Nat
    <2>1. IsFiniteSet(Indexed(index')) /\ \A q \in Indexed(index') : index'[q] \in Nat
      BY <1>1, <1>5, IndexSum
    <2> QED BY <1>4, <2>1, SumNat DEF Sum
  <1>7. used' = used - index[p]
    BY <1>2, <1>3, <1>6, MaxOfTwo
  <1> QED BY <1>2, <1>3, <1>4, <1>7

LEMMA UsedStep ==
    ASSUME Typed, UsedIsIndexed, [Next]_vars
    PROVE  UsedIsIndexed'
  <1> USE TypedMemory
  <1>1. CASE UNCHANGED vars
    BY <1>1, UsedKept DEF vars, books
  <1>2. ASSUME NEW w \in Workers, Plain(w) PROVE UsedIsIndexed'
    BY <1>2, UsedKept DEF Plain, books
  <1>3. ASSUME NEW w \in Workers, EnsureSpace(w) PROVE UsedIsIndexed'
    <2>1. PICK victims \in SUBSET Indexed(index) : Evict(victims) /\ resized' = resized
      <3>1. target[w] \in Keys
        OBVIOUS
      <3> QED BY <1>3, <3>1, SpaceVictims DEF books
    <2>2. /\ index' = [p \in Paths |-> IF p \in victims THEN Absent ELSE index[p]]
          /\ used' = used - Sum(index, victims)
      BY <2>1 DEF Evict
    <2> QED BY <2>1, <2>2, EvictedSum DEF UsedIsIndexed
  <1>4. ASSUME NEW w \in Workers, Note(w) PROVE UsedIsIndexed'
    <2> DEFINE p == Object(target[w])
    <2>1. /\ index' = [index EXCEPT ![p] = SizeOf[version[w]]] /\ resized' = resized
          /\ used' = used - (IF index[p] = Absent THEN 0 ELSE index[p]) + SizeOf[version[w]]
      BY <1>4 DEF Note
    <2>2. p \in Paths /\ SizeOf[version[w]] \in Nat
      BY Sizes
    <2> QED BY <2>1, <2>2, IndexedSum DEF UsedIsIndexed
  <1>5. ASSUME NEW w \in Workers, Stat(w) PROVE UsedIsIndexed'
    <2> DEFINE p == Object(target[w])
    <2>1. PICK size \in Nat :
             /\ index' = [index EXCEPT ![p] = size]
             /\ used' = IF index[p] = Absent THEN used + size ELSE used
             /\ resized' = (resized \/ index[p] \notin {Absent, size})
      <3>1. pc[w] = "stat" /\ fd[w] \in Inodes
        BY <1>5 DEF Stat, Goto, Typed, Opened
      <3>2. Len(files[fd[w]]) \in Nat
        BY <3>1 DEF Typed, TypeOK
      <3> QED BY <1>5, <3>2 DEF Stat, Found
    <2>2. p \in Paths
      OBVIOUS
    <2>3. Sum(index', Indexed(index'))
             = Sum(index, Indexed(index)) - (IF index[p] = Absent THEN 0 ELSE index[p]) + size
      BY <2>1, <2>2, IndexedSum
    <2>4. used \in Int /\ size \in Nat
      BY DEF InMemory
    <2> SUFFICES ASSUME ~resized' PROVE used' = Sum(index', Indexed(index'))
      BY DEF UsedIsIndexed
    <2>5. used = Sum(index, Indexed(index)) /\ index[p] \in {Absent, size}
      BY <2>1 DEF UsedIsIndexed
    <2> HIDE DEF p
    <2> QED BY <2>1, <2>3, <2>4, <2>5 DEF Absent
  <1>6. ASSUME NEW w \in Workers, Forget(w) PROVE UsedIsIndexed'
    <2>1. resized' = resized
      BY <1>6 DEF Forget, books
    <2>2. index[Object(target[w])] = Absent => UNCHANGED memory
      BY <1>6 DEF Forget
    <2> QED BY <1>6, <2>1, <2>2, UsedKept, ForgetUses DEF UsedIsIndexed
  <1>7. ASSUME NEW w \in Workers, Rename(w) \/ \E k \in Keys : Unlink(w, k)
        PROVE  UsedIsIndexed'
    BY <1>7, UsedKept DEF Rename, Unlink, books
  <1>8. CASE Restart
    BY <1>8 DEF Restart, Rebuilt, UsedIsIndexed
  <1> QED BY <1>1, <1>2, <1>3, <1>4, <1>5, <1>6, <1>7, <1>8, StepCases

LEMMA UsedInvariance == Spec => []UsedIsIndexed
  <1>1. Init => UsedIsIndexed
    BY DEF Init, Rebuilt, UsedIsIndexed
  <1>2. Typed /\ UsedIsIndexed /\ [Next]_vars => UsedIsIndexed'
    BY UsedStep
  <1> QED BY <1>1, <1>2, TypedInvariance, PTL DEF Spec

(* What Cache.used says is the sum of what is indexed, through evictions,  *)
(* puts of the same and of other keys in any order, deletes, crashes and   *)
(* rebuilds (cache.go:160-187, 216-224, 244-253, 341-348, 369-373), and for*)
(* objects whose versions differ in size, until a lookup finds a size that *)
(* differs from the indexed one (cache.go:218).                            *)
THEOREM UsedIsExact == Spec => []UsedIsIndexed
  BY UsedInvariance

-----------------------------------------------------------------------------
(* The books and the directory.                                            *)

Noting(k) == \E w \in Workers : target[w] = k /\ pc[w] = "note"

(* What is installed is indexed or about to be, and no delete is about to  *)
(* take it out again.                                                      *)
Booked ==
    \A k \in Keys \ overtaken : dir[Object(k)] # NoInode =>
        ~Deleted(k) /\ (index[Object(k)] # Absent \/ Noting(k))

LEMMA PlainBooked ==
    ASSUME Booked, NEW w \in Workers, Plain(w)
    PROVE  Booked'
  <1>1. ASSUME NEW k \in Keys PROVE (Deleted(k)' => Deleted(k)) /\ (Noting(k) => Noting(k)')
    BY DEF Plain, Others, Deleted, Noting
  <1>2. /\ UNCHANGED <<index, overtaken>>
        /\ \A k \in Keys : dir'[Object(k)] \in {dir[Object(k)], NoInode}
    BY DEF Plain, memory, books
  <1> QED BY <1>1, <1>2 DEF Booked

(* Key k is entered in the index by w.                                     *)
LEMMA EnteredBooked ==
    ASSUME Typed, Booked, NEW w \in Workers, NEW k \in Keys, Entered(k),
           index'[Object(k)] # Absent, UNCHANGED dir,
           \A j \in Keys \ {k} : index'[Object(j)] = index[Object(j)],
           pc[w] # "forget" /\ pc'[w] # "forget", pc[w] = "note" => target[w] = k,
           \A x \in Workers \ {w} : pc'[x] = pc[x] /\ target'[x] = target[x]
    PROVE  Booked'
  <1>1. \A j \in Keys : Deleted(j)' <=> Deleted(j)
    BY DEF Deleted
  <1>2. \A j \in Keys \ {k} : Noting(j) => Noting(j)'
    BY DEF Noting
  <1>3. k \notin overtaken' => (Deleted(k) => k \notin overtaken)
    BY DEF Entered
  <1>4. \A j \in Keys \ {k} : j \in overtaken' <=> j \in overtaken
    BY DEF Entered
  <1> QED BY <1>1, <1>2, <1>3, <1>4 DEF Booked

LEMMA BookedStep ==
    ASSUME Typed, Booked, [Next]_vars
    PROVE  Booked'
  <1> USE TypedMemory
  <1>1. CASE UNCHANGED vars
    BY <1>1 DEF vars, disk, memory, worker, books, Booked, Deleted, Noting
  <1>2. ASSUME NEW w \in Workers, EnsureSpace(w) PROVE Booked'
    <2>1. target[w] \in Keys
      OBVIOUS
    <2>2. PICK victims : /\ Evict(victims) /\ overtaken' = overtaken
                         /\ \E to \in {"create", "idle"} : pc' = [pc EXCEPT ![w] = to]
                         /\ pc[w] = "space" /\ Others(w)
      <3>1. PICK victims : /\ Evict(victims)
                           /\ \/ Goto(w, "space", "create") /\ UNCHANGED overtaken
                              \/ End(w, "space") /\ UNCHANGED books
        BY <1>2, <2>1, SpaceVictims
      <3>2. Evict(victims) /\ pc[w] = "space" /\ overtaken' = overtaken
            /\ \E to \in {"create", "idle"} : pc' = [pc EXCEPT ![w] = to]
        BY <3>1 DEF Goto, End, books
      <3>3. Others(w)
        BY <3>1 DEF Goto, End, Others
      <3> QED BY <3>2, <3>3
    <2>3. ASSUME NEW k \in Keys PROVE (Deleted(k)' => Deleted(k)) /\ (Noting(k) => Noting(k)')
      BY <2>2 DEF Others, Deleted, Noting
    <2>4. ASSUME NEW k \in Keys, dir'[Object(k)] # NoInode
          PROVE  dir[Object(k)] # NoInode /\ index'[Object(k)] = index[Object(k)]
      BY <2>2, <2>4, Names DEF Evict
    <2> QED BY <2>2, <2>3, <2>4 DEF Booked
  <1>3. ASSUME NEW w \in Workers, Note(w) PROVE Booked'
    <2> DEFINE k == target[w]
    <2>1. /\ k \in Keys /\ Entered(k) /\ UNCHANGED dir /\ pc[w] = "note" /\ pc'[w] = "idle"
          /\ index' = [index EXCEPT ![Object(k)] = SizeOf[version[w]]]
          /\ \A x \in Workers \ {w} : pc'[x] = pc[x] /\ target'[x] = target[x]
      BY <1>3 DEF Note, End, disk
    <2>2. SizeOf[version[w]] # Absent
      <3>1. SizeOf[version[w]] \in Nat
        BY Sizes
      <3> QED BY <3>1 DEF Absent
    <2>3. /\ index'[Object(k)] # Absent
          /\ \A j \in Keys \ {k} : index'[Object(j)] = index[Object(j)]
      BY <2>1, <2>2, Names DEF InMemory
    <2> HIDE DEF k
    <2>4. pc[w] # "forget" /\ pc'[w] # "forget" /\ (pc[w] = "note" => target[w] = k)
      BY <2>1 DEF k
    <2> QED BY <2>1, <2>3, <2>4, EnteredBooked
  <1>4. ASSUME NEW w \in Workers, Stat(w) PROVE Booked'
    <2> DEFINE k == target[w]
               size == Len(files[fd[w]])
    <2>1. /\ k \in Keys /\ Entered(k) /\ UNCHANGED <<dir, target>>
          /\ pc[w] = "stat" /\ pc' = [pc EXCEPT ![w] = "reading"]
          /\ index' = [index EXCEPT ![Object(k)] = size]
      BY <1>4 DEF Stat, Goto, Found, disk
    <2>2. size # Absent
      <3>1. size \in Nat
        BY <2>1 DEF Typed, TypeOK, Opened
      <3> HIDE DEF size
      <3> QED BY <3>1 DEF Absent
    <2> HIDE DEF size
    <2>3. /\ index'[Object(k)] # Absent
          /\ \A j \in Keys \ {k} : index'[Object(j)] = index[Object(j)]
      BY <2>1, <2>2, Names DEF InMemory
    <2>4. /\ pc[w] # "forget" /\ pc'[w] # "forget" /\ pc[w] # "note"
          /\ \A x \in Workers \ {w} : pc'[x] = pc[x] /\ target'[x] = target[x]
      BY <2>1
    <2> HIDE DEF k
    <2> QED BY <2>1, <2>3, <2>4, EnteredBooked
  <1>5. ASSUME NEW w \in Workers, Forget(w) PROVE Booked'
    <2> DEFINE k == target[w]
    <2>1. /\ k \in Keys /\ UNCHANGED <<dir, overtaken>> /\ pc[w] = "forget" /\ pc'[w] = "idle"
          /\ \A x \in Workers \ {w} : pc'[x] = pc[x] /\ target'[x] = target[x]
      BY <1>5 DEF Forget, End, disk, books
    <2>2. \A j \in Keys \ {k} : index'[Object(j)] = index[Object(j)]
      BY <1>5, <2>1, Names DEF Forget, InMemory, memory
    <2>3. Deleted(k) /\ \A j \in Keys : (Deleted(j)' => Deleted(j)) /\ (Noting(j) => Noting(j)')
      BY <2>1 DEF Deleted, Noting
    <2> QED BY <2>1, <2>2, <2>3 DEF Booked
  <1>6. ASSUME NEW w \in Workers, Rename(w), dir[Temp(target[w])] # NoInode PROVE Booked'
    <2>0. PICK k \in Keys : k = target[w]
      OBVIOUS
    <2>1. /\ UNCHANGED <<index, target>> /\ pc[w] = "rename"
          /\ pc' = [pc EXCEPT ![w] = "note"]
          /\ overtaken' = IF Deleted(k) THEN overtaken \cup {k} ELSE overtaken
      BY <1>6, <2>0 DEF Rename, Goto, memory
    <2>2. \A j \in Keys \ {k} : dir'[Object(j)] = dir[Object(j)]
      <3>1. dir' = [dir EXCEPT ![Object(k)] = dir[Temp(k)], ![Temp(k)] = NoInode]
        BY <1>6, <2>0 DEF Rename
      <3> QED BY <3>1, Names
    <2>3. \A j \in Keys : (Deleted(j)' <=> Deleted(j)) /\ (Noting(j) => Noting(j)')
      BY <2>1 DEF Deleted, Noting
    <2>4. Noting(k)'
      BY <2>0, <2>1 DEF Noting
    <2>5. ~Deleted(k) \/ k \in overtaken'
      BY <2>1
    <2>6. ASSUME NEW j \in Keys \ overtaken', dir'[Object(j)] # NoInode
          PROVE  ~Deleted(j)' /\ (index'[Object(j)] # Absent \/ Noting(j)')
      <3>1. CASE j = k
        BY <2>3, <2>4, <2>5, <3>1
      <3>2. CASE j # k
        BY <2>1, <2>2, <2>3, <2>6, <3>2 DEF Booked
      <3> QED BY <3>1, <3>2
    <2> QED BY <2>6 DEF Booked
  <1>7. ASSUME NEW w \in Workers, NEW k \in Keys, Unlink(w, k) PROVE Booked'
    <2>1. /\ UNCHANGED <<index, overtaken>> /\ pc[w] = "idle" /\ pc'[w] = "forget"
          /\ target'[w] = k /\ Others(w)
      BY <1>7 DEF Unlink, Begin, Others, memory, books
    <2>2. dir'[Object(k)] = NoInode /\ \A j \in Keys \ {k} : dir'[Object(j)] = dir[Object(j)]
      BY <1>7, Names DEF Unlink
    <2>3. \A j \in Keys : (Noting(j) => Noting(j)') /\ (j # k => (Deleted(j)' => Deleted(j)))
      BY <2>1 DEF Others, Deleted, Noting
    <2> QED BY <2>1, <2>2, <2>3 DEF Booked
  <1>8. CASE Restart
    <2>1. /\ \A x \in Workers : pc'[x] = "idle"
          /\ dir' = dir
          /\ \A k \in Keys : dir[Object(k)] # NoInode
                                => index'[Object(k)] = Len(files[dir[Object(k)]])
      BY <1>8, Names DEF Restart, Rebuilt
    <2>2. \A k \in Keys : dir[Object(k)] # NoInode => Len(files[dir[Object(k)]]) # Absent
      <3>1. \A i \in Inodes : Len(files[i]) # Absent
        <4>1. \A i \in Inodes : Len(files[i]) \in Nat
          BY DEF Typed, TypeOK
        <4> QED BY <4>1 DEF Absent
      <3> QED BY <3>1, Names
    <2> QED BY <2>1, <2>2 DEF Booked, Deleted
  <1> QED BY <1>1, <1>2, <1>3, <1>4, <1>5, <1>6, <1>7, <1>8, StepCases, PlainBooked

(* Every object on the disk is in the index, or about to be, for callers   *)
(* that put, look up and delete one key in any order, and through restarts *)
(* (cache.go:163-187, 233-253, 320-349); only a put that installs its      *)
(* object between the two steps of a delete may leave it out, until it is  *)
(* looked up, put again or the process restarts.                           *)
THEOREM NothingOrphaned == Spec => []NoOrphans
  <1>1. Init => Booked
    BY Names DEF Init, Booked
  <1>2. Typed /\ Booked /\ [Next]_vars => Booked'
    BY BookedStep
  <1>3. Booked => NoOrphans
    BY DEF Booked, Noting, NoOrphans
  <1> QED BY <1>1, <1>2, <1>3, TypedInvariance, PTL DEF Spec

-----------------------------------------------------------------------------
(* While room is not lost, at most one put has been given room, and it has *)
(* met no other.                                                           *)
Alone ==
    room # "lost" =>
        \A w \in Workers : Granted(w) =>
            w \notin crowded /\ \A x \in Workers : Granted(x) => x = w

LEMMA AloneKept ==
    ASSUME Alone, room' # "lost" => room # "lost",
           \A x \in Workers : Granted(x)' => Granted(x) /\ (x \in crowded' => x \in crowded)
    PROVE  Alone'
  BY DEF Alone

LEMMA AloneStep ==
    ASSUME DiskInv, Typed, Alone, [Next]_vars
    PROVE  Alone'
  <1> USE TypedMemory
  <1>1. ASSUME NEW w \in Workers, Plain(w) \/ Rename(w) \/ Forget(w) \/ Note(w) \/ Stat(w)
                                  \/ \E k \in Keys : Unlink(w, k)
        PROVE  \A x \in Workers : Granted(x)' => Granted(x)
    <2>1. CASE Plain(w)
      BY <2>1 DEF Plain, Others, Granted
    <2>2. CASE Rename(w) \/ Forget(w) \/ Note(w) \/ Stat(w)
      BY <2>2 DEF Rename, Forget, Note, Stat, Goto, End, Granted
    <2>3. CASE \E k \in Keys : Unlink(w, k)
      BY <2>3 DEF Unlink, Begin, Granted
    <2> QED BY <1>1, <2>1, <2>2, <2>3
  <1>2. ASSUME NEW w \in Workers, Create(w) PROVE Alone'
    <2>1. /\ room' = room /\ pc[w] = "create" /\ pc' = [pc EXCEPT ![w] = "write"]
          /\ crowded' = IF Rivals(w) = {} THEN crowded ELSE crowded \cup Rivals(w) \cup {w}
      BY <1>2 DEF Create, Goto, books
    <2>2. \A x \in Workers : Granted(x)' => Granted(x)
      BY <2>1 DEF Granted
    <2>3. room # "lost" => Rivals(w) = {}
      BY <2>1 DEF Alone, Rivals, Filling, Granted
    <2> QED BY <2>1, <2>2, <2>3 DEF Alone
  <1>3. ASSUME NEW w \in Workers, EnsureSpace(w) PROVE Alone'
    <2>1. target[w] \in Keys
      OBVIOUS
    <2>2. \/ /\ Goto(w, "space", "create") /\ UNCHANGED mixing
             /\ room' = IF \E x \in Workers : Granted(x) THEN "lost"
                        ELSE IF room = "kept" THEN "kept" ELSE "restoring"
          \/ End(w, "space") /\ UNCHANGED books
      BY <1>3, <2>1, SpaceVictims
    <2>3. CASE End(w, "space") /\ UNCHANGED books
      BY <2>3, AloneKept DEF End, Granted, books
    <2>4. CASE /\ Goto(w, "space", "create") /\ UNCHANGED mixing
               /\ room' = IF \E x \in Workers : Granted(x) THEN "lost"
                          ELSE IF room = "kept" THEN "kept" ELSE "restoring"
      <3>1. w \notin crowded' /\ \A x \in Workers \ {w} : Granted(x)' => Granted(x)
        BY <2>4 DEF Goto, Granted, mixing, DiskInv, Met, Fresh
      <3>2. room' # "lost" => \A x \in Workers : ~Granted(x)
        BY <2>4
      <3> QED BY <3>1, <3>2 DEF Alone
    <2> QED BY <2>2, <2>3, <2>4
  <1>4. ASSUME NEW w \in Workers,
               \/ CreateFails(w) \/ Write(w) \/ Close(w) \/ PutFails(w) \/ Abandon(w)
               \/ (Rename(w) /\ dir[Temp(target[w])] = NoInode)
        PROVE  Alone'
    <2>1. Plain(w)
      BY <1>4, PlainSteps
    <2>2. crowded' \in {crowded, crowded \ {w}}
      BY <1>4 DEF CreateFails, Write, Close, PutFails, Abandon, Rename, End, mixing
    <2> QED BY <1>1, <2>1, <2>2, AloneKept DEF Plain, books
  <1>5. ASSUME NEW w \in Workers, NEW k \in Keys,
               Open(w, k) \/ \E v \in Versions : StartPut(w, k, v)
        PROVE  Alone'
    <2>1. Plain(w)
      BY <1>5, PlainSteps
    <2>2. ~Granted(w)'
      BY <1>5 DEF Open, StartPut, Begin, Granted
    <2>3. \A x \in Workers \ {w} : x \in crowded' => x \in crowded
      BY <1>5 DEF Open, StartPut, mixing
    <2> QED BY <1>1, <2>1, <2>2, <2>3, AloneKept DEF Plain, books
  <1>6. ASSUME NEW w \in Workers, Rename(w) \/ Note(w) \/ Look(w) \/ Forget(w)
        PROVE  Alone'
    <2>1. crowded' \in {crowded, crowded \ {w}} /\ (room' # "lost" => room # "lost")
      <3>1. CASE Rename(w)
        BY <3>1 DEF Rename
      <3>2. CASE Note(w)
        <4>1. room' = IF room = "restoring" THEN "kept" ELSE room
          BY <3>2 DEF Note
        <4> QED BY <3>2, <4>1 DEF Note, End
      <3>3. CASE Stat(w)
        <4>1. room' \in {"lost", room} /\ crowded' = crowded
          BY <3>3 DEF Stat, Found, mixing
        <4> QED BY <4>1
      <3>4. CASE Done(w)
        BY <3>4 DEF Done, CloseFile, End, books
      <3>5. CASE Forget(w)
        BY <3>5 DEF Forget, End, books
      <3> QED BY <1>6, <3>1, <3>2, <3>3, <3>4, <3>5 DEF Look
    <2>2. Done(w) => Plain(w)
      BY PlainSteps
    <2> QED BY <1>1, <1>6, <2>1, <2>2, AloneKept DEF Look
  <1>7. ASSUME NEW w \in Workers, NEW k \in Keys, Unlink(w, k) PROVE Alone'
    BY <1>1, <1>7, AloneKept DEF Unlink, mixing, books
  <1>8. CASE Restart
    BY <1>8 DEF Restart, Granted, Alone
  <1>9. CASE UNCHANGED vars
    BY <1>9 DEF vars, worker, mixing, books, Granted, Alone
  <1> QED BY <1>2, <1>3, <1>4, <1>5, <1>6, <1>7, <1>8, <1>9 DEF Next, Put

LEMMA AloneInvariance == Spec => []Alone
  <1>1. Init => Alone
    BY DEF Init, Alone, Granted
  <1>2. DiskInv /\ Typed /\ Alone /\ [Next]_vars => Alone'
    BY AloneStep
  <1> QED BY <1>1, <1>2, DiskInvariance, TypedInvariance, PTL DEF Spec

-----------------------------------------------------------------------------
(* The fixed cap.                                                          *)

(* What was compared with the cap when room was given still holds.         *)
Cap ==
    budget = "fixed" /\ room # "lost" /\ ~resized =>
        /\ room = "kept" => used <= Capacity
        /\ \A w \in Workers : Granted(w) =>
              used - Replaced(target[w]) + SizeOf[version[w]] <= Capacity

LEMMA ReplacedTyped ==
    ASSUME InMemory, NEW k \in Keys
    PROVE  Replaced(k) \in Nat /\ used \in Int
  BY Names DEF InMemory, Replaced, Absent

(* Nobody is given room, and no put finds less of it.                      *)
LEMMA CapEases ==
    ASSUME Typed, Typed', Cap, UNCHANGED budget,
           room' # "lost" => room # "lost", room' = "kept" => room = "kept",
           ~resized' => ~resized,
           room' # "lost" /\ ~resized' =>
              /\ used' <= used
              /\ \A k \in Keys : used' - Replaced(k)' <= used - Replaced(k),
           \A x \in Workers : Granted(x)' =>
              Granted(x) /\ target'[x] = target[x] /\ version'[x] = version[x]
    PROVE  Cap'
  <1> SUFFICES ASSUME budget = "fixed", room' # "lost", ~resized'
               PROVE  /\ room' = "kept" => used' <= Capacity
                      /\ \A w \in Workers : Granted(w)' =>
                            used' - Replaced(target[w])' + SizeOf[version'[w]] <= Capacity
    BY DEF Cap
  <1>1. used \in Int /\ used' \in Int /\ used' <= used
    BY TypedMemory DEF Typed, TypeOK
  <1>2. room' = "kept" => used' <= Capacity
    BY <1>1, SpaceAssumption DEF Cap
  <1>3. ASSUME NEW w \in Workers, Granted(w)'
        PROVE  used' - Replaced(target[w])' + SizeOf[version'[w]] <= Capacity
    <2>1. PICK k \in Keys : k = target[w] /\ target'[w] = k
      BY <1>3, TypedMemory
    <2>2. used - Replaced(k) + SizeOf[version[w]] <= Capacity
      BY <1>3, <2>1 DEF Cap
    <2>3. used' - Replaced(k)' <= used - Replaced(k)
      OBVIOUS
    <2>4. Replaced(k) \in Nat /\ Replaced(k)' \in Nat /\ SizeOf[version[w]] \in Nat
      <3>1. InMemory /\ InMemory' /\ version[w] \in Versions
        BY TypedMemory, TypedParts DEF Typed, TypeOK, InMemory, Elements
      <3>2. Replaced(k)' \in Nat
        BY <3>1, Names DEF InMemory, Replaced, Absent
      <3> QED BY <3>1, <3>2, ReplacedTyped, Sizes
    <2>5. Replaced(target[w])' = Replaced(k)'
      BY <2>1 DEF Replaced
    <2>6. SizeOf[version'[w]] = SizeOf[version[w]]
      BY <1>3
    <2> QED BY <1>1, <2>2, <2>3, <2>4, <2>5, <2>6, SpaceAssumption
  <1> QED BY <1>2, <1>3

(* What an eviction takes from the index it takes from used.               *)
LEMMA EvictionEases ==
    ASSUME InMemory, NEW victims \in SUBSET Indexed(index), Evict(victims)
    PROVE  /\ used' <= used
           /\ \A k \in Keys : used' - Replaced(k)' <= used - Replaced(k)
  <1>1. /\ index' = [p \in Paths |-> IF p \in victims THEN Absent ELSE index[p]]
        /\ used' = used - Sum(index, victims)
    BY DEF Evict
  <1>2. /\ IsFiniteSet(victims) /\ (\A p \in victims : index[p] \in Nat)
        /\ Sum(index, victims) \in Nat /\ used \in Int
    BY IndexSum DEF InMemory
  <1>3. used' <= used
    BY <1>1, <1>2
  <1>4. ASSUME NEW k \in Keys PROVE used' - Replaced(k)' <= used - Replaced(k)
    <2>1. Object(k) \in Paths /\ Replaced(k) \in Nat
      BY Names, ReplacedTyped
    <2>2. CASE Object(k) \in victims
      <3>1. Sum(index, victims) = index[Object(k)] + Sum(index, victims \ {Object(k)})
        BY <1>2, <2>2, SumRemove DEF Sum
      <3>2. Sum(index, victims \ {Object(k)}) \in Nat
        BY IndexSum
      <3>3. Replaced(k)' = 0 /\ Replaced(k) = index[Object(k)]
        BY <1>1, <1>2, <2>1, <2>2 DEF Replaced, Absent
      <3> QED BY <1>1, <1>2, <2>1, <3>1, <3>2, <3>3
    <2>3. CASE Object(k) \notin victims
      <3>1. Replaced(k)' = Replaced(k)
        BY <1>1, <2>1, <2>3 DEF Replaced
      <3> QED BY <1>1, <1>2, <2>1, <3>1
    <2> QED BY <2>2, <2>3
  <1> QED BY <1>3, <1>4

LEMMA EnsureSpaceCap ==
    ASSUME Typed, Typed', Cap, NEW w \in Workers, EnsureSpace(w)
    PROVE  Cap'
  <1>1. InMemory /\ target[w] \in Keys /\ pc \in [Workers -> Locations]
    BY TypedMemory
  <1>2. PICK victims \in SUBSET (Indexed(index) \ {Object(target[w])}) :
           /\ Evict(victims)
           /\ \/ /\ Goto(w, "space", "create") /\ UNCHANGED resized
                 /\ Fits(target[w], SizeOf[version[w]], victims)
                 /\ room' = IF \E x \in Workers : Granted(x) THEN "lost"
                            ELSE IF room = "kept" THEN "kept" ELSE "restoring"
              \/ End(w, "space") /\ UNCHANGED books
    BY <1>1, SpaceVictims
  <1>3. budget' = budget /\ victims \in SUBSET Indexed(index)
    BY <1>2 DEF Evict, Reclaim
  <1>4. used' <= used /\ \A k \in Keys : used' - Replaced(k)' <= used - Replaced(k)
    BY <1>1, <1>2, <1>3, EvictionEases
  <1>5. CASE End(w, "space") /\ UNCHANGED books
    <2>1. \A x \in Workers : Granted(x)' =>
             Granted(x) /\ target'[x] = target[x] /\ version'[x] = version[x]
      BY <1>1, <1>5, TypedMemory DEF End, Granted
    <2> QED BY <1>3, <1>4, <1>5, <2>1, CapEases DEF books
  <1>6. CASE /\ Goto(w, "space", "create") /\ UNCHANGED resized
             /\ Fits(target[w], SizeOf[version[w]], victims)
             /\ room' = IF \E x \in Workers : Granted(x) THEN "lost"
                        ELSE IF room = "kept" THEN "kept" ELSE "restoring"
    <2> SUFFICES ASSUME budget = "fixed", room' # "lost", ~resized'
                 PROVE  /\ room' = "kept" => used' <= Capacity
                        /\ \A x \in Workers : Granted(x)' =>
                              used' - Replaced(target[x])' + SizeOf[version'[x]] <= Capacity
      BY <1>3 DEF Cap
    <2>1. room' = "kept" => used' <= Capacity
      <3>1. used \in Int /\ used' \in Int
        BY DEF Typed, TypeOK
      <3>2. room' = "kept" => room = "kept" /\ ~resized
        BY <1>6
      <3> QED BY <1>4, <3>1, <3>2, SpaceAssumption DEF Cap
    <2>2. ASSUME NEW x \in Workers, Granted(x)' PROVE x = w
      BY <1>1, <1>6, <2>2 DEF Goto, Granted
    <2>3. UNCHANGED <<target, version>>
      BY <1>6 DEF Goto
    <2>4. PICK k \in Keys : k = target[w]
      BY <1>1
    <2>5. used - Sum(index, victims) - Replaced(k) + SizeOf[version[w]] <= Capacity
      BY <1>6, <2>4 DEF Fits, Replaced
    <2>6. Replaced(k)' = Replaced(k)
      BY <1>2, <2>4, Names DEF Evict, Replaced
    <2>7. Replaced(target[w])' = Replaced(k)'
      BY <2>3, <2>4 DEF Replaced
    <2>8. used' = used - Sum(index, victims)
      BY <1>2 DEF Evict
    <2> QED BY <2>1, <2>2, <2>3, <2>5, <2>6, <2>7, <2>8
  <1> QED BY <1>2, <1>5, <1>6

LEMMA CapStep ==
    ASSUME Typed, Typed', UsedIsIndexed, Alone, Cap, [Next]_vars
    PROVE  Cap'
  <1> USE TypedMemory
  <1>1. UNCHANGED budget
    BY BudgetFixed
  <1>2. UNCHANGED memory =>
           used' <= used /\ \A k \in Keys : used' - Replaced(k)' <= used - Replaced(k)
    <2>1. used \in Int /\ \A k \in Keys : Replaced(k) \in Nat
      BY ReplacedTyped DEF InMemory
    <2>2. UNCHANGED memory => used' = used /\ \A k \in Keys : Replaced(k)' = Replaced(k)
      BY DEF memory, Replaced
    <2> QED BY <2>1, <2>2
  <1>3. CASE UNCHANGED vars
    BY <1>1, <1>2, <1>3, CapEases DEF vars, books, worker, Granted
  <1>4. ASSUME NEW w \in Workers, Plain(w) PROVE Cap'
    <2>1. \A x \in Workers : Granted(x)' =>
             Granted(x) /\ target'[x] = target[x] /\ version'[x] = version[x]
      BY <1>4 DEF Plain, Others, Granted
    <2> QED BY <1>1, <1>2, <1>4, <2>1, CapEases DEF Plain, books
  <1>5. ASSUME NEW w \in Workers, Note(w) PROVE Cap'
    <2>1. /\ pc[w] = "note" /\ resized' = resized /\ target[w] \in Keys
          /\ used' = used - Replaced(target[w]) + SizeOf[version[w]]
          /\ room' = IF room = "restoring" THEN "kept" ELSE room
          /\ pc'[w] = "idle" /\ \A x \in Workers \ {w} : pc'[x] = pc[x]
      BY <1>5 DEF Note, End, Replaced
    <2> SUFFICES ASSUME budget = "fixed", room' # "lost", ~resized'
                 PROVE  used' <= Capacity /\ \A x \in Workers : ~Granted(x)'
      BY <1>1 DEF Cap
    <2>2. room # "lost" /\ ~resized /\ Granted(w)
      BY <2>1 DEF Granted
    <2>3. used' <= Capacity
      BY <2>1, <2>2 DEF Cap
    <2>4. \A x \in Workers : ~Granted(x)'
      BY <2>1, <2>2 DEF Alone, Granted
    <2> QED BY <2>3, <2>4
  <1>6. ASSUME NEW w \in Workers, Stat(w) PROVE Cap'
    <2> DEFINE p == Object(target[w])
    <2>1. PICK size :
             /\ index' = [index EXCEPT ![p] = size]
             /\ used' = IF index[p] = Absent THEN used + size ELSE used
             /\ resized' = (resized \/ index[p] \notin {Absent, size})
             /\ room' = IF budget = "fixed" /\ index[p] = Absent THEN "lost" ELSE room
      BY <1>6 DEF Stat, Found
    <2>2. \A x \in Workers : Granted(x)' =>
             Granted(x) /\ target'[x] = target[x] /\ version'[x] = version[x]
      BY <1>6 DEF Stat, Goto, Granted
    <2>3. ASSUME budget = "fixed", room' # "lost", ~resized'
          PROVE  index' = index /\ used' = used
      BY <2>1, <2>3 DEF InMemory
    <2>4. ASSUME budget = "fixed", room' # "lost", ~resized'
          PROVE  used' <= used /\ \A k \in Keys : used' - Replaced(k)' <= used - Replaced(k)
      <3>1. used \in Int /\ \A k \in Keys : Replaced(k) \in Nat
        BY ReplacedTyped DEF InMemory
      <3>2. used' = used /\ \A k \in Keys : Replaced(k)' = Replaced(k)
        BY <2>3, <2>4 DEF Replaced
      <3> QED BY <3>1, <3>2
    <2>5. budget # "fixed" => Cap'
      BY <1>1 DEF Cap
    <2>6. /\ room' # "lost" => room # "lost"
          /\ room' = "kept" => room = "kept"
          /\ ~resized' => ~resized
      BY <2>1 DEF Remembered
    <2> HIDE DEF p
    <2> QED BY <1>1, <2>2, <2>4, <2>5, <2>6, CapEases
  <1>7. ASSUME NEW w \in Workers, Forget(w) PROVE Cap'
    <2>1. /\ UNCHANGED books
          /\ \A x \in Workers : Granted(x)' =>
                Granted(x) /\ target'[x] = target[x] /\ version'[x] = version[x]
      BY <1>7 DEF Forget, End, Granted
    <2>2. ASSUME ~resized
          PROVE  used' <= used /\ \A k \in Keys : used' - Replaced(k)' <= used - Replaced(k)
      <3>1. CASE index[Object(target[w])] = Absent
        BY <1>2, <1>7, <3>1 DEF Forget
      <3>2. CASE index[Object(target[w])] # Absent
        <4>1. PICK j \in Keys : j = target[w]
          OBVIOUS
        <4>2. /\ used' = used - index[Object(j)] /\ index[Object(j)] \in Nat
              /\ index' = [index EXCEPT ![Object(j)] = Absent]
          BY <1>7, <2>2, <3>2, <4>1, ForgetUses
        <4>3. used \in Int /\ \A k \in Keys : Replaced(k) \in Nat
          BY ReplacedTyped DEF InMemory
        <4>4. Replaced(j)' = 0 /\ Replaced(j) = index[Object(j)]
          BY <3>2, <4>1, <4>2, Names DEF InMemory, Replaced
        <4>5. \A k \in Keys \ {j} : Replaced(k)' = Replaced(k)
          BY <4>2, Names DEF InMemory, Replaced
        <4> QED BY <4>2, <4>3, <4>4, <4>5
      <3> QED BY <3>1, <3>2
    <2> QED BY <1>1, <2>1, <2>2, CapEases DEF books
  <1>8. ASSUME NEW w \in Workers, Rename(w) PROVE Cap'
    <2>1. \A x \in Workers : Granted(x)' =>
             Granted(x) /\ target'[x] = target[x] /\ version'[x] = version[x]
      BY <1>8 DEF Rename, Goto, Granted
    <2> QED BY <1>1, <1>2, <1>8, <2>1, CapEases DEF Rename, books
  <1>9. ASSUME NEW w \in Workers, NEW k \in Keys, Unlink(w, k) PROVE Cap'
    <2>1. \A x \in Workers : Granted(x)' =>
             Granted(x) /\ target'[x] = target[x] /\ version'[x] = version[x]
      BY <1>9 DEF Unlink, Begin, Granted
    <2> QED BY <1>1, <1>2, <1>9, <2>1, CapEases DEF Unlink, books
  <1>10. CASE Restart
    BY <1>1, <1>10 DEF Restart, Cap
  <1> QED
    BY <1>3, <1>4, <1>5, <1>6, <1>7, <1>8, <1>9, <1>10, StepCases, EnsureSpaceCap

(* LOCAL_CACHE_BYTES is kept (README.md:368): what a put was given room for*)
(* alone is not taken by anything else before it is noted, whatever is     *)
(* looked up, deleted, refused or fails meanwhile; and the next such put   *)
(* brings a cache that is over the cap back under it.                      *)
THEOREM CapKept == Spec => []CapRespected
  <1>1. Init => Cap
    <2>1. Init => used = 0
      <3>1. Init => Indexed(index) = {} /\ used = Sum(index, Indexed(index))
        BY DEF Init, Rebuilt, Indexed
      <3> QED BY <3>1, SumEmpty DEF Sum
    <2> QED BY <2>1, SpaceAssumption DEF Init, Cap, Granted
  <1>2. /\ Typed /\ Typed' /\ UsedIsIndexed /\ Alone /\ Cap /\ [Next]_vars
        => Cap'
    BY CapStep
  <1>3. Cap => CapRespected
    BY DEF Cap, CapRespected
  <1> QED BY <1>1, <1>2, <1>3, TypedInvariance, UsedInvariance, AloneInvariance, PTL DEF Spec

-----------------------------------------------------------------------------
(* What all files hold, and the reserve.                                   *)

Pending(w) == IF pc[w] = "create" THEN SizeOf[version[w]]
              ELSE IF pc[w] = "write" THEN SizeOf[version[w]] - offset[w] ELSE 0

(* The reserve is free, also once the put has written what it has yet to.  *)
Spare ==
    budget = "auto" /\ room # "lost" =>
        /\ Sum(Blocks, Inodes) <= DiskSize - Reserve
        /\ \A w \in Workers : Sum(Blocks, Inodes) + Pending(w) <= DiskSize - Reserve

LEMMA BlockSums ==
    ASSUME Typed, NEW S \in SUBSET Inodes
    PROVE  IsFiniteSet(S) /\ (\A i \in S : Blocks[i] \in Nat) /\ Sum(Blocks, S) \in Nat
  <1>1. IsFiniteSet(S)
    BY FinitePaths, FS_Subset
  <1>2. \A i \in S : Blocks[i] \in Nat
    BY TypedParts DEF OnDisk, Blocks
  <1> QED BY <1>1, <1>2, SumNat DEF Sum

LEMMA NextBlocks ==
    ASSUME Typed'
    PROVE  \A i \in Inodes : Blocks'[i] \in Nat
  BY DEF Typed, TypeOK, Blocks

LEMMA BlocksShrink ==
    ASSUME Typed, Typed', \A i \in Inodes : Blocks'[i] <= Blocks[i]
    PROVE  Sum(Blocks', Inodes) <= Sum(Blocks, Inodes) /\ Sum(Blocks', Inodes) \in Nat
  <1>1. IsFiniteSet(Inodes) /\ \A i \in Inodes : Blocks[i] \in Nat
    BY BlockSums
  <1>2. ASSUME NEW f, NEW g, \A i \in Inodes : f[i] \in Nat /\ g[i] \in Nat /\ g[i] <= f[i]
        PROVE  Sum(g, Inodes) <= Sum(f, Inodes) /\ Sum(g, Inodes) \in Nat
    <2>1. \A i \in Inodes : f[i] \in Int /\ g[i] \in Int /\ g[i] <= f[i]
      BY <1>2
    <2> QED BY <1>1, <1>2, <2>1, SumLess, SumNat DEF Sum
  <1>3. \A i \in Inodes : Blocks[i] \in Nat /\ Blocks'[i] \in Nat /\ Blocks'[i] <= Blocks[i]
    BY <1>1, NextBlocks
  <1> QED BY <1>2, <1>3

LEMMA PendingTyped ==
    ASSUME Typed, NEW w \in Workers
    PROVE  Pending(w) \in Int /\ (pc[w] \notin {"create", "write"} => Pending(w) = 0)
  <1>1. version[w] \in Versions /\ offset[w] \in Nat
    BY TypedParts DEF AtWork
  <1> QED BY <1>1, Sizes DEF Pending

LEMMA ReclaimShrinks ==
    ASSUME Typed, Reclaim, NEW i \in Inodes
    PROVE  Blocks'[i] <= Blocks[i]
  <1>1. files'[i] \in {files[i], <<>>} /\ Blocks[i] \in Nat
    BY BlockSums DEF Reclaim
  <1> QED BY <1>1 DEF Blocks

LEMMA SpareKept ==
    ASSUME Typed, Typed', Spare, UNCHANGED budget, room' # "lost" => room # "lost",
           \A i \in Inodes : Blocks'[i] <= Blocks[i],
           \A x \in Workers : Pending(x)' = Pending(x) \/ Pending(x)' = 0
    PROVE  Spare'
  <1> SUFFICES ASSUME budget = "auto", room' # "lost"
               PROVE  /\ Sum(Blocks', Inodes) <= DiskSize - Reserve
                      /\ \A w \in Workers :
                            Sum(Blocks', Inodes) + Pending(w)' <= DiskSize - Reserve
    BY DEF Spare
  <1>1. /\ Sum(Blocks, Inodes) <= DiskSize - Reserve
        /\ \A w \in Workers : Sum(Blocks, Inodes) + Pending(w) <= DiskSize - Reserve
    BY DEF Spare
  <1>2. /\ Sum(Blocks', Inodes) <= Sum(Blocks, Inodes)
        /\ Sum(Blocks', Inodes) \in Nat /\ Sum(Blocks, Inodes) \in Nat
    BY BlocksShrink, BlockSums
  <1>3. ASSUME NEW w \in Workers
        PROVE  Sum(Blocks', Inodes) + Pending(w)' <= DiskSize - Reserve
    <2>1. Pending(w) \in Int /\ (Pending(w)' = Pending(w) \/ Pending(w)' = 0)
      BY PendingTyped
    <2> QED BY <1>1, <1>2, <2>1, SpaceAssumption
  <1> QED BY <1>1, <1>2, <1>3, SpaceAssumption

(* Room is made for the object that comes: what keeps a name or a          *)
(* descriptor, the object and the reserve fit the disk.                    *)
LEMMA EnsureSpaceSpare ==
    ASSUME DiskInv, Typed, Typed', Spare, NEW w \in Workers, EnsureSpace(w)
    PROVE  Spare'
  <1>1. /\ InMemory /\ target[w] \in Keys /\ version[w] \in Versions
        /\ pc \in [Workers -> Locations]
        /\ dir \in [Paths -> Inodes \cup {NoInode}] /\ fd \in [Workers -> Inodes \cup {NoInode}]
    BY TypedMemory DEF Typed, TypeOK
  <1>2. PICK victims \in SUBSET (Indexed(index) \ {Object(target[w])}) :
           /\ Evict(victims)
           /\ \/ /\ Goto(w, "space", "create") /\ UNCHANGED offset
                 /\ Fits(target[w], SizeOf[version[w]], victims)
                 /\ room' # "lost" => \A x \in Workers : ~Granted(x)
              \/ End(w, "space") /\ UNCHANGED books
    BY <1>1, SpaceVictims
  <1>3. UNCHANGED budget /\ \A i \in Inodes : Blocks'[i] <= Blocks[i]
    BY <1>2, ReclaimShrinks DEF Evict, Reclaim
  <1>4. CASE End(w, "space") /\ UNCHANGED books
    <2>1. \A x \in Workers : Pending(x)' = Pending(x) \/ Pending(x)' = 0
      BY <1>1, <1>4 DEF End, Pending
    <2> QED BY <1>3, <1>4, <2>1, SpareKept DEF books
  <1>5. CASE /\ Goto(w, "space", "create") /\ UNCHANGED offset
             /\ Fits(target[w], SizeOf[version[w]], victims)
             /\ room' # "lost" => \A x \in Workers : ~Granted(x)
    <2> SUFFICES ASSUME budget = "auto", room' # "lost"
                 PROVE  /\ Sum(Blocks', Inodes) <= DiskSize - Reserve
                        /\ \A x \in Workers :
                              Sum(Blocks', Inodes) + Pending(x)' <= DiskSize - Reserve
      BY <1>3 DEF Spare
    <2>1. PICK held : held = ({dir[p] : p \in Paths \ victims} \cup {fd[x] : x \in Workers})
                                \ {NoInode}
      OBVIOUS
    <2>2. SizeOf[version[w]] <= DiskSize - Reserve - Sum(Blocks, held)
      BY <1>5, <2>1 DEF Fits
    <2>3. /\ held \in SUBSET Inodes
          /\ \A i \in held : files'[i] = files[i]
          /\ \A i \in Inodes \ held : files'[i] = <<>>
      BY <1>1, <1>2, <2>1, Names DEF Evict, Reclaim
    <2>4. Sum(Blocks', Inodes) = Sum(Blocks, held)
      <3>1. /\ IsFiniteSet(Inodes) /\ IsFiniteSet(held) /\ IsFiniteSet(Inodes \ held)
            /\ \A i \in held : Blocks[i] \in Nat
        BY <2>3, BlockSums
      <3>2. ASSUME NEW f, NEW g, \A i \in Inodes : g[i] \in Int,
                   \A i \in held : g[i] = f[i], \A i \in Inodes \ held : g[i] = 0
            PROVE  Sum(g, Inodes) = Sum(f, held)
        <4>1. Sum(g, Inodes) = Sum(g, held) + Sum(g, Inodes \ held)
          BY <2>3, <3>1, <3>2, SumSplit DEF Sum
        <4>2. Sum(g, Inodes \ held) = 0
          BY <3>1, <3>2, SumZero DEF Sum
        <4>3. Sum(g, held) = Sum(f, held)
          BY <3>1, <3>2, SumSame DEF Sum
        <4>4. Sum(g, held) \in Int
          BY <2>3, <3>1, <3>2, SumInt DEF Sum
        <4> QED BY <4>1, <4>2, <4>3, <4>4
      <3>3. /\ \A i \in Inodes : Blocks'[i] \in Int
            /\ \A i \in held : Blocks'[i] = Blocks[i]
            /\ \A i \in Inodes \ held : Blocks'[i] = 0
        BY <2>3, NextBlocks DEF Blocks
      <3> QED BY <3>2, <3>3
    <2>5. Sum(Blocks', Inodes) \in Nat /\ SizeOf[version[w]] \in Nat
      BY <1>1, <1>3, BlocksShrink, Sizes
    <2>6. Sum(Blocks', Inodes) + SizeOf[version[w]] <= DiskSize - Reserve
      BY <2>2, <2>4, <2>5, SpaceAssumption
    <2>7. \A x \in Workers : Pending(x)' \in {0, SizeOf[version[w]]}
      <3>1. \A x \in Workers \ {w} : pc'[x] = pc[x] /\ pc[x] \notin {"create", "write"}
        BY <1>1, <1>5 DEF Goto, Granted
      <3> QED BY <1>1, <1>5, <3>1 DEF Goto, Pending
    <2> QED BY <2>5, <2>6, <2>7, SpaceAssumption
  <1> QED BY <1>2, <1>4, <1>5

LEMMA CreateSpare ==
    ASSUME DiskInv, Typed, Typed', Spare, NEW w \in Workers, Create(w)
    PROVE  Spare'
  <1>1. /\ pc[w] = "create" /\ offset[w] = 0 /\ version[w] \in Versions
        /\ pc \in [Workers -> Locations]
    BY TypedMemory DEF Create, Goto, DiskInv, Written
  <1>2. /\ pc' = [pc EXCEPT ![w] = "write"] /\ UNCHANGED <<budget, version, offset, room>>
        /\ \E i : files' = [files EXCEPT ![i] = <<>>]
    BY DEF Create, Goto, books
  <1>3. \A i \in Inodes : Blocks'[i] <= Blocks[i]
    <2>1. \A i \in Inodes : files'[i] \in {files[i], <<>>}
      BY <1>2 DEF Typed, TypeOK
    <2>2. \A i \in Inodes : Blocks[i] \in Nat
      BY BlockSums
    <2> QED BY <2>1, <2>2 DEF Blocks
  <1>4. \A x \in Workers : Pending(x)' = Pending(x)
    <2>1. SizeOf[version[w]] - 0 = SizeOf[version[w]]
      BY <1>1, Sizes
    <2> QED BY <1>1, <1>2, <2>1 DEF Pending
  <1> QED BY <1>2, <1>3, <1>4, SpareKept

(* A block written is one less to write.                                   *)
LEMMA WriteSpare ==
    ASSUME DiskInv, Typed, Typed', Alone, Spare, NEW w \in Workers, Write(w)
    PROVE  Spare'
  <1>0. /\ UNCHANGED <<budget, version, crowded, room>> /\ pc' = pc
        /\ offset' = [offset EXCEPT ![w] = offset[w] + 1]
    BY DEF Write, Goto, mixing, books, DiskInv, Shape
  <1> SUFFICES ASSUME budget = "auto", room # "lost"
               PROVE  /\ Sum(Blocks', Inodes) <= DiskSize - Reserve
                      /\ \A x \in Workers :
                            Sum(Blocks', Inodes) + Pending(x)' <= DiskSize - Reserve
    BY <1>0 DEF Spare
  <1>1. /\ pc[w] = "write" /\ w \notin crowded
        /\ fd[w] \in Inodes /\ offset[w] \in Nat /\ version[w] \in Versions
        /\ SizeOf[version[w]] \in Nat /\ offset[w] + 1 <= SizeOf[version[w]]
        /\ files[fd[w]] = [j \in 1 .. offset[w] |-> version[w]]
    <2>1. pc[w] = "write" /\ offset[w] + 1 <= SizeOf[version[w]]
      BY DEF Write, Goto
    <2>2. w \notin crowded
      BY <2>1 DEF Alone, Granted
    <2>3. version[w] \in Versions /\ fd[w] \in Inodes
      BY <2>1 DEF DiskInv, Shape, Descriptors
    <2>4. offset[w] \in Nat /\ files[fd[w]] = [j \in 1 .. offset[w] |-> version[w]]
      BY <2>1, <2>2 DEF DiskInv, Written
    <2>5. SizeOf[version[w]] \in Nat
      BY <2>3, Sizes
    <2> QED BY <2>1, <2>2, <2>3, <2>4, <2>5
  <1>2. UNCHANGED version /\ pc' = pc /\ offset' = [offset EXCEPT ![w] = offset[w] + 1]
    BY <1>0
  <1>3. /\ \A i \in Inodes \ {fd[w]} : Blocks'[i] = Blocks[i]
        /\ Blocks[fd[w]] = offset[w] /\ Blocks'[fd[w]] = offset[w] + 1
    <2>1. \A i \in Inodes \ {fd[w]} : files'[i] = files[i]
      BY DEF Write, DiskInv, Shape
    <2>2. Blocks[fd[w]] = offset[w]
      BY <1>1 DEF Blocks
    <2>3. files'[fd[w]] = [j \in 1 .. offset'[w] |-> version'[w]]
      BY <1>0, <1>1, <1>2, WriteInv DEF DiskInv, Written, Shape, Write
    <2>4. Blocks'[fd[w]] = offset[w] + 1
      BY <1>1, <1>2, <2>3 DEF Blocks, DiskInv, Shape
    <2> QED BY <2>1, <2>2, <2>4 DEF Blocks
  <1>4. Sum(Blocks', Inodes) = Sum(Blocks, Inodes) + 1 /\ Sum(Blocks, Inodes) \in Nat
    <2>1. IsFiniteSet(Inodes) /\ (\A i \in Inodes : Blocks[i] \in Nat) /\ Sum(Blocks, Inodes) \in Nat
      BY BlockSums
    <2>2. ASSUME NEW f, NEW g, \A i \in Inodes : f[i] \in Int, g[fd[w]] \in Int,
                 \A i \in Inodes \ {fd[w]} : g[i] = f[i]
          PROVE  Sum(g, Inodes) = Sum(f, Inodes) - f[fd[w]] + g[fd[w]]
      BY <1>1, <2>1, <2>2, SumChange DEF Sum
    <2>3. Sum(Blocks', Inodes) = Sum(Blocks, Inodes) - Blocks[fd[w]] + Blocks'[fd[w]]
      BY <1>1, <1>3, <2>1, <2>2
    <2> QED BY <1>1, <1>3, <2>1, <2>3
  <1>5. Pending(w) = SizeOf[version[w]] - offset[w] /\ Pending(w)' = SizeOf[version[w]] - (offset[w] + 1)
    BY <1>1, <1>2 DEF Pending, DiskInv, Shape
  <1>6. Sum(Blocks, Inodes) + Pending(w) <= DiskSize - Reserve
    BY DEF Spare
  <1>7. \A x \in Workers \ {w} : Pending(x)' = 0
    <2>1. \A x \in Workers \ {w} : pc[x] \notin {"create", "write"}
      BY <1>1 DEF Alone, Granted
    <2> QED BY <1>2, <2>1 DEF Pending
  <1> HIDE DEF Pending
  <1>8. Sum(Blocks', Inodes) + Pending(w)' <= DiskSize - Reserve
    BY <1>1, <1>4, <1>5, <1>6, SpaceAssumption
  <1>9. Sum(Blocks', Inodes) <= DiskSize - Reserve
    BY <1>1, <1>4, <1>5, <1>6, SpaceAssumption
  <1>10. \A x \in Workers : Sum(Blocks', Inodes) + Pending(x)' <= DiskSize - Reserve
    BY <1>4, <1>7, <1>8, <1>9
  <1> QED BY <1>9, <1>10

LEMMA SpareStep ==
    ASSUME DiskInv, Typed, Typed', Alone, Spare, [Next]_vars
    PROVE  Spare'
  <1>1. pc \in [Workers -> Locations] /\ UNCHANGED budget
    BY TypedMemory, BudgetFixed
  <1>2. CASE UNCHANGED <<files, pc, version, offset, room>>
    BY <1>1, <1>2 DEF Spare, Pending, Blocks
  <1>3. ASSUME Reclaim \/ UNCHANGED files PROVE \A i \in Inodes : Blocks'[i] <= Blocks[i]
    BY <1>3, ReclaimShrinks, BlockSums DEF Blocks
  <1>4. ASSUME NEW w \in Workers,
               \/ CreateFails(w) \/ Close(w) \/ PutFails(w) \/ Rename(w) \/ Abandon(w)
               \/ Note(w) \/ Look(w) \/ Forget(w)
        PROVE  Spare'
    <2>1. Reclaim \/ UNCHANGED files
      BY <1>4 DEF CreateFails, Close, PutFails, Rename, Abandon, Note, Look, Stat, Done, Forget,
         CloseFile, disk
    <2>2. \A x \in Workers : Pending(x)' = Pending(x) \/ Pending(x)' = 0
      <3>1. CASE Close(w) \/ PutFails(w) \/ Rename(w) \/ Stat(w)
                 \/ (CreateFails(w) /\ Goto(w, "create", "abandon") /\ UNCHANGED offset)
        <4>1. /\ \E from, to : Goto(w, from, to) /\ to \notin {"create", "write"}
              /\ \A x \in Workers \ {w} : offset'[x] = offset[x]
          <5>1. CASE Close(w) \/ PutFails(w) \/ Rename(w)
                     \/ (CreateFails(w) /\ Goto(w, "create", "abandon") /\ UNCHANGED offset)
            BY <5>1 DEF Close, PutFails, Rename
          <5>2. CASE Stat(w)
            <6>1. Goto(w, "stat", "reading")
              BY <5>2 DEF Stat
            <6>2. \A x \in Workers \ {w} : offset'[x] = offset[x]
              BY <5>2 DEF Stat, Typed, TypeOK
            <6> QED BY <6>1, <6>2
          <5> QED BY <3>1, <5>1, <5>2
        <4> QED BY <1>1, <4>1 DEF Goto, Pending
      <3>2. CASE Abandon(w) \/ Note(w) \/ Done(w) \/ Forget(w)
                 \/ (CreateFails(w) /\ End(w, "create"))
        <4>1. \E from : End(w, from)
          BY <3>2 DEF Abandon, Note, Done, Forget
        <4> QED BY <1>1, <4>1 DEF End, Pending
      <3>3. CreateFails(w) => \/ End(w, "create")
                              \/ Goto(w, "create", "abandon") /\ UNCHANGED offset
        BY DEF CreateFails
      <3> QED BY <1>4, <3>1, <3>2, <3>3 DEF Look
    <2>3. room' # "lost" => room # "lost"
      <3>1. CASE Note(w)
        <4>1. room' = IF room = "restoring" THEN "kept" ELSE room
          BY <3>1 DEF Note
        <4> QED BY <4>1
      <3>2. CASE Stat(w)
        BY <3>2 DEF Stat, Found
      <3>3. CASE CreateFails(w) \/ Close(w) \/ PutFails(w) \/ Rename(w) \/ Abandon(w)
                 \/ Done(w) \/ Forget(w)
        BY <3>3 DEF CreateFails, Close, PutFails, Rename, Abandon, Done, Forget, CloseFile, books
      <3> QED BY <1>4, <3>1, <3>2, <3>3 DEF Look
    <2> QED BY <1>1, <1>3, <2>1, <2>2, <2>3, SpareKept
  <1>5. ASSUME NEW w \in Workers, NEW k \in Keys,
               Open(w, k) \/ Unlink(w, k) \/ \E v \in Versions : StartPut(w, k, v)
        PROVE  Spare'
    <2>1. (Reclaim \/ UNCHANGED files) /\ room' = room
      BY <1>5 DEF Open, Unlink, StartPut, disk, books
    <2>2. PICK v, to : Begin(w, k, v, to) /\ to \notin {"create", "write"}
      BY <1>5 DEF Open, Unlink, StartPut
    <2>3. \A x \in Workers : Pending(x)' = Pending(x) \/ Pending(x)' = 0
      BY <1>1, <2>2 DEF Begin, Pending
    <2> QED BY <1>1, <1>3, <2>1, <2>3, SpareKept
  <1>6. CASE Restart
    <2>1. Reclaim /\ (\A x \in Workers : Pending(x)' = 0) /\ (room' # "lost" => room # "lost")
      BY <1>6 DEF Restart, Pending
    <2> QED BY <1>1, <1>3, <2>1, SpareKept
  <1> QED
    BY <1>2, <1>4, <1>5, <1>6, EnsureSpaceSpare, CreateSpare, WriteSpare
       DEF Next, Put, vars, disk, worker, books

(* LOCAL_CACHE_RESERVE_BYTES stays free (README.md:367) from the moment a  *)
(* put is given room alone, temporary files and open deleted ones included,*)
(* whatever is read, deleted, fails or restarts, until room is given to two*)
(* puts at once.                                                           *)
THEOREM ReserveIsKept == Spec => []ReserveKept
  <1>1. Init => Spare
    <2> SUFFICES ASSUME Init, budget = "auto", room # "lost"
                 PROVE  /\ Reserve <= DiskSize /\ Sum(Blocks, Inodes) = 0
                        /\ \A w \in Workers : Pending(w) = 0
      BY SpaceAssumption DEF Spare
    <2>1. \A i \in Inodes : Blocks[i] = 0
      BY DEF Init, Blocks
    <2> QED BY <2>1, FinitePaths, SumZero, SpaceAssumption DEF Sum, Init, Pending
  <1>2. /\ DiskInv /\ Typed /\ Typed' /\ Alone /\ Spare /\ [Next]_vars
        => Spare'
    BY SpareStep
  <1>3. Typed /\ Spare => ReserveKept
    <2> SUFFICES ASSUME Typed, Spare, budget = "auto", room # "lost"
                 PROVE  DiskSize - Sum(Blocks, Inodes) >= Reserve
      BY DEF ReserveKept
    <2> QED BY BlockSums, SpaceAssumption DEF Spare
  <1> QED BY <1>1, <1>2, <1>3, DiskInvariance, TypedInvariance, AloneInvariance, PTL DEF Spec
=============================================================================
