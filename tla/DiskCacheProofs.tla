--------------------------- MODULE DiskCacheProofs ---------------------------
(***************************************************************************)
(* What the disk cache promises, whoever calls it: for any keys, sizes,    *)
(* budgets, failures and restarts, what is installed is whole unless puts  *)
(* of its key met, and the cache implements AtomicCache.                   *)
(*                                                                         *)
(* The argument: as long as a put has met no other, the file it writes is  *)
(* its own (Private) and holds what it has written (Written); no put has   *)
(* open what is installed or read and not in doubt (Sealed).  The put that *)
(* creates key.tmp while another fills it marks both (Met), so that a put  *)
(* that is not marked when it renames installs its own file.               *)
(***************************************************************************)
EXTENDS DiskCache, FiniteSetTheorems, TLAPS

Locations == {"idle", "space", "create", "write", "rename", "abandon", "note",
              "stat", "reading", "forget"}

(* Before and after it deals with a file, and while it does.               *)
Fresh == {"idle", "space", "create", "forget"}
Busy  == {"write", "rename", "stat", "reading"}

(* Types, as far as they are needed.                                       *)
Shape ==
    /\ files = [i \in Inodes |-> files[i]]
    /\ dir \in [Paths -> Inodes \cup {NoInode}]
    /\ pc \in [Workers -> Locations]
    /\ target \in [Workers -> Keys]
    /\ version \in [Workers -> Versions]
    /\ fd \in [Workers -> Inodes \cup {NoInode}]
    /\ offset = [w \in Workers |-> offset[w]]

(* Two puts that fill key.tmp have met; nobody else starts out crowded.    *)
Met ==
    /\ \A w, x \in Workers :
          w # x /\ Filling(w) /\ Filling(x) /\ target[w] = target[x] => w \in crowded
    /\ \A w \in Workers : pc[w] \in Fresh => w \notin crowded

(* A worker has a file open where the code has; a file has one name.       *)
Descriptors ==
    /\ \A w \in Workers : fd[w] # NoInode <=> pc[w] \in {"write", "stat", "reading"}
    /\ \A p, q \in Paths : dir[p] = dir[q] /\ dir[p] # NoInode => p = q

(* A temporary file is open in puts of its key only; the file written by a *)
(* put that met no other is open nowhere else, has no other name and is not*)
(* installed.                                                              *)
Private ==
    \A w \in Workers :
        /\ \A k \in Keys : dir[Temp(k)] # NoInode /\ dir[Temp(k)] = fd[w]
                               => pc[w] = "write" /\ target[w] = k
        /\ pc[w] = "write" /\ w \notin crowded =>
              /\ dir[Temp(target[w])] \in {fd[w], NoInode}
              /\ \A k \in Keys : dir[Object(k)] # fd[w]
              /\ \A x \in Workers : fd[x] = fd[w] => x = w

(* No put has open what is installed or read, unless it is in doubt.       *)
Sealed ==
    \A w \in Workers : pc[w] = "write" =>
        /\ \A k \in Keys \ suspect : dir[Object(k)] # fd[w]
        /\ \A x \in Workers \ crowded : pc[x] \in {"stat", "reading"} => fd[x] # fd[w]

(* What a put that met no other has written so far, and what it renames.   *)
Written ==
    \A w \in Workers :
        /\ pc[w] \in {"idle", "space", "create"} => offset[w] = 0
        /\ pc[w] = "write" /\ w \notin crowded =>
              /\ offset[w] \in Nat /\ offset[w] <= SizeOf[version[w]]
              /\ files[fd[w]] = [i \in 1 .. offset[w] |-> version[w]]
        /\ pc[w] = "rename" /\ w \notin crowded /\ dir[Temp(target[w])] # NoInode
               => files[dir[Temp(target[w])]] = Whole(version[w])

(* Readers of what is not in doubt read whole objects.                     *)
ReadWhole ==
    \A w \in Workers \ crowded : pc[w] \in {"stat", "reading"} => IsWhole(files[fd[w]])

DiskInv ==
    /\ Shape /\ Met /\ Descriptors /\ Private /\ Sealed /\ Written
    /\ WholeUnlessCrowded /\ ReadWhole

-----------------------------------------------------------------------------
(* What names and sizes are.                                               *)
LEMMA Names ==
    /\ \A k \in Keys : Object(k) \in Paths /\ Temp(k) \in Paths
    /\ \A j, k \in Keys : /\ Object(j) # Temp(k)
                          /\ Object(j) = Object(k) => j = k
                          /\ Temp(j) = Temp(k) => j = k
    /\ \A p \in Paths : \E k \in Keys : p = Object(k) \/ p = Temp(k)
    /\ NoInode \notin Inodes
  BY DEF Object, Temp, Paths, Inodes, NoInode

LEMMA EvictShape ==
    ASSUME NEW victims, Evict(victims)
    PROVE  /\ dir' = [p \in Paths |-> IF p \in victims THEN NoInode ELSE dir[p]]
           /\ UNCHANGED fd
           /\ Reclaim
  BY DEF Evict

LEMMA SpaceShape ==
    ASSUME NEW w \in Workers, EnsureSpace(w)
    PROVE  \E victims :
             /\ Evict(victims)
             /\ \/ Goto(w, "space", "create") /\ UNCHANGED <<offset, mixing>>
                \/ End(w, "space") /\ UNCHANGED suspect
  BY DEF EnsureSpace

(* Files that keep a name or a descriptor keep their bytes.                *)
LEMMA ReclaimKeeps ==
    ASSUME Reclaim
    PROVE  /\ files' = [i \in Inodes |-> files'[i]]
           /\ \A p \in Paths : dir'[p] \in Inodes => files'[dir'[p]] = files[dir'[p]]
           /\ \A w \in Workers : fd'[w] \in Inodes => files'[fd'[w]] = files[fd'[w]]
  BY DEF Reclaim

LEMMA Sizes ==
    ASSUME NEW v \in Versions
    PROVE  /\ SizeOf[v] \in Nat \ {0}
           /\ Len(Whole(v)) = SizeOf[v]
           /\ Whole(v) # <<>>
  <1>1. SizeOf[v] \in Nat \ {0}
    BY VersionsAssumption
  <1>2. Whole(v) \in Seq(Versions) /\ Len(Whole(v)) = SizeOf[v]
    BY <1>1 DEF Whole
  <1> QED BY <1>1, <1>2

LEMMA WholeLength ==
    ASSUME NEW content, IsWhole(content)
    PROVE  Len(content) \in Nat \ {0} /\ content # <<>>
  BY Sizes DEF IsWhole

(* There are enough inodes: one for each name and for each other worker.   *)
LEMMA UnusedIsFree ==
    ASSUME dir \in [Paths -> Inodes \cup {NoInode}],
           fd \in [Workers -> Inodes \cup {NoInode}],
           NEW w \in Workers, fd[w] = NoInode
    PROVE  /\ Unused \in Inodes
           /\ \A p \in Paths : dir[p] # Unused
           /\ \A x \in Workers : fd[x] # Unused
  <1> DEFINE Others == Workers \ {w}
             Named  == {dir[p] : p \in Paths}
             Held  == {fd[x] : x \in Others}
             K      == Cardinality(Keys)
             W      == Cardinality(Workers)
  <1>1. IsFiniteSet(Keys) /\ IsFiniteSet(Workers) /\ K \in Nat /\ W \in Nat
    BY WorkersAssumption, FS_CardinalityType
  <1>2. IsFiniteSet({"object", "tmp"}) /\ Cardinality({"object", "tmp"}) = 2
    <2>1. {"object", "tmp"} = {"object"} \cup {"tmp"}
      OBVIOUS
    <2>2. IsFiniteSet({"object"}) /\ Cardinality({"object"}) = 1 /\ "tmp" \notin {"object"}
      BY FS_Singleton
    <2>3. /\ IsFiniteSet({"object"} \cup {"tmp"})
          /\ Cardinality({"object"} \cup {"tmp"}) = Cardinality({"object"}) + 1
      BY <2>2, FS_AddElement
    <2> QED BY <2>1, <2>2, <2>3
  <1>3. IsFiniteSet(Paths) /\ Cardinality(Paths) = 2 * K
    <2>1. /\ IsFiniteSet(Keys \X {"object", "tmp"})
          /\ Cardinality(Keys \X {"object", "tmp"}) = K * Cardinality({"object", "tmp"})
      BY <1>1, <1>2, FS_Product
    <2> HIDE DEF K
    <2> QED BY <1>1, <1>2, <2>1 DEF Paths
  <1>4. IsFiniteSet(Others) /\ Cardinality(Others) = W - 1
    BY <1>1, FS_RemoveElement
  <1>5. IsFiniteSet(Named) /\ Cardinality(Named) <= 2 * K
    <2>1. dir \in Surjection(Paths, Named)
      BY DEF Surjection
    <2> QED BY <1>3, <2>1, FS_Surjection
  <1>6. IsFiniteSet(Held) /\ Cardinality(Held) <= W - 1
    <2>1. [x \in Others |-> fd[x]] \in Surjection(Others, Held)
      BY DEF Surjection
    <2> QED BY <1>4, <2>1, FS_Surjection
  <1>7. IsFiniteSet(Named \cup Held) /\ Cardinality(Named \cup Held) <= 2 * K + W - 1
    <2>1. /\ IsFiniteSet(Named \cup Held)
          /\ Cardinality(Named \cup Held)
               = Cardinality(Named) + Cardinality(Held) - Cardinality(Named \cap Held)
      BY <1>5, <1>6, FS_Union
    <2>2. IsFiniteSet(Named \cap Held)
      BY <1>5, FS_Intersection
    <2>3. Cardinality(Named) \in Nat /\ Cardinality(Held) \in Nat
          /\ Cardinality(Named \cap Held) \in Nat
      BY <1>5, <1>6, <2>2, FS_CardinalityType
    <2> HIDE DEF Named, Held, K, W
    <2> QED BY <1>1, <1>5, <1>6, <2>1, <2>3
  <1>8. IsFiniteSet(Inodes) /\ Cardinality(Inodes) = 2 * K + W
    <2>1. 2 * K + W \in Nat
      BY <1>1
    <2> QED BY <2>1, FS_Interval DEF Inodes
  <1>9. ~(Inodes \subseteq Named \cup Held)
    <2> SUFFICES ASSUME Inodes \subseteq Named \cup Held PROVE FALSE
      OBVIOUS
    <2>1. Cardinality(Inodes) <= Cardinality(Named \cup Held)
      BY <1>7, FS_Subset
    <2>2. Cardinality(Named \cup Held) \in Nat
      BY <1>7, FS_CardinalityType
    <2> HIDE DEF Named, Held, K, W
    <2> QED BY <1>1, <1>7, <1>8, <2>1, <2>2
  <1>10. \E i \in Inodes : (\A p \in Paths : dir[p] # i) /\ (\A x \in Workers : fd[x] # i)
    BY <1>9, Names
  <1> QED BY <1>10 DEF Unused

-----------------------------------------------------------------------------
(* Most steps take names away, close files, and move a worker on.          *)
Fading ==
    /\ suspect' = suspect
    /\ \A p \in Paths :
          /\ dir'[p] \in {dir[p], NoInode}
          /\ dir'[p] # NoInode => files'[dir'[p]] = files[dir'[p]]
    /\ \A x \in Workers :
          /\ fd'[x] \in {fd[x], NoInode}
          /\ fd'[x] # NoInode => files'[fd'[x]] = files[fd'[x]]
          /\ fd'[x] # NoInode <=> pc'[x] \in {"write", "stat", "reading"}
          /\ pc'[x] \in Busy => (x \in crowded' <=> x \in crowded)
          /\ pc'[x] = "write" => /\ pc[x] = "write" /\ target'[x] = target[x]
                                 /\ version'[x] = version[x] /\ offset'[x] = offset[x]
          /\ pc'[x] \in {"stat", "reading"} => pc[x] \in {"stat", "reading"}
          /\ pc'[x] \in {"idle", "space", "create"} => offset'[x] = 0
          /\ pc'[x] = "rename" /\ x \notin crowded' /\ dir'[Temp(target'[x])] # NoInode
                 => files[dir'[Temp(target'[x])]] = Whole(version'[x])

LEMMA FadingKeeps ==
    ASSUME DiskInv, Shape', Fading
    PROVE  Descriptors' /\ Private' /\ Sealed' /\ Written' /\ WholeUnlessCrowded' /\ ReadWhole'
  <1>0. ASSUME NEW w \in Workers, pc'[w] = "write"
        PROVE  /\ pc[w] = "write" /\ fd'[w] = fd[w] /\ fd[w] # NoInode /\ target'[w] = target[w]
               /\ version'[w] = version[w] /\ offset'[w] = offset[w]
               /\ files'[fd'[w]] = files[fd[w]] /\ (w \in crowded' <=> w \in crowded)
    BY <1>0 DEF Fading, Busy
  <1>1. Descriptors'
    <2>1. \A p, q \in Paths : dir'[p] = dir'[q] /\ dir'[p] # NoInode => p = q
      BY DEF DiskInv, Fading, Descriptors
    <2>2. \A w \in Workers : fd'[w] # NoInode <=> pc'[w] \in {"write", "stat", "reading"}
      BY DEF Fading
    <2> QED BY <2>1, <2>2 DEF Descriptors
  <1>2. Private'
    <2> SUFFICES ASSUME NEW w \in Workers
                 PROVE  /\ \A k \in Keys : dir'[Temp(k)] # NoInode /\ dir'[Temp(k)] = fd'[w]
                               => pc'[w] = "write" /\ target'[w] = k
                        /\ pc'[w] = "write" /\ w \notin crowded' =>
                              /\ dir'[Temp(target'[w])] \in {fd'[w], NoInode}
                              /\ \A k \in Keys : dir'[Object(k)] # fd'[w]
                              /\ \A x \in Workers : fd'[x] = fd'[w] => x = w
      BY DEF Private
    <2>1. \A k \in Keys : Object(k) \in Paths /\ Temp(k) \in Paths
      BY Names
    <2>2. \A k \in Keys : dir'[Temp(k)] # NoInode /\ dir'[Temp(k)] = fd'[w]
                              => pc'[w] = "write" /\ target'[w] = k
      <3> SUFFICES ASSUME NEW k \in Keys, dir'[Temp(k)] # NoInode, dir'[Temp(k)] = fd'[w]
                   PROVE  pc'[w] = "write" /\ target'[w] = k
        OBVIOUS
      <3>1. dir[Temp(k)] = fd[w] /\ dir[Temp(k)] # NoInode
        BY <2>1 DEF Fading
      <3>2. pc[w] = "write" /\ target[w] = k
        BY <3>1 DEF DiskInv, Private
      <3> QED BY <3>2 DEF Fading
    <2>3. ASSUME pc'[w] = "write", w \notin crowded'
          PROVE  /\ dir'[Temp(target'[w])] \in {fd'[w], NoInode}
                 /\ \A k \in Keys : dir'[Object(k)] # fd'[w]
                 /\ \A x \in Workers : fd'[x] = fd'[w] => x = w
      <3>1. /\ dir[Temp(target[w])] \in {fd[w], NoInode}
            /\ \A k \in Keys : dir[Object(k)] # fd[w]
            /\ \A x \in Workers : fd[x] = fd[w] => x = w
        BY <1>0, <2>3 DEF DiskInv, Private
      <3>2. target[w] \in Keys
        BY DEF DiskInv, Shape
      <3> QED BY <1>0, <2>1, <2>3, <3>1, <3>2 DEF Fading
    <2> QED BY <2>2, <2>3
  <1>3. Sealed'
    <2> SUFFICES ASSUME NEW w \in Workers, pc'[w] = "write"
                 PROVE  /\ \A k \in Keys \ suspect : dir'[Object(k)] # fd'[w]
                        /\ \A x \in Workers \ crowded' :
                              pc'[x] \in {"stat", "reading"} => fd'[x] # fd'[w]
      BY DEF Sealed, Fading
    <2>1. \A k \in Keys \ suspect : dir[Object(k)] # fd[w] /\ Object(k) \in Paths
      BY <1>0, Names DEF DiskInv, Sealed
    <2>2. \A x \in Workers \ crowded : pc[x] \in {"stat", "reading"} => fd[x] # fd[w]
      BY <1>0 DEF DiskInv, Sealed
    <2>3. \A x \in Workers : pc'[x] \in {"stat", "reading"} =>
             /\ pc[x] \in {"stat", "reading"} /\ fd'[x] = fd[x]
             /\ x \in crowded' <=> x \in crowded
      BY DEF Fading, Busy
    <2> QED BY <1>0, <2>1, <2>2, <2>3 DEF Fading
  <1>4. Written'
    <2>1. \A w \in Workers : pc'[w] \in {"idle", "space", "create"} => offset'[w] = 0
      BY DEF Fading
    <2>2. \A w \in Workers : pc'[w] = "write" /\ w \notin crowded' =>
             /\ offset'[w] \in Nat /\ offset'[w] <= SizeOf[version'[w]]
             /\ files'[fd'[w]] = [i \in 1 .. offset'[w] |-> version'[w]]
      BY <1>0 DEF DiskInv, Written
    <2>3. \A w \in Workers :
             pc'[w] = "rename" /\ w \notin crowded' /\ dir'[Temp(target'[w])] # NoInode
                 => files'[dir'[Temp(target'[w])]] = Whole(version'[w])
      BY Names DEF Fading, Shape
    <2> QED BY <2>1, <2>2, <2>3 DEF Written
  <1>5. WholeUnlessCrowded'
    BY Names DEF DiskInv, Fading, WholeUnlessCrowded
  <1>6. ReadWhole'
    BY DEF DiskInv, Fading, Busy, Descriptors, ReadWhole
  <1> QED BY <1>1, <1>2, <1>3, <1>4, <1>5, <1>6

(* One worker moves, and neither begins to fill key.tmp nor meets another. *)
Moves(w) ==
    /\ \A x \in Workers \ {w} :
          /\ pc'[x] = pc[x] /\ target'[x] = target[x] /\ version'[x] = version[x]
    /\ crowded' \in {crowded, crowded \ {w}}
    /\ pc'[w] \in Busy => crowded' = crowded
    /\ pc'[w] \in {"write", "rename"} => Filling(w) /\ target'[w] = target[w]
    /\ pc'[w] \in Fresh => w \notin crowded'

LEMMA MetKept ==
    ASSUME Met, NEW w \in Workers, Moves(w)
    PROVE  Met'
  <1>1. ASSUME NEW x \in Workers, Filling(x)'
        PROVE  Filling(x) /\ target'[x] = target[x] /\ (x \in crowded' <=> x \in crowded)
    BY <1>1 DEF Moves, Filling, Busy
  <1>2. \A x, y \in Workers :
           x # y /\ Filling(x)' /\ Filling(y)' /\ target'[x] = target'[y] => x \in crowded'
    BY <1>1 DEF Met
  <1>3. \A x \in Workers : pc'[x] \in Fresh => x \notin crowded'
    BY DEF Met, Moves
  <1> QED BY <1>2, <1>3 DEF Met

(* It fades when one worker w moves on, and is not about to write.         *)
MovesOn(w) ==
    /\ Moves(w) /\ UNCHANGED suspect
    /\ \A x \in Workers \ {w} : offset'[x] = offset[x] /\ fd'[x] = fd[x]
    /\ fd'[w] \in {fd[w], NoInode}
    /\ fd'[w] # NoInode <=> pc'[w] \in {"stat", "reading"}
    /\ pc'[w] # "write"
    /\ pc'[w] \in {"stat", "reading"} => pc[w] \in {"stat", "reading"}
    /\ pc'[w] \in {"idle", "space", "create"} => offset'[w] = 0

LEMMA FadingStep ==
    ASSUME DiskInv, Shape', NEW w \in Workers, MovesOn(w),
           Reclaim \/ UNCHANGED files,
           \A p \in Paths : dir'[p] \in {dir[p], NoInode},
           pc'[w] = "rename" /\ w \notin crowded /\ dir'[Temp(target'[w])] # NoInode
               => files[dir'[Temp(target'[w])]] = Whole(version'[w])
    PROVE  Fading
  <1>1. \A p \in Paths : dir'[p] # NoInode => files'[dir'[p]] = files[dir'[p]]
    BY ReclaimKeeps DEF Shape
  <1>2. \A x \in Workers : fd'[x] # NoInode => files'[fd'[x]] = files[fd'[x]]
    BY ReclaimKeeps DEF Shape
  <1>3. \A x \in Workers : fd'[x] # NoInode <=> pc'[x] \in {"write", "stat", "reading"}
    BY DEF DiskInv, Descriptors, MovesOn, Moves
  <1>4. \A x \in Workers : pc'[x] \in Busy => (x \in crowded' <=> x \in crowded)
    BY DEF MovesOn, Moves
  <1>5. ASSUME NEW x \in Workers \ {w}
        PROVE  /\ pc'[x] = "write" => /\ pc[x] = "write" /\ target'[x] = target[x]
                                       /\ version'[x] = version[x] /\ offset'[x] = offset[x]
               /\ pc'[x] \in {"stat", "reading"} => pc[x] \in {"stat", "reading"}
               /\ pc'[x] \in {"idle", "space", "create"} => offset'[x] = 0
               /\ pc'[x] = "rename" /\ x \notin crowded' /\ dir'[Temp(target'[x])] # NoInode
                     => files[dir'[Temp(target'[x])]] = Whole(version'[x])
    <2>1. Temp(target[x]) \in Paths
      BY Names DEF DiskInv, Shape
    <2>2. /\ pc'[x] = pc[x] /\ target'[x] = target[x] /\ version'[x] = version[x]
          /\ offset'[x] = offset[x] /\ (x \in crowded' <=> x \in crowded)
      BY DEF MovesOn, Moves
    <2>3. /\ pc[x] \in {"idle", "space", "create"} => offset[x] = 0
          /\ pc[x] = "rename" /\ x \notin crowded /\ dir[Temp(target[x])] # NoInode
                 => files[dir[Temp(target[x])]] = Whole(version[x])
      BY DEF DiskInv, Written
    <2> QED BY <2>1, <2>2, <2>3
  <1>6. /\ suspect' = suspect /\ pc'[w] # "write"
        /\ \A x \in Workers : fd'[x] \in {fd[x], NoInode}
        /\ pc'[w] \in {"stat", "reading"} => pc[w] \in {"stat", "reading"}
        /\ pc'[w] \in {"idle", "space", "create"} => offset'[w] = 0
        /\ pc'[w] = "rename" => crowded' = crowded
    BY DEF MovesOn, Moves, Busy
  <1> QED BY <1>1, <1>2, <1>3, <1>4, <1>5, <1>6 DEF Fading

(* All parts of the invariant, for a step that takes names away.           *)
LEMMA FadingInv ==
    ASSUME DiskInv, Shape', Fading, NEW w \in Workers, Moves(w)
    PROVE  DiskInv'
  BY FadingKeeps, MetKept DEF DiskInv

-----------------------------------------------------------------------------
(* The actions.                                                            *)

LEMMA StartPutInv ==
    ASSUME DiskInv, NEW w \in Workers, NEW k \in Keys, NEW v \in Versions, StartPut(w, k, v)
    PROVE  DiskInv' /\ Fading
  <1> USE DEF StartPut, Begin, disk, memory, mixing
  <1>1. Shape'
    BY DEF DiskInv, Shape, Locations
  <1>2. MovesOn(w) /\ pc'[w] # "rename"
    BY DEF DiskInv, Shape, Met, Descriptors, Written, MovesOn, Moves, Fresh, Busy
  <1>3. Fading
    <2>1. \A p \in Paths : dir'[p] \in {dir[p], NoInode}
      OBVIOUS
    <2> QED BY <1>1, <1>2, <2>1, FadingStep
  <1> QED BY <1>1, <1>2, <1>3, FadingInv DEF MovesOn

LEMMA EnsureSpaceInv ==
    ASSUME DiskInv, NEW w \in Workers, EnsureSpace(w)
    PROVE  DiskInv' /\ Fading /\ MovesOn(w)
  <1> PICK victims : /\ Evict(victims)
                     /\ \/ Goto(w, "space", "create") /\ UNCHANGED <<offset, mixing>>
                        \/ End(w, "space") /\ UNCHANGED suspect
    BY SpaceShape
  <1> USE EvictShape, ReclaimKeeps DEF Goto, End, mixing
  <1>1. Shape'
    BY DEF DiskInv, Shape, Locations, AnyKey, AnyVersion
  <1>2. MovesOn(w) /\ pc'[w] # "rename"
    BY DEF DiskInv, Shape, Met, Descriptors, Written, MovesOn, Moves, Fresh, Busy
  <1>3. \A p \in Paths : dir'[p] \in {dir[p], NoInode}
    BY Names DEF DiskInv, Shape
  <1>4. Fading
    BY <1>1, <1>2, <1>3, FadingStep
  <1> QED BY <1>1, <1>2, <1>4, FadingInv DEF MovesOn

LEMMA CreateFailsInv ==
    ASSUME DiskInv, NEW w \in Workers, CreateFails(w)
    PROVE  DiskInv' /\ Fading
  <1>1. /\ UNCHANGED <<disk, fd, suspect>>
        /\ \/ End(w, "create")
           \/ Goto(w, "create", "abandon") /\ UNCHANGED <<offset, crowded>>
    BY DEF CreateFails
  <1> USE <1>1 DEF Goto, End, disk
  <1>2. Shape'
    BY DEF DiskInv, Shape, Locations, AnyKey, AnyVersion
  <1>3. MovesOn(w) /\ pc'[w] # "rename"
    BY DEF DiskInv, Shape, Met, Descriptors, Written, MovesOn, Moves, Fresh, Busy
  <1>4. Fading
    <2>1. \A p \in Paths : dir'[p] \in {dir[p], NoInode}
      OBVIOUS
    <2> QED BY <1>2, <1>3, <2>1, FadingStep
  <1> QED BY <1>2, <1>3, <1>4, FadingInv DEF MovesOn

LEMMA ClosedInv ==
    ASSUME DiskInv, NEW w \in Workers, Close(w) \/ PutFails(w)
    PROVE  DiskInv' /\ Fading
  <1> USE ReclaimKeeps DEF Close, PutFails, CloseFile, Goto
  <1>1. Shape'
    BY DEF DiskInv, Shape, Locations
  <1>2. MovesOn(w)
    BY DEF DiskInv, Shape, Descriptors, MovesOn, Moves, Fresh, Busy, Filling
  <1>3. ASSUME pc'[w] = "rename", w \notin crowded, dir'[Temp(target'[w])] # NoInode
        PROVE  files[dir'[Temp(target'[w])]] = Whole(version'[w])
    <2>1. pc[w] = "write" /\ offset[w] = SizeOf[version[w]] /\ dir' = dir
          /\ target' = target /\ version' = version
      BY <1>3 DEF DiskInv, Shape
    <2>2. dir[Temp(target[w])] = fd[w]
      BY <1>3, <2>1 DEF DiskInv, Private
    <2> QED BY <1>3, <2>1, <2>2 DEF DiskInv, Written, Whole
  <1>4. Fading
    <2>1. Reclaim /\ \A p \in Paths : dir'[p] \in {dir[p], NoInode}
      OBVIOUS
    <2> QED BY <1>1, <1>2, <1>3, <2>1, FadingStep
  <1> QED BY <1>1, <1>2, <1>4, FadingInv DEF MovesOn

LEMMA AbandonInv ==
    ASSUME DiskInv, NEW w \in Workers, Abandon(w)
    PROVE  DiskInv' /\ Fading
  <1> USE ReclaimKeeps DEF Abandon, End
  <1>1. Shape'
    BY DEF DiskInv, Shape, Locations, AnyKey, AnyVersion
  <1>2. MovesOn(w) /\ pc'[w] # "rename"
    BY DEF DiskInv, Shape, Met, Descriptors, MovesOn, Moves, Fresh, Busy
  <1>3. \A p \in Paths : dir'[p] \in {dir[p], NoInode}
    BY Names DEF DiskInv, Shape
  <1>4. Fading
    BY <1>1, <1>2, <1>3, FadingStep
  <1> QED BY <1>1, <1>2, <1>4, FadingInv DEF MovesOn

LEMMA NoteInv ==
    ASSUME DiskInv, NEW w \in Workers, Note(w)
    PROVE  DiskInv' /\ Fading
  <1>1. End(w, "note") /\ UNCHANGED <<disk, fd, suspect>>
    BY DEF Note
  <1> USE <1>1 DEF End, disk
  <1>2. Shape'
    BY DEF DiskInv, Shape, Locations, AnyKey, AnyVersion
  <1>3. MovesOn(w) /\ pc'[w] # "rename"
    BY DEF DiskInv, Shape, Met, Descriptors, MovesOn, Moves, Fresh, Busy
  <1>4. Fading
    <2>1. \A p \in Paths : dir'[p] \in {dir[p], NoInode}
      OBVIOUS
    <2> QED BY <1>2, <1>3, <2>1, FadingStep
  <1> QED BY <1>2, <1>3, <1>4, FadingInv DEF MovesOn

LEMMA StatInv ==
    ASSUME DiskInv, NEW w \in Workers, Stat(w)
    PROVE  DiskInv' /\ Fading
  <1>1. /\ offset' = [offset EXCEPT ![w] = Len(files[fd[w]])]
        /\ Goto(w, "stat", "reading") /\ UNCHANGED <<disk, fd, mixing>>
    BY DEF Stat
  <1> USE <1>1 DEF Goto, disk, mixing
  <1>2. Shape'
    BY DEF DiskInv, Shape, Locations
  <1>3. MovesOn(w) /\ pc'[w] # "rename"
    BY DEF DiskInv, Shape, Met, Descriptors, MovesOn, Moves, Fresh, Busy
  <1>4. Fading
    <2>1. \A p \in Paths : dir'[p] \in {dir[p], NoInode}
      OBVIOUS
    <2> QED BY <1>2, <1>3, <2>1, FadingStep
  <1> QED BY <1>2, <1>3, <1>4, FadingInv DEF MovesOn

LEMMA DoneInv ==
    ASSUME DiskInv, NEW w \in Workers, Done(w)
    PROVE  DiskInv' /\ Fading
  <1> USE ReclaimKeeps DEF Done, CloseFile, End
  <1>1. Shape'
    BY DEF DiskInv, Shape, Locations, AnyKey, AnyVersion
  <1>2. MovesOn(w) /\ pc'[w] # "rename"
    BY DEF DiskInv, Shape, Met, Descriptors, MovesOn, Moves, Fresh, Busy
  <1>3. Fading
    <2>1. Reclaim /\ \A p \in Paths : dir'[p] \in {dir[p], NoInode}
      OBVIOUS
    <2> QED BY <1>1, <1>2, <2>1, FadingStep
  <1> QED BY <1>1, <1>2, <1>3, FadingInv DEF MovesOn

LEMMA UnlinkInv ==
    ASSUME DiskInv, NEW w \in Workers, NEW k \in Keys, Unlink(w, k)
    PROVE  DiskInv' /\ Fading
  <1> USE ReclaimKeeps DEF Unlink, Begin, mixing
  <1>1. Shape'
    BY DEF DiskInv, Shape, Locations
  <1>2. MovesOn(w) /\ pc'[w] # "rename"
    BY DEF DiskInv, Shape, Met, Descriptors, MovesOn, Moves, Fresh, Busy
  <1>3. \A p \in Paths : dir'[p] \in {dir[p], NoInode}
    BY Names DEF DiskInv, Shape
  <1>4. Fading
    BY <1>1, <1>2, <1>3, FadingStep
  <1> QED BY <1>1, <1>2, <1>4, FadingInv DEF MovesOn

LEMMA ForgetInv ==
    ASSUME DiskInv, NEW w \in Workers, Forget(w)
    PROVE  DiskInv' /\ Fading
  <1>1. End(w, "forget") /\ UNCHANGED <<disk, fd, suspect>>
    BY DEF Forget
  <1> USE <1>1 DEF End, disk
  <1>2. Shape'
    BY DEF DiskInv, Shape, Locations, AnyKey, AnyVersion
  <1>3. MovesOn(w) /\ pc'[w] # "rename"
    BY DEF DiskInv, Shape, Met, Descriptors, MovesOn, Moves, Fresh, Busy
  <1>4. Fading
    <2>1. \A p \in Paths : dir'[p] \in {dir[p], NoInode}
      OBVIOUS
    <2> QED BY <1>2, <1>3, <2>1, FadingStep
  <1> QED BY <1>2, <1>3, <1>4, FadingInv DEF MovesOn

LEMMA OpenInv ==
    ASSUME DiskInv, NEW w \in Workers, NEW k \in Keys, Open(w, k)
    PROVE  DiskInv'
  <1>1. /\ dir[Object(k)] \in Inodes /\ fd'[w] = dir[Object(k)] /\ pc'[w] = "stat"
        /\ pc[w] = "idle" /\ UNCHANGED <<files, dir, offset, suspect>>
        /\ \A x \in Workers \ {w} : /\ fd'[x] = fd[x] /\ pc'[x] = pc[x]
                                    /\ target'[x] = target[x] /\ version'[x] = version[x]
        /\ crowded' = IF k \in suspect THEN crowded \cup {w} ELSE crowded
    BY Names DEF Open, Begin, DiskInv, Shape, disk
  <1>2. Shape'
    BY <1>1 DEF Open, Begin, disk, DiskInv, Shape, Locations
  <1>3. \A x \in Workers \ {w} : x \in crowded' <=> x \in crowded
    BY <1>1
  <1>4. Met'
    <2>1. \A x, y \in Workers :
             x # y /\ Filling(x)' /\ Filling(y)' /\ target'[x] = target'[y] => x \in crowded'
      BY <1>1, <1>3 DEF DiskInv, Met, Filling
    <2>2. \A x \in Workers : pc'[x] \in Fresh => x \notin crowded'
      BY <1>1, <1>3 DEF DiskInv, Met, Fresh
    <2> QED BY <2>1, <2>2 DEF Met
  <1>5. Descriptors'
    BY <1>1, Names DEF DiskInv, Descriptors
  <1>6. Private'
    BY <1>1, <1>3, Names DEF DiskInv, Descriptors, Private
  <1>7. Sealed'
    <2> SUFFICES ASSUME NEW x \in Workers, pc'[x] = "write"
                 PROVE  /\ \A j \in Keys \ suspect' : dir'[Object(j)] # fd'[x]
                        /\ \A y \in Workers \ crowded' :
                              pc'[y] \in {"stat", "reading"} => fd'[y] # fd'[x]
      BY DEF Sealed
    <2>1. x # w /\ pc[x] = "write" /\ fd'[x] = fd[x]
      BY <1>1
    <2>2. /\ \A j \in Keys \ suspect : dir[Object(j)] # fd[x]
          /\ \A y \in Workers \ crowded : pc[y] \in {"stat", "reading"} => fd[y] # fd[x]
      BY <2>1 DEF DiskInv, Sealed
    <2>3. w \notin crowded' => k \notin suspect
      BY <1>1
    <2> QED BY <1>1, <1>3, <2>1, <2>2, <2>3
  <1>8. Written'
    BY <1>1, <1>3 DEF DiskInv, Written
  <1>9. WholeUnlessCrowded'
    BY <1>1 DEF DiskInv, WholeUnlessCrowded
  <1>10. ReadWhole'
    <2>1. w \notin crowded' => IsWhole(files'[fd'[w]])
      BY <1>1, Names DEF DiskInv, WholeUnlessCrowded
    <2>2. \A x \in Workers \ {w} : x \notin crowded' /\ pc'[x] \in {"stat", "reading"}
                                       => IsWhole(files'[fd'[x]])
      BY <1>1, <1>3 DEF DiskInv, ReadWhole
    <2> QED BY <2>1, <2>2 DEF ReadWhole
  <1> QED BY <1>2, <1>4, <1>5, <1>6, <1>7, <1>8, <1>9, <1>10 DEF DiskInv

(* A step that touches neither what is installed nor what is read, but for *)
(* what is in doubt.                                                       *)
Untouched ==
    /\ suspect' = suspect
    /\ \A k \in Keys :
          /\ dir'[Object(k)] = dir[Object(k)]
          /\ k \notin suspect /\ dir[Object(k)] # NoInode
                 => files'[dir[Object(k)]] = files[dir[Object(k)]]
    /\ \A x \in Workers :
          /\ pc'[x] \in {"stat", "reading"} <=> pc[x] \in {"stat", "reading"}
          /\ pc[x] \in {"stat", "reading"} =>
                /\ x \in crowded' <=> x \in crowded
                /\ x \notin crowded => fd'[x] = fd[x] /\ files'[fd[x]] = files[fd[x]]

(* The file w empties, or makes, is that of a rival or nobody's.           *)
LEMMA CreateInv ==
    ASSUME DiskInv, NEW w \in Workers, Create(w)
    PROVE  DiskInv' /\ Untouched
  <1> DEFINE tmp == Temp(target[w])
             i   == IF dir[tmp] = NoInode THEN Unused ELSE dir[tmp]
  <1>1. /\ pc[w] = "create" /\ fd[w] = NoInode /\ target[w] \in Keys /\ tmp \in Paths
        /\ offset[w] = 0 /\ version[w] \in Versions
    BY Names DEF Create, Goto, DiskInv, Shape, Descriptors, Written
  <1>2. /\ i \in Inodes
        /\ \A x \in Workers : fd[x] = i => x \in Rivals(w) /\ pc[x] = "write"
        /\ \A p \in Paths : dir[p] = i => p = tmp
    <2>1. CASE dir[tmp] = NoInode
      BY <1>1, <2>1, UnusedIsFree DEF DiskInv, Shape
    <2>2. CASE dir[tmp] # NoInode
      <3>1. ASSUME NEW x \in Workers, fd[x] = dir[tmp]
            PROVE  x \in Rivals(w) /\ pc[x] = "write"
        <4>1. pc[x] = "write" /\ target[x] = target[w]
          BY <1>1, <2>2, <3>1 DEF DiskInv, Private
        <4> QED BY <1>1, <2>2, <3>1, <4>1 DEF Rivals, Filling
      <3> QED BY <1>1, <2>2, <3>1 DEF DiskInv, Shape, Descriptors
    <2> QED BY <2>1, <2>2
  <1>3. /\ dir' = [dir EXCEPT ![tmp] = i] /\ fd' = [fd EXCEPT ![w] = i]
        /\ files' = [files EXCEPT ![i] = <<>>] /\ pc' = [pc EXCEPT ![w] = "write"]
        /\ UNCHANGED <<target, version, offset, suspect>>
        /\ crowded' = IF Rivals(w) = {} THEN crowded ELSE crowded \cup Rivals(w) \cup {w}
    BY DEF Create, Goto
  <1> HIDE DEF i
  <1>4. /\ dir'[tmp] = i /\ \A p \in Paths \ {tmp} : dir'[p] = dir[p]
        /\ fd'[w] = i /\ \A x \in Workers \ {w} : fd'[x] = fd[x] /\ pc'[x] = pc[x]
        /\ pc'[w] = "write"
        /\ files'[i] = <<>> /\ \A j \in Inodes \ {i} : files'[j] = files[j]
    BY <1>1, <1>2, <1>3 DEF DiskInv, Shape
  <1> HIDE DEF tmp
  <1>5. \A k \in Keys : /\ Object(k) \in Paths \ {tmp} /\ Temp(k) \in Paths
                        /\ Temp(k) = tmp => k = target[w]
    BY <1>1, Names DEF tmp
  <1>6. \A x \in Workers \ {w} : x \notin crowded' => x \notin crowded /\ x \notin Rivals(w)
    BY <1>3
  <1>7. \A x \in Workers \ {w} : pc[x] \notin {"write", "rename"} =>
           /\ fd[x] # i
           /\ x \in crowded' <=> x \in crowded
    BY <1>2, <1>3 DEF Rivals, Filling
  <1>8. Shape'
    BY <1>1, <1>2, <1>3 DEF DiskInv, Shape, Locations
  <1>9. Met'
    <2>1. ASSUME NEW x \in Workers, NEW y \in Workers, x # y, Filling(x)', Filling(y)',
                 target'[x] = target'[y]
          PROVE  x \in crowded'
      <3>1. CASE x = w
        <4>1. y \in Rivals(w)
          BY <1>3, <1>4, <2>1, <3>1 DEF Rivals, Filling
        <4> QED BY <1>3, <3>1, <4>1
      <3>2. CASE y = w
        <4>1. x \in Rivals(w)
          BY <1>3, <1>4, <2>1, <3>2 DEF Rivals, Filling
        <4> QED BY <1>3, <4>1
      <3>3. CASE x # w /\ y # w
        <4>1. x \in crowded
          BY <1>3, <1>4, <2>1, <3>3 DEF DiskInv, Met, Filling
        <4> QED BY <1>3, <4>1
      <3> QED BY <3>1, <3>2, <3>3
    <2>2. \A x \in Workers : pc'[x] \in Fresh => x \notin crowded'
      BY <1>4, <1>7 DEF DiskInv, Met, Fresh
    <2> QED BY <2>1, <2>2 DEF Met
  <1>10. Descriptors'
    BY <1>2, <1>4, Names DEF DiskInv, Descriptors
  <1>11. Private'
    <2>1. ASSUME NEW k \in Keys, NEW x \in Workers, dir'[Temp(k)] # NoInode, dir'[Temp(k)] = fd'[x]
          PROVE  pc'[x] = "write" /\ target'[x] = k
      <3>1. CASE x = w
        <4>1. dir'[Temp(k)] = i
          BY <1>4, <2>1, <3>1
        <4>2. Temp(k) = tmp
          BY <1>2, <1>4, <1>5, <4>1
        <4> QED BY <1>3, <1>4, <1>5, <3>1, <4>2
      <3>2. CASE x # w /\ Temp(k) = tmp
        <4>1. x \in Rivals(w) /\ pc[x] = "write" /\ k = target[w]
          BY <1>2, <1>4, <1>5, <2>1, <3>2
        <4> QED BY <1>3, <1>4, <3>2, <4>1 DEF Rivals
      <3>3. CASE x # w /\ Temp(k) # tmp
        BY <1>3, <1>4, <1>5, <2>1, <3>3 DEF DiskInv, Private
      <3> QED BY <3>1, <3>2, <3>3
    <2>2. ASSUME NEW x \in Workers, pc'[x] = "write", x \notin crowded'
          PROVE  /\ dir'[Temp(target'[x])] \in {fd'[x], NoInode}
                 /\ \A k \in Keys : dir'[Object(k)] # fd'[x]
                 /\ \A y \in Workers : fd'[y] = fd'[x] => y = x
      <3>1. CASE x = w
        <4>1. dir'[Temp(target'[w])] = i
          BY <1>3, <1>4 DEF tmp
        <4>2. \A y \in Workers : fd[y] # i
          BY <1>2, <1>3, <2>2, <3>1
        <4> QED BY <1>2, <1>4, <1>5, <3>1, <4>1, <4>2
      <3>2. CASE x # w
        <4>1. x \notin crowded /\ x \notin Rivals(w) /\ pc[x] = "write"
          BY <1>4, <1>6, <2>2, <3>2
        <4>2. target'[x] \in Keys /\ target'[x] # target[w]
          BY <1>3, <3>2, <4>1 DEF DiskInv, Shape, Rivals, Filling
        <4>3. /\ dir[Temp(target'[x])] \in {fd[x], NoInode}
              /\ \A k \in Keys : dir[Object(k)] # fd[x]
              /\ \A y \in Workers : fd[y] = fd[x] => y = x
          BY <1>3, <4>1 DEF DiskInv, Private
        <4>4. fd[x] # i
          BY <1>2, <4>1
        <4> QED BY <1>2, <1>4, <1>5, <3>2, <4>2, <4>3, <4>4
      <3> QED BY <3>1, <3>2
    <2> QED BY <2>1, <2>2 DEF Private
  <1>12. Sealed'
    <2> SUFFICES ASSUME NEW x \in Workers, pc'[x] = "write"
                 PROVE  /\ \A k \in Keys \ suspect : dir'[Object(k)] # fd'[x]
                        /\ \A y \in Workers \ crowded' :
                              pc'[y] \in {"stat", "reading"} => fd'[y] # fd'[x]
      BY <1>3 DEF Sealed
    <2>1. \A y \in Workers : pc'[y] \in {"stat", "reading"} =>
             /\ y # w /\ fd'[y] = fd[y] /\ pc[y] = pc'[y] /\ fd[y] # i
             /\ y \in crowded' <=> y \in crowded
      BY <1>4, <1>7
    <2>2. CASE x = w
      BY <1>2, <1>4, <1>5, <2>1, <2>2
    <2>3. CASE x # w
      BY <1>4, <1>5, <2>1, <2>3 DEF DiskInv, Sealed
    <2> QED BY <2>2, <2>3
  <1>13. \A p \in Paths \ {tmp} : dir'[p] # NoInode => files'[dir'[p]] = files[dir[p]]
    BY <1>2, <1>4 DEF DiskInv, Shape
  <1>14. \A x \in Workers \ {w} : fd'[x] # NoInode /\ fd'[x] # i => files'[fd'[x]] = files[fd[x]]
    BY <1>4 DEF DiskInv, Shape
  <1>15. Written'
    <2>1. /\ offset'[w] = 0 /\ offset'[w] \in Nat
          /\ files'[fd'[w]] = [j \in 1 .. offset'[w] |-> version'[w]]
      BY <1>1, <1>3, <1>4
    <2>2. 0 <= SizeOf[version'[w]]
      BY <1>1, <1>3, Sizes
    <2>3. ASSUME NEW x \in Workers \ {w}
          PROVE  /\ pc'[x] \in {"idle", "space", "create"} => offset'[x] = 0
                 /\ pc'[x] = "write" /\ x \notin crowded' =>
                       /\ offset'[x] \in Nat /\ offset'[x] <= SizeOf[version'[x]]
                       /\ files'[fd'[x]] = [j \in 1 .. offset'[x] |-> version'[x]]
                 /\ pc'[x] = "rename" /\ x \notin crowded' /\ dir'[Temp(target'[x])] # NoInode
                       => files'[dir'[Temp(target'[x])]] = Whole(version'[x])
      <3>1. /\ pc[x] \in {"idle", "space", "create"} => offset[x] = 0
            /\ pc[x] = "write" /\ x \notin crowded =>
                  /\ offset[x] \in Nat /\ offset[x] <= SizeOf[version[x]] /\ fd[x] # NoInode
                  /\ files[fd[x]] = [j \in 1 .. offset[x] |-> version[x]]
            /\ pc[x] = "rename" /\ x \notin crowded /\ dir[Temp(target[x])] # NoInode
                  => files[dir[Temp(target[x])]] = Whole(version[x])
        BY DEF DiskInv, Written, Descriptors
      <3>2. x \notin crowded' => x \notin crowded /\ x \notin Rivals(w)
        BY <1>6
      <3>3. pc[x] = "rename" /\ x \notin crowded' => Temp(target[x]) \in Paths \ {tmp}
        BY <1>1, <1>5, <3>2 DEF DiskInv, Shape, Rivals, Filling
      <3>4. x \notin crowded' => fd[x] # i
        BY <1>2, <3>2
      <3> QED BY <1>3, <1>4, <1>13, <1>14, <3>1, <3>2, <3>3, <3>4
    <2> QED BY <1>4, <2>1, <2>2, <2>3 DEF Written
  <1>16. WholeUnlessCrowded'
    BY <1>3, <1>4, <1>5, <1>13 DEF DiskInv, WholeUnlessCrowded
  <1>17. ReadWhole'
    BY <1>4, <1>7, <1>14 DEF DiskInv, Descriptors, ReadWhole
  <1>18. Untouched
    <2>1. \A k \in Keys : dir'[Object(k)] = dir[Object(k)]
      BY <1>4, <1>5
    <2>2. \A k \in Keys : dir[Object(k)] # NoInode => files'[dir[Object(k)]] = files[dir[Object(k)]]
      BY <2>1, <1>5, <1>13
    <2>3. \A x \in Workers : pc[x] \in {"stat", "reading"} =>
             x # w /\ fd[x] # NoInode /\ fd[x] # i /\ (x \in crowded' <=> x \in crowded)
      BY <1>1, <1>7 DEF DiskInv, Descriptors
    <2> QED BY <1>3, <1>4, <1>14, <2>1, <2>2, <2>3 DEF Untouched
  <1> QED
    BY <1>8, <1>9, <1>10, <1>11, <1>12, <1>15, <1>16, <1>17, <1>18 DEF DiskInv

LEMMA WriteInv ==
    ASSUME DiskInv, NEW w \in Workers, Write(w)
    PROVE  DiskInv' /\ Untouched
  <1>1. /\ pc[w] = "write" /\ fd[w] \in Inodes /\ version[w] \in Versions
        /\ offset[w] + 1 <= SizeOf[version[w]]
        /\ w \notin crowded => /\ offset[w] \in Nat
                               /\ files[fd[w]] = [j \in 1 .. offset[w] |-> version[w]]
    BY DEF Write, Goto, DiskInv, Shape, Descriptors, Written
  <1>2. /\ UNCHANGED <<dir, fd, target, version, pc, crowded, suspect>>
        /\ offset' = [offset EXCEPT ![w] = offset[w] + 1]
    BY DEF Write, Goto, DiskInv, Shape, mixing
  <1>3. /\ files' = [i \in Inodes |-> files'[i]]
        /\ \A i \in Inodes \ {fd[w]} : files'[i] = files[i]
    BY <1>1 DEF Write, DiskInv, Shape
  <1>4. ASSUME w \notin crowded
        PROVE  files'[fd[w]] = [j \in 1 .. offset[w] + 1 |-> version[w]]
    <2> DEFINE at == offset[w] + 1
    <2>1. files[fd[w]] \in Seq(Versions) /\ Len(files[fd[w]]) = offset[w]
      BY <1>1, <1>4
    <2>2. Max({at, Len(files[fd[w]])}) = at
      BY <1>1, <1>4, <2>1 DEF Max
    <2>3. files' = [files EXCEPT ![fd[w]] =
              [j \in 1 .. Max({at, Len(files[fd[w]])}) |->
                  IF j = at THEN version[w]
                  ELSE IF j <= Len(files[fd[w]]) THEN files[fd[w]][j] ELSE 0]]
      BY DEF Write
    <2>4. [j \in 1 .. at |->
              IF j = at THEN version[w]
              ELSE IF j <= Len(files[fd[w]]) THEN files[fd[w]][j] ELSE 0]
            = [j \in 1 .. at |-> version[w]]
      BY <1>1, <1>4, <2>1
    <2>5. files' = [files EXCEPT ![fd[w]] = [j \in 1 .. at |-> version[w]]]
      BY <2>2, <2>3, <2>4
    <2> QED BY <1>1, <2>5 DEF DiskInv, Shape
  <1>5. /\ \A k \in Keys \ suspect : dir[Object(k)] # fd[w]
        /\ \A x \in Workers \ crowded : pc[x] \in {"stat", "reading"} => fd[x] # fd[w]
    BY <1>1 DEF DiskInv, Sealed
  <1>6. \A x \in Workers \ crowded : x # w /\ pc[x] = "write" => fd[x] # fd[w]
    BY DEF DiskInv, Private
  <1>7. \A x \in Workers \ crowded : pc[x] = "rename" => dir[Temp(target[x])] # fd[w]
    <2> SUFFICES ASSUME NEW x \in Workers \ crowded, pc[x] = "rename", dir[Temp(target[x])] = fd[w]
                 PROVE  FALSE
      OBVIOUS
    <2>1. target[x] = target[w]
      BY <1>1, Names DEF DiskInv, Shape, Private
    <2> QED BY <1>1, <2>1 DEF DiskInv, Met, Filling
  <1>8. Shape'
    BY <1>2, <1>3 DEF DiskInv, Shape
  <1>9. Met' /\ Descriptors' /\ Private' /\ Sealed'
    BY <1>2 DEF DiskInv, Met, Filling, Descriptors, Private, Sealed
  <1>10. Written'
    <2> SUFFICES ASSUME NEW x \in Workers
                 PROVE  /\ pc'[x] \in {"idle", "space", "create"} => offset'[x] = 0
                        /\ pc'[x] = "write" /\ x \notin crowded' =>
                              /\ offset'[x] \in Nat /\ offset'[x] <= SizeOf[version'[x]]
                              /\ files'[fd'[x]] = [j \in 1 .. offset'[x] |-> version'[x]]
                        /\ pc'[x] = "rename" /\ x \notin crowded'
                           /\ dir'[Temp(target'[x])] # NoInode
                              => files'[dir'[Temp(target'[x])]] = Whole(version'[x])
      BY DEF Written
    <2>1. ASSUME pc'[x] = "rename", x \notin crowded', dir'[Temp(target'[x])] # NoInode
          PROVE  files'[dir'[Temp(target'[x])]] = Whole(version'[x])
      <3>1. dir[Temp(target[x])] \in Inodes \ {fd[w]}
        BY <1>2, <1>7, <2>1, Names DEF DiskInv, Shape
      <3> QED BY <1>2, <1>3, <2>1, <3>1 DEF DiskInv, Written
    <2>2. CASE x = w
      <3>1. pc'[w] = "write" /\ offset'[w] = offset[w] + 1 /\ version'[w] = version[w]
            /\ fd'[w] = fd[w] /\ (w \in crowded' <=> w \in crowded)
        BY <1>1, <1>2 DEF DiskInv, Shape
      <3> QED BY <1>1, <1>4, <2>2, <3>1
    <2>3. CASE x # w
      <3>1. /\ pc[x] \in {"idle", "space", "create"} => offset[x] = 0
            /\ pc[x] = "write" /\ x \notin crowded =>
                  /\ offset[x] \in Nat /\ offset[x] <= SizeOf[version[x]] /\ fd[x] \in Inodes
                  /\ files[fd[x]] = [j \in 1 .. offset[x] |-> version[x]]
        BY DEF DiskInv, Shape, Written, Descriptors
      <3>2. offset'[x] = offset[x]
        BY <1>2, <2>3 DEF DiskInv, Shape
      <3> QED BY <1>2, <1>3, <1>6, <2>1, <2>3, <3>1, <3>2
    <2> QED BY <2>2, <2>3
  <1>11. WholeUnlessCrowded'
    BY <1>2, <1>3, <1>5, Names DEF DiskInv, Shape, WholeUnlessCrowded
  <1>12. ReadWhole'
    <2> SUFFICES ASSUME NEW x \in Workers \ crowded, pc[x] \in {"stat", "reading"}
                 PROVE  IsWhole(files'[fd[x]])
      BY <1>2 DEF ReadWhole
    <2>1. fd[x] \in Inodes \ {fd[w]} /\ IsWhole(files[fd[x]])
      BY <1>5 DEF DiskInv, Shape, Descriptors, ReadWhole
    <2> QED BY <1>3, <2>1
  <1>13. Untouched
    <2>1. \A k \in Keys \ suspect : dir[Object(k)] \in (Inodes \ {fd[w]}) \cup {NoInode}
      BY <1>5, Names DEF DiskInv, Shape
    <2>2. \A x \in Workers \ crowded : pc[x] \in {"stat", "reading"} => fd[x] \in Inodes \ {fd[w]}
      BY <1>5 DEF DiskInv, Shape, Descriptors
    <2> QED BY <1>2, <1>3, <2>1, <2>2 DEF Untouched
  <1> QED BY <1>8, <1>9, <1>10, <1>11, <1>12, <1>13 DEF DiskInv

LEMMA RenameInv ==
    ASSUME DiskInv, NEW w \in Workers, Rename(w)
    PROVE  DiskInv' /\ (dir[Temp(target[w])] = NoInode => Fading)
  <1> DEFINE tmp == Temp(target[w])
             obj == Object(target[w])
  <1>1. /\ pc[w] = "rename" /\ fd[w] = NoInode /\ target[w] \in Keys
        /\ tmp \in Paths /\ obj \in Paths /\ tmp # obj
    BY Names DEF Rename, Goto, DiskInv, Shape, Descriptors
  <1>2. /\ Reclaim /\ UNCHANGED <<fd, target, version, offset, crowded>>
        /\ \A x \in Workers \ {w} : pc'[x] = pc[x]
        /\ pc'[w] \in {"note", "abandon"}
    BY DEF Rename, Goto, DiskInv, Shape
  <1>3. CASE dir[tmp] = NoInode
    <2>1. pc' = [pc EXCEPT ![w] = "abandon"] /\ dir' = dir /\ suspect' = suspect
      BY <1>3 DEF Rename, Goto
    <2>2. Shape'
      BY <1>2, <2>1, ReclaimKeeps DEF DiskInv, Shape, Locations
    <2>3. MovesOn(w) /\ pc'[w] # "rename"
      BY <1>1, <1>2, <2>1 DEF DiskInv, Shape, MovesOn, Moves, Busy, Fresh
    <2>4. Fading
      <3>1. \A p \in Paths : dir'[p] \in {dir[p], NoInode}
        BY <2>1
      <3> QED BY <1>2, <2>2, <2>3, <3>1, FadingStep
    <2> QED BY <2>2, <2>3, <2>4, FadingInv DEF MovesOn
  <1>4. CASE dir[tmp] # NoInode
    <2>1. /\ pc' = [pc EXCEPT ![w] = "note"]
          /\ dir' = [dir EXCEPT ![obj] = dir[tmp], ![tmp] = NoInode]
          /\ suspect' = IF w \in crowded THEN suspect \cup {target[w]} ELSE suspect \ {target[w]}
      BY <1>4 DEF Rename, Goto
    <2>2. /\ dir'[obj] = dir[tmp] /\ dir'[tmp] = NoInode /\ dir[tmp] \in Inodes
          /\ \A p \in Paths \ {obj, tmp} : dir'[p] = dir[p]
      BY <1>1, <1>4, <2>1 DEF DiskInv, Shape
    <2>3. pc'[w] = "note"
      BY <2>1 DEF DiskInv, Shape
    <2>4. \A x \in Workers : fd[x] = dir[tmp] =>
             pc[x] = "write" /\ x \in crowded /\ w \in crowded
      <3> SUFFICES ASSUME NEW x \in Workers, fd[x] = dir[tmp]
                   PROVE  pc[x] = "write" /\ x \in crowded /\ w \in crowded
        OBVIOUS
      <3>1. pc[x] = "write" /\ target[x] = target[w]
        BY <1>1, <1>4 DEF DiskInv, Private
      <3> QED BY <1>1, <3>1 DEF DiskInv, Met, Filling
    <2>5. /\ \A p \in Paths : dir'[p] # NoInode => files'[dir'[p]] = files[dir'[p]]
          /\ \A x \in Workers : fd'[x] # NoInode => files'[fd'[x]] = files[fd[x]]
      <3>1. \A p \in Paths : dir'[p] \in Inodes \cup {NoInode}
        BY <2>2 DEF DiskInv, Shape
      <3>2. \A x \in Workers : fd'[x] \in Inodes \cup {NoInode}
        BY <1>2 DEF DiskInv, Shape
      <3> QED BY <1>2, <3>1, <3>2, ReclaimKeeps
    <2> HIDE DEF tmp, obj
    <2>6. \A k \in Keys : /\ Object(k) \in Paths \ {tmp} /\ Temp(k) \in Paths \ {obj}
                          /\ Temp(k) = tmp => k = target[w]
                          /\ Object(k) = obj <=> k = target[w]
      BY <1>1, Names DEF tmp, obj
    <2>7. Shape'
      BY <1>1, <1>2, <2>1, <2>2, ReclaimKeeps DEF DiskInv, Shape, Locations
    <2>8. Met'
      <3>1. Moves(w)
        BY <1>1, <1>2, <2>3 DEF Moves, Busy, Fresh
      <3> QED BY <3>1, MetKept DEF DiskInv
    <2>9. Descriptors'
      <3>1. \A x \in Workers : fd'[x] # NoInode <=> pc'[x] \in {"write", "stat", "reading"}
        BY <1>1, <1>2, <2>3 DEF DiskInv, Descriptors
      <3>2. \A p, q \in Paths : dir'[p] = dir'[q] /\ dir'[p] # NoInode => p = q
        BY <1>1, <2>2, Names DEF DiskInv, Descriptors
      <3> QED BY <3>1, <3>2 DEF Descriptors
    <2>10. Private'
      <3>1. ASSUME NEW k \in Keys, NEW x \in Workers, dir'[Temp(k)] # NoInode,
                   dir'[Temp(k)] = fd'[x]
            PROVE  pc'[x] = "write" /\ target'[x] = k
        <4>1. dir[Temp(k)] # NoInode /\ dir[Temp(k)] = fd[x]
          BY <1>2, <2>2, <2>6, <3>1
        <4>2. pc[x] = "write" /\ target[x] = k
          BY <4>1 DEF DiskInv, Private
        <4> QED BY <1>1, <1>2, <4>2
      <3>2. ASSUME NEW x \in Workers, pc'[x] = "write", x \notin crowded'
            PROVE  /\ dir'[Temp(target'[x])] \in {fd'[x], NoInode}
                   /\ \A k \in Keys : dir'[Object(k)] # fd'[x]
                   /\ \A y \in Workers : fd'[y] = fd'[x] => y = x
        <4>1. x # w /\ pc[x] = "write" /\ target[x] \in Keys /\ x \notin crowded
          BY <1>2, <2>3, <3>2 DEF DiskInv, Shape
        <4>2. /\ dir[Temp(target[x])] \in {fd[x], NoInode}
              /\ \A k \in Keys : dir[Object(k)] # fd[x]
              /\ \A y \in Workers : fd[y] = fd[x] => y = x
          BY <4>1 DEF DiskInv, Private
        <4>3. \A k \in Keys : dir'[Object(k)] \in {dir[Object(k)], dir[tmp]}
          BY <2>2, <2>6
        <4>4. dir'[Temp(target[x])] \in {dir[Temp(target[x])], NoInode}
          BY <2>2, <2>6, <4>1
        <4> QED BY <1>2, <2>4, <4>1, <4>2, <4>3, <4>4
      <3> QED BY <3>1, <3>2 DEF Private
    <2>11. Sealed'
      <3> SUFFICES ASSUME NEW x \in Workers, pc'[x] = "write"
                   PROVE  /\ \A k \in Keys \ suspect' : dir'[Object(k)] # fd'[x]
                          /\ \A y \in Workers \ crowded' :
                                pc'[y] \in {"stat", "reading"} => fd'[y] # fd'[x]
        BY DEF Sealed
      <3>1. pc[x] = "write" /\ fd'[x] = fd[x]
        BY <1>2, <2>3
      <3>2. ASSUME NEW k \in Keys \ suspect' PROVE dir'[Object(k)] # fd'[x]
        <4>1. CASE k = target[w]
          BY <2>1, <2>2, <2>4, <2>6, <3>1, <3>2, <4>1
        <4>2. CASE k # target[w]
          <5>1. k \notin suspect /\ dir'[Object(k)] = dir[Object(k)]
            BY <2>1, <2>2, <2>6, <3>2, <4>2
          <5> QED BY <3>1, <5>1 DEF DiskInv, Sealed
        <4> QED BY <4>1, <4>2
      <3>3. \A y \in Workers \ crowded' : pc'[y] \in {"stat", "reading"} => fd'[y] # fd'[x]
        BY <1>2, <2>3, <3>1 DEF DiskInv, Sealed
      <3> QED BY <3>2, <3>3
    <2>12. Written'
      <3>1. ASSUME NEW x \in Workers \ {w}
            PROVE  /\ pc'[x] \in {"idle", "space", "create"} => offset'[x] = 0
                   /\ pc'[x] = "write" /\ x \notin crowded' =>
                         /\ offset'[x] \in Nat /\ offset'[x] <= SizeOf[version'[x]]
                         /\ files'[fd'[x]] = [j \in 1 .. offset'[x] |-> version'[x]]
                   /\ pc'[x] = "rename" /\ x \notin crowded' /\ dir'[Temp(target'[x])] # NoInode
                         => files'[dir'[Temp(target'[x])]] = Whole(version'[x])
        <4>1. /\ pc[x] \in {"idle", "space", "create"} => offset[x] = 0
              /\ pc[x] = "write" /\ x \notin crowded =>
                    /\ offset[x] \in Nat /\ offset[x] <= SizeOf[version[x]] /\ fd[x] # NoInode
                    /\ files[fd[x]] = [j \in 1 .. offset[x] |-> version[x]]
              /\ pc[x] = "rename" /\ x \notin crowded /\ dir[Temp(target[x])] # NoInode
                    => files[dir[Temp(target[x])]] = Whole(version[x])
          BY DEF DiskInv, Written, Descriptors
        <4>2. dir'[Temp(target[x])] \in {dir[Temp(target[x])], NoInode}
              /\ Temp(target[x]) \in Paths
          BY <2>2, <2>6 DEF DiskInv, Shape
        <4> QED BY <1>2, <2>5, <4>1, <4>2
      <3> QED BY <2>3, <3>1 DEF Written
    <2>13. WholeUnlessCrowded'
      <3> SUFFICES ASSUME NEW k \in Keys \ suspect', dir'[Object(k)] # NoInode
                   PROVE  IsWhole(files'[dir'[Object(k)]])
        BY DEF WholeUnlessCrowded
      <3>1. CASE k = target[w]
        <4>1. w \notin crowded
          BY <2>1, <3>1
        <4>2. IsWhole(files[dir[tmp]])
          BY <1>1, <1>4, <4>1 DEF DiskInv, Shape, Written, IsWhole, tmp
        <4> QED BY <2>2, <2>5, <2>6, <3>1, <4>2
      <3>2. CASE k # target[w]
        <4>1. k \notin suspect /\ dir'[Object(k)] = dir[Object(k)]
          BY <2>1, <2>2, <2>6, <3>2
        <4> QED BY <2>5, <2>6, <4>1 DEF DiskInv, WholeUnlessCrowded
      <3> QED BY <3>1, <3>2
    <2>14. ReadWhole'
      BY <1>2, <2>3, <2>5 DEF DiskInv, Descriptors, ReadWhole
    <2> QED
      BY <1>4, <2>7, <2>8, <2>9, <2>10, <2>11, <2>12, <2>13, <2>14 DEF DiskInv, tmp
  <1> QED BY <1>3, <1>4

LEMMA RestartInv ==
    ASSUME DiskInv, Restart
    PROVE  DiskInv' /\ Fading
  <1>1. /\ \A x \in Workers : pc'[x] = "idle" /\ fd'[x] = NoInode /\ offset'[x] = 0
        /\ UNCHANGED <<dir, suspect>> /\ Reclaim /\ crowded' = {}
    BY DEF Restart
  <1>2. Shape'
    <2>1. AnyKey \in Keys /\ AnyVersion \in Versions
      BY WorkersAssumption, VersionsAssumption DEF AnyKey, AnyVersion
    <2> QED BY <1>1, <2>1, ReclaimKeeps DEF Restart, DiskInv, Shape, Locations
  <1>3. Met'
    BY <1>1 DEF Met, Filling
  <1>4. Fading
    BY <1>1, <1>2, ReclaimKeeps DEF Shape, Fading, Busy
  <1> QED BY <1>2, <1>3, <1>4, FadingKeeps DEF DiskInv

LEMMA DiskInit ==
    ASSUME Init
    PROVE  DiskInv
  <1> USE Names DEF Init
  <1>1. Shape
    <2>1. AnyKey \in Keys /\ AnyVersion \in Versions
      BY WorkersAssumption, VersionsAssumption DEF AnyKey, AnyVersion
    <2>2. files = [i \in Inodes |-> files[i]] /\ dir \in [Paths -> Inodes \cup {NoInode}]
      OBVIOUS
    <2>3. /\ pc \in [Workers -> Locations] /\ target \in [Workers -> Keys]
          /\ version \in [Workers -> Versions] /\ fd \in [Workers -> Inodes \cup {NoInode}]
          /\ offset = [w \in Workers |-> offset[w]]
      BY <2>1 DEF Locations
    <2> QED BY <2>2, <2>3 DEF Shape
  <1>2. Met /\ Descriptors /\ Private /\ Sealed
    BY DEF Met, Filling, Descriptors, Private, Sealed
  <1>3. Written /\ WholeUnlessCrowded /\ ReadWhole
    BY DEF Written, WholeUnlessCrowded, ReadWhole
  <1> QED BY <1>1, <1>2, <1>3 DEF DiskInv

LEMMA DiskStep ==
    ASSUME DiskInv, [Next]_vars
    PROVE  DiskInv'
  <1>1. CASE UNCHANGED vars
    <2>1. UNCHANGED <<files, dir, pc, target, version, fd, offset, crowded, suspect>>
      BY <1>1 DEF vars, disk, worker, mixing
    <2>2. Shape' /\ Met' /\ Descriptors' /\ Private' /\ Sealed'
      BY <2>1 DEF DiskInv, Shape, Met, Filling, Descriptors, Private, Sealed
    <2>3. Written' /\ WholeUnlessCrowded' /\ ReadWhole'
      BY <2>1 DEF DiskInv, Written, WholeUnlessCrowded, ReadWhole
    <2> QED BY <2>2, <2>3 DEF DiskInv
  <1>2. ASSUME NEW w \in Workers, Put(w) \/ Look(w) \/ Forget(w)
        PROVE  DiskInv'
    BY <1>2, EnsureSpaceInv, CreateInv, CreateFailsInv, WriteInv, ClosedInv, RenameInv,
       AbandonInv, NoteInv, StatInv, DoneInv, ForgetInv DEF Put, Look
  <1>3. ASSUME NEW w \in Workers, NEW k \in Keys, Open(w, k) \/ Unlink(w, k)
        PROVE  DiskInv'
    BY <1>3, OpenInv, UnlinkInv
  <1> QED
    BY <1>1, <1>2, <1>3, StartPutInv, RestartInv DEF Next

LEMMA BudgetFixed == ASSUME [Next]_vars PROVE UNCHANGED budget
  <1>1. CASE UNCHANGED vars
    BY <1>1 DEF vars, disk
  <1>2. ASSUME NEW w \in Workers, Put(w) PROVE UNCHANGED budget
    BY <1>2 DEF Put, EnsureSpace, Create, CreateFails, Write, Close, PutFails, Rename, Abandon,
                Note, Evict, CloseFile, Reclaim, disk
  <1>3. ASSUME NEW w \in Workers, Look(w) \/ Forget(w) PROVE UNCHANGED budget
    BY <1>3 DEF Look, Stat, Done, Forget, CloseFile, Reclaim, disk
  <1>4. ASSUME NEW w \in Workers, NEW k \in Keys,
               Open(w, k) \/ Unlink(w, k) \/ \E v \in Versions : StartPut(w, k, v)
        PROVE  UNCHANGED budget
    BY <1>4 DEF Open, Unlink, StartPut, Reclaim, disk
  <1>5. CASE Restart
    BY <1>5 DEF Restart, Reclaim
  <1> QED BY <1>1, <1>2, <1>3, <1>4, <1>5 DEF Next

(* The inductive invariant, for any callers.                               *)
THEOREM DiskInvariance == Spec => []DiskInv
  <1>1. Init => DiskInv
    BY DiskInit
  <1>2. DiskInv /\ [Next]_vars => DiskInv'
    BY DiskStep
  <1> QED BY <1>1, <1>2, PTL DEF Spec

(* Whatever fails, is evicted, deleted or restarted, whatever the budget   *)
(* and however many puts run: what is installed is the whole of a version, *)
(* unless the put that installed it met another put of its key between     *)
(* creating and renaming key.tmp (cache.go:298-348).                       *)
THEOREM InstalledIsWhole == Spec => []WholeUnlessCrowded
  <1>1. DiskInv => WholeUnlessCrowded
    BY DEF DiskInv
  <1> QED BY DiskInvariance, <1>1, PTL

-----------------------------------------------------------------------------
(* The cache implements AtomicCache.                                       *)

Simulated == Promise!Next \/ UNCHANGED Promise!vars

(* What the promise speaks about.                                          *)
Contents == [k \in Keys |-> Holding(k)]
Puts     == [w \in Workers |-> InProgress(w)]
Readers  == [w \in Workers |-> Reading(w)]

(* Something in progress is not nothing.                                   *)
LEMMA PutIsNotNone ==
    ASSUME NEW k, NEW o
    PROVE  [key |-> k, object |-> o] # <<>>
  <1>1. DOMAIN [key |-> k, object |-> o] = {"key", "object"} /\ DOMAIN <<>> = {}
    OBVIOUS
  <1> QED BY <1>1

(* Steps that lose no name and open no file keep what is installed and     *)
(* what is read.                                                           *)
LEMMA FadedContents ==
    ASSUME DiskInv, Shape', Fading
    PROVE  /\ Contents' = [k \in Keys |-> IF dir'[Object(k)] = NoInode THEN <<>> ELSE Holding(k)]
           /\ Readers' = [w \in Workers |-> IF pc'[w] \in {"stat", "reading"}
                                            THEN Reading(w) ELSE <<>>]
  <1>1. ASSUME NEW k \in Keys
        PROVE  Holding(k)' = IF dir'[Object(k)] = NoInode THEN <<>> ELSE Holding(k)
    BY Names DEF Fading, Holding
  <1>2. ASSUME NEW w \in Workers
        PROVE  Reading(w)' = IF pc'[w] \in {"stat", "reading"} THEN Reading(w) ELSE <<>>
    BY DEF Fading, Reading, Busy
  <1> QED BY <1>1, <1>2 DEF Contents, Readers

LEMMA PromisedVars ==
    /\ UNCHANGED <<Contents, Puts, Readers>> => UNCHANGED Promise!vars
    /\ Promise!Init <=> /\ Contents = [k \in Keys |-> <<>>]
                        /\ Puts = [w \in Workers |-> <<>>]
                        /\ Readers = [w \in Workers |-> <<>>]
  BY DEF Promise!vars, Promise!Init, Contents, Puts, Readers

(* A step of w that loses the objects of some keys, and may give up a put  *)
(* or end a lookup, is a step of the promise.                              *)
LEMMA LossSimulated ==
    ASSUME DiskInv, Shape', Fading, NEW w \in Workers,
           \A x \in Workers \ {w} : InProgress(x)' = InProgress(x) /\ Reading(x)' = Reading(x),
           \/ InProgress(w)' = InProgress(w) /\ Reading(w)' = Reading(w)
           \/ InProgress(w)' = <<>> /\ InProgress(w) # <<>> /\ Reading(w)' = Reading(w)
           \/ InProgress(w)' = InProgress(w) /\ Reading(w)' = <<>> /\ Contents' = Contents
    PROVE  Simulated
  <1> DEFINE gone == {k \in Keys : dir'[Object(k)] = NoInode}
  <1>1. Contents' = [k \in Keys |-> IF k \in gone THEN <<>> ELSE Contents[k]]
    BY FadedContents DEF Contents
  <1> HIDE DEF gone
  <1>2. gone \in SUBSET Keys
    BY DEF gone
  <1>3. CASE InProgress(w)' = InProgress(w) /\ Reading(w)' = Reading(w)
    <2>1. Puts' = Puts /\ Readers' = Readers
      BY <1>3 DEF Puts, Readers
    <2>2. Promise!Remove(gone)
      BY <1>1, <2>1 DEF Promise!Remove, Contents, Puts, Readers
    <2> QED BY <1>2, <2>2 DEF Simulated, Promise!Next
  <1>4. CASE InProgress(w)' = <<>> /\ InProgress(w) # <<>> /\ Reading(w)' = Reading(w)
    <2>1. Puts' = [Puts EXCEPT ![w] = <<>>] /\ Puts[w] # <<>> /\ Readers' = Readers
      BY <1>4 DEF Puts, Readers
    <2>2. Promise!GiveUp(w, gone)
      BY <1>1, <2>1 DEF Promise!GiveUp, Contents, Puts, Readers
    <2> QED BY <1>2, <2>2 DEF Simulated, Promise!Next
  <1>5. CASE InProgress(w)' = InProgress(w) /\ Reading(w)' = <<>> /\ Contents' = Contents
    <2>1. Readers' = [Readers EXCEPT ![w] = <<>>] /\ Puts' = Puts
      BY <1>5 DEF Puts, Readers
    <2>2. Promise!Done(w)
      BY <1>5, <2>1 DEF Promise!Done, Contents, Puts, Readers
    <2> QED BY <2>2 DEF Simulated, Promise!Next
  <1> QED BY <1>3, <1>4, <1>5

LEMMA UntouchedContents ==
    ASSUME Untouched
    PROVE  Contents' = Contents /\ Readers' = Readers
  <1>1. \A k \in Keys : Holding(k)' = Holding(k)
    BY DEF Untouched, Holding
  <1>2. \A w \in Workers : Reading(w)' = Reading(w)
    BY DEF Untouched, Reading
  <1> QED BY <1>1, <1>2 DEF Contents, Readers

(* Lookups, deletes, and the steps of a put that neither write nor install.*)
LEMMA FadingSimulated ==
    ASSUME DiskInv, DiskInv', Fading, NEW w \in Workers,
           \/ EnsureSpace(w) \/ CreateFails(w) \/ Close(w) \/ PutFails(w) \/ Abandon(w)
           \/ Note(w) \/ Stat(w) \/ Done(w) \/ Forget(w) \/ (\E k \in Keys : Unlink(w, k))
           \/ Rename(w) /\ dir[Temp(target[w])] = NoInode
    PROVE  Simulated
  <1> USE DEF InProgress
  <1>1. Shape /\ Shape'
    BY DEF DiskInv
  <1>2. \A x \in Workers : Reading(x)' = IF pc'[x] \in {"stat", "reading"} THEN Reading(x) ELSE <<>>
    BY <1>1, FadedContents DEF Readers
  <1>3. ASSUME NEW from \in Locations, NEW to \in Locations, pc[w] = from,
               pc' = [pc EXCEPT ![w] = to], crowded' \in {crowded, crowded \ {w}},
               \A x \in Workers \ {w} : target'[x] = target[x] /\ version'[x] = version[x]
        PROVE  /\ \A x \in Workers \ {w} : InProgress(x)' = InProgress(x) /\ Reading(x)' = Reading(x)
               /\ pc'[w] = to
    <2>1. pc'[w] = to /\ \A x \in Workers \ {w} : pc'[x] = pc[x]
      BY <1>1, <1>3 DEF Shape
    <2>2. \A x \in Workers \ {w} : Reading(x)' = Reading(x)
      BY <1>2, <2>1 DEF Reading
    <2> QED BY <1>3, <2>1, <2>2
  <1>4. CASE EnsureSpace(w)
    <2>1. PICK victims : /\ Evict(victims)
                         /\ \/ Goto(w, "space", "create") /\ UNCHANGED <<offset, mixing>>
                            \/ End(w, "space") /\ UNCHANGED suspect
      BY <1>4, SpaceShape
    <2>2. CASE Goto(w, "space", "create") /\ UNCHANGED <<offset, mixing>>
      BY <1>1, <1>2, <1>3, <2>2, LossSimulated DEF Goto, Locations, Reading, mixing
    <2>3. CASE End(w, "space")
      BY <1>1, <1>2, <1>3, <2>3, LossSimulated, PutIsNotNone DEF End, Locations, Reading, Shape
    <2> QED BY <2>1, <2>2, <2>3
  <1>5. CASE Close(w)
    BY <1>1, <1>2, <1>3, <1>5, LossSimulated DEF Close, Goto, Locations, Reading
  <1>6. CASE PutFails(w)
    BY <1>1, <1>2, <1>3, <1>6, LossSimulated, PutIsNotNone DEF PutFails, Goto, Locations, Reading
  <1>7. CASE Abandon(w)
    BY <1>1, <1>2, <1>3, <1>7, LossSimulated DEF Abandon, End, Locations, Reading, Shape
  <1>8. CASE Note(w)
    BY <1>1, <1>2, <1>3, <1>8, LossSimulated DEF Note, End, Locations, Reading, Shape
  <1>9. CASE Stat(w)
    BY <1>1, <1>2, <1>3, <1>9, LossSimulated DEF Stat, Goto, Locations, Reading, mixing
  <1>10. CASE Done(w)
    <2>1. pc[w] = "reading" /\ pc' = [pc EXCEPT ![w] = "idle"] /\ dir' = dir
          /\ crowded' = crowded \ {w}
          /\ \A x \in Workers \ {w} : target'[x] = target[x] /\ version'[x] = version[x]
      BY <1>1, <1>10 DEF Done, End, CloseFile, Shape
    <2>2. Contents' = Contents
      BY <1>1, <2>1, FadedContents DEF Contents, Holding
    <2> QED BY <1>1, <1>2, <1>3, <2>1, <2>2, LossSimulated DEF Locations
  <1>11. CASE Forget(w)
    BY <1>1, <1>2, <1>3, <1>11, LossSimulated DEF Forget, End, Locations, Reading, Shape
  <1>12. CASE \E k \in Keys : Unlink(w, k)
    <2>1. /\ pc[w] = "idle" /\ pc' = [pc EXCEPT ![w] = "forget"] /\ crowded' = crowded
          /\ \A x \in Workers \ {w} : target'[x] = target[x] /\ version'[x] = version[x]
      BY <1>1, <1>12 DEF Unlink, Begin, Shape, mixing
    <2>2. InProgress(w)' = InProgress(w) /\ Reading(w)' = Reading(w)
      BY <1>1, <1>2, <1>3, <2>1 DEF Locations, Reading
    <2> QED BY <1>1, <1>3, <2>1, <2>2, LossSimulated DEF Locations
  <1>13. CASE Rename(w) /\ dir[Temp(target[w])] = NoInode
    BY <1>1, <1>2, <1>3, <1>13, LossSimulated, PutIsNotNone DEF Rename, Goto, Locations, Reading
  <1>14. CASE CreateFails(w)
    <2>1. CASE End(w, "create")
      BY <1>1, <1>2, <1>3, <2>1, LossSimulated, PutIsNotNone DEF End, Locations, Reading, Shape
    <2>2. CASE Goto(w, "create", "abandon") /\ UNCHANGED <<offset, crowded>>
      BY <1>1, <1>2, <1>3, <2>2, LossSimulated, PutIsNotNone DEF Goto, Locations, Reading
    <2> QED BY <1>14, <2>1, <2>2 DEF CreateFails
  <1> QED BY <1>4, <1>5, <1>6, <1>7, <1>8, <1>9, <1>10, <1>11, <1>12, <1>13, <1>14

LEMMA StartPutSimulated ==
    ASSUME DiskInv, DiskInv', Fading, NEW w \in Workers, NEW k \in Keys, NEW v \in Versions,
           StartPut(w, k, v)
    PROVE  Simulated
  <1>1. /\ pc[w] = "idle" /\ pc'[w] = "space" /\ target'[w] = k /\ version'[w] = v
        /\ UNCHANGED <<files, dir, fd, crowded, suspect>> /\ w \notin crowded
        /\ \A x \in Workers \ {w} : /\ pc'[x] = pc[x] /\ target'[x] = target[x]
                                    /\ version'[x] = version[x]
    BY DEF StartPut, Begin, DiskInv, Shape, Met, Fresh, disk, mixing
  <1>2. Contents' = Contents
    BY <1>1 DEF Contents, Holding
  <1>3. \A x \in Workers : Reading(x)' = Reading(x)
    BY <1>1 DEF Reading
  <1>4. Puts' = [Puts EXCEPT ![w] = [key |-> k, object |-> Whole(v)]] /\ Puts[w] = <<>>
    BY <1>1 DEF Puts, InProgress
  <1>5. Promise!StartPut(w, k, Whole(v))
    BY <1>2, <1>3, <1>4 DEF Promise!StartPut, Contents, Puts, Readers
  <1> QED BY <1>5 DEF Simulated, Promise!Next

LEMMA OpenSimulated ==
    ASSUME DiskInv, DiskInv', NEW w \in Workers, NEW k \in Keys, Open(w, k)
    PROVE  Simulated
  <1>1. /\ pc[w] = "idle" /\ pc'[w] = "stat" /\ fd'[w] = dir[Object(k)]
        /\ dir[Object(k)] # NoInode /\ UNCHANGED <<files, dir, suspect>>
        /\ crowded' = IF k \in suspect THEN crowded \cup {w} ELSE crowded
        /\ w \notin crowded
        /\ \A x \in Workers \ {w} : /\ pc'[x] = pc[x] /\ target'[x] = target[x]
                                    /\ version'[x] = version[x] /\ fd'[x] = fd[x]
    BY DEF Open, Begin, DiskInv, Shape, Met, Fresh, disk
  <1>2. Contents' = Contents /\ Contents[k] = Holding(k) /\ Contents[k] # <<>>
    <2>1. k \notin suspect => files[dir[Object(k)]] # <<>>
      BY <1>1, WholeLength DEF DiskInv, WholeUnlessCrowded
    <2>2. Mixed # <<>>
      BY DEF Mixed
    <2> QED BY <1>1, <2>1, <2>2 DEF Contents, Holding
  <1>3. Puts' = Puts
    BY <1>1 DEF Puts, InProgress
  <1>4. Readers' = [Readers EXCEPT ![w] = Holding(k)] /\ Readers[w] = <<>>
    <2>1. Reading(w)' = Holding(k) /\ Reading(w) = <<>>
      BY <1>1 DEF Reading, Holding
    <2>2. \A x \in Workers \ {w} : Reading(x)' = Reading(x)
      BY <1>1 DEF Reading
    <2> QED BY <2>1, <2>2 DEF Readers
  <1>5. Promise!Open(w, k)
    BY <1>2, <1>3, <1>4 DEF Promise!Open, Contents, Puts, Readers
  <1> QED BY <1>5 DEF Simulated, Promise!Next

LEMMA WriteSimulated ==
    ASSUME DiskInv, Untouched, NEW w \in Workers, Write(w)
    PROVE  Simulated
  <1>1. /\ UNCHANGED <<target, version, crowded>> /\ \A x \in Workers : pc'[x] = pc[x]
    BY DEF Write, Goto, DiskInv, Shape, mixing
  <1>2. Puts' = Puts
    BY <1>1 DEF Puts, InProgress
  <1> QED BY <1>2, UntouchedContents, PromisedVars DEF Simulated

(* Creating key.tmp is where puts meet.                                    *)
LEMMA CreateSimulated ==
    ASSUME DiskInv, Untouched, NEW w \in Workers, Create(w)
    PROVE  Simulated
  <1> DEFINE k    == target[w]
             meet == Rivals(w) \cup {w}
  <1>1. /\ UNCHANGED <<target, version>> /\ \A x \in Workers \ {w} : pc'[x] = pc[x]
        /\ pc[w] = "create" /\ pc'[w] = "write" /\ k \in Keys
        /\ crowded' = IF Rivals(w) = {} THEN crowded ELSE crowded \cup meet
    BY DEF Create, Goto, DiskInv, Shape
  <1>2. CASE Rivals(w) = {}
    <2>1. Puts' = Puts
      BY <1>1, <1>2 DEF Puts, InProgress
    <2> QED BY <2>1, UntouchedContents, PromisedVars DEF Simulated
  <1>3. CASE Rivals(w) # {}
    <2>1. /\ meet \in SUBSET Workers
          /\ \E x, y \in meet : x # y
          /\ \A x \in meet : target[x] = k /\ pc[x] \in {"create", "write", "rename"}
      BY <1>1, <1>3 DEF Rivals, Filling
    <2> HIDE DEF meet
    <2>2. ASSUME NEW x \in meet
          PROVE  /\ Puts[x] # <<>> /\ Puts[x].key = k
                 /\ InProgress(x)' = [key |-> k, object |-> Mixed]
      <3>1. InProgress(x) = [key |-> k, object |-> IF x \in crowded THEN Mixed
                                                   ELSE Whole(version[x])]
        BY <2>1 DEF InProgress
      <3>2. Puts[x] = InProgress(x)
        BY <2>1 DEF Puts
      <3>3. pc'[x] \in {"write", "create", "rename"} /\ x \in crowded'
        BY <1>1, <1>3, <2>1
      <3> QED BY <1>1, <2>1, <3>1, <3>2, <3>3, PutIsNotNone DEF InProgress
    <2>3. ASSUME NEW x \in Workers \ meet PROVE InProgress(x)' = InProgress(x)
      BY <1>1, <1>3, <2>3 DEF InProgress, meet
    <2>4. Puts' = [x \in Workers |->
                      IF x \in meet THEN [key |-> k, object |-> Mixed] ELSE Puts[x]]
      BY <2>2, <2>3 DEF Puts
    <2>5. Contents' = Contents /\ Readers' = Readers
      BY UntouchedContents
    <2>6. Promise!Meet(k, meet)
      BY <2>1, <2>2, <2>4, <2>5 DEF Promise!Meet, Contents, Puts, Readers
    <2> QED BY <1>1, <2>1, <2>6 DEF Simulated, Promise!Next
  <1> QED BY <1>2, <1>3

(* A rename that finds key.tmp installs what the put was given, or what    *)
(* the puts that met left there.                                           *)
LEMMA RenameSimulated ==
    ASSUME DiskInv, DiskInv', NEW w \in Workers, Rename(w), dir[Temp(target[w])] # NoInode
    PROVE  Simulated
  <1> DEFINE tmp == Temp(target[w])
             obj == Object(target[w])
             put == IF w \in crowded THEN Mixed ELSE Whole(version[w])
  <1>1. /\ pc[w] = "rename" /\ pc'[w] = "note" /\ Reclaim
        /\ dir' = [dir EXCEPT ![obj] = dir[tmp], ![tmp] = NoInode]
        /\ UNCHANGED <<target, version, fd, crowded>>
        /\ \A x \in Workers \ {w} : pc'[x] = pc[x]
        /\ suspect' = IF w \in crowded THEN suspect \cup {target[w]} ELSE suspect \ {target[w]}
    BY DEF Rename, Goto, DiskInv, Shape
  <1>2. target[w] \in Keys /\ tmp \in Paths /\ obj \in Paths /\ tmp # obj /\ dir[tmp] \in Inodes
    BY Names DEF DiskInv, Shape
  <1>3. dir'[obj] = dir[tmp] /\ \A p \in Paths \ {obj, tmp} : dir'[p] = dir[p]
    BY <1>1, <1>2 DEF DiskInv, Shape
  <1>4. w \notin crowded => files[dir[tmp]] = Whole(version[w])
    BY <1>1 DEF DiskInv, Written
  <1>5. Contents' = [Contents EXCEPT ![target[w]] = put]
    <2>1. Holding(target[w])' = put
      <3>1. dir'[obj] \in Inodes /\ dir'[obj] # NoInode
        BY <1>2, <1>3, Names
      <3>2. w \notin crowded => files'[dir'[obj]] = Whole(version[w])
        BY <1>1, <1>2, <1>3, <1>4, <3>1, ReclaimKeeps
      <3>3. target[w] \in suspect' <=> w \in crowded
        BY <1>1
      <3> QED BY <1>1, <3>1, <3>2, <3>3 DEF Holding
    <2>2. ASSUME NEW k \in Keys \ {target[w]} PROVE Holding(k)' = Holding(k)
      <3>1. Object(k) \in Paths \ {obj, tmp}
        BY <1>2, Names
      <3>2. dir'[Object(k)] = dir[Object(k)] /\ dir[Object(k)] \in Inodes \cup {NoInode}
        BY <1>3, <3>1 DEF DiskInv, Shape
      <3>3. dir'[Object(k)] # NoInode => files'[dir'[Object(k)]] = files[dir[Object(k)]]
        BY <1>1, <3>1, <3>2, ReclaimKeeps
      <3>4. k \in suspect' <=> k \in suspect
        BY <1>1
      <3> QED BY <3>2, <3>3, <3>4 DEF Holding
    <2>3. \A k \in Keys : Holding(k)' = IF k = target[w] THEN put ELSE Holding(k)
      BY <1>1, <1>2, <2>1, <2>2
    <2> QED BY <1>2, <2>3 DEF Contents
  <1>6. Readers' = Readers
    <2> SUFFICES ASSUME NEW x \in Workers PROVE Reading(x)' = Reading(x)
      BY DEF Readers
    <2>1. pc'[x] \in {"stat", "reading"} <=> pc[x] \in {"stat", "reading"}
      BY <1>1
    <2>2. pc[x] \in {"stat", "reading"} => fd'[x] = fd[x] /\ fd[x] \in Inodes
      BY <1>1 DEF DiskInv, Shape, Descriptors
    <2> QED BY <1>1, <2>1, <2>2, ReclaimKeeps DEF Reading
  <1>7. /\ Puts' = [Puts EXCEPT ![w] = <<>>] /\ Puts[w] # <<>>
        /\ Puts[w] = [key |-> target[w], object |-> put]
    BY <1>1, PutIsNotNone DEF Puts, InProgress
  <1>8. Promise!Install(w)
    <2>1. Puts[w].key = target[w] /\ Puts[w].object = put
      BY <1>7
    <2>2. Contents' = [Contents EXCEPT ![Puts[w].key] = Puts[w].object]
      BY <1>5, <2>1
    <2> QED BY <1>6, <1>7, <2>2 DEF Promise!Install, Contents, Puts, Readers
  <1> QED BY <1>8 DEF Simulated, Promise!Next

LEMMA RestartSimulated ==
    ASSUME DiskInv, DiskInv', Fading, Restart
    PROVE  Simulated
  <1>1. dir' = dir /\ \A x \in Workers : pc'[x] = "idle"
    BY DEF Restart
  <1>2. Contents' = Contents /\ Readers' = [x \in Workers |-> <<>>]
    BY <1>1, FadedContents DEF DiskInv, Contents, Holding
  <1>3. Puts' = [x \in Workers |-> <<>>]
    BY <1>1 DEF Puts, InProgress
  <1>4. Promise!Restart
    BY <1>2, <1>3 DEF Promise!Restart, Contents, Puts, Readers
  <1> QED BY <1>4 DEF Simulated, Promise!Next

LEMMA DiskPromised ==
    ASSUME DiskInv, DiskInv', [Next]_vars
    PROVE  Simulated
  <1>1. CASE UNCHANGED vars
    <2>1. UNCHANGED <<files, dir, pc, target, version, fd, crowded, suspect>>
      BY <1>1 DEF vars, disk, worker, mixing
    <2>2. UNCHANGED <<Contents, Puts, Readers>>
      BY <2>1 DEF Contents, Puts, Readers, Holding, InProgress, Reading
    <2> QED BY <2>2, PromisedVars DEF Simulated
  <1>2. ASSUME NEW w \in Workers, Put(w) \/ Look(w) \/ Forget(w)
        PROVE  Simulated
    <2>1. CASE EnsureSpace(w) \/ CreateFails(w) \/ Close(w) \/ PutFails(w) \/ Abandon(w)
               \/ Note(w) \/ Stat(w) \/ Done(w) \/ Forget(w)
      BY <2>1, FadingSimulated, EnsureSpaceInv, CreateFailsInv, ClosedInv, AbandonInv, NoteInv,
         StatInv, DoneInv, ForgetInv
    <2>2. CASE Create(w) \/ Write(w)
      BY <2>2, CreateSimulated, WriteSimulated, CreateInv, WriteInv
    <2>3. CASE Rename(w)
      BY <2>3, RenameSimulated, FadingSimulated, RenameInv
    <2> QED BY <1>2, <2>1, <2>2, <2>3 DEF Put, Look
  <1>3. ASSUME NEW w \in Workers, NEW k \in Keys, Open(w, k) \/ Unlink(w, k)
        PROVE  Simulated
    BY <1>3, OpenSimulated, UnlinkInv, FadingSimulated
  <1>4. ASSUME NEW w \in Workers, NEW k \in Keys, NEW v \in Versions, StartPut(w, k, v)
        PROVE  Simulated
    BY <1>4, StartPutInv, StartPutSimulated
  <1>5. CASE Restart
    BY <1>5, RestartInv, RestartSimulated
  <1> QED BY <1>1, <1>2, <1>3, <1>4, <1>5 DEF Next

(* Under whatever goes on in the files, a key holds a whole object or      *)
(* nothing, a put installs at one instant what it was given or nothing,    *)
(* and a reader keeps what it opened (cache.go:190-349).  Any callers; what*)
(* puts of one key that met install is damaged, and nothing else is.       *)
THEOREM DiskImplements == Spec => ImplementsPromise
  <1>1. Init => Promise!Init
    <2> SUFFICES ASSUME Init PROVE Promise!Init
      OBVIOUS
    <2>1. /\ \A k \in Keys : Holding(k) = <<>>
          /\ \A w \in Workers : InProgress(w) = <<>> /\ Reading(w) = <<>>
      BY Names DEF Init, Holding, InProgress, Reading
    <2> QED BY <2>1, PromisedVars DEF Contents, Puts, Readers
  <1>2. DiskInv /\ DiskInv' /\ [Next]_vars => [Promise!Next]_(Promise!vars)
    BY DiskPromised DEF Simulated
  <1> QED
    BY <1>1, <1>2, DiskInvariance, PTL DEF Spec, ImplementsPromise, Promise!Spec
=============================================================================
