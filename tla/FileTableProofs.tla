--------------------------- MODULE FileTableProofs ---------------------------
(***************************************************************************)
(* Proofs about FileTable, for any number of processes, pipes and          *)
(* descriptors and any file mappings.  The inductive invariant IInv counts *)
(* the handles of every pipe side and ties the counter and the             *)
(* availability of the side to them; one lemma per action shows that the   *)
(* files a call drops or clones are exactly the handles it removes or      *)
(* adds.  That descriptors are free when the next file is pushed needs a   *)
(* second invariant, NextIsFree, and callers that map files to standard    *)
(* descriptors.                                                            *)
(***************************************************************************)
EXTENDS FileTable, FiniteSetTheorems, TLAPS

\* A descriptor table, and what a blocking read holds.
Tables == UNION {[S -> File] : S \in SUBSET (0 .. MaxFd)}
Held == [fd : 0 .. MaxFd, file : File]

\* The types the proofs need beyond TypeOK: the tables are functions, and the
\* histories of a pipe are sequences of bytes.
Shapes ==
    /\ table \in [Pids -> Tables]
    /\ hand \in [Pids -> {NoRead} \cup Held]
    /\ next_id \in [Pids -> 0 .. MaxFd + 1]
    /\ state \in [Pids -> {"unborn", "ready", "reading", "exited", "gone"}]
    /\ clones \in [Sides -> Nat]
    /\ available \in [Sides -> BOOLEAN]
    /\ buffer \in [Pipes -> Seq(Bytes)]
    /\ sent \in [Pipes -> Seq(Bytes)]
    /\ received \in [Pipes -> Seq(Bytes)]
    /\ panicked \in BOOLEAN

\* A blocking read holds a file whose descriptor is free, a process that can enter
\* a system call holds none, and a process that is not there has no files at all.
HandsAreRight ==
    \A p \in Pids :
        /\ state[p] = "reading" => hand[p] # NoRead /\ ~Opened(p, hand[p].fd)
        /\ hand[p] # NoRead => state[p] \in {"reading", "gone"}
        /\ state[p] = "unborn" => DOMAIN table[p] = {}

\* PipeSide.clones counts the handles.
Counted == \A s \in Sides : clones[s] = Cardinality(HandlesOf(s))

\* A side of a pipe is available as long as somebody has a handle on it.
AvailableIsRight == \A s \in Sides : available[s] <=> clones[s] > 0

\* The inductive invariant.
IInv == Shapes /\ HandsAreRight /\ Counted /\ AvailableIsRight
------------------------------------------------------------------------------
(***************************************************************************)
(* Counting handles.                                                       *)
(***************************************************************************)
\* A side has finitely many handles, each in a table or in a hand.
LEMMA HandlesFinite ==
    \A s : /\ IsFiniteSet(HandlesOf(s)) /\ IsFiniteSet(InTable(s)) /\ IsFiniteSet(InHand(s))
           /\ InTable(s) \cap InHand(s) = {}
  <1>. TAKE s
  <1>1. IsFiniteSet(0 .. MaxFd) /\ IsFiniteSet({MaxFd + 1})
    <2>1. 0 \in Int /\ MaxFd \in Int
      BY FileTableAssumptions
    <2>. QED BY <2>1, FS_Interval, FS_Singleton, Zenon
  <1>2. IsFiniteSet(Pids \X (0 .. MaxFd)) /\ IsFiniteSet(Pids \X {MaxFd + 1})
    BY <1>1, FS_Product, FileTableAssumptions, Zenon
  <1>3. InTable(s) \subseteq Pids \X (0 .. MaxFd) /\ InHand(s) \subseteq Pids \X {MaxFd + 1}
    BY Zenon DEF InTable, InHand
  <1>4. IsFiniteSet(InTable(s)) /\ IsFiniteSet(InHand(s))
    BY <1>2, <1>3, FS_Subset, Zenon
  <1>5. InTable(s) \cap InHand(s) = {}
    BY FileTableAssumptions DEF InTable, InHand
  <1>. QED BY <1>4, <1>5, FS_Union, Zenon DEF HandlesOf

\* A set that loses some elements ...
LEMMA Remove ==
    ASSUME NEW H, NEW gone, IsFiniteSet(H), gone \subseteq H
    PROVE  /\ IsFiniteSet(H \ gone) /\ IsFiniteSet(gone)
           /\ Cardinality(H) \in Nat /\ Cardinality(gone) \in 0 .. Cardinality(H)
           /\ Cardinality(H \ gone) = Cardinality(H) - Cardinality(gone)
  <1>1. IsFiniteSet(gone) /\ Cardinality(gone) <= Cardinality(H)
    BY FS_Subset, Zenon
  <1>2. H \cap gone = gone
    BY Zenon
  <1>3. IsFiniteSet(H \ gone) /\ Cardinality(H \ gone) = Cardinality(H) - Cardinality(gone)
    BY <1>2, FS_Difference, Zenon
  <1>4. Cardinality(H) \in Nat /\ Cardinality(gone) \in Nat
    BY <1>1, FS_CardinalityType, Zenon
  <1>. QED BY <1>1, <1>3, <1>4

\* Nothing in common.
Disjoint(S, T) == S \cap T = {}

\* ... and gets some new ones.
LEMMA Exchange ==
    ASSUME NEW H, NEW gone, NEW new, IsFiniteSet(H), IsFiniteSet(new),
           gone \in SUBSET H, Disjoint(new, H \ gone)
    PROVE  /\ IsFiniteSet((H \ gone) \cup new) /\ Cardinality(new) \in Nat
           /\ Cardinality((H \ gone) \cup new) = Cardinality(H) - Cardinality(gone) + Cardinality(new)
  <1>1. /\ IsFiniteSet(H \ gone) /\ Cardinality(H) \in Nat /\ Cardinality(gone) \in Nat
        /\ Cardinality(H \ gone) = Cardinality(H) - Cardinality(gone)
    BY Remove, Zenon
  <1>2. Cardinality((H \ gone) \cap new) = 0
    <2>1. (H \ gone) \cap new = {}
      BY Zenon DEF Disjoint
    <2>. QED BY <2>1, FS_EmptySet, Zenon
  <1>3. /\ IsFiniteSet((H \ gone) \cup new)
        /\ Cardinality((H \ gone) \cup new) =
             Cardinality(H \ gone) + Cardinality(new) - Cardinality((H \ gone) \cap new)
    BY <1>1, FS_Union, Zenon
  <1>4. Cardinality(new) \in Nat
    BY FS_CardinalityType, Zenon
  <1>. QED BY <1>1, <1>2, <1>3, <1>4

\* Two sets of handles that have none in common.
LEMMA Together ==
    ASSUME NEW S, NEW T, IsFiniteSet(S), IsFiniteSet(T), Disjoint(S, T)
    PROVE  /\ IsFiniteSet(S \cup T) /\ Cardinality(S) \in Nat /\ Cardinality(T) \in Nat
           /\ Cardinality(S \cup T) = Cardinality(S) + Cardinality(T)
  <1>1. Cardinality(S \cap T) = 0
    BY FS_EmptySet, Zenon DEF Disjoint
  <1>2. /\ IsFiniteSet(S \cup T)
        /\ Cardinality(S \cup T) = Cardinality(S) + Cardinality(T) - Cardinality(S \cap T)
    BY FS_Union, Zenon
  <1>3. Cardinality(S) \in Nat /\ Cardinality(T) \in Nat
    BY FS_CardinalityType, Zenon
  <1>. QED BY <1>1, <1>2, <1>3

\* A one-to-one correspondence between two sets of handles.
LEMMA SameSize ==
    ASSUME NEW S, NEW T, IsFiniteSet(S), NEW f \in [S -> T],
           \A x, y \in S : f[x] = f[y] => x = y,
           \A z \in T : \E x \in S : f[x] = z
    PROVE  IsFiniteSet(T) /\ Cardinality(T) = Cardinality(S)
  <1>1. f \in Bijection(S, T)
    BY Zenon DEF Bijection, Injection, Surjection, IsInjective
  <1>. QED BY <1>1, FS_Bijection, Zenon DEF ExistsBijection

\* The descriptors of a table t that are of side s, and the place of the file that a
\* blocking read h holds, if it is of side s.
FdsOf(t, s) == {fd \in DOMAIN t : t[fd].dev = s}
HandOf(h, s) == IF h # NoRead /\ h.file.dev = s THEN {MaxFd + 1} ELSE {}
\* All files of one process, and of all processes, on side s.
Mine(t, h, s) == FdsOf(t, s) \cup HandOf(h, s)
All(tb, hd, s) == {x \in Pids \X (0 .. MaxFd + 1) : x[2] \in Mine(tb[x[1]], hd[x[1]], s)}

\* The handles of a side, process by process.
LEMMA HandlesAreAll ==
    ASSUME table \in [Pids -> Tables]
    PROVE  \A s : HandlesOf(s) = All(table, hand, s)
  <1>. TAKE s
  <1>1. \A p \in Pids : DOMAIN table[p] \subseteq 0 .. MaxFd
    BY DEF Tables
  <1>2. \A fd : fd \in 0 .. MaxFd + 1 <=> fd \in 0 .. MaxFd \/ fd = MaxFd + 1
    BY FileTableAssumptions
  <1>3. MaxFd + 1 \notin 0 .. MaxFd
    BY FileTableAssumptions
  <1>4. HandlesOf(s) \subseteq All(table, hand, s)
    BY <1>1, <1>2, <1>3, Zenon DEF HandlesOf, InTable, InHand, Opened, All, Mine, FdsOf, HandOf
  <1>5. All(table, hand, s) \subseteq HandlesOf(s)
    BY <1>1, <1>2, <1>3, Zenon DEF HandlesOf, InTable, InHand, Opened, All, Mine, FdsOf, HandOf
  <1>. QED BY <1>4, <1>5, Zenon

\* How many files a process has on a side.
LEMMA MineCounts ==
    ASSUME NEW t \in Tables, NEW h, NEW s
    PROVE  /\ IsFiniteSet(FdsOf(t, s)) /\ Cardinality(FdsOf(t, s)) \in Nat
           /\ IsFiniteSet(Mine(t, h, s)) /\ Mine(t, h, s) \subseteq 0 .. MaxFd + 1
           /\ Cardinality(Mine(t, h, s)) =
                Cardinality(FdsOf(t, s)) + (IF h # NoRead /\ h.file.dev = s THEN 1 ELSE 0)
  <1>1. FdsOf(t, s) \subseteq 0 .. MaxFd /\ HandOf(h, s) \subseteq {MaxFd + 1}
    BY Zenon DEF FdsOf, HandOf, Tables
  <1>2. IsFiniteSet(0 .. MaxFd)
    <2>1. 0 \in Int /\ MaxFd \in Int
      BY FileTableAssumptions
    <2>. QED BY <2>1, FS_Interval, Zenon
  <1>3. IsFiniteSet(FdsOf(t, s)) /\ Cardinality(FdsOf(t, s)) \in Nat
    BY <1>1, <1>2, FS_Subset, FS_CardinalityType, Zenon
  <1>4. MaxFd + 1 \notin FdsOf(t, s)
    BY <1>1, FileTableAssumptions
  <1>5. CASE h # NoRead /\ h.file.dev = s
    <2>1. Mine(t, h, s) = FdsOf(t, s) \cup {MaxFd + 1}
      BY <1>5, Zenon DEF Mine, HandOf
    <2>. QED BY <1>1, <1>3, <1>4, <1>5, <2>1, FS_AddElement, FileTableAssumptions
  <1>6. CASE ~(h # NoRead /\ h.file.dev = s)
    <2>1. Mine(t, h, s) = FdsOf(t, s)
      BY <1>6, Zenon DEF Mine, HandOf
    <2>. QED BY <1>1, <1>3, <1>6, <2>1, FileTableAssumptions
  <1>. QED BY <1>5, <1>6, Zenon

\* Adding and removing descriptors of a table.
LEMMA WithTable ==
    ASSUME NEW t \in Tables, NEW fd \in 0 .. MaxFd, NEW f \in File
    PROVE  /\ With(t, fd, f) \in Tables
           /\ DOMAIN With(t, fd, f) = DOMAIN t \cup {fd}
           /\ With(t, fd, f)[fd] = f
           /\ \A x \in DOMAIN t \ {fd} : With(t, fd, f)[x] = t[x]
  <1>1. PICK S \in SUBSET (0 .. MaxFd) : t \in [S -> File]
    BY Zenon DEF Tables
  <1>2. With(t, fd, f) \in [S \cup {fd} -> File]
    BY <1>1, Zenon DEF With
  <1>3. S \cup {fd} \in SUBSET (0 .. MaxFd)
    BY <1>1, Zenon
  <1>. QED BY <1>1, <1>2, <1>3, Zenon DEF With, Tables

\* take_fs_node leaves the other descriptors.
LEMMA WithoutTable ==
    ASSUME NEW t \in Tables, NEW fds
    PROVE  /\ Without(t, fds) \in Tables
           /\ DOMAIN Without(t, fds) = DOMAIN t \ fds
           /\ \A x \in DOMAIN t \ fds : Without(t, fds)[x] = t[x]
  <1>1. PICK S \in SUBSET (0 .. MaxFd) : t \in [S -> File]
    BY Zenon DEF Tables
  <1>2. Without(t, fds) \in [S \ fds -> File]
    BY <1>1, Zenon DEF Without
  <1>3. S \ fds \in SUBSET (0 .. MaxFd)
    BY <1>1, Zenon
  <1>. QED BY <1>1, <1>2, <1>3, Zenon DEF Without, Tables

\* Descriptors are small numbers and stand for files.
LEMMA TableFacts ==
    ASSUME NEW t \in Tables
    PROVE  /\ DOMAIN t \subseteq 0 .. MaxFd
           /\ \A fd \in DOMAIN t : t[fd] \in File
           /\ t \in [DOMAIN t -> File]
  BY Zenon DEF Tables

\* The table of a process that has no files.
LEMMA EmptyTable == Empty \in Tables /\ DOMAIN Empty = {}
  <1>1. {} \in SUBSET (0 .. MaxFd) /\ Empty \in [{} -> File]
    BY Zenon DEF Empty
  <1>2. [{} -> File] \in {[S -> File] : S \in SUBSET (0 .. MaxFd)}
    BY <1>1, Zenon
  <1>. QED BY <1>1, <1>2, Zenon DEF Tables, Empty

\* One file more, one file less.
One(f, s) == IF f.dev = s THEN 1 ELSE 0

\* A pushed file counts on its side.
LEMMA MineWith ==
    ASSUME NEW t \in Tables, NEW fd \in 0 .. MaxFd, fd \notin DOMAIN t, NEW f \in File, NEW h, NEW s
    PROVE  Cardinality(Mine(With(t, fd, f), h, s)) = Cardinality(Mine(t, h, s)) + One(f, s)
  <1>. DEFINE w == With(t, fd, f)
  <1>1. /\ w \in Tables /\ DOMAIN w = DOMAIN t \cup {fd}
        /\ w[fd] = f /\ \A x \in DOMAIN t \ {fd} : w[x] = t[x]
    BY WithTable
  <1>. HIDE DEF w
  <1>2. IsFiniteSet(FdsOf(t, s)) /\ Cardinality(FdsOf(t, s)) \in Nat /\ fd \notin FdsOf(t, s)
    BY MineCounts, Zenon DEF FdsOf
  <1>3. Cardinality(FdsOf(w, s)) = Cardinality(FdsOf(t, s)) + One(f, s)
    <2>1. CASE f.dev = s
      <3>1. FdsOf(w, s) = FdsOf(t, s) \cup {fd}
        BY <1>1, <2>1, Zenon DEF FdsOf
      <3>2. Cardinality(FdsOf(t, s) \cup {fd}) = Cardinality(FdsOf(t, s)) + 1
        BY <1>2, FS_AddElement, Zenon
      <3>. QED BY <2>1, <3>1, <3>2, Zenon DEF One
    <2>2. CASE f.dev # s
      <3>1. FdsOf(w, s) = FdsOf(t, s)
        BY <1>1, <2>2, Zenon DEF FdsOf
      <3>. QED BY <1>2, <2>2, <3>1 DEF One
    <2>. QED BY <2>1, <2>2, Zenon
  <1>4. /\ Cardinality(Mine(t, h, s)) =
             Cardinality(FdsOf(t, s)) + (IF h # NoRead /\ h.file.dev = s THEN 1 ELSE 0)
        /\ Cardinality(Mine(w, h, s)) =
             Cardinality(FdsOf(w, s)) + (IF h # NoRead /\ h.file.dev = s THEN 1 ELSE 0)
    BY <1>1, MineCounts, ZenonT(30)
  <1>. QED BY <1>2, <1>3, <1>4 DEF w, One

\* A file that is taken no longer counts.
LEMMA MineWithout ==
    ASSUME NEW t \in Tables, NEW fd \in DOMAIN t, NEW h, NEW s
    PROVE  /\ Cardinality(Mine(Without(t, {fd}), h, s)) = Cardinality(Mine(t, h, s)) - One(t[fd], s)
           /\ Cardinality(Mine(t, h, s)) \in Nat /\ One(t[fd], s) \in 0 .. Cardinality(Mine(t, h, s))
  <1>. DEFINE w == Without(t, {fd})
  <1>1. /\ w \in Tables /\ DOMAIN w = DOMAIN t \ {fd}
        /\ \A x \in DOMAIN t \ {fd} : w[x] = t[x]
    BY WithoutTable, Zenon
  <1>. HIDE DEF w
  <1>2. /\ IsFiniteSet(FdsOf(t, s)) /\ Cardinality(FdsOf(t, s)) \in Nat
        /\ Cardinality(FdsOf(w, s)) \in Nat
    BY <1>1, MineCounts, Zenon
  <1>3. Cardinality(FdsOf(w, s)) = Cardinality(FdsOf(t, s)) - One(t[fd], s)
    <2>1. CASE t[fd].dev = s
      <3>1. FdsOf(w, s) = FdsOf(t, s) \ {fd} /\ fd \in FdsOf(t, s)
        BY <1>1, <2>1, Zenon DEF FdsOf
      <3>2. Cardinality(FdsOf(t, s) \ {fd}) = Cardinality(FdsOf(t, s)) - 1
        BY <1>2, <3>1, FS_RemoveElement, Zenon
      <3>. QED BY <2>1, <3>1, <3>2, Zenon DEF One
    <2>2. CASE t[fd].dev # s
      <3>1. FdsOf(w, s) = FdsOf(t, s)
        BY <1>1, <2>2, Zenon DEF FdsOf
      <3>. QED BY <1>2, <2>2, <3>1 DEF One
    <2>. QED BY <2>1, <2>2, Zenon
  <1>4. /\ Cardinality(Mine(t, h, s)) =
             Cardinality(FdsOf(t, s)) + (IF h # NoRead /\ h.file.dev = s THEN 1 ELSE 0)
        /\ Cardinality(Mine(w, h, s)) =
             Cardinality(FdsOf(w, s)) + (IF h # NoRead /\ h.file.dev = s THEN 1 ELSE 0)
    BY <1>1, MineCounts, ZenonT(30)
  <1>5. One(t[fd], s) \in {0, 1} /\ Cardinality(FdsOf(t, s)) - One(t[fd], s) \in Nat
    BY <1>2, <1>3, Zenon DEF One
  <1>. QED BY <1>2, <1>3, <1>4, <1>5 DEF w

\* Dropping one file.
LEMMA OneFile ==
    ASSUME NEW k, NEW f, NEW s
    PROVE  Files({<<k, f>>}, s) = One(f, s)
  <1>1. CASE f.dev = s
    <2>1. {h \in {<<k, f>>} : h[2].dev = s} = {<<k, f>>}
      BY <1>1
    <2>. QED BY <1>1, <2>1, FS_Singleton, Zenon DEF Files, One
  <1>2. CASE f.dev # s
    <2>1. {h \in {<<k, f>>} : h[2].dev = s} = {}
      BY <1>2
    <2>. QED BY <1>2, <2>1, FS_EmptySet, Zenon DEF Files, One
  <1>. QED BY <1>1, <1>2, Zenon

\* A process and a descriptor that has a handle: the side's counter is not zero.
LEMMA HandleCounts ==
    ASSUME IInv, NEW s \in Sides, NEW h \in HandlesOf(s)
    PROVE  clones[s] > 0 /\ available[s]
  <1>1. clones[s] # 0
    BY HandlesFinite, FS_EmptySet, Zenon DEF IInv, Counted
  <1>2. clones[s] \in Nat
    BY Zenon DEF IInv, Shapes
  <1>. QED BY <1>1, <1>2 DEF IInv, AvailableIsRight

\* NoRead is no file, and the console is no side of a pipe.
LEMMA Distinct == NoRead \notin Held /\ Console \notin Sides
  BY FileTableAssumptions DEF NoRead, Held, Console, Sides
------------------------------------------------------------------------------
(***************************************************************************)
(* Steps, by what they do to the handles.                                  *)
(***************************************************************************)
\* The counters stay, and so does the number of handles on every side.
LEMMA SameHandles ==
    ASSUME IInv, clones' = clones, available' = available,
           \A s \in Sides : Cardinality(HandlesOf(s)') = Cardinality(HandlesOf(s))
    PROVE  Counted' /\ AvailableIsRight'
  BY Zenon DEF IInv, Counted, AvailableIsRight

\* Files are dropped, and the handles are that many fewer.
LEMMA DropHandles ==
    ASSUME IInv, NEW dropped, close(dropped),
           \A s \in Sides :
              /\ Files(dropped, s) \in 0 .. Cardinality(HandlesOf(s))
              /\ Cardinality(HandlesOf(s)') = Cardinality(HandlesOf(s)) - Files(dropped, s)
    PROVE  /\ Counted' /\ AvailableIsRight'
           /\ clones' \in [Sides -> Nat] /\ available' \in [Sides -> BOOLEAN]
  <1>1. ASSUME NEW s \in Sides
        PROVE  /\ Files(dropped, s) \in 0 .. clones[s] /\ clones[s] \in Nat
               /\ clones'[s] = clones[s] - Files(dropped, s)
               /\ available'[s] <=> available[s] /\ ~(Files(dropped, s) > 0 /\ clones[s] = Files(dropped, s))
               /\ Cardinality(HandlesOf(s)') = clones[s] - Files(dropped, s)
               /\ available[s] <=> clones[s] > 0
    <2>1. /\ clones[s] = Cardinality(HandlesOf(s)) /\ clones[s] \in Nat
          /\ available[s] <=> clones[s] > 0
      BY Zenon DEF IInv, Counted, AvailableIsRight, Shapes
    <2>2. /\ clones'[s] = clones[s] - Files(dropped, s)
          /\ available'[s] <=> available[s] /\ ~(Files(dropped, s) > 0 /\ clones[s] = Files(dropped, s))
      BY Zenon DEF close
    <2>. QED BY <2>1, <2>2, Zenon
  <1>2. clones' = [s \in Sides |-> clones'[s]] /\ available' = [s \in Sides |-> available'[s]]
    BY Zenon DEF close
  <1>3. clones' \in [Sides -> Nat]
    BY <1>1, <1>2
  <1>4. available' \in [Sides -> BOOLEAN]
    BY Zenon DEF close
  <1>5. Counted'
    BY <1>1, Zenon DEF Counted
  <1>6. AvailableIsRight'
    BY <1>1 DEF AvailableIsRight
  <1>. QED BY <1>3, <1>4, <1>5, <1>6, Zenon
------------------------------------------------------------------------------
(***************************************************************************)
(* One lemma per action.                                                   *)
(***************************************************************************)
\* Steps that leave the files of all processes alone.
LEMMA FilesStay ==
    ASSUME IInv, UNCHANGED <<table, hand, clones, available>>
    PROVE  Counted' /\ AvailableIsRight'
  BY DEF IInv, Counted, AvailableIsRight, HandlesOf, InTable, InHand, Opened

\* A write touches no files.
LEMMA WriteStep ==
    ASSUME IInv, NEW p \in Pids, NEW fd, NEW b \in Bytes, sys_write(p, fd, b)
    PROVE  IInv'
  <1>1. Shapes'
    <2>. DEFINE q == table[p][fd].dev[1]
    <2>1. /\ buffer' = [buffer EXCEPT ![q] = Append(@, b)]
          /\ sent' = [sent EXCEPT ![q] = Append(@, b)]
      BY Zenon DEF sys_write
    <2>2. buffer \in [Pipes -> Seq(Bytes)] /\ sent \in [Pipes -> Seq(Bytes)]
      BY Zenon DEF IInv, Shapes
    <2>. HIDE DEF q
    <2>3. buffer' \in [Pipes -> Seq(Bytes)] /\ sent' \in [Pipes -> Seq(Bytes)]
      <3>1. CASE q \in Pipes
        <4>1. Append(buffer[q], b) \in Seq(Bytes) /\ Append(sent[q], b) \in Seq(Bytes)
          BY <2>2, <3>1
        <4>. QED BY <2>1, <2>2, <4>1, Zenon
      <3>2. CASE q \notin Pipes
        BY <2>1, <2>2, <3>2, Zenon
      <3>. QED BY <3>1, <3>2, Zenon
    <2>. QED BY <2>3, Zenon DEF sys_write, IInv, Shapes
  <1>2. HandsAreRight'
    BY Zenon DEF sys_write, IInv, HandsAreRight, Opened
  <1>3. Counted' /\ AvailableIsRight'
    BY FilesStay, Zenon DEF sys_write
  <1>. QED BY <1>1, <1>2, <1>3, Zenon DEF IInv

\* Take keeps a pipe a sequence of bytes.
LEMMA TakeTypes ==
    ASSUME NEW q, buffer \in [Pipes -> Seq(Bytes)], received \in [Pipes -> Seq(Bytes)],
           q \in Pipes => buffer[q] # <<>>, Take(q)
    PROVE  buffer' \in [Pipes -> Seq(Bytes)] /\ received' \in [Pipes -> Seq(Bytes)]
  <1>1. CASE q \in Pipes
    <2>1. Head(buffer[q]) \in Bytes /\ Tail(buffer[q]) \in Seq(Bytes)
      BY <1>1
    <2>2. Append(received[q], Head(buffer[q])) \in Seq(Bytes)
      BY <1>1, <2>1
    <2>. QED BY <2>1, <2>2, Zenon DEF Take
  <1>2. CASE q \notin Pipes
    BY <1>2, Zenon DEF Take
  <1>. QED BY <1>1, <1>2, Zenon

\* Neither does a read that does not block ...
LEMMA ReadNowStep ==
    ASSUME IInv, NEW p \in Pids, NEW fd, ReadNow(p, fd)
    PROVE  IInv'
  <1>1. buffer' \in [Pipes -> Seq(Bytes)] /\ received' \in [Pipes -> Seq(Bytes)]
    BY TakeTypes, Zenon DEF ReadNow, IInv, Shapes
  <1>2. Shapes'
    BY <1>1, Zenon DEF ReadNow, IInv, Shapes
  <1>3. HandsAreRight'
    BY Zenon DEF ReadNow, IInv, HandsAreRight, Opened
  <1>4. Counted' /\ AvailableIsRight'
    BY FilesStay, Zenon DEF ReadNow
  <1>. QED BY <1>2, <1>3, <1>4, Zenon DEF IInv

\* ... nor an exit: the files of the process go when it is reaped ...
LEMMA ExitStep ==
    ASSUME IInv, NEW p \in Pids, sys_exit(p)
    PROVE  IInv'
  <1>1. Shapes'
    BY Zenon DEF sys_exit, IInv, Shapes
  <1>2. HandsAreRight'
    BY Zenon DEF sys_exit, IInv, HandsAreRight, Opened, Shapes, Ready
  <1>3. Counted' /\ AvailableIsRight'
    BY FilesStay, Zenon DEF sys_exit
  <1>. QED BY <1>1, <1>2, <1>3, Zenon DEF IInv

\* ... nor the unmount at the end.
LEMMA UnmountStep ==
    ASSUME IInv, Unmount
    PROVE  IInv'
  <1>1. Shapes'
    BY Zenon DEF Unmount, IInv, Shapes
  <1>2. HandsAreRight'
    BY Zenon DEF Unmount, IInv, HandsAreRight, Opened
  <1>3. Counted' /\ AvailableIsRight'
    BY FilesStay, Zenon DEF Unmount
  <1>. QED BY <1>1, <1>2, <1>3, Zenon DEF IInv

\* HandlesAreAll, after a step.
LEMMA HandlesAreAllNext ==
    ASSUME table' \in [Pids -> Tables]
    PROVE  \A s : HandlesOf(s)' = All(table', hand', s)
  <1>. TAKE s
  <1>1. \A p \in Pids : DOMAIN table'[p] \subseteq 0 .. MaxFd
    BY DEF Tables
  <1>2. \A fd : fd \in 0 .. MaxFd + 1 <=> fd \in 0 .. MaxFd \/ fd = MaxFd + 1
    BY FileTableAssumptions
  <1>3. MaxFd + 1 \notin 0 .. MaxFd
    BY FileTableAssumptions
  <1>4. HandlesOf(s)' \subseteq All(table', hand', s)
    BY <1>1, <1>2, <1>3, Zenon DEF HandlesOf, InTable, InHand, Opened, All, Mine, FdsOf, HandOf
  <1>5. All(table', hand', s) \subseteq HandlesOf(s)'
    BY <1>1, <1>2, <1>3, Zenon DEF HandlesOf, InTable, InHand, Opened, All, Mine, FdsOf, HandOf
  <1>. QED BY <1>4, <1>5, Zenon

\* Pairs of one process and its descriptors.
LEMMA PairCounts ==
    ASSUME NEW p, NEW S, IsFiniteSet(S)
    PROVE  IsFiniteSet({p} \X S) /\ Cardinality({p} \X S) = Cardinality(S)
  <1>1. IsFiniteSet({p}) /\ Cardinality({p}) = 1
    BY FS_Singleton, Zenon
  <1>2. Cardinality(S) \in Nat
    BY FS_CardinalityType, Zenon
  <1>3. IsFiniteSet({p} \X S) /\ Cardinality({p} \X S) = Cardinality({p}) * Cardinality(S)
    BY <1>1, FS_Product, Zenon
  <1>. QED BY <1>1, <1>2, <1>3

\* A step that changes the files of one process.
LEMMA OneProcess ==
    ASSUME IInv, NEW p \in Pids, NEW t \in Tables, NEW h \in {NoRead} \cup Held,
           table' = [table EXCEPT ![p] = t], hand' = [hand EXCEPT ![p] = h]
    PROVE  /\ table' \in [Pids -> Tables] /\ hand' \in [Pids -> {NoRead} \cup Held]
           /\ table'[p] = t /\ hand'[p] = h
           /\ \A x \in Pids \ {p} : table'[x] = table[x] /\ hand'[x] = hand[x]
           /\ \A s : /\ Cardinality(HandlesOf(s)) \in Nat
                     /\ Cardinality(Mine(table[p], hand[p], s)) \in 0 .. Cardinality(HandlesOf(s))
                     /\ Cardinality(HandlesOf(s)') =
                          Cardinality(HandlesOf(s)) - Cardinality(Mine(table[p], hand[p], s))
                                                    + Cardinality(Mine(t, h, s))
  <1>1. table \in [Pids -> Tables] /\ hand \in [Pids -> {NoRead} \cup Held]
    BY Zenon DEF IInv, Shapes
  <1>2. /\ table' \in [Pids -> Tables] /\ hand' \in [Pids -> {NoRead} \cup Held]
        /\ table'[p] = t /\ hand'[p] = h
        /\ \A x \in Pids \ {p} : table'[x] = table[x] /\ hand'[x] = hand[x]
    BY <1>1, Zenon
  <1>3. ASSUME NEW s
        PROVE  /\ Cardinality(HandlesOf(s)) \in Nat
               /\ Cardinality(Mine(table[p], hand[p], s)) \in 0 .. Cardinality(HandlesOf(s))
               /\ Cardinality(HandlesOf(s)') =
                    Cardinality(HandlesOf(s)) - Cardinality(Mine(table[p], hand[p], s))
                                              + Cardinality(Mine(t, h, s))
    <2>. DEFINE gone == {p} \X Mine(table[p], hand[p], s)
                new == {p} \X Mine(t, h, s)
    <2>1. HandlesOf(s) = All(table, hand, s) /\ HandlesOf(s)' = All(table', hand', s)
      BY <1>1, <1>2, HandlesAreAll, HandlesAreAllNext, Zenon
    <2>2. /\ IsFiniteSet(Mine(table[p], hand[p], s)) /\ Mine(table[p], hand[p], s) \subseteq 0 .. MaxFd + 1
          /\ IsFiniteSet(Mine(t, h, s)) /\ Mine(t, h, s) \subseteq 0 .. MaxFd + 1
      BY <1>1, MineCounts, Zenon
    <2>3. gone \subseteq HandlesOf(s)
      BY <2>1, <2>2, Zenon DEF All
    <2>4. HandlesOf(s)' = (HandlesOf(s) \ gone) \cup new
      BY <1>2, <2>1, <2>2 DEF All
    <2>5. Disjoint(new, HandlesOf(s) \ gone)
      BY <2>1, Zenon DEF All, Disjoint
    <2>6. /\ IsFiniteSet(gone) /\ Cardinality(gone) = Cardinality(Mine(table[p], hand[p], s))
          /\ IsFiniteSet(new) /\ Cardinality(new) = Cardinality(Mine(t, h, s))
      BY <2>2, PairCounts, Zenon
    <2>. HIDE DEF gone, new
    <2>7. IsFiniteSet(HandlesOf(s))
      BY HandlesFinite, Zenon
    <2>8. Cardinality(HandlesOf(s)) \in Nat /\ Cardinality(gone) \in 0 .. Cardinality(HandlesOf(s))
      BY <2>3, <2>7, Remove, Zenon
    <2>9. Cardinality((HandlesOf(s) \ gone) \cup new) = Cardinality(HandlesOf(s)) - Cardinality(gone) + Cardinality(new)
      BY <2>3, <2>5, <2>6, <2>7, Exchange
    <2>. QED BY <2>4, <2>6, <2>8, <2>9, Zenon
  <1>. QED BY <1>2, <1>3, Zenon

\* sys_open; the console is not counted.
LEMMA OpenStep ==
    ASSUME IInv, NEW p \in Pids, sys_open(p)
    PROVE  IInv'
  <1>. DEFINE f == [dev |-> Console, mode |-> "None"]
              t == With(table[p], next_id[p], f)
  <1>0. f \in File /\ table[p] \in Tables /\ next_id[p] \in 0 .. MaxFd /\ hand[p] \in {NoRead} \cup Held
    BY FileTableAssumptions DEF sys_open, push_fs_node, IInv, Shapes, File, Modes
  <1>1. CASE Opened(p, next_id[p])
    <2>1. Shapes'
      BY <1>1, Zenon DEF sys_open, push_fs_node, IInv, Shapes
    <2>2. HandsAreRight'
      BY <1>1, Zenon DEF sys_open, push_fs_node, IInv, HandsAreRight, Opened
    <2>3. Counted' /\ AvailableIsRight'
      BY <1>1, FilesStay, Zenon DEF sys_open, push_fs_node
    <2>. QED BY <2>1, <2>2, <2>3, Zenon DEF IInv
  <1>2. CASE ~Opened(p, next_id[p])
    <2>. HIDE DEF f
    <2>1. /\ t \in Tables /\ DOMAIN t = DOMAIN table[p] \cup {next_id[p]}
          /\ t[next_id[p]] = f /\ \A x \in DOMAIN table[p] \ {next_id[p]} : t[x] = table[p][x]
      BY <1>0, WithTable
    <2>2. /\ table' = [table EXCEPT ![p] = t]
          /\ next_id' = [next_id EXCEPT ![p] = @ + 1]
          /\ UNCHANGED <<state, clones, available, buffer, sent, received, panicked>>
          /\ hand' = hand /\ Ready(p)
      BY <1>2, Zenon DEF sys_open, push_fs_node, f
    <2>. HIDE DEF t
    <2>3. next_id' \in [Pids -> 0 .. MaxFd + 1]
      BY <1>0, <2>2, FileTableAssumptions DEF IInv, Shapes
    <2>4. hand' = [hand EXCEPT ![p] = hand[p]]
      BY <2>2, Zenon DEF IInv, Shapes
    <2>5. /\ table' \in [Pids -> Tables]
          /\ table'[p] = t /\ \A x \in Pids \ {p} : table'[x] = table[x]
          /\ \A s : /\ Cardinality(HandlesOf(s)) \in Nat
                    /\ Cardinality(HandlesOf(s)') =
                          Cardinality(HandlesOf(s)) - Cardinality(Mine(table[p], hand[p], s))
                                                    + Cardinality(Mine(t, hand[p], s))
      <3>1. t \in Tables /\ hand[p] \in {NoRead} \cup Held
        BY <1>0, <2>1, Zenon
      <3>2. table' = [table EXCEPT ![p] = t]
        BY <2>2, Zenon
      <3>. QED BY <2>4, <3>1, <3>2, OneProcess, Zenon
    <2>6. Shapes'
      BY <2>2, <2>3, <2>5, Zenon DEF IInv, Shapes
    <2>7. HandsAreRight'
      BY <2>2, <2>5, Zenon DEF IInv, HandsAreRight, Opened, Ready
    <2>8. ASSUME NEW s \in Sides PROVE Cardinality(HandlesOf(s)') = Cardinality(HandlesOf(s))
      <3>1. f.dev # s
        BY Distinct, Zenon DEF f
      <3>2. FdsOf(t, s) = FdsOf(table[p], s)
        BY <1>2, <2>1, <3>1, Zenon DEF FdsOf, Opened
      <3>3. Mine(t, hand[p], s) = Mine(table[p], hand[p], s)
        BY <3>2, Zenon DEF Mine
      <3>4. Cardinality(Mine(t, hand[p], s)) \in Nat
        BY <2>1, MineCounts, FS_CardinalityType, Zenon
      <3>. QED BY <2>5, <3>3, <3>4
    <2>9. Counted' /\ AvailableIsRight'
      BY <2>2, <2>8, SameHandles, Zenon
    <2>. QED BY <2>6, <2>7, <2>9, Zenon DEF IInv
  <1>. QED BY <1>1, <1>2, Zenon

\* sys_create_pipe: one handle on each side of a pipe that had none.
LEMMA CreatePipeStep ==
    ASSUME IInv, NEW p \in Pids, NEW q \in Pipes, sys_create_pipe(p, q)
    PROVE  IInv'
  <1>. DEFINE n == next_id[p]
              r == [dev |-> Side(q, "r"), mode |-> "Block"]
              w == [dev |-> Side(q, "w"), mode |-> "None"]
              t1 == With(table[p], n, r)
              t2 == With(t1, n + 1, w)
  <1>0. /\ r \in File /\ w \in File /\ table[p] \in Tables
        /\ n \in 0 .. MaxFd /\ n + 1 \in 0 .. MaxFd /\ n + 1 # n /\ n + 2 \in 0 .. MaxFd + 1
        /\ hand[p] \in {NoRead} \cup Held /\ Ready(p)
        /\ Side(q, "r") \in Sides /\ Side(q, "w") \in Sides
        /\ clones[Side(q, "r")] = 0 /\ clones[Side(q, "w")] = 0
        /\ UNCHANGED <<state, hand, buffer, sent, received>>
    <2>1. Side(q, "r") \in Sides /\ Side(q, "w") \in Sides
      BY Zenon DEF Sides, Side
    <2>2. r \in File /\ w \in File
      BY <2>1, Zenon DEF File, Modes
    <2>3. next_id[p] \in 0 .. MaxFd + 1 /\ next_id[p] < MaxFd
      BY Zenon DEF sys_create_pipe, IInv, Shapes
    <2>4. n \in 0 .. MaxFd /\ n + 1 \in 0 .. MaxFd /\ n + 1 # n /\ n + 2 \in 0 .. MaxFd + 1
      BY <2>3, FileTableAssumptions
    <2>. QED BY <2>1, <2>2, <2>4, Zenon DEF sys_create_pipe, IInv, Shapes
  <1>1. CASE Opened(p, n) \/ Opened(p, n + 1)
    <2>1. UNCHANGED <<table, next_id, clones, available>> /\ panicked' = TRUE
      BY <1>1, Zenon DEF sys_create_pipe
    <2>2. Shapes'
      BY <1>0, <2>1, Zenon DEF IInv, Shapes
    <2>3. HandsAreRight'
      BY <1>0, <2>1, Zenon DEF IInv, HandsAreRight, Opened
    <2>4. Counted' /\ AvailableIsRight'
      BY <1>0, <2>1, FilesStay, Zenon
    <2>. QED BY <2>2, <2>3, <2>4, Zenon DEF IInv
  <1>2. CASE ~(Opened(p, n) \/ Opened(p, n + 1))
    <2>1. /\ table' = [table EXCEPT ![p] = t2]
          /\ next_id' = [next_id EXCEPT ![p] = @ + 2]
          /\ clones' = [clones EXCEPT ![Side(q, "r")] = 1, ![Side(q, "w")] = 1]
          /\ available' = [available EXCEPT ![Side(q, "r")] = TRUE, ![Side(q, "w")] = TRUE]
          /\ panicked' = panicked
      BY <1>2, Zenon DEF sys_create_pipe
    <2>2. n \notin DOMAIN table[p] /\ n + 1 \notin DOMAIN table[p]
      BY <1>2, Zenon DEF Opened
    <2>a. r.dev = Side(q, "r") /\ w.dev = Side(q, "w") /\ Side(q, "r") # Side(q, "w")
      BY Zenon DEF Side
    <2>. HIDE DEF n, r, w
    <2>3. t1 \in Tables /\ DOMAIN t1 = DOMAIN table[p] \cup {n} /\ n + 1 \notin DOMAIN t1
      <3>1. t1 \in Tables /\ DOMAIN t1 = DOMAIN table[p] \cup {n}
        BY <1>0, WithTable, Zenon
      <3>. QED BY <1>0, <2>2, <3>1, Zenon
    <2>4. \A s : Cardinality(Mine(t1, hand[p], s)) = Cardinality(Mine(table[p], hand[p], s)) + One(r, s)
      BY SMTT(60), <1>0, <2>2, MineWith
    <2>. HIDE DEF t1
    <2>5. t2 \in Tables
      BY <1>0, <2>3, WithTable, Zenon
    <2>6. \A s : Cardinality(Mine(t2, hand[p], s)) = Cardinality(Mine(t1, hand[p], s)) + One(w, s)
      BY <1>0, <2>3, MineWith
    <2>. HIDE DEF t2
    <2>7. hand' = [hand EXCEPT ![p] = hand[p]]
      BY <1>0, Zenon DEF IInv, Shapes
    <2>8. /\ table' \in [Pids -> Tables]
          /\ table'[p] = t2 /\ \A x \in Pids \ {p} : table'[x] = table[x]
          /\ \A s : /\ Cardinality(HandlesOf(s)) \in Nat
                    /\ Cardinality(Mine(table[p], hand[p], s)) \in 0 .. Cardinality(HandlesOf(s))
                    /\ Cardinality(HandlesOf(s)') =
                          Cardinality(HandlesOf(s)) - Cardinality(Mine(table[p], hand[p], s))
                                                    + Cardinality(Mine(t2, hand[p], s))
      <3>1. hand[p] \in {NoRead} \cup Held
        BY <1>0, Zenon
      <3>2. table' = [table EXCEPT ![p] = t2]
        BY <2>1, Zenon
      <3>. QED BY <2>5, <2>7, <3>1, <3>2, OneProcess, Zenon
    <2>9. Shapes'
      <3>1. next_id' \in [Pids -> 0 .. MaxFd + 1]
        BY <1>0, <2>1, Zenon DEF IInv, Shapes, n
      <3>2. clones' \in [Sides -> Nat] /\ available' \in [Sides -> BOOLEAN]
        BY <2>1, Zenon DEF IInv, Shapes
      <3>. QED BY <1>0, <2>1, <2>8, <3>1, <3>2, Zenon DEF IInv, Shapes
    <2>10. HandsAreRight'
      BY <1>0, <2>8, Zenon DEF IInv, HandsAreRight, Opened, Ready
    <2>11. \A s \in Sides : Cardinality(HandlesOf(s)') = Cardinality(HandlesOf(s)) + One(r, s) + One(w, s)
      <3>1. \A s : One(r, s) \in {0, 1} /\ One(w, s) \in {0, 1}
        BY Zenon DEF One
      <3>. QED BY <2>4, <2>6, <2>8, <3>1
    <2>12. Counted' /\ AvailableIsRight'
      <3>1. ASSUME NEW s \in Sides PROVE clones'[s] = clones[s] + One(r, s) + One(w, s)
        BY <1>0, <2>1, <2>a, SMTT(30) DEF One, IInv, Shapes
      <3>2. Counted'
        BY <2>11, <3>1, Zenon DEF IInv, Counted
      <3>3. AvailableIsRight'
        <4>1. /\ clones \in [Sides -> Nat] /\ available \in [Sides -> BOOLEAN]
              /\ \A s \in Sides : available[s] <=> clones[s] > 0
          BY Zenon DEF IInv, Shapes, AvailableIsRight
        <4>2. ASSUME NEW s \in Sides PROVE available'[s] <=> clones'[s] > 0
          <5>1. CASE s = Side(q, "r") \/ s = Side(q, "w")
            <6>1. clones'[s] = 1 /\ available'[s] = TRUE
              BY <1>0, <2>1, <4>1, <5>1, Zenon
            <6>. QED BY <6>1
          <5>2. CASE s # Side(q, "r") /\ s # Side(q, "w")
            <6>1. clones'[s] = clones[s] /\ available'[s] = available[s]
              BY <1>0, <2>1, <4>1, <5>2, Zenon
            <6>. QED BY <4>1, <6>1, Zenon
          <5>. QED BY <5>1, <5>2, Zenon
        <4>. QED BY <4>2, Zenon DEF AvailableIsRight
      <3>. QED BY <3>2, <3>3, Zenon
    <2>. QED BY <2>9, <2>10, <2>12, Zenon DEF IInv
  <1>. QED BY <1>1, <1>2, Zenon

\* sys_read takes the file of a blocking read out of the table ...
LEMMA ReadBeginStep ==
    ASSUME IInv, NEW p \in Pids, NEW fd, ReadBegin(p, fd)
    PROVE  IInv'
  <1>. DEFINE t == Without(table[p], {fd})
              h == [fd |-> fd, file |-> table[p][fd]]
  <1>0. /\ table[p] \in Tables /\ fd \in DOMAIN table[p] /\ Ready(p) /\ hand[p] = NoRead
        /\ table' = [table EXCEPT ![p] = t] /\ hand' = [hand EXCEPT ![p] = h]
        /\ state' = [state EXCEPT ![p] = "reading"]
        /\ UNCHANGED <<next_id, clones, available, buffer, sent, received, panicked>>
    BY Zenon DEF ReadBegin, IInv, Shapes, Opened, HandsAreRight, Ready
  <1>1. table[p][fd] \in File /\ fd \in 0 .. MaxFd
    BY <1>0, TableFacts, Zenon
  <1>2. h \in Held /\ h # NoRead /\ h.file = table[p][fd] /\ h.fd = fd
    <2>1. h \in Held /\ h.file = table[p][fd] /\ h.fd = fd
      BY <1>1, Zenon DEF Held
    <2>. HIDE DEF h
    <2>. QED BY <2>1, Distinct, Zenon
  <1>3. t \in Tables /\ DOMAIN t = DOMAIN table[p] \ {fd}
    BY <1>0, WithoutTable, Zenon
  <1>4. \A s : /\ Cardinality(Mine(t, NoRead, s)) = Cardinality(Mine(table[p], NoRead, s)) - One(table[p][fd], s)
               /\ Cardinality(Mine(table[p], NoRead, s)) \in Nat
    BY <1>0, MineWithout, Zenon
  <1>. HIDE DEF t, h
  <1>5. \A s : Cardinality(Mine(t, h, s)) = Cardinality(Mine(t, NoRead, s)) + One(table[p][fd], s)
    <2>. TAKE s
    <2>1. /\ Cardinality(Mine(t, h, s)) = Cardinality(FdsOf(t, s)) + (IF h # NoRead /\ h.file.dev = s THEN 1 ELSE 0)
          /\ Cardinality(Mine(t, NoRead, s)) = Cardinality(FdsOf(t, s)) + (IF NoRead # NoRead /\ NoRead.file.dev = s THEN 1 ELSE 0)
          /\ Cardinality(FdsOf(t, s)) \in Nat
      BY <1>3, MineCounts, Zenon
    <2>. QED BY <1>2, <2>1 DEF One
  <1>6. /\ table' \in [Pids -> Tables] /\ hand' \in [Pids -> {NoRead} \cup Held]
        /\ table'[p] = t /\ hand'[p] = h
        /\ \A x \in Pids \ {p} : table'[x] = table[x] /\ hand'[x] = hand[x]
        /\ \A s : /\ Cardinality(HandlesOf(s)) \in Nat
                  /\ Cardinality(HandlesOf(s)') =
                          Cardinality(HandlesOf(s)) - Cardinality(Mine(table[p], hand[p], s))
                                                    + Cardinality(Mine(t, h, s))
    <2>1. h \in {NoRead} \cup Held
      BY <1>2, Zenon
    <2>2. table' = [table EXCEPT ![p] = t] /\ hand' = [hand EXCEPT ![p] = h]
      BY <1>0, Zenon
    <2>. QED BY <1>3, <2>1, <2>2, OneProcess, ZenonT(30)
  <1>7. \A s \in Sides : Cardinality(HandlesOf(s)') = Cardinality(HandlesOf(s))
    <2>1. \A s : One(table[p][fd], s) \in {0, 1}
      BY Zenon DEF One
    <2>. QED BY <1>0, <1>4, <1>5, <1>6, <2>1
  <1>8. Counted' /\ AvailableIsRight'
    BY <1>0, <1>7, SameHandles, Zenon
  <1>9. Shapes'
    BY <1>0, <1>6, Zenon DEF IInv, Shapes
  <1>10. HandsAreRight'
    BY <1>0, <1>2, <1>3, <1>6, ZenonT(30) DEF IInv, HandsAreRight, Opened, Ready, Shapes
  <1>. QED BY <1>8, <1>9, <1>10, Zenon DEF IInv

\* ... and put_fs_node puts it back where it was: the descriptor is still free.
LEMMA PutBackStep ==
    ASSUME IInv, NEW p \in Pids, state[p] = "reading", PutBack(p),
           next_id' = next_id, clones' = clones, available' = available
    PROVE  /\ table' \in [Pids -> Tables] /\ hand' \in [Pids -> {NoRead} \cup Held]
           /\ state' \in [Pids -> {"unborn", "ready", "reading", "exited", "gone"}]
           /\ panicked' = panicked
           /\ HandsAreRight' /\ Counted' /\ AvailableIsRight'
           /\ \A x \in Pids : DOMAIN table'[x] = DOMAIN table[x] \cup (IF x = p THEN {hand[p].fd} ELSE {})
  <1>. DEFINE fd == hand[p].fd
              f == hand[p].file
              t == With(table[p], fd, f)
  <1>0. /\ table[p] \in Tables /\ hand[p] \in Held /\ hand[p] # NoRead /\ ~Opened(p, fd)
        /\ fd \in 0 .. MaxFd /\ f \in File /\ fd \notin DOMAIN table[p]
    BY Distinct, Zenon DEF IInv, Shapes, HandsAreRight, Held, Opened
  <1>1. /\ table' = [table EXCEPT ![p] = t] /\ hand' = [hand EXCEPT ![p] = NoRead]
        /\ state' = [state EXCEPT ![p] = "ready"] /\ panicked' = panicked
    BY <1>0, Zenon DEF PutBack
  <1>2. t \in Tables /\ DOMAIN t = DOMAIN table[p] \cup {fd}
    BY <1>0, WithTable
  <1>3. \A s : Cardinality(Mine(t, NoRead, s)) = Cardinality(Mine(table[p], NoRead, s)) + One(f, s)
    BY <1>0, MineWith
  <1>4. \A s : Cardinality(Mine(table[p], hand[p], s)) = Cardinality(Mine(table[p], NoRead, s)) + One(f, s)
    <2>. TAKE s
    <2>1. /\ Cardinality(Mine(table[p], hand[p], s)) =
               Cardinality(FdsOf(table[p], s)) + (IF hand[p] # NoRead /\ hand[p].file.dev = s THEN 1 ELSE 0)
          /\ Cardinality(Mine(table[p], NoRead, s)) =
               Cardinality(FdsOf(table[p], s)) + (IF NoRead # NoRead /\ NoRead.file.dev = s THEN 1 ELSE 0)
          /\ Cardinality(FdsOf(table[p], s)) \in Nat
      BY <1>0, MineCounts, Zenon
    <2>. QED BY <1>0, <2>1 DEF One
  <1>. HIDE DEF t
  <1>5. /\ table' \in [Pids -> Tables] /\ hand' \in [Pids -> {NoRead} \cup Held]
        /\ table'[p] = t /\ hand'[p] = NoRead
        /\ \A x \in Pids \ {p} : table'[x] = table[x] /\ hand'[x] = hand[x]
        /\ \A s : /\ Cardinality(HandlesOf(s)) \in Nat
                  /\ Cardinality(Mine(table[p], hand[p], s)) \in 0 .. Cardinality(HandlesOf(s))
                  /\ Cardinality(HandlesOf(s)') =
                          Cardinality(HandlesOf(s)) - Cardinality(Mine(table[p], hand[p], s))
                                                    + Cardinality(Mine(t, NoRead, s))
    <2>1. NoRead \in {NoRead} \cup Held
      BY Zenon
    <2>2. table' = [table EXCEPT ![p] = t] /\ hand' = [hand EXCEPT ![p] = NoRead]
      BY <1>1, Zenon
    <2>. QED BY <1>2, <2>1, <2>2, OneProcess, ZenonT(30)
  <1>6. \A s \in Sides : Cardinality(HandlesOf(s)') = Cardinality(HandlesOf(s))
    BY <1>3, <1>4, <1>5
  <1>7. Counted' /\ AvailableIsRight'
    BY <1>6, SameHandles, Zenon
  <1>8. state' \in [Pids -> {"unborn", "ready", "reading", "exited", "gone"}]
    BY <1>1, Zenon DEF IInv, Shapes
  <1>9. HandsAreRight'
    BY <1>1, <1>5, Zenon DEF IInv, HandsAreRight, Opened, Shapes
  <1>10. \A x \in Pids : DOMAIN table'[x] = DOMAIN table[x] \cup (IF x = p THEN {hand[p].fd} ELSE {})
    BY <1>2, <1>5, Zenon
  <1>. QED BY <1>1, <1>5, <1>7, <1>8, <1>9, <1>10, Zenon

\* A line from the console ends a read.
LEMMA ReadConsoleStep ==
    ASSUME IInv, NEW p \in Pids, ReadConsole(p)
    PROVE  IInv'
  <1>1. /\ state[p] = "reading" /\ PutBack(p) /\ next_id' = next_id
        /\ clones' = clones /\ available' = available /\ buffer' = buffer
        /\ sent' = sent /\ received' = received
    BY Zenon DEF ReadConsole, Reading
  <1>2. /\ table' \in [Pids -> Tables] /\ hand' \in [Pids -> {NoRead} \cup Held]
        /\ state' \in [Pids -> {"unborn", "ready", "reading", "exited", "gone"}]
        /\ panicked' = panicked
        /\ HandsAreRight' /\ Counted' /\ AvailableIsRight'
    BY <1>1, PutBackStep, Zenon
  <1>3. Shapes'
    BY <1>1, <1>2, Zenon DEF IInv, Shapes
  <1>. QED BY <1>2, <1>3, Zenon DEF IInv

\* A poll of a pipe ends the read or keeps the file in the hand.
LEMMA ReadPipeStep ==
    ASSUME IInv, NEW p \in Pids, ReadPipe(p)
    PROVE  IInv'
  <1>. DEFINE q == hand[p].file.dev[1]
  <1>1. /\ state[p] = "reading" /\ next_id' = next_id
        /\ clones' = clones /\ available' = available /\ sent' = sent
    BY Zenon DEF ReadPipe, Reading
  <1>2. buffer' \in [Pipes -> Seq(Bytes)] /\ received' \in [Pipes -> Seq(Bytes)]
    <2>1. \/ UNCHANGED <<buffer, received>>
          \/ buffer[q] # <<>> /\ Take(q)
      BY Zenon DEF ReadPipe
    <2>. HIDE DEF q
    <2>2. buffer \in [Pipes -> Seq(Bytes)] /\ received \in [Pipes -> Seq(Bytes)]
      BY Zenon DEF IInv, Shapes
    <2>. QED BY <2>1, <2>2, TakeTypes, Zenon
  <1>3. CASE PutBack(p)
    <2>1. /\ table' \in [Pids -> Tables] /\ hand' \in [Pids -> {NoRead} \cup Held]
          /\ state' \in [Pids -> {"unborn", "ready", "reading", "exited", "gone"}]
          /\ panicked' = panicked
          /\ HandsAreRight' /\ Counted' /\ AvailableIsRight'
      BY <1>1, <1>3, PutBackStep, Zenon
    <2>2. Shapes'
      BY <1>1, <1>2, <2>1, Zenon DEF IInv, Shapes
    <2>. QED BY <2>1, <2>2, Zenon DEF IInv
  <1>4. CASE UNCHANGED <<table, hand, state, panicked>>
    <2>1. Shapes'
      BY <1>1, <1>2, <1>4, Zenon DEF IInv, Shapes
    <2>2. HandsAreRight'
      BY <1>4, Zenon DEF IInv, HandsAreRight, Opened
    <2>3. Counted' /\ AvailableIsRight'
      BY <1>1, <1>4, FilesStay, Zenon
    <2>. QED BY <2>1, <2>2, <2>3, Zenon DEF IInv
  <1>. QED BY <1>3, <1>4, Zenon DEF ReadPipe

\* A process drops the files it no longer has.
LEMMA DropStep ==
    ASSUME IInv, NEW p \in Pids, NEW t \in Tables, NEW h \in {NoRead} \cup Held,
           table' = [table EXCEPT ![p] = t], hand' = [hand EXCEPT ![p] = h],
           NEW dropped, close(dropped),
           \A s \in Sides : /\ Files(dropped, s) \in Nat
                            /\ Cardinality(Mine(table[p], hand[p], s)) =
                                 Cardinality(Mine(t, h, s)) + Files(dropped, s)
    PROVE  /\ table' \in [Pids -> Tables] /\ hand' \in [Pids -> {NoRead} \cup Held]
           /\ table'[p] = t /\ hand'[p] = h
           /\ \A x \in Pids \ {p} : table'[x] = table[x] /\ hand'[x] = hand[x]
           /\ Counted' /\ AvailableIsRight'
           /\ clones' \in [Sides -> Nat] /\ available' \in [Sides -> BOOLEAN]
  <1>1. /\ table' \in [Pids -> Tables] /\ hand' \in [Pids -> {NoRead} \cup Held]
        /\ table'[p] = t /\ hand'[p] = h
        /\ \A x \in Pids \ {p} : table'[x] = table[x] /\ hand'[x] = hand[x]
        /\ \A s : /\ Cardinality(HandlesOf(s)) \in Nat
                  /\ Cardinality(Mine(table[p], hand[p], s)) \in 0 .. Cardinality(HandlesOf(s))
                  /\ Cardinality(HandlesOf(s)') =
                          Cardinality(HandlesOf(s)) - Cardinality(Mine(table[p], hand[p], s))
                                                    + Cardinality(Mine(t, h, s))
    BY OneProcess, ZenonT(30)
  <1>2. \A s : Cardinality(Mine(t, h, s)) \in Nat
    BY MineCounts, FS_CardinalityType, Zenon
  <1>3. \A s \in Sides :
              /\ Files(dropped, s) \in 0 .. Cardinality(HandlesOf(s))
              /\ Cardinality(HandlesOf(s)') = Cardinality(HandlesOf(s)) - Files(dropped, s)
    BY <1>1, <1>2
  <1>4. /\ Counted' /\ AvailableIsRight'
        /\ clones' \in [Sides -> Nat] /\ available' \in [Sides -> BOOLEAN]
    BY <1>3, DropHandles, Zenon
  <1>. QED BY <1>1, <1>4, Zenon

\* A read that fails drops the file in the hand.
LEMMA ReadErrorStep ==
    ASSUME IInv, NEW p \in Pids, ReadError(p)
    PROVE  IInv'
  <1>. DEFINE f == hand[p].file
              d == {<<0, f>>}
  <1>0. /\ table[p] \in Tables /\ hand[p] \in Held /\ hand[p] # NoRead
        /\ table' = table /\ hand' = [hand EXCEPT ![p] = NoRead] /\ close(d)
        /\ state' = [state EXCEPT ![p] = "ready"]
        /\ UNCHANGED <<next_id, buffer, sent, received, panicked>>
    BY Distinct, Zenon DEF ReadError, Reading, IInv, Shapes, HandsAreRight
  <1>1. \A s \in Sides : /\ Files(d, s) \in Nat
                         /\ Cardinality(Mine(table[p], hand[p], s)) =
                              Cardinality(Mine(table[p], NoRead, s)) + Files(d, s)
    <2>. TAKE s \in Sides
    <2>1. /\ Cardinality(Mine(table[p], hand[p], s)) =
               Cardinality(FdsOf(table[p], s)) + (IF hand[p] # NoRead /\ hand[p].file.dev = s THEN 1 ELSE 0)
          /\ Cardinality(Mine(table[p], NoRead, s)) =
               Cardinality(FdsOf(table[p], s)) + (IF NoRead # NoRead /\ NoRead.file.dev = s THEN 1 ELSE 0)
          /\ Cardinality(FdsOf(table[p], s)) \in Nat
      BY <1>0, MineCounts, Zenon
    <2>2. Files(d, s) = One(f, s)
      BY OneFile, Zenon
    <2>. QED BY <1>0, <2>1, <2>2 DEF One
  <1>. HIDE DEF d
  <1>2. /\ table' \in [Pids -> Tables] /\ hand' \in [Pids -> {NoRead} \cup Held]
        /\ table'[p] = table[p] /\ hand'[p] = NoRead
        /\ \A x \in Pids \ {p} : table'[x] = table[x] /\ hand'[x] = hand[x]
        /\ Counted' /\ AvailableIsRight'
        /\ clones' \in [Sides -> Nat] /\ available' \in [Sides -> BOOLEAN]
    <2>1. table' = [table EXCEPT ![p] = table[p]] /\ NoRead \in {NoRead} \cup Held
      BY <1>0, Zenon DEF IInv, Shapes
    <2>2. hand' = [hand EXCEPT ![p] = NoRead] /\ close(d) /\ table[p] \in Tables
      BY <1>0, Zenon
    <2>. QED BY <1>1, <2>1, <2>2, DropStep, Zenon
  <1>3. Shapes'
    BY <1>0, <1>2, Zenon DEF IInv, Shapes
  <1>4. HandsAreRight'
    BY <1>0, <1>2, ZenonT(30) DEF IInv, HandsAreRight, Opened, Shapes
  <1>. QED BY <1>2, <1>3, <1>4, Zenon DEF IInv

\* sys_set_blocking changes the mode of a file, not the device behind it.
LEMMA SetBlockingStep ==
    ASSUME IInv, NEW p \in Pids, NEW fd, NEW m \in SetModes, sys_set_blocking(p, fd, m)
    PROVE  IInv'
  <1>. DEFINE f == [table[p][fd] EXCEPT !.mode = m]
              t == [table[p] EXCEPT ![fd] = f]
  <1>0. /\ table[p] \in Tables /\ fd \in DOMAIN table[p] /\ hand[p] \in {NoRead} \cup Held
        /\ table' = [table EXCEPT ![p] = t]
        /\ UNCHANGED <<next_id, state, hand, clones, available, buffer, sent, received, panicked>>
    BY Zenon DEF sys_set_blocking, IInv, Shapes, Opened
  <1>1. /\ table[p][fd] \in File /\ f \in File /\ f.dev = table[p][fd].dev
    <2>1. table[p][fd] \in File
      BY <1>0, TableFacts, Zenon
    <2>2. m \in Modes
      BY FileTableAssumptions, Zenon DEF Modes
    <2>. QED BY <2>1, <2>2, Zenon DEF File
  <1>. HIDE DEF f
  <1>2. t \in Tables /\ DOMAIN t = DOMAIN table[p] /\ \A x \in DOMAIN t : t[x].dev = table[p][x].dev
    <2>1. PICK S \in SUBSET (0 .. MaxFd) : table[p] \in [S -> File]
      BY <1>0, Zenon DEF Tables
    <2>2. t \in [S -> File]
      BY <1>1, <2>1, Zenon
    <2>. QED BY <1>0, <1>1, <2>1, <2>2, Zenon DEF Tables
  <1>. HIDE DEF t
  <1>3. \A s : Mine(t, hand[p], s) = Mine(table[p], hand[p], s)
    BY <1>2, Zenon DEF Mine, FdsOf
  <1>4. /\ table' \in [Pids -> Tables]
        /\ table'[p] = t /\ \A x \in Pids \ {p} : table'[x] = table[x]
        /\ \A s : /\ Cardinality(HandlesOf(s)) \in Nat
                  /\ Cardinality(Mine(table[p], hand[p], s)) \in 0 .. Cardinality(HandlesOf(s))
                  /\ Cardinality(HandlesOf(s)') =
                          Cardinality(HandlesOf(s)) - Cardinality(Mine(table[p], hand[p], s))
                                                    + Cardinality(Mine(t, hand[p], s))
    <2>1. hand' = [hand EXCEPT ![p] = hand[p]] /\ table' = [table EXCEPT ![p] = t]
      BY <1>0, Zenon DEF IInv, Shapes
    <2>2. hand[p] \in {NoRead} \cup Held
      BY <1>0, Zenon
    <2>. QED BY <1>2, <2>1, <2>2, OneProcess, ZenonT(30)
  <1>5. \A s \in Sides : Cardinality(HandlesOf(s)') = Cardinality(HandlesOf(s))
    BY <1>3, <1>4
  <1>6. Counted' /\ AvailableIsRight'
    BY <1>0, <1>5, SameHandles, Zenon
  <1>7. Shapes'
    BY <1>0, <1>4, Zenon DEF IInv, Shapes
  <1>8. HandsAreRight'
    BY <1>0, <1>2, <1>4, Zenon DEF IInv, HandsAreRight, Opened
  <1>. QED BY <1>6, <1>7, <1>8, Zenon DEF IInv

\* sys_close drops one file.
LEMMA CloseStep ==
    ASSUME IInv, NEW p \in Pids, NEW fd, sys_close(p, fd)
    PROVE  IInv'
  <1>. DEFINE t == Without(table[p], {fd})
              d == {<<fd, table[p][fd]>>}
  <1>0. /\ table[p] \in Tables /\ fd \in DOMAIN table[p] /\ hand[p] \in {NoRead} \cup Held
        /\ table' = [table EXCEPT ![p] = t] /\ hand' = hand /\ close(d) /\ Ready(p)
        /\ UNCHANGED <<next_id, state, buffer, sent, received, panicked>>
    BY Zenon DEF sys_close, IInv, Shapes, Opened
  <1>1. t \in Tables /\ DOMAIN t = DOMAIN table[p] \ {fd}
    BY <1>0, WithoutTable, Zenon
  <1>2. \A s \in Sides : /\ Files(d, s) \in Nat
                         /\ Cardinality(Mine(table[p], hand[p], s)) =
                              Cardinality(Mine(t, hand[p], s)) + Files(d, s)
    <2>. TAKE s \in Sides
    <2>1. /\ Cardinality(Mine(t, hand[p], s)) = Cardinality(Mine(table[p], hand[p], s)) - One(table[p][fd], s)
          /\ Cardinality(Mine(table[p], hand[p], s)) \in Nat
      BY <1>0, MineWithout, ZenonT(30)
    <2>2. Files(d, s) = One(table[p][fd], s) /\ One(table[p][fd], s) \in {0, 1}
      BY OneFile, Zenon DEF One
    <2>. QED BY <2>1, <2>2
  <1>. HIDE DEF t, d
  <1>3. /\ table' \in [Pids -> Tables]
        /\ table'[p] = t /\ \A x \in Pids \ {p} : table'[x] = table[x]
        /\ Counted' /\ AvailableIsRight'
        /\ clones' \in [Sides -> Nat] /\ available' \in [Sides -> BOOLEAN]
    <2>1. hand' = [hand EXCEPT ![p] = hand[p]] /\ table' = [table EXCEPT ![p] = t]
      BY <1>0, Zenon DEF IInv, Shapes
    <2>2. hand[p] \in {NoRead} \cup Held /\ close(d)
      BY <1>0, Zenon
    <2>. QED BY <1>1, <1>2, <2>1, <2>2, DropStep, ZenonT(30)
  <1>4. Shapes'
    BY <1>0, <1>3, Zenon DEF IInv, Shapes
  <1>5. HandsAreRight'
    BY <1>0, <1>1, <1>3, Zenon DEF IInv, HandsAreRight, Opened
  <1>. QED BY <1>3, <1>4, <1>5, Zenon DEF IInv

\* The files of a whole table.
LEMMA TableFiles ==
    ASSUME NEW t \in Tables, NEW s
    PROVE  Files(Handles(t), s) = Cardinality(FdsOf(t, s)) /\ Files(Handles(t), s) \in Nat
  <1>. DEFINE H == {h \in Handles(t) : h[2].dev = s}
              f == [fd \in FdsOf(t, s) |-> <<fd, t[fd]>>]
  <1>1. f \in [FdsOf(t, s) -> H]
    BY Zenon DEF Handles, FdsOf
  <1>2. \A x, y \in FdsOf(t, s) : f[x] = f[y] => x = y
    BY Zenon
  <1>3. \A z \in H : \E x \in FdsOf(t, s) : f[x] = z
    BY DEF Handles, FdsOf
  <1>4. IsFiniteSet(FdsOf(t, s)) /\ Cardinality(FdsOf(t, s)) \in Nat
    BY MineCounts, Zenon
  <1>. HIDE DEF f, H
  <1>5. Cardinality(H) = Cardinality(FdsOf(t, s))
    BY <1>1, <1>2, <1>3, <1>4, SameSize, ZenonT(30)
  <1>. QED BY <1>4, <1>5, Zenon DEF Files, H

\* The drop of a process closes every file it has.
LEMMA ReapStep ==
    ASSUME IInv, NEW p \in Pids, Reap(p)
    PROVE  IInv'
  <1>. DEFINE d == Handles(table[p])
  <1>0. /\ table[p] \in Tables /\ hand[p] = NoRead
        /\ table' = [table EXCEPT ![p] = Empty] /\ hand' = hand /\ close(d)
        /\ state' = [state EXCEPT ![p] = "gone"]
        /\ UNCHANGED <<next_id, buffer, sent, received, panicked>>
    BY Zenon DEF Reap, IInv, Shapes, HandsAreRight
  <1>1. \A s \in Sides : /\ Files(d, s) \in Nat
                         /\ Cardinality(Mine(table[p], hand[p], s)) =
                              Cardinality(Mine(Empty, hand[p], s)) + Files(d, s)
    <2>. TAKE s \in Sides
    <2>1. /\ Files(d, s) = Cardinality(FdsOf(table[p], s)) /\ Files(d, s) \in Nat
      BY <1>0, TableFiles, Zenon
    <2>2. /\ Cardinality(Mine(table[p], hand[p], s)) =
               Cardinality(FdsOf(table[p], s)) + (IF hand[p] # NoRead /\ hand[p].file.dev = s THEN 1 ELSE 0)
          /\ Cardinality(Mine(Empty, hand[p], s)) =
               Cardinality(FdsOf(Empty, s)) + (IF hand[p] # NoRead /\ hand[p].file.dev = s THEN 1 ELSE 0)
      BY <1>0, EmptyTable, MineCounts, Zenon
    <2>3. FdsOf(Empty, s) = {}
      BY EmptyTable, Zenon DEF FdsOf
    <2>4. Cardinality(FdsOf(Empty, s)) = 0
      BY <2>3, FS_EmptySet, Zenon
    <2>. QED BY <1>0, <2>1, <2>2, <2>4
  <1>. HIDE DEF d
  <1>2. /\ table' \in [Pids -> Tables]
        /\ table'[p] = Empty /\ \A x \in Pids \ {p} : table'[x] = table[x]
        /\ Counted' /\ AvailableIsRight'
        /\ clones' \in [Sides -> Nat] /\ available' \in [Sides -> BOOLEAN]
    <2>1. hand' = [hand EXCEPT ![p] = hand[p]] /\ table' = [table EXCEPT ![p] = Empty]
      BY <1>0, Zenon DEF IInv, Shapes
    <2>2. hand[p] \in {NoRead} \cup Held /\ close(d) /\ Empty \in Tables
      BY <1>0, EmptyTable, Zenon
    <2>. QED BY <1>1, <2>1, <2>2, DropStep, Zenon
  <1>3. Shapes'
    BY <1>0, <1>2, Zenon DEF IInv, Shapes
  <1>4. HandsAreRight'
    BY <1>0, <1>2, EmptyTable, Zenon DEF IInv, HandsAreRight, Opened, Shapes
  <1>. QED BY <1>2, <1>3, <1>4, Zenon DEF IInv

\* The files a spawn moves: each one leaves the parent and arrives once.
LEMMA MovedFiles ==
    ASSUME NEW p \in Pids, table[p] \in Tables, NEW ms \in SpawnMappings,
           Sources(ms) \subseteq DOMAIN table[p]
    PROVE  /\ Moved(p, ms) \in Tables /\ DOMAIN Moved(p, ms) = Targets(ms)
           /\ Left(p, ms) \in Tables /\ DOMAIN Left(p, ms) = DOMAIN table[p] \ Sources(ms)
           /\ \A x \in DOMAIN Left(p, ms) : Left(p, ms)[x] = table[p][x]
           /\ \A s : Cardinality(FdsOf(table[p], s)) =
                       Cardinality(FdsOf(Left(p, ms), s)) + Cardinality(FdsOf(Moved(p, ms), s))
  <1>. DEFINE n == Len(ms)
              Of(d) == CHOOSE i \in 1 .. n : ms[i].dst = d
              m == Moved(p, ms)
              l == Left(p, ms)
  <1>0. /\ n \in Nat /\ \A i \in 1 .. n : ms[i] \in [src : 0 .. MaxFd, dst : 0 .. MaxFd]
        /\ \A i, j \in 1 .. n : i # j => ms[i].src # ms[j].src /\ ms[i].dst # ms[j].dst
    <2>1. ms \in Seq([src : 0 .. MaxFd, dst : 0 .. MaxFd])
      BY FileTableAssumptions, Zenon
    <2>2. \A i, j \in 1 .. n : i # j => ms[i].src # ms[j].src /\ ms[i].dst # ms[j].dst
      BY FileTableAssumptions, Zenon
    <2>3. ASSUME NEW R, ms \in Seq(R) PROVE Len(ms) \in Nat /\ \A i \in 1 .. Len(ms) : ms[i] \in R
      BY <2>3
    <2>4. n \in Nat /\ \A i \in 1 .. n : ms[i] \in [src : 0 .. MaxFd, dst : 0 .. MaxFd]
      BY <2>1, <2>3, Zenon
    <2>. QED BY <2>2, <2>4, Zenon
  <1>1. \A i \in 1 .. n : ms[i].src \in 0 .. MaxFd /\ ms[i].dst \in 0 .. MaxFd
    BY <1>0, Zenon
  <1>. HIDE DEF n
  <1>2. /\ \A d \in Targets(ms) : Of(d) \in 1 .. n /\ ms[Of(d)].dst = d
        /\ \A i \in 1 .. n : ms[i].dst \in Targets(ms) /\ Of(ms[i].dst) = i
        /\ Targets(ms) \subseteq 0 .. MaxFd
    BY <1>0, <1>1, Zenon DEF Targets, n
  <1>3. \A i \in 1 .. n : ms[i].src \in Sources(ms)
    BY Zenon DEF Sources, n
  <1>4. m = [d \in Targets(ms) |-> table[p][ms[Of(d)].src]]
    BY Zenon DEF Moved, n
  <1>. HIDE DEF Of, m
  <1>5. m \in Tables /\ DOMAIN m = Targets(ms)
    <2>1. \A d \in Targets(ms) : table[p][ms[Of(d)].src] \in File
      BY <1>2, <1>3, TableFacts, Zenon
    <2>2. m \in [Targets(ms) -> File]
      BY <1>4, <2>1, Zenon
    <2>. QED BY <1>2, <2>2, Zenon DEF Tables
  <1>6. l \in Tables /\ DOMAIN l = DOMAIN table[p] \ Sources(ms) /\ \A x \in DOMAIN l : l[x] = table[p][x]
    <2>1. l = Without(table[p], Sources(ms))
      BY Zenon DEF Left
    <2>. HIDE DEF l
    <2>2. l \in Tables /\ DOMAIN l = DOMAIN table[p] \ Sources(ms)
      BY <2>1, WithoutTable, Zenon
    <2>3. \A x \in DOMAIN table[p] \ Sources(ms) : l[x] = table[p][x]
      BY <2>1, WithoutTable, ZenonT(30)
    <2>. QED BY <2>2, <2>3, Zenon
  <1>. HIDE DEF l
  <1>7. ASSUME NEW s
        PROVE  Cardinality(FdsOf(table[p], s)) = Cardinality(FdsOf(l, s)) + Cardinality(FdsOf(m, s))
    <2>. DEFINE S == FdsOf(table[p], s) \cap Sources(ms)
                f == [d \in FdsOf(m, s) |-> ms[Of(d)].src]
    <2>1. f \in [FdsOf(m, s) -> S]
      BY <1>2, <1>3, <1>4, Zenon DEF FdsOf
    <2>2. \A x, y \in FdsOf(m, s) : f[x] = f[y] => x = y
      <3>1. \A x \in FdsOf(m, s) : x \in Targets(ms)
        BY <1>5, Zenon DEF FdsOf
      <3>. QED BY <1>0, <1>2, <3>1
    <2>3. \A z \in S : \E x \in FdsOf(m, s) : f[x] = z
      <3>. TAKE z \in S
      <3>1. PICK i \in 1 .. n : z = ms[i].src
        BY Zenon DEF Sources, n
      <3>2. ms[i].dst \in FdsOf(m, s) /\ f[ms[i].dst] = z
        BY <1>2, <1>4, <3>1, Zenon DEF FdsOf
      <3>. QED BY <3>2, Zenon
    <2>4. IsFiniteSet(FdsOf(m, s)) /\ IsFiniteSet(FdsOf(table[p], s)) /\ Cardinality(FdsOf(m, s)) \in Nat
      BY <1>5, MineCounts, Zenon
    <2>5. FdsOf(l, s) = FdsOf(table[p], s) \ S /\ S \subseteq FdsOf(table[p], s)
      BY <1>6, Zenon DEF FdsOf
    <2>. HIDE DEF S, f
    <2>6. Cardinality(S) = Cardinality(FdsOf(m, s))
      BY <2>1, <2>2, <2>3, <2>4, SameSize, Zenon
    <2>7. /\ Cardinality(FdsOf(table[p], s)) \in Nat
          /\ Cardinality(FdsOf(table[p], s) \ S) = Cardinality(FdsOf(table[p], s)) - Cardinality(S)
      BY <2>4, <2>5, Remove, Zenon
    <2>. QED BY <2>4, <2>5, <2>6, <2>7
  <1>. QED BY <1>5, <1>6, <1>7, Zenon DEF m, l

\* A spawn that misses a standard file drops what it moved.
LEMMA SpawnFailStep ==
    ASSUME IInv, NEW p \in Pids, NEW ms \in SpawnMappings, SpawnFail(p, ms)
    PROVE  IInv'
  <1>. DEFINE t == Left(p, ms)
              d == Handles(Moved(p, ms))
  <1>0. /\ table[p] \in Tables /\ hand[p] \in {NoRead} \cup Held
        /\ Sources(ms) \subseteq DOMAIN table[p]
        /\ table' = [table EXCEPT ![p] = t] /\ hand' = hand /\ close(d) /\ Ready(p)
        /\ UNCHANGED <<next_id, state, buffer, sent, received, panicked>>
    BY Zenon DEF SpawnFail, IInv, Shapes
  <1>1. /\ t \in Tables /\ DOMAIN t = DOMAIN table[p] \ Sources(ms) /\ Moved(p, ms) \in Tables
        /\ \A s : Cardinality(FdsOf(table[p], s)) = Cardinality(FdsOf(t, s)) + Cardinality(FdsOf(Moved(p, ms), s))
    BY <1>0, MovedFiles, Zenon
  <1>2. \A s \in Sides : /\ Files(d, s) \in Nat
                         /\ Cardinality(Mine(table[p], hand[p], s)) =
                              Cardinality(Mine(t, hand[p], s)) + Files(d, s)
    <2>. TAKE s \in Sides
    <2>1. Files(d, s) = Cardinality(FdsOf(Moved(p, ms), s)) /\ Files(d, s) \in Nat
      BY <1>1, TableFiles, Zenon
    <2>t. table[p] \in Tables /\ t \in Tables BY <1>0, <1>1, Zenon
    <2>. HIDE DEF t
    <2>a. Cardinality(Mine(table[p], hand[p], s)) =
               Cardinality(FdsOf(table[p], s)) + (IF hand[p] # NoRead /\ hand[p].file.dev = s THEN 1 ELSE 0)
      BY <2>t, MineCounts, Zenon
    <2>b. /\ Cardinality(Mine(t, hand[p], s)) =
               Cardinality(FdsOf(t, s)) + (IF hand[p] # NoRead /\ hand[p].file.dev = s THEN 1 ELSE 0)
          /\ Cardinality(FdsOf(t, s)) \in Nat
      BY <2>t, MineCounts, Zenon
    <2>3. Cardinality(FdsOf(table[p], s)) = Cardinality(FdsOf(t, s)) + Cardinality(FdsOf(Moved(p, ms), s))
      BY <1>1, Zenon
    <2>. HIDE DEF d
    <2>. QED BY <2>1, <2>a, <2>b, <2>3, SMTT(30)
  <1>. HIDE DEF t, d
  <1>3. /\ table' \in [Pids -> Tables]
        /\ table'[p] = t /\ \A x \in Pids \ {p} : table'[x] = table[x]
        /\ Counted' /\ AvailableIsRight'
        /\ clones' \in [Sides -> Nat] /\ available' \in [Sides -> BOOLEAN]
    <2>1. hand' = [hand EXCEPT ![p] = hand[p]] /\ table' = [table EXCEPT ![p] = t]
      BY <1>0, Zenon DEF IInv, Shapes
    <2>2. hand[p] \in {NoRead} \cup Held /\ close(d) /\ t \in Tables
      BY <1>0, <1>1, Zenon
    <2>. QED BY <1>2, <2>1, <2>2, DropStep, Zenon
  <1>4. Shapes'
    BY <1>0, <1>3, Zenon DEF IInv, Shapes
  <1>5. HandsAreRight'
    BY <1>0, <1>1, <1>3, Zenon DEF IInv, HandsAreRight, Opened
  <1>. QED BY <1>3, <1>4, <1>5, Zenon DEF IInv

\* The table of a new process has what was moved into it and the standard files that
\* its parent still has.
LEMMA ChildFiles ==
    ASSUME NEW p \in Pids, table[p] \in Tables, NEW ms \in SpawnMappings,
           Sources(ms) \subseteq DOMAIN table[p], std_needed(ms) \subseteq DOMAIN Left(p, ms)
    PROVE  /\ Child(p, ms) \in Tables /\ DOMAIN Child(p, ms) = Targets(ms) \cup Std
           /\ Inherited(p, std_needed(ms)) \in Tables
           /\ \A s : FdsOf(Inherited(p, std_needed(ms)), s) \subseteq FdsOf(table[p], s)
           /\ \A s : Cardinality(FdsOf(Child(p, ms), s)) =
                       Cardinality(FdsOf(Moved(p, ms), s)) + Cardinality(FdsOf(Inherited(p, std_needed(ms)), s))
  <1>. DEFINE m == Moved(p, ms)
              i == Inherited(p, std_needed(ms))
              c == Child(p, ms)
  <1>1. m \in Tables /\ DOMAIN m = Targets(ms) /\ DOMAIN Left(p, ms) = DOMAIN table[p] \ Sources(ms)
    BY MovedFiles, Zenon
  <1>2. /\ DOMAIN i = std_needed(ms) /\ std_needed(ms) \subseteq DOMAIN table[p]
        /\ \A fd \in DOMAIN i : i[fd] = table[p][fd]
    BY <1>1, Zenon DEF Inherited
  <1>3. i \in Tables
    <2>1. i \in [std_needed(ms) -> File] /\ std_needed(ms) \in SUBSET (0 .. MaxFd)
      BY <1>2, TableFacts, Zenon DEF Inherited
    <2>. QED BY <2>1, Zenon DEF Tables
  <1>4. c = [x \in DOMAIN m \cup DOMAIN i |-> IF x \in DOMAIN m THEN m[x] ELSE i[x]]
    BY <1>1, <1>2, Zenon DEF Child
  <1>. HIDE DEF m, i, c
  <1>5. DOMAIN c = DOMAIN m \cup DOMAIN i /\ DOMAIN m \cup DOMAIN i = Targets(ms) \cup Std
    BY <1>1, <1>2, <1>4, Zenon DEF std_needed
  <1>6. c \in Tables
    <2>1. /\ DOMAIN m \subseteq 0 .. MaxFd /\ DOMAIN i \subseteq 0 .. MaxFd
          /\ \A x \in DOMAIN m : m[x] \in File
          /\ \A x \in DOMAIN i : i[x] \in File
      BY <1>1, <1>3, TableFacts, Zenon
    <2>2. c \in [DOMAIN m \cup DOMAIN i -> File] /\ DOMAIN m \cup DOMAIN i \in SUBSET (0 .. MaxFd)
      BY <1>4, <2>1, Zenon
    <2>. QED BY <2>2, Zenon DEF Tables
  <1>7. \A s : FdsOf(i, s) \subseteq FdsOf(table[p], s)
    BY <1>2, Zenon DEF FdsOf
  <1>8. ASSUME NEW s
        PROVE  Cardinality(FdsOf(c, s)) = Cardinality(FdsOf(m, s)) + Cardinality(FdsOf(i, s))
    <2>1. FdsOf(c, s) = FdsOf(m, s) \cup FdsOf(i, s)
      BY <1>1, <1>2, <1>4, <1>5, Zenon DEF FdsOf, std_needed
    <2>2. Disjoint(FdsOf(m, s), FdsOf(i, s))
      BY <1>1, <1>2, Zenon DEF FdsOf, std_needed, Disjoint
    <2>3. IsFiniteSet(FdsOf(m, s)) /\ IsFiniteSet(FdsOf(i, s))
      BY <1>1, <1>3, MineCounts, Zenon
    <2>. QED BY <2>1, <2>2, <2>3, Together, Zenon
  <1>. QED BY <1>3, <1>5, <1>6, <1>7, <1>8, Zenon DEF m, i, c

\* The index a new process starts with: 3, if its files were mapped to standard descriptors.
LEMMA NextIdRange ==
    ASSUME NEW ms \in SpawnMappings
    PROVE  /\ NextId(ms) \in 3 .. MaxFd + 1
           /\ Targets(ms) \subseteq Std => NextId(ms) = 3
  <1>. DEFINE last == IF std_needed(ms) # {} THEN Max(std_needed(ms)) ELSE ms[Len(ms)].dst
  <1>1. Len(ms) \in Nat /\ \A i \in 1 .. Len(ms) : ms[i].dst \in 0 .. MaxFd /\ ms[i].dst \in Targets(ms)
    <2>1. ms \in Seq([src : 0 .. MaxFd, dst : 0 .. MaxFd])
      BY FileTableAssumptions, Zenon
    <2>2. ASSUME NEW R, ms \in Seq(R) PROVE Len(ms) \in Nat /\ \A i \in 1 .. Len(ms) : ms[i] \in R
      BY <2>2
    <2>3. Len(ms) \in Nat /\ \A i \in 1 .. Len(ms) : ms[i] \in [src : 0 .. MaxFd, dst : 0 .. MaxFd]
      BY <2>1, <2>2, Zenon
    <2>. QED BY <2>3, Zenon DEF Targets
  <1>2. last \in 0 .. MaxFd /\ (Targets(ms) \subseteq Std => last \in Std)
    <2>1. CASE std_needed(ms) # {}
      <3>1. PICK x \in std_needed(ms) : \A y \in std_needed(ms) : x >= y
        <4>1. std_needed(ms) \subseteq {0, 1, 2}
          BY DEF std_needed, Std
        <4>. QED BY <2>1, <4>1
      <3>2. Max(std_needed(ms)) \in std_needed(ms)
        BY <3>1, Zenon DEF Max
      <3>. QED BY <2>1, <3>2, FileTableAssumptions DEF std_needed, Std
    <2>2. CASE std_needed(ms) = {}
      <3>1. 0 \in Targets(ms)
        BY <2>2 DEF std_needed, Std
      <3>2. Len(ms) \in 1 .. Len(ms)
        BY <1>1, <3>1 DEF Targets
      <3>. QED BY <1>1, <2>2, <3>2, Zenon
    <2>. QED BY <2>1, <2>2, Zenon
  <1>3. NextId(ms) = Max({last + 1, 3})
    BY Zenon DEF NextId
  <1>. HIDE DEF last
  <1>4. Max({last + 1, 3}) \in {last + 1, 3} /\ \A y \in {last + 1, 3} : Max({last + 1, 3}) >= y
    <2>1. \E x \in {last + 1, 3} : \A y \in {last + 1, 3} : x >= y
      BY <1>2, FileTableAssumptions
    <2>. QED BY <2>1, Zenon DEF Max
  <1>. QED BY <1>2, <1>3, <1>4, FileTableAssumptions DEF Std

\* A spawn moves files from the parent to the child and clones the standard ones:
\* the handles grow by the clones, and so do the counters.
LEMMA SpawnOkStep ==
    ASSUME IInv, NEW p \in Pids, NEW c \in Pids, NEW ms \in SpawnMappings, SpawnOk(p, c, ms)
    PROVE  IInv'
  <1>. DEFINE l == Left(p, ms)
              k == Child(p, ms)
              i == Inherited(p, std_needed(ms))
  <1>0. /\ table[p] \in Tables /\ p # c /\ Ready(p) /\ hand[c] = NoRead
        /\ DOMAIN table[c] = {} /\ state[c] = "unborn"
        /\ Sources(ms) \subseteq DOMAIN table[p] /\ std_needed(ms) \subseteq DOMAIN l
        /\ table' = [table EXCEPT ![p] = l, ![c] = k]
        /\ clones' = [s \in Sides |-> clones[s] + Cardinality(FdsOf(i, s))]
        /\ next_id' = [next_id EXCEPT ![c] = NextId(ms)]
        /\ state' = [state EXCEPT ![c] = "ready"]
        /\ UNCHANGED <<hand, available, buffer, sent, received, panicked>>
    BY Zenon DEF SpawnOk, IInv, Shapes, HandsAreRight, Ready, clone_device, FdsOf
  <1>1. /\ l \in Tables /\ k \in Tables /\ i \in Tables
        /\ DOMAIN l = DOMAIN table[p] \ Sources(ms)
        /\ \A s : /\ FdsOf(i, s) \subseteq FdsOf(table[p], s)
                  /\ Cardinality(FdsOf(table[p], s)) =
                       Cardinality(FdsOf(l, s)) + Cardinality(FdsOf(Moved(p, ms), s))
                  /\ Cardinality(FdsOf(k, s)) = Cardinality(FdsOf(Moved(p, ms), s)) + Cardinality(FdsOf(i, s))
    <2>1. table[p] \in Tables /\ Sources(ms) \subseteq DOMAIN table[p] /\ std_needed(ms) \subseteq DOMAIN Left(p, ms)
      BY <1>0, Zenon
    <2>2. /\ l \in Tables /\ DOMAIN l = DOMAIN table[p] \ Sources(ms)
          /\ \A s : Cardinality(FdsOf(table[p], s)) =
                       Cardinality(FdsOf(l, s)) + Cardinality(FdsOf(Moved(p, ms), s))
      BY <2>1, MovedFiles, Zenon
    <2>3. /\ k \in Tables /\ i \in Tables
          /\ \A s : FdsOf(i, s) \subseteq FdsOf(table[p], s)
          /\ \A s : Cardinality(FdsOf(k, s)) = Cardinality(FdsOf(Moved(p, ms), s)) + Cardinality(FdsOf(i, s))
      BY <2>1, ChildFiles, Zenon
    <2>. HIDE DEF l, k, i
    <2>. QED BY <2>2, <2>3, Zenon
  <1>a. \A s : Cardinality(FdsOf(Moved(p, ms), s)) \in Nat
    <2>1. Moved(p, ms) \in Tables
      BY <1>0, MovedFiles, Zenon
    <2>. QED BY <2>1, MineCounts, Zenon
  <1>. HIDE DEF l, k, i
  <1>2. /\ table' \in [Pids -> Tables] /\ table'[p] = l /\ table'[c] = k
        /\ \A x \in Pids \ {p, c} : table'[x] = table[x]
    BY <1>0, <1>1, Zenon DEF IInv, Shapes
  <1>3. ASSUME NEW s \in Sides
        PROVE  /\ Cardinality(FdsOf(i, s)) \in Nat
               /\ Cardinality(HandlesOf(s)') = Cardinality(HandlesOf(s)) + Cardinality(FdsOf(i, s))
               /\ Cardinality(FdsOf(i, s)) > 0 => HandlesOf(s) # {}
    <2>. DEFINE gone == {p} \X FdsOf(table[p], s)
                new == ({p} \X FdsOf(l, s)) \cup ({c} \X FdsOf(k, s))
    <2>1. HandlesOf(s) = All(table, hand, s) /\ HandlesOf(s)' = All(table', hand', s)
      BY <1>2, HandlesAreAll, HandlesAreAllNext, Zenon DEF IInv, Shapes
    <2>2. /\ IsFiniteSet(FdsOf(table[p], s)) /\ IsFiniteSet(FdsOf(l, s)) /\ IsFiniteSet(FdsOf(k, s))
          /\ IsFiniteSet(FdsOf(i, s))
      BY <1>0, <1>1, MineCounts, Zenon
    <2>3. /\ FdsOf(table[p], s) \subseteq 0 .. MaxFd /\ FdsOf(l, s) \subseteq 0 .. MaxFd
          /\ FdsOf(k, s) \subseteq 0 .. MaxFd
      BY <1>0, <1>1, TableFacts, Zenon DEF FdsOf
    <2>a. \A x : x \in 0 .. MaxFd => x \in 0 .. MaxFd + 1 /\ x # MaxFd + 1
      BY FileTableAssumptions
    <2>4. gone \subseteq HandlesOf(s)
      BY <2>1, <2>3, <2>a, Zenon DEF All, Mine
    <2>5. HandlesOf(s)' = (HandlesOf(s) \ gone) \cup new
      <3>1. FdsOf(table[c], s) = {} /\ HandOf(hand[c], s) = {} /\ hand' = hand
        BY <1>0, Zenon DEF FdsOf, HandOf
      <3>2. HandOf(hand[p], s) \subseteq {MaxFd + 1}
        BY Zenon DEF HandOf
      <3>3. /\ Mine(table'[p], hand'[p], s) = FdsOf(l, s) \cup HandOf(hand[p], s)
            /\ Mine(table[p], hand[p], s) = FdsOf(table[p], s) \cup HandOf(hand[p], s)
            /\ Mine(table'[c], hand'[c], s) = FdsOf(k, s) /\ Mine(table[c], hand[c], s) = {}
            /\ \A x \in Pids \ {p, c} : Mine(table'[x], hand'[x], s) = Mine(table[x], hand[x], s)
        BY <1>2, <3>1, Zenon DEF Mine
      <3>4. HandlesOf(s)' \subseteq (HandlesOf(s) \ gone) \cup new
        BY <1>0, <2>1, <2>3, <2>a, <3>2, <3>3, ZenonT(30) DEF All
      <3>5. new \subseteq HandlesOf(s)'
        BY <2>1, <2>3, <2>a, <3>3, Zenon DEF All
      <3>6. HandlesOf(s) \ gone \subseteq HandlesOf(s)'
        <4>. SUFFICES ASSUME NEW z \in HandlesOf(s), z \notin gone PROVE z \in HandlesOf(s)'
          BY Zenon
        <4>. HIDE DEF gone
        <4>1. PICK x \in Pids, y \in 0 .. MaxFd + 1 : z = <<x, y>> /\ y \in Mine(table[x], hand[x], s)
          BY <2>1 DEF All
        <4>2. y \in Mine(table'[x], hand'[x], s)
          <5>1. x = p => y \notin FdsOf(table[p], s)
            BY <4>1, Zenon DEF gone
          <5>. QED BY <3>3, <4>1, <5>1, Zenon
        <4>. QED BY <2>1, <4>1, <4>2, Zenon DEF All
      <3>. QED BY <3>4, <3>5, <3>6, Zenon
    <2>6. Disjoint(new, HandlesOf(s) \ gone)
      <3>1. FdsOf(table[c], s) = {} /\ HandOf(hand[c], s) = {} /\ HandOf(hand[p], s) \subseteq {MaxFd + 1}
        BY <1>0, Zenon DEF FdsOf, HandOf
      <3>. QED BY <2>1, <2>3, <2>a, <3>1, Zenon DEF All, Mine, Disjoint
    <2>7. /\ IsFiniteSet(gone) /\ Cardinality(gone) = Cardinality(FdsOf(table[p], s))
          /\ IsFiniteSet({p} \X FdsOf(l, s)) /\ Cardinality({p} \X FdsOf(l, s)) = Cardinality(FdsOf(l, s))
          /\ IsFiniteSet({c} \X FdsOf(k, s)) /\ Cardinality({c} \X FdsOf(k, s)) = Cardinality(FdsOf(k, s))
      BY <2>2, PairCounts, Zenon
    <2>8. Disjoint({p} \X FdsOf(l, s), {c} \X FdsOf(k, s))
      BY <1>0, Zenon DEF Disjoint
    <2>9. IsFiniteSet(new) /\ Cardinality(new) = Cardinality(FdsOf(l, s)) + Cardinality(FdsOf(k, s))
      BY <2>7, <2>8, Together
    <2>. HIDE DEF gone, new
    <2>10. IsFiniteSet(HandlesOf(s))
      BY HandlesFinite, Zenon
    <2>11. Cardinality((HandlesOf(s) \ gone) \cup new) = Cardinality(HandlesOf(s)) - Cardinality(gone) + Cardinality(new)
      <3>. DEFINE rest == HandlesOf(s) \ gone
      <3>1. /\ IsFiniteSet(rest) /\ Cardinality(HandlesOf(s)) \in Nat /\ Cardinality(gone) \in Nat
            /\ Cardinality(rest) = Cardinality(HandlesOf(s)) - Cardinality(gone)
        BY <2>4, <2>10, Remove, Zenon
      <3>2. Disjoint(rest, new)
        BY <2>6, Zenon DEF Disjoint
      <3>3. IsFiniteSet(new)
        BY <2>9, Zenon
      <3>. HIDE DEF rest
      <3>4. Cardinality(rest \cup new) = Cardinality(rest) + Cardinality(new) /\ Cardinality(new) \in Nat
        BY <3>1, <3>2, <3>3, Together, Zenon
      <3>. QED BY <3>1, <3>4, Zenon DEF rest
    <2>12. /\ Cardinality(FdsOf(l, s)) \in Nat /\ Cardinality(FdsOf(i, s)) \in Nat
           /\ Cardinality(HandlesOf(s)) \in Nat
      BY <2>2, <2>10, FS_CardinalityType, Zenon
    <2>13. Cardinality(FdsOf(i, s)) > 0 => HandlesOf(s) # {}
      <3>1. FdsOf(i, s) = {} => Cardinality(FdsOf(i, s)) = 0
        BY FS_EmptySet, Zenon
      <3>2. FdsOf(table[p], s) # {} => gone # {}
        <4>1. \A x \in FdsOf(table[p], s) : <<p, x>> \in gone
          BY Zenon DEF gone
        <4>. QED BY <4>1, Zenon
      <3>. QED BY <1>1, <2>4, <3>1, <3>2
    <2>. QED BY <1>1, <1>a, <2>5, <2>7, <2>9, <2>11, <2>12, <2>13, SMTT(30)
  <1>4. Counted'
    BY <1>0, <1>3, Zenon DEF IInv, Counted
  <1>5. AvailableIsRight' /\ clones' \in [Sides -> Nat]
    <2>1. ASSUME NEW s \in Sides PROVE clones'[s] \in Nat /\ (clones'[s] > 0 <=> clones[s] > 0)
      <3>1. clones'[s] = clones[s] + Cardinality(FdsOf(i, s)) /\ clones[s] \in Nat
        BY <1>0, Zenon DEF IInv, Shapes
      <3>2. HandlesOf(s) # {} => clones[s] > 0
        BY HandleCounts, Zenon
      <3>. QED BY <1>3, <3>1, <3>2
    <2>2. clones' \in [Sides -> Nat]
      BY <1>0, <2>1, Zenon
    <2>. QED BY <1>0, <2>1, <2>2, Zenon DEF IInv, AvailableIsRight
  <1>6. Shapes'
    <2>1. NextId(ms) \in 0 .. MaxFd + 1
      BY NextIdRange, FileTableAssumptions
    <2>2. next_id' \in [Pids -> 0 .. MaxFd + 1]
      BY <1>0, <2>1, Zenon DEF IInv, Shapes
    <2>. QED BY <1>0, <1>2, <1>5, <2>2, Zenon DEF IInv, Shapes
  <1>7. HandsAreRight'
    BY <1>0, <1>1, <1>2, ZenonT(30) DEF IInv, HandsAreRight, Opened, Shapes, Ready
  <1>. QED BY <1>4, <1>5, <1>6, <1>7, Zenon DEF IInv

\* exit_idle_processes closes every table; what blocking reads hold stays.
LEMMA ShutdownStep ==
    ASSUME IInv, Shutdown
    PROVE  IInv'
  <1>. DEFINE d == UNION {{<<<<p, h[1]>>, h[2]>> : h \in Handles(table[p])} : p \in Pids}
  <1>0. /\ table' = [p \in Pids |-> Empty] /\ hand' = hand /\ close(d)
        /\ state' = [p \in Pids |-> IF state[p] = "unborn" THEN "unborn" ELSE "gone"]
        /\ UNCHANGED <<next_id, buffer, sent, received, panicked>>
    BY Zenon DEF Shutdown
  <1>1. \A z : z \in d <=> \E p \in Pids : \E fd \in DOMAIN table[p] : z = <<<<p, fd>>, table[p][fd]>>
    <2>1. ASSUME NEW z \in d PROVE \E p \in Pids : \E fd \in DOMAIN table[p] : z = <<<<p, fd>>, table[p][fd]>>
      <3>1. PICK p \in Pids : z \in {<<<<p, h[1]>>, h[2]>> : h \in Handles(table[p])}
        BY Zenon
      <3>2. PICK h \in Handles(table[p]) : z = <<<<p, h[1]>>, h[2]>>
        BY <3>1, Zenon
      <3>3. PICK fd \in DOMAIN table[p] : h = <<fd, table[p][fd]>>
        BY Zenon DEF Handles
      <3>. QED BY <3>2, <3>3, Zenon
    <2>2. ASSUME NEW p \in Pids, NEW fd \in DOMAIN table[p] PROVE <<<<p, fd>>, table[p][fd]>> \in d
      <3>. DEFINE h == <<fd, table[p][fd]>>
                  P == {<<<<p, g[1]>>, g[2]>> : g \in Handles(table[p])}
      <3>1. h \in Handles(table[p]) /\ <<<<p, h[1]>>, h[2]>> = <<<<p, fd>>, table[p][fd]>>
        BY Zenon DEF Handles
      <3>2. <<<<p, fd>>, table[p][fd]>> \in P
        BY <3>1, Zenon
      <3>3. P \in {{<<<<q, g[1]>>, g[2]>> : g \in Handles(table[q])} : q \in Pids}
        BY Zenon
      <3>. QED BY <3>2, <3>3, Zenon
    <2>. HIDE DEF d
    <2>. QED BY <2>1, <2>2, Zenon
  <1>. HIDE DEF d
  <1>2. \A p \in Pids : DOMAIN table[p] \subseteq 0 .. MaxFd
    BY TableFacts, Zenon DEF IInv, Shapes
  <1>3. ASSUME NEW s \in Sides
        PROVE  /\ Files(d, s) \in 0 .. Cardinality(HandlesOf(s))
               /\ Cardinality(HandlesOf(s)') = Cardinality(HandlesOf(s)) - Files(d, s)
    <2>. DEFINE D == {h \in d : h[2].dev = s}
                f == [x \in InTable(s) |-> <<x, table[x[1]][x[2]]>>]
    <2>1. f \in [InTable(s) -> D]
      BY <1>1 DEF InTable, Opened
    <2>2. \A x, y \in InTable(s) : f[x] = f[y] => x = y
      BY Zenon
    <2>3. \A z \in D : \E x \in InTable(s) : f[x] = z
      <3>. TAKE z \in D
      <3>1. PICK p \in Pids : \E fd \in DOMAIN table[p] : z = <<<<p, fd>>, table[p][fd]>>
        BY <1>1, Zenon
      <3>a. PICK fd \in DOMAIN table[p] : z = <<<<p, fd>>, table[p][fd]>>
        BY <3>1, Zenon
      <3>2. <<p, fd>> \in InTable(s)
        BY <1>2, <3>a, Zenon DEF InTable, Opened
      <3>3. f[<<p, fd>>] = z
        BY <3>a, <3>2, Zenon
      <3>. QED BY <3>2, <3>3, Zenon
    <2>4. IsFiniteSet(InTable(s)) /\ IsFiniteSet(InHand(s)) /\ Disjoint(InTable(s), InHand(s))
      BY HandlesFinite, Zenon DEF Disjoint
    <2>. HIDE DEF D, f
    <2>5. Cardinality(D) = Cardinality(InTable(s))
      BY <2>1, <2>2, <2>3, <2>4, SameSize, ZenonT(30)
    <2>6. /\ Cardinality(InTable(s)) \in Nat /\ Cardinality(InHand(s)) \in Nat
          /\ Cardinality(InTable(s) \cup InHand(s)) = Cardinality(InTable(s)) + Cardinality(InHand(s))
      BY <2>4, Together, Zenon
    <2>7. HandlesOf(s)' = InHand(s)
      BY <1>0, EmptyTable, Zenon DEF HandlesOf, InTable, InHand, Opened
    <2>8. Files(d, s) = Cardinality(D)
      BY Zenon DEF Files, D
    <2>9. Cardinality(HandlesOf(s)) = Cardinality(InTable(s)) + Cardinality(InHand(s))
      BY <2>6, Zenon DEF HandlesOf
    <2>10. Cardinality(HandlesOf(s)') = Cardinality(InHand(s))
      BY <2>7, Zenon
    <2>. QED BY <2>5, <2>6, <2>8, <2>9, <2>10
  <1>4. /\ Counted' /\ AvailableIsRight'
        /\ clones' \in [Sides -> Nat] /\ available' \in [Sides -> BOOLEAN]
    BY <1>0, <1>3, DropHandles, Zenon
  <1>5. Shapes'
    <2>1. table' \in [Pids -> Tables]
      BY <1>0, EmptyTable, Zenon
    <2>2. state' \in [Pids -> {"unborn", "ready", "reading", "exited", "gone"}]
      BY <1>0, Zenon
    <2>. QED BY <1>0, <1>4, <2>1, <2>2, Zenon DEF IInv, Shapes
  <1>6. HandsAreRight'
    BY <1>0, EmptyTable, Zenon DEF IInv, HandsAreRight, Opened, Shapes
  <1>. QED BY <1>4, <1>5, <1>6, Zenon DEF IInv

\* load_init_process: nothing is a pipe yet.
LEMMA InitIsRight == Init => IInv
  <1>. SUFFICES ASSUME Init PROVE IInv
    BY Zenon
  <1>1. ASSUME NEW p \in Pids PROVE table[p] \in Tables /\ \A fd \in DOMAIN table[p] : table[p][fd].dev = Console
    <2>1. CASE p = 0
      <3>. DEFINE t == [fd \in Std |-> [dev |-> Console, mode |-> "Line"]]
      <3>1. t \in [Std -> File] /\ Std \in SUBSET (0 .. MaxFd)
        BY FileTableAssumptions DEF File, Modes, Std
      <3>2. table[p] = t
        BY <2>1, Zenon DEF Init
      <3>3. \A fd \in Std : t[fd].dev = Console
        BY Zenon
      <3>. HIDE DEF t
      <3>. QED BY <3>1, <3>2, <3>3, Zenon DEF Tables
    <2>2. CASE p # 0
      BY <2>2, EmptyTable, Zenon DEF Init
    <2>. QED BY <2>1, <2>2, Zenon
  <1>2. Shapes
    <2>1. table \in [Pids -> Tables]
      BY <1>1, Zenon DEF Init
    <2>2. next_id \in [Pids -> 0 .. MaxFd + 1]
      BY FileTableAssumptions DEF Init
    <2>3. /\ hand \in [Pids -> {NoRead} \cup Held]
          /\ state \in [Pids -> {"unborn", "ready", "reading", "exited", "gone"}]
      BY Zenon DEF Init
    <2>4. clones \in [Sides -> Nat] /\ available \in [Sides -> BOOLEAN] /\ panicked \in BOOLEAN
      BY Zenon DEF Init
    <2>5. /\ buffer \in [Pipes -> Seq(Bytes)] /\ sent \in [Pipes -> Seq(Bytes)]
          /\ received \in [Pipes -> Seq(Bytes)]
      BY DEF Init
    <2>. QED BY <2>1, <2>2, <2>3, <2>4, <2>5, Zenon DEF Shapes
  <1>3. HandsAreRight
    BY EmptyTable, Zenon DEF Init, HandsAreRight
  <1>4. \A s \in Sides : HandlesOf(s) = {}
    BY <1>1, Distinct, ZenonT(30) DEF Init, HandlesOf, InTable, InHand, Opened
  <1>5. Counted /\ AvailableIsRight
    <2>1. \A s \in Sides : Cardinality(HandlesOf(s)) = 0
      BY <1>4, FS_EmptySet, Zenon
    <2>. QED BY <2>1, SMTT(30) DEF Init, Counted, AvailableIsRight
  <1>. QED BY <1>2, <1>3, <1>5, Zenon DEF IInv

\* Every step keeps the invariant.
LEMMA NextStep == IInv /\ [Next]_vars => IInv'
  <1>. SUFFICES ASSUME IInv, [Next]_vars PROVE IInv'
    BY Zenon
  <1>1. CASE UNCHANGED vars
    <2>1. Shapes' /\ HandsAreRight'
      BY <1>1, Zenon DEF vars, IInv, Shapes, HandsAreRight, Opened
    <2>2. Counted' /\ AvailableIsRight'
      BY <1>1, FilesStay, Zenon DEF vars
    <2>. QED BY <2>1, <2>2, Zenon DEF IInv
  <1>2. ASSUME NEW p \in Pids, sys_open(p) \/ sys_exit(p) \/ Reap(p) \/ ReadPipe(p) \/ ReadConsole(p) \/ ReadError(p)
        PROVE  IInv'
    BY <1>2, OpenStep, ExitStep, ReapStep, ReadPipeStep, ReadConsoleStep, ReadErrorStep, Zenon
  <1>3. ASSUME NEW p \in Pids, NEW q \in Pipes, sys_create_pipe(p, q) PROVE IInv'
    BY <1>3, CreatePipeStep, Zenon
  <1>4. ASSUME NEW p \in Pids, NEW fd \in UserFds, ReadNow(p, fd) \/ ReadBegin(p, fd) \/ sys_close(p, fd) PROVE IInv'
    BY <1>4, ReadNowStep, ReadBeginStep, CloseStep, Zenon
  <1>5. ASSUME NEW p \in Pids, NEW fd \in UserFds, NEW b \in Bytes, sys_write(p, fd, b) PROVE IInv'
    BY <1>5, WriteStep, Zenon
  <1>6. ASSUME NEW p \in Pids, NEW fd \in UserFds, NEW m \in SetModes, sys_set_blocking(p, fd, m) PROVE IInv'
    BY <1>6, SetBlockingStep, Zenon
  <1>7. ASSUME NEW p \in Pids, NEW ms \in SpawnMappings, SpawnFail(p, ms) PROVE IInv'
    BY <1>7, SpawnFailStep, Zenon
  <1>8. ASSUME NEW p \in Pids, NEW ms \in SpawnMappings, NEW c \in Pids, SpawnOk(p, c, ms) PROVE IInv'
    BY <1>8, SpawnOkStep, Zenon
  <1>9. CASE Shutdown \/ Unmount
    BY <1>9, ShutdownStep, UnmountStep, Zenon
  <1>. QED BY <1>1, <1>2, <1>3, <1>4, <1>5, <1>6, <1>7, <1>8, <1>9, Zenon DEF Next

\* The counts and the availability of every pipe side are right in every behaviour.
LEMMA AlwaysRight == Spec => []IInv
  BY InitIsRight, NextStep, PTL DEF Spec
------------------------------------------------------------------------------
(***************************************************************************)
(* The next index.                                                         *)
(***************************************************************************)
\* What callers of spawn do: files are mapped to standard descriptors.
StdMappings == \A ms \in SpawnMappings : Targets(ms) \subseteq Std

\* Every descriptor of a process, the one of a blocking read included, is below the
\* index its next file gets.
BelowNext(x) == /\ \A fd \in DOMAIN table[x] : fd < next_id[x]
                /\ hand[x] # NoRead => hand[x].fd < next_id[x]
NextIsFree == \A x \in Pids : BelowNext(x)

\* Steps that open no file.
LEMMA NothingOpened ==
    ASSUME NextIsFree, hand' = hand, next_id' = next_id,
           \A x \in Pids : DOMAIN table'[x] \subseteq DOMAIN table[x]
    PROVE  NextIsFree'
  BY Zenon DEF NextIsFree, BelowNext

\* With files mapped to standard descriptors the next index stays above all others.
LEMMA NextIsFreeStep ==
    ASSUME StdMappings, IInv, NextIsFree, [Next]_vars
    PROVE  NextIsFree'
  <1>0. /\ \A x \in Pids : /\ table[x] \in Tables /\ next_id[x] \in 0 .. MaxFd + 1
                           /\ DOMAIN table[x] \subseteq 0 .. MaxFd
                           /\ hand[x] # NoRead => hand[x].fd \in 0 .. MaxFd
        /\ MaxFd \in Nat
        /\ table \in [Pids -> Tables] /\ hand \in [Pids -> {NoRead} \cup Held]
        /\ next_id \in [Pids -> 0 .. MaxFd + 1]
    BY TableFacts, FileTableAssumptions, Zenon DEF IInv, Shapes, Held
  <1>1. CASE UNCHANGED vars
    BY <1>1, NothingOpened, Zenon DEF vars
  <1>2. ASSUME NEW p \in Pids, sys_open(p) PROVE NextIsFree'
    <2>1. CASE Opened(p, next_id[p])
      BY <1>2, <2>1, NothingOpened, Zenon DEF sys_open, push_fs_node
    <2>2. CASE ~Opened(p, next_id[p])
      <3>. DEFINE t == With(table[p], next_id[p], [dev |-> Console, mode |-> "None"])
      <3>1. /\ table' = [table EXCEPT ![p] = t] /\ next_id' = [next_id EXCEPT ![p] = @ + 1] /\ hand' = hand
        BY <1>2, <2>2, Zenon DEF sys_open, push_fs_node
      <3>2. DOMAIN t = DOMAIN table[p] \cup {next_id[p]}
        BY Zenon DEF With
      <3>. HIDE DEF t
      <3>3. ASSUME NEW x \in Pids PROVE BelowNext(x)'
        <4>1. CASE x = p
          <5>1. table'[x] = t /\ next_id'[x] = next_id[p] + 1 /\ hand'[x] = hand[p]
            BY <1>0, <3>1, <4>1, Zenon
          <5>2. /\ next_id[p] \in Nat /\ \A fd \in DOMAIN table[p] : fd \in Nat /\ fd < next_id[p]
                /\ hand[p] # NoRead => hand[p].fd \in Nat /\ hand[p].fd < next_id[p]
            BY <1>0 DEF NextIsFree, BelowNext
          <5>3. \A fd \in DOMAIN t : fd < next_id[p] + 1
            BY <3>2, <5>2
          <5>4. hand[p] # NoRead => hand[p].fd < next_id[p] + 1
            BY <5>2
          <5>. QED BY <5>1, <5>3, <5>4, Zenon DEF BelowNext
        <4>2. CASE x # p
          BY <1>0, <3>1, <4>2, Zenon DEF NextIsFree, BelowNext
        <4>. QED BY <4>1, <4>2, Zenon
      <3>. QED BY <3>3, Zenon DEF NextIsFree
    <2>. QED BY <2>1, <2>2, Zenon
  <1>3. ASSUME NEW p \in Pids, NEW q \in Pipes, sys_create_pipe(p, q) PROVE NextIsFree'
    <2>1. CASE Opened(p, next_id[p]) \/ Opened(p, next_id[p] + 1)
      BY <1>3, <2>1, NothingOpened, Zenon DEF sys_create_pipe
    <2>2. CASE ~(Opened(p, next_id[p]) \/ Opened(p, next_id[p] + 1))
      <3>. DEFINE t == With(With(table[p], next_id[p], [dev |-> Side(q, "r"), mode |-> "Block"]),
                            next_id[p] + 1, [dev |-> Side(q, "w"), mode |-> "None"])
      <3>1. /\ table' = [table EXCEPT ![p] = t] /\ next_id' = [next_id EXCEPT ![p] = @ + 2] /\ hand' = hand
        BY <1>3, <2>2, Zenon DEF sys_create_pipe
      <3>2. DOMAIN t = DOMAIN table[p] \cup {next_id[p], next_id[p] + 1}
        BY Zenon DEF With
      <3>. HIDE DEF t
      <3>3. ASSUME NEW x \in Pids PROVE BelowNext(x)'
        <4>1. CASE x = p
          <5>1. table'[x] = t /\ next_id'[x] = next_id[p] + 2 /\ hand'[x] = hand[p]
            BY <1>0, <3>1, <4>1, Zenon
          <5>2. /\ next_id[p] \in Nat /\ \A fd \in DOMAIN table[p] : fd \in Nat /\ fd < next_id[p]
                /\ hand[p] # NoRead => hand[p].fd \in Nat /\ hand[p].fd < next_id[p]
            BY <1>0 DEF NextIsFree, BelowNext
          <5>3. \A fd \in DOMAIN t : fd < next_id[p] + 2
            BY <3>2, <5>2
          <5>4. hand[p] # NoRead => hand[p].fd < next_id[p] + 2
            BY <5>2
          <5>. QED BY <5>1, <5>3, <5>4, Zenon DEF BelowNext
        <4>2. CASE x # p
          BY <1>0, <3>1, <4>2, Zenon DEF NextIsFree, BelowNext
        <4>. QED BY <4>1, <4>2, Zenon
      <3>. QED BY <3>3, Zenon DEF NextIsFree
    <2>. QED BY <2>1, <2>2, Zenon
  <1>4. ASSUME NEW p \in Pids, state[p] = "reading", PutBack(p),
               next_id' = next_id, clones' = clones, available' = available
        PROVE  NextIsFree'
    <2>1. \A x \in Pids : DOMAIN table'[x] = DOMAIN table[x] \cup (IF x = p THEN {hand[p].fd} ELSE {})
      BY <1>4, PutBackStep, Zenon
    <2>2. hand' = [hand EXCEPT ![p] = NoRead] /\ hand[p] # NoRead
      BY <1>4, Zenon DEF PutBack, IInv, HandsAreRight
    <2>. QED BY <1>0, <1>4, <2>1, <2>2, Zenon DEF NextIsFree, BelowNext
  <1>5. ASSUME NEW p \in Pids, ReadPipe(p) \/ ReadConsole(p) PROVE NextIsFree'
    <2>1. /\ state[p] = "reading" /\ next_id' = next_id /\ clones' = clones /\ available' = available
          /\ PutBack(p) \/ UNCHANGED <<table, hand, state, panicked>>
      BY <1>5, Zenon DEF ReadPipe, ReadConsole, Reading
    <2>2. CASE PutBack(p)
      BY <1>4, <2>1, <2>2, Zenon
    <2>3. CASE UNCHANGED <<table, hand, state, panicked>>
      BY <2>1, <2>3, NothingOpened, Zenon
    <2>. QED BY <2>1, <2>2, <2>3, Zenon
  <1>6. ASSUME NEW p \in Pids, ReadError(p) PROVE NextIsFree'
    BY <1>0, <1>6, Zenon DEF ReadError, NextIsFree, BelowNext
  <1>7. ASSUME NEW p \in Pids, NEW fd \in UserFds, ReadBegin(p, fd) PROVE NextIsFree'
    BY <1>0, <1>7, Zenon DEF ReadBegin, NextIsFree, BelowNext, Without, Opened
  <1>8. ASSUME NEW p \in Pids, NEW fd \in UserFds, sys_close(p, fd) PROVE NextIsFree'
    BY <1>0, <1>8, NothingOpened, Zenon DEF sys_close, Without
  <1>9. ASSUME NEW p \in Pids, NEW fd \in UserFds, NEW m \in SetModes, sys_set_blocking(p, fd, m) PROVE NextIsFree'
    BY <1>0, <1>9, NothingOpened, Zenon DEF sys_set_blocking
  <1>10. ASSUME NEW p \in Pids, NEW ms \in SpawnMappings, SpawnFail(p, ms) PROVE NextIsFree'
    BY <1>0, <1>10, NothingOpened, Zenon DEF SpawnFail, Left, Without
  <1>11. ASSUME NEW p \in Pids, NEW ms \in SpawnMappings, NEW c \in Pids, SpawnOk(p, c, ms) PROVE NextIsFree'
    <2>. DEFINE l == Left(p, ms)
                k == Child(p, ms)
    <2>1. /\ table' = [table EXCEPT ![p] = l, ![c] = k] /\ hand' = hand
          /\ next_id' = [next_id EXCEPT ![c] = NextId(ms)]
          /\ p # c /\ hand[c] = NoRead
      BY <1>11, Zenon DEF SpawnOk, Ready, IInv, HandsAreRight, Shapes
    <2>2. NextId(ms) = 3
      BY NextIdRange, Zenon DEF StdMappings
    <2>3. DOMAIN l \subseteq DOMAIN table[p] /\ DOMAIN k \subseteq Std
      BY Zenon DEF Left, Without, Child, StdMappings, std_needed
    <2>. HIDE DEF l, k
    <2>4. ASSUME NEW x \in Pids PROVE BelowNext(x)'
      <3>1. CASE x = c
        <4>1. table'[x] = k /\ next_id'[x] = 3 /\ hand'[x] = NoRead
          BY <1>0, <2>1, <2>2, <3>1, Zenon
        <4>2. \A fd \in DOMAIN k : fd < 3
          BY <2>3 DEF Std
        <4>. QED BY <4>1, <4>2, Zenon DEF BelowNext
      <3>2. CASE x = p
        <4>1. table'[x] = l /\ next_id'[x] = next_id[p] /\ hand'[x] = hand[p]
          BY <1>0, <2>1, <3>2, Zenon
        <4>. QED BY <2>3, <4>1, Zenon DEF NextIsFree, BelowNext
      <3>3. CASE x # p /\ x # c
        BY <1>0, <2>1, <3>3, Zenon DEF NextIsFree, BelowNext
      <3>. QED BY <3>1, <3>2, <3>3, Zenon
    <2>. QED BY <2>4, Zenon DEF NextIsFree
  <1>12. ASSUME NEW p \in Pids, Reap(p) PROVE NextIsFree'
    BY <1>0, <1>12, NothingOpened, EmptyTable, Zenon DEF Reap
  <1>13. CASE Shutdown
    BY <1>13, NothingOpened, EmptyTable, Zenon DEF Shutdown
  <1>14. CASE Unmount
    BY <1>14, NothingOpened, Zenon DEF Unmount
  <1>15. ASSUME NEW p \in Pids, sys_exit(p) PROVE NextIsFree'
    BY <1>15, NothingOpened, Zenon DEF sys_exit
  <1>16. ASSUME NEW p \in Pids, NEW fd \in UserFds, ReadNow(p, fd) PROVE NextIsFree'
    BY <1>16, NothingOpened, Zenon DEF ReadNow
  <1>17. ASSUME NEW p \in Pids, NEW fd \in UserFds, NEW b \in Bytes, sys_write(p, fd, b) PROVE NextIsFree'
    BY <1>17, NothingOpened, Zenon DEF sys_write
  <1>. QED BY <1>1, <1>2, <1>3, <1>5, <1>6, <1>7, <1>8, <1>9, <1>10, <1>11, <1>12, <1>13,
              <1>14, <1>15, <1>16, <1>17, Zenon DEF Next
------------------------------------------------------------------------------
(***************************************************************************)
(* What holds of every behaviour.                                          *)
(***************************************************************************)
\* The invariant gives the counts the run checks.
LEMMA CountsFromInvariant == IInv => ClonesCountHandles
  <1>. SUFFICES ASSUME IInv PROVE ClonesCountHandles
    BY Zenon
  <1>1. ASSUME NEW p \in Pids
        PROVE  /\ DOMAIN table[p] \subseteq 0 .. MaxFd
               /\ \A fd \in DOMAIN table[p] : table[p][fd] \in File
               /\ hand[p] = NoRead \/ hand[p] \in [fd : 0 .. MaxFd, file : File]
    BY TableFacts, Zenon DEF IInv, Shapes, Held
  <1>2. TypeOK
    BY <1>1, Zenon DEF IInv, Shapes, TypeOK
  <1>. QED BY <1>2, Zenon DEF ClonesCountHandles, IInv, Counted

\* PipeSide.clones is the number of handles on its side over all processes, for any
\* number of processes and pipes and whatever files a spawn maps: a failing spawn or
\* read, an exit and a shutdown included.
THEOREM ClonesAlwaysCount == Spec => []ClonesCountHandles
  BY AlwaysRight, CountsFromInvariant, PTL

\* The assertions of put_fs_node and push_fs_node never fail, and the clones are
\* counted, as long as spawn maps files to standard descriptors only.
THEOREM HandlesAlwaysRight ==
    ASSUME StdMappings
    PROVE  Spec => []HandlesAreRight
  <1>1. Init => NextIsFree
    <2>. SUFFICES ASSUME Init PROVE NextIsFree
      BY Zenon
    <2>1. ASSUME NEW x \in Pids PROVE BelowNext(x)
      <3>1. CASE x = 0
        <4>1. DOMAIN table[x] = Std /\ next_id[x] = 3 /\ hand[x] = NoRead
          BY <3>1, Zenon DEF Init
        <4>. QED BY <4>1 DEF BelowNext, Std
      <3>2. CASE x # 0
        <4>1. table[x] = Empty /\ hand[x] = NoRead
          BY <3>2, Zenon DEF Init
        <4>. QED BY <4>1, EmptyTable, Zenon DEF BelowNext
      <3>. QED BY <3>1, <3>2, Zenon
    <2>. QED BY <2>1, Zenon DEF NextIsFree
  <1>2. IInv /\ NextIsFree /\ [Next]_vars => NextIsFree'
    BY NextIsFreeStep, Zenon
  <1>3. IInv /\ NextIsFree => DescriptorsAreFree
    <2>. SUFFICES ASSUME IInv, NextIsFree, NEW p \in Pids
                  PROVE  /\ state[p] = "reading" => ~Opened(p, hand[p].fd)
                         /\ state[p] = "ready" => ~Opened(p, next_id[p])
      BY Zenon DEF DescriptorsAreFree
    <2>1. state[p] = "reading" => ~Opened(p, hand[p].fd)
      BY Zenon DEF IInv, HandsAreRight
    <2>2. ~Opened(p, next_id[p])
      <3>1. next_id[p] \in 0 .. MaxFd + 1
        BY Zenon DEF IInv, Shapes
      <3>. QED BY <3>1, FileTableAssumptions DEF NextIsFree, BelowNext, Opened
    <2>. QED BY <2>1, <2>2, Zenon
  <1>4. IInv /\ NextIsFree => HandlesAreRight
    BY <1>3, CountsFromInvariant, Zenon DEF HandlesAreRight
  <1>. QED BY <1>1, <1>2, <1>4, AlwaysRight, PTL DEF Spec

\* Only sys_write adds to the history of a pipe, and only with a write handle, which
\* keeps the write side available.
LEMMA WritersKeepTheSide ==
    ASSUME IInv, NEW p \in Pids, NEW fd, NEW b, sys_write(p, fd, b), NEW q \in Pipes,
           ~available[Side(q, "w")]
    PROVE  sent'[q] = sent[q]
  <1>. DEFINE f == table[p][fd]
  <1>1. /\ Opened(p, fd) /\ CanWrite(f) /\ IsPipe(f)
        /\ sent' = [sent EXCEPT ![f.dev[1]] = Append(@, b)] /\ sent \in [Pipes -> Seq(Bytes)]
    BY Zenon DEF sys_write, IInv, Shapes
  <1>2. f \in File /\ fd \in 0 .. MaxFd
    BY <1>1, TableFacts, Zenon DEF Opened, IInv, Shapes
  <1>3. f.dev \in Sides
    BY <1>1, <1>2, Zenon DEF File, IsPipe
  <1>4. f.dev[2] = "w" /\ f.dev = Side(f.dev[1], "w")
    <2>1. PICK z \in Pipes, e \in {"r", "w"} : f.dev = <<z, e>>
      BY <1>3 DEF Sides
    <2>2. e = "w"
      BY <1>1, <2>1, SMTT(30) DEF CanWrite
    <2>3. f.dev = <<z, "w">>
      BY <2>1, <2>2, Zenon
    <2>. HIDE DEF f
    <2>. QED BY <2>3 DEF Side
  <1>5. <<p, fd>> \in HandlesOf(f.dev)
    BY <1>1, <1>2, Zenon DEF HandlesOf, InTable
  <1>6. available[f.dev]
    BY <1>3, <1>5, HandleCounts, Zenon
  <1>7. f.dev[1] # q
    BY <1>4, <1>6, Zenon
  <1>. HIDE DEF f
  <1>. QED BY <1>1, <1>7, Zenon

\* What a step does to the bytes of pipes: nothing, or it is a write or takes one byte.
BytesStay == buffer' = buffer /\ sent' = sent /\ received' = received
SomeWrite == \E p \in Pids : \E fd \in UserFds : \E b \in Bytes : sys_write(p, fd, b)
SomeTake == sent' = sent /\ \E q : buffer[q] # <<>> /\ Take(q)

\* Every step is one of these.
LEMMA PipeSteps ==
    ASSUME [Next]_vars
    PROVE  BytesStay \/ SomeWrite \/ SomeTake
  <1>1. CASE UNCHANGED vars
    BY <1>1, Zenon DEF vars, BytesStay
  <1>2. ASSUME NEW p \in Pids, sys_open(p) \/ sys_exit(p) \/ Reap(p) PROVE BytesStay
    BY <1>2, Zenon DEF BytesStay, sys_open, sys_exit, Reap
  <1>3. ASSUME NEW p \in Pids, ReadPipe(p) PROVE BytesStay \/ SomeTake
    BY <1>3, Zenon DEF BytesStay, SomeTake, ReadPipe
  <1>4. ASSUME NEW p \in Pids, ReadConsole(p) \/ ReadError(p) PROVE BytesStay
    BY <1>4, Zenon DEF BytesStay, ReadConsole, ReadError
  <1>5. ASSUME NEW p \in Pids, NEW q \in Pipes, sys_create_pipe(p, q) PROVE BytesStay
    BY <1>5, Zenon DEF BytesStay, sys_create_pipe
  <1>6. ASSUME NEW p \in Pids, NEW fd \in UserFds, ReadNow(p, fd) PROVE SomeTake
    BY <1>6, Zenon DEF SomeTake, ReadNow
  <1>7. ASSUME NEW p \in Pids, NEW fd \in UserFds, ReadBegin(p, fd) \/ sys_close(p, fd) PROVE BytesStay
    BY <1>7, Zenon DEF BytesStay, ReadBegin, sys_close
  <1>8. ASSUME NEW p \in Pids, NEW fd \in UserFds, NEW m \in SetModes, sys_set_blocking(p, fd, m) PROVE BytesStay
    BY <1>8, Zenon DEF BytesStay, sys_set_blocking
  <1>9. ASSUME NEW p \in Pids, NEW ms \in SpawnMappings,
               SpawnFail(p, ms) \/ \E c \in Pids : SpawnOk(p, c, ms)
        PROVE  BytesStay
    BY <1>9, Zenon DEF BytesStay, SpawnFail, SpawnOk
  <1>10. CASE Shutdown \/ Unmount
    BY <1>10, Zenon DEF BytesStay, Shutdown, Unmount
  <1>11. ASSUME NEW p \in Pids, NEW fd \in UserFds, NEW b \in Bytes, sys_write(p, fd, b) PROVE SomeWrite
    BY <1>11, Zenon DEF SomeWrite
  <1>. QED BY <1>1, <1>2, <1>3, <1>4, <1>5, <1>6, <1>7, <1>8, <1>9, <1>10, <1>11, Zenon DEF Next

\* A pipe whose write side is gone gets no more bytes: an end of file is final.
THEOREM EofIsAlwaysFinal == Spec => EofIsFinal
  <1>1. ASSUME IInv, [Next]_vars
        PROVE  [\A q \in Pipes : sent[q] # <<>> /\ ~available[Side(q, "w")] => sent'[q] = sent[q]]_vars
    <2>1. CASE SomeWrite
      BY <1>1, <2>1, WritersKeepTheSide, Zenon DEF SomeWrite
    <2>2. CASE sent' = sent
      BY <2>2, Zenon
    <2>. QED BY <1>1, <2>1, <2>2, PipeSteps, Zenon DEF BytesStay, SomeTake
  <1>. QED BY <1>1, AlwaysRight, PTL DEF Spec, EofIsFinal

\* Sequences of bytes: a byte more at the end, a byte less in front.
LEMMA AppendBehind ==
    ASSUME NEW r \in Seq(Bytes), NEW u \in Seq(Bytes), NEW b \in Bytes
    PROVE  Append(r \o u, b) = r \o Append(u, b)
  <1>. DEFINE v == Append(r \o u, b)
              w == r \o Append(u, b)
  <1>1. v \in Seq(Bytes) /\ w \in Seq(Bytes) /\ Len(v) = Len(w)
    OBVIOUS
  <1>2. \A i \in 1 .. Len(v) : v[i] = w[i]
    OBVIOUS
  <1>. HIDE DEF v, w
  <1>3. v = w
    BY <1>1, <1>2, SMTT(30)
  <1>. QED BY <1>3, Zenon DEF v, w

\* Taking from the front moves the first byte behind the ones received.
LEMMA TakeFront ==
    ASSUME NEW r \in Seq(Bytes), NEW u \in Seq(Bytes), u # <<>>
    PROVE  Append(r, Head(u)) \o Tail(u) = r \o u
  <1>. DEFINE v == Append(r, Head(u)) \o Tail(u)
              w == r \o u
  <1>0. Head(u) \in Bytes /\ Tail(u) \in Seq(Bytes) /\ Len(u) > 0
    OBVIOUS
  <1>1. v \in Seq(Bytes) /\ w \in Seq(Bytes) /\ Len(v) = Len(w)
    BY <1>0
  <1>2. \A i \in 1 .. Len(v) : v[i] = w[i]
    BY <1>0
  <1>. HIDE DEF v, w
  <1>3. v = w
    BY <1>1, <1>2, SMTT(30)
  <1>. QED BY <1>3, Zenon DEF v, w

\* Bytes come out of every pipe in the order they went in, none lost or repeated.
THEOREM PipeIsAlwaysFifo == Spec => []PipeIsFifo
  <1>1. Init => PipeIsFifo
    BY DEF Init, PipeIsFifo
  <1>2. IInv /\ PipeIsFifo /\ [Next]_vars => PipeIsFifo'
    <2>. SUFFICES ASSUME IInv, PipeIsFifo, [Next]_vars, NEW q \in Pipes
                  PROVE  sent'[q] = received'[q] \o buffer'[q]
      BY Zenon DEF PipeIsFifo
    <2>0. /\ buffer \in [Pipes -> Seq(Bytes)] /\ sent \in [Pipes -> Seq(Bytes)]
          /\ received \in [Pipes -> Seq(Bytes)] /\ sent[q] = received[q] \o buffer[q]
      BY Zenon DEF IInv, Shapes, PipeIsFifo
    <2>1. CASE BytesStay
      BY <2>0, <2>1, Zenon DEF BytesStay
    <2>2. CASE SomeWrite
      <3>1. PICK p \in Pids, fd \in UserFds, b \in Bytes : sys_write(p, fd, b)
        BY <2>2, Zenon DEF SomeWrite
      <3>. DEFINE z == table[p][fd].dev[1]
      <3>2. /\ buffer' = [buffer EXCEPT ![z] = Append(@, b)] /\ received' = received
            /\ sent' = [sent EXCEPT ![z] = Append(@, b)]
        BY <3>1, Zenon DEF sys_write
      <3>. HIDE DEF z
      <3>3. CASE z = q
        <4>1. /\ sent'[q] = Append(sent[q], b) /\ buffer'[q] = Append(buffer[q], b)
              /\ received'[q] = received[q]
          BY <2>0, <3>2, <3>3, Zenon
        <4>2. Append(received[q] \o buffer[q], b) = received[q] \o Append(buffer[q], b)
          BY <2>0, AppendBehind, ZenonT(30)
        <4>. QED BY <2>0, <4>1, <4>2, Zenon
      <3>4. CASE z # q
        BY <2>0, <3>2, <3>4, Zenon
      <3>. QED BY <3>3, <3>4, Zenon
    <2>3. CASE SomeTake
      <3>1. PICK z : buffer[z] # <<>> /\ Take(z)
        BY <2>3, Zenon DEF SomeTake
      <3>2. /\ received' = [received EXCEPT ![z] = Append(@, Head(buffer[z]))]
            /\ buffer' = [buffer EXCEPT ![z] = Tail(@)] /\ sent' = sent
        BY <2>3, <3>1, Zenon DEF Take, SomeTake
      <3>3. CASE z = q
        <4>1. /\ received'[q] = Append(received[q], Head(buffer[q]))
              /\ buffer'[q] = Tail(buffer[q]) /\ sent'[q] = sent[q]
          BY <2>0, <3>2, <3>3, Zenon
        <4>2. Append(received[q], Head(buffer[q])) \o Tail(buffer[q]) = received[q] \o buffer[q]
          BY <2>0, <3>1, <3>3, TakeFront, Zenon
        <4>. QED BY <2>0, <4>1, <4>2, Zenon
      <3>4. CASE z # q
        BY <2>0, <3>2, <3>4, Zenon
      <3>. QED BY <3>3, <3>4, Zenon
    <2>. QED BY <2>1, <2>2, <2>3, PipeSteps, Zenon
  <1>. QED BY <1>1, <1>2, AlwaysRight, PTL DEF Spec
==============================================================================
