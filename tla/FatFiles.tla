------------------------------- MODULE FatFiles -------------------------------
(***************************************************************************)
(* File contents on FAT (fs/fat.rs): the cluster chains, the in-memory FAT *)
(* and the cluster cache, under the operations of open files (fs/mod.rs).  *)
(*                                                                         *)
(* Every operation holds the mutex of the file system, so it is one step.  *)
(* An open file has its own copy of the size and remembers the cluster of  *)
(* its position, which it holds in the cache.  A sector is one byte long;  *)
(* creation is the subject of FatDirectory.                                *)
(***************************************************************************)
EXTENDS Naturals, Sequences, SequencesExt, FiniteSets, FiniteSetsExt, Functions, TLC

CONSTANTS Files,        \* the files
          Handles,      \* open files there may be
          Clusters,     \* the clusters of the disk
          StartOf,      \* file -> its first cluster
          B,            \* bytes_per_cluster
          Values,       \* what is written
          MaxSize       \* bound: file -> its largest size

ASSUME FatAssumptions ==
    /\ Clusters \subseteq Nat \ {0, 1} /\ IsFiniteSet(Clusters)
    /\ StartOf \in [Files -> Clusters] /\ IsInjective(StartOf)
    /\ B \in Nat \ {0} /\ MaxSize \in [Files -> Nat] /\ 0 \notin Values

\* FatEntry: Free, EndOfChain, or the number of the next cluster.
Free == 0
EndOfChain == 1
Reading == 98           \* in place of a value: the access is a read
Garbage == 99           \* what a cluster holds before it is first written
Closed == [file |-> "none"]

VARIABLES fs,       \* fat, its copy on disk, clusters on disk, cache, entries
          open,     \* handle -> file, its copy of the size, cluster, index, position
          content,  \* what the program has put into each file
          misread,  \* a read returned something else
          state     \* "mounted", "unmounted" or "panic"

vars == <<fs, open, content, misread, state>>

Init ==
    /\ fs = [fat   |-> [c \in Clusters |-> IF c \in Range(StartOf) THEN EndOfChain ELSE Free],
             dfat  |-> [c \in Clusters |-> IF c \in Range(StartOf) THEN EndOfChain ELSE Free],
             disk  |-> [c \in Clusters |-> [i \in 1 .. B |-> Garbage]],
             cache |-> [c \in {} |-> 0],
             size  |-> [f \in Files |-> 0]]
    /\ open = [h \in Handles |-> Closed]
    /\ content = [f \in Files |-> <<>>]
    /\ misread = FALSE /\ state = "mounted"
-------------------------------------------------------------------------------
(* The parts of an operation: s is the file system, h the open file and how  *)
(* the operation stands (res, and bytes read so far).                        *)
Failed(s, why) == [s EXCEPT !.res = why]

flush_fat(s) == [s EXCEPT !.dfat = s.fat]

\* flush_cluster_dirty_range_file: FAT, size in the entry, dirty bytes.
Flushed(s, c) ==
    LET e == s.cache[c]
    IN  [flush_fat(s) EXCEPT
            !.size[s.h.file] = s.h.size,
            !.disk[c] = [i \in 1 .. B |-> IF i \in e.lo .. e.hi THEN e.data[i] ELSE @[i]]]

IsDirty(s, c) == s.cache[c].lo <= s.cache[c].hi

release_cluster_NoFlush(s, c) ==
    IF c \notin DOMAIN s.cache THEN s
    ELSE IF s.cache[c].rc > 1 THEN [s EXCEPT !.cache[c].rc = @ - 1]
    ELSE [s EXCEPT !.cache = Restrict(@, DOMAIN @ \ {c})]

release_cluster(s, c) ==
    IF c \notin DOMAIN s.cache THEN s
    ELSE IF s.cache[c].rc > 1 THEN [s EXCEPT !.cache[c].rc = @ - 1]
    ELSE [(IF IsDirty(s, c) THEN Flushed(s, c) ELSE s)
             EXCEPT !.cache = Restrict(@, DOMAIN @ \ {c})]

lock_cluster(s, c) ==
    IF c \in DOMAIN s.cache THEN [s EXCEPT !.cache[c].rc = @ + 1]
    ELSE [s EXCEPT !.cache = (c :> [rc |-> 1, lo |-> B + 1, hi |-> 0, data |-> s.disk[c]]) @@ @]

\* The cluster n steps down a chain; what is not a cluster stays.
Walk(fat, start, n) ==
    LET c[i \in 0 .. n] == IF i = 0 THEN start
                           ELSE IF c[i - 1] \in Clusters THEN fat[c[i - 1]] ELSE c[i - 1]
    IN  c[n]

\* "seek happened or switch exactly to next cluster after last call".
Left(s, index) ==
    IF s.h.index = index THEN s
    ELSE [(IF s.h.cluster # 0 THEN release_cluster(s, s.h.cluster) ELSE s)
             EXCEPT !.h.cluster = 0]

Positioned(s, pos) ==
    LET index == pos \div B
        l     == Left(s, index)
        c     == Walk(l.fat, StartOf[l.h.file], index)
    IN  CASE l.h.cluster # 0 /\ l.h.cluster \in DOMAIN l.cache -> l
          [] l.h.cluster # 0 /\ l.h.cluster \notin DOMAIN l.cache -> Failed(l, "panic")
          [] l.h.cluster = 0 /\ c \notin Clusters -> Failed(l, "error")
          [] OTHER -> lock_cluster([l EXCEPT !.h.cluster = c, !.h.index = index], c)

\* One byte, and the switch to the next cluster behind the last of a cluster.
NextByte(s) ==
    LET c == s.h.cluster
        n == s.fat[c]
        l == lock_cluster(release_cluster(s, c), n)
    IN  CASE n = Free -> Failed(s, "error")
          [] n = EndOfChain -> Failed(s, "end")
          [] OTHER -> [l EXCEPT !.h.cluster = n, !.h.index = @ + 1]

Access(s, pos, value) ==
    LET c == s.h.cluster
        i == (pos % B) + 1
        a == IF value = Reading THEN [s EXCEPT !.out = Append(@, s.cache[c].data[i])]
             ELSE [s EXCEPT !.cache[c] =
                      [@ EXCEPT !.data[i] = value,
                                !.lo = IF i < @ THEN i ELSE @, !.hi = IF i > @ THEN i ELSE @]]
        b == [a EXCEPT !.n = @ + 1]
    IN  IF s.res # "ok" THEN s ELSE IF i = B THEN NextByte(b) ELSE b

\* Mutant: what is read is not limited by the size.
read_write_file_Unlimited(s, pos, n, value) ==
    LET r[i \in 0 .. n] == IF i = 0 THEN Positioned([s EXCEPT !.n = 0], pos)
                           ELSE Access(r[i - 1], pos + i - 1, value)
    IN  IF s.res # "ok" THEN s
        ELSE IF pos >= s.h.size THEN [s EXCEPT !.n = 0]
        ELSE IF r[n].res = "end" THEN [r[n] EXCEPT !.res = "ok"] ELSE r[n]

\* read_write_file of n bytes, or a read.
read_write_file(s, pos, n, value) ==
    LET m == Min({n, s.h.size - pos})
        r[i \in 0 .. m] == IF i = 0 THEN Positioned([s EXCEPT !.n = 0], pos)
                           ELSE Access(r[i - 1], pos + i - 1, value)
    IN  IF s.res # "ok" THEN s
        ELSE IF pos >= s.h.size THEN [s EXCEPT !.n = 0]
        ELSE IF r[m].res = "end" THEN [r[m] EXCEPT !.res = "ok"] ELSE r[m]
-------------------------------------------------------------------------------
\* The clusters of a size: "at least 1 cluster at any point".
InClusters(size) == Max({1, (size + B - 1) \div B})

\* The free cluster with the lowest number, or Free itself.
find_free_cluster(fat) ==
    LET free == {c \in Clusters : fat[c] = Free} IN IF free = {} THEN Free ELSE Min(free)

\* Growing: one free cluster after the other; none left is an error, and what
\* has been chained stays chained.
Extended(s, last, count) ==
    FoldLeft(LAMBDA t, i :
                LET new == find_free_cluster(t.fat)
                IN  IF t.res # "ok" THEN t
                    ELSE IF new = Free THEN Failed(t, "error")
                    ELSE [t EXCEPT !.fat[t.last] = new, !.fat[new] = EndOfChain, !.last = new],
             [s EXCEPT !.last = last], [i \in 1 .. count |-> i])

Shortened_KeepsNext(s, last, gone) ==
    [s EXCEPT !.fat = [c \in Clusters |-> IF c \in gone THEN Free ELSE @[c]]]

Shortened(s, last, gone) ==
    [s EXCEPT !.fat = [c \in Clusters |-> IF c \in gone THEN Free
                                          ELSE IF c = last THEN EndOfChain ELSE @[c]]]

set_file_size(s, size) ==
    LET now  == InClusters(s.h.size)
        new  == InClusters(size)
        At(k) == Walk(s.fat, StartOf[s.h.file], k)
        last == At(Min({now, new}) - 1)
        gone == {At(k) : k \in new .. now - 1}
        r    == IF now < new THEN Extended(s, last, new - now)
                ELSE IF new < now THEN Shortened(s, last, gone) ELSE s
    IN  IF now # new /\ ~({last} \cup gone \subseteq Clusters)
        THEN Failed(s, IF Free \in {last} \cup gone THEN "error" ELSE "panic")  \* expect("next cluster")
        ELSE IF r.res = "ok" THEN [r EXCEPT !.h.size = size] ELSE r

\* Zeros from the old end to the position: sector after sector, so in one go.
ZeroExtended(s, from, to) ==
    IF to > from THEN read_write_file(s, from, to - from, 0) ELSE s

write_file(s, pos, n, value) ==
    LET grown == IF pos + n > s.h.size THEN set_file_size(s, pos + n) ELSE s
    IN  read_write_file(ZeroExtended(grown, s.h.size, pos), pos, n, value)
-------------------------------------------------------------------------------
Operation(h) ==
    [fat |-> fs.fat, dfat |-> fs.dfat, disk |-> fs.disk, cache |-> fs.cache, size |-> fs.size,
     h |-> open[h], res |-> "ok", out |-> <<>>, n |-> 0, last |-> 0]

\* The operation is done; its position moves by the bytes accessed if it is ok.
Finish(h, s) ==
    /\ fs' = [fat |-> s.fat, dfat |-> s.dfat, disk |-> s.disk, cache |-> s.cache, size |-> s.size]
    /\ open' = [open EXCEPT ![h] =
                   IF s.res = "ok" THEN [s.h EXCEPT !.pos = @ + s.n] ELSE s.h]
    /\ state' = IF s.res = "panic" THEN "panic" ELSE state

IsOpen(h) == state = "mounted" /\ open[h] # Closed

\* open_blocking of a file that exists.  Truncation is done on the fresh node.
Open(h, f, truncate, append) ==
    LET node == [file |-> f, size |-> fs.size[f], cluster |-> 0, index |-> 0, pos |-> 0]
        s    == [Operation(h) EXCEPT !.h = node]
        t    == IF truncate THEN set_file_size(s, 0) ELSE s
        r    == IF truncate /\ t.res = "ok" THEN [flush_fat(t) EXCEPT !.size[f] = 0] ELSE t
    IN  /\ state = "mounted" /\ open[h] = Closed
        /\ r.res # "error"
        /\ Finish(h, [r EXCEPT !.n = IF append THEN r.h.size ELSE 0])
        /\ content' = IF truncate THEN [content EXCEPT ![f] = <<>>] ELSE content
        /\ UNCHANGED misread

Read(h, n) ==
    LET r == read_write_file(Operation(h), open[h].pos, n, Reading)
        f == open[h].file
    IN  /\ IsOpen(h)
        /\ Finish(h, r)
        /\ misread' = (misread \/ (r.res = "ok" /\ r.out # SubSeq(content[f], open[h].pos + 1,
                                               Min({Len(content[f]), open[h].pos + n}))))
        /\ UNCHANGED content

\* The content after a write: what was there, zeros up to the position, the bytes.
Overwritten(old, pos, n, value) ==
    [i \in 1 .. Max({Len(old), pos + n}) |->
        IF i \in pos + 1 .. pos + n THEN value ELSE IF i <= Len(old) THEN old[i] ELSE 0]

Write(h, n, value) ==
    LET r == write_file(Operation(h), open[h].pos, n, value)
        f == open[h].file
    IN  /\ IsOpen(h) /\ open[h].pos + n <= MaxSize[f]
        /\ Finish(h, r)
        /\ content' = IF r.res = "ok"
                      THEN [content EXCEPT ![f] = Overwritten(@, open[h].pos, n, value)]
                      ELSE content
        /\ UNCHANGED misread

Seek(h, pos) ==
    /\ IsOpen(h) /\ pos <= MaxSize[open[h].file]
    /\ open' = [open EXCEPT ![h].pos = pos]
    /\ UNCHANGED <<fs, content, misread, state>>

\* flush_cluster of the cluster it is at, which stays in the cache.
FlushFile(h) ==
    LET s == Operation(h)
        c == open[h].cluster
    IN  /\ IsOpen(h) /\ c \in DOMAIN fs.cache /\ IsDirty(s, c)
        /\ Finish(h, [Flushed(s, c) EXCEPT !.cache[c].lo = B + 1, !.cache[c].hi = 0])
        /\ UNCHANGED <<content, misread>>

\* Drop for File.
Close(h) ==
    LET r == release_cluster(Operation(h), open[h].cluster)
    IN  /\ IsOpen(h)
        /\ fs' = [fat |-> r.fat, dfat |-> r.dfat, disk |-> r.disk, cache |-> r.cache, size |-> r.size]
        /\ open' = [open EXCEPT ![h] = Closed]
        /\ UNCHANGED <<content, misread, state>>

\* unmount: FAT and dirty clusters, not the sizes.
Saved(c) ==
    LET e == fs.cache[c]
    IN  [i \in 1 .. B |-> IF c \in DOMAIN fs.cache /\ i \in e.lo .. e.hi
                          THEN e.data[i] ELSE fs.disk[c][i]]

Unmount ==
    /\ state = "mounted"
    /\ state' = "unmounted"
    /\ fs' = [fs EXCEPT !.dfat = fs.fat, !.disk = [c \in Clusters |-> Saved(c)],
                        !.cache = [c \in {} |-> 0]]
    /\ UNCHANGED <<open, content, misread>>

\* What is done with open files, and the end.
Use ==
    \/ \E h \in Handles :
        \/ \E n \in 1 .. B + 1 : Read(h, n)
        \/ \E n \in 1 .. B + 1, v \in Values : Write(h, n, v)
        \/ \E pos \in 0 .. Max(Range(MaxSize)) : Seek(h, pos)
        \/ FlushFile(h)
        \/ Close(h)
    \/ Unmount

\* Programs that open a file only while nobody else has it open ...
Unused(f) == \A g \in Handles : open[g] = Closed \/ open[g].file # f

Next ==
    \/ \E h \in Handles, f \in Files, t, a \in BOOLEAN : Unused(f) /\ Open(h, f, t, a)
    \/ Use

Spec == Init /\ [][Next]_vars

\* ... and any programs: nothing in open_blocking keeps a file from being opened
\* again, each time with a copy of its size.
SharedNext ==
    \/ \E h \in Handles, f \in Files, t, a \in BOOLEAN : Open(h, f, t, a)
    \/ Use

SharedSpec == Init /\ [][SharedNext]_vars
-------------------------------------------------------------------------------
\* The size of a file as its only user sees it.
Size(f) == IF \E h \in Handles : open[h] # Closed /\ open[h].file = f
           THEN (CHOOSE o \in Range(open) : o # Closed /\ o.file = f).size
           ELSE fs.size[f]

Chain(fat, f) == {Walk(fat, StartOf[f], k) : k \in 0 .. Cardinality(Clusters)} \ {EndOfChain}

\* Every chain ends, has the clusters its size needs and none that is free, and
\* no cluster is in two of them: through growing, truncating, running out of
\* space half way and the reuse of freed clusters.
ChainsAreSound ==
    /\ \A f \in Files :
        /\ Chain(fs.fat, f) \subseteq Clusters
        /\ Walk(fs.fat, StartOf[f], Cardinality(Clusters)) = EndOfChain
        /\ Cardinality(Chain(fs.fat, f)) >= InClusters(Size(f))
    /\ \A f, g \in Files : f # g => Chain(fs.fat, f) \cap Chain(fs.fat, g) = {}

\* A read returns what was written, zeros where a write skipped, and never what
\* a cluster held before.
ReadsReturnWrites == ~misread

\* The cache holds the clusters the open files are at, counted once for each:
\* release_cluster neither drops a cluster in use nor keeps one for ever.
CacheCountsUsers ==
    LET At(c) == {h \in Handles : open[h] # Closed /\ open[h].cluster = c}
    IN  state = "mounted" =>
        /\ DOMAIN fs.cache = {c \in Clusters : At(c) # {}}
        /\ \A c \in DOMAIN fs.cache : fs.cache[c].rc = Cardinality(At(c))

\* What the disk alone says of a file.
OnDisk(f) ==
    [i \in 1 .. fs.size[f] |-> fs.disk[Walk(fs.dfat, StartOf[f], (i - 1) \div B)][((i - 1) % B) + 1]]

\* When a file is closed everything written to it is on the disk: data, chain
\* and size, whichever clusters were flushed on the way.
ClosedFilesAreOnDisk ==
    \A f \in Files :
        (\A h \in Handles : open[h] = Closed \/ open[h].file # f) => OnDisk(f) = content[f]

\* After unmount the disk has every file up to the size in its entry, open or not.
UnmountSaves ==
    state = "unmounted" =>
        \A f \in Files : OnDisk(f) = SubSeq(content[f], 1, fs.size[f])

\* No operation of an open file finds its chain shorter than its size:
\* set_file_size "expect"s a next cluster, read_write_file a cached one.
OperationsDoNotPanic == state # "panic"

\* Closing a file and unmounting leave on the disk what was written.
SavedOnDisk == ClosedFilesAreOnDisk /\ UnmountSaves

\* One file that two open files use at the same time.
OneStart == [f \in Files |-> 2]
OneSize == [f \in Files |-> 5]
===============================================================================
