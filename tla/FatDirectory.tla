----------------------------- MODULE FatDirectory -----------------------------
(***************************************************************************)
(* Creating files and directories on FAT (fs/fat.rs): add_directory_entry  *)
(* takes a cluster, and add_entry finds room for the long-name entries and *)
(* the normal entry in the slots of the parent directory.                  *)
(*                                                                         *)
(* The parent is the root of FAT12/16: a fixed number of slots.  A short   *)
(* name is its base and the number behind "~" (0: no "~").  The mutex of   *)
(* the file system makes each creation one step.                           *)
(***************************************************************************)
EXTENDS Naturals, Sequences, SequencesExt, FiniteSets, FiniteSetsExt

CONSTANTS Names,        \* names to create
          LongOf,       \* name -> how many long-name entries it takes
          ShortOf,      \* name -> [base, num] as create_dir_entries makes it
          Plain,        \* the names that are their own short names
          OneDigit,     \* the last number of one digit (9)
          Slots,        \* slots of the directory
          Clusters,     \* the clusters of the disk
          Layouts,      \* the directories there may be at first
          Directories   \* the names that are created as directories

DirectoryAssumptions ==
    /\ Slots \in Nat \ {0} /\ OneDigit \in Nat \ {0}
    /\ Clusters \subseteq Nat \ {0} /\ Clusters # {}
    /\ Plain \subseteq Names /\ Directories \subseteq Names
    /\ \A n \in Names : LongOf[n] \in Nat \ {0}

\* DirectoryEntryState: FreeAndLast, Free, or Used by a long or a normal entry.
\* A deleted entry keeps its attributes: from_raw still sees a long one.
LastSlot == [st |-> "last"]
FreeSlot(wasLong) == [st |-> "free", wasLong |-> wasLong]
Long(q, seq) == [st |-> "long", long |-> q.long, seq |-> seq]
Normal(q, short) ==
    [st |-> "normal", long |-> q.long, short |-> short, cluster |-> q.cluster]

\* What is to be added: its long name ("" without long entries), their number,
\* its short name and first cluster.
Request(long, nlong, short, cluster) ==
    [long |-> long, nlong |-> nlong, short |-> short, cluster |-> cluster]

VARIABLES slots,    \* the directory on disk
          fat,      \* clusters in use
          made,     \* names whose creation returned Ok
          failed,   \* some creation failed after it had begun to write
          result    \* of the last creation, or "panic"

vars == <<slots, fat, made, failed, result>>

\* A directory as another system leaves it: old and deleted entries.
Init ==
    /\ \E layout \in Layouts :
        slots = [i \in 1 .. Slots |-> IF i <= Len(layout) THEN layout[i] ELSE LastSlot]
    /\ fat = {} /\ made = {} /\ failed = FALSE /\ result = "none"
-------------------------------------------------------------------------------
\* What an iteration sees: the slots up to the last marker or the end.
Seen(s) ==
    LET last == {i \in DOMAIN s : s[i].st = "last"}
    IN  IF last = {} THEN s ELSE SubSeq(s, 1, Min(last) - 1)

NormalsFrom(s, from) == {i \in from .. Len(Seen(s)) : s[i].st = "normal"}

\* FatNode::matches, as treverse_dir asks it of every entry.
Matches(e, name) == e.long = name \/ (name \in Plain /\ e.short = ShortOf[name])

Found(name) == \E i \in NormalsFrom(slots, 1) : Matches(slots[i], name)

\* increment_short_name.  NoTilde is its expect failing; a longer number moves
\* the start of the digits, and no "~" is written in front of them.
NoTilde == [base |-> <<>>, num |-> 0]

increment_short_name(short) ==
    CASE short.num = 0 -> NoTilde
      [] short.num # 0 /\ short.num < OneDigit -> [short EXCEPT !.num = @ + 1]
      [] OTHER -> [base |-> Append(short.base, short.num + 1), num |-> 0]

\* is_already_exists for the entries from there on: the same long name, or a
\* short name that is counted up at every entry that has it.
AlreadyExists(s, from, q) == \E i \in NormalsFrom(s, from) : s[i].long = q.long

ShortName(s, from, q) ==
    LET Counted(short, e) == IF e.st = "normal" /\ e.short = short /\ short # NoTilde
                             THEN increment_short_name(short) ELSE short
        short[i \in 0 .. Len(s)] ==
            IF i < from THEN q.short ELSE Counted(short[i - 1], s[i])
    IN  short[Len(Seen(s))]

\* Where the first loop stops: at the last marker, or when enough free slots
\* follow each other; 0 when the directory ends first.
StopsAt(s, from, needed) ==
    LET stops == {i \in from .. Len(s) :
                    \/ s[i].st = "last"
                    \/ /\ i >= from + needed - 1
                       /\ \A j \in i - needed + 1 .. i : s[j].st = "free"}
    IN  IF stops = {} THEN 0 ELSE Min(stops)

\* The first slot of the free run at the stop.
first_free(s, from, stop) ==
    Min({i \in from .. stop : \A j \in i .. stop - 1 : s[j].st = "free"})

\* The long entries, last part first, then the normal entry; what is beyond the
\* end of the directory is not written.  In a slot of a deleted long entry,
\* write_normal writes over its own reference and not over the slot.
Written(s, start, q, short) ==
    [i \in DOMAIN s |->
        CASE i \in start .. start + q.nlong - 1 -> Long(q, start + q.nlong - i)
          [] i = start + q.nlong /\ s[i] # FreeSlot(TRUE) -> Normal(q, short)
          [] OTHER -> s[i]]

\* The marker moves behind an entry that was written at the old one.
Marked_Early(s, at) == [s EXCEPT ![at - 1] = LastSlot]

Marked(s, at) == [s EXCEPT ![at] = LastSlot]

\* add_entry from slot from: the directory afterwards, the outcome, and the
\* slot where the iterator is left (on the new entry when it was the last).
add_entry(s, from, q) ==
    LET needed  == q.nlong + 1
        stop    == StopsAt(s, from, needed)
        start   == first_free(s, from, stop)
        is_last == s[stop].st = "last"
        short   == ShortName(s, from, q)
        new     == Written(s, start, q, short)
        Out(t, res, pos) == [slots |-> t, res |-> res, pos |-> pos]
    IN  CASE AlreadyExists(s, from, q) -> Out(s, "AlreadyExists", 0)
          [] ~AlreadyExists(s, from, q) /\ short = NoTilde -> Out(s, "panic", 0)
          [] OTHER ->
               IF stop = 0 \/ (~is_last /\ Seen(s) = s) THEN Out(s, "FileNotFound", 0)
               ELSE IF start + q.nlong <= Len(s) /\ new[start + q.nlong].st # "normal"
                    THEN Out(new, "panic", 0)      \* as_normal in next()
               ELSE IF ~is_last THEN Out(new, "ok", start + needed)
               ELSE IF start + needed > Len(s) THEN Out(new, "FileNotFound", 0)
               ELSE Out(Marked(new, start + needed), "ok", start + q.nlong)

\* When add_entry fails the cluster goes back.
Taken(cluster, res) == IF res = "ok" THEN fat \cup {cluster} ELSE fat

\* The cluster comes first; none is an error before anything else.
CreateNoSpace(name) ==
    /\ result # "panic" /\ fat = Clusters
    /\ result' = "NotEnoughSpace"
    /\ UNCHANGED <<slots, fat, made, failed>>

Adding(name) ==
    LET cluster == Min(Clusters \ fat)
    IN  add_entry(slots, 1, Request(name, LongOf[name], ShortOf[name], cluster))

CreateFile(name) ==
    LET r == Adding(name)
    IN  /\ result # "panic" /\ fat # Clusters /\ name \notin Directories
        /\ slots' = r.slots
        /\ fat' = Taken(Min(Clusters \ fat), r.res)
        /\ made' = IF r.res = "ok" THEN made \cup {name} ELSE made
        /\ failed' = (failed \/ (r.res # "ok" /\ slots' # slots))
        /\ result' = r.res

\* A directory: the entry in the parent, then "." and ".." in its own cluster,
\* of which the first sector was cleared, with one iterator.
Dots(cluster) ==
    LET dot    == Request("", 0, [base |-> <<".">>, num |-> 0], cluster)
        dotdot == Request("", 0, [base |-> <<"..">>, num |-> 0], 0)
        dir[i \in 0 .. 2] ==
            IF i = 0 THEN [slots |-> [k \in 1 .. Slots |-> LastSlot], res |-> "ok", pos |-> 1]
            ELSE add_entry(dir[i - 1].slots, dir[i - 1].pos, IF i = 1 THEN dot ELSE dotdot)
    IN  dir[2]

CreateDirectory(name) ==
    LET r == Adding(name)
        cluster == Min(Clusters \ fat)
    IN  /\ result # "panic" /\ fat # Clusters /\ name \in Directories
        /\ slots' = r.slots
        /\ fat' = Taken(cluster, r.res)
        /\ result' = IF r.res = "ok" THEN Dots(cluster).res ELSE r.res
        /\ made' = IF result' = "ok" THEN made \cup {name} ELSE made
        /\ failed' = (failed \/ (r.res # "ok" /\ slots' # slots))

Next ==
    \E name \in Names : CreateNoSpace(name) \/ CreateFile(name) \/ CreateDirectory(name)

Spec == Init /\ [][Next]_vars
-------------------------------------------------------------------------------
\* Every creation that has returned Ok stays visible: no entry ends up behind
\* the last marker, and none is overwritten by a later one.
CreatedStayFound == ~failed => \A name \in made : Found(name)

\* What the iterator's next() takes for granted: each long entry is followed by
\* the ones with lower numbers and then by the normal entry of the same name,
\* and a normal entry with a long name comes behind the first part of it.
EntriesAreWhole ==
    ~failed => \A i \in DOMAIN Seen(slots) :
        /\ slots[i].st = "long" =>
            /\ i < Len(Seen(slots))
            /\ slots[i + 1].st = IF slots[i].seq = 1 THEN "normal" ELSE "long"
            /\ slots[i + 1].long = slots[i].long
            /\ slots[i].seq > 1 => slots[i + 1].seq = slots[i].seq - 1
        /\ slots[i].st = "normal" /\ slots[i].long # "" =>
            i > 1 /\ slots[i - 1] = Long(slots[i], 1)

\* No two files have one cluster or one name, and the clusters in use are those
\* of the entries.
FilesAreDistinct ==
    LET new == {i \in NormalsFrom(slots, 1) : slots[i].cluster # 0}
    IN  ~failed =>
        /\ \A i, j \in new : i # j => /\ slots[i].cluster # slots[j].cluster
                                      /\ slots[i].long # slots[j].long
        /\ fat = {slots[i].cluster : i \in new}
================================================================================
