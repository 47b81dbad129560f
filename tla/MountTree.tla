------------------------------ MODULE MountTree ------------------------------
(***************************************************************************)
(* The tree of mounted file systems (fs/mapping.rs), the lookup of a path  *)
(* through it (open_inode) and the entries of a directory (fetch_entries). *)
(*                                                                         *)
(* A path is the sequence of its components after the root: names and      *)
(* "..".  Components::next has dropped "." and empty names (module Path).  *)
(* An inode is a pair of a file system and the path inside it.             *)
(***************************************************************************)
EXTENDS Naturals, Sequences, SequencesExt

CONSTANTS Names,        \* component names
          Empty,        \* the EmptyFileSystem
          Content,      \* file system -> its inodes -> "dir" or "file"
          MountArgs,    \* arguments of mount: tokens after the root
          MaxPath       \* bound on the components of a path that is opened

FileSystems == DOMAIN Content
Exists(fs, p) == fs # Empty /\ p \in DOMAIN Content[fs]
IsDir(fs, p) == Exists(fs, p) /\ Content[fs][p] = "dir"

VARIABLES mounted,      \* MappingNodes: path -> file system
          mounts,       \* the last mount: [arg, result]
          call          \* open_inode in progress

vars == <<mounted, mounts, call>>

Idle == [pc |-> "idle"]

\* FileSystemMapping::empty_root
Init ==
    /\ mounted = [p \in {<<>>} |-> Empty]
    /\ mounts = [arg |-> <<>>, result |-> "none"]
    /\ call = Idle
-------------------------------------------------------------------------------
\* The outcome of mount(arg): "/" is set_root, which only an EmptyFileSystem
\* lets happen.  Components drops the "." of the argument.
Comps(arg) == SelectSeq(arg, LAMBDA c : c # ".")

ParentsMounted(p) == \A i \in 1 .. Len(p) - 1 : SubSeq(p, 1, i) \in DOMAIN mounted

MountResult(arg) ==
    LET p == Comps(arg)
    IN  CASE arg = <<>> -> IF mounted[<<>>] = Empty THEN "ok" ELSE "AlreadyMounted"
          [] arg # <<>> /\ \E i \in 1 .. Len(p) : p[i] = ".." -> "InvalidPath"
          [] arg # <<>> /\ p = <<>> -> "unreachable"
          [] OTHER -> IF ~ParentsMounted(p) THEN "PartOfParentNotMounted"
                      ELSE IF p \in DOMAIN mounted THEN "AlreadyMounted"
                      ELSE "ok"

mount(arg, fs) ==
    /\ call = Idle
    /\ mounts.result # "unreachable"
    /\ mounts' = [arg |-> arg, result |-> MountResult(arg)]
    /\ mounted' = IF MountResult(arg) # "ok" THEN mounted
                  ELSE [p \in DOMAIN mounted \cup {Comps(arg)} |->
                            IF p = Comps(arg) THEN fs ELSE mounted[p]]
    /\ UNCHANGED call

\* open_inode(path): get_mapping first, from the root down.
Open(path, opening_dir) ==
    /\ call = Idle
    /\ mounts.result # "unreachable"
    /\ call' = [pc |-> "mapping", path |-> path, opening_dir |-> opening_dir,
                rest |-> path, mapping |-> <<>>, canon |-> <<>>]
    /\ UNCHANGED <<mounted, mounts>>

\* The child mapping of the call's node with that name.
Child(name) == Append(call.mapping, name)
HasChild(name) == Child(name) \in DOMAIN mounted

GetMapping ==
    /\ call.pc = "mapping"
    /\ call.rest # <<>> /\ HasChild(Head(call.rest))
    /\ call' = [call EXCEPT !.mapping = Child(Head(call.rest)),
                            !.canon = Append(@, Head(call.rest)),
                            !.rest = Tail(@)]
    /\ UNCHANGED <<mounted, mounts>>

Fail(error) == call' = [pc |-> "done", path |-> call.path, result |-> error]

Found(fs, inode) ==
    call' = [pc |-> "done", path |-> call.path, result |-> "ok",
             canon |-> call.canon, fs |-> fs, inode |-> inode]

\* Entering the mapping at m: its file system's root directory.
Enter(m, canon, rest) ==
    IF mounted[m] = Empty THEN Fail("FileNotFound")
    ELSE call' = [pc |-> "walk", path |-> call.path, opening_dir |-> call.opening_dir,
                  rest |-> rest, mapping |-> m, canon |-> canon,
                  fs |-> mounted[m], dir |-> <<>>, children_after_mapping |-> 0]

MappingFound ==
    /\ call.pc = "mapping"
    /\ ~(call.rest # <<>> /\ HasChild(Head(call.rest)))
    /\ Enter(call.mapping, call.canon, call.rest)
    /\ UNCHANGED <<mounted, mounts>>

\* "..": at the root of a mapping on to the parent mapping, otherwise only the
\* canonical path goes up.
WalkParent ==
    /\ call.pc = "walk" /\ call.rest # <<>> /\ Head(call.rest) = ".."
    /\ CASE call.children_after_mapping = 0 /\ call.mapping # <<>> ->
              Enter(Front(call.mapping), Front(call.canon), Tail(call.rest))
         [] call.children_after_mapping = 0 /\ call.mapping = <<>> ->
              call' = [call EXCEPT !.rest = Tail(@)]
         [] OTHER -> call' = [call EXCEPT !.rest = Tail(@),
                                          !.children_after_mapping = @ - 1,
                                          !.canon = Front(@)]
    /\ UNCHANGED <<mounted, mounts>>

\* A name that is a mapping of its own, seen at the root of a mapping only.
AtMapping_Anywhere(name) == HasChild(name)

AtMapping(name) == call.children_after_mapping = 0 /\ HasChild(name)

WalkIntoMapping ==
    /\ call.pc = "walk" /\ call.rest # <<>> /\ Head(call.rest) # ".."
    /\ AtMapping(Head(call.rest))
    /\ Enter(Child(Head(call.rest)), Append(call.canon, Head(call.rest)), Tail(call.rest))
    /\ UNCHANGED <<mounted, mounts>>

\* treverse_dir finds the name in the directory reached so far.
WalkName ==
    LET name  == Head(call.rest)
        inode == Append(call.dir, name)
        last  == Len(call.rest) = 1
    IN  /\ call.pc = "walk" /\ call.rest # <<>> /\ name # ".."
        /\ ~AtMapping(name)
        /\ CASE ~Exists(call.fs, inode) -> Fail("FileNotFound")
             [] Exists(call.fs, inode) /\ ~IsDir(call.fs, inode)
                  /\ (~last \/ call.opening_dir) -> Fail("IsNotDirectory")
             [] Exists(call.fs, inode) /\ last
                  /\ (IsDir(call.fs, inode) \/ ~call.opening_dir) ->
                  call' = [pc |-> "done", path |-> call.path, result |-> "ok",
                           canon |-> Append(call.canon, name),
                           fs |-> call.fs, inode |-> inode]
             [] OTHER -> call' = [call EXCEPT !.rest = Tail(@),
                                              !.canon = Append(@, name),
                                              !.dir = inode,
                                              !.children_after_mapping = @ + 1]
        /\ UNCHANGED <<mounted, mounts>>

\* No component is left: the directory reached so far.
WalkEnd ==
    /\ call.pc = "walk" /\ call.rest = <<>>
    /\ Found(call.fs, call.dir)
    /\ UNCHANGED <<mounted, mounts>>

Return ==
    /\ call.pc = "done"
    /\ call' = Idle
    /\ UNCHANGED <<mounted, mounts>>

\* fetch_entries: the directory's own entries, and the mappings right below its
\* canonical path.
Below(canon) == {Last(m) : m \in {n \in DOMAIN mounted : n # <<>> /\ Front(n) = canon}}

Entries(fs, inode, canon) ==
    {Last(i) : i \in {j \in DOMAIN Content[fs] : j # <<>> /\ Front(j) = inode}}
    \cup Below(canon)

Next ==
    \/ \E arg \in MountArgs, fs \in FileSystems : mount(arg, fs)
    \/ \E path \in SeqOf(Names \cup {".."}, MaxPath), d \in BOOLEAN : Open(path, d)
    \/ GetMapping \/ MappingFound \/ WalkParent \/ WalkIntoMapping \/ WalkName
    \/ WalkEnd \/ Return

Spec == Init /\ [][Next]_vars
-------------------------------------------------------------------------------
Ok == call.pc = "done" /\ call.result = "ok"

\* Mappings form a tree: the parent of each is mounted, so that the walk from
\* the root meets it.
MountsFormATree ==
    \A p \in DOMAIN mounted : \A i \in 0 .. Len(p) : SubSeq(p, 1, i) \in DOMAIN mounted

\* What a path without ".." names: the mount point deepest on it and the rest
\* of the path inside that file system.
MountPoint(path) ==
    LET lens == {i \in 0 .. Len(path) : SubSeq(path, 1, i) \in DOMAIN mounted}
    IN  CHOOSE i \in lens : \A j \in lens : j <= i

Named(path) ==
    LET i == MountPoint(path)
    IN  [fs |-> mounted[SubSeq(path, 1, i)], inode |-> SubSeq(path, i + 1, Len(path))]

\* Without "..", open_inode finds exactly what the mounts name, whatever else
\* the other file systems hold at that path, and its canonical path is the path.
FindsWhatIsMounted ==
    call.pc = "done" /\ ~Contains(call.path, "..") =>
        LET n == Named(call.path)
        IN  /\ call.result = "ok" =>
                call.fs = n.fs /\ call.inode = n.inode /\ call.canon = call.path
            /\ call.result = "FileNotFound" => ~Exists(n.fs, n.inode)

\* The path with each ".." taken off together with the name before it.
Normal(path) ==
    FoldLeft(LAMBDA acc, c : IF c # ".." THEN Append(acc, c)
                             ELSE IF acc = <<>> THEN acc ELSE Front(acc), <<>>, path)

\* The canonical path (get_cwd, and the base of relative paths) is the
\* normalised path.
CanonicalIsNormal == Ok => call.canon = Normal(call.path)

\* A lookup ends where the mounts say, whatever is mounted and unmounted before
\* and between its steps' switches from one file system to another.
LookupIsRight == MountsFormATree /\ FindsWhatIsMounted /\ CanonicalIsNormal

\* Every name that a directory opened without ".." lists, mounted or its own,
\* can be opened below its canonical path.
ListedNamesOpen ==
    Ok /\ ~Contains(call.path, "..") /\ IsDir(call.fs, call.inode) =>
        \A name \in Entries(call.fs, call.inode, call.canon) :
            LET n == Named(Append(call.canon, name)) IN Exists(n.fs, n.inode)
================================================================================
