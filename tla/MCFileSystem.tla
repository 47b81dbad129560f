------------------------------ MODULE MCFileSystem ------------------------------
(***************************************************************************)
(* The parts of the file system side by side: the contents of FAT files,   *)
(* the creation of entries in a FAT directory, paths (fs/path.rs), and the *)
(* tree of mounts they are looked up in (fs/mapping.rs, open_inode), and   *)
(* the table of a FAT file system as bytes.                                *)
(* "part" names the one that moves, the others stay in an initial state.   *)
(***************************************************************************)
EXTENDS FatFiles, FatTable

CONSTANTS EntryNames, LongOf, ShortOf, Plain, OneDigit, Slots, DirClusters,
          Layouts, Directories,
          Names, Empty, Content, MountArgs, MaxPath,
          PathNames, MaxTokens, MaxPrefix

VARIABLES part,
          slots, dir_fat, made, failed, result,
          mounted, mounts, call,
          path, it, front, back

dir_vars == <<slots, dir_fat, made, failed, result>>
mount_vars == <<mounted, mounts, call>>
path_vars == <<path, it, front, back>>
fs_vars == <<part, vars, dir_vars, mount_vars, path_vars, tableVars>>

Dir == INSTANCE FatDirectory WITH Names <- EntryNames, Clusters <- DirClusters, fat <- dir_fat
Mounts == INSTANCE MountTree
P == INSTANCE Path WITH Names <- PathNames

ASSUME Dir!DirectoryAssumptions /\ TableAssumptions

FileSystemInit ==
    /\ Init /\ Dir!Init /\ Mounts!Init /\ P!Init /\ TableInit
    /\ part \in {"files", "directory", "mounts", "paths", "table"}
    /\ part # "directory" => slots = [i \in 1 .. Slots |-> Dir!LastSlot]
    /\ part # "paths" => path = <<>>
    /\ part # "table" => fat_type = "Fat12"

FilesNext == part = "files" /\ Next /\ UNCHANGED <<part, dir_vars, mount_vars, path_vars, tableVars>>
DirectoryNext == part = "directory" /\ Dir!Next /\ UNCHANGED <<part, vars, mount_vars, path_vars, tableVars>>
MountsNext == part = "mounts" /\ Mounts!Next /\ UNCHANGED <<part, vars, dir_vars, path_vars, tableVars>>
PathsNext == part = "paths" /\ P!Next /\ UNCHANGED <<part, vars, dir_vars, mount_vars, tableVars>>
BytesNext == part = "table" /\ TableNext /\ UNCHANGED <<part, vars, dir_vars, mount_vars, path_vars>>

FileSystemSpec ==
    FileSystemInit /\ [][FilesNext \/ DirectoryNext \/ MountsNext \/ PathsNext \/ BytesNext]_fs_vars
--------------------------------------------------------------------------------
(* Two files, one of up to three clusters.                                   *)
Two == {"f", "g"}
TwoStarts == [x \in Two |-> IF x = "f" THEN 2 ELSE 3]
TwoSizes == [x \in Two |-> IF x = "f" THEN 5 ELSE 1]
HandleSymmetry == Permutations(Handles)

(* Names with one and two long-name entries, and directories of up to three   *)
(* old entries: with and without a long name, there or deleted.               *)
OldShort == [base |-> <<"OLD">>, num |-> 0]
OldNormal(name) == [st |-> "normal", long |-> name, short |-> OldShort, cluster |-> 0]
OldLong == [st |-> "long", long |-> "old", seq |-> 1]
Deleted(wasLong) == [st |-> "free", wasLong |-> wasLong]
Blocks == {<<OldNormal("")>>, <<OldLong, OldNormal("old")>>,
           <<Deleted(FALSE)>>, <<Deleted(TRUE), Deleted(FALSE)>>}
Mixed == {<<>>} \cup {a \o b \o c : a \in Blocks, b \in Blocks, c \in Blocks}
FourNames == {"a", "b", "long1", "long2"}
PlainNames == {"a", "b"}
LongEntries == [n \in FourNames |-> IF n \in {"long1", "long2"} THEN 2 ELSE 1]
ShortNames == [n \in FourNames |-> CASE n = "a" -> [base |-> <<"A">>, num |-> 0]
                                      [] n = "b" -> [base |-> <<"B">>, num |-> 0]
                                      [] OTHER -> [base |-> <<"LONG">>, num |-> 1]]

(* Two small file systems: a disk with directories, and devices.              *)
Disk == [p \in {<<>>, <<"a">>, <<"a", "a">>, <<"a", "f">>, <<"f">>} |->
            IF Last(<<"a">> \o p) = "f" THEN "file" ELSE "dir"]
Devices == [p \in {<<>>, <<"f">>} |-> IF p = <<>> THEN "dir" ELSE "file"]
TwoFileSystems == [d \in {"disk", "devices"} |->
                      IF d = "disk" THEN Disk ELSE Devices]
\* "/", "/m", "/m/m", over a directory "/a", below an unmounted one "/f/m", and
\* with dots
Args == {<<>>, <<"m">>, <<"m", "m">>, <<"a">>, <<"f", "m">>, <<"m", ".", "m">>, <<"..">>}
--------------------------------------------------------------------------------
\* A read returns what was last written to the file, as read_write_file moves
\* from cluster to cluster, and zeros where a write skipped.  The chains of the files are disjoint, as long as their sizes need, and end; the
\* cache holds a cluster as long as an open file is at it, with its count; and
\* what no open file holds any more, and everything after an unmount, is on disk.
FilesAreSound ==
    part = "files" => ReadsReturnWrites /\ ChainsAreSound /\ CacheCountsUsers /\ SavedOnDisk

\* Every creation of a directory entry that has returned Ok stays visible, the
\* parts of long names stay together in front of the entry they belong to, and
\* no two entries have one name or one cluster.
DirectoryIsSound ==
    part = "directory" => Dir!CreatedStayFound /\ Dir!EntriesAreWhole /\ Dir!FilesAreDistinct

\* A mount goes below mounts only; open_inode finds what the deepest mount on the
\* path has there, under its canonical path, and every name a directory lists,
\* mounted or its own, can be opened.  Whatever the order of next and next_back,
\* together they return every component of a path once and in order, as_path is
\* the path of those left, and the iteration ends only when none is; pop undoes
\* push of one name (open_inode keeps its canonical path with them), and what
\* strip_prefix returns gives the path again when joined to the base.
NamesAreRight ==
    /\ part = "mounts" => Mounts!LookupIsRight /\ Mounts!ListedNamesOpen
    /\ part = "paths" => /\ P!AsPathIsTheRest /\ P!EndsWithEverything
                         /\ P!PopUndoesPush /\ P!StripThenJoin
================================================================================
