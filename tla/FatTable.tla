-------------------------------- MODULE FatTable --------------------------------
(***************************************************************************)
(* The table of a FAT file system as bytes (Fat and FatEntry in            *)
(* kernel/src/fs/fat.rs): entries of 12, 16 or 32 bits packed in a buffer  *)
(* that holds all copies of the table, and a bitmap of the sectors that    *)
(* have to be written back.                                                *)
(***************************************************************************)
EXTENDS Integers, Sequences

CONSTANTS TableSector,      \* bytes of a sector
          TableSectors,     \* sectors of all copies
          TableClusters,    \* clusters that are written, from 2 on
          TableLinks,       \* clusters that entries name
          MaxTableWrites    \* bound

\* Sectors are a number of 32-bit entries long.
TableAssumptions ==
    /\ TableSector \in Nat \ {0} /\ TableSector % 4 = 0 /\ TableSectors \in Nat \ {0}
    /\ TableClusters \subseteq Nat /\ TableLinks \subseteq Nat /\ MaxTableWrites \in Nat

VARIABLES fat_type,
          buffer,       \* the table in memory: offsets from 0
          dirty_bitmap, \* sectors
          on_disk,      \* the bytes on the disk
          chain,        \* history: what was last written for a cluster
          table_writes

tableVars == <<fat_type, buffer, dirty_bitmap, on_disk, chain, table_writes>>

TableSize == TableSector * TableSectors
FatTypes == {"Fat12", "Fat16", "Fat32"}
\* Entries have 12, 16 and 28 bits.
Top(ty) == CASE ty = "Fat12" -> 4096 [] ty = "Fat16" -> 65536 [] ty = "Fat32" -> 268435456

FreeEntry == [kind |-> "Free", next |-> 0]
EndOfChainEntry == [kind |-> "EndOfChain", next |-> 0]
BadEntry == [kind |-> "Bad", next |-> 0]
ReservedEntry == [kind |-> "Reserved", next |-> 0]
NextEntry(c) == [kind |-> "Next", next |-> c]

\* FatEntry::from_u32 and to_u32; -1 is None.
from_u32(ty, entry) ==
    CASE entry = 0 -> FreeEntry
      [] entry >= Top(ty) - 8 -> EndOfChainEntry
      [] entry = Top(ty) - 9 -> BadEntry
      [] entry \in 2 .. Top(ty) - 10 -> NextEntry(entry)
      [] OTHER -> ReservedEntry
to_u32(ty, e) ==
    CASE e = FreeEntry -> 0
      [] e = EndOfChainEntry -> Top(ty) - 8
      [] e = BadEntry -> Top(ty) - 9
      [] e.kind = "Next" /\ e.next \in 2 .. Top(ty) - 10 -> e.next
      [] OTHER -> -1

fat_offset(ty, entry) ==
    CASE ty = "Fat12" -> (entry * 3) \div 2
      [] ty = "Fat16" -> entry * 2
      [] ty = "Fat32" -> entry * 4

Raw(ty, b, entry) ==
    LET o == fat_offset(ty, entry)
    IN  CASE ty = "Fat12" /\ entry % 2 = 1 -> b[o + 1] * 16 + (b[o] \div 16)
          [] ty = "Fat12" /\ entry % 2 = 0 -> (b[o + 1] % 16) * 256 + b[o]
          [] ty = "Fat16" -> b[o + 1] * 256 + b[o]
          [] ty = "Fat32" -> ((b[o + 3] % 16) * 256 + b[o + 2]) * 65536 + b[o + 1] * 256 + b[o]
read_fat_entry(entry) == from_u32(fat_type, Raw(fat_type, buffer, entry))

\* The buffer after an entry is stored.
Packed(entry, v) ==
    LET o == fat_offset(fat_type, entry)
    IN  CASE fat_type = "Fat12" /\ entry % 2 = 1 ->
               [buffer EXCEPT ![o] = (@ % 16) + ((v * 16) % 256), ![o + 1] = (v \div 16) % 256]
          [] fat_type = "Fat12" /\ entry % 2 = 0 ->
               [buffer EXCEPT ![o] = v % 256, ![o + 1] = (@ - (@ % 16)) + ((v \div 256) % 256)]
          [] fat_type = "Fat16" -> [buffer EXCEPT ![o] = v % 256, ![o + 1] = (v \div 256) % 256]
          [] fat_type = "Fat32" ->
               [buffer EXCEPT ![o] = v % 256, ![o + 1] = (v \div 256) % 256,
                              ![o + 2] = (v \div 65536) % 256, ![o + 3] = (v \div 16777216) % 256]

\* Mutant: only the sector an entry begins in.
Marked_First(entry) == {fat_offset(fat_type, entry) \div TableSector}

\* mark_sector_dirty: an entry of 12 bits may lie in two sectors.
Marked(entry) ==
    LET o == fat_offset(fat_type, entry)
    IN  {o \div TableSector} \union IF fat_type = "Fat12" THEN {(o + 1) \div TableSector} ELSE {}

write_fat_entry(entry, e) ==
    /\ table_writes < MaxTableWrites
    /\ fat_offset(fat_type, entry) < TableSize
    /\ to_u32(fat_type, e) >= 0
    /\ buffer' = Packed(entry, to_u32(fat_type, e))
    /\ dirty_bitmap' = dirty_bitmap \union Marked(entry)
    /\ chain' = [chain EXCEPT ![entry] = e]
    /\ table_writes' = table_writes + 1
    /\ UNCHANGED <<fat_type, on_disk>>

\* flush_fat: dirty_sectors, write_sectors and clear_dirty.
flush_table ==
    /\ dirty_bitmap # {}
    /\ on_disk' = [o \in 0 .. TableSize - 1 |->
                      IF o \div TableSector \in dirty_bitmap THEN buffer[o] ELSE on_disk[o]]
    /\ dirty_bitmap' = {}
    /\ UNCHANGED <<fat_type, buffer, chain, table_writes>>

\* Fat::find_free_cluster; 0 is None.  The range goes over all copies of the table.
number_of_fat_entries ==
    CASE fat_type = "Fat12" -> (TableSize * 2) \div 3
      [] fat_type = "Fat16" -> TableSize \div 2
      [] fat_type = "Fat32" -> TableSize \div 4
first_free_in_fat ==
    LET unused == {c \in 2 .. number_of_fat_entries - 1 : read_fat_entry(c) = FreeEntry}
    IN  IF unused = {} THEN 0 ELSE CHOOSE c \in unused : \A d \in unused : c <= d

TableNext ==
    \/ \E c \in TableClusters,
          e \in {FreeEntry, EndOfChainEntry, BadEntry} \union {NextEntry(n) : n \in TableLinks} :
            write_fat_entry(c, e)
    \/ flush_table

\* A fresh table of a type that has entries for the clusters; of the first two
\* entries only the media byte is set.
TableInit ==
    /\ fat_type \in FatTypes /\ TableClusters \subseteq 2 .. number_of_fat_entries - 1
    /\ buffer = [o \in 0 .. TableSize - 1 |-> IF o = 0 THEN 248 ELSE 0]
    /\ on_disk = buffer /\ dirty_bitmap = {}
    /\ chain = [c \in TableClusters |-> FreeEntry] /\ table_writes = 0

TableSpec == TableInit /\ [][TableNext]_tableVars

\* Packing the entries loses nothing: each reads back what was last written for
\* it, whatever its neighbours in the same bytes are (read_fat_entry,
\* write_fat_entry); what differs from the disk is in a sector the next flush_fat
\* writes; and the first free cluster is found.
TableIsRight ==
    /\ \A c \in TableClusters : read_fat_entry(c) = chain[c]
    /\ \A o \in 0 .. TableSize - 1 : buffer[o] # on_disk[o] => o \div TableSector \in dirty_bitmap
    /\ LET found == first_free_in_fat
       IN  found # 0 => /\ \A c \in TableClusters : chain[c] = FreeEntry => found <= c
                        /\ found \in TableClusters => chain[found] = FreeEntry
================================================================================
