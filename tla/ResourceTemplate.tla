--------------------------- MODULE ResourceTemplate ---------------------------
(***************************************************************************)
(* kernel/src/acpi/aml/parser/resource_template.rs: a buffer that is a     *)
(* resource template becomes the list of its descriptors.                  *)
(*                                                                         *)
(* A node has a kind, the numbers in it and its parts.  A flag is 0 or 1,  *)
(* an integer of several bytes stays the sequence of its bytes.            *)
(***************************************************************************)
EXTENDS Integers, Sequences

Node(kind, val, parts) == [kind |-> kind, val |-> val, parts |-> parts]
Leaf(kind, val) == Node(kind, val, <<>>)

\* What is found at a position: an item and the position behind it, "none" for
\* a descriptor that is not known, "end" where the bytes run out, "err" for the
\* other errors, "panic" at an assertion.
Item(kind, val, next) == [out |-> "ok", item |-> Leaf(kind, val), next |-> next]
NoItem(out) == [out |-> out, item |-> Leaf("", <<>>), next |-> 0]

Bit(b, n) == (b \div 2^n) % 2

-----------------------------------------------------------------------------
\* The bytes behind the tag of a small descriptor.
SmallLength(first) ==
    CASE first = \H22 -> 2 [] first = \H23 -> 3 [] first = \H2A -> 2
      [] first = \H30 -> 0 [] first = \H31 -> 1 [] first = \H38 -> 0
      [] first = \H47 -> 7 [] first = \H4B -> 3 [] first = \H55 -> 5
      [] first \in \H71 .. \H77 -> (first % 8) - 1

SmallTags == {\H22, \H23, \H2A, \H30, \H31, \H38, \H47, \H4B, \H55} \union \H71 .. \H77

SmallReserved(first, b) ==
    \/ first = \H23 /\ b[3] >= 64
    \/ first = \H2A /\ (b[2] >= 128 \/ b[2] % 4 = 3)
    \/ first = \H31 /\ b[1] >= 16
    \/ first = \H55 /\ b[5] > 5

\* b are the bytes behind the tag, next the position behind them.
SmallItem(first, b, next) ==
    CASE first = \H22 -> Item("Irq", <<0, 0, 0, 1, b[1], b[2]>>, next)
      [] first = \H23 -> Item("Irq", <<Bit(b[3], 5), Bit(b[3], 4), Bit(b[3], 3), Bit(b[3], 0), b[1], b[2]>>, next)
      [] first = \H2A -> Item("Dma", <<(b[2] \div 32) % 4, Bit(b[2], 2), b[2] % 4, b[1]>>, next)
      [] first = \H30 -> Item("StartDependentFunctions", <<1, 1>>, next)
      [] first = \H31 -> Item("StartDependentFunctions", <<b[1] % 4, (b[1] \div 4) % 4>>, next)
      [] first = \H38 -> Item("EndDependentFunctions", <<>>, next)
      [] first = \H47 -> Item("Io", <<b[1] % 2>> \o Tail(b), next)
      [] first = \H4B -> Item("FixedIo", <<b[1], b[2] % 4, b[3]>>, next)
      [] first = \H55 -> Item("FixedDma", b, next)
      [] first \in \H71 .. \H77 -> Item("VendorShort", b, next)

try_parse_small_resource(data, pos, first) ==
    CASE first = \H79 -> NoItem("err")
      [] first \in SmallTags ->
            LET next == pos + SmallLength(first)
                b == SubSeq(data, pos, next - 1)
            IN  IF next > Len(data) + 1 THEN NoItem("end")
                ELSE IF SmallReserved(first, b) THEN NoItem("err")
                ELSE SmallItem(first, b, next)
      [] OTHER -> NoItem("none")

-----------------------------------------------------------------------------
\* AddressSpaceType::parse: the type and flags that W-byte descriptors allow.
SpaceTypeOk(W, value, flags) ==
    \/ value = 0
    \/ value = 1 /\ flags % 4 # 0
    \/ value = 2 /\ W = 2
    \/ value >= 192
SpaceType(value, flags) ==
    CASE value = 0 -> <<0, Bit(flags, 0), (flags \div 2) % 4, (flags \div 8) % 4, Bit(flags, 5)>>
      [] value = 1 -> <<1, Bit(flags, 4), flags % 4, Bit(flags, 5)>>
      [] value = 2 -> <<2>>
      [] OTHER -> <<value, flags>>

\* parse_start_flags: the type, consumer, max fixed, min fixed, subtractive.
StartFlags(b) ==
    SpaceType(b[1], b[3]) \o <<Bit(b[2], 0), Bit(b[2], 3), Bit(b[2], 2), Bit(b[2], 1)>>

\* ResourceSource::parse.  get_remaining_data moves to the end before it takes
\* what remains, so the source is always empty.
Source(b, from) == IF Len(b) >= from THEN <<b[from]>> ELSE <<>>

\* AddressSpace::parse, and parse_extended, which has a revision and a reserved
\* byte in front of the numbers and an attribute behind them.
AddressSpace(kind, W, b, next) ==
    IF SpaceTypeOk(W, b[1], b[3])
    THEN Item(kind, StartFlags(b) \o SubSeq(b, 4, 3 + 5 * W) \o Source(b, 4 + 5 * W), next)
    ELSE NoItem("err")
ExtendedSpace(b, next) ==
    CASE ~SpaceTypeOk(8, b[1], b[3]) -> NoItem("err")
      [] b[4] # 1 -> NoItem("panic")
      [] b[4] = 1 /\ (b[5] # 0 \/ Len(b) > 53) -> NoItem("err")
      [] OTHER -> Item("AddressSpaceExtended", StartFlags(b) \o SubSeq(b, 6, 53), next)

Interrupt(b, next) ==
    LET bits == [i \in 1..5 |-> Bit(b[1], i - 1)]
        behind == 3 + 4 * b[2]
    IN  IF behind > Len(b) + 1 THEN NoItem("end")
        ELSE Item("Interrupt", bits \o SubSeq(b, 3, behind - 1) \o Source(b, behind), next)

Register(b, next) ==
    IF b[1] \in 0..10 \union {127} /\ b[4] % 16 <= 4
    THEN Item("Register", <<b[1], b[2], b[3], b[4] % 16>> \o SubSeq(b, 5, 12), next)
    ELSE NoItem("err")

\* b is what the length of a large descriptor covers; the lengths are asserted.
LargeItem(tag, b, next) ==
    CASE tag = 1 /\ Len(b) = 9  -> 
                Item("Memory24", <<b[1] % 2, 0, b[2], b[3], 0, 0, b[4], b[5], 0>> \o SubSeq(b, 6, 9), next)
      [] tag = 2 /\ Len(b) = 12 -> Register(b, next)
      [] tag = 4 -> IF b = <<>> THEN NoItem("end") ELSE Item("VendorLarge", <<>>, next)
      [] tag = 5 /\ Len(b) = 17 -> Item("Memory32", <<b[1] % 2>> \o Tail(b), next)
      [] tag = 6 /\ Len(b) = 9  -> Item("Memory32Fixed", <<b[1] % 2>> \o Tail(b), next)
      [] tag = 7 /\ Len(b) >= 23 -> AddressSpace("AddressSpaceDWord", 4, b, next)
      [] tag = 8 /\ Len(b) >= 13 -> AddressSpace("AddressSpaceWord", 2, b, next)
      [] tag = 9 /\ Len(b) >= 6 -> Interrupt(b, next)
      [] tag = 10 /\ Len(b) >= 43 -> AddressSpace("AddressSpaceQWord", 8, b, next)
      [] tag = 11 /\ Len(b) >= 53 -> ExtendedSpace(b, next)
      [] tag \in {12, 13, 14, 15, 16, 17, 18} -> NoItem("none")
      [] OTHER -> NoItem("panic")

try_parse_large_resource(data, pos, first) ==
    LET data_len == data[pos] + 256 * data[pos + 1]
        next == pos + 2 + data_len
    IN  IF first < 128 THEN NoItem("none")
        ELSE IF pos + 1 > Len(data) \/ next > Len(data) + 1 THEN NoItem("end")
        ELSE IF first - 128 \in {0, 3} \union 19..127 THEN NoItem("err")
        ELSE LargeItem(first - 128, SubSeq(data, pos + 2, next - 1), next)

\* ResourceMacro::try_parse_buffer.
ResourceMacro(data, pos) ==
    LET small == try_parse_small_resource(data, pos + 1, data[pos])
    IN  IF small.out = "none" THEN try_parse_large_resource(data, pos + 1, data[pos]) ELSE small

RECURSIVE Items(_, _)
Items(data, pos) ==
    IF pos > Len(data) THEN [out |-> "ok", items |-> <<>>]
    ELSE LET first == ResourceMacro(data, pos)
             rest == Items(data, first.next)
         IN  IF first.out # "ok" THEN [out |-> first.out, items |-> <<>>]
             ELSE IF rest.out # "ok" THEN rest
             ELSE [out |-> "ok", items |-> <<first.item>> \o rest.items]

\* The wrapping sum of bytes i to j.
RECURSIVE WrappingSum(_, _, _)
WrappingSum(data, i, j) ==
    IF i > j THEN 0
    ELSE IF i = j THEN data[i]
    ELSE LET k == (i + j) \div 2 IN (WrappingSum(data, i, k) + WrappingSum(data, k + 1, j)) % 256

\* ResourceTemplate::try_parse_buffer: "none" for a buffer that is no template.
try_parse_buffer(data) ==
    LET n == Len(data)
        sum == WrappingSum(data, 1, n)
    IN  IF n < 2 \/ data[n - 1] # \H79 \/ (sum # 0 /\ data[n] # 0)
        THEN [out |-> "none", items |-> <<>>]
        ELSE Items(SubSeq(data, 1, n - 2), 1)
===============================================================================
