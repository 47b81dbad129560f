------------------------------ MODULE AmlParser ------------------------------
(***************************************************************************)
(* The parser of ACPI machine language, kernel/src/acpi/aml/parser.        *)
(*                                                                         *)
(* Code is a sequence of units: bytes, and name segments, whose four       *)
(* characters are one unit above 255.  Package lengths count units.  An    *)
(* integer stays the sequence of its bytes.  A term, argument, target or   *)
(* data object is a node: its kind, the numbers in it and its parts.       *)
(*                                                                         *)
(* AML does not say how many arguments a call takes: the parser must know  *)
(* the method, know that the name is not a method, or guess from what      *)
(* follows.  The methods and names it knows are shared by all the inner    *)
(* parsers, a guess that is taken back included.                           *)
(***************************************************************************)
EXTENDS ResourceTemplate, FiniteSets, TLC

CONSTANT IdSegs         \* the name segments whose text contains "ID"

VARIABLE code

List(parts) == Node("List", <<>>, parts)

(* A parser: the rest of its code is pos .. end - 1.                          *)
ParserAt(from, to) == [pos |-> from, end |-> to, names |-> {}, methods |-> <<>>]
Forward(p, n) == [p EXCEPT !.pos = @ + n]
\* A parser for a part of p's code, or p after it, with the names found so far.
Within(p, q) == [pos |-> p.pos, end |-> p.end, names |-> q.names, methods |-> q.methods]

(* What a parsing function returns, with the parser as it leaves it: "ok" with *)
(* a node, "none" where it is optional, "end" for UnexpectedEndOfCode, "err"   *)
(* for the other errors; "panic" where the kernel panics.                      *)
Ok(p, node) == [out |-> "ok", p |-> p, node |-> node]
Fails(p, out) == [out |-> out, p |-> p, node |-> Leaf("", <<>>)]
\* The ? of the code, with what follows it; and what to do where nothing was found.
Then(r, F(_)) == IF r.out = "ok" THEN F(r) ELSE r
OrElse(r, other) == IF r.out = "none" THEN other ELSE r
\* A part and those behind it.
Listed(r, Rest(_)) ==
    Then(r, LAMBDA first : Then(Rest(first.p), LAMBDA rest :
        Ok(rest.p, List(<<first.node>> \o rest.node.parts))))

HasByte(p) == p.pos < p.end
Peek(p) == code[p.pos]

\* n calls of get_next_byte.
Bytes(p, n, kind) ==
    IF p.pos + n <= p.end
    THEN Ok(Forward(p, n), Leaf(kind, SubSeq(code, p.pos, p.pos + n - 1)))
    ELSE Fails([p EXCEPT !.pos = p.end], "end")

PkgLength(p, lead, following_bytes) ==
    (IF following_bytes = 0 THEN lead % 64 ELSE lead % 16)
    + (IF following_bytes >= 1 THEN code[p.pos + 1] * 16 ELSE 0)
    + (IF following_bytes >= 2 THEN code[p.pos + 2] * 4096 ELSE 0)
    + (IF following_bytes = 3 THEN code[p.pos + 3] * 1048576 ELSE 0)
LengthWithout(p, length, following_bytes) ==
    IF length < following_bytes + 1 THEN Fails(p, "panic")
    ELSE Ok(Forward(p, following_bytes + 1), Leaf("Length", <<length - following_bytes - 1>>))
get_pkg_length(p) ==
    LET following_bytes == Peek(p) \div 64
    IN  IF ~HasByte(p) THEN Fails(p, "end")
        ELSE IF following_bytes # 0 /\ (Peek(p) \div 16) % 4 # 0 THEN Fails(Forward(p, 1), "err")
        ELSE IF p.pos + following_bytes >= p.end THEN Fails([p EXCEPT !.pos = p.end], "end")
        ELSE LengthWithout(p, PkgLength(p, Peek(p), following_bytes), following_bytes)

-----------------------------------------------------------------------------
(* Names: sequences of segments behind '\' and '^'.                           *)
Root == 92  \* '\'
Up == 94    \* '^'
IsSeg(u) == u > 255

\* parse_name_path, n times.  A segment's characters are one unit; in other
\* places a character that no name has panics.
RECURSIVE parse_name_paths(_, _)
parse_name_paths(p, n) ==
    IF n = 0 THEN Ok(p, Leaf("Path", <<>>))
    ELSE IF ~HasByte(p) THEN Fails(p, "end")
    ELSE IF Peek(p) # 0 /\ ~IsSeg(Peek(p)) THEN Fails(p, "panic")
    ELSE Then(parse_name_paths(Forward(p, 1), n - 1), LAMBDA r :
            Ok(r.p, Leaf("Path", (IF Peek(p) = 0 THEN <<>> ELSE <<Peek(p)>>) \o r.node.val)))

\* try_parse_name; parse_name panics instead of "none".
RECURSIVE try_parse_name(_)
parse_name(p) == OrElse(try_parse_name(p), Fails(p, "panic"))
try_parse_name(p) ==
    LET Prefixed(prefix) ==
            Then(parse_name(Forward(p, 1)), LAMBDA r : Ok(r.p, Leaf("Path", <<prefix>> \o r.node.val)))
    IN  CASE ~HasByte(p) -> Fails(p, "end")
          [] HasByte(p) /\ Peek(p) = 0 -> Ok(Forward(p, 1), Leaf("Path", <<>>))
          [] HasByte(p) /\ IsSeg(Peek(p)) -> parse_name_paths(p, 1)
          [] HasByte(p) /\ Peek(p) \in {Root, Up} -> Prefixed(Peek(p))
          [] HasByte(p) /\ Peek(p) = 46 -> parse_name_paths(Forward(p, 1), 2)
          [] HasByte(p) /\ Peek(p) = 47 ->
                IF p.pos + 1 = p.end THEN Fails(Forward(p, 1), "end")
                ELSE parse_name_paths(Forward(p, 2), code[p.pos + 1])
          [] OTHER -> Fails(p, "none")

(* State.  A name is looked up as it stands and by its last four characters,   *)
(* which must exist.                                                           *)
Short(name) == name[Len(name)]
HasShort(name) == name # <<>> /\ IsSeg(Short(name))
find_name(p, name) == name \in p.names \/ <<Short(name)>> \in p.names
find_method(p, name) == Short(name) \in DOMAIN p.methods
add_name(p, name) == [p EXCEPT !.names = @ \union {name}]
add_method(p, name, arg_count) == [p EXCEPT !.methods = (Short(name) :> arg_count) @@ @]

-----------------------------------------------------------------------------
(* Terms: what try_parse_term reads for an opcode.  A block is a package whose *)
(* parts fill it.                                                              *)
Rows(block, operands, named) ==
    [o \in {r[1] : r \in named} |->
        [kind |-> (CHOOSE r \in named : r[1] = o)[2], operands |-> operands, block |-> block]]
Plain(operands, named) == Rows(FALSE, operands, named)
Block(operands, named) == Rows(TRUE, operands, named)

Opcodes ==
    Plain(<<"name", "name">>, {<<\H06, "Alias">>})
    @@ Plain(<<"new_name", "data">>, {<<\H08, "NameObj">>})
    @@ Block(<<"name", "terms">>, {<<\H10, "Scope">>})
    @@ Block(<<"name", "byte", "terms">>, {<<\H14, "Method">>})
    @@ Plain(<<"arg", "target">>,
             {<<\H70, "Store">>, <<\H80, "Not">>, <<\H81, "FindSetLeftBit">>,
              <<\H82, "FindSetRightBit">>, <<\H96, "ToBuffer">>, <<\H97, "ToDecimalString">>,
              <<\H98, "ToHexString">>, <<\H99, "ToInteger">>})
    @@ Plain(<<"target">>, {<<\H71, "RefOf">>, <<\H75, "Increment">>, <<\H76, "Decrement">>,
                            <<\H87, "SizeOf">>, <<\H8E, "ObjectType">>})
    @@ Plain(<<"arg", "arg", "target">>,
             {<<\H72, "Add">>, <<\H73, "Concat">>, <<\H74, "Subtract">>, <<\H77, "Multiply">>,
              <<\H7C, "Nand">>, <<\H7D, "Or">>, <<\H7E, "Nor">>, <<\H7F, "Xor">>,
              <<\H84, "ConcatRes">>, <<\H85, "Mod">>, <<\H88, "Index">>})
    @@ Plain(<<"no_call", "arg", "target">>,
             {<<\H79, "ShiftLeft">>, <<\H7A, "ShiftRight">>, <<\H7B, "And">>})
    @@ Plain(<<"arg", "arg", "target", "target">>, {<<\H78, "Divide">>})
    @@ Plain(<<"arg">>, {<<\H83, "DerefOf">>, <<\H92, "LNot">>})
    @@ Plain(<<"target", "arg">>, {<<\H86, "Notify">>})
    @@ Plain(<<"arg", "arg", "new_name">>,
             {<<\H8A, "CreateDWordField">>, <<\H8B, "CreateWordField">>, <<\H8C, "CreateByteField">>,
              <<\H8D, "CreateBitField">>, <<\H8F, "CreateQWordField">>})
    @@ Plain(<<"arg", "arg">>, {<<\H90, "LAnd">>, <<\H91, "LOr">>, <<\H93, "LEqual">>,
                                <<\H94, "LGreater">>, <<\H95, "LLess">>})
    @@ Plain(<<"arg", "arg", "arg", "target">>, {<<\H9E, "Mid">>})
    @@ Block(<<"arg", "terms">>, {<<\HA0, "If">>, <<\HA2, "While">>})
    @@ Block(<<"terms">>, {<<\HA1, "Else">>})
    @@ Plain(<<>>, {<<\HA3, "Noop">>, <<\HA5, "Break">>})
    @@ Plain(<<"last">>, {<<\HA4, "Return">>})

\* 0x5b introduces these.
ExtOpcodes ==
    Plain(<<"name", "byte">>, {<<\H01, "Mutex">>})
    @@ Plain(<<"name">>, {<<\H02, "Event">>})
    @@ Plain(<<"target", "target">>, {<<\H12, "CondRefOf">>})
    @@ Plain(<<"arg", "arg", "arg", "name">>, {<<\H13, "CreateFieldOp">>})
    @@ Plain(<<"arg">>, {<<\H21, "Stall">>, <<\H22, "Sleep">>})
    @@ Plain(<<"target", "word">>, {<<\H23, "Acquire">>})
    @@ Plain(<<"target">>, {<<\H24, "Signal">>, <<\H26, "Reset">>, <<\H27, "Release">>})
    @@ Plain(<<"target", "arg">>, {<<\H25, "Wait">>})
    @@ Plain(<<"name", "byte", "arg", "arg">>, {<<\H80, "Region">>})
    @@ Block(<<"name", "fields">>, {<<\H81, "Field">>})
    @@ Block(<<"name", "terms">>, {<<\H82, "Device">>})
    @@ Block(<<"name", "byte", "dword", "byte", "terms">>, {<<\H83, "Processor">>})
    @@ Block(<<"name", "byte", "word", "terms">>, {<<\H84, "PowerResource">>})
    @@ Block(<<"name", "name", "fields">>, {<<\H86, "IndexField">>})

\* 0x92 in front of a comparison.
Negated == (\H93 :> "LNotEqual") @@ (\H94 :> "LLessEqual") @@ (\H95 :> "LGreaterEqual")

\* Whatever can contain a part of its own kind gets at it through Operand, which
\* is defined at the end.
RECURSIVE Operand(_, _), Operands(_, _), Predict(_, _, _, _, _), parse_fields(_, _), parse_term_list(_)
parse_term_arg(p) == Operand(p, "arg")

\* One after the other, until one fails.
Operands(p, kinds) ==
    IF kinds = <<>> THEN Ok(p, List(<<>>))
    ELSE Listed(Operand(p, kinds[1]), LAMBDA q : Operands(q, Tail(kinds)))

\* get_inner_parser: a parser of the package in front of p.
get_inner_parser(p) ==
    Then(get_pkg_length(p), LAMBDA r :
        IF r.p.pos + r.node.val[1] > p.end THEN Fails(r.p, "panic")
        ELSE Ok([r.p EXCEPT !.end = r.p.pos + r.node.val[1]], r.node))
\* The outer parser has moved behind the package before its contents are looked at.
BehindPackage(p, inner, done) == [done EXCEPT !.p = Within([p EXCEPT !.pos = inner.end], done.p)]
InPackage(p, Parse(_)) == Then(get_inner_parser(p), LAMBDA r : BehindPackage(p, r.p, Parse(r.p)))

-----------------------------------------------------------------------------
(* Data objects.                                                              *)
IntegerKind == (\HA :> "ByteConst") @@ (\HB :> "WordConst") @@ (\HC :> "DWordConst") @@ (\HE :> "QWordConst")
IntegerBytes == (\HA :> 1) @@ (\HB :> 2) @@ (\HC :> 4) @@ (\HE :> 8)
IntegerConst == (0 :> "ConstZero") @@ (1 :> "ConstOne") @@ (255 :> "ConstOnes")

ParseString(p) ==
    LET ends == {i \in p.pos .. p.end - 1 : code[i] = 0}
        last == CHOOSE i \in ends : \A j \in ends : i <= j
    IN  IF ends = {} THEN Fails([p EXCEPT !.pos = p.end], "end")
        ELSE Ok([p EXCEPT !.pos = last + 1], Leaf("String", SubSeq(code, p.pos, last - 1)))

\* A buffer takes what is left of its package.
BufferOf(size, data, template) ==
    CASE template.out = "ok" -> Ok(size.p, Node("ResourceTemplate", <<>>, template.items))
      [] template.out = "none" -> Ok(size.p, Node("Buffer", data, <<size.node>>))
      [] OTHER -> Fails(size.p, template.out)
ParseBuffer(p) ==
    Then(parse_term_arg(p), LAMBDA size :
        LET data == SubSeq(code, size.p.pos, size.p.end - 1) IN BufferOf(size, data, try_parse_buffer(data)))

\* parse_package_element, to the end of the package.
RECURSIVE PackageElements(_)
PackageElements(p) ==
    IF ~HasByte(p) THEN Ok(p, List(<<>>))
    ELSE Listed(OrElse(OrElse(Operand(p, "data_or_none"), try_parse_name(p)), Fails(p, "err")), PackageElements)

Package(r, kind) ==
    Then(r, LAMBDA size : Then(PackageElements(size.p), LAMBDA elements :
        Ok(elements.p, Node(kind, <<>>, <<size.node>> \o elements.node.parts))))

try_parse_data_object(p) ==
    LET lead == Peek(p)
        q == Forward(p, 1)
    IN  CASE ~HasByte(p) -> Fails(p, "end")
          [] HasByte(p) /\ lead \in DOMAIN IntegerConst -> Ok(q, Leaf(IntegerConst[lead], <<>>))
          [] HasByte(p) /\ lead \in DOMAIN IntegerKind -> Bytes(q, IntegerBytes[lead], IntegerKind[lead])
          [] HasByte(p) /\ lead = \HD -> ParseString(q)
          [] HasByte(p) /\ lead = \H11 -> InPackage(q, ParseBuffer)
          [] HasByte(p) /\ lead = \H12 ->
                InPackage(q, LAMBDA i : Package(Bytes(i, 1, "Byte"), "Package"))
          [] HasByte(p) /\ lead = \H13 ->
                InPackage(q, LAMBDA i : Package(parse_term_arg(i), "VarPackage"))
          [] OTHER -> Fails(p, "none")

\* The dword of an id is a compressed string: three letters and four digits.
parse_eisa_id(b) ==
    <<(b[1] \div 4) + 64, (b[1] % 4) * 8 + (b[2] \div 32) + 64, (b[2] % 32) + 64, b[3], b[4]>>
IsId(name) == \E i \in DOMAIN name : name[i] \in IdSegs
NamedData(name, data) ==
    IF data.kind = "DWordConst" /\ IsId(name) THEN Leaf("EisaId", parse_eisa_id(data.val)) ELSE data

-----------------------------------------------------------------------------
(* Fields.  A length counts bits; get_pkg_length takes the bytes of a length   *)
(* off it and the caller adds one again, whatever they were.                   *)
FieldBits_NotAdded(length) == length    \* mutant: nothing is added

FieldBits(length) == length + 1

AttribKind(access, attrib) ==
    CASE access \div 64 = 0 -> IF attrib \in {2, 4, 6, 8, 10, 12, 13} THEN "Attrib" ELSE "ByteValue"
      [] access \div 64 = 1 -> "Bytes"
      [] access \div 64 = 2 -> "RawBytes"
      [] OTHER -> "RawProcessBytes"
ExtendedKind == (\HB :> "Bytes") @@ (\HE :> "RawBytes") @@ (\HF :> "RawProcessBytes")
Access(p, access, kind, attrib) ==
    IF access % 16 > 5 THEN Fails(p, "err")
    ELSE Ok(p, Node("Access", <<access % 16>>, <<Leaf(kind, <<attrib>>)>>))

FieldAccess(p) ==
    Then(Bytes(p, 2, "Byte"), LAMBDA r :
        LET b == r.node.val IN Access(r.p, b[1], AttribKind(b[1], b[2]), b[2]))
FieldExtendedAccess(p) ==
    Then(Bytes(p, 3, "Byte"), LAMBDA r :
        LET b == r.node.val
        IN  IF b[2] \notin DOMAIN ExtendedKind THEN Fails(r.p, "err")
            ELSE Access(r.p, b[1], ExtendedKind[b[2]], b[3]))

\* The buffer of a connection is read by a clone: self stays in front of it.
ConnectionOf(p, data) ==
    IF data.out \notin {"ok", "none"} THEN data
    ELSE IF data.out = "ok" /\ data.node.kind = "Buffer"
    THEN Ok(Within(p, data.p), Node("Connection", <<>>, <<data.node>>))
    ELSE Then(parse_name(Within(p, data.p)), LAMBDA name : Ok(name.p, Node("Connection", <<>>, <<name.node>>)))
FieldConnection(p) == ConnectionOf(p, Operand(p, "data_or_none"))

\* A reserved element: the offset in bytes of what follows it.
FieldOffset(p, at_bits) ==
    Then(get_pkg_length(p), LAMBDA r :
        LET bits == at_bits + FieldBits(r.node.val[1])
        IN  IF bits % 8 # 0 THEN Fails(r.p, "err") ELSE Ok(r.p, Leaf("Offset", <<bits \div 8>>)))

\* A name segment and its size; any other name fails the assertion on its size.
FieldNamed(p) ==
    IF ~IsSeg(Peek(p)) THEN Fails(p, "panic")
    ELSE Then(get_pkg_length(add_name(Forward(p, 1), <<Peek(p)>>)), LAMBDA r :
            Ok(r.p, Leaf("Named", <<Peek(p), FieldBits(r.node.val[1])>>)))

FieldElement(p, at_bits) ==
    CASE Peek(p) = 0 -> FieldOffset(Forward(p, 1), at_bits)
      [] Peek(p) = 1 -> FieldAccess(Forward(p, 1))
      [] Peek(p) = 2 -> FieldConnection(Forward(p, 1))
      [] Peek(p) = 3 -> FieldExtendedAccess(Forward(p, 1))
      [] OTHER -> FieldNamed(p)

\* The rest of parse_fields_list_and_flags, at_bits into the region.
parse_fields(p, at_bits) ==
    LET Behind(element) == CASE element.kind = "Offset" -> element.val[1] * 8
                             [] element.kind = "Named" -> at_bits + element.val[2]
                             [] OTHER -> at_bits
    IN  IF ~HasByte(p) THEN Ok(p, List(<<>>))
        ELSE Then(FieldElement(p, at_bits), LAMBDA first :
                Listed(first, LAMBDA q : parse_fields(q, Behind(first.node))))

\* The flags, read before the fields, are looked at behind them.
Flagged(r, b) ==
    IF b % 16 > 5 \/ b \div 32 > 2 THEN Fails(r.p, "err")
    ELSE Ok(r.p, Node("Fields", <<b % 16, (b \div 16) % 2, b \div 32>>, r.node.parts))

-----------------------------------------------------------------------------
(* The guess.  No argument of a call is one of these.                         *)
NeverArgs ==
    {"Store", "Notify", "Release", "Reset", "Signal", "Wait", "Sleep", "Stall", "Acquire",
     "CondRefOf", "Break", "Return", "Noop", "Else", "If", "While", "Scope", "Region", "Field",
     "IndexField", "Device", "Processor", "PowerResource", "Method", "NameObj", "Alias",
     "ToHexString", "ToBuffer", "ToDecimalString", "ToInteger", "Mutex", "Event",
     "CreateDWordField", "CreateWordField", "CreateByteField", "CreateBitField", "CreateQWordField"}
\* Nor one of these that stores its result.
NotStoring ==
    {"Add", "Concat", "Subtract", "Multiply", "Divide", "ShiftLeft", "ShiftRight", "And", "Nand",
     "Or", "Nor", "Xor", "Not", "ConcatRes", "Mod", "Index"}
\* Mutant: a term that stores its result is taken for an argument.
EndsArgs_Storing(node) == node.kind \in NeverArgs

EndsArgs(node) ==
    \/ node.kind \in NeverArgs
    \/ node.kind \in NotStoring /\ node.parts[Len(node.parts)].kind # "None"

\* predict_possible_args: as many arguments as can be parsed, at most 7, n so
\* far.  q is the parser that looks ahead; p learns the names q meets.
Predict(p, q, expect_data_after, name, n) ==
    LET Guess(r, args) == Ok(Within(p, r.p), Leaf("Args", <<args>>))
        After(r) ==
            CASE r.out = "panic" -> r
              [] r.out = "end" ->
                    Guess(r, IF n > 0 /\ expect_data_after /\ ~HasByte(r.p) THEN n - 1 ELSE n)
              [] r.out = "err" -> Guess(r, n)
              [] r.out = "ok" /\ r.node.kind = "Name" /\ r.node.val = name -> Guess(r, 0)
              [] r.out = "ok" /\ EndsArgs(r.node) -> Guess(r, n)
              [] OTHER -> Predict(p, r.p, expect_data_after, name, n + 1)
    IN  IF n = 7 THEN Ok(Within(p, q), Leaf("Args", <<7>>)) ELSE After(parse_term_arg(q))

\* The call of a name whose number of arguments is known or guessed.
Call(p, name, args) ==
    Then(Operands(p, [i \in 1..args |-> "arg"]), LAMBDA r : Ok(r.p, Node("MethodCall", name, r.node.parts)))

\* A name as an argument.
NameOrCall(p, name, can_call_method, expect_data_after) ==
    LET IsName(q) == Ok(q, Leaf("Name", name))
    IN  CASE find_method(p, name) -> Call(p, name, p.methods[Short(name)])
          [] ~find_method(p, name) /\ find_name(p, name) -> IsName(p)
          [] OTHER ->
                IF ~can_call_method THEN IsName(add_name(p, name))
                ELSE Then(Predict(p, p, expect_data_after, name, 0), LAMBDA guess :
                        IF guess.node.val[1] = 0 THEN IsName(add_name(guess.p, name))
                        ELSE Call(guess.p, name, guess.node.val[1]))

parse_term_arg_general(p, can_call_method, expect_data_after) ==
    LET lead == Peek(p)
        Named == Then(try_parse_name(p), LAMBDA name :
                    IF HasShort(name.node.val)
                    THEN NameOrCall(name.p, name.node.val, can_call_method, expect_data_after)
                    ELSE Fails(p, "panic"))
    IN  OrElse(try_parse_data_object(p),
            IF lead \in \H60..\H67 THEN Ok(Forward(p, 1), Leaf("Local", <<lead - \H60>>))
            ELSE IF lead \in \H68..\H6E THEN Ok(Forward(p, 1), Leaf("Arg", <<lead - \H68>>))
            ELSE IF try_parse_name(p).out # "none" THEN Named
            ELSE OrElse(Operand(p, "term"), Fails(p, "panic")))

\* A target that is a term must be one of three.
TermTargets == {"Index", "RefOf", "DerefOf"}
parse_target(p) ==
    LET lead == Peek(p)
        q == Forward(p, 1)
        TermTarget(term) ==
            IF term.out = "none" \/ (term.out = "ok" /\ term.node.kind \notin TermTargets)
            THEN Fails(term.p, "err") ELSE term
    IN  CASE ~HasByte(p) -> Fails(p, "end")
          [] HasByte(p) /\ lead = 0 -> Ok(q, Leaf("None", <<>>))
          [] HasByte(p) /\ lead = \H5B ->
                IF ~HasByte(q) THEN Fails(q, "end")
                ELSE IF Peek(q) # \H31 THEN Fails(q, "panic")
                ELSE Ok(Forward(q, 1), Leaf("Debug", <<>>))
          [] HasByte(p) /\ lead = \H71 -> Fails(p, "panic")
          [] HasByte(p) /\ lead \in \H60..\H67 -> Ok(q, Leaf("Local", <<lead - \H60>>))
          [] HasByte(p) /\ lead \in \H68..\H6E -> Ok(q, Leaf("Arg", <<lead - \H68>>))
          [] OTHER ->
                OrElse(Then(try_parse_name(p), LAMBDA name : Ok(name.p, Leaf("Name", name.node.val))),
                       TermTarget(Operand(p, "term")))

\* What try_parse_term does with the parts of a term.
MadeMethod(p, name, flags, body) ==
    IF ~HasShort(name.val) THEN Fails(p, "panic")
    ELSE Ok(add_method(p, name.val, flags % 8),
            Node("Method", <<flags % 8, (flags \div 8) % 2, flags \div 16>>, <<name, body>>))
Made(p, kind, parts) ==
    CASE kind = "Alias" -> Ok(add_name(add_name(p, parts[2].val), parts[1].val), Node(kind, <<>>, parts))
      [] kind = "NameObj" -> Ok(p, Node(kind, <<>>, <<parts[1], NamedData(parts[1].val, parts[2])>>))
      [] kind = "Method" -> MadeMethod(p, parts[1], parts[2].val[1], parts[3])
      [] OTHER -> Ok(p, Node(kind, <<>>, parts))
Finish(r, kind) ==
    Then(r, LAMBDA done : Made(done.p, kind, done.node.parts))

Term(p, row) ==
    Finish(IF row.block THEN InPackage(p, LAMBDA i : Operands(i, row.operands))
           ELSE Operands(p, row.operands), row.kind)

\* A name that starts a statement is a call.
Statement(p) ==
    Then(try_parse_name(p), LAMBDA name :
        LET path == name.node.val
        IN  IF ~HasShort(path) THEN Fails(p, "panic")
            ELSE IF find_method(name.p, path) THEN Call(name.p, path, p.methods[Short(path)])
            ELSE Then(Predict(name.p, name.p, FALSE, path, 0), LAMBDA guess :
                    Call(guess.p, path, guess.node.val[1])))

\* p is behind the opcode.
try_parse_term(p, opcode) ==
    CASE opcode = \H5B ->
            IF ~HasByte(p) THEN Fails(p, "end")
            ELSE IF Peek(p) \in DOMAIN ExtOpcodes THEN Term(Forward(p, 1), ExtOpcodes[Peek(p)])
            ELSE Fails(p, "panic")
      [] opcode = \H92 ->
            IF ~HasByte(p) THEN Fails(p, "end")
            ELSE IF Peek(p) \in DOMAIN Negated
            THEN Finish(Operands(Forward(p, 1), <<"arg", "arg">>), Negated[Peek(p)])
            ELSE Term(p, Opcodes[opcode])
      [] opcode \in DOMAIN Opcodes \ {\H92} -> Term(p, Opcodes[opcode])
      [] OTHER -> Statement([p EXCEPT !.pos = @ - 1])

\* parse_term, to the end.
parse_term_list(p) ==
    IF ~HasByte(p) THEN Ok(p, List(<<>>))
    ELSE Listed(OrElse(Operand(p, "term"), Fails(p, "panic")), parse_term_list)

\* A part of a term, by its kind.
Operand(p, kind) ==
    CASE kind = "arg" -> parse_term_arg_general(p, TRUE, TRUE)
      [] kind = "no_call" -> parse_term_arg_general(p, FALSE, TRUE)
      [] kind = "last" -> parse_term_arg_general(p, TRUE, FALSE)
      [] kind = "term" -> try_parse_term(Forward(p, 1), Peek(p))
      [] kind = "data_or_none" -> try_parse_data_object(p)
      [] kind = "target" -> parse_target(p)
      [] kind = "name" -> parse_name(p)
      [] kind = "new_name" ->
            Then(parse_name(p), LAMBDA r : Ok(add_name(r.p, r.node.val), r.node))
      [] kind = "data" -> OrElse(try_parse_data_object(p), Fails(p, "err"))
      [] kind = "byte" -> Bytes(p, 1, "Byte")
      [] kind = "word" -> Bytes(p, 2, "Word")
      [] kind = "dword" -> Bytes(p, 4, "DWord")
      [] kind = "terms" -> parse_term_list(p)
      [] kind = "fields" ->
            Then(Bytes(p, 1, "Byte"), LAMBDA flags : Then(parse_fields(flags.p, 0), LAMBDA r :
                Flagged(r, flags.node.val[1])))

parse_aml == parse_term_list(ParserAt(1, Len(code) + 1))
==============================================================================
