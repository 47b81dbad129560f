------------------------------ MODULE AmlPrograms ------------------------------
(***************************************************************************)
(* Programs, and their code as the grammar of AML (chapter 20 of the ACPI  *)
(* specification) writes it: what the parser must give back.  Nothing here *)
(* is taken from the parser but the form of its nodes.                     *)
(***************************************************************************)
EXTENDS AmlNamespace

VARIABLES program,      \* a sequence of terms
          parsed,       \* what parse_aml returned
          tree          \* the namespace of what it returned

(* Segments.                                                                  *)
NAMA == 301
MTH2 == 302
NEWN == 303
REGN == 304
DEVN == 305
UNKM == 306
FLDA == 307
FLDB == 308
HIDN == 309
SBUS == 310

P(name) == Leaf("Path", name)
B(n) == Leaf("ByteConst", <<n>>)
Local(n) == Leaf("Local", <<n>>)
Var(name) == Leaf("Name", name)
None == Leaf("None", <<>>)
T(kind, parts) == Node(kind, <<>>, parts)
Method(name, args, serialized, sync, terms) ==
    Node("Method", <<args, serialized, sync>>, <<P(name), List(terms)>>)

-----------------------------------------------------------------------------
(* The grammar: opcode and operands of a term.                                *)
G(opcode, operands) == [opcode |-> opcode, operands |-> operands]
Two == <<"arg", "arg">>
Math == <<"arg", "arg", "target">>
Grammar ==
    [Alias |-> G(<<6>>, <<"old", "name">>), NameObj |-> G(<<8>>, <<"name", "data">>),
     Store |-> G(<<112>>, <<"arg", "target">>), Add |-> G(<<114>>, Math), Concat |-> G(<<115>>, Math),
     Subtract |-> G(<<116>>, Math), Increment |-> G(<<117>>, <<"super">>), Decrement |-> G(<<118>>, <<"super">>),
     Multiply |-> G(<<119>>, Math), Divide |-> G(<<120>>, <<"arg", "arg", "target", "target">>),
     ShiftLeft |-> G(<<121>>, Math), ShiftRight |-> G(<<122>>, Math), And |-> G(<<123>>, Math),
     Nand |-> G(<<124>>, Math), Or |-> G(<<125>>, Math), Nor |-> G(<<126>>, Math), Xor |-> G(<<127>>, Math),
     Not |-> G(<<128>>, <<"arg", "target">>), FindSetLeftBit |-> G(<<129>>, <<"arg", "target">>),
     FindSetRightBit |-> G(<<130>>, <<"arg", "target">>), DerefOf |-> G(<<131>>, <<"arg">>),
     ConcatRes |-> G(<<132>>, Math), Mod |-> G(<<133>>, Math), Notify |-> G(<<134>>, <<"super", "arg">>),
     SizeOf |-> G(<<135>>, <<"super">>), Index |-> G(<<136>>, Math),
     CreateDWordField |-> G(<<138>>, <<"arg", "arg", "name">>),
     CreateWordField |-> G(<<139>>, <<"arg", "arg", "name">>),
     CreateByteField |-> G(<<140>>, <<"arg", "arg", "name">>),
     CreateBitField |-> G(<<141>>, <<"arg", "arg", "name">>), ObjectType |-> G(<<142>>, <<"super">>),
     CreateQWordField |-> G(<<143>>, <<"arg", "arg", "name">>),
     LAnd |-> G(<<144>>, Two), LOr |-> G(<<145>>, Two), LNot |-> G(<<146>>, <<"arg">>),
     LNotEqual |-> G(<<146, 147>>, Two), LLessEqual |-> G(<<146, 148>>, Two),
     LGreaterEqual |-> G(<<146, 149>>, Two), LEqual |-> G(<<147>>, Two), LGreater |-> G(<<148>>, Two),
     LLess |-> G(<<149>>, Two), ToBuffer |-> G(<<150>>, <<"arg", "target">>),
     ToDecimalString |-> G(<<151>>, <<"arg", "target">>), ToHexString |-> G(<<152>>, <<"arg", "target">>),
     ToInteger |-> G(<<153>>, <<"arg", "target">>), Mid |-> G(<<158>>, <<"arg", "arg", "arg", "target">>),
     Noop |-> G(<<163>>, <<>>), Return |-> G(<<164>>, <<"arg">>), Break |-> G(<<165>>, <<>>),
     Mutex |-> G(<<91, 1>>, <<"name", "byte">>), Event |-> G(<<91, 2>>, <<"name">>),
     CondRefOf |-> G(<<91, 18>>, <<"super", "target">>),
     CreateFieldOp |-> G(<<91, 19>>, <<"arg", "arg", "arg", "name">>),
     Stall |-> G(<<91, 33>>, <<"arg">>), Sleep |-> G(<<91, 34>>, <<"arg">>),
     Acquire |-> G(<<91, 35>>, <<"super", "word">>), Signal |-> G(<<91, 36>>, <<"super">>),
     Wait |-> G(<<91, 37>>, <<"super", "arg">>), Reset |-> G(<<91, 38>>, <<"super">>),
     Release |-> G(<<91, 39>>, <<"super">>), Region |-> G(<<91, 128>>, <<"name", "byte", "arg", "arg">>)]
\* Their operands are in a package.
BlockGrammar ==
    [Scope |-> G(<<16>>, <<"old", "terms">>), Method |-> G(<<20>>, <<>>), If |-> G(<<160>>, <<"arg", "terms">>),
     Else |-> G(<<161>>, <<"terms">>), While |-> G(<<162>>, <<"arg", "terms">>),
     Field |-> G(<<91, 129>>, <<"old", "fields">>), Device |-> G(<<91, 130>>, <<"name", "terms">>),
     Processor |-> G(<<91, 131>>, <<"name", "byte", "dword", "byte", "terms">>),
     PowerResource |-> G(<<91, 132>>, <<"name", "byte", "word", "terms">>),
     IndexField |-> G(<<91, 134>>, <<"old", "old", "fields">>),
     Buffer |-> G(<<17>>, <<>>), ResourceTemplate |-> G(<<17>>, <<>>), Package |-> G(<<18>>, <<>>), VarPackage |-> G(<<19>>, <<>>)]

IntegerCode == [ConstZero |-> 0, ConstOne |-> 1, ConstOnes |-> 255, ByteConst |-> 10, WordConst |-> 11,
                DWordConst |-> 12, QWordConst |-> 14, String |-> 13, EisaId |-> 12]

PathCode(name) ==
    LET segs == SelectSeq(name, IsSeg)
        prefix == SelectSeq(name, LAMBDA u : ~IsSeg(u))
    IN  prefix \o (CASE Len(segs) = 0 -> <<0>>
                     [] Len(segs) = 1 -> segs
                     [] Len(segs) = 2 -> <<46>> \o segs
                     [] OTHER -> <<47, Len(segs)>> \o segs)

\* A length in one byte, or with four bits in the first of two.
LengthCode(n) == IF n < 64 THEN <<n>> ELSE <<64 + (n % 16), n \div 16>>
InPackageCode(body) ==
    LengthCode(IF Len(body) < 63 THEN Len(body) + 1 ELSE Len(body) + 2) \o body

AttribCode == [Attrib |-> 0, ByteValue |-> 0, Bytes |-> 64, RawBytes |-> 128, RawProcessBytes |-> 192]
EisaCode(id) ==
    LET c == [i \in 1..3 |-> id[i] - 64]
    IN  <<c[1] * 4 + (c[2] \div 8), (c[2] % 8) * 32 + c[3], id[4], id[5]>>

(* Resource descriptors (section 6.4 of the specification).                    *)
LargeCode(tag, body) == <<128 + tag, Len(body) % 256, Len(body) \div 256>> \o body
\* The type of an address space, the general flags and the flags of the type.
SpaceCode(v) ==
    LET flags(k) == v[k] + 8 * v[k + 1] + 4 * v[k + 2] + 2 * v[k + 3]
    IN  CASE v[1] = 0 -> <<0, flags(6), v[2] + 2 * v[3] + 8 * v[4] + 32 * v[5]>> \o SubSeq(v, 10, Len(v))
          [] v[1] = 1 -> <<1, flags(5), v[3] + 16 * v[2] + 32 * v[4]>> \o SubSeq(v, 9, Len(v))
          [] v[1] = 2 -> <<2, flags(2), 0>> \o SubSeq(v, 6, Len(v))
          [] OTHER -> <<v[1], flags(3), v[2]>> \o SubSeq(v, 7, Len(v))
ItemCode(item) ==
    LET v == item.val
    IN  CASE item.kind = "Irq" -> <<35, v[5], v[6], v[4] + 8 * v[3] + 16 * v[2] + 32 * v[1]>>
          [] item.kind = "Dma" -> <<42, v[4], v[3] + 4 * v[2] + 32 * v[1]>>
          [] item.kind = "StartDependentFunctions" -> <<49, v[1] + 4 * v[2]>>
          [] item.kind = "EndDependentFunctions" -> <<56>>
          [] item.kind = "Io" -> <<71>> \o v
          [] item.kind = "FixedIo" -> <<75>> \o v
          [] item.kind = "FixedDma" -> <<85>> \o v
          [] item.kind = "Memory24" -> LargeCode(1, <<v[1], v[3], v[4], v[7], v[8]>> \o SubSeq(v, 10, 13))
          [] item.kind = "Register" -> LargeCode(2, v)
          [] item.kind = "Memory32" -> LargeCode(5, v)
          [] item.kind = "Memory32Fixed" -> LargeCode(6, v)
          [] item.kind = "AddressSpaceDWord" -> LargeCode(7, SpaceCode(v))
          [] item.kind = "AddressSpaceWord" -> LargeCode(8, SpaceCode(v))
          [] item.kind = "Interrupt" ->
                LET n == (Len(v) - 5) \div 4
                IN  LargeCode(9, <<v[1] + 2 * v[2] + 4 * v[3] + 8 * v[4] + 16 * v[5], n>> \o SubSeq(v, 6, Len(v)))
          [] item.kind = "AddressSpaceQWord" -> LargeCode(10, SpaceCode(v))
          [] item.kind = "AddressSpaceExtended" ->
                LET c == SpaceCode(v) IN LargeCode(11, SubSeq(c, 1, 3) \o <<1, 0>> \o SubSeq(c, 4, Len(c)))
RECURSIVE ItemsCode(_)
ItemsCode(items) == IF items = <<>> THEN <<>> ELSE ItemCode(items[1]) \o ItemsCode(Tail(items))
\* Behind the size, with the end tag and the checksum.
TemplateCode(items) ==
    LET data == ItemsCode(items) \o <<121>>
    IN  <<10, Len(data) + 1>> \o data \o <<(256 - WrappingSum(data, 1, Len(data))) % 256>>

RECURSIVE Code(_), CodeOf(_), FieldsCode(_, _)
CodeOf(nodes) == IF nodes = <<>> THEN <<>> ELSE Code(nodes[1]) \o CodeOf(Tail(nodes))
\* The elements of a field, at_bits into the region.
FieldsCode(elements, at_bits) ==
    IF elements = <<>> THEN <<>>
    ELSE LET e == elements[1]
             rest(n) == FieldsCode(Tail(elements), at_bits + n)
         IN  CASE e.kind = "Named" -> <<e.val[1]>> \o LengthCode(e.val[2]) \o rest(e.val[2])
               [] e.kind = "Offset" ->
                    LET n == e.val[1] * 8 - at_bits IN <<0>> \o LengthCode(n) \o rest(n)
               [] e.kind = "Access" ->
                    <<1, e.val[1] + AttribCode[e.parts[1].kind]>> \o e.parts[1].val \o rest(0)
               [] e.kind = "Connection" -> <<2>> \o Code(e.parts[1]) \o rest(0)
Code(n) ==
    CASE n.kind \in {"Path", "Name"} -> PathCode(n.val)
      [] n.kind \in {"Byte", "Word", "DWord"} -> n.val
      [] n.kind \in DOMAIN IntegerCode \ {"String", "EisaId"} -> <<IntegerCode[n.kind]>> \o n.val
      [] n.kind = "String" -> <<13>> \o n.val \o <<0>>
      [] n.kind = "EisaId" -> <<12>> \o EisaCode(n.val)
      [] n.kind = "Local" -> <<96 + n.val[1]>>
      [] n.kind = "Arg" -> <<104 + n.val[1]>>
      [] n.kind = "None" -> <<0>>
      [] n.kind = "Debug" -> <<91, 49>>
      [] n.kind = "MethodCall" -> PathCode(n.val) \o CodeOf(n.parts)
      [] n.kind = "List" -> CodeOf(n.parts)
      [] n.kind = "Fields" -> <<n.val[1] + 16 * n.val[2] + 32 * n.val[3]>> \o FieldsCode(n.parts, 0)
      [] n.kind \in DOMAIN Grammar -> Grammar[n.kind].opcode \o CodeOf(n.parts)
      [] n.kind \in DOMAIN BlockGrammar ->
            BlockGrammar[n.kind].opcode \o InPackageCode(
                CASE n.kind = "Method" ->
                        Code(n.parts[1]) \o <<n.val[1] + 8 * n.val[2] + 16 * n.val[3]>> \o Code(n.parts[2])
                  [] n.kind = "Buffer" -> CodeOf(n.parts) \o n.val
                  [] n.kind = "ResourceTemplate" -> TemplateCode(n.parts)
                  [] OTHER -> CodeOf(n.parts))

-----------------------------------------------------------------------------
(* Samples.                                                                   *)
Num(lo, n) == [i \in 1..n |-> (lo * i) % 256]
Args == {B(5), Local(0), Leaf("Arg", <<6>>), Var(<<NAMA>>), Var(<<Root, SBUS, NAMA>>),
         Node("MethodCall", <<MTH2>>, <<Local(1), Var(<<NAMA>>)>>),
         T("Add", <<Local(2), Leaf("ConstOne", <<>>), None>>),
         T("LNotEqual", <<Local(2), Leaf("WordConst", <<1, 2>>)>>)}
FewArgs == {B(5), Var(<<NAMA>>), Node("MethodCall", <<MTH2>>, <<Local(1), Var(<<NAMA>>)>>)}
Supers == {Local(7), Var(<<NAMA>>), Leaf("Debug", <<>>), T("Index", <<Local(0), B(1), None>>),
           T("DerefOf", <<Local(3)>>)}
Datas ==
    {Leaf("ConstZero", <<>>), Leaf("ConstOnes", <<>>), Leaf("DWordConst", Num(3, 4)), Leaf("QWordConst", Num(5, 8)),
     Leaf("String", <<65, 66>>), Leaf("String", <<>>), T("Package", <<Leaf("Byte", <<0>>)>>),
     T("Package", <<Leaf("Byte", <<3>>), B(7), P(<<NAMA>>), T("Package", <<Leaf("Byte", <<1>>), Leaf("ConstOne", <<>>)>>)>>),
     T("VarPackage", <<Local(0), P(<<Up, Up, NAMA>>)>>),
     Node("Buffer", <<>>, <<B(4)>>), Node("Buffer", Num(7, 61), <<B(61)>>), Node("Buffer", Num(7, 62), <<B(62)>>)}
FieldLists ==
    {<<>>, <<Leaf("Named", <<FLDA, 8>>), Leaf("Offset", <<3>>), Leaf("Named", <<FLDB, 63>>)>>,
     <<Leaf("Offset", <<1>>), Node("Access", <<1>>, <<Leaf("Bytes", <<4>>)>>), Leaf("Named", <<FLDA, 1>>)>>,
     <<Node("Access", <<5>>, <<Leaf("Attrib", <<6>>)>>), T("Connection", <<P(<<NAMA>>)>>), Leaf("Named", <<FLDA, 1>>)>>}
Items16 ==
    {Leaf("Irq", <<0, 1, 1, 0, 16, 2>>), Leaf("Dma", <<2, 1, 1, 4>>), Leaf("StartDependentFunctions", <<1, 2>>),
     Leaf("EndDependentFunctions", <<>>), Leaf("Io", <<1>> \o Num(9, 6)), Leaf("FixedIo", <<8, 3, 5>>),
     Leaf("FixedDma", <<1, 0, 2, 0, 3>>), Leaf("Memory24", <<1, 0, 4, 5, 0, 0, 6, 7, 0>> \o Num(2, 4)),
     Leaf("Register", <<127, 8, 0, 1>> \o Num(3, 8)), Leaf("Memory32", <<0>> \o Num(4, 16)),
     Leaf("Memory32Fixed", <<1>> \o Num(6, 8)), Leaf("Interrupt", <<1, 0, 1, 0, 1>> \o Num(8, 8)),
     Leaf("AddressSpaceWord", <<2>> \o <<1, 0, 1, 0>> \o Num(5, 10)),
     Leaf("AddressSpaceDWord", <<0, 1, 2, 1, 0>> \o <<0, 1, 1, 0>> \o Num(5, 20) \o <<4>>),
     Leaf("AddressSpaceQWord", <<1, 0, 3, 1>> \o <<0, 0, 1, 1>> \o Num(7, 40)),
     Leaf("AddressSpaceExtended", <<200, 9>> \o <<1, 1, 0, 0>> \o Num(7, 48))}
Bodies == {<<>>, <<T("Store", <<Var(<<NAMA>>), Local(0)>>)>>, <<T("Noop", <<>>), T("Return", <<Var(<<NAMA>>)>>)>>}

Sample(class, short) ==
    CASE class = "arg" -> IF short THEN Args ELSE FewArgs
      [] class = "super" -> Supers
      [] class = "target" -> Supers \union {None}
      [] class = "old" -> {P(<<NAMA>>), P(<<Root, SBUS, DEVN, NAMA>>)}
      [] class = "name" -> {P(<<NEWN>>), P(<<Up, NEWN>>)}
      [] class = "data" -> Datas \union {T("ResourceTemplate", <<i, j>>) : i, j \in Items16}
      [] class = "byte" -> {Leaf("Byte", <<3>>)}
      [] class = "word" -> {Leaf("Word", <<255, 255>>)}
      [] class = "dword" -> {Leaf("DWord", Num(9, 4))}
      [] class = "terms" -> {List(b) : b \in Bodies}
      [] class = "fields" -> {Node("Fields", <<1, 0, 2>>, f) : f \in FieldLists}
RECURSIVE OperandChoices(_, _)
OperandChoices(classes, short) ==
    IF classes = <<>> THEN {<<>>}
    ELSE {<<x>> \o rest : x \in Sample(classes[1], short), rest \in OperandChoices(Tail(classes), short)}

SampleTerms ==
    (UNION {{T(kind, c) : c \in OperandChoices(Grammar[kind].operands, Len(Grammar[kind].operands) < 3)}
            : kind \in DOMAIN Grammar})
    \union (UNION {{T(kind, c) : c \in OperandChoices(BlockGrammar[kind].operands, TRUE)}
            : kind \in DOMAIN BlockGrammar \ {"Method", "Buffer", "Package", "VarPackage", "ResourceTemplate"}})
    \union {Method(<<NEWN>>, n, 1, 9, b) : n \in {0, 7}, b \in Bodies}
    \union {T("NameObj", <<P(<<HIDN>>), Leaf("EisaId", <<80, 78, 80, 10, 3>>)>>)}
    \union {Node("MethodCall", <<Root, SBUS, MTH2>>, <<x, y>>) : x, y \in Args}
    \* a method that is not known, with up to 3 arguments
    \union {Node("MethodCall", <<UNKM>>, a) : a \in UNION {[1..n -> FewArgs] : n \in 0..3}}

\* What the terms refer to is declared in front of them.
Prelude == <<T("NameObj", <<P(<<NAMA>>), Leaf("ConstOne", <<>>)>>),
             Method(<<MTH2>>, 2, 0, 0, <<T("Return", <<T("Add", <<Leaf("Arg", <<0>>), Leaf("Arg", <<1>>), None>>)>>)>>)>>
Programs ==
    {Prelude \o <<t>> \o after
     : t \in SampleTerms, after \in {<<>>, <<T("Noop", <<>>)>>, <<T("Store", <<Local(0), Local(1)>>)>>,
                                    <<T("Add", <<Local(0), B(1), Local(1)>>)>>}}


(* Programs that declare objects all over the namespace, from scopes of one    *)
(* and of two levels.                                                          *)
Objects(depth) ==
    LET names == {<<NEWN>>, <<Root, NEWN>>, <<Root, SBUS, NEWN>>, <<DEVN, NEWN>>}
                 \union (IF depth > 1 THEN {<<Up, NEWN>>} ELSE {})
                 \union (IF depth > 2 THEN {<<Up, Up, DEVN, NEWN>>} ELSE {})
    IN  {T("NameObj", <<P(n), B(depth)>>) : n \in names}
        \union {Method(n, 1, 0, 0, <<>>) : n \in names}
        \union {T("Region", <<P(<<Root, SBUS, REGN>>), Leaf("Byte", <<depth>>), B(0), B(8)>>),
                T("Field", <<P(<<Root, SBUS, REGN>>), Node("Fields", <<depth, 0, 0>>, <<>>)>>),
                T("PowerResource", <<P(<<DEVN>>), Leaf("Byte", <<depth>>), Leaf("Word", <<0, 1>>), List(<<>>)>>),
                T("Store", <<B(depth), Local(0)>>)}
ScopeNames == {<<SBUS>>, <<Root, SBUS>>, <<Root>>, <<DEVN, SBUS>>}
Nested(depth, Inner) ==
    {T("Scope", <<P(n), List(<<x>>)>>) : n \in ScopeNames, x \in Inner}
    \union {T("Device", <<P(<<DEVN>>), List(<<x>>)>>) : x \in Inner}
TopTerms == Objects(1) \union Nested(1, Objects(2))
DeepTerms == Nested(1, {T("Device", <<P(<<DEVN>>), List(<<x>>)>>) : x \in Objects(3)})
ScopedPrograms == {<<x, y>> : x \in TopTerms, y \in TopTerms} \union {<<x, y>> : x \in DeepTerms, y \in Objects(1)}

\* What a program declares: absolute paths, and the term.
Ups(name) == Cardinality({i \in DOMAIN name : name[i] = Up})
Absolute(name, path) ==
    LET segs == SelectSeq(name, IsSeg)
        ups == Ups(name)
    IN  IF name[1] = Root THEN segs ELSE SubSeq(path, 1, Len(path) - ups) \o segs
RECURSIVE Declared(_, _)
Declared(terms, path) ==
    IF terms = <<>> THEN <<>>
    ELSE LET term == terms[1]
             at == Absolute(term.parts[1].val, path)
             inner == IF term.kind \in {"Scope", "Device"} THEN Declared(term.parts[2].parts, at) ELSE <<>>
             this == IF term.kind \in {"Store", "Noop"} THEN <<>> ELSE <<[path |-> at, term |-> term, from |-> path]>>
         IN  this \o inner \o Declared(Tail(terms), path)
\* Declared twice is only what has parts, and nothing lies in what is no scope.
ScopeTerm(t) == t.kind \in {"Scope", "Device"}
Compatible(c, d) ==
    /\ c.path = d.path =>
        \/ ScopeTerm(c.term) /\ ScopeTerm(d.term)
        \/ {c.term.kind, d.term.kind} = {"Region", "Field"}
        \/ c.term.kind = "Field" /\ d.term.kind = "Field"
    /\ Len(c.path) < Len(d.path) /\ SubSeq(d.path, 1, Len(c.path)) = c.path => ScopeTerm(c.term)
WellFormed(terms) ==
    LET all == Declared(terms, <<>>)
        ups(d) == Ups(d.term.parts[1].val)
    IN  /\ \A i, j \in DOMAIN all : i = j \/ Compatible(all[i], all[j])
        \* the parent that a name asks for is not the root: for that one, which
        \* AML allows, the kernel panics ("Must have parent")
        /\ \A i \in DOMAIN all : ups(all[i]) = 0 \/ ups(all[i]) < Len(all[i].from)

Holds(e, term) ==
    CASE ScopeTerm(term) -> IsScope(e)
      [] term.kind = "NameObj" -> e = Node("Name", <<>>, <<term.parts[2]>>)
      [] term.kind \in {"Region", "Field"} ->
            e.kind = "RegionFields" /\ \E i \in DOMAIN e.parts : e.parts[i].kind = term.kind /\ Tail(e.parts[i].parts) = Tail(term.parts)
      [] OTHER -> e.kind = term.kind /\ e.val = term.val /\ Tail(e.parts) = Tail(term.parts)

-----------------------------------------------------------------------------
Pending == Fails(ParserAt(1, 1), "pending")
NoTree == [ok |-> FALSE, ns |-> Empty]
AmlInit ==
    /\ program \in Programs \union {p \in ScopedPrograms : WellFormed(p)}
    /\ code = CodeOf(program) /\ parsed = Pending /\ tree = NoTree
Parse == parsed = Pending /\ parsed' = parse_aml /\ UNCHANGED <<program, code, tree>>
Structure ==
    /\ parsed.out = "ok" /\ program \notin Programs /\ tree = NoTree
    /\ tree' = Structured(parsed.node.parts)
    /\ UNCHANGED <<program, code, parsed>>
AmlNext == Parse \/ Structure

\* Every program the grammar of AML generates is parsed back from its code: the
\* right operands in the right order, the right extent of every package, and for
\* calls of methods it does not know the number of arguments they have
\* (try_parse_term, predict_possible_args).
ParsesBack == parsed # Pending => parsed.out = "ok" /\ parsed.node.parts = program

\* Every object a program declares, relative to its scope, to a parent or to the
\* root, in one place or several, is found under its absolute path, and nothing
\* else is there (Scope::parse, add_child, find_object).
NamespaceIsRight ==
    tree # NoTree =>
        LET all == {Declared(program, <<>>)[i] : i \in DOMAIN Declared(program, <<>>)}
            key(path) == [i \in DOMAIN path |-> <<path[i]>>]
            above == UNION {{SubSeq(d.path, 1, i) : i \in 1 .. Len(d.path)} : d \in all}
        IN  /\ tree.ok
            /\ \A d \in all : d.path # <<>> => Holds(find_object(tree.ns, key(d.path)), d.term)
            /\ DOMAIN tree.ns \ {<<<<UNKW>>>>} = {key(path) : path \in above}
===============================================================================
