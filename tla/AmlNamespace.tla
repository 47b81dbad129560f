----------------------------- MODULE AmlNamespace -----------------------------
(***************************************************************************)
(* The tree of named objects built from parsed AML, acpi/aml/structured.rs,*)
(* and the evaluation of a name in it, acpi/aml/execution.rs.              *)
(*                                                                         *)
(* The nested maps of a Scope are one function from the path below it to   *)
(* the element there; the path <<>> is the scope itself.  A path is a      *)
(* sequence of components, what stands between two dots of the string: a   *)
(* segment, with the '^' characters that a scope's name has in front.      *)
(***************************************************************************)
EXTENDS AmlParser

CONSTANT UNKW       \* the segment that execution statements are kept under

Empty == [path \in {} |-> Leaf("", <<>>)]

\* A term's name without '\', cut at the dots.
Components(name) ==
    LET ups == Cardinality({i \in DOMAIN name : name[i] = Up})
    IN  IF Len(name) <= ups THEN <<name>>
        ELSE <<SubSeq(name, 1, ups + 1)>> \o [i \in 1 .. Len(name) - ups - 1 |-> <<name[ups + 1 + i]>>]
PathOf(name) == IF name = <<>> THEN <<>> ELSE Components(name)

IsScope(e) == e.kind = "ScopeOrDevice"
DefaultScope == Leaf("ScopeOrDevice", <<0>>)

-----------------------------------------------------------------------------
(* add_immediate_child.  Scopes merge and the old one's type stays; a region   *)
(* meets its fields; execution statements add up; anything else panics.        *)
Combines(old, new) ==
    \/ IsScope(old) /\ IsScope(new)
    \/ old.kind = "RegionFields" /\ new.kind = "RegionFields" /\ old.val[1] + new.val[1] < 2
    \/ old.kind = "UnknownElements" /\ new.kind = "UnknownElements"

\* Mutant: the newer element takes the place of the old one.
Combine_Newest(old, new) == new

Combine(old, new) ==
    IF IsScope(old) THEN old
    ELSE IF old.kind = "RegionFields"
    THEN Node("RegionFields", <<old.val[1] + new.val[1]>>,
              IF new.val[1] = 1 THEN <<new.parts[1]>> \o old.parts \o Tail(new.parts)
              ELSE old.parts \o new.parts)
    ELSE Node(old.kind, <<>>, old.parts \o new.parts)

\* The tree of an element put into the namespace at a path: pointwise, since a
\* child of a scope that is not there yet is not there either.
Graft(ns, at, tree) ==
    LET moved == [path \in {at \o q : q \in DOMAIN tree} |-> tree[SubSeq(path, Len(at) + 1, Len(path))]]
        both == DOMAIN moved \cap DOMAIN ns
    IN  [ok |-> \A path \in both : Combines(ns[path], moved[path]),
         ns |-> [path \in DOMAIN moved \union DOMAIN ns |->
                    IF path \in both
                    THEN IF Combines(ns[path], moved[path]) THEN Combine(ns[path], moved[path]) ELSE ns[path]
                    ELSE IF path \in DOMAIN ns THEN ns[path] ELSE moved[path]]]

\* Scope::merge: the children of other.
merge(ns, other) == Graft(ns, <<>>, other)

\* The elements with a name carry the last component of their path.
Renamed(e, last) ==
    LET Rename(n) == [n EXCEPT !.parts[1] = Leaf("Path", last)]
    IN  CASE e.kind \in {"Method", "Processor", "PowerResource", "IndexField"} -> Rename(e)
          [] e.kind = "RegionFields" -> [e EXCEPT !.parts = [i \in DOMAIN @ |-> Rename(@[i])]]
          [] OTHER -> e

\* Mutant: scopes on the way are not made.
add_child_NotAbove(ns, path, tree) ==
    LET last == path[Len(path)]
        grafted == Graft(ns, path, [tree EXCEPT ![<<>>] = Renamed(@, last)])
    IN  [grafted EXCEPT !.ok = @ /\ Len(last) = 1]

\* Scopes on the way are made where there are none.
add_child(ns, path, tree) ==
    LET last == path[Len(path)]
        above == {SubSeq(path, 1, i) : i \in 1 .. Len(path) - 1}
        opened == [q \in DOMAIN ns \union above |-> IF q \in DOMAIN ns THEN ns[q] ELSE DefaultScope]
        grafted == Graft(opened, path, [tree EXCEPT ![<<>>] = Renamed(@, last)])
    IN  [grafted EXCEPT !.ok = @ /\ Len(last) = 1 /\ \A q \in above : IsScope(opened[q])]

\* A builder: the scope that is being read, the root, whether all went well.
Build(this, root, ok) == [this |-> this, root |-> root, ok |-> ok]
WithRoot(b, r) == Build(b.this, r.ns, b.ok /\ r.ok)
WithThis(b, r) == Build(r.ns, b.root, b.ok /\ r.ok)
AddToRoot(b, path, tree) == WithRoot(b, add_child(b.root, path, tree))
AddToThis(b, path, tree) == WithThis(b, add_child(b.this, path, tree))
MergeIntoRoot(b, tree) ==
    WithRoot([b EXCEPT !.ok = @ /\ IsScope(tree[<<>>])],
             merge(b.root, [path \in DOMAIN tree \ {<<>>} |-> tree[path]]))
Panic(b) == [b EXCEPT !.ok = FALSE]

RECURSIVE handle_add(_, _, _, _)
handle_add(current_path, b, name, tree) ==
    CASE name = <<>> -> Panic(b)
      [] name # <<>> /\ name[1] = Root ->
            IF Tail(name) = <<>> THEN MergeIntoRoot(b, tree)
            ELSE AddToRoot(b, PathOf(Tail(name)), tree)
      [] name # <<>> /\ name[1] = Up ->
            LET rest == Tail(name)
                parent == SubSeq(current_path, 1, Len(current_path) - 1)
            IN  \* '\AAAA' has no dot: it has no parent to take
                IF rest = <<>> \/ Len(current_path) < 2 THEN Panic(b)
                ELSE IF rest[1] = Up THEN handle_add(parent, b, rest, tree)
                ELSE AddToRoot(b, parent \o PathOf(rest), tree)
      [] OTHER -> AddToThis(b, PathOf(name), tree)

ElementOf(term) ==
    CASE term.kind = "Region" -> Node("RegionFields", <<1>>, <<term>>)
      [] term.kind = "Field" -> Node("RegionFields", <<0>>, <<term>>)
      [] term.kind \in {"IndexField", "Processor", "PowerResource", "Method"} -> term
      [] term.kind = "NameObj" -> Node("Name", <<>>, <<term.parts[2]>>)
      [] OTHER -> Node("UnknownElements", <<>>, <<term>>)
Named(term) == term.kind \in {"Region", "Field", "IndexField", "Processor", "PowerResource", "Method", "NameObj"}

\* Scope::parse, from a term on.
RECURSIVE ScopeParse(_, _, _)
ScopeParse(terms, b, current_path) ==
    IF terms = <<>> THEN b
    ELSE LET term == terms[1]
             name == term.parts[1].val
             scope_path ==
                IF name # <<>> /\ name[1] = Root THEN PathOf(Tail(name)) ELSE current_path \o PathOf(name)
             scope == Leaf("ScopeOrDevice", <<IF term.kind = "Device" THEN 1 ELSE 0>>)
             Scoped(inner) ==
                handle_add(current_path, Build(b.this, inner.root, inner.ok), name,
                           (<<>> :> scope) @@ inner.this)
             added ==
                IF term.kind \in {"Device", "Scope"}
                THEN Scoped(ScopeParse(term.parts[2].parts, Build(Empty, b.root, b.ok), scope_path))
                ELSE handle_add(current_path, b, IF Named(term) THEN name ELSE <<Root, UNKW>>,
                                <<>> :> ElementOf(term))
         IN  ScopeParse(Tail(terms), added, current_path)

\* StructuredAml::parse: what the root's terms say of relative names is merged
\* into what all terms said of absolute ones.
Structured(terms) ==
    LET Merged(b) == WithRoot(b, merge(b.root, b.this))
        Tree(b) == [ok |-> b.ok, ns |-> b.root]
    IN  Tree(Merged(ScopeParse(terms, Build(Empty, Empty, TRUE), <<>>)))

-----------------------------------------------------------------------------
\* find_object of an absolute path: the element, "none" or an error.
find_object(ns, path) ==
    LET above == {SubSeq(path, 1, i) : i \in 1 .. Len(path) - 1}
        missing == {q \in above : q \notin DOMAIN ns}
        blocked == {q \in above \ missing : ~IsScope(ns[q])}
    IN  IF blocked # {} \/ path = <<>> THEN Leaf("err", <<>>)
        ELSE IF missing # {} \/ path \notin DOMAIN ns THEN Leaf("none", <<>>)
        ELSE ns[path]

\* evaluate_data_object: terms are not executed yet (todo!), so what needs the
\* size of a buffer or of a package evaluated panics.
RECURSIVE Evaluates(_)
Evaluates(data) ==
    /\ data.kind \notin {"Buffer", "VarPackage"}
    /\ data.kind = "Package" => \A i \in 2 .. Len(data.parts) : data.parts[i].kind = "Path" \/ Evaluates(data.parts[i])

\* ExecutionContext::execute without arguments.
execute(ns, path) ==
    LET e == find_object(ns, path)
    IN  CASE e.kind = "Name" -> IF Evaluates(e.parts[1]) THEN e.parts[1] ELSE Leaf("panic", <<>>)
          [] e.kind = "Method" -> Leaf("panic", <<>>)
          [] e.kind \in {"none", "UnknownElements"} -> Leaf("none", <<>>)
          [] OTHER -> Leaf("err", <<>>)
===============================================================================
