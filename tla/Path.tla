--------------------------------- MODULE Path ---------------------------------
(***************************************************************************)
(* fs/path.rs: the double-ended iterator over the components of a path,    *)
(* and what is built on it: parent, file_name, push, pop, strip_prefix,    *)
(* ends_with.                                                              *)
(*                                                                         *)
(* A path is a sequence of tokens: the separator "/" and the names between *)
(* separators.  A component is "/" for RootDir, "." for CurDir, ".." for   *)
(* ParentDir, or a name.  The iterator takes tokens off both ends.         *)
(***************************************************************************)
EXTENDS Naturals, Sequences, SequencesExt

CONSTANTS Names,        \* ordinary names
          MaxTokens,    \* bound on the length of a path
          MaxPrefix     \* bound on the length of a prefix or suffix

Sep == "/"
Tokens == {Sep, ".", ".."} \cup Names
None == "none"

\* Strings with at most n tokens: two names never touch.
Paths(n) == {p \in SeqOf(Tokens, n) :
                \A i \in 1 .. Len(p) - 1 : p[i] = Sep \/ p[i + 1] = Sep}

\* State of either end of the iterator.
Prefix == 0
StartDir == 1
Body == 2
Done == 3

components(p) == [path |-> p, has_root |-> p # <<>> /\ p[1] = Sep,
                  front |-> Prefix, back |-> Body]

include_cur_dir(it) == ~it.has_root /\ it.path # <<>> /\ it.path[1] = "."

len_before_body(it) ==
    IF it.front <= StartDir /\ (it.has_root \/ include_cur_dir(it)) THEN 1 ELSE 0

finished(it) == it.front = Done \/ it.back = Done \/ it.front > it.back

\* "." and the empty name between two separators are no components.
parse_single_component(t) == IF t \in {".", Sep} THEN None ELSE t

\* The tokens that make up the first and the last name, with its separator.
FrontSize(p) == IF p[1] = Sep \/ Len(p) = 1 THEN 1 ELSE 2
BackSize(it) == IF Last(it.path) = Sep \/ Len(it.path) - len_before_body(it) = 1
                THEN 1 ELSE 2
DropFront(p, n) == SubSeq(p, n + 1, Len(p))
DropBack(p, n) == SubSeq(p, 1, Len(p) - n)

RECURSIVE trim_left(_), trim_right(_)
trim_left(p) ==
    IF p = <<>> \/ parse_single_component(p[1]) # None THEN p
    ELSE trim_left(DropFront(p, FrontSize(p)))
trim_right(it) ==
    IF Len(it.path) <= len_before_body(it) \/ parse_single_component(Last(it.path)) # None
    THEN it.path
    ELSE trim_right([it EXCEPT !.path = DropBack(@, BackSize(it))])

as_path_Untrimmed(it) == IF it.back = Body THEN trim_right(it) ELSE it.path

as_path(it) ==
    LET left == IF it.front = Body THEN [it EXCEPT !.path = trim_left(@)] ELSE it
    IN  IF left.back = Body THEN trim_right(left) ELSE left.path

\* next and next_back: the iterator afterwards, and the component or None.
RECURSIVE next(_), next_back(_)
next(it) ==
    LET start == [it EXCEPT !.front = Body]
        c     == parse_single_component(it.path[1])
        rest  == [it EXCEPT !.path = DropFront(@, FrontSize(it.path))]
    IN  CASE finished(it) -> <<it, None>>
          [] it.front = Prefix -> next([it EXCEPT !.front = StartDir])
          [] it.front = StartDir ->
               IF it.has_root \/ include_cur_dir(it)
               THEN <<[start EXCEPT !.path = Tail(@)], IF it.has_root THEN Sep ELSE ".">>
               ELSE next(start)
          [] it.front = Body /\ it.path # <<>> ->
               IF c = None THEN next(rest) ELSE <<rest, c>>
          [] OTHER -> next([it EXCEPT !.front = Done])

next_back(it) ==
    LET start == [it EXCEPT !.back = Prefix]
        c     == parse_single_component(Last(it.path))
        rest  == [it EXCEPT !.path = DropBack(@, BackSize(it))]
    IN  CASE finished(it) -> <<it, None>>
          [] it.back = Body /\ Len(it.path) > len_before_body(it) ->
               IF c = None THEN next_back(rest) ELSE <<rest, c>>
          [] it.back = Body -> next_back([it EXCEPT !.back = StartDir])
          [] it.back = StartDir ->
               IF it.has_root \/ include_cur_dir(it)
               THEN <<[start EXCEPT !.path = DropBack(@, 1)],
                      IF it.has_root THEN Sep ELSE ".">>
               ELSE next_back(start)
          [] OTHER -> <<[it EXCEPT !.back = Done], None>>
-------------------------------------------------------------------------------
parent(p) ==    \* <<>> stands for Some(""), None for no parent
    LET r == next_back(components(p))
    IN  IF r[2] \in {None, Sep} THEN <<None>> ELSE as_path(r[1])

file_name(p) ==
    LET c == next_back(components(p))[2]
    IN  IF c \in {None, Sep, ".", ".."} THEN None ELSE c

push(p, q) ==
    IF q # <<>> /\ q[1] = Sep THEN q
    ELSE p \o (IF p # <<>> /\ Last(p) # Sep THEN <<Sep>> ELSE <<>>) \o q

\* iter_after: the first iterator after the components of the second, or None.
RECURSIVE iter_after(_, _), iter_after_back(_, _)
iter_after(it, prefix) ==
    LET x == next(it)
        y == next(prefix)
    IN  CASE y[2] = None -> <<it>>
          [] y[2] # None /\ x[2] = y[2] -> iter_after(x[1], y[1])
          [] OTHER -> <<>>
iter_after_back(it, suffix) ==
    LET x == next_back(it)
        y == next_back(suffix)
    IN  CASE y[2] = None -> <<it>>
          [] y[2] # None /\ x[2] = y[2] -> iter_after_back(x[1], y[1])
          [] OTHER -> <<>>

strip_prefix(p, base) ==
    LET r == iter_after(components(p), components(base))
    IN  IF r = <<>> THEN <<None>> ELSE as_path(r[1])

ends_with(p, child) == iter_after_back(components(p), components(child)) # <<>>
-------------------------------------------------------------------------------
VARIABLES path,     \* the path that is iterated
          it,       \* the iterator
          front,    \* what next returned
          back      \* what next_back returned, last first

vars == <<path, it, front, back>>

Init ==
    /\ path \in Paths(MaxTokens)
    /\ it = components(path)
    /\ front = <<>> /\ back = <<>>

CallNext ==
    LET r == next(it)
    IN  /\ it' = r[1]
        /\ front' = IF r[2] = None THEN front ELSE Append(front, r[2])
        /\ UNCHANGED <<path, back>>

CallNextBack ==
    LET r == next_back(it)
    IN  /\ it' = r[1]
        /\ back' = IF r[2] = None THEN back ELSE <<r[2]>> \o back
        /\ UNCHANGED <<path, front>>

Next == CallNext \/ CallNextBack

Spec == Init /\ [][Next]_vars
-------------------------------------------------------------------------------
\* The components of a path by definition: the root, a leading ".", and the
\* names between the separators but for ".".
Components(p) ==
    (IF p # <<>> /\ p[1] \in {Sep, "."} THEN <<p[1]>> ELSE <<>>)
    \o SelectSeq(p, LAMBDA t : t \notin {Sep, "."})

\* Whatever the order of next and next_back, together they return every
\* component once and in order, and as_path is the path of those left.
AsPathIsTheRest == front \o Components(as_path(it)) \o back = Components(path)

\* The iteration ends only when nothing is left.
EndsWithEverything ==
    next(it)[2] = None \/ next_back(it)[2] = None => front \o back = Components(path)

\* All components were taken from the front: the pure operations on the path
\* are looked at once for every path.
Walked == front = Components(path) /\ it.front = Done

\* pop undoes push of one name, and the parent with the file name is the path
\* again (open_inode keeps its canonical path with push and pop).
PopUndoesPush ==
    Walked =>
        /\ \A n \in Names : Components(parent(push(path, <<n>>))) = Components(path)
        /\ file_name(path) # None =>
            Components(push(parent(path), <<file_name(path)>>)) = Components(path)

\* "Returns a path that, when joined onto base, yields self", and a path ends
\* with what is left of it after a prefix.
StripThenJoin ==
    Walked => \A base \in Paths(MaxPrefix) :
        LET rest == strip_prefix(path, base)
        IN  /\ rest = <<None>> <=> ~IsPrefix(Components(base), Components(path))
            /\ rest # <<None>> => /\ Components(push(base, rest)) = Components(path)
                                  /\ ends_with(path, rest)
================================================================================
