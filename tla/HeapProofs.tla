------------------------------ MODULE HeapProofs ------------------------------
(***************************************************************************)
(* The heap of HeapAllocator is always sound and implements AbstractHeap.  *)
(*                                                                         *)
(* The invariant says what the code relies on and does not check: the free *)
(* list is sorted by address, linked both ways, and no two of its blocks   *)
(* touch (Sorted); each allocation lies in a block of its own behind its   *)
(* header (LiveOK); free and allocated units tile the heap, and the        *)
(* statistics count them.  The proof follows the code: what each           *)
(* assignment to the list does field by field, that the list operations    *)
(* keep it sorted, the cases of free_block and of alloc's cut, and then    *)
(* the two operations.  Facts that several lemmas hand on are named, so    *)
(* that a lemma is applied without expanding them.                         *)
(***************************************************************************)
EXTENDS HeapAllocator, FiniteSetTheorems, TLAPS

\* The headers of free blocks, and the free list as the memory behind them.
Rec == [prev : Nat, next : Nat, size : Nat]
Blk == UNION {[S -> Rec] : S \in SUBSET (Nat \ {0})}

\* prev and next are the neighbours of b among the addresses D.
Pointers(D, b, prev, next) ==
    /\ prev = Null => \A c \in D : b <= c
    /\ prev # Null => prev \in D /\ prev < b /\ \A c \in D : c <= prev \/ b <= c
    /\ next = Null => \A c \in D : c <= b
    /\ next # Null => next \in D /\ b < next /\ \A c \in D : c <= b \/ next <= c

\* The free list: every block has room for its header, ends before the next one
\* begins with at least one unit between them (neighbours are merged), points to
\* its neighbours, and the list begins at the lowest one.
Sorted(blk, head) ==
    /\ blk \in Blk
    /\ \A b \in DOMAIN blk : blk[b].size >= INFO
    /\ \A b, c \in DOMAIN blk : b < c => b + blk[b].size < c
    /\ \A b \in DOMAIN blk : Pointers(DOMAIN blk, b, blk[b].prev, blk[b].next)
    /\ head = Null => DOMAIN blk = {}
    /\ head # Null => head \in DOMAIN blk /\ \A c \in DOMAIN blk : head <= c

\* The units that free blocks cover.
UnitsOf(blk) == UNION {b .. b + blk[b].size - 1 : b \in DOMAIN blk}
-------------------------------------------------------------------------------
(***************************************************************************)
(* The least and the greatest of a set of addresses.                       *)
(***************************************************************************)
\* A set of naturals has a least element; by the well-founded subsets of an
\* interval.  The best fit of get_free_block and the head of the list are such.
LEMMA Least == ASSUME NEW S, S \subseteq Nat, S # {} PROVE \E x \in S : \A y \in S : x <= y
  <1>1. PICK n \in S : TRUE BY Zenon
  <1> DEFINE T == {0 .. x : x \in {k \in S : k <= n}}
  <1> DEFINE R == StrictSubsetOrdering(0 .. n)
  <1>2. IsFiniteSet(0 .. n) BY <1>1, FS_Interval
  <1>3. IsWellFoundedOn(R, SUBSET (0 .. n))
    BY <1>2, FS_FiniteSubsetsOfFinite, FS_StrictSubsetOrderingWellFounded, Zenon
  <1>4. T \subseteq SUBSET (0 .. n)
    <2> SUFFICES ASSUME NEW k \in S, k <= n PROVE 0 .. k \subseteq 0 .. n BY Zenon
    <2> QED BY <1>1
  <1>5. T # {}
    <2>1. 0 .. n \in T BY <1>1
    <2> QED BY <2>1, Zenon
  <1>6. PICK x \in T : \A y \in T : ~(<<y, x>> \in R)
    <2> HIDE DEF T, R
    <2> QED BY <1>3, <1>4, <1>5, WFMin, Zenon
  <1>7. PICK k \in S : k <= n /\ x = 0 .. k BY <1>6, Zenon
  <1>8. ASSUME NEW y \in S PROVE k <= y
    <2> SUFFICES ASSUME y < k PROVE FALSE BY <1>1, <1>7
    <2>1. y <= n BY <1>1, <1>7
    <2>2. 0 .. y \in T BY <2>1, Zenon
    <2>3. 0 .. y \subseteq 0 .. k /\ 0 .. y # 0 .. k BY <1>1, <1>7
    <2>4. 0 .. y \in SUBSET (0 .. n) /\ x \in SUBSET (0 .. n) BY <1>4, <2>2, Zenon
    <2>5. <<0 .. y, x>> \in R BY <2>3, <2>4, <1>7, Zenon DEF StrictSubsetOrdering
    <2> QED BY <1>6, <2>2, <2>5, Zenon
  <1> QED BY <1>8, <1>7, Zenon

\* Min takes the least element of a set of naturals.
LEMMA LeastMin ==
    ASSUME NEW S, S \subseteq Nat, S # {}
    PROVE Min(S) \in S /\ \A y \in S : Min(S) <= y
  BY Least, Zenon DEF Min

\* What is in the set and no greater than any other element is its Min.
LEMMA MinIs == ASSUME NEW S, S \subseteq Nat, NEW x \in S, \A y \in S : x <= y PROVE x = Min(S)
  <1> DEFINE m == Min(S)
  <1>1. m \in S /\ \A y \in S : m <= y
    <2>1. S # {} BY Zenon
    <2> QED BY <2>1, LeastMin, Zenon
  <1> HIDE DEF m
  <1>2. m \in Nat /\ x \in Nat /\ m <= x /\ x <= m BY <1>1, Zenon
  <1>3. x = m BY <1>2
  <1> QED BY <1>3, Zenon DEF m

\* Max takes the greatest element of a bounded set; free_block's closest block is one.
LEMMA GreatestMax ==
    ASSUME NEW S, NEW n \in Nat, S \subseteq 0..n, S # {}
    PROVE Max(S) \in S /\ \A y \in S : Max(S) >= y
  <1> DEFINE D == {n - x : x \in S}
  <1>1. D \subseteq Nat OBVIOUS
  <1>5. D # {} BY Zenon
  <1>2. PICK d \in D : \A y \in D : d <= y
    <2> HIDE DEF D
    <2> QED BY <1>1, <1>5, Least, Zenon
  <1>3. PICK x \in S : d = n - x BY Zenon
  <1>4. \A y \in S : x >= y BY <1>2, <1>3
  <1> QED BY <1>4, Zenon DEF Max
-------------------------------------------------------------------------------
(***************************************************************************)
(* What the assignments to the list do.                                    *)
(***************************************************************************)
\* A free list is a function from addresses to headers, and every such function is one.
LEMMA BlkIs ==
    /\ \A blk \in Blk : /\ blk \in [DOMAIN blk -> Rec]
                        /\ DOMAIN blk \subseteq Nat \ {0}
    /\ \A D \in SUBSET (Nat \ {0}) : \A f \in [D -> Rec] : f \in Blk
  <1>1. ASSUME NEW blk \in Blk PROVE blk \in [DOMAIN blk -> Rec] /\ DOMAIN blk \subseteq Nat \ {0}
    <2>1. PICK S \in SUBSET (Nat \ {0}) : blk \in [S -> Rec] BY <1>1, Zenon DEF Blk
    <2> QED BY <2>1, Zenon
  <1>2. ASSUME NEW D \in SUBSET (Nat \ {0}), NEW f \in [D -> Rec] PROVE f \in Blk
    BY <1>2, Zenon DEF Blk
  <1> QED BY <1>1, <1>2, Zenon

\* What the assignments to list pointers give, field by field.
IsSetNext(y, x, b, v) ==
    /\ y \in Blk /\ DOMAIN y = DOMAIN x
    /\ \A c \in DOMAIN x : /\ y[c].prev = x[c].prev
                           /\ y[c].next = IF c = b THEN v ELSE x[c].next
                           /\ y[c].size = x[c].size
IsSetPrev(y, x, b, v) ==
    /\ y \in Blk /\ DOMAIN y = DOMAIN x
    /\ \A c \in DOMAIN x : /\ y[c].prev = IF c = b THEN v ELSE x[c].prev
                           /\ y[c].next = x[c].next
                           /\ y[c].size = x[c].size
IsWithout(y, x, b) ==
    /\ y \in Blk /\ DOMAIN y = DOMAIN x \ {b}
    /\ \A c \in DOMAIN x \ {b} : /\ y[c].prev = x[c].prev
                                 /\ y[c].next = x[c].next
                                 /\ y[c].size = x[c].size
IsWith(y, x, b, p, n, s) ==
    /\ y \in Blk /\ DOMAIN y = DOMAIN x \cup {b}
    /\ y[b].prev = p /\ y[b].next = n /\ y[b].size = s
    /\ \A c \in DOMAIN x \ {b} : /\ y[c].prev = x[c].prev
                                 /\ y[c].next = x[c].next
                                 /\ y[c].size = x[c].size

\* Writing the next pointer of a block changes that field only; writing through a
\* null pointer changes nothing.
LEMMA SetNextIs ==
    ASSUME NEW blk \in Blk, NEW b \in Nat, NEW v \in Nat
    PROVE  IsSetNext(SetNext(blk, b, v), blk, b, v)
  <1>1. blk \in [DOMAIN blk -> Rec] /\ DOMAIN blk \in SUBSET (Nat \ {0}) BY BlkIs, Zenon
  <1>2. CASE b \in DOMAIN blk
    <2>1. b # Null BY <1>1, <1>2, Zenon DEF Null
    <2> DEFINE y == [blk EXCEPT ![b] = [blk[b] EXCEPT !.next = v]]
    <2>2. SetNext(blk, b, v) = y BY <2>1, Zenon DEF SetNext
    <2>4. [blk[b] EXCEPT !.next = v] = [prev |-> blk[b].prev, next |-> v, size |-> blk[b].size]
      BY <1>1, <1>2 DEF Rec
    <2>6. y \in [DOMAIN blk -> Rec] BY <2>4, <1>1, <1>2, Zenon DEF Rec
    <2>8. y \in Blk BY <2>6, <1>1, BlkIs, Zenon
    <2>9. /\ DOMAIN y = DOMAIN blk
          /\ \A c \in DOMAIN blk : /\ y[c].prev = blk[c].prev
                                   /\ y[c].next = IF c = b THEN v ELSE blk[c].next
                                   /\ y[c].size = blk[c].size
      BY <2>4, <1>2, Zenon
    <2> HIDE DEF y
    <2> QED BY <2>2, <2>8, <2>9, Zenon DEF IsSetNext
  <1>3. CASE b \notin DOMAIN blk
    <2>1. SetNext(blk, b, v) = blk BY <1>1, <1>3, Zenon DEF SetNext
    <2> QED BY <2>1, <1>3, Zenon DEF IsSetNext
  <1> QED BY <1>2, <1>3, Zenon

\* The same for the prev pointer.
LEMMA SetPrevIs ==
    ASSUME NEW blk \in Blk, NEW b \in Nat, NEW v \in Nat
    PROVE  IsSetPrev(SetPrev(blk, b, v), blk, b, v)
  <1>1. blk \in [DOMAIN blk -> Rec] /\ DOMAIN blk \in SUBSET (Nat \ {0}) BY BlkIs, Zenon
  <1>2. CASE b \in DOMAIN blk
    <2>1. b # Null BY <1>1, <1>2, Zenon DEF Null
    <2> DEFINE y == [blk EXCEPT ![b] = [blk[b] EXCEPT !.prev = v]]
    <2>2. SetPrev(blk, b, v) = y BY <2>1, Zenon DEF SetPrev
    <2>4. [blk[b] EXCEPT !.prev = v] = [prev |-> v, next |-> blk[b].next, size |-> blk[b].size]
      BY <1>1, <1>2 DEF Rec
    <2>6. y \in [DOMAIN blk -> Rec] BY <2>4, <1>1, <1>2, Zenon DEF Rec
    <2>8. y \in Blk BY <2>6, <1>1, BlkIs, Zenon
    <2>9. /\ DOMAIN y = DOMAIN blk
          /\ \A c \in DOMAIN blk : /\ y[c].prev = IF c = b THEN v ELSE blk[c].prev
                                   /\ y[c].next = blk[c].next
                                   /\ y[c].size = blk[c].size
      BY <2>4, <1>2, Zenon
    <2> HIDE DEF y
    <2> QED BY <2>2, <2>8, <2>9, Zenon DEF IsSetPrev
  <1>3. CASE b \notin DOMAIN blk
    <2>1. SetPrev(blk, b, v) = blk BY <1>1, <1>3, Zenon DEF SetPrev
    <2> QED BY <2>1, <1>3, Zenon DEF IsSetPrev
  <1> QED BY <1>2, <1>3, Zenon

\* A block taken off the list leaves the headers of the others alone.
LEMMA WithoutIs ==
    ASSUME NEW blk \in Blk, NEW b
    PROVE  IsWithout(Without(blk, b), blk, b)
  <1>1. blk \in [DOMAIN blk -> Rec] /\ DOMAIN blk \in SUBSET (Nat \ {0}) BY BlkIs, Zenon
  <1>3. Without(blk, b) \in [DOMAIN blk \ {b} -> Rec] BY <1>1, Zenon DEF Without, Rec
  <1>4. Without(blk, b) \in Blk BY <1>1, <1>3, BlkIs, Zenon
  <1> QED BY <1>1, <1>3, <1>4, Zenon DEF Without, IsWithout

\* A header written at an address leaves the other headers alone.
LEMMA WithIs ==
    ASSUME NEW blk \in Blk, NEW b \in Nat \ {0}, NEW p \in Nat, NEW n \in Nat, NEW s \in Nat
    PROVE  IsWith(With(blk, b, p, n, s), blk, b, p, n, s)
  <1>1. blk \in [DOMAIN blk -> Rec] /\ DOMAIN blk \in SUBSET (Nat \ {0}) BY BlkIs, Zenon
  <1>2. With(blk, b, p, n, s) \in [DOMAIN blk \cup {b} -> Rec] BY <1>1, Zenon DEF With, Rec
  <1>4. With(blk, b, p, n, s) \in Blk BY <1>1, <1>2, BlkIs, Zenon
  <1> QED BY <1>1, <1>2, <1>4, Zenon DEF With, IsWith

\* A block gave way to one at another address, and both neighbours know.
IsMoved(m, blk, b, at, s) ==
    /\ m \in Blk /\ DOMAIN m = (DOMAIN blk \ {b}) \cup {at}
    /\ m[at].prev = blk[b].prev /\ m[at].next = blk[b].next /\ m[at].size = s
    /\ \A c \in DOMAIN blk \ {b} :
        /\ m[c].prev = IF c = blk[b].next THEN at ELSE blk[c].prev
        /\ m[c].next = IF c = blk[b].prev THEN at ELSE blk[c].next
        /\ m[c].size = blk[c].size

\* So the replacement of a header by one at another address in free_block and alloc
\* results in that.
LEMMA MovedIs ==
    ASSUME NEW blk \in Blk, NEW b \in DOMAIN blk, NEW at \in Nat \ {0}, at \notin DOMAIN blk,
           NEW s \in Nat, blk[b].prev # at, blk[b].next # at
    PROVE  IsMoved(Moved(blk, b, at, s), blk, b, at, s)
  <1>1. blk \in [DOMAIN blk -> Rec] /\ DOMAIN blk \subseteq Nat \ {0} BY BlkIs, Zenon
  <1> DEFINE p == blk[b].prev
             n == blk[b].next
  <1>2. p \in Nat /\ n \in Nat /\ at \in Nat BY <1>1, Zenon DEF Rec
  <1> HIDE DEF p, n
  <1> DEFINE w == Without(blk, b)
  <1>3. IsWithout(w, blk, b) BY WithoutIs, Zenon
  <1>4. w \in Blk BY <1>3, Zenon DEF IsWithout
  <1> HIDE DEF w
  <1> DEFINE x == With(w, at, p, n, s)
  <1>5. IsWith(x, w, at, p, n, s) BY <1>2, <1>4, WithIs, Zenon
  <1>6. x \in Blk BY <1>5, Zenon DEF IsWith
  <1> HIDE DEF x
  <1> DEFINE y == SetPrev(x, n, at)
  <1>7. IsSetPrev(y, x, n, at) BY <1>2, <1>6, SetPrevIs, Zenon
  <1>8. y \in Blk BY <1>7, Zenon DEF IsSetPrev
  <1> HIDE DEF y
  <1> DEFINE m == SetNext(y, p, at)
  <1>9. IsSetNext(m, y, p, at) BY <1>2, <1>8, SetNextIs, Zenon
  <1> HIDE DEF m
  <1>10. m = Moved(blk, b, at, s) BY Zenon DEF m, y, x, w, p, n, Moved
  <1>11. IsMoved(m, blk, b, at, s)
    BY <1>3, <1>5, <1>7, <1>9 DEF IsWithout, IsWith, IsSetPrev, IsSetNext, IsMoved, p, n
  <1> QED BY <1>10, <1>11, Zenon
-------------------------------------------------------------------------------
(***************************************************************************)
(* The list operations keep the list sorted.                               *)
(***************************************************************************)
\* What a sorted free list gives, with the types of its fields.
LEMMA SortedFacts ==
    ASSUME NEW blk, NEW head, Sorted(blk, head)
    PROVE  /\ blk \in Blk /\ DOMAIN blk \subseteq Nat \ {0}
           /\ \A b \in DOMAIN blk : blk[b].size \in Nat /\ blk[b].prev \in Nat /\ blk[b].next \in Nat
           /\ \A b \in DOMAIN blk : blk[b].size >= INFO
           /\ \A b, c \in DOMAIN blk : b < c => b + blk[b].size < c
           /\ \A b \in DOMAIN blk :
                /\ blk[b].prev = 0 => \A c \in DOMAIN blk : b <= c
                /\ blk[b].prev # 0 => blk[b].prev \in DOMAIN blk /\ blk[b].prev < b /\ \A c \in DOMAIN blk : c <= blk[b].prev \/ b <= c
                /\ blk[b].next = 0 => \A c \in DOMAIN blk : c <= b
                /\ blk[b].next # 0 => blk[b].next \in DOMAIN blk /\ b < blk[b].next /\ \A c \in DOMAIN blk : c <= b \/ blk[b].next <= c
           /\ head = 0 => DOMAIN blk = {}
           /\ head # 0 => head \in DOMAIN blk /\ \A c \in DOMAIN blk : head <= c
  <1>1. blk \in Blk BY Zenon DEF Sorted
  <1>2. blk \in [DOMAIN blk -> Rec] /\ DOMAIN blk \subseteq Nat \ {0} BY <1>1, BlkIs, Zenon
  <1>3. \A b \in DOMAIN blk : blk[b].size \in Nat /\ blk[b].prev \in Nat /\ blk[b].next \in Nat
    BY <1>2, Zenon DEF Rec
  <1> QED BY <1>1, <1>2, <1>3, Zenon DEF Sorted, Pointers, Null

\* In a sorted list the pointers backwards mirror the pointers forwards.
LEMMA Mirror ==
    ASSUME NEW blk, NEW head, Sorted(blk, head), NEW b \in DOMAIN blk, NEW c \in DOMAIN blk
    PROVE  blk[b].next = c <=> blk[c].prev = b
  <1>1. DOMAIN blk \subseteq Nat \ {0} BY SortedFacts, Zenon
  <1>2. ASSUME blk[b].next = c PROVE blk[c].prev = b
    <2>1. b < c /\ \A d \in DOMAIN blk : d <= b \/ c <= d BY <1>1, <1>2, SortedFacts, Zenon
    <2>2. blk[c].prev # 0 BY <1>1, <2>1, SortedFacts
    <2>3. blk[c].prev \in DOMAIN blk /\ blk[c].prev < c /\ (b <= blk[c].prev \/ c <= b)
      BY <2>2, SortedFacts, Zenon
    <2> QED BY <1>1, <2>1, <2>3
  <1>3. ASSUME blk[c].prev = b PROVE blk[b].next = c
    <2>1. b < c /\ \A d \in DOMAIN blk : d <= b \/ c <= d BY <1>1, <1>3, SortedFacts, Zenon
    <2>2. blk[b].next # 0 BY <1>1, <2>1, SortedFacts
    <2>3. blk[b].next \in DOMAIN blk /\ b < blk[b].next /\ (c <= b \/ blk[b].next <= c)
      BY <2>2, SortedFacts, Zenon
    <2> QED BY <1>1, <2>1, <2>3
  <1> QED BY <1>2, <1>3, Zenon

\* The same for the block that next points to.
LEMMA MirrorNext ==
    ASSUME NEW blk, NEW head, Sorted(blk, head), NEW b \in DOMAIN blk, blk[b].next # 0
    PROVE  blk[blk[b].next].prev = b
  <1>1. blk[b].next \in DOMAIN blk BY SortedFacts, Zenon
  <1> QED BY <1>1, Mirror, ZenonT(30)

\* A sorted list in which the block at b gave way to one at another address.
IsReplaced(m, k, blk, b, at, s) ==
    /\ Sorted(m, k)
    /\ DOMAIN m = (DOMAIN blk \ {b}) \cup {at}
    /\ m[at].size = s
    /\ \A c \in DOMAIN blk \ {b} : m[c].size = blk[c].size

\* Moving a block inside the gap between its neighbours keeps the list sorted.  The
\* head is the moved block if it was the first.
LEMMA MovedSorted ==
    ASSUME NEW blk, NEW head, Sorted(blk, head), NEW b \in DOMAIN blk,
           NEW at \in Nat \ {0}, at \notin DOMAIN blk, NEW s \in Nat, s >= INFO,
           \A c \in DOMAIN blk : c < b => c + blk[c].size < at,
           \A c \in DOMAIN blk : b < c => at + s < c,
           NEW m, m = Moved(blk, b, at, s), NEW k, k = IF blk[b].prev = Null THEN at ELSE head
    PROVE  IsReplaced(m, k, blk, b, at, s)
  <1> DEFINE D == DOMAIN blk
             E == (DOMAIN blk \ {b}) \cup {at}
  <1>f. /\ blk \in Blk /\ D \subseteq Nat \ {0}
        /\ \A c \in D : blk[c].size \in Nat /\ blk[c].prev \in Nat /\ blk[c].next \in Nat
        /\ \A c \in D : blk[c].size >= INFO
        /\ \A c, d \in D : c < d => c + blk[c].size < d
    BY SortedFacts, Zenon
  <1>g. \A c \in D :
                  /\ blk[c].prev = 0 => \A d \in D : c <= d
                  /\ blk[c].prev # 0 => blk[c].prev \in D /\ blk[c].prev < c /\ \A d \in D : d <= blk[c].prev \/ c <= d
                  /\ blk[c].next = 0 => \A d \in D : d <= c
                  /\ blk[c].next # 0 => blk[c].next \in D /\ c < blk[c].next /\ \A d \in D : d <= c \/ blk[c].next <= d
    BY SortedFacts, Zenon
  <1>h. head \in D /\ \A d \in D : head <= d
    BY SortedFacts, Zenon
  <1>0. blk[b].prev # at /\ blk[b].next # at BY <1>g, Zenon
  <1>m. IsMoved(m, blk, b, at, s)
    BY <1>f, <1>0, MovedIs, Zenon
  <1>1. /\ m \in Blk /\ DOMAIN m = E
        /\ m[at].prev = blk[b].prev /\ m[at].next = blk[b].next /\ m[at].size = s
    BY <1>m, Zenon DEF IsMoved
  <1>2. \A c \in D \ {b} :
            /\ m[c].prev = IF c = blk[b].next THEN at ELSE blk[c].prev
            /\ m[c].next = IF c = blk[b].prev THEN at ELSE blk[c].next
            /\ m[c].size = blk[c].size
    BY <1>m, Zenon DEF IsMoved
  <1>3. \A c \in E : m[c].size >= INFO BY <1>1, <1>2, <1>f, Zenon
  <1>4. \A c, d \in E : c < d => c + m[c].size < d BY <1>1, <1>2, <1>f DEF INFO
  <1>o. \A c \in D \ {b} : (c < b => c < at) /\ (b < c => at < c) BY <1>f DEF INFO
  <1>5. Pointers(E, at, m[at].prev, m[at].next)
    <2>1. Pointers(D, b, blk[b].prev, blk[b].next) BY Zenon DEF Sorted
    <2>2. at \in Nat /\ b \in Nat /\ blk[b].prev # b /\ blk[b].next # b
      BY <2>1, <1>f DEF Pointers, Null
    <2>3. Pointers(E, at, blk[b].prev, blk[b].next)
      BY <2>1, <2>2, <1>o, <1>f DEF Pointers
    <2> QED BY <2>3, <1>1, Zenon
  <1>6. ASSUME NEW c \in D \ {b} PROVE Pointers(E, c, m[c].prev, m[c].next)
    <2>1. m[c].prev = Null => \A d \in E : c <= d BY <1>2, <1>o, <1>f, <1>g DEF Null
    <2>m. (blk[b].next = c <=> blk[c].prev = b) /\ (blk[c].next = b <=> blk[b].prev = c)
      BY Mirror
    <2>2. ASSUME m[c].prev # Null
          PROVE  m[c].prev \in E /\ m[c].prev < c /\ \A d \in E : d <= m[c].prev \/ c <= d
      <3>1. CASE c = blk[b].next
        <4>1. m[c].prev = at BY <3>1, <1>2, Zenon
        <4>2. b < c /\ \A d \in D : d <= b \/ c <= d BY <3>1, <1>g, <1>f, Zenon
        <4> QED BY <4>1, <4>2, <1>o, <1>f
      <3>2. CASE c # blk[b].next
        <4>1. m[c].prev = blk[c].prev /\ blk[c].prev # b BY <3>2, <2>m, <1>2, Zenon
        <4>2. blk[c].prev \in D /\ blk[c].prev < c /\ \A d \in D : d <= blk[c].prev \/ c <= d
          BY <4>1, <2>2, <1>g, <1>f, Zenon DEF Null
        <4> QED BY <4>1, <4>2, <1>o, <1>f
      <3> QED BY <3>1, <3>2, Zenon
    <2>3. m[c].next = Null => \A d \in E : d <= c BY <1>2, <1>o, <1>f, <1>g DEF Null
    <2>4. ASSUME m[c].next # Null
          PROVE  m[c].next \in E /\ c < m[c].next /\ \A d \in E : d <= c \/ m[c].next <= d
      <3>1. CASE c = blk[b].prev
        <4>1. m[c].next = at BY <3>1, <1>2, Zenon
        <4>2. c < b /\ \A d \in D : d <= c \/ b <= d BY <3>1, <1>g, <1>f, Zenon
        <4> QED BY <4>1, <4>2, <1>o, <1>f
      <3>2. CASE c # blk[b].prev
        <4>1. m[c].next = blk[c].next /\ blk[c].next # b BY <3>2, <2>m, <1>2, Zenon
        <4>2. blk[c].next \in D /\ c < blk[c].next /\ \A d \in D : d <= c \/ blk[c].next <= d
          BY <4>1, <2>4, <1>g, <1>f, Zenon DEF Null
        <4> QED BY <4>1, <4>2, <1>o, <1>f
      <3> QED BY <3>1, <3>2, Zenon
    <2> QED BY <2>1, <2>2, <2>3, <2>4, Zenon DEF Pointers
  <1>7. k # Null /\ k \in E /\ \A c \in E : k <= c
    BY <1>o, <1>f, <1>g, <1>h DEF Null
  <1>8. Sorted(m, k)
    <2>1. \A c \in E : Pointers(E, c, m[c].prev, m[c].next) BY <1>5, <1>6, Zenon
    <2> HIDE DEF E
    <2> QED BY <1>1, <1>3, <1>4, <2>1, <1>7, Zenon DEF Sorted
  <1> QED BY <1>1, <1>2, <1>8, Zenon DEF IsReplaced

\* A new block has prev and next, and they point to it.
IsInserted(m, blk, at, p, n, s) ==
    /\ m \in Blk /\ DOMAIN m = DOMAIN blk \cup {at}
    /\ m[at].prev = p /\ m[at].next = n /\ m[at].size = s
    /\ \A c \in DOMAIN blk :
        /\ m[c].prev = IF c = n THEN at ELSE blk[c].prev
        /\ m[c].next = IF c = p THEN at ELSE blk[c].next
        /\ m[c].size = blk[c].size

\* free_block's insertion of a header results in that.
LEMMA InsertedIs ==
    ASSUME NEW blk \in Blk, NEW at \in Nat \ {0}, at \notin DOMAIN blk,
           NEW p \in Nat, NEW n \in Nat, p # at, n # at, NEW s \in Nat
    PROVE  IsInserted(Inserted(blk, at, p, n, s), blk, at, p, n, s)
  <1>2. at \in Nat BY Zenon
  <1> DEFINE x == With(blk, at, p, n, s)
  <1>5. IsWith(x, blk, at, p, n, s) BY WithIs, Zenon
  <1>6. x \in Blk BY <1>5, Zenon DEF IsWith
  <1> HIDE DEF x
  <1> DEFINE y == SetNext(x, p, at)
  <1>7. IsSetNext(y, x, p, at) BY <1>2, <1>6, SetNextIs, Zenon
  <1>8. y \in Blk BY <1>7, Zenon DEF IsSetNext
  <1> HIDE DEF y
  <1> DEFINE m == SetPrev(y, n, at)
  <1>9. IsSetPrev(m, y, n, at) BY <1>2, <1>8, SetPrevIs, Zenon
  <1> HIDE DEF m
  <1>10. m = Inserted(blk, at, p, n, s) BY Zenon DEF m, y, x, Inserted
  <1>11. IsInserted(m, blk, at, p, n, s)
    BY <1>5, <1>7, <1>9 DEF IsWith, IsSetPrev, IsSetNext, IsInserted
  <1> QED BY <1>10, <1>11, Zenon

\* A sorted list with one more block.
IsAdded(m, k, blk, at, s) ==
    /\ Sorted(m, k)
    /\ DOMAIN m = DOMAIN blk \cup {at}
    /\ m[at].size = s
    /\ \A c \in DOMAIN blk : m[c].size = blk[c].size

\* Inserting a block between its neighbours, with a gap on either side, keeps the
\* list sorted.
LEMMA InsertedSorted ==
    ASSUME NEW blk, NEW head, Sorted(blk, head),
           NEW at \in Nat \ {0}, at \notin DOMAIN blk, NEW s \in Nat, s >= INFO,
           NEW p \in Nat, NEW n \in Nat, Pointers(DOMAIN blk, at, p, n),
           \A c \in DOMAIN blk : c < at => c + blk[c].size < at,
           \A c \in DOMAIN blk : at < c => at + s < c,
           NEW m, m = Inserted(blk, at, p, n, s), NEW k, k = IF p = Null THEN at ELSE head
    PROVE  IsAdded(m, k, blk, at, s)
  <1> DEFINE D == DOMAIN blk
             E == DOMAIN blk \cup {at}
  <1>f. /\ blk \in Blk /\ D \subseteq Nat \ {0}
        /\ \A c \in D : blk[c].size \in Nat /\ blk[c].prev \in Nat /\ blk[c].next \in Nat
        /\ \A c \in D : blk[c].size >= INFO
        /\ \A c, d \in D : c < d => c + blk[c].size < d
    BY SortedFacts, Zenon
  <1>g. \A c \in D :
                  /\ blk[c].prev = 0 => \A d \in D : c <= d
                  /\ blk[c].prev # 0 => blk[c].prev \in D /\ blk[c].prev < c /\ \A d \in D : d <= blk[c].prev \/ c <= d
                  /\ blk[c].next = 0 => \A d \in D : d <= c
                  /\ blk[c].next # 0 => blk[c].next \in D /\ c < blk[c].next /\ \A d \in D : d <= c \/ blk[c].next <= d
    BY SortedFacts, Zenon
  <1>h. /\ head = 0 => D = {}
        /\ head # 0 => head \in D /\ \A d \in D : head <= d
    BY SortedFacts, Zenon
  <1>p. /\ p = 0 => \A d \in D : at < d
        /\ p # 0 => p \in D /\ p < at /\ \A d \in D : d <= p \/ at < d
        /\ n = 0 => \A d \in D : d < at
        /\ n # 0 => n \in D /\ at < n /\ \A d \in D : d < at \/ n <= d
    BY <1>f DEF Pointers, Null
  <1>0. p # at /\ n # at BY <1>p, Zenon
  <1>m. IsInserted(m, blk, at, p, n, s)
    BY <1>f, <1>0, InsertedIs, Zenon
  <1>1. /\ m \in Blk /\ DOMAIN m = E
        /\ m[at].prev = p /\ m[at].next = n /\ m[at].size = s
    BY <1>m, Zenon DEF IsInserted
  <1>2. \A c \in D :
            /\ m[c].prev = IF c = n THEN at ELSE blk[c].prev
            /\ m[c].next = IF c = p THEN at ELSE blk[c].next
            /\ m[c].size = blk[c].size
    BY <1>m, Zenon DEF IsInserted
  <1>3. \A c \in E : m[c].size >= INFO BY <1>1, <1>2, <1>f, Zenon
  <1>4. \A c, d \in E : c < d => c + m[c].size < d BY <1>1, <1>2, <1>f DEF INFO
  <1>5. Pointers(E, at, m[at].prev, m[at].next)
    BY <1>1, <1>p, <1>f DEF Pointers, Null
  <1>6. ASSUME NEW c \in D PROVE Pointers(E, c, m[c].prev, m[c].next)
    <2>1. ASSUME m[c].prev = Null PROVE \A d \in E : c <= d
      <3>1. c # n /\ blk[c].prev = 0 BY <2>1, <1>2, Zenon DEF Null
      <3>2. \A d \in D : c <= d BY <3>1, <1>g, Zenon
      <3> QED BY <3>1, <3>2, <1>p, <1>f
    <2>2. ASSUME m[c].prev # Null
          PROVE  m[c].prev \in E /\ m[c].prev < c /\ \A d \in E : d <= m[c].prev \/ c <= d
      <3>1. CASE c = n BY <3>1, <1>2, <1>p, <1>f
      <3>2. CASE c # n
        <4>1. m[c].prev = blk[c].prev BY <3>2, <1>2, Zenon
        <4>2. blk[c].prev \in D /\ blk[c].prev < c /\ \A d \in D : d <= blk[c].prev \/ c <= d
          BY <4>1, <2>2, <1>g, <1>f, Zenon DEF Null
        <4>3. at <= blk[c].prev \/ c <= at BY <4>2, <3>2, <1>p, <1>f
        <4> QED BY <4>1, <4>2, <4>3, Zenon
      <3> QED BY <3>1, <3>2, Zenon
    <2>3. ASSUME m[c].next = Null PROVE \A d \in E : d <= c
      <3>1. c # p /\ blk[c].next = 0 BY <2>3, <1>2, Zenon DEF Null
      <3>2. \A d \in D : d <= c BY <3>1, <1>g, Zenon
      <3> QED BY <3>1, <3>2, <1>p, <1>f
    <2>4. ASSUME m[c].next # Null
          PROVE  m[c].next \in E /\ c < m[c].next /\ \A d \in E : d <= c \/ m[c].next <= d
      <3>1. CASE c = p BY <3>1, <1>2, <1>p, <1>f
      <3>2. CASE c # p
        <4>1. m[c].next = blk[c].next BY <3>2, <1>2, Zenon
        <4>2. blk[c].next \in D /\ c < blk[c].next /\ \A d \in D : d <= c \/ blk[c].next <= d
          BY <4>1, <2>4, <1>g, <1>f, Zenon DEF Null
        <4>3. at <= c \/ blk[c].next <= at BY <4>2, <3>2, <1>p, <1>f
        <4> QED BY <4>1, <4>2, <4>3, Zenon
      <3> QED BY <3>1, <3>2, Zenon
    <2> QED BY <2>1, <2>2, <2>3, <2>4, Zenon DEF Pointers
  <1>7. k # Null /\ k \in E /\ \A c \in E : k <= c
    BY <1>p, <1>f, <1>h DEF Null
  <1>8. Sorted(m, k)
    <2>1. \A c \in E : Pointers(E, c, m[c].prev, m[c].next) BY <1>5, <1>6, Zenon
    <2> HIDE DEF E
    <2> QED BY <1>1, <1>3, <1>4, <2>1, <1>7, Zenon DEF Sorted
  <1> QED BY <1>1, <1>2, <1>8, Zenon DEF IsAdded

\* A block was unlinked, and block q resized.
IsRemoved(m, blk, b, q, s) ==
    /\ m \in Blk /\ DOMAIN m = DOMAIN blk \ {b}
    /\ \A c \in DOMAIN blk \ {b} :
        /\ m[c].prev = IF c = blk[b].next THEN blk[b].prev ELSE blk[c].prev
        /\ m[c].next = IF c = blk[b].prev THEN blk[b].next ELSE blk[c].next
        /\ m[c].size = IF c = q THEN s ELSE blk[c].size

\* Unlinking a block, and growing another one into the gap it leaves, keeps the
\* list sorted.
LEMMA RemovedSorted ==
    ASSUME NEW blk, NEW head, Sorted(blk, head), NEW b \in DOMAIN blk, NEW q, NEW s \in Nat,
           s >= INFO, q \in DOMAIN blk => \A c \in DOMAIN blk \ {b} : q < c => q + s < c,
           NEW m, IsRemoved(m, blk, b, q, s)
    PROVE  Sorted(m, IF blk[b].prev = Null THEN blk[b].next ELSE head)
  <1> DEFINE D == DOMAIN blk
             E == DOMAIN blk \ {b}
  <1>f. /\ blk \in Blk /\ D \subseteq Nat \ {0}
        /\ \A c \in D : blk[c].size \in Nat /\ blk[c].prev \in Nat /\ blk[c].next \in Nat
        /\ \A c \in D : blk[c].size >= INFO
        /\ \A c, d \in D : c < d => c + blk[c].size < d
    BY SortedFacts, Zenon
  <1>g. \A c \in D :
                  /\ blk[c].prev = 0 => \A d \in D : c <= d
                  /\ blk[c].prev # 0 => blk[c].prev \in D /\ blk[c].prev < c /\ \A d \in D : d <= blk[c].prev \/ c <= d
                  /\ blk[c].next = 0 => \A d \in D : d <= c
                  /\ blk[c].next # 0 => blk[c].next \in D /\ c < blk[c].next /\ \A d \in D : d <= c \/ blk[c].next <= d
    BY SortedFacts, Zenon
  <1>h. head \in D /\ \A d \in D : head <= d
    BY SortedFacts, Zenon
  <1>1. m \in Blk /\ DOMAIN m = E BY Zenon DEF IsRemoved
  <1>2. \A c \in E :
            /\ m[c].prev = IF c = blk[b].next THEN blk[b].prev ELSE blk[c].prev
            /\ m[c].next = IF c = blk[b].prev THEN blk[b].next ELSE blk[c].next
            /\ m[c].size = IF c = q THEN s ELSE blk[c].size
    BY Zenon DEF IsRemoved
  <1>3. \A c \in E : m[c].size >= INFO BY <1>2, <1>f, Zenon
  <1>4. \A c, d \in E : c < d => c + m[c].size < d BY <1>2, <1>f, ZenonT(30)
  <1> DEFINE p == blk[b].prev
             n == blk[b].next
  <1>p. /\ p = 0 => \A d \in E : b < d
        /\ p # 0 => p \in E /\ p < b /\ \A d \in E : d <= p \/ b < d
        /\ n = 0 => \A d \in E : d < b
        /\ n # 0 => n \in E /\ b < n /\ \A d \in E : d < b \/ n <= d
    <2>1. b \in D /\ b \in Nat /\ p \in Nat /\ n \in Nat /\ \A d \in E : d \in D /\ d \in Nat /\ d # b
      BY <1>f, Zenon
    <2>2. \A d \in D : d # b => d \in E
      BY Zenon
    <2>g. /\ p = 0 => \A d \in D : b <= d
          /\ p # 0 => p \in D /\ p < b /\ \A d \in D : d <= p \/ b <= d
          /\ n = 0 => \A d \in D : d <= b
          /\ n # 0 => n \in D /\ b < n /\ \A d \in D : d <= b \/ n <= d
      BY <1>g, <2>1, Zenon
    <2>n. \A x, y \in Nat : (x < y => x # y) /\ (x <= y /\ x # y => x < y)
      BY SMT
    <2>3. p = 0 => \A d \in E : b < d
      BY <2>1, <2>g, <2>n, Zenon
    <2>4. p # 0 => p \in E /\ p < b /\ \A d \in E : d <= p \/ b < d
      BY <2>1, <2>2, <2>g, <2>n, Zenon
    <2>5. n = 0 => \A d \in E : d < b
      BY <2>1, <2>g, <2>n, Zenon
    <2>6. n # 0 => n \in E /\ b < n /\ \A d \in E : d < b \/ n <= d
      BY <2>1, <2>2, <2>g, <2>n, Zenon
    <2> QED BY <2>3, <2>4, <2>5, <2>6, Zenon
  <1>6. ASSUME NEW c \in E PROVE Pointers(E, c, m[c].prev, m[c].next)
    <2>m. (n = c <=> blk[c].prev = b) /\ (blk[c].next = b <=> p = c) BY Mirror
    <2>k. /\ m[c].prev = IF c = n THEN p ELSE blk[c].prev
          /\ m[c].next = IF c = p THEN n ELSE blk[c].next
      BY <1>2, Zenon
    <2> HIDE DEF p, n
    <2>a. ASSUME m[c].prev = Null PROVE \A d \in E : c <= d
      <3>1. CASE c = n BY <3>1, <2>a, <2>k, <1>p, <1>f DEF Null
      <3>2. CASE c # n
        <4>1. blk[c].prev = 0 BY <3>2, <2>a, <2>k, Zenon DEF Null
        <4> QED BY <4>1, <1>g, Zenon
      <3> QED BY <3>1, <3>2, Zenon
    <2>b. ASSUME m[c].prev # Null
          PROVE  m[c].prev \in E /\ m[c].prev < c /\ \A d \in E : d <= m[c].prev \/ c <= d
      <3>1. CASE c = n BY <3>1, <2>b, <2>k, <1>p, <1>f DEF Null
      <3>2. CASE c # n
        <4>1. blk[c].prev # 0 /\ m[c].prev = blk[c].prev /\ blk[c].prev # b
          BY <3>2, <2>b, <2>k, <2>m, Zenon DEF Null
        <4> QED BY <4>1, <1>g, Zenon
      <3> QED BY <3>1, <3>2, Zenon
    <2>c. ASSUME m[c].next = Null PROVE \A d \in E : d <= c
      <3>1. CASE c = p BY <3>1, <2>c, <2>k, <1>p, <1>f DEF Null
      <3>2. CASE c # p
        <4>1. blk[c].next = 0 BY <3>2, <2>c, <2>k, Zenon DEF Null
        <4> QED BY <4>1, <1>g, Zenon
      <3> QED BY <3>1, <3>2, Zenon
    <2>d. ASSUME m[c].next # Null
          PROVE  m[c].next \in E /\ c < m[c].next /\ \A d \in E : d <= c \/ m[c].next <= d
      <3>1. CASE c = p BY <3>1, <2>d, <2>k, <1>p, <1>f DEF Null
      <3>2. CASE c # p
        <4>1. blk[c].next # 0 /\ m[c].next = blk[c].next /\ blk[c].next # b
          BY <3>2, <2>d, <2>k, <2>m, Zenon DEF Null
        <4> QED BY <4>1, <1>g, Zenon
      <3> QED BY <3>1, <3>2, Zenon
    <2> QED BY <2>a, <2>b, <2>c, <2>d, Zenon DEF Pointers
  <1> DEFINE k == IF p = Null THEN n ELSE head
  <1>7. /\ k = Null => E = {}
        /\ k # Null => k \in E /\ \A c \in E : k <= c
    <2>1. CASE p = Null BY <2>1, <1>p, <1>f DEF Null
    <2>2. CASE p # Null
      <3>1. head # b BY <2>2, <1>p, <1>h, <1>f DEF Null
      <3> QED BY <3>1, <2>2, <1>h, <1>f, Zenon DEF Null
    <2> QED BY <2>1, <2>2, Zenon
  <1> HIDE DEF k
  <1>8. Sorted(m, k)
    <2>1. \A c \in E : Pointers(E, c, m[c].prev, m[c].next) BY <1>6, Zenon
    <2> HIDE DEF E
    <2> QED BY <1>1, <1>3, <1>4, <2>1, <1>7, Zenon DEF Sorted
  <1> QED BY <1>8, Zenon DEF k

\* alloc's unlinking of a block results in that, with no block resized.
LEMMA RemovedIs ==
    ASSUME NEW blk \in Blk, NEW b \in DOMAIN blk, NEW s
    PROVE  IsRemoved(Removed(blk, b), blk, b, b, s)
  <1>1. blk \in [DOMAIN blk -> Rec] /\ DOMAIN blk \subseteq Nat \ {0} BY BlkIs, Zenon
  <1> DEFINE p == blk[b].prev
             n == blk[b].next
  <1>2. p \in Nat /\ n \in Nat BY <1>1, Zenon DEF Rec
  <1> HIDE DEF p, n
  <1> DEFINE x == Without(blk, b)
  <1>5. IsWithout(x, blk, b) BY WithoutIs, Zenon
  <1>6. x \in Blk BY <1>5, Zenon DEF IsWithout
  <1> HIDE DEF x
  <1> DEFINE y == SetNext(x, p, n)
  <1>7. IsSetNext(y, x, p, n) BY <1>2, <1>6, SetNextIs, Zenon
  <1>8. y \in Blk BY <1>7, Zenon DEF IsSetNext
  <1> HIDE DEF y
  <1> DEFINE m == SetPrev(y, n, p)
  <1>9. IsSetPrev(m, y, n, p) BY <1>2, <1>8, SetPrevIs, Zenon
  <1> HIDE DEF m
  <1>10. m = Removed(blk, b) BY Zenon DEF m, y, x, p, n, Removed
  <1>11. IsRemoved(m, blk, b, b, s)
    BY <1>5, <1>7, <1>9 DEF IsWithout, IsSetPrev, IsSetNext, IsRemoved, p, n
  <1> QED BY <1>10, <1>11, Zenon

\* Only the size of block p changed.
IsResized(m, blk, p, s) ==
    /\ m \in Blk /\ DOMAIN m = DOMAIN blk
    /\ \A c \in DOMAIN blk :
        /\ m[c].prev = blk[c].prev
        /\ m[c].next = blk[c].next
        /\ m[c].size = IF c = p THEN s ELSE blk[c].size

\* Writing the size of a block changes that field only.
LEMMA ResizedIs ==
    ASSUME NEW blk \in Blk, NEW p \in DOMAIN blk, NEW s \in Nat
    PROVE  IsResized(Resized(blk, p, s), blk, p, s)
  <1>1. blk \in [DOMAIN blk -> Rec] /\ DOMAIN blk \in SUBSET (Nat \ {0}) BY BlkIs, Zenon
  <1> DEFINE y == [blk EXCEPT ![p] = [blk[p] EXCEPT !.size = s]]
  <1>2. Resized(blk, p, s) = y BY Zenon DEF Resized
  <1>4. [blk[p] EXCEPT !.size = s] = [prev |-> blk[p].prev, next |-> blk[p].next, size |-> s]
    BY <1>1 DEF Rec
  <1>6. y \in [DOMAIN blk -> Rec] BY <1>4, <1>1, Zenon DEF Rec
  <1>8. y \in Blk BY <1>6, <1>1, BlkIs, Zenon
  <1>9. /\ DOMAIN y = DOMAIN blk
        /\ \A c \in DOMAIN blk : /\ y[c].prev = blk[c].prev
                                 /\ y[c].next = blk[c].next
                                 /\ y[c].size = IF c = p THEN s ELSE blk[c].size
    BY <1>4, Zenon
  <1> HIDE DEF y
  <1> QED BY <1>2, <1>8, <1>9, Zenon DEF IsResized

\* The size of two free blocks and the freed one between them
LEMMA SumOfSizes ==
    ASSUME NEW a \in Nat, NEW b \in Nat, b >= INFO, NEW c \in Nat
    PROVE  a + b + c \in Nat /\ a + b + c >= INFO
  BY DEF INFO

\* Resizing a block that still ends before the next one keeps the list sorted.
LEMMA ResizedSorted ==
    ASSUME NEW blk, NEW head, Sorted(blk, head), NEW p \in DOMAIN blk, NEW s \in Nat,
           s >= INFO, \A c \in DOMAIN blk : p < c => p + s < c,
           NEW m, IsResized(m, blk, p, s)
    PROVE  Sorted(m, head)
  <1>1. DOMAIN m = DOMAIN blk BY Zenon DEF IsResized
  <1>2. \A b \in DOMAIN blk : Pointers(DOMAIN blk, b, m[b].prev, m[b].next)
    <2>1. \A b \in DOMAIN blk : Pointers(DOMAIN blk, b, blk[b].prev, blk[b].next) BY Zenon DEF Sorted
    <2> QED BY <2>1, Zenon DEF IsResized
  <1>3. \A b \in DOMAIN blk : m[b].size >= INFO BY SortedFacts, Zenon DEF IsResized
  <1>4. \A b, c \in DOMAIN blk : b < c => b + m[b].size < c
    <2>1. /\ \A b, c \in DOMAIN blk : b < c => b + blk[b].size < c
          /\ \A b \in DOMAIN blk : m[b].size = IF b = p THEN s ELSE blk[b].size
      BY SortedFacts, Zenon DEF IsResized
    <2> QED BY <2>1, Zenon
  <1>5. m \in Blk BY Zenon DEF IsResized
  <1> QED BY <1>1, <1>2, <1>3, <1>4, <1>5, Zenon DEF Sorted
-------------------------------------------------------------------------------
(***************************************************************************)
(* free_block.                                                             *)
(***************************************************************************)
\* A unit is free when some free block covers it.
LEMMA UnitsIn ==
    ASSUME NEW blk \in Blk
    PROVE  /\ UnitsOf(blk) \subseteq Nat
           /\ \A u \in Nat : u \in UnitsOf(blk) <=> \E b \in DOMAIN blk : b <= u /\ u < b + blk[b].size
  <1>1. blk \in [DOMAIN blk -> Rec] /\ DOMAIN blk \subseteq Nat \ {0} BY BlkIs, Zenon
  <1>2. \A b \in DOMAIN blk : b \in Nat /\ blk[b].size \in Nat BY <1>1, Zenon DEF Rec
  <1>3. ASSUME NEW u \in UnitsOf(blk) PROVE u \in Nat
    <2>1. PICK b \in DOMAIN blk : u \in b .. b + blk[b].size - 1 BY <1>3, Zenon DEF UnitsOf
    <2> QED BY <2>1, <1>2
  <1>4. ASSUME NEW u \in Nat PROVE u \in UnitsOf(blk) <=> \E b \in DOMAIN blk : u \in b .. b + blk[b].size - 1
    BY Zenon DEF UnitsOf
  <1>5. ASSUME NEW u \in Nat, NEW b \in DOMAIN blk
        PROVE  u \in b .. b + blk[b].size - 1 <=> b <= u /\ u < b + blk[b].size
    BY <1>2
  <1> QED BY <1>3, <1>4, <1>5, Zenon

\* Nothing in common.
Apart(S, T) == S \cap T = {}

\* A range that is not free lies in a gap of the free list.
LEMMA Clear ==
    ASSUME NEW blk, NEW head, Sorted(blk, head), NEW at \in Nat, NEW s \in Nat, s > 0,
           Apart(at .. at + s - 1, UnitsOf(blk))
    PROVE  /\ at \notin DOMAIN blk
           /\ \A c \in DOMAIN blk : c < at => c + blk[c].size <= at
           /\ \A c \in DOMAIN blk : at < c => at + s <= c
  <1>1. /\ blk \in Blk /\ DOMAIN blk \subseteq Nat
        /\ \A b \in DOMAIN blk : blk[b].size \in Nat /\ blk[b].size >= INFO
    BY SortedFacts, Zenon
  <1>2. ASSUME NEW c \in DOMAIN blk PROVE (c < at => c + blk[c].size <= at) /\ (at <= c => at + s <= c)
    <2>1. ASSUME c < at, c + blk[c].size > at PROVE FALSE
      <3>1. at \in UnitsOf(blk) BY <2>1, <1>1, UnitsIn
      <3>2. at \in at .. at + s - 1 OBVIOUS
      <3> QED BY <3>1, <3>2, Zenon DEF Apart
    <2>2. ASSUME at <= c, c < at + s PROVE FALSE
      <3>1. c \in UnitsOf(blk) BY <1>1, UnitsIn DEF INFO
      <3>2. c \in at .. at + s - 1 BY <2>2, <1>1
      <3> QED BY <3>1, <3>2, Zenon DEF Apart
    <2> QED BY <2>1, <2>2, <1>1
  <1> QED BY <1>1, <1>2

\* The allocator's fields, before the statistics are known not to be negative.
HeapType == [total : Nat, head : Nat, blk : Blk, free_size : Int, used_size : Int]
SameRest(f, h) == f.total = h.total /\ f.free_size = h.free_size /\ f.used_size = h.used_size

\* Relinking touches the list and its head only.
LEMMA HeapExcept ==
    ASSUME NEW h \in HeapType, NEW hd \in Nat, NEW k \in Blk
    PROVE  LET f == [h EXCEPT !.head = hd, !.blk = k]
           IN  f \in HeapType /\ f.head = hd /\ f.blk = k /\ SameRest(f, h)
  BY Zenon DEF HeapType, SameRest

\* A list covers what another one does and the range from at on.
Covers(m, u) == \E b \in DOMAIN m : b <= u /\ u < b + m[b].size
CoversMore(m, blk, at, s) ==
    \A u \in Nat : Covers(m, u) <=> Covers(blk, u) \/ (at <= u /\ u < at + s)

\* Then its units are those of the other list and of the range.
LEMMA SameUnits ==
    ASSUME NEW m \in Blk, NEW blk \in Blk, NEW at \in Nat, NEW s \in Nat,
           CoversMore(m, blk, at, s)
    PROVE  UnitsOf(m) = UnitsOf(blk) \cup (at .. at + s - 1)
  <1>1. UnitsOf(m) \subseteq Nat /\ UnitsOf(blk) \subseteq Nat BY UnitsIn, Zenon
  <1>2. \A u \in Nat : u \in UnitsOf(m) <=> u \in UnitsOf(blk) \/ (at <= u /\ u < at + s)
    BY UnitsIn, Zenon DEF CoversMore, Covers
  <1>3. at .. at + s - 1 \subseteq Nat OBVIOUS
  <1>4. \A u \in Nat : u \in at .. at + s - 1 <=> at <= u /\ u < at + s OBVIOUS
  <1> QED BY <1>1, <1>2, <1>3, <1>4, Zenon

\* A sorted list with the range from at on added to its units.
FreedRight(m, hd, blk, at, s) ==
    /\ m \in Blk /\ Sorted(m, hd)
    /\ UnitsOf(m) = UnitsOf(blk) \cup (at .. at + s - 1)

\* free_block with a free neighbour on both sides: one block of the three.
LEMMA FreeBetween ==
    ASSUME NEW blk, NEW head, Sorted(blk, head), NEW at \in Nat \ {0}, NEW s \in Nat, s >= INFO,
           Apart(at .. at + s - 1, UnitsOf(blk)),
           NEW p \in DOMAIN blk, p + blk[p].size = at,
           NEW n \in DOMAIN blk, n = at + s,
           NEW m, IsRemoved(m, blk, n, p, blk[p].size + s + blk[n].size)
    PROVE  FreedRight(m, IF blk[n].prev = Null THEN p ELSE head, blk, at, s)
  <1> DEFINE z == blk[p].size + s + blk[n].size
  <1>1. /\ blk \in Blk /\ DOMAIN blk \subseteq Nat \ {0}
        /\ \A b \in DOMAIN blk : blk[b].size \in Nat /\ blk[b].size >= INFO
        /\ \A b, c \in DOMAIN blk : b < c => b + blk[b].size < c
    BY SortedFacts, Zenon
  <1>t. at \in Nat /\ s > 0 BY DEF INFO
  <1>2. /\ at \notin DOMAIN blk
        /\ \A c \in DOMAIN blk : c < at => c + blk[c].size <= at
        /\ \A c \in DOMAIN blk : at < c => at + s <= c
    BY <1>t, Clear, Zenon
  <1>d. p \in Nat /\ n \in Nat /\ blk[p].size \in Nat /\ blk[n].size \in Nat BY <1>1, Zenon
  <1>3. p < n /\ \A c \in DOMAIN blk : c <= p \/ n <= c
    BY <1>1, <1>2, SMTT(30) DEF INFO
  <1>4. blk[n].prev = p
    <2>1. blk[n].prev # 0 BY <1>1, <1>3, SortedFacts, SMTT(30)
    <2>2. blk[n].prev \in DOMAIN blk /\ blk[n].prev < n /\ (p <= blk[n].prev \/ n <= p)
      BY <2>1, SortedFacts, Zenon
    <2> QED BY <1>1, <1>3, <2>2, SMTT(30)
  <1>5. p # Null BY <1>1, Zenon DEF Null
  <1>6. z \in Nat /\ z >= INFO BY <1>d, SumOfSizes, Zenon
  <1>e. p + z = n + blk[n].size BY <1>d, SMTT(30)
  <1>7. \A c \in DOMAIN blk \ {n} : p < c => p + z < c
    <2> TAKE c \in DOMAIN blk \ {n}
    <2> HAVE p < c
    <2>1. n < c BY <1>1, <1>3, SMTT(30)
    <2>2. n + blk[n].size < c BY <1>1, <2>1, Zenon
    <2> QED BY <2>2, <1>e, Zenon
  <1>9. m \in Blk /\ DOMAIN m = DOMAIN blk \ {n} /\ \A c \in DOMAIN m : m[c].size = IF c = p THEN z ELSE blk[c].size
    BY Zenon DEF IsRemoved
  <1>10. IsRemoved(m, blk, n, p, z) BY Zenon
  <1> HIDE DEF z
  <1>8. Sorted(m, IF blk[n].prev = Null THEN blk[n].next ELSE head)
    BY <1>6, <1>7, <1>10, RemovedSorted, Zenon
  <1>11. ASSUME NEW u \in Nat, NEW b \in DOMAIN m, b <= u, u < b + m[b].size
         PROVE  Covers(blk, u) \/ (at <= u /\ u < at + s)
    <2>1. CASE b # p BY <2>1, <1>11, <1>9, Zenon DEF Covers
    <2>2. CASE b = p
      <3>1. u < n + blk[n].size /\ p <= u BY <2>2, <1>11, <1>9, <1>e, Zenon
      <3>2. \/ p <= u /\ u < p + blk[p].size
            \/ at <= u /\ u < at + s
            \/ n <= u /\ u < n + blk[n].size
        BY <3>1, <1>d
      <3> QED BY <3>2, Zenon DEF Covers
    <2> QED BY <2>1, <2>2, Zenon
  <1>12. p \in DOMAIN m /\ m[p].size = z BY <1>3, <1>9, <1>d
  <1>13. ASSUME NEW u \in Nat, p <= u, u < n + blk[n].size
         PROVE  Covers(m, u)
    <2>1. p <= u /\ u < p + m[p].size BY <1>12, <1>13, <1>e, Zenon
    <2> QED BY <1>12, <2>1, Zenon DEF Covers
  <1>14. ASSUME NEW u \in Nat, NEW b \in DOMAIN blk, b <= u, u < b + blk[b].size
         PROVE  Covers(m, u)
    <2>1. CASE b = n \/ b = p BY <2>1, <1>13, <1>14, <1>3, <1>d, SMTT(30)
    <2>2. CASE b # n /\ b # p
      <3>1. b \in DOMAIN m /\ m[b].size = blk[b].size BY <2>2, <1>14, <1>9, Zenon
      <3> QED BY <3>1, <1>14, Zenon DEF Covers
    <2> QED BY <2>1, <2>2, Zenon
  <1>15. ASSUME NEW u \in Nat, at <= u, u < at + s
         PROVE  Covers(m, u)
    BY <1>15, <1>13, <1>d, SMTT(30)
  <1>16. CoversMore(m, blk, at, s)
    BY <1>11, <1>14, <1>15, Zenon DEF CoversMore, Covers
  <1>17. UnitsOf(m) = UnitsOf(blk) \cup (at .. at + s - 1)
    <2>1. m \in Blk /\ blk \in Blk BY <1>1, <1>9, Zenon
    <2> QED BY <2>1, <1>16, <1>t, SameUnits
  <1> QED BY <1>4, <1>5, <1>8, <1>9, <1>17, Zenon DEF FreedRight

\* free_block behind a free neighbour: that one grows.
LEMMA FreeAfter ==
    ASSUME NEW blk, NEW head, Sorted(blk, head), NEW at \in Nat \ {0}, NEW s \in Nat, s >= INFO,
           Apart(at .. at + s - 1, UnitsOf(blk)),
           NEW p \in DOMAIN blk, p + blk[p].size = at, at + s \notin DOMAIN blk,
           NEW m, IsResized(m, blk, p, blk[p].size + s)
    PROVE  FreedRight(m, head, blk, at, s)
  <1> DEFINE z == blk[p].size + s
  <1>1. /\ blk \in Blk /\ DOMAIN blk \subseteq Nat \ {0}
        /\ \A b \in DOMAIN blk : blk[b].size \in Nat /\ blk[b].size >= INFO
        /\ \A b, c \in DOMAIN blk : b < c => b + blk[b].size < c
    BY SortedFacts, Zenon
  <1>t. at \in Nat /\ s > 0 BY DEF INFO
  <1>2. /\ at \notin DOMAIN blk
        /\ \A c \in DOMAIN blk : c < at => c + blk[c].size <= at
        /\ \A c \in DOMAIN blk : at < c => at + s <= c
    BY <1>t, Clear, Zenon
  <1>d. p \in Nat /\ blk[p].size \in Nat BY <1>1, Zenon
  <1>6. z \in Nat /\ z >= INFO /\ p + z = at + s BY <1>d, SMTT(30) DEF INFO
  <1>7. \A c \in DOMAIN blk : p < c => p + z < c
    <2> TAKE c \in DOMAIN blk
    <2> HAVE p < c
    <2>1. at < c BY <1>1, Zenon
    <2>2. at + s <= c /\ at + s # c /\ c \in Nat BY <1>1, <1>2, <2>1, Zenon
    <2> QED BY <2>2, <1>6
  <1>9. m \in Blk /\ DOMAIN m = DOMAIN blk /\ \A c \in DOMAIN m : m[c].size = IF c = p THEN z ELSE blk[c].size
    BY Zenon DEF IsResized
  <1>10. IsResized(m, blk, p, z) BY Zenon
  <1> HIDE DEF z
  <1>8. Sorted(m, head)
    BY <1>6, <1>7, <1>10, ResizedSorted, Zenon
  <1>11. ASSUME NEW u \in Nat, NEW b \in DOMAIN m, b <= u, u < b + m[b].size
         PROVE  Covers(blk, u) \/ (at <= u /\ u < at + s)
    <2>1. CASE b # p BY <2>1, <1>11, <1>9, Zenon DEF Covers
    <2>2. CASE b = p
      <3>1. u < at + s /\ p <= u BY <2>2, <1>11, <1>9, <1>6, Zenon
      <3>2. \/ p <= u /\ u < p + blk[p].size
            \/ at <= u /\ u < at + s
        BY <3>1, <1>d
      <3> QED BY <3>2, Zenon DEF Covers
    <2> QED BY <2>1, <2>2, Zenon
  <1>12. p \in DOMAIN m /\ m[p].size = z BY <1>9, <1>d, Zenon
  <1>13. ASSUME NEW u \in Nat, p <= u, u < at + s
         PROVE  Covers(m, u)
    <2>1. p <= u /\ u < p + m[p].size BY <1>12, <1>13, <1>6, Zenon
    <2> QED BY <1>12, <2>1, Zenon DEF Covers
  <1>14. ASSUME NEW u \in Nat, NEW b \in DOMAIN blk, b <= u, u < b + blk[b].size
         PROVE  Covers(m, u)
    <2>1. CASE b = p BY <2>1, <1>13, <1>14, <1>d
    <2>2. CASE b # p
      <3>1. b \in DOMAIN m /\ m[b].size = blk[b].size BY <2>2, <1>14, <1>9, Zenon
      <3> QED BY <3>1, <1>14, Zenon DEF Covers
    <2> QED BY <2>1, <2>2, Zenon
  <1>15. ASSUME NEW u \in Nat, at <= u, u < at + s
         PROVE  Covers(m, u)
    BY <1>15, <1>13, <1>d
  <1>16. CoversMore(m, blk, at, s)
    BY <1>11, <1>14, <1>15, Zenon DEF CoversMore, Covers
  <1>17. UnitsOf(m) = UnitsOf(blk) \cup (at .. at + s - 1)
    <2>1. m \in Blk /\ blk \in Blk BY <1>1, <1>9, Zenon
    <2> QED BY <2>1, <1>16, <1>t, SameUnits
  <1> QED BY <1>8, <1>9, <1>17, Zenon DEF FreedRight

\* free_block in front of a free neighbour: its header moves down.
LEMMA FreeBefore ==
    ASSUME NEW blk, NEW head, Sorted(blk, head), NEW at \in Nat \ {0}, NEW s \in Nat, s >= INFO,
           Apart(at .. at + s - 1, UnitsOf(blk)),
           \A b \in DOMAIN blk : b + blk[b].size # at,
           NEW n \in DOMAIN blk, n = at + s
    PROVE  FreedRight(Moved(blk, n, at, s + blk[n].size),
                      IF blk[n].prev = Null THEN at ELSE head, blk, at, s)
  <1> DEFINE z == s + blk[n].size
             m == Moved(blk, n, at, z)
  <1>1. /\ blk \in Blk /\ DOMAIN blk \subseteq Nat \ {0}
        /\ \A b \in DOMAIN blk : blk[b].size \in Nat /\ blk[b].size >= INFO
        /\ \A b, c \in DOMAIN blk : b < c => b + blk[b].size < c
    BY SortedFacts, Zenon
  <1>t. at \in Nat /\ s > 0 BY DEF INFO
  <1>2. /\ at \notin DOMAIN blk
        /\ \A c \in DOMAIN blk : c < at => c + blk[c].size <= at
        /\ \A c \in DOMAIN blk : at < c => at + s <= c
    BY <1>t, Clear, Zenon
  <1>d. n \in Nat /\ blk[n].size \in Nat /\ at < n BY <1>1, <1>t
  <1>6. z \in Nat /\ z >= INFO /\ at + z = n + blk[n].size BY <1>d, SMTT(30) DEF INFO
  <1>7. \A c \in DOMAIN blk : n < c => at + z < c BY <1>1, <1>6, Zenon
  <1>8. \A c \in DOMAIN blk : c < n => c + blk[c].size < at
    <2> TAKE c \in DOMAIN blk
    <2> HAVE c < n
    <2>1. c < at BY <1>1, <1>2, SMTT(30)
    <2>2. c + blk[c].size <= at /\ c + blk[c].size # at BY <1>2, <2>1, Zenon
    <2> QED BY <2>2, <1>1, SMTT(30)
  <1> DEFINE k == IF blk[n].prev = Null THEN at ELSE head
  <1>a. m = Moved(blk, n, at, z) /\ k = IF blk[n].prev = Null THEN at ELSE head BY Zenon
  <1> HIDE DEF z, m, k
  <1>b. IsReplaced(m, k, blk, n, at, z)
    BY <1>a, <1>2, <1>6, <1>7, <1>8, MovedSorted, Zenon
  <1>9. /\ Sorted(m, k)
        /\ DOMAIN m = (DOMAIN blk \ {n}) \cup {at}
        /\ m[at].size = z
        /\ \A c \in DOMAIN blk \ {n} : m[c].size = blk[c].size
    BY <1>b, Zenon DEF IsReplaced
  <1>10. m \in Blk BY <1>9, Zenon DEF Sorted
  <1>11. ASSUME NEW u \in Nat, NEW b \in DOMAIN m, b <= u, u < b + m[b].size
         PROVE  Covers(blk, u) \/ (at <= u /\ u < at + s)
    <2>1. CASE b # at BY <2>1, <1>11, <1>9, Zenon DEF Covers
    <2>2. CASE b = at
      <3>1. u < n + blk[n].size /\ at <= u BY <2>2, <1>11, <1>9, <1>6, Zenon
      <3>2. \/ n <= u /\ u < n + blk[n].size
            \/ at <= u /\ u < at + s
        BY <3>1, <1>d
      <3> QED BY <3>2, Zenon DEF Covers
    <2> QED BY <2>1, <2>2, Zenon
  <1>12. at \in DOMAIN m BY <1>9, Zenon
  <1>13. ASSUME NEW u \in Nat, at <= u, u < n + blk[n].size
         PROVE  Covers(m, u)
    <2>1. at <= u /\ u < at + m[at].size BY <1>9, <1>13, <1>6, Zenon
    <2> QED BY <1>12, <2>1, Zenon DEF Covers
  <1>14. ASSUME NEW u \in Nat, NEW b \in DOMAIN blk, b <= u, u < b + blk[b].size
         PROVE  Covers(m, u)
    <2>1. CASE b = n BY <2>1, <1>13, <1>14, <1>d
    <2>2. CASE b # n
      <3>1. b \in DOMAIN m /\ m[b].size = blk[b].size BY <2>2, <1>14, <1>9, Zenon
      <3> QED BY <3>1, <1>14, Zenon DEF Covers
    <2> QED BY <2>1, <2>2, Zenon
  <1>15. ASSUME NEW u \in Nat, at <= u, u < at + s
         PROVE  Covers(m, u)
    BY <1>15, <1>13, <1>d, SMTT(30)
  <1>16. CoversMore(m, blk, at, s)
    BY <1>11, <1>14, <1>15, Zenon DEF CoversMore, Covers
  <1>17. UnitsOf(m) = UnitsOf(blk) \cup (at .. at + s - 1)
    BY <1>1, <1>10, <1>16, <1>t, SameUnits
  <1>18. FreedRight(m, k, blk, at, s)
    BY <1>9, <1>10, <1>17, Zenon DEF FreedRight
  <1> QED BY <1>18, Zenon DEF m, z, k

\* free_block without a free neighbour: a block of its own.
LEMMA FreeAlone ==
    ASSUME NEW blk, NEW head, Sorted(blk, head), NEW at \in Nat \ {0}, NEW s \in Nat, s >= INFO,
           Apart(at .. at + s - 1, UnitsOf(blk)),
           \A b \in DOMAIN blk : b + blk[b].size # at, at + s \notin DOMAIN blk,
           NEW p \in Nat, NEW n \in Nat, Pointers(DOMAIN blk, at, p, n)
    PROVE  FreedRight(Inserted(blk, at, p, n, s), IF p = Null THEN at ELSE head, blk, at, s)
  <1> DEFINE m == Inserted(blk, at, p, n, s)
  <1>1. /\ blk \in Blk /\ DOMAIN blk \subseteq Nat \ {0}
        /\ \A b \in DOMAIN blk : blk[b].size \in Nat /\ blk[b].size >= INFO
        /\ \A b, c \in DOMAIN blk : b < c => b + blk[b].size < c
    BY SortedFacts, Zenon
  <1>t. at \in Nat /\ s > 0 BY DEF INFO
  <1>2. /\ at \notin DOMAIN blk
        /\ \A c \in DOMAIN blk : c < at => c + blk[c].size <= at
        /\ \A c \in DOMAIN blk : at < c => at + s <= c
    BY <1>t, Clear, Zenon
  <1>7. \A c \in DOMAIN blk : at < c => at + s < c
    <2> TAKE c \in DOMAIN blk
    <2> HAVE at < c
    <2>1. at + s <= c /\ at + s # c BY <1>2, Zenon
    <2> QED BY <2>1, <1>1, SMTT(30)
  <1>8. \A c \in DOMAIN blk : c < at => c + blk[c].size < at
    <2> TAKE c \in DOMAIN blk
    <2> HAVE c < at
    <2>2. c + blk[c].size <= at /\ c + blk[c].size # at BY <1>2, Zenon
    <2> QED BY <2>2, <1>1, SMTT(30)
  <1> DEFINE k == IF p = Null THEN at ELSE head
  <1>a. m = Inserted(blk, at, p, n, s) /\ k = IF p = Null THEN at ELSE head BY Zenon
  <1> HIDE DEF m, k
  <1>b. IsAdded(m, k, blk, at, s)
    BY <1>a, <1>2, <1>7, <1>8, InsertedSorted, Zenon
  <1>9. /\ Sorted(m, k)
        /\ DOMAIN m = DOMAIN blk \cup {at}
        /\ m[at].size = s
        /\ \A c \in DOMAIN blk : m[c].size = blk[c].size
    BY <1>b, Zenon DEF IsAdded
  <1>10. m \in Blk BY <1>9, Zenon DEF Sorted
  <1>11. ASSUME NEW u \in Nat, NEW b \in DOMAIN m, b <= u, u < b + m[b].size
         PROVE  Covers(blk, u) \/ (at <= u /\ u < at + s)
    <2>1. CASE b # at BY <2>1, <1>11, <1>9, Zenon DEF Covers
    <2>2. CASE b = at BY <2>2, <1>11, <1>9, Zenon
    <2> QED BY <2>1, <2>2, Zenon
  <1>14. ASSUME NEW u \in Nat, NEW b \in DOMAIN blk, b <= u, u < b + blk[b].size
         PROVE  Covers(m, u)
    <2>1. b \in DOMAIN m /\ m[b].size = blk[b].size BY <1>14, <1>9, Zenon
    <2> QED BY <2>1, <1>14, Zenon DEF Covers
  <1>15. ASSUME NEW u \in Nat, at <= u, u < at + s
         PROVE  Covers(m, u)
    <2>1. at \in DOMAIN m /\ at <= u /\ u < at + m[at].size BY <1>9, <1>15, Zenon
    <2> QED BY <2>1, Zenon DEF Covers
  <1>16. CoversMore(m, blk, at, s)
    BY <1>11, <1>14, <1>15, Zenon DEF CoversMore, Covers
  <1>17. UnitsOf(m) = UnitsOf(blk) \cup (at .. at + s - 1)
    BY <1>1, <1>10, <1>16, <1>t, SameUnits
  <1>18. FreedRight(m, k, blk, at, s)
    BY <1>9, <1>10, <1>17, Zenon DEF FreedRight
  <1> QED BY <1>18, Zenon DEF m, k

\* free_block's merge of three blocks unlinks the one after the range and resizes the
\* one before it, although it writes the pointers of the unlinked block first.
LEMMA MergedIs ==
    ASSUME NEW blk \in Blk, NEW p \in DOMAIN blk, NEW n \in DOMAIN blk, p # n,
           blk[n].prev = p, blk[n].next # n, NEW z \in Nat
    PROVE  IsRemoved(Merged(blk, p, n, z), blk, n, p, z)
  <1>1. blk \in [DOMAIN blk -> Rec] /\ DOMAIN blk \subseteq Nat \ {0} BY BlkIs, Zenon
  <1> DEFINE q == blk[n].next
  <1>2. p \in Nat /\ q \in Nat BY <1>1, Zenon DEF Rec
  <1> HIDE DEF q
  <1> DEFINE w == Resized(blk, p, z)
  <1>3. IsResized(w, blk, p, z) BY ResizedIs, Zenon
  <1>4. w \in Blk BY <1>3, Zenon DEF IsResized
  <1> HIDE DEF w
  <1> DEFINE x == SetPrev(w, q, p)
  <1>5. IsSetPrev(x, w, q, p) BY <1>2, <1>4, SetPrevIs, Zenon
  <1>6. x \in Blk BY <1>5, Zenon DEF IsSetPrev
  <1> HIDE DEF x
  <1> DEFINE y == SetNext(x, p, p)
  <1>7. IsSetNext(y, x, p, p) BY <1>2, <1>6, SetNextIs, Zenon
  <1>8. y \in Blk BY <1>7, Zenon DEF IsSetNext
  <1> HIDE DEF y
  <1> DEFINE v == SetNext(y, p, q)
  <1>9. IsSetNext(v, y, p, q) BY <1>2, <1>8, SetNextIs, Zenon
  <1>10. v \in Blk BY <1>9, Zenon DEF IsSetNext
  <1> HIDE DEF v
  <1> DEFINE m == Without(v, n)
  <1>11. IsWithout(m, v, n) BY <1>10, WithoutIs, Zenon
  <1> HIDE DEF m
  <1>12. IsRemoved(m, blk, n, p, z)
   
      BY <1>3, <1>5, <1>7, <1>9, <1>11 DEF IsWithout, IsSetPrev, IsSetNext, IsResized, IsRemoved, q
  <1> QED BY <1>12, Zenon DEF Merged, m, v, y, x, w, q

\* free_block adds the range to the free units and leaves the rest alone.
FreeResult(f, h, at, s) ==
    /\ f \in HeapType /\ SameRest(f, h)
    /\ FreedRight(f.blk, f.head, h.blk, at, s)

\* This is so once the list is relinked as it should be.
LEMMA RelinkedIs ==
    ASSUME NEW h \in HeapType, NEW at, NEW s, NEW k \in Nat, NEW m,
           FreedRight(m, k, h.blk, at, s)
    PROVE  FreeResult(Relinked(h, k, m), h, at, s)
  <1>1. m \in Blk BY Zenon DEF FreedRight
  <1> DEFINE f == [h EXCEPT !.head = k, !.blk = m]
  <1>2. f \in HeapType /\ f.head = k /\ f.blk = m /\ SameRest(f, h) BY <1>1, HeapExcept, Zenon
  <1>3. Relinked(h, k, m) = f BY Zenon DEF Relinked
  <1> HIDE DEF f
  <1> QED BY <1>2, <1>3, Zenon DEF FreeResult

\* In every case free_block adds a range that was not free to the free units, and
\* the list stays sorted, linked both ways and merged.
LEMMA FreeBlock ==
    ASSUME NEW h \in HeapType, Sorted(h.blk, h.head), NEW at \in Nat \ {0}, NEW s \in Nat, s >= INFO,
           Apart(at .. at + s - 1, UnitsOf(h.blk))
    PROVE  FreeResult(free_block(h, at, s), h, at, s)
  <1> DEFINE before  == {b \in Free(h) : b + h.blk[b].size = at}
             after   == {b \in Free(h) : b = at + s}
             lower   == {b \in Free(h) : b < at}
             p       == CHOOSE b \in before : TRUE
             n       == CHOOSE b \in after : TRUE
             closest == Max(lower)
             Joined  == Relinked(h, IF h.blk[n].prev = Null THEN p ELSE h.head,
                                 Merged(h.blk, p, n, h.blk[p].size + s + h.blk[n].size))
             Grows   == Relinked(h, h.head, Resized(h.blk, p, h.blk[p].size + s))
             Shifts  == Relinked(h, IF h.blk[n].prev = Null THEN at ELSE h.head,
                                 Moved(h.blk, n, at, s + h.blk[n].size))
             First   == Relinked(h, at, Inserted(h.blk, at, Null, h.head, s))
             Later   == Relinked(h, h.head, Inserted(h.blk, at, closest, h.blk[closest].next, s))
  <1>a. before # {} /\ after # {} => free_block(h, at, s) = Joined BY Zenon DEF free_block
  <1>b. before # {} /\ after = {} => free_block(h, at, s) = Grows BY Zenon DEF free_block
  <1>c. before = {} /\ after # {} => free_block(h, at, s) = Shifts BY Zenon DEF free_block
  <1>d. before = {} /\ after = {} /\ lower = {} => free_block(h, at, s) = First
    BY Zenon DEF free_block
  <1>e. before = {} /\ after = {} /\ lower # {} => free_block(h, at, s) = Later
    BY Zenon DEF free_block
  <1>h. h.head \in Nat /\ h.blk \in Blk BY Zenon DEF HeapType
  <1>1. /\ DOMAIN h.blk \subseteq Nat \ {0}
        /\ \A b \in DOMAIN h.blk : h.blk[b].size \in Nat /\ h.blk[b].next \in Nat /\ h.blk[b].prev \in Nat
        /\ \A b \in DOMAIN h.blk : h.blk[b].size >= INFO
    BY SortedFacts, Zenon
  <1>t. at \in Nat /\ s > 0 BY DEF INFO
  <1>2. /\ at \notin DOMAIN h.blk
        /\ \A c \in DOMAIN h.blk : c < at => c + h.blk[c].size <= at
        /\ \A c \in DOMAIN h.blk : at < c => at + s <= c
    BY <1>t, Clear, Zenon
  <1>p. before # {} => p \in before BY Zenon
  <1>p2. before # {} => p \in DOMAIN h.blk /\ p + h.blk[p].size = at BY <1>p, Zenon DEF Free
  <1>p3. before = {} => \A b \in DOMAIN h.blk : b + h.blk[b].size # at BY Zenon DEF Free
  <1>n. after # {} => n \in after BY Zenon
  <1>n2. after # {} => n \in DOMAIN h.blk /\ n = at + s BY <1>n, Zenon DEF Free
  <1>n3. after = {} => at + s \notin DOMAIN h.blk BY Zenon DEF Free
  <1>l. lower = {} => \A c \in DOMAIN h.blk : ~(c < at) BY Zenon DEF Free
  <1>m. lower # {} => /\ closest \in DOMAIN h.blk /\ closest < at
                      /\ \A c \in DOMAIN h.blk : c < at => c <= closest
    <2> HAVE lower # {}
    <2>1. lower \subseteq 0 .. at BY <1>1, <1>t DEF Free
    <2>2. closest \in lower /\ \A y \in lower : closest >= y
      <3> HIDE DEF lower
      <3> QED BY <2>1, <1>t, GreatestMax, Zenon
    <2>3. closest \in DOMAIN h.blk /\ closest < at BY <2>2, Zenon DEF Free
    <2> HIDE DEF closest
    <2>4. \A c \in DOMAIN h.blk : c < at => closest >= c BY <2>2, Zenon DEF Free
    <2> QED BY <2>3, <2>4, <1>1, Zenon
  <1> HIDE DEF before, after, lower, p, n, closest
  <1>3. CASE before # {} /\ after # {}
    <2> DEFINE z == h.blk[p].size + s + h.blk[n].size
               m == Merged(h.blk, p, n, z)
               k == IF h.blk[n].prev = Null THEN p ELSE h.head
    <2>1. p \in DOMAIN h.blk /\ p + h.blk[p].size = at /\ n \in DOMAIN h.blk /\ n = at + s
      BY <1>3, <1>p2, <1>n2, Zenon
    <2>a. /\ p \in Nat /\ n \in Nat /\ h.blk[p].size \in Nat /\ h.blk[n].size \in Nat
          /\ h.blk[p].size >= INFO
      BY <2>1, <1>1, Zenon
    <2>d. p < at BY <2>1, <2>a, <1>t DEF INFO
    <2>e. at < n BY <2>1, <1>t
    <2>f. z \in Nat BY <2>a, <1>t, SumOfSizes, Zenon
    <2>g. p # n /\ p < n BY <2>a, <2>d, <2>e, <1>t
    <2>b. z \in Nat /\ p # n /\ p < n BY <2>f, <2>g, Zenon
    <2>c. k \in Nat BY <2>a, <1>h, Zenon
    <2>2. z \in Nat /\ p # n /\ p < n /\ k \in Nat /\ p \in Nat /\ n \in Nat BY <2>a, <2>b, <2>c, Zenon
    <2>3. \A c \in DOMAIN h.blk : c <= p \/ n <= c
      BY <2>1, <2>2, <1>1, <1>2, SortedFacts, SMTT(30) DEF INFO
    <2>4. h.blk[n].prev = p
      <3>1. h.blk[n].prev # 0 BY <2>1, <2>2, SortedFacts, SMTT(30)
      <3>2. h.blk[n].prev \in DOMAIN h.blk /\ h.blk[n].prev < n /\ (p <= h.blk[n].prev \/ n <= p)
        BY <3>1, <2>1, SortedFacts, Zenon
      <3>3. h.blk[n].prev \in Nat BY <3>2, <1>1, Zenon
      <3>4. h.blk[n].prev <= p \/ n <= h.blk[n].prev BY <2>3, <3>2, Zenon
      <3> QED BY <2>2, <3>2, <3>3, <3>4, SMTT(30)
    <2>5. h.blk[n].next # n BY <2>1, <2>2, SortedFacts, SMTT(30)
    <2>6. IsRemoved(m, h.blk, n, p, z)
      <3> HIDE DEF z
      <3> QED BY <1>h, <2>1, <2>2, <2>4, <2>5, MergedIs, Zenon
    <2>7. FreedRight(m, k, h.blk, at, s)
      <3> HIDE DEF m
      <3> QED BY <1>h, <2>1, <2>6, FreeBetween, ZenonT(30)
    <2> HIDE DEF m, k
    <2>8. FreeResult(Relinked(h, k, m), h, at, s) BY <2>2, <2>7, RelinkedIs, Zenon
    <2> QED BY <1>3, <1>a, <2>8, Zenon DEF m, k
  <1>4. CASE before # {} /\ after = {}
    <2> DEFINE m == Resized(h.blk, p, h.blk[p].size + s)
    <2>1. p \in DOMAIN h.blk /\ p + h.blk[p].size = at /\ at + s \notin DOMAIN h.blk
      BY <1>4, <1>p2, <1>n3, Zenon
    <2>2. h.blk[p].size + s \in Nat BY <2>1, <1>1, SMTT(30)
    <2>3. IsResized(m, h.blk, p, h.blk[p].size + s) BY <1>h, <2>1, <2>2, ResizedIs, Zenon
    <2> HIDE DEF m
    <2>4. FreedRight(m, h.head, h.blk, at, s) BY <1>h, <2>1, <2>3, FreeAfter, Zenon
    <2>5. FreeResult(Relinked(h, h.head, m), h, at, s) BY <1>h, <2>4, RelinkedIs, Zenon
    <2> QED BY <1>4, <1>b, <2>5, Zenon DEF m
  <1>5. CASE before = {} /\ after # {}
    <2> DEFINE m == Moved(h.blk, n, at, s + h.blk[n].size)
               k == IF h.blk[n].prev = Null THEN at ELSE h.head
    <2>1. n \in DOMAIN h.blk /\ n = at + s /\ \A b \in DOMAIN h.blk : b + h.blk[b].size # at
      BY <1>5, <1>p3, <1>n2, Zenon
    <2>2. k \in Nat BY <1>h, Zenon
    <2>4. FreedRight(m, k, h.blk, at, s) BY <1>h, <2>1, FreeBefore, Zenon
    <2> HIDE DEF m, k
    <2>5. FreeResult(Relinked(h, k, m), h, at, s) BY <2>2, <2>4, RelinkedIs, Zenon
    <2> QED BY <1>5, <1>c, <2>5, Zenon DEF m, k
  <1>6. CASE before = {} /\ after = {} /\ lower = {}
    <2> DEFINE m == Inserted(h.blk, at, Null, h.head, s)
               k == IF Null = Null THEN at ELSE h.head
    <2>1. at + s \notin DOMAIN h.blk /\ \A b \in DOMAIN h.blk : b + h.blk[b].size # at
      BY <1>6, <1>p3, <1>n3, Zenon
    <2>2. \A c \in DOMAIN h.blk : at < c BY <1>6, <1>l, <1>1, <1>2
    <2>3. Pointers(DOMAIN h.blk, at, Null, h.head)
      <3>1. \A c \in DOMAIN h.blk : at <= c BY <2>2, <1>1
      <3>2. h.head = Null => DOMAIN h.blk = {} BY Zenon DEF Sorted
      <3>3. h.head # Null => h.head \in DOMAIN h.blk /\ \A c \in DOMAIN h.blk : h.head <= c
        BY Zenon DEF Sorted
      <3> QED BY <2>2, <3>1, <3>2, <3>3, Zenon DEF Pointers
    <2>4. Null \in Nat BY Zenon DEF Null
    <2>5. FreedRight(m, k, h.blk, at, s) BY <1>h, <2>1, <2>3, <2>4, FreeAlone, Zenon
    <2>6. k = at BY Zenon
    <2> HIDE DEF m, k
    <2>7. FreeResult(Relinked(h, at, m), h, at, s) BY <1>t, <2>5, <2>6, RelinkedIs, Zenon
    <2> QED BY <1>6, <1>d, <2>7, Zenon DEF m
  <1>7. CASE before = {} /\ after = {} /\ lower # {}
    <2> DEFINE x == h.blk[closest].next
               m == Inserted(h.blk, at, closest, x, s)
               k == IF closest = Null THEN at ELSE h.head
    <2>1. at + s \notin DOMAIN h.blk /\ \A b \in DOMAIN h.blk : b + h.blk[b].size # at
      BY <1>7, <1>p3, <1>n3, Zenon
    <2>2. /\ closest \in DOMAIN h.blk /\ closest < at
          /\ \A c \in DOMAIN h.blk : c < at => c <= closest
      BY <1>7, <1>m, Zenon
    <2>3. closest \in Nat /\ closest # 0 /\ x \in Nat BY <2>2, <1>1, Zenon
    <2>4. Pointers(DOMAIN h.blk, at, closest, x)
      <3>1. \A c \in DOMAIN h.blk : c <= closest \/ at <= c BY <1>1, <2>2, <2>3
      <3>2. x = 0 => \A c \in DOMAIN h.blk : c <= closest BY <2>2, SortedFacts, Zenon
      <3>3. x # 0 => x \in DOMAIN h.blk /\ closest < x /\ \A c \in DOMAIN h.blk : c <= closest \/ x <= c
        BY <2>2, SortedFacts, Zenon
      <3> HIDE DEF x
      <3>4. x = 0 => \A c \in DOMAIN h.blk : c <= at BY <3>2, <2>2, <2>3, <1>1
      <3>5. x # 0 => at < x BY <3>3, <2>2, <2>3, <1>1, <1>2, SMTT(30)
      <3>6. x # 0 => \A c \in DOMAIN h.blk : c <= at \/ x <= c BY <3>3, <2>2, <2>3, <1>1
      <3> QED BY <2>2, <2>3, <3>1, <3>3, <3>4, <3>5, <3>6, Zenon DEF Pointers, Null
    <2>5. FreedRight(m, k, h.blk, at, s)
      <3> HIDE DEF x
      <3> QED BY <1>h, <2>1, <2>3, <2>4, FreeAlone, Zenon
    <2>6. k = h.head BY <2>3, Zenon DEF Null
    <2> HIDE DEF m, k
    <2>7. FreeResult(Relinked(h, h.head, m), h, at, s) BY <1>h, <2>5, <2>6, RelinkedIs, Zenon
    <2> QED BY <1>7, <1>e, <2>7, Zenon DEF m
  <1> QED BY <1>3, <1>4, <1>5, <1>6, <1>7, Zenon
-------------------------------------------------------------------------------
(***************************************************************************)
(* The cut of alloc.                                                       *)
(***************************************************************************)
\* What alloc cuts out is gone from the units of the list, and was in them.
CoversLess(m, blk, at, s) ==
    \A u \in Nat : Covers(m, u) <=> Covers(blk, u) /\ ~(at <= u /\ u < at + s)
CutRight(m, hd, blk, at, s) ==
    /\ m \in Blk /\ Sorted(m, hd)
    /\ UnitsOf(m) = UnitsOf(blk) \ (at .. at + s - 1)
    /\ at .. at + s - 1 \subseteq UnitsOf(blk)
CutResult(f, h, at, s) ==
    /\ f \in HeapType /\ SameRest(f, h)
    /\ CutRight(f.blk, f.head, h.blk, at, s)

\* A list that covers all but a range has the other units.
LEMMA LessUnits ==
    ASSUME NEW m \in Blk, NEW blk \in Blk, NEW at \in Nat, NEW s \in Nat,
           CoversLess(m, blk, at, s)
    PROVE  UnitsOf(m) = UnitsOf(blk) \ (at .. at + s - 1)
  <1>1. UnitsOf(m) \subseteq Nat /\ UnitsOf(blk) \subseteq Nat BY UnitsIn, Zenon
  <1>2. \A u \in Nat : u \in UnitsOf(m) <=> u \in UnitsOf(blk) /\ ~(at <= u /\ u < at + s)
    BY UnitsIn, Zenon DEF CoversLess, Covers
  <1>4. \A u \in Nat : u \in at .. at + s - 1 <=> at <= u /\ u < at + s OBVIOUS
  <1> QED BY <1>1, <1>2, <1>4, Zenon

\* As RelinkedIs, for Cut.
LEMMA RelinkedCut ==
    ASSUME NEW h \in HeapType, NEW at, NEW s, NEW k \in Nat, NEW m,
           CutRight(m, k, h.blk, at, s)
    PROVE  CutResult(Relinked(h, k, m), h, at, s)
  <1>1. m \in Blk BY Zenon DEF CutRight
  <1> DEFINE f == [h EXCEPT !.head = k, !.blk = m]
  <1>2. f \in HeapType /\ f.head = k /\ f.blk = m /\ SameRest(f, h) BY <1>1, HeapExcept, Zenon
  <1>3. Relinked(h, k, m) = f BY Zenon DEF Relinked
  <1> HIDE DEF f
  <1> QED BY <1>2, <1>3, Zenon DEF CutResult

\* The beginning of a free block is free.
LEMMA PartOfBlock ==
    ASSUME NEW blk \in Blk, NEW b \in DOMAIN blk, NEW s \in Nat, s <= blk[b].size
    PROVE  b .. b + s - 1 \subseteq UnitsOf(blk)
  <1>1. blk \in [DOMAIN blk -> Rec] /\ DOMAIN blk \subseteq Nat \ {0} BY BlkIs, Zenon
  <1>2. b \in Nat /\ blk[b].size \in Nat BY <1>1, Zenon DEF Rec
  <1>3. b .. b + s - 1 \subseteq b .. b + blk[b].size - 1 BY <1>2
  <1> QED BY <1>3, Zenon DEF UnitsOf

\* alloc from a block with room for another header: the rest stays free.
LEMMA CutRest ==
    ASSUME NEW blk, NEW head, Sorted(blk, head), NEW b \in DOMAIN blk,
           NEW s \in Nat, s > 0, s + INFO <= blk[b].size
    PROVE  CutRight(Moved(blk, b, b + s, blk[b].size - s),
                    IF blk[b].prev = Null THEN b + s ELSE head, blk, b, s)
  <1> DEFINE at == b + s
             z == blk[b].size - s
             m == Moved(blk, b, at, z)
             k == IF blk[b].prev = Null THEN at ELSE head
  <1>1. /\ blk \in Blk /\ DOMAIN blk \subseteq Nat \ {0}
        /\ \A c \in DOMAIN blk : blk[c].size \in Nat /\ blk[c].size >= INFO
        /\ \A c, d \in DOMAIN blk : c < d => c + blk[c].size < d
    BY SortedFacts, Zenon
  <1>2. b \in Nat /\ b # 0 /\ blk[b].size \in Nat BY <1>1, Zenon
  <1>3. at \in Nat \ {0} /\ z \in Nat /\ z >= INFO /\ at + z = b + blk[b].size /\ b < at /\ at < b + blk[b].size
    BY <1>2 DEF INFO
  <1>4. at \notin DOMAIN blk BY <1>1, <1>2, <1>3
  <1>5. \A c \in DOMAIN blk : c < b => c + blk[c].size < at
    <2> TAKE c \in DOMAIN blk
    <2> HAVE c < b
    <2>1. c + blk[c].size < b /\ c \in Nat /\ blk[c].size \in Nat BY <1>1, Zenon
    <2> QED BY <2>1, <1>2, <1>3
  <1>6. \A c \in DOMAIN blk : b < c => at + z < c BY <1>1, <1>3, Zenon
  <1>a. m = Moved(blk, b, at, z) /\ k = IF blk[b].prev = Null THEN at ELSE head BY Zenon
  <1> HIDE DEF m, k, at, z
  <1>7. IsReplaced(m, k, blk, b, at, z) BY <1>a, <1>3, <1>4, <1>5, <1>6, MovedSorted, Zenon
  <1>8. /\ Sorted(m, k)
        /\ DOMAIN m = (DOMAIN blk \ {b}) \cup {at}
        /\ m[at].size = z
        /\ \A c \in DOMAIN blk \ {b} : m[c].size = blk[c].size
    BY <1>7, Zenon DEF IsReplaced
  <1>9. m \in Blk BY <1>8, Zenon DEF Sorted
  <1>d. at = b + s BY Zenon DEF at
  <1>10. ASSUME NEW u \in Nat, NEW c \in DOMAIN m, c <= u, u < c + m[c].size
         PROVE  Covers(blk, u) /\ ~(b <= u /\ u < b + s)
    <2>1. CASE c = at
      <3>1. b <= u /\ u < b + blk[b].size BY <2>1, <1>10, <1>8, <1>3, <1>2
      <3>2. ~(u < b + s) BY <2>1, <1>10, <1>d, <1>2
      <3> QED BY <3>1, <3>2, Zenon DEF Covers
    <2>2. CASE c # at
      <3>1. c \in DOMAIN blk /\ c # b /\ m[c].size = blk[c].size BY <2>2, <1>10, <1>8, Zenon
      <3>2. c \in Nat /\ blk[c].size \in Nat BY <3>1, <1>1, Zenon
      <3>3. c < b => c + blk[c].size < b BY <3>1, <1>1, Zenon
      <3>4. b < c => at + z < c BY <3>1, <1>6, Zenon
      <3>5. ~(b <= u /\ u < b + s) BY <1>10, <1>2, <1>3, <1>d, <3>1, <3>2, <3>3, <3>4
      <3>6. c <= u /\ u < c + blk[c].size BY <1>10, <3>1, Zenon
      <3> QED BY <3>1, <3>5, <3>6, Zenon DEF Covers
    <2> QED BY <2>1, <2>2, Zenon
  <1>11. ASSUME NEW u \in Nat, NEW c \in DOMAIN blk, c <= u, u < c + blk[c].size, ~(b <= u /\ u < b + s)
         PROVE  Covers(m, u)
    <2>1. CASE c = b
      <3>1. at \in DOMAIN m /\ at <= u /\ u < at + m[at].size
        BY <2>1, <1>11, <1>8, <1>3, <1>2, <1>d
      <3> QED BY <3>1, Zenon DEF Covers
    <2>2. CASE c # b
      <3>1. c \in DOMAIN m /\ m[c].size = blk[c].size BY <2>2, <1>11, <1>8, Zenon
      <3> QED BY <3>1, <1>11, Zenon DEF Covers
    <2> QED BY <2>1, <2>2, Zenon
  <1>12. CoversLess(m, blk, b, s)
    BY <1>10, <1>11, Zenon DEF CoversLess, Covers
  <1>13. UnitsOf(m) = UnitsOf(blk) \ (b .. b + s - 1) BY <1>1, <1>2, <1>9, <1>12, LessUnits
  <1>14. s <= blk[b].size BY <1>2 DEF INFO
  <1>15. b .. b + s - 1 \subseteq UnitsOf(blk) BY <1>1, <1>14, PartOfBlock, Zenon
  <1>16. CutRight(m, k, blk, b, s) BY <1>8, <1>9, <1>13, <1>15, Zenon DEF CutRight
  <1> QED BY <1>16, Zenon DEF m, k, at, z

\* alloc of a whole block unlinks it.
LEMMA CutAll ==
    ASSUME NEW blk, NEW head, Sorted(blk, head), NEW b \in DOMAIN blk
    PROVE  CutRight(Removed(blk, b),
                    IF blk[b].prev = Null THEN blk[b].next ELSE head, blk, b, blk[b].size)
  <1> DEFINE m == Removed(blk, b)
             k == IF blk[b].prev = Null THEN blk[b].next ELSE head
  <1>1. /\ blk \in Blk /\ DOMAIN blk \subseteq Nat \ {0}
        /\ \A c \in DOMAIN blk : blk[c].size \in Nat /\ blk[c].size >= INFO
        /\ \A c, d \in DOMAIN blk : c < d => c + blk[c].size < d
    BY SortedFacts, Zenon
  <1>2. b \in Nat /\ b # 0 /\ blk[b].size \in Nat /\ blk[b].size >= INFO BY <1>1, Zenon
  <1>3. IsRemoved(m, blk, b, b, blk[b].size) BY <1>1, RemovedIs, Zenon
  <1>4. \A c \in DOMAIN blk \ {b} : b < c => b + blk[b].size < c BY <1>1, Zenon
  <1>5. Sorted(m, k)
    <2> HIDE DEF m
    <2> QED BY <1>2, <1>3, <1>4, RemovedSorted, Zenon
  <1> HIDE DEF m, k
  <1>8. /\ m \in Blk /\ DOMAIN m = DOMAIN blk \ {b}
        /\ \A c \in DOMAIN blk \ {b} : m[c].size = blk[c].size
    BY <1>3, Zenon DEF IsRemoved
  <1>10. ASSUME NEW u \in Nat, NEW c \in DOMAIN m, c <= u, u < c + m[c].size
         PROVE  Covers(blk, u) /\ ~(b <= u /\ u < b + blk[b].size)
    <2>1. c \in DOMAIN blk /\ c # b /\ m[c].size = blk[c].size BY <1>10, <1>8, Zenon
    <2>2. c \in Nat /\ blk[c].size \in Nat BY <2>1, <1>1, Zenon
    <2>3. c < b => c + blk[c].size < b BY <2>1, <1>1, Zenon
    <2>4. b < c => b + blk[b].size < c BY <2>1, <1>1, Zenon
    <2>5. ~(b <= u /\ u < b + blk[b].size) BY <1>10, <1>2, <2>1, <2>2, <2>3, <2>4
    <2>6. c <= u /\ u < c + blk[c].size BY <1>10, <2>1, Zenon
    <2> QED BY <2>1, <2>5, <2>6, Zenon DEF Covers
  <1>11. ASSUME NEW u \in Nat, NEW c \in DOMAIN blk, c <= u, u < c + blk[c].size, ~(b <= u /\ u < b + blk[b].size)
         PROVE  Covers(m, u)
    <2>1. c # b BY <1>11, Zenon
    <2>2. c \in DOMAIN m /\ m[c].size = blk[c].size BY <2>1, <1>11, <1>8, Zenon
    <2> QED BY <2>2, <1>11, Zenon DEF Covers
  <1>12. CoversLess(m, blk, b, blk[b].size)
    BY <1>10, <1>11, Zenon DEF CoversLess, Covers
  <1>13. UnitsOf(m) = UnitsOf(blk) \ (b .. b + blk[b].size - 1)
    BY <1>1, <1>2, <1>8, <1>12, LessUnits
  <1>14. blk[b].size <= blk[b].size BY <1>2
  <1>15. b .. b + blk[b].size - 1 \subseteq UnitsOf(blk)
    BY <1>1, <1>2, <1>14, PartOfBlock, Zenon
  <1>16. CutRight(m, k, blk, b, blk[b].size) BY <1>5, <1>8, <1>13, <1>15, Zenon DEF CutRight
  <1> QED BY <1>16, Zenon DEF m, k

\* Cut takes what Taken says off the free units, at least what was asked for and no
\* more than the block has.
LEMMA CutBlock ==
    ASSUME NEW h \in HeapType, Sorted(h.blk, h.head), NEW b \in DOMAIN h.blk,
           NEW s \in Nat, s > 0, s <= h.blk[b].size
    PROVE  /\ CutResult(Cut(h, b, s), h, b, Taken(h, b, s))
           /\ Taken(h, b, s) \in Nat /\ Taken(h, b, s) >= s
           /\ Taken(h, b, s) <= h.blk[b].size
  <1>1. /\ DOMAIN h.blk \subseteq Nat \ {0}
        /\ \A c \in DOMAIN h.blk : h.blk[c].size \in Nat /\ h.blk[c].next \in Nat
    BY SortedFacts, Zenon
  <1>2. b \in Nat /\ h.blk[b].size \in Nat /\ h.blk[b].next \in Nat /\ h.head \in Nat
    BY <1>1, Zenon DEF HeapType
  <1>3. CASE h.blk[b].size > s + 1
    <2> DEFINE m == Moved(h.blk, b, b + s, h.blk[b].size - s)
               k == IF h.blk[b].prev = Null THEN b + s ELSE h.head
    <2>1. s + INFO <= h.blk[b].size BY <1>2, <1>3 DEF INFO
    <2>2. CutRight(m, k, h.blk, b, s) BY <2>1, CutRest, Zenon
    <2>3. k \in Nat BY <1>2
    <2>4. Cut(h, b, s) = Relinked(h, k, m) /\ Taken(h, b, s) = s
      BY <1>3, Zenon DEF Cut, Taken, LeavesRest
    <2> HIDE DEF m, k
    <2>5. CutResult(Relinked(h, k, m), h, b, s) BY <2>2, <2>3, RelinkedCut, Zenon
    <2> QED BY <2>4, <2>5
  <1>4. CASE ~(h.blk[b].size > s + 1)
    <2> DEFINE m == Removed(h.blk, b)
               k == IF h.blk[b].prev = Null THEN h.blk[b].next ELSE h.head
    <2>2. CutRight(m, k, h.blk, b, h.blk[b].size) BY CutAll, Zenon
    <2>3. k \in Nat BY <1>2, Zenon
    <2>4. Cut(h, b, s) = Relinked(h, k, m) /\ Taken(h, b, s) = h.blk[b].size
      BY <1>4, Zenon DEF Cut, Taken, LeavesRest
    <2> HIDE DEF m, k
    <2>5. CutResult(Relinked(h, k, m), h, b, h.blk[b].size) BY <2>2, <2>3, RelinkedCut, Zenon
    <2> QED BY <2>4, <2>5, <1>2
  <1> QED BY <1>3, <1>4, Zenon
-------------------------------------------------------------------------------
(***************************************************************************)
(* The sizes that alloc computes.                                          *)
(***************************************************************************)
\* Division rounds down.
LEMMA DivIs ==
    ASSUME NEW x \in Nat, NEW a \in Nat \ {0}
    PROVE  x \div a \in Nat /\ (x \div a) * a <= x /\ x < (x \div a) * a + a
  <1>1. x \div a \in Nat OBVIOUS
  <1>2. x = a * (x \div a) + (x % a) OBVIOUS
  <1>3. x % a \in 0 .. a - 1 OBVIOUS
  <1> QED BY <1>1, <1>2, <1>3

\* A multiple of a is divided by a.
LEMMA MultipleOf ==
    ASSUME NEW k \in Nat, NEW a \in Nat \ {0}
    PROVE  (k * a) % a = 0 /\ (k * a) \div a = k
  <1>1. (k * a) \div a = k OBVIOUS
  <1>2. (k * a) % a = 0 OBVIOUS
  <1> QED BY <1>1, <1>2, Zenon

\* align_up gives the next multiple.
LEMMA AlignUp ==
    ASSUME NEW x \in Nat, NEW a \in Nat \ {0}
    PROVE  /\ align_up(x, a) \in Nat /\ x <= align_up(x, a) /\ align_up(x, a) < x + a
           /\ \E k \in Nat : align_up(x, a) = k * a
  <1> DEFINE k == (x + a - 1) \div a
  <1>1. x + a - 1 \in Nat OBVIOUS
  <1>2. k \in Nat /\ k * a <= x + a - 1 /\ x + a - 1 < k * a + a BY <1>1, DivIs, Zenon
  <1>3. align_up(x, a) = k * a BY Zenon DEF align_up
  <1> HIDE DEF k
  <1>4. k * a \in Nat BY <1>2
  <1>5. x <= k * a /\ k * a < x + a BY <1>2, <1>4
  <1> QED BY <1>2, <1>3, <1>4, <1>5, Zenon

\* The offset that alloc computes leaves room for the header and aligns the pointer,
\* and the allocation has room for the offset and the memory, for every alignment.
LEMMA Offset ==
    ASSUME NEW b \in Nat, NEW l, l.size \in Nat \ {0}, l.align \in Nat \ {0}
    PROVE  /\ allocated_block_offset(b, l) \in Nat
           /\ allocated_block_offset(b, l) >= INFO
           /\ (b + allocated_block_offset(b, l)) % l.align = 0
           /\ RequestedSize(l) \in Nat /\ RequestedSize(l) > 0
           /\ AllocationSize(b, l) \in Nat
           /\ AllocationSize(b, l) >= allocated_block_offset(b, l) + l.size
  <1> DEFINE a == l.align
             up == align_up(b, a)
             possible == up - b
             off == allocated_block_offset(b, l)
             from == block_offset_from_header(l)
             req == RequestedSize(l)
  <1>1. a \in Nat \ {0} BY Zenon
  <1>2. up \in Nat /\ b <= up /\ up < b + a BY <1>1, AlignUp, Zenon
  <1>3. PICK k \in Nat : up = k * a BY <1>1, AlignUp, Zenon
  <1>4. off = IF possible < INFO THEN possible + max(INFO, a) ELSE possible
    BY Zenon DEF allocated_block_offset
  <1>i. INFO \in Nat BY Zenon DEF INFO
  <1>5. from \in Nat /\ from >= INFO
    <2>1. from \in Nat /\ INFO <= from
      BY <1>1, <1>i, AlignUp, Zenon DEF block_offset_from_header
    <2> QED BY <2>1, <1>i, Zenon
  <1>s. from + l.size \in Nat
    <2> HIDE DEF from
    <2> QED BY <1>5
  <1>6. req \in Nat /\ req >= from + l.size
    <2>1. req = align_up(from + l.size, a) BY Zenon DEF RequestedSize
    <2> HIDE DEF from, req
    <2> QED BY <2>1, <1>1, <1>s, AlignUp, Zenon
  <1>7. AllocationSize(b, l) = req + IF off > from THEN off - from ELSE 0 BY Zenon DEF AllocationSize
  <1> HIDE DEF up, off, from, req, a
  <1>8. off \in Nat /\ off >= INFO BY <1>1, <1>2, <1>4 DEF max, INFO
  <1>9. (b + off) % a = 0
    <2>1. CASE ~(possible < INFO)
      <3>1. b + off = k * a BY <2>1, <1>1, <1>2, <1>3, <1>4
      <3> QED BY <3>1, <1>1, MultipleOf, Zenon
    <2>2. CASE possible < INFO /\ a > 1
      <3>1. off = possible + a BY <2>2, <1>1, <1>4 DEF max, INFO
      <3>2. b + off = k * a + a BY <3>1, <1>1, <1>2, <1>3
      <3>3. b + off = (k + 1) * a BY <3>2, <1>1
      <3>4. k + 1 \in Nat BY <1>3
      <3> QED BY <3>3, <3>4, <1>1, MultipleOf, ZenonT(30)
    <2>3. CASE a = 1
      <3>1. b + off \in Nat BY <1>8
      <3> HIDE DEF possible
      <3>2. b + off = (b + off) * 1 BY <3>1
      <3> QED BY <2>3, <3>1, <3>2, MultipleOf
    <2> QED BY <2>1, <2>2, <2>3, <1>1
  <1>10. req + (IF off > from THEN off - from ELSE 0) \in Nat /\ req + (IF off > from THEN off - from ELSE 0) >= off + l.size
    BY <1>5, <1>6, <1>8
  <1>11. req > 0 BY <1>5, <1>6 DEF INFO
  <1> QED BY <1>6, <1>7, <1>8, <1>9, <1>10, <1>11, Zenon DEF off, a, req
-------------------------------------------------------------------------------
(***************************************************************************)
(* get_free_block and allocate_more_pages.                                 *)
(***************************************************************************)
\* get_free_block takes a free block when one fits.
LEMMA BestIs ==
    ASSUME NEW h \in HeapType, NEW size, Fits(h, size) # {}
    PROVE  Best(h, size) \in DOMAIN h.blk
  <1>1. h.blk \in [DOMAIN h.blk -> Rec] /\ DOMAIN h.blk \subseteq Nat \ {0}
    BY BlkIs, Zenon DEF HeapType
  <1> DEFINE F == Fits(h, size)
             S == {h.blk[b].size : b \in F}
             best == {b \in F : \A c \in F : h.blk[b].size <= h.blk[c].size}
  <1>2. F \subseteq DOMAIN h.blk BY Zenon DEF Fits, Free
  <1>3. \A b \in F : h.blk[b].size \in Nat BY <1>1, <1>2, Zenon DEF Rec
  <1>4. Best(h, size) = Min(best) BY Zenon DEF Best
  <1>5. F # {} BY Zenon
  <1> HIDE DEF F
  <1>6. S \subseteq Nat BY <1>3, Zenon
  <1>7. S # {} BY <1>5, Zenon
  <1>8. PICK x \in S : \A y \in S : x <= y
    <2> HIDE DEF S
    <2> QED BY <1>6, <1>7, Least, Zenon
  <1>9. PICK b \in F : x = h.blk[b].size BY <1>8, Zenon
  <1>10. b \in best BY <1>8, <1>9, Zenon
  <1>11. best \subseteq Nat BY <1>1, <1>2, Zenon
  <1>12. best \subseteq F BY Zenon
  <1> HIDE DEF best
  <1>13. Min(best) \in best BY <1>10, <1>11, LeastMin, Zenon
  <1> QED BY <1>2, <1>4, <1>12, <1>13, Zenon

\* A range of free units lies in a single free block, neighbours being merged.
LEMMA Contiguous ==
    ASSUME NEW blk, NEW head, Sorted(blk, head), NEW at \in Nat, NEW s \in Nat, s > 0,
           at .. at + s - 1 \subseteq UnitsOf(blk)
    PROVE  \E b \in DOMAIN blk : b <= at /\ at + s <= b + blk[b].size
  <1>1. /\ blk \in Blk /\ DOMAIN blk \subseteq Nat \ {0}
        /\ \A c \in DOMAIN blk : blk[c].size \in Nat
        /\ \A c, d \in DOMAIN blk : c < d => c + blk[c].size < d
    BY SortedFacts, Zenon
  <1>2. at \in UnitsOf(blk)
    <2>1. at \in at .. at + s - 1 OBVIOUS
    <2> QED BY <2>1, Zenon
  <1>3. PICK b \in DOMAIN blk : b <= at /\ at < b + blk[b].size BY <1>1, <1>2, UnitsIn, Zenon
  <1>4. b \in Nat /\ blk[b].size \in Nat BY <1>1, Zenon
  <1>5. ASSUME b + blk[b].size < at + s PROVE FALSE
    <2> DEFINE u == b + blk[b].size
    <2>1. u \in Nat /\ u \in at .. at + s - 1 BY <1>3, <1>4, <1>5
    <2>2. u \in UnitsOf(blk) BY <2>1, Zenon
    <2> HIDE DEF u
    <2>3. PICK c \in DOMAIN blk : c <= u /\ u < c + blk[c].size BY <1>1, <2>1, <2>2, UnitsIn, Zenon
    <2>4. c \in Nat /\ blk[c].size \in Nat BY <1>1, Zenon
    <2>5. c < b => c + blk[c].size < b BY <1>1, Zenon
    <2>6. b < c => b + blk[b].size < c BY <1>1, Zenon
    <2>7. c = b => FALSE BY <2>3, <1>4 DEF u
    <2> QED BY <1>4, <2>3, <2>4, <2>5, <2>6, <2>7 DEF u
  <1> QED BY <1>3, <1>4, <1>5

\* The heap grew by s free units at its end.
GrowResult(f, h, s) ==
    /\ f \in HeapType
    /\ f.total = h.total + s /\ f.free_size = h.free_size + s /\ f.used_size = h.used_size
    /\ FreedRight(f.blk, f.head, h.blk, End(h), s)

\* The end of the heap is an address, and pages have room for a header.
LEMMA NewPages ==
    ASSUME HeapAssumptions, NEW h \in HeapType, NEW pages \in Nat \ {0}
    PROVE  /\ End(h) \in Nat \ {0} /\ HeapStart \in Nat \ {0}
           /\ pages * PageUnits \in Nat /\ pages * PageUnits >= INFO /\ pages * PageUnits > 0
  <1>1. PageUnits \in Nat /\ PageUnits >= 2 BY DEF HeapAssumptions
  <1>2. h.total \in Nat BY Zenon DEF HeapType
  <1>3. End(h) \in Nat \ {0} /\ HeapStart \in Nat \ {0} BY <1>1, <1>2 DEF End, HeapStart
  <1>4. pages * PageUnits \in Nat /\ pages * PageUnits >= PageUnits BY <1>1
  <1> QED BY <1>1, <1>3, <1>4 DEF INFO

\* allocate_more_pages adds its pages to the free units.
LEMMA MorePages ==
    ASSUME HeapAssumptions, NEW h \in HeapType, Sorted(h.blk, h.head), NEW pages \in Nat \ {0},
           UnitsOf(h.blk) \subseteq HeapStart .. End(h) - 1
    PROVE  GrowResult(allocate_more_pages(h, pages), h, pages * PageUnits)
  <1> DEFINE s == pages * PageUnits
             at == End(h)
             g == [h EXCEPT !.total = @ + s]
             first == [g EXCEPT !.head = at, !.blk = With(@, at, Null, Null, s)]
             more == IF h.head = Null THEN first ELSE free_block(g, at, s)
  <1>1. at \in Nat \ {0} /\ HeapStart \in Nat \ {0} /\ s \in Nat /\ s >= INFO /\ s > 0
    BY NewPages, Zenon
  <1>2. allocate_more_pages(h, pages) = [more EXCEPT !.free_size = @ + s]
    BY Zenon DEF allocate_more_pages
  <1>3. /\ h.total \in Nat /\ h.free_size \in Int /\ h.used_size \in Int /\ h.blk \in Blk /\ h.head \in Nat
    BY Zenon DEF HeapType
  <1>4. Apart(at .. at + s - 1, UnitsOf(h.blk))
    <2> HIDE DEF at, s
    <2>1. HeapStart .. at - 1 \cap at .. at + s - 1 = {} BY <1>1
    <2>2. UnitsOf(h.blk) \subseteq HeapStart .. at - 1 BY Zenon DEF at
    <2> QED BY <2>1, <2>2, Zenon DEF Apart
  <1> HIDE DEF at, s
  <1>5. /\ g \in HeapType /\ g.total = h.total + s /\ g.head = h.head /\ g.blk = h.blk
        /\ g.free_size = h.free_size /\ g.used_size = h.used_size
    BY <1>1, <1>3 DEF HeapType
  <1> HIDE DEF g
  <1>6. /\ more \in HeapType /\ SameRest(more, g)
        /\ FreedRight(more.blk, more.head, h.blk, at, s)
    <2>1. CASE h.head # Null
      <3>1. FreeResult(free_block(g, at, s), g, at, s) BY <1>1, <1>4, <1>5, FreeBlock, Zenon
      <3>2. more = free_block(g, at, s) BY <2>1, Zenon
      <3> HIDE DEF more
      <3> QED BY <3>1, <3>2, <1>5, Zenon DEF FreeResult
    <2>2. CASE h.head = Null
      <3> DEFINE m == With(h.blk, at, Null, Null, s)
      <3>1. DOMAIN h.blk = {} BY <2>2, Zenon DEF Sorted
      <3>2. Inserted(h.blk, at, Null, Null, s) = m BY Zenon DEF Inserted, SetPrev, SetNext
      <3>3. Pointers(DOMAIN h.blk, at, Null, Null) BY <3>1, Zenon DEF Pointers
      <3>4. Null \in Nat BY Zenon DEF Null
      <3>5. at + s \notin DOMAIN h.blk /\ \A b \in DOMAIN h.blk : b + h.blk[b].size # at BY <3>1, Zenon
      <3>6. FreedRight(Inserted(h.blk, at, Null, Null, s), IF Null = Null THEN at ELSE h.head, h.blk, at, s)
        BY <1>1, <1>3, <1>4, <3>3, <3>4, <3>5, FreeAlone, Zenon
      <3>7. FreedRight(m, at, h.blk, at, s) BY <3>2, <3>6, Zenon
      <3> HIDE DEF m
      <3>8. m \in Blk /\ at \in Nat BY <3>7, <1>1, Zenon DEF FreedRight
      <3> DEFINE f == [g EXCEPT !.head = at, !.blk = m]
      <3>9. f \in HeapType /\ f.head = at /\ f.blk = m /\ SameRest(f, g)
        BY <3>8, <1>5, HeapExcept, Zenon
      <3>10. more = f BY <2>2, <1>5, Zenon DEF m
      <3> HIDE DEF f, more
      <3> QED BY <3>7, <3>9, <3>10, Zenon
    <2> QED BY <2>1, <2>2, Zenon
  <1> HIDE DEF more
  <1>7. /\ [more EXCEPT !.free_size = @ + s] \in HeapType
        /\ [more EXCEPT !.free_size = @ + s].total = more.total
        /\ [more EXCEPT !.free_size = @ + s].blk = more.blk
        /\ [more EXCEPT !.free_size = @ + s].head = more.head
        /\ [more EXCEPT !.free_size = @ + s].used_size = more.used_size
        /\ [more EXCEPT !.free_size = @ + s].free_size = more.free_size + s
    BY <1>1, <1>6 DEF HeapType
  <1>8. more.total = h.total + s /\ more.free_size = h.free_size /\ more.used_size = h.used_size
    BY <1>5, <1>6, Zenon DEF SameRest
  <1>9. GrowResult([more EXCEPT !.free_size = @ + s], h, s)
    BY <1>6, <1>7, <1>8, Zenon DEF GrowResult, at
  <1> QED BY <1>2, <1>9, Zenon DEF s

\* A request takes at least one page.
LEMMA PagesIs ==
    ASSUME HeapAssumptions, NEW size \in Nat, size > 0
    PROVE  Pages(size) \in Nat \ {0}
  <1>1. PageUnits \in Nat \ {0} BY Zenon DEF HeapAssumptions
  <1>2. PICK k \in Nat : align_up(size, PageUnits) = k * PageUnits BY <1>1, AlignUp, Zenon
  <1>3. size <= align_up(size, PageUnits) /\ align_up(size, PageUnits) \in Nat
    BY <1>1, AlignUp, Zenon
  <1>4. Pages(size) = k BY <1>1, <1>2, MultipleOf, Zenon DEF Pages
  <1>5. k # 0 BY <1>1, <1>2, <1>3
  <1> QED BY <1>4, <1>5, Zenon

\* The heap grew by s units, possibly none, and b is one of its free blocks.
ChosenRight(g, b, h, s) ==
    /\ g \in HeapType
    /\ g.total = h.total + s /\ g.free_size = h.free_size + s /\ g.used_size = h.used_size
    /\ FreedRight(g.blk, g.head, h.blk, End(h), s)
    /\ b \in DOMAIN g.blk

\* get_free_block returns a free block of the heap it has grown if there was none: the
\* new pages lie in one block that is large enough.
LEMMA Chosen ==
    ASSUME HeapAssumptions, NEW h \in HeapType, Sorted(h.blk, h.head),
           UnitsOf(h.blk) \subseteq HeapStart .. End(h) - 1, NEW size \in Nat, size > 0
    PROVE  \E s \in Nat : ChosenRight(Grown(h, size), get_free_block(h, size), h, s)
  <1>1. CASE MustGrow(h, size)
    <2> DEFINE pages == Pages(size)
               s == pages * PageUnits
               g == allocate_more_pages(h, pages)
    <2>1. pages \in Nat \ {0} BY PagesIs, Zenon
    <2>2. Grown(h, size) = g /\ get_free_block(h, size) = Best(g, s)
      BY <1>1, Zenon DEF Grown, get_free_block
    <2> HIDE DEF pages
    <2>3. GrowResult(g, h, s) BY <2>1, MorePages, Zenon
    <2>4. s \in Nat /\ s > 0 /\ End(h) \in Nat BY <2>1, NewPages, Zenon
    <2> HIDE DEF g, s
    <2>5. g \in HeapType /\ FreedRight(g.blk, g.head, h.blk, End(h), s) BY <2>3, Zenon DEF GrowResult
    <2>6. Sorted(g.blk, g.head) /\ End(h) .. End(h) + s - 1 \subseteq UnitsOf(g.blk)
      BY <2>5, Zenon DEF FreedRight
    <2>7. PICK b \in DOMAIN g.blk : b <= End(h) /\ End(h) + s <= b + g.blk[b].size
      BY <2>4, <2>6, Contiguous, Zenon
    <2>8. b \in Nat /\ g.blk[b].size \in Nat BY <2>6, SortedFacts, Zenon
    <2>9. g.blk[b].size >= s BY <2>4, <2>7, <2>8
    <2>10. Fits(g, s) # {} BY <2>9, Zenon DEF Fits, Free
    <2>11. Best(g, s) \in DOMAIN g.blk BY <2>5, <2>10, BestIs, Zenon
    <2>12. ChosenRight(g, Best(g, s), h, s) BY <2>3, <2>11, Zenon DEF ChosenRight, GrowResult
    <2> QED BY <2>2, <2>4, <2>12, Zenon
  <1>2. CASE ~MustGrow(h, size)
    <2>1. Grown(h, size) = h /\ get_free_block(h, size) = Best(h, size)
      BY <1>2, Zenon DEF Grown, get_free_block
    <2>2. Best(h, size) \in DOMAIN h.blk BY <1>2, BestIs, Zenon DEF MustGrow
    <2>3. /\ h.total \in Nat /\ h.free_size \in Int /\ h.used_size \in Int /\ h.blk \in Blk
      BY Zenon DEF HeapType
    <2>4. FreedRight(h.blk, h.head, h.blk, End(h), 0)
      <3>1. End(h) \in Nat BY NewPages
      <3>2. End(h) .. End(h) + 0 - 1 = {} BY <3>1
      <3> QED BY <2>3, <3>2, Zenon DEF FreedRight
    <2>5. h.total = h.total + 0 /\ h.free_size = h.free_size + 0 BY <2>3
    <2>6. ChosenRight(h, Best(h, size), h, 0) BY <2>2, <2>4, <2>5, Zenon DEF ChosenRight
    <2> QED BY <2>1, <2>6, Zenon
  <1> QED BY <1>1, <1>2, Zenon
-------------------------------------------------------------------------------
(***************************************************************************)
(* The allocated blocks.                                                   *)
(***************************************************************************)
\* The block behind an allocation, the units of all of them, and the header in front
\* of the caller's memory: behind it there is room for what was asked for, aligned.
BlockOf(i, a) == a.ptr - i[a.ptr].pre_padding .. a.ptr - i[a.ptr].pre_padding + i[a.ptr].size - 1
TakenOf(i, L) == UNION {BlockOf(i, a) : a \in L}
Placed(i, a) ==
    /\ a.ptr \in Nat /\ a.layout \in Layouts
    /\ i[a.ptr].size \in Nat /\ i[a.ptr].pre_padding \in Nat
    /\ i[a.ptr].pre_padding >= INFO /\ i[a.ptr].pre_padding < a.ptr
    /\ i[a.ptr].pre_padding + a.layout.size <= i[a.ptr].size
    /\ a.ptr % a.layout.align = 0
\* Every allocation has its header, and no two blocks overlap.
LiveOK(i, L) ==
    /\ DOMAIN i = {a.ptr : a \in L}
    /\ \A a \in L : Placed(i, a)
    /\ \A a, c \in L : a # c => Apart(BlockOf(i, a), BlockOf(i, c))

\* A header was written, or is no longer one.
IsExtended(j, i, x, r) == j = [p \in DOMAIN i \cup {x} |-> IF p = x THEN r ELSE i[p]]
IsDropped(j, i, x) == j = [p \in DOMAIN i \ {x} |-> i[p]]

\* The caller's memory and the header in front of it lie in the block.
LEMMA PlacedIn ==
    ASSUME HeapAssumptions, NEW i, NEW a, Placed(i, a)
    PROVE  /\ a.ptr \in BlockOf(i, a)
           /\ a.ptr - INFO .. a.ptr + a.layout.size - 1 \subseteq BlockOf(i, a)
           /\ i[a.ptr].size >= INFO
           /\ a.ptr - i[a.ptr].pre_padding \in Nat \ {0}
           /\ a.ptr .. a.ptr + a.layout.size - 1 \subseteq BlockOf(i, a)
  <1>1. a.layout.size \in Nat \ {0} BY Zenon DEF HeapAssumptions, Placed
  <1>2. /\ a.ptr \in Nat /\ i[a.ptr].size \in Nat /\ i[a.ptr].pre_padding \in Nat
        /\ i[a.ptr].pre_padding >= INFO /\ i[a.ptr].pre_padding < a.ptr
        /\ i[a.ptr].pre_padding + a.layout.size <= i[a.ptr].size
    BY Zenon DEF Placed
  <1> QED BY <1>1, <1>2, SMTT(30) DEF BlockOf, INFO

\* A block is where its header says.
LEMMA SamePlace ==
    ASSUME NEW i, NEW j, NEW a, j[a.ptr] = i[a.ptr]
    PROVE  (Placed(i, a) => Placed(j, a)) /\ BlockOf(j, a) = BlockOf(i, a)
  BY Zenon DEF Placed, BlockOf

\* One allocation more, with its block.
AddedRight(j, i, L, a) ==
    /\ LiveOK(j, L \cup {a})
    /\ TakenOf(j, L \cup {a}) = TakenOf(i, L) \cup BlockOf(j, a)

\* alloc's block, apart from the others, is added to them.
LEMMA AddLive ==
    ASSUME HeapAssumptions, NEW i, NEW L, LiveOK(i, L), NEW a, NEW j, NEW r,
           IsExtended(j, i, a.ptr, r), Placed(j, a), Apart(BlockOf(j, a), TakenOf(i, L))
    PROVE  AddedRight(j, i, L, a)
  <1>1. \A c \in L : Placed(i, c) BY Zenon DEF LiveOK
  <1>2. \A c \in L : BlockOf(i, c) \subseteq TakenOf(i, L) BY Zenon DEF TakenOf
  <1>3. a.ptr \in BlockOf(j, a) BY PlacedIn, Zenon
  <1>4. ASSUME NEW c \in L PROVE c.ptr # a.ptr /\ j[c.ptr] = i[c.ptr]
    <2>1. c.ptr \in BlockOf(i, c) BY <1>1, PlacedIn, Zenon
    <2>2. c.ptr # a.ptr BY <1>2, <1>3, <2>1, Zenon DEF Apart
    <2>3. c.ptr \in DOMAIN i BY Zenon DEF LiveOK
    <2> QED BY <2>2, <2>3, Zenon DEF IsExtended
  <1>5. \A c \in L : Placed(j, c) /\ BlockOf(j, c) = BlockOf(i, c) BY <1>1, <1>4, SamePlace, Zenon
  <1>6. DOMAIN j = DOMAIN i \cup {a.ptr} BY Zenon DEF IsExtended
  <1>7. DOMAIN j = {c.ptr : c \in L \cup {a}} BY <1>6, Zenon DEF LiveOK
  <1>8. \A c \in L : Apart(BlockOf(j, a), BlockOf(j, c)) /\ Apart(BlockOf(j, c), BlockOf(j, a))
    BY <1>2, <1>5, Zenon DEF Apart
  <1>9. \A c, d \in L : c # d => Apart(BlockOf(j, c), BlockOf(j, d)) BY <1>5, Zenon DEF LiveOK
  <1>10. LiveOK(j, L \cup {a}) BY <1>5, <1>7, <1>8, <1>9, Zenon DEF LiveOK
  <1>11. TakenOf(j, L \cup {a}) = TakenOf(i, L) \cup BlockOf(j, a)
    <2>1. ASSUME NEW u PROVE u \in TakenOf(j, L \cup {a}) <=> u \in TakenOf(i, L) \/ u \in BlockOf(j, a)
      <3>1. u \in TakenOf(j, L \cup {a}) <=> \E c \in L \cup {a} : u \in BlockOf(j, c)
        BY Zenon DEF TakenOf
      <3>2. u \in TakenOf(i, L) <=> \E c \in L : u \in BlockOf(i, c) BY Zenon DEF TakenOf
      <3> QED BY <3>1, <3>2, <1>5, Zenon
    <2> QED BY <2>1, Zenon
  <1> QED BY <1>10, <1>11, Zenon DEF AddedRight

\* dealloc's block is taken from the others, whose headers stay as they are.
LEMMA DropLive ==
    ASSUME HeapAssumptions, NEW i, NEW L, LiveOK(i, L), NEW a \in L, NEW j,
           IsDropped(j, i, a.ptr)
    PROVE  /\ LiveOK(j, L \ {a})
           /\ TakenOf(j, L \ {a}) = TakenOf(i, L) \ BlockOf(i, a)
           /\ BlockOf(i, a) \subseteq TakenOf(i, L)
  <1>1. \A c \in L : Placed(i, c) BY Zenon DEF LiveOK
  <1>2. \A c \in L : BlockOf(i, c) \subseteq TakenOf(i, L) BY Zenon DEF TakenOf
  <1>3. a.ptr \in BlockOf(i, a) BY <1>1, PlacedIn, Zenon
  <1>a. ASSUME NEW c \in L \ {a} PROVE Apart(BlockOf(i, c), BlockOf(i, a)) BY Zenon DEF LiveOK
  <1>4. ASSUME NEW c \in L \ {a} PROVE c.ptr # a.ptr /\ j[c.ptr] = i[c.ptr]
    <2>1. c.ptr \in BlockOf(i, c) BY <1>1, PlacedIn, Zenon
    <2>2. c.ptr # a.ptr BY <1>a, <1>3, <2>1, Zenon DEF Apart
    <2>3. c.ptr \in DOMAIN i BY Zenon DEF LiveOK
    <2> QED BY <2>2, <2>3, Zenon DEF IsDropped
  <1>5. \A c \in L \ {a} : Placed(j, c) /\ BlockOf(j, c) = BlockOf(i, c)
    BY <1>1, <1>4, SamePlace, Zenon
  <1>6. DOMAIN j = DOMAIN i \ {a.ptr} BY Zenon DEF IsDropped
  <1>7. DOMAIN j = {c.ptr : c \in L \ {a}}
    <2>1. DOMAIN i = {c.ptr : c \in L} BY Zenon DEF LiveOK
    <2>2. \A c \in L \ {a} : c.ptr # a.ptr BY <1>4, Zenon
    <2> QED BY <1>6, <2>1, <2>2, Zenon
  <1>9. \A c, d \in L \ {a} : c # d => Apart(BlockOf(j, c), BlockOf(j, d))
    BY <1>5, Zenon DEF LiveOK
  <1>10. LiveOK(j, L \ {a}) BY <1>5, <1>7, <1>9, Zenon DEF LiveOK
  <1>11. TakenOf(j, L \ {a}) = TakenOf(i, L) \ BlockOf(i, a)
    <2>1. ASSUME NEW u PROVE u \in TakenOf(j, L \ {a}) <=> u \in TakenOf(i, L) /\ u \notin BlockOf(i, a)
      <3>1. u \in TakenOf(j, L \ {a}) <=> \E c \in L \ {a} : u \in BlockOf(j, c)
        BY Zenon DEF TakenOf
      <3>2. u \in TakenOf(i, L) <=> \E c \in L : u \in BlockOf(i, c) BY Zenon DEF TakenOf
      <3>3. \A c \in L \ {a} : u \in BlockOf(i, c) => u \notin BlockOf(i, a) BY <1>a, Zenon DEF Apart
      <3> QED BY <3>1, <3>2, <3>3, <1>5, Zenon
    <2> QED BY <2>1, Zenon
  <1> QED BY <1>2, <1>10, <1>11, Zenon
-------------------------------------------------------------------------------
(***************************************************************************)
(* The statistics.                                                         *)
(***************************************************************************)
\* The units of a block.
IsRange(R, at, s) == at \in Nat /\ s \in Nat /\ R = at .. at + s - 1
Within(R, S) == R \subseteq S

\* A block has as many units as its size says.
LEMMA CountRange ==
    ASSUME NEW R, NEW at, NEW s, IsRange(R, at, s)
    PROVE  IsFiniteSet(R) /\ Cardinality(R) = s
  <1> DEFINE x == at + s - 1
  <1>1. at \in Int /\ x \in Int /\ x - at + 1 = s /\ (at > x <=> s = 0) BY DEF IsRange
  <1>2. R = at .. x BY Zenon DEF IsRange
  <1> HIDE DEF x
  <1>3. IsFiniteSet(at .. x) /\ Cardinality(at .. x) = IF at > x THEN 0 ELSE x - at + 1
    BY <1>1, FS_Interval, Zenon
  <1> QED BY <1>1, <1>2, <1>3, Zenon

\* A block that was apart adds its size.
LEMMA CountMore ==
    ASSUME NEW S, IsFiniteSet(S), NEW R, NEW at, NEW s, IsRange(R, at, s), Apart(R, S)
    PROVE  IsFiniteSet(S \cup R) /\ Cardinality(S \cup R) = Cardinality(S) + s
  <1>0. IsFiniteSet(R) /\ Cardinality(R) = s BY CountRange, Zenon
  <1>1. IsFiniteSet(R) /\ Cardinality(R) = s /\ s \in Nat BY <1>0, Zenon DEF IsRange
  <1>3. S \cap R = {} BY Zenon DEF Apart
  <1>4. /\ IsFiniteSet(S \cup R)
        /\ Cardinality(S \cup R) = Cardinality(S) + Cardinality(R) - Cardinality(S \cap R)
    BY <1>1, FS_Union, Zenon
  <1>5. Cardinality(S) \in Nat BY FS_CardinalityType, Zenon
  <1>6. Cardinality(S \cap R) = 0 BY <1>3, FS_EmptySet, Zenon
  <1> QED BY <1>1, <1>4, <1>5, <1>6

\* A block that was inside takes its size away.
LEMMA CountLess ==
    ASSUME NEW S, IsFiniteSet(S), NEW R, NEW at, NEW s, IsRange(R, at, s), Within(R, S)
    PROVE  Cardinality(S \ R) = Cardinality(S) - s
  <1>1. IsFiniteSet(R) /\ Cardinality(R) = s BY CountRange, Zenon
  <1>3. S \cap R = R BY Zenon DEF Within
  <1>4. Cardinality(S \ R) = Cardinality(S) - Cardinality(S \cap R) BY FS_Difference, Zenon
  <1> QED BY <1>1, <1>3, <1>4, Zenon
-------------------------------------------------------------------------------
(***************************************************************************)
(* alloc and dealloc.                                                      *)
(***************************************************************************)
\* Free and allocated units are the heap, and apart.
Tiles(F, T, e) == F \cup T = HeapStart .. e - 1 /\ Apart(F, T)
\* A right heap: the free list is sorted, the allocations have their blocks, both tile
\* the heap, and the statistics count them.
HeapOK(h, i, L) ==
    /\ h \in HeapType /\ h.total <= MaxPages * PageUnits
    /\ Sorted(h.blk, h.head)
    /\ LiveOK(i, L)
    /\ Tiles(UnitsOf(h.blk), TakenOf(i, L), End(h))
    /\ h.free_size = Cardinality(UnitsOf(h.blk))
    /\ h.used_size = Cardinality(TakenOf(i, L))

\* Both are finite parts of the heap.
LEMMA FiniteParts ==
    ASSUME HeapAssumptions, NEW h \in HeapType, NEW F, NEW T, Tiles(F, T, End(h))
    PROVE  IsFiniteSet(F) /\ IsFiniteSet(T) /\ F \subseteq HeapStart .. End(h) - 1
           /\ T \subseteq HeapStart .. End(h) - 1
  <1>1. HeapStart \in Int /\ End(h) - 1 \in Int BY DEF HeapAssumptions, HeapType, HeapStart, End
  <1>2. IsFiniteSet(HeapStart .. End(h) - 1) BY <1>1, FS_Interval, Zenon
  <1>3. F \subseteq HeapStart .. End(h) - 1 /\ T \subseteq HeapStart .. End(h) - 1 BY Zenon DEF Tiles
  <1>4. F \in SUBSET (HeapStart .. End(h) - 1) /\ T \in SUBSET (HeapStart .. End(h) - 1) BY <1>3, Zenon
  <1> QED BY <1>2, <1>3, <1>4, FS_Subset, Zenon

\* The new pages N join the free units F, and R goes from them to the allocated T.
TilesCut(F, T, N, R, e, s, t) ==
    /\ Tiles((F \cup N) \ R, T \cup R, e + s)
    /\ Apart(R, T)
    /\ Cardinality((F \cup N) \ R) = Cardinality(F) + s - t
    /\ Cardinality(T \cup R) = Cardinality(T) + t

\* After alloc they still tile the heap, and their sizes changed as Account says.
LEMMA TileCut ==
    ASSUME HeapAssumptions, NEW h \in HeapType, NEW F, NEW T, Tiles(F, T, End(h)),
           NEW s, NEW N, IsRange(N, End(h), s),
           NEW b, NEW t, NEW R, IsRange(R, b, t), Within(R, F \cup N)
    PROVE  TilesCut(F, T, N, R, End(h), s, t)
  <1> DEFINE e == End(h)
  <1>1. e \in Nat /\ HeapStart \in Nat /\ HeapStart <= e
    BY DEF HeapAssumptions, HeapType, HeapStart, End
  <1>2. IsFiniteSet(F) /\ IsFiniteSet(T) /\ F \subseteq HeapStart .. e - 1 /\ T \subseteq HeapStart .. e - 1
    BY FiniteParts, Zenon
  <1>3. F \cup T = HeapStart .. e - 1 /\ F \cap T = {} BY Zenon DEF Tiles, Apart
  <1>a. R \subseteq F \cup N BY Zenon DEF Within
  <1>n. N = e .. e + s - 1 /\ s \in Nat /\ t \in Nat BY Zenon DEF IsRange
  <1> HIDE DEF e
  <1> DEFINE U == HeapStart .. e - 1
             V == HeapStart .. (e + s) - 1
  <1>4. \A u \in U : u \notin N BY <1>1, <1>n
  <1>5. \A u : u \in V <=> u \in U \/ u \in N BY <1>1, <1>n
  <1> HIDE DEF U, V
  <1>b. F \subseteq U /\ T \subseteq U BY <1>2, Zenon DEF U
  <1>6. N \cap F = {} /\ N \cap T = {} BY <1>b, <1>4, Zenon
  <1>8. IsFiniteSet(F \cup N) /\ Cardinality(F \cup N) = Cardinality(F) + s
    <2>1. Apart(N, F) BY <1>6, Zenon DEF Apart
    <2> QED BY <1>2, <2>1, CountMore, Zenon
  <1>10. Cardinality((F \cup N) \ R) = Cardinality(F \cup N) - t BY <1>8, CountLess, ZenonT(30)
  <1>11. Cardinality(F) \in Nat /\ Cardinality(T) \in Nat BY <1>2, FS_CardinalityType, Zenon
  <1>12. R \cap T = {} BY <1>a, <1>3, <1>6, Zenon
  <1>18. Apart(R, T) BY <1>12, Zenon DEF Apart
  <1>13. Cardinality(T \cup R) = Cardinality(T) + t BY <1>2, <1>18, CountMore, Zenon
  <1>14. ((F \cup N) \ R) \cup (T \cup R) = V BY <1>a, <1>3, <1>5, Zenon DEF U
  <1>15. ((F \cup N) \ R) \cap (T \cup R) = {} BY <1>3, <1>6, Zenon
  <1>16. Tiles((F \cup N) \ R, T \cup R, e + s) BY <1>14, <1>15, Zenon DEF Tiles, Apart, V
  <1>17. Cardinality((F \cup N) \ R) = Cardinality(F) + s - t BY <1>8, <1>10, <1>11, <1>n
  <1> QED BY <1>13, <1>16, <1>17, <1>18, Zenon DEF e, TilesCut

\* The same for dealloc, where R goes back.
LEMMA TileFree ==
    ASSUME HeapAssumptions, NEW h \in HeapType, NEW F, NEW T, Tiles(F, T, End(h)),
           NEW b, NEW t, NEW R, IsRange(R, b, t), Within(R, T)
    PROVE  /\ Tiles(F \cup R, T \ R, End(h))
           /\ Apart(R, F)
           /\ Cardinality(F \cup R) = Cardinality(F) + t
           /\ Cardinality(T \ R) = Cardinality(T) - t
  <1>2. IsFiniteSet(F) /\ IsFiniteSet(T) BY FiniteParts, Zenon
  <1>3. F \cup T = HeapStart .. End(h) - 1 /\ F \cap T = {} BY Zenon DEF Tiles, Apart
  <1>a. R \subseteq T BY Zenon DEF Within
  <1>4. R \cap F = {} BY <1>a, <1>3, Zenon
  <1>10. Apart(R, F) BY <1>4, Zenon DEF Apart
  <1>5. Cardinality(F \cup R) = Cardinality(F) + t BY <1>2, <1>10, CountMore, Zenon
  <1>6. Cardinality(T \ R) = Cardinality(T) - t BY <1>2, CountLess, Zenon
  <1>7. (F \cup R) \cup (T \ R) = HeapStart .. End(h) - 1 BY <1>a, <1>3, Zenon
  <1>8. (F \cup R) \cap (T \ R) = {} BY <1>3, Zenon
  <1>9. Tiles(F \cup R, T \ R, End(h)) BY <1>7, <1>8, Zenon DEF Tiles, Apart
  <1> QED BY <1>5, <1>6, <1>9, <1>10, Zenon

\* Only the statistics changed; and what they are then.
IsSized(f, c, x, y) == f = [c EXCEPT !.free_size = x, !.used_size = y]
SizedRight(f, c, x, y) ==
    /\ f \in HeapType /\ f.blk = c.blk /\ f.head = c.head /\ f.total = c.total
    /\ f.free_size = x /\ f.used_size = y

\* The statistics are written, and nothing else.
LEMMA SizesIs ==
    ASSUME NEW c \in HeapType, NEW x \in Int, NEW y \in Int,
           NEW f, IsSized(f, c, x, y)
    PROVE  SizedRight(f, c, x, y)
  <1> DEFINE d == [c EXCEPT !.free_size = x]
  <1>1. /\ d \in HeapType /\ d.blk = c.blk /\ d.head = c.head /\ d.total = c.total
        /\ d.free_size = x /\ d.used_size = c.used_size
    BY Zenon DEF HeapType
  <1>2. f = [d EXCEPT !.used_size = y] BY Zenon DEF IsSized
  <1> HIDE DEF d
  <1> QED BY <1>1, <1>2, Zenon DEF HeapType, SizedRight

\* A block cut from the free units and handed out with a header leaves a right heap.
LEMMA AllocCore ==
    ASSUME HeapAssumptions, NEW h, NEW i, NEW L, HeapOK(h, i, L),
           NEW g, NEW b, NEW s \in Nat, ChosenRight(g, b, h, s), g.total <= MaxPages * PageUnits,
           NEW t \in Nat, NEW c, CutResult(c, g, b, t),
           NEW f, IsSized(f, c, c.free_size - t, c.used_size + t),
           NEW a, NEW j, NEW r, IsExtended(j, i, a.ptr, r), Placed(j, a),
           NEW R, BlockOf(j, a) = R, IsRange(R, b, t)
    PROVE  HeapOK(f, j, L \cup {a}) /\ Apart(R, TakenOf(i, L))
  <1> DEFINE F == UnitsOf(h.blk)
             T == TakenOf(i, L)
             N == End(h) .. End(h) + s - 1
  <1>1. /\ h \in HeapType /\ Sorted(h.blk, h.head) /\ LiveOK(i, L) /\ Tiles(F, T, End(h))
        /\ h.free_size = Cardinality(F) /\ h.used_size = Cardinality(T)
    BY Zenon DEF HeapOK
  <1>6. /\ g \in HeapType /\ g.total = h.total + s
        /\ g.free_size = h.free_size + s /\ g.used_size = h.used_size
        /\ UnitsOf(g.blk) = F \cup N
    BY Zenon DEF ChosenRight, FreedRight
  <1>11. /\ c \in HeapType /\ c.total = g.total /\ c.free_size = g.free_size /\ c.used_size = g.used_size
         /\ Sorted(c.blk, c.head) /\ UnitsOf(c.blk) = UnitsOf(g.blk) \ R /\ R \subseteq UnitsOf(g.blk)
    BY Zenon DEF CutResult, CutRight, SameRest, IsRange
  <1>n. IsRange(N, End(h), s)
    <2>1. End(h) \in Nat BY <1>1 DEF HeapType, HeapAssumptions, HeapStart, End
    <2> QED BY <2>1, Zenon DEF IsRange
  <1> HIDE DEF F, T, N
  <1>12. /\ f \in HeapType /\ f.blk = c.blk /\ f.head = c.head /\ f.total = c.total
         /\ f.free_size = c.free_size - t /\ f.used_size = c.used_size + t
    <2>1. c.free_size - t \in Int /\ c.used_size + t \in Int BY <1>11 DEF HeapType
    <2>2. SizedRight(f, c, c.free_size - t, c.used_size + t) BY <2>1, <1>11, SizesIs, Zenon
    <2> QED BY <2>2, Zenon DEF SizedRight
  <1>16. Within(R, F \cup N) BY <1>6, <1>11, Zenon DEF Within
  <1>17. /\ Tiles((F \cup N) \ R, T \cup R, End(h) + s)
         /\ Apart(R, T)
         /\ Cardinality((F \cup N) \ R) = Cardinality(F) + s - t
         /\ Cardinality(T \cup R) = Cardinality(T) + t
    <2>1. TilesCut(F, T, N, R, End(h), s, t) BY <1>1, <1>16, <1>n, TileCut, Zenon
    <2> QED BY <2>1, Zenon DEF TilesCut
  <1>18. Apart(BlockOf(j, a), TakenOf(i, L)) BY <1>17, Zenon DEF T
  <1>19. LiveOK(j, L \cup {a}) /\ TakenOf(j, L \cup {a}) = T \cup R
    <2>1. /\ LiveOK(j, L \cup {a})
          /\ TakenOf(j, L \cup {a}) = TakenOf(i, L) \cup BlockOf(j, a)
      <3>1. AddedRight(j, i, L, a) BY <1>1, <1>18, AddLive, Zenon
      <3> QED BY <3>1, Zenon DEF AddedRight
    <2> QED BY <2>1, Zenon DEF T
  <1>20. UnitsOf(f.blk) = (F \cup N) \ R BY <1>6, <1>11, <1>12, Zenon
  <1>21. End(f) = End(h) + s
    <2>1. h.total \in Nat /\ HeapStart \in Nat BY <1>1, Zenon DEF HeapType, HeapAssumptions, HeapStart
    <2> QED BY <1>6, <1>11, <1>12, <2>1 DEF End
  <1>22. f.free_size = Cardinality(UnitsOf(f.blk))
    <2>a. c.free_size = h.free_size + s BY <1>6, <1>11, Zenon
    <2>b. f.free_size = c.free_size - t BY <1>12, Zenon
    <2>c. h.free_size \in Int BY <1>1, Zenon DEF HeapType
    <2>1. f.free_size = h.free_size + s - t BY <2>a, <2>b, <2>c
    <2> QED BY <1>1, <1>17, <1>20, <2>1, Zenon
  <1>23. f.used_size = Cardinality(TakenOf(j, L \cup {a}))
    BY <1>1, <1>6, <1>11, <1>12, <1>17, <1>19, Zenon
  <1>24. Tiles(UnitsOf(f.blk), TakenOf(j, L \cup {a}), End(f))
    BY <1>17, <1>19, <1>20, <1>21, Zenon
  <1>25. HeapOK(f, j, L \cup {a}) BY <1>11, <1>12, <1>19, <1>22, <1>23, <1>24, Zenon DEF HeapOK
  <1> QED BY <1>17, <1>25, Zenon DEF T

\* alloc does that: its size, offset and header are what AllocCore asks for.
LEMMA AllocStep ==
    ASSUME HeapAssumptions, NEW h, NEW i, NEW L, HeapOK(h, i, L), NEW l \in Layouts,
           NEW g, g = Grown(h, RequestedSize(l)),
           NEW b, b = get_free_block(h, RequestedSize(l)),
           NEW size, size = AllocationSize(b, l), NEW off, off = allocated_block_offset(b, l),
           g.total <= MaxPages * PageUnits, g.blk[b].size >= size,
           NEW t, t = Taken(g, b, size),
           NEW a, a.ptr = b + off, a.layout = l, NEW r, r.size = t, r.pre_padding = off,
           NEW j, IsExtended(j, i, a.ptr, r)
    PROVE  /\ HeapOK(Account(Cut(g, b, size), t), j, L \cup {a})
           /\ Placed(j, a) /\ Apart(BlockOf(j, a), TakenOf(i, L))
  <1> DEFINE R == b .. b + t - 1
             c == Cut(g, b, size)
             f == Account(c, t)
  <1>1. /\ h \in HeapType /\ Sorted(h.blk, h.head) /\ Tiles(UnitsOf(h.blk), TakenOf(i, L), End(h))
    BY Zenon DEF HeapOK
  <1>2. l.size \in Nat \ {0} /\ l.align \in Nat \ {0} BY Zenon DEF HeapAssumptions
  <1>3. RequestedSize(l) \in Nat /\ RequestedSize(l) > 0
    <2>1. 0 \in Nat BY Zenon
    <2> QED BY <1>2, <2>1, Offset, Zenon
  <1>4. UnitsOf(h.blk) \subseteq HeapStart .. End(h) - 1 BY <1>1, FiniteParts, Zenon
  <1>5. PICK s \in Nat : ChosenRight(g, b, h, s) BY <1>1, <1>3, <1>4, Chosen, Zenon
  <1>6. /\ g \in HeapType /\ b \in DOMAIN g.blk /\ Sorted(g.blk, g.head)
    BY <1>5, Zenon DEF ChosenRight, FreedRight
  <1>7. b \in Nat \ {0} /\ g.blk[b].size \in Nat BY <1>6, SortedFacts, ZenonT(30)
  <1>8. /\ off \in Nat /\ off >= INFO /\ (b + off) % l.align = 0
        /\ size \in Nat /\ size >= off + l.size
    <2>1. b \in Nat BY <1>7, Zenon
    <2> QED BY <1>2, <2>1, Offset, ZenonT(30)
  <1>9. size > 0 /\ size <= g.blk[b].size BY <1>2, <1>7, <1>8, SMTT(30)
  <1>10. /\ CutResult(c, g, b, t) /\ t \in Nat /\ t >= size
    BY <1>6, <1>8, <1>9, CutBlock, ZenonT(30)
  <1>13. j[a.ptr] = r BY Zenon DEF IsExtended
  <1>14. BlockOf(j, a) = R
    <2>1. a.ptr - off = b BY <1>7, <1>8, SMTT(30)
    <2> QED BY <1>13, <2>1, Zenon DEF BlockOf
  <1>15. Placed(j, a)
    <2>1. a.ptr \in Nat /\ a.layout \in Layouts BY <1>7, <1>8, SMTT(30)
    <2>2. off < a.ptr /\ off + a.layout.size <= t BY <1>2, <1>7, <1>8, <1>10, SMTT(30)
    <2> QED BY <1>8, <1>10, <1>13, <2>1, <2>2, Zenon DEF Placed
  <1>16. IsRange(R, b, t) BY <1>7, <1>10, Zenon DEF IsRange
  <1>17. IsSized(f, c, c.free_size - t, c.used_size + t) BY Zenon DEF Account, IsSized
  <1> HIDE DEF R, c, f
  <1>18. HeapOK(f, j, L \cup {a}) /\ Apart(R, TakenOf(i, L))
    BY <1>5, <1>10, <1>14, <1>15, <1>16, <1>17, AllocCore, Zenon
  <1> QED BY <1>14, <1>15, <1>18, Zenon DEF f, c

\* An allocated block given to free_block leaves a right heap.
LEMMA DeallocCore ==
    ASSUME HeapAssumptions, NEW h, NEW i, NEW L, HeapOK(h, i, L), NEW a \in L,
           NEW j, IsDropped(j, i, a.ptr),
           NEW R, BlockOf(i, a) = R, NEW at \in Nat \ {0}, NEW s, s >= INFO, IsRange(R, at, s),
           NEW f, NEW c, c = free_block(h, at, s), IsSized(f, c, c.free_size + s, c.used_size - s)
    PROVE  HeapOK(f, j, L \ {a})
  <1> DEFINE F == UnitsOf(h.blk)
             T == TakenOf(i, L)
  <1>1. /\ h \in HeapType /\ Sorted(h.blk, h.head) /\ LiveOK(i, L) /\ Tiles(F, T, End(h))
        /\ h.free_size = Cardinality(F) /\ h.used_size = Cardinality(T) /\ h.total <= MaxPages * PageUnits
    BY Zenon DEF HeapOK
  <1>3. s \in Nat /\ R = at .. at + s - 1 BY Zenon DEF IsRange
  <1>5. /\ LiveOK(j, L \ {a})
        /\ TakenOf(j, L \ {a}) = T \ BlockOf(i, a)
        /\ BlockOf(i, a) \subseteq T
    BY <1>1, DropLive, Zenon
  <1> HIDE DEF F, T
  <1>6. Within(R, T) BY <1>5, Zenon DEF Within
  <1>7. /\ Tiles(F \cup R, T \ R, End(h))
        /\ Apart(R, F)
        /\ Cardinality(F \cup R) = Cardinality(F) + s
        /\ Cardinality(T \ R) = Cardinality(T) - s
    BY <1>1, <1>6, TileFree, SMTT(30)
  <1>8. FreeResult(c, h, at, s)
    <2>1. Apart(at .. at + s - 1, UnitsOf(h.blk)) BY <1>3, <1>7, Zenon DEF F
    <2> QED BY <1>1, <1>3, <2>1, FreeBlock, Zenon
  <1>9. /\ c \in HeapType /\ c.total = h.total /\ c.free_size = h.free_size /\ c.used_size = h.used_size
        /\ Sorted(c.blk, c.head) /\ UnitsOf(c.blk) = F \cup R
    BY <1>3, <1>8, Zenon DEF FreeResult, FreedRight, SameRest, F
  <1>10. /\ f \in HeapType /\ f.blk = c.blk /\ f.head = c.head /\ f.total = c.total
         /\ f.free_size = c.free_size + s /\ f.used_size = c.used_size - s
    <2>1. c.free_size + s \in Int /\ c.used_size - s \in Int BY <1>3, <1>9, SMTT(30) DEF HeapType
    <2>2. SizedRight(f, c, c.free_size + s, c.used_size - s) BY <2>1, <1>9, SizesIs, Zenon
    <2> QED BY <2>2, Zenon DEF SizedRight
  <1>11. End(f) = End(h) BY <1>9, <1>10, Zenon DEF End
  <1>12. UnitsOf(f.blk) = F \cup R /\ TakenOf(j, L \ {a}) = T \ R BY <1>5, <1>9, <1>10, Zenon
  <1>13. f.free_size = Cardinality(UnitsOf(f.blk)) /\ f.used_size = Cardinality(TakenOf(j, L \ {a}))
    BY <1>1, <1>7, <1>9, <1>10, <1>12, Zenon
  <1>14. Tiles(UnitsOf(f.blk), TakenOf(j, L \ {a}), End(f)) BY <1>7, <1>11, <1>12, Zenon
  <1> QED BY <1>1, <1>5, <1>9, <1>10, <1>13, <1>14, Zenon DEF HeapOK

\* dealloc does that: the header tells where the block begins and how large it is.
LEMMA DeallocStep ==
    ASSUME HeapAssumptions, NEW h, NEW i, NEW L, HeapOK(h, i, L), NEW a \in L,
           NEW j, IsDropped(j, i, a.ptr),
           NEW at, at = a.ptr - i[a.ptr].pre_padding, NEW s, s = i[a.ptr].size
    PROVE  HeapOK([free_block(h, at, s) EXCEPT !.free_size = @ + s, !.used_size = @ - s], j, L \ {a})
  <1> DEFINE R == at .. at + s - 1
             c == free_block(h, at, s)
             f == [c EXCEPT !.free_size = @ + s, !.used_size = @ - s]
  <1>2. Placed(i, a) BY Zenon DEF LiveOK, HeapOK
  <1>3. at \in Nat \ {0} /\ s \in Nat /\ s >= INFO
    <2>1. at \in Nat \ {0} /\ s >= INFO BY <1>2, PlacedIn, Zenon
    <2> QED BY <1>2, <2>1, Zenon DEF Placed
  <1>4. BlockOf(i, a) = R BY Zenon DEF BlockOf
  <1>5. IsRange(R, at, s) BY <1>3, Zenon DEF IsRange
  <1>6. c = free_block(h, at, s) BY Zenon
  <1> HIDE DEF R, c
  <1>7. IsSized(f, c, c.free_size + s, c.used_size - s) BY Zenon DEF IsSized
  <1> HIDE DEF f
  <1>8. HeapOK(f, j, L \ {a}) BY <1>3, <1>4, <1>5, <1>6, <1>7, DeallocCore, Zenon
  <1> QED BY <1>8, Zenon DEF f, c
-------------------------------------------------------------------------------
(***************************************************************************)
(* The theorems.                                                           *)
(***************************************************************************)
\* The inductive invariant: the heap is right, whether or not alloc panicked.
IInv == HeapOK(heap, info, live) /\ panicked \in {"no", "out of memory", "assert"}

\* The empty heap is right.
LEMMA InitIsOK ==
    ASSUME HeapAssumptions, Init PROVE IInv
  <1> DEFINE none == [b \in {} |-> 0]
  <1>1. /\ heap = [total |-> 0, head |-> Null, blk |-> none, free_size |-> 0, used_size |-> 0]
        /\ info = none /\ live = {} /\ panicked = "no"
    BY Zenon DEF Init
  <1>2. DOMAIN none = {} BY Zenon
  <1>3. none \in Blk
    <2>1. {} \in SUBSET (Nat \ {0}) BY Zenon
    <2>2. none \in [{} -> Rec] BY Zenon
    <2> QED BY <2>1, <2>2, BlkIs, Zenon
  <1> HIDE DEF none
  <1>4. heap \in HeapType /\ heap.total = 0 /\ heap.head = Null /\ heap.blk = none
        /\ heap.free_size = 0 /\ heap.used_size = 0
    BY <1>1, <1>3 DEF HeapType, Null
  <1>5. Sorted(heap.blk, heap.head) BY <1>2, <1>3, <1>4, Zenon DEF Sorted
  <1>6. LiveOK(info, live) BY <1>1, <1>2, Zenon DEF LiveOK
  <1>7. UnitsOf(heap.blk) = {} /\ TakenOf(info, live) = {}
    BY <1>1, <1>2, <1>4, Zenon DEF UnitsOf, TakenOf
  <1>8. Tiles(UnitsOf(heap.blk), TakenOf(info, live), End(heap))
    <2>1. HeapStart .. End(heap) - 1 = {} BY <1>4 DEF HeapAssumptions, HeapStart, End
    <2> QED BY <1>7, <2>1, Zenon DEF Tiles, Apart
  <1>9. Cardinality({}) = 0 BY FS_EmptySet, Zenon
  <1>10. heap.total <= MaxPages * PageUnits
    <2>1. MaxPages * PageUnits \in Nat BY DEF HeapAssumptions
    <2> QED BY <1>4, <2>1
  <1>11. heap.free_size = Cardinality(UnitsOf(heap.blk)) /\ heap.used_size = Cardinality(TakenOf(info, live))
    BY <1>4, <1>7, <1>9, Zenon
  <1> QED BY <1>1, <1>4, <1>5, <1>6, <1>8, <1>10, <1>11, Zenon DEF IInv, HeapOK

\* alloc keeps the heap right, and its block is apart from those of others.
LEMMA AllocKeeps ==
    ASSUME HeapAssumptions, IInv, NEW l \in Layouts, Alloc(l)
    PROVE  /\ IInv'
           /\ \E a : /\ a = [ptr |-> a.ptr, layout |-> l]
                     /\ live' = live \cup {a} /\ Placed(info', a)
                     /\ Apart(BlockOf(info', a), TakenOf(info, live))
  <1> DEFINE g == Grown(heap, RequestedSize(l))
             b == get_free_block(heap, RequestedSize(l))
             size == AllocationSize(b, l)
             off == allocated_block_offset(b, l)
             t == Taken(g, b, size)
             ptr == b + off
             a == [ptr |-> ptr, layout |-> l]
             r == [size |-> t, pre_padding |-> off]
  <1>1. /\ g.total <= MaxPages * PageUnits /\ g.blk[b].size >= size
        /\ heap' = Account(Cut(g, b, size), t)
        /\ info' = [p \in DOMAIN info \cup {ptr} |-> IF p = ptr THEN r ELSE info[p]]
        /\ live' = live \cup {a} /\ panicked' = panicked
    BY Zenon DEF Alloc
  <1>2. /\ g = Grown(heap, RequestedSize(l)) /\ b = get_free_block(heap, RequestedSize(l))
        /\ size = AllocationSize(b, l) /\ off = allocated_block_offset(b, l) /\ t = Taken(g, b, size)
    BY Zenon
  <1>3. a.ptr = b + off /\ a.layout = l /\ a = [ptr |-> a.ptr, layout |-> l] BY Zenon
  <1>4. r.size = t /\ r.pre_padding = off BY Zenon
  <1>5. HeapOK(heap, info, live) BY Zenon DEF IInv
  <1> HIDE DEF r
  <1>6. IsExtended(info', info, a.ptr, r) BY <1>1, Zenon DEF IsExtended
  <1> HIDE DEF g, b, size, off, t, a
  <1>7. /\ HeapOK(Account(Cut(g, b, size), t), info', live \cup {a})
        /\ Placed(info', a) /\ Apart(BlockOf(info', a), TakenOf(info, live))
    BY <1>1, <1>2, <1>3, <1>4, <1>5, <1>6, AllocStep, SMTT(30)
  <1>8. HeapOK(heap', info', live') BY <1>1, <1>7, Zenon
  <1>9. IInv' BY <1>1, <1>8, Zenon DEF IInv
  <1>10. live' = live \cup {a} BY <1>1, Zenon
  <1> QED BY <1>3, <1>7, <1>9, <1>10, Zenon

\* dealloc keeps the heap right.
LEMMA DeallocKeeps ==
    ASSUME HeapAssumptions, IInv, NEW a \in live, Dealloc(a)
    PROVE  IInv'
  <1> DEFINE s == info[a.ptr].size
             at == a.ptr - info[a.ptr].pre_padding
             f == [free_block(heap, at, s) EXCEPT !.free_size = @ + s, !.used_size = @ - s]
  <1>1. /\ heap' = f /\ info' = [p \in DOMAIN info \ {a.ptr} |-> info[p]]
        /\ live' = live \ {a} /\ panicked' = panicked
    BY Zenon DEF Dealloc
  <1>2. s = info[a.ptr].size /\ at = a.ptr - info[a.ptr].pre_padding BY Zenon
  <1>3. HeapOK(heap, info, live) BY Zenon DEF IInv
  <1>4. IsDropped(info', info, a.ptr) BY <1>1, Zenon DEF IsDropped
  <1> HIDE DEF s, at
  <1>5. HeapOK(f, info', live \ {a}) BY <1>2, <1>3, <1>4, DeallocStep, Zenon
  <1> HIDE DEF f
  <1>6. HeapOK(heap', info', live') BY <1>1, <1>5, Zenon
  <1> QED BY <1>1, <1>6, Zenon DEF IInv

\* Every operation does, also one that panics: alloc panics before it has changed the
\* list.
LEMMA NextKeeps ==
    ASSUME HeapAssumptions, IInv, [Next]_vars PROVE IInv'
  <1>1. ASSUME NEW l \in Layouts, Alloc(l) PROVE IInv' BY <1>1, AllocKeeps, Zenon
  <1>2. ASSUME NEW l \in Layouts, AllocOutOfMemory(l) \/ AllocTooSmall(l) PROVE IInv'
    BY <1>2, Zenon DEF AllocOutOfMemory, AllocTooSmall, IInv
  <1>3. ASSUME NEW a \in live, Dealloc(a) PROVE IInv' BY <1>3, DeallocKeeps, Zenon
  <1>4. ASSUME UNCHANGED vars PROVE IInv' BY <1>4, Zenon DEF vars, IInv
  <1> QED BY <1>1, <1>2, <1>3, <1>4, Zenon DEF Next

\* The units of the properties are those of the invariant.
LEMMA Unfold ==
    /\ AllFree = UnitsOf(heap.blk) /\ AllTaken = TakenOf(info, live)
    /\ \A a : Block(a) = BlockOf(info, a)
    /\ \A b : FreeUnits(b) = b .. b + heap.blk[b].size - 1
  BY Zenon DEF AllFree, AllTaken, UnitsOf, TakenOf, Block, BlockOf, FreeUnits, Free

\* What the runs check of the heap.
HeapSound ==
    TypeOK /\ BlocksTileTheHeap /\ ListIsSound /\ StatsAddUp /\ MemoryIsInsideBlock

\* A right heap has these properties.
LEMMA IInvIsSound ==
    ASSUME HeapAssumptions, IInv PROVE HeapSound
  <1> DEFINE blk == heap.blk
  <1>1. /\ heap \in HeapType /\ heap.total <= MaxPages * PageUnits
        /\ Sorted(heap.blk, heap.head) /\ LiveOK(info, live)
        /\ Tiles(UnitsOf(heap.blk), TakenOf(info, live), End(heap))
        /\ heap.free_size = Cardinality(UnitsOf(heap.blk))
        /\ heap.used_size = Cardinality(TakenOf(info, live))
        /\ panicked \in {"no", "out of memory", "assert"}
    BY Zenon DEF IInv, HeapOK
  <1>2. /\ DOMAIN blk \subseteq Nat \ {0}
        /\ \A b \in DOMAIN blk : blk[b].size \in Nat /\ blk[b].size >= INFO
        /\ \A b, c \in DOMAIN blk : b < c => b + blk[b].size < c
    BY <1>1, SortedFacts, Zenon
  <1>3. TypeOK
    <2>a. heap \in HeapType BY <1>1, Zenon
    <2>b. heap.total \in Nat BY <2>a, Zenon DEF HeapType
    <2>c. MaxPages * PageUnits \in Nat BY DEF HeapAssumptions
    <2>d. heap.total <= MaxPages * PageUnits BY <1>1, Zenon
    <2>1. heap.total \in 0 .. MaxPages * PageUnits BY <2>b, <2>c, <2>d
    <2> QED BY <1>1, <1>2, <2>1, Zenon DEF TypeOK, LiveOK, Free
  <1>4. BlocksTileTheHeap
    <2>1. AllFree \cup AllTaken = HeapStart .. End(heap) - 1 /\ AllFree \cap AllTaken = {}
      BY <1>1, Unfold, Zenon DEF Tiles, Apart
    <2>2. ASSUME NEW b \in Free(heap), NEW c \in Free(heap), b # c PROVE FreeUnits(b) \cap FreeUnits(c) = {}
      <3>1. b \in DOMAIN blk /\ c \in DOMAIN blk BY Zenon DEF Free
      <3>2. b \in Nat /\ c \in Nat /\ blk[b].size \in Nat /\ blk[c].size \in Nat BY <3>1, <1>2, Zenon
      <3>3. b + blk[b].size < c \/ c + blk[c].size < b BY <3>1, <3>2, <1>2, <2>2, SMTT(30)
      <3> HIDE DEF blk
      <3>4. (b .. b + blk[b].size - 1) \cap (c .. c + blk[c].size - 1) = {} BY <3>2, <3>3, SMTT(30)
      <3> QED BY <3>4, Unfold, Zenon DEF blk
    <2>3. ASSUME NEW a \in live, NEW c \in live, a # c PROVE Block(a) \cap Block(c) = {}
      BY <1>1, <2>3, Unfold, Zenon DEF LiveOK, Apart
    <2> QED BY <2>1, <2>2, <2>3, Zenon DEF BlocksTileTheHeap
  <1>5. ListIsSound
    <2>1. (heap.head = Null) <=> (Free(heap) = {}) BY <1>1, Zenon DEF Sorted, Free
    <2>2. ASSUME heap.head # Null PROVE heap.head = Min(Free(heap)) /\ blk[heap.head].prev = Null
      <3>1. heap.head \in DOMAIN blk /\ \A c \in DOMAIN blk : heap.head <= c
        BY <1>1, <2>2, Zenon DEF Sorted
      <3>2. DOMAIN blk \subseteq Nat /\ DOMAIN blk # {} BY <1>2, <3>1, Zenon
      <3>4. heap.head = Min(DOMAIN blk) BY <3>1, <3>2, MinIs, Zenon
      <3>5. blk[heap.head].prev = 0
        <4>1. blk[heap.head].prev # 0 => blk[heap.head].prev \in DOMAIN blk /\ blk[heap.head].prev < heap.head
          BY <1>1, <3>1, SortedFacts, Zenon
        <4> QED BY <4>1, <3>1, <3>2
      <3> QED BY <3>4, <3>5, Zenon DEF Free, Null
    <2>3. ASSUME NEW b \in Free(heap)
          PROVE  LET higher == {c \in Free(heap) : c > b}
                     n == heap.blk[b].next
                 IN  /\ n = IF higher = {} THEN Null ELSE Min(higher)
                     /\ n # Null => heap.blk[n].prev = b /\ b + heap.blk[b].size < n
      <3> DEFINE higher == {c \in Free(heap) : c > b}
                 n == heap.blk[b].next
      <3>1. b \in DOMAIN blk /\ b \in Nat BY <1>2, Zenon DEF Free
      <3>2. /\ n = 0 => \A c \in DOMAIN blk : c <= b
            /\ n # 0 => n \in DOMAIN blk /\ b < n /\ \A c \in DOMAIN blk : c <= b \/ n <= c
        BY <1>1, <3>1, SortedFacts, Zenon
      <3>3. \A c : c \in higher <=> c \in DOMAIN blk /\ c > b BY Zenon DEF Free
      <3>4. higher \subseteq Nat BY <1>2, <3>3, Zenon
      <3> HIDE DEF n, higher
      <3>5. CASE n = 0
        <4>1. higher = {} BY <1>2, <3>1, <3>2, <3>3, <3>5
        <4>2. n = IF higher = {} THEN Null ELSE Min(higher) BY <3>5, <4>1, Zenon DEF Null
        <4> QED BY <3>5, <4>2, Zenon DEF n, higher, Null
      <3>6. CASE n # 0
        <4>1. n \in DOMAIN blk /\ n \in Nat /\ b < n /\ \A c \in DOMAIN blk : c <= b \/ n <= c
          BY <3>2, <3>6, <1>2, Zenon
        <4>2. n \in higher /\ \A c \in higher : n <= c BY <1>2, <4>1, <3>1, <3>3
        <4>4. n = Min(higher) BY <3>4, <4>2, MinIs, Zenon
        <4>5. higher # {} BY <4>2, Zenon
        <4>6. blk[n].prev = b
          <5>1. blk[b].next = n BY Zenon DEF n
          <5>2. Sorted(blk, heap.head) BY <1>1, Zenon
          <5> HIDE DEF blk
          <5>3. blk[blk[b].next].prev = b BY <3>1, <3>6, <5>1, <5>2, MirrorNext, Zenon
          <5> QED BY <5>1, <5>3, Zenon
        <4>7. b + blk[b].size < n BY <1>2, <3>1, <4>1, Zenon
        <4> QED BY <4>4, <4>5, <4>6, <4>7, Zenon DEF n, higher
      <3> QED BY <3>5, <3>6, Zenon
    <2> QED BY <2>1, <2>2, <2>3, Zenon DEF ListIsSound
  <1>6. StatsAddUp BY <1>1, Unfold, Zenon DEF StatsAddUp
  <1>7. MemoryIsInsideBlock
    <2> SUFFICES ASSUME NEW a \in live
                 PROVE  a.ptr - INFO .. a.ptr + a.layout.size - 1 \subseteq Block(a)
      BY Zenon DEF MemoryIsInsideBlock
    <2>1. Placed(info, a) BY <1>1, Zenon DEF LiveOK
    <2>2. a.ptr - INFO .. a.ptr + a.layout.size - 1 \subseteq BlockOf(info, a)
      BY <2>1, PlacedIn, Zenon
    <2> QED BY <2>2, Unfold, Zenon
  <1> QED BY <1>3, <1>4, <1>5, <1>6, <1>7, Zenon DEF HeapSound

\* Whatever is allocated and freed, in whatever order, free and allocated blocks tile
\* the heap, the free list runs through the free blocks in address order with
\* neighbours merged, the statistics are right, and a caller's memory lies in its
\* block behind the header: for all layouts, page sizes and sizes of the heap.
THEOREM HeapAlwaysSound ==
    ASSUME HeapAssumptions PROVE Spec => []HeapSound
  <1>1. Init => IInv BY InitIsOK, Zenon
  <1>2. IInv /\ [Next]_vars => IInv' BY NextKeeps, Zenon
  <1>3. IInv => HeapSound BY IInvIsSound, Zenon
  <1> QED BY <1>1, <1>2, <1>3, PTL DEF Spec

\* The memory of an allocation lies in its block, and in the heap.
LEMMA InsideAddresses ==
    ASSUME HeapAssumptions, NEW h, NEW i, NEW L, HeapOK(h, i, L), NEW a \in L
    PROVE  /\ Abstract!Units(a) \subseteq BlockOf(i, a)
           /\ BlockOf(i, a) \subseteq TakenOf(i, L)
           /\ Abstract!Units(a) \subseteq HeapStart .. HeapStart + MaxPages * PageUnits - 1
           /\ a.ptr \in HeapStart .. HeapStart + MaxPages * PageUnits - 1
  <1>1. h \in HeapType /\ h.total <= MaxPages * PageUnits /\ Placed(i, a)
        /\ Tiles(UnitsOf(h.blk), TakenOf(i, L), End(h))
    BY Zenon DEF HeapOK, LiveOK
  <1>2. a.ptr \in BlockOf(i, a) /\ a.ptr .. a.ptr + a.layout.size - 1 \subseteq BlockOf(i, a)
    BY <1>1, PlacedIn, Zenon
  <1>3. Abstract!Units(a) = a.ptr .. a.ptr + a.layout.size - 1 BY Zenon DEF Abstract!Units
  <1>4. BlockOf(i, a) \subseteq TakenOf(i, L) BY Zenon DEF TakenOf
  <1>5. TakenOf(i, L) \subseteq HeapStart .. End(h) - 1 BY <1>1, FiniteParts, Zenon
  <1>6. HeapStart .. End(h) - 1 \subseteq HeapStart .. HeapStart + MaxPages * PageUnits - 1
    <2> DEFINE e == MaxPages * PageUnits
    <2>1. h.total \in Nat BY <1>1, Zenon DEF HeapType
    <2>2. e \in Nat /\ HeapStart \in Nat BY DEF HeapAssumptions, HeapStart
    <2>3. h.total <= e BY <1>1, Zenon
    <2> HIDE DEF e
    <2>4. HeapStart .. (HeapStart + h.total) - 1 \subseteq HeapStart .. HeapStart + e - 1
      BY <2>1, <2>2, <2>3
    <2> QED BY <2>4, Zenon DEF End, e
  <1> QED BY <1>2, <1>3, <1>4, <1>5, <1>6, Zenon

\* A step of the allocator is one of the abstract heap: alloc hands out aligned memory
\* that nobody has, dealloc takes that of one caller away, and a panic nothing.
LEMMA StepIsAbstract ==
    ASSUME HeapAssumptions, IInv, IInv', [Next]_vars
    PROVE  [Abstract!Next]_live
  <1> DEFINE A == HeapStart .. HeapStart + MaxPages * PageUnits - 1
  <1>0. HeapOK(heap, info, live) /\ HeapOK(heap', info', live') BY Zenon DEF IInv
  <1>1. ASSUME NEW l \in Layouts, Alloc(l) PROVE Abstract!Next
    <2>1. PICK a : /\ a = [ptr |-> a.ptr, layout |-> l]
                   /\ live' = live \cup {a} /\ Placed(info', a)
                   /\ Apart(BlockOf(info', a), TakenOf(info, live))
      BY <1>1, AllocKeeps, Zenon
    <2>2. a \in live' BY <2>1, Zenon
    <2>3. /\ (Abstract!Units(a) \subseteq BlockOf(info', a))
          /\ (Abstract!Units(a) \subseteq A)
          /\ a.ptr \in A
      BY <1>0, <2>2, InsideAddresses, Zenon
    <2>4. a.ptr % l.align = 0
      <3>1. a.ptr % a.layout.align = 0 BY <2>1, Zenon DEF Placed
      <3>2. a.layout = l BY <2>1
      <3> QED BY <3>1, <3>2, Zenon
    <2>5. ASSUME NEW c \in live PROVE Abstract!Units(a) \cap Abstract!Units(c) = {}
      <3>1. Abstract!Units(c) \subseteq BlockOf(info, c) /\ BlockOf(info, c) \subseteq TakenOf(info, live)
        BY <1>0, InsideAddresses, Zenon
      <3> QED BY <2>1, <2>3, <3>1, Zenon DEF Apart
    <2> HIDE DEF A
    <2>6. a \in [ptr : A, layout : {l}] BY <2>1, <2>3
    <2>7. Abstract!Alloc(l) BY <2>1, <2>3, <2>4, <2>5, <2>6, Zenon DEF Abstract!Alloc, A
    <2> QED BY <2>7, Zenon DEF Abstract!Next
  <1>2. ASSUME NEW l \in Layouts, AllocOutOfMemory(l) \/ AllocTooSmall(l) PROVE UNCHANGED live
    BY <1>2, Zenon DEF AllocOutOfMemory, AllocTooSmall
  <1>3. ASSUME NEW a \in live, Dealloc(a) PROVE Abstract!Next
    BY <1>3, Zenon DEF Dealloc, Abstract!Next, Abstract!Dealloc
  <1>4. ASSUME UNCHANGED vars PROVE UNCHANGED live BY <1>4, Zenon DEF vars
  <1> QED BY <1>1, <1>2, <1>3, <1>4, Zenon DEF Next

\* The allocator implements the abstract heap, for all constants.
THEOREM HeapImplementsAbstract ==
    ASSUME HeapAssumptions PROVE Spec => ImplementsHeap
  <1>1. Init => IInv BY InitIsOK, Zenon
  <1>2. IInv /\ [Next]_vars => IInv' BY NextKeeps, Zenon
  <1>3. Init => Abstract!Init BY Zenon DEF Init, Abstract!Init
  <1>4. IInv /\ IInv' /\ [Next]_vars => [Abstract!Next]_live BY StepIsAbstract, Zenon
  <1> QED BY <1>1, <1>2, <1>3, <1>4, PTL DEF Spec, ImplementsHeap, Abstract!Spec
===============================================================================
