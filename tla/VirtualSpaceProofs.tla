-------------------------- MODULE VirtualSpaceProofs --------------------------
(***************************************************************************)
(* The list of entries of VirtualSpace never loses a page, and until a     *)
(* drop meets a free entry in front of its own the live values map their   *)
(* memory and drop without a panic.                                        *)
(***************************************************************************)
EXTENDS VirtualSpace, FiniteSetTheorems, TLAPS

Stop(e) == e.virtual_start + e.size
InEntry(a, e) == e.virtual_start <= a /\ a < Stop(e)

EntryType == [physical_start : {Unmapped} \cup {Phys(p) : p \in PhysStarts},
              virtual_start : 0 .. SpaceSize, size : 0 .. SpaceSize]

\* What holds of the list whatever is created and dropped: entries end inside of
\* the space, a mapped entry is followed by one that starts where it ends, the
\* entries before one cover all that is below it, and together they cover the space.
Inside(es) == \A i \in DOMAIN es : Stop(es[i]) <= SpaceSize
Followed(es) ==
    \A i \in DOMAIN es : ~IsFree(es[i]) => i < Len(es) /\ es[i + 1].virtual_start = Stop(es[i])
CoveredBelow(es) ==
    \A i \in DOMAIN es : \A a \in Space :
        a < es[i].virtual_start => \E j \in DOMAIN es : j < i /\ InEntry(a, es[j])
Whole(es) == \A a \in Space : \E j \in DOMAIN es : InEntry(a, es[j])
WellFormed(es) ==
    es \in Seq(EntryType) /\ Inside(es) /\ Followed(es) /\ CoveredBelow(es) /\ Whole(es)

\* What holds until a drop meets a free entry in front of its own: the entries are
\* disjoint and in order, and a live value has its entry and its pages.
Ordered(es) == \A i, j \in DOMAIN es : i < j => Stop(es[i]) <= es[j].virtual_start
HasEntry(x, es) == \E i \in DOMAIN es : es[i] = Entry(Phys(x.phys), x.at, x.size)

LiveType == live \subseteq [at : Space, size : Sizes, phys : PhysStarts]
IInv ==
    /\ entries # <<>> => WellFormed(entries)
    /\ LiveType /\ panicked \in BOOLEAN /\ merged \in BOOLEAN
    /\ DOMAIN mapped = Space
    /\ ~merged =>
        /\ ~panicked
        /\ entries # <<>> => Ordered(entries)
        /\ \A x \in live : HasEntry(x, entries)
        /\ \A x \in live : \A k \in 0 .. x.size - 1 : mapped[x.at + k] = Phys(x.phys + k)
        /\ \A x, y \in live : x # y => x.phys # y.phys
-------------------------------------------------------------------------------
(* The list after a split and after a merge                                  *)

\* r is es with entry i replaced by two.
IsSplit(r, es, i, e1, e2) ==
    /\ r \in Seq(EntryType) /\ Len(r) = Len(es) + 1
    /\ \A j \in 1 .. i - 1 : r[j] = es[j]
    /\ r[i] = e1 /\ r[i + 1] = e2
    /\ \A j \in i + 1 .. Len(es) : r[j + 1] = es[j]

\* r is es with entry i, and the n entries after it, replaced by e; the entry in
\* front of it is replaced by f.
IsMerge(r, es, i, n, f, e) ==
    /\ r \in Seq(EntryType) /\ Len(r) = Len(es) - n
    /\ \A j \in 1 .. i - 2 : r[j] = es[j]
    /\ i > 1 => r[i - 1] = f
    /\ r[i] = e
    /\ \A j \in i + 1 .. Len(es) - n : r[j] = es[j + n]

\* What the fields of an entry, and the kinds of memory it may be of, tell apart.
LEMMA EntryFacts ==
    /\ Unmapped \notin {Phys(p) : p \in PhysStarts}
    /\ \A p, q : Phys(p) = Phys(q) => p = q
    /\ \A p : Phys(p) # Unmapped /\ Phys(p).some = p
    /\ \A p, v, s : /\ Entry(p, v, s).physical_start = p
                    /\ Entry(p, v, s).virtual_start = v
                    /\ Entry(p, v, s).size = s
    /\ \A p, v, s : p \in {Unmapped} \cup {Phys(q) : q \in PhysStarts} /\ v \in 0 .. SpaceSize
                     /\ s \in 0 .. SpaceSize => Entry(p, v, s) \in EntryType
    /\ \A p, v, s, q, w, t : Entry(p, v, s) = Entry(q, w, t) => p = q /\ v = w /\ s = t
  <1>1. \A p : Phys(p) # Unmapped
    BY Zenon DEF Phys, Unmapped
  <1>2. \A p : Phys(p).some = p
    BY Zenon DEF Phys
  <1>3. \A p, q : Phys(p) = Phys(q) => p = q
    BY <1>2
  <1>4. \A p, v, s : /\ Entry(p, v, s).physical_start = p
                     /\ Entry(p, v, s).virtual_start = v
                     /\ Entry(p, v, s).size = s
    BY Zenon DEF Entry
  <1>5. \A p, v, s : p \in {Unmapped} \cup {Phys(q) : q \in PhysStarts} /\ v \in 0 .. SpaceSize
                     /\ s \in 0 .. SpaceSize => Entry(p, v, s) \in EntryType
    BY Zenon DEF Entry, EntryType
  <1>6. Unmapped \notin {Phys(p) : p \in PhysStarts}
    BY <1>1, Zenon
  <1>7. \A p, v, s, q, w, t : Entry(p, v, s) = Entry(q, w, t) => p = q /\ v = w /\ s = t
    <2>. TAKE p, v, s, q, w, t
    <2>. HAVE Entry(p, v, s) = Entry(q, w, t)
    <2>1. p = Entry(q, w, t).physical_start /\ v = Entry(q, w, t).virtual_start /\ s = Entry(q, w, t).size
      BY <1>4
    <2>. QED BY <2>1, <1>4
  <1>. QED BY <1>1, <1>2, <1>3, <1>4, <1>5, <1>6, <1>7

\* What concatenation gives
LEMMA Concat ==
    ASSUME NEW S, NEW s \in Seq(S), NEW t \in Seq(S)
    PROVE  /\ s \o t \in Seq(S) /\ Len(s \o t) = Len(s) + Len(t)
           /\ \A i \in 1 .. Len(s) : (s \o t)[i] = s[i]
           /\ \A i \in Len(s) + 1 .. Len(s) + Len(t) : (s \o t)[i] = t[i - Len(s)]
  OBVIOUS

\* The fields of an entry
LEMMA EntryFields ==
    ASSUME NEW e \in EntryType
    PROVE  /\ e.virtual_start \in 0 .. SpaceSize /\ e.size \in 0 .. SpaceSize
           /\ IsFree(e) \/ e.physical_start \in {Phys(p) : p \in PhysStarts}
  BY Zenon DEF EntryType, IsFree

\* The list that allocate makes of a free entry and its remainder is
\* the old one with that entry replaced by two.
LEMMA SplitShape ==
    ASSUME NEW es \in Seq(EntryType), NEW i \in DOMAIN es,
           NEW e1 \in EntryType, NEW e2 \in EntryType
    PROVE  IsSplit(SubSeq(es, 1, i - 1) \o <<e1, e2>> \o SubSeq(es, i + 1, Len(es)), es, i, e1, e2)
  <1>. DEFINE b == SubSeq(es, 1, i - 1)
              c == SubSeq(es, i + 1, Len(es))
              m == <<e1, e2>>
  <1>1. /\ i \in 1 .. Len(es) /\ Len(es) \in Nat
    OBVIOUS
  <1>2. /\ b \in Seq(EntryType) /\ Len(b) = i - 1 /\ \A j \in 1 .. i - 1 : b[j] = es[j]
    BY <1>1
  <1>3. /\ c \in Seq(EntryType) /\ Len(c) = Len(es) - i
        /\ \A j \in 1 .. Len(es) - i : c[j] = es[j + i]
    BY <1>1
  <1>4. m \in Seq(EntryType) /\ Len(m) = 2 /\ m[1] = e1 /\ m[2] = e2
    OBVIOUS
  <1>. HIDE DEF b, c, m
  <1>. DEFINE d == b \o m
  <1>5. /\ d \in Seq(EntryType) /\ Len(d) = i + 1
        /\ \A j \in 1 .. i - 1 : d[j] = es[j]
        /\ d[i] = e1 /\ d[i + 1] = e2
    <2>1. /\ d \in Seq(EntryType) /\ Len(d) = Len(b) + Len(m)
          /\ \A j \in 1 .. Len(b) : d[j] = b[j]
          /\ \A j \in Len(b) + 1 .. Len(b) + Len(m) : d[j] = m[j - Len(b)]
      BY <1>2, <1>4, Concat, ZenonT(30)
    <2>. HIDE DEF d
    <2>2. i \in Len(b) + 1 .. Len(b) + Len(m) /\ i + 1 \in Len(b) + 1 .. Len(b) + Len(m)
          /\ i - Len(b) = 1 /\ (i + 1) - Len(b) = 2 /\ Len(b) + Len(m) = i + 1
      BY <1>1, <1>2, <1>4, SMTT(30)
    <2>3. d[i] = e1 /\ d[i + 1] = e2
      BY <2>1, <2>2, <1>4, Zenon
    <2>. QED BY <2>1, <2>2, <2>3, <1>2, Zenon
  <1>. DEFINE r == d \o c
  <1>. HIDE DEF d
  <1>6. /\ r \in Seq(EntryType) /\ Len(r) = Len(es) + 1
        /\ \A j \in 1 .. i + 1 : r[j] = d[j]
        /\ \A j \in i + 1 .. Len(es) : r[j + 1] = es[j]
    <2>1. /\ r \in Seq(EntryType) /\ Len(r) = Len(d) + Len(c)
          /\ \A j \in 1 .. Len(d) : r[j] = d[j]
          /\ \A j \in Len(d) + 1 .. Len(d) + Len(c) : r[j] = c[j - Len(d)]
      BY <1>3, <1>5, Concat, Zenon
    <2>. HIDE DEF r
    <2>l. Len(d) = i + 1 /\ Len(c) = Len(es) - i
      BY <1>3, <1>5, Zenon
    <2>2. ASSUME NEW j \in i + 1 .. Len(es) PROVE r[j + 1] = es[j]
      <3>1. j + 1 \in Len(d) + 1 .. Len(d) + Len(c) /\ (j + 1) - Len(d) = j - i
            /\ j - i \in 1 .. Len(es) - i /\ (j - i) + i = j
        BY <1>1, <2>l, SMTT(30)
      <3>. QED BY <3>1, <2>1, <1>3, ZenonT(30)
    <2>3. Len(r) = Len(es) + 1
      <3>1. Len(r) = Len(d) + Len(c)
        BY <2>1, Zenon
      <3>. QED BY <3>1, <2>l, <1>1
    <2>. QED BY <2>1, <2>2, <2>3, <1>5, Zenon
  <1>. HIDE DEF r
  <1>7. i \in 1 .. i + 1 /\ i + 1 \in 1 .. i + 1 /\ \A j \in 1 .. i - 1 : j \in 1 .. i + 1
    BY <1>1
  <1>8. IsSplit(r, es, i, e1, e2)
    BY <1>5, <1>6, <1>7, Zenon DEF IsSplit
  <1>. QED BY <1>8, Zenon DEF b, c, m, d, r

\* The places of the entries behind those that are replaced
LEMMA Shift ==
    ASSUME NEW l \in Nat, NEW i \in Nat, NEW n \in Nat, NEW j \in i + 1 .. l - n
    PROVE  /\ j \in i + 1 .. i + (l - i - n) /\ j - i \in 1 .. l - i - n /\ (j - i) + i + n = j + n
           /\ j + n \in i + 1 .. l
  OBVIOUS

\* The places before the entries were shifted
LEMMA UnShift ==
    ASSUME NEW l \in Nat, NEW i \in Nat, NEW n \in Nat, NEW j \in 1 .. l, j > i + n
    PROVE  /\ j - n \in i + 1 .. l - n /\ j - n \in 1 .. l - n /\ (j - n) + n = j
           /\ j - n <= j /\ j <= j
  OBVIOUS

\* The list that deallocate makes is the old one with the dropped entry, and the free
\* one after it, replaced by one entry, and the one in front of it by what that became.
LEMMA MergeShape ==
    ASSUME NEW es \in Seq(EntryType), NEW i \in DOMAIN es, NEW n \in {0, 1}, i + n <= Len(es),
           NEW pr \in Seq(EntryType), Len(pr) = i - 1, \A j \in 1 .. i - 2 : pr[j] = es[j],
           NEW e \in EntryType
    PROVE  IsMerge(pr \o <<e>> \o SubSeq(es, i + (n + 1), Len(es)), es, i, n, pr[i - 1], e)
  <1>. DEFINE c == SubSeq(es, i + (n + 1), Len(es))
              m == <<e>>
  <1>1. i \in 1 .. Len(es) /\ Len(es) \in Nat /\ n \in Nat /\ i \in Nat
    OBVIOUS
  <1>3. /\ c \in Seq(EntryType) /\ Len(c) = Len(es) - i - n
        /\ \A j \in 1 .. Len(es) - i - n : c[j] = es[j + i + n]
    BY <1>1, SMTT(30)
  <1>4. m \in Seq(EntryType) /\ Len(m) = 1 /\ m[1] = e
    OBVIOUS
  <1>. HIDE DEF c, m
  <1>. DEFINE d == pr \o m
  <1>5. /\ d \in Seq(EntryType) /\ Len(d) = i
        /\ \A j \in 1 .. i - 1 : d[j] = pr[j]
        /\ d[i] = e
    <2>1. /\ d \in Seq(EntryType) /\ Len(d) = Len(pr) + Len(m)
          /\ \A j \in 1 .. Len(pr) : d[j] = pr[j]
          /\ \A j \in Len(pr) + 1 .. Len(pr) + Len(m) : d[j] = m[j - Len(pr)]
      BY <1>4, Concat, ZenonT(30)
    <2>. HIDE DEF d
    <2>2. i \in Len(pr) + 1 .. Len(pr) + Len(m) /\ i - Len(pr) = 1 /\ Len(pr) + Len(m) = i
      BY <1>1, <1>4, SMTT(30)
    <2>3. d[i] = e
      BY <2>1, <2>2, <1>4, Zenon
    <2>. QED BY <2>1, <2>2, <2>3, Zenon
  <1>. DEFINE r == d \o c
  <1>. HIDE DEF d
  <1>6. /\ r \in Seq(EntryType) /\ Len(r) = Len(es) - n
        /\ \A j \in 1 .. i : r[j] = d[j]
        /\ \A j \in i + 1 .. Len(es) - n : r[j] = es[j + n]
    <2>1. /\ r \in Seq(EntryType) /\ Len(r) = Len(d) + Len(c)
          /\ \A j \in 1 .. Len(d) : r[j] = d[j]
          /\ \A j \in Len(d) + 1 .. Len(d) + Len(c) : r[j] = c[j - Len(d)]
      <3>1. d \in Seq(EntryType) /\ c \in Seq(EntryType)
        BY <1>3, <1>5, Zenon
      <3>. QED BY <3>1, Concat, Zenon
    <2>. HIDE DEF r
    <2>l. Len(d) = i /\ Len(c) = Len(es) - i - n
      BY <1>3, <1>5, Zenon
    <2>2. ASSUME NEW j \in i + 1 .. Len(es) - n PROVE r[j] = es[j + n]
      <3>1. j \in Len(d) + 1 .. Len(d) + Len(c) /\ j - Len(d) = j - i
            /\ j - i \in 1 .. Len(es) - i - n /\ (j - i) + i + n = j + n
        <4>1. j \in i + 1 .. i + (Len(es) - i - n) /\ j - i \in 1 .. Len(es) - i - n /\ (j - i) + i + n = j + n
          BY <1>1, Shift, Zenon
        <4>. QED BY <4>1, <2>l, Zenon
      <3>. QED BY <3>1, <2>1, <1>3, Zenon
    <2>3. Len(r) = Len(es) - n
      <3>1. Len(r) = Len(d) + Len(c)
        BY <2>1, Zenon
      <3>. QED BY <3>1, <2>l, <1>1, SMTT(30)
    <2>. QED BY <2>1, <2>2, <2>3, <1>5, Zenon
  <1>. HIDE DEF r
  <1>7. i \in 1 .. i /\ \A j \in 1 .. i - 2 : j \in 1 .. i /\ j \in 1 .. i - 1
    BY <1>1, SMTT(30)
  <1>9. i > 1 => i - 1 \in 1 .. i /\ i - 1 \in 1 .. i - 1
    BY <1>1
  <1>8. IsMerge(r, es, i, n, pr[i - 1], e)
    BY <1>5, <1>6, <1>7, <1>9, Zenon DEF IsMerge
  <1>. QED BY <1>8, Zenon DEF c, m, d, r
-------------------------------------------------------------------------------
(* allocate: the parts of the entry that is split cover what it covered.     *)

\* The parts of a split entry
Parts(e, e1, e2) ==
    /\ e1.virtual_start = e.virtual_start /\ e2.virtual_start = Stop(e1)
    /\ Stop(e2) = Stop(e) /\ ~IsFree(e1) /\ IsFree(e2)

\* A split leaves a list that covers the space.
LEMMA SplitWellFormed ==
    ASSUME SpaceAssumptions, NEW es, WellFormed(es), NEW i \in DOMAIN es,
           NEW e1 \in EntryType, NEW e2 \in EntryType, Parts(es[i], e1, e2),
           NEW r, IsSplit(r, es, i, e1, e2)
    PROVE  WellFormed(r)
  <1>1. /\ es \in Seq(EntryType) /\ Len(es) \in Nat /\ DOMAIN es = 1 .. Len(es)
        /\ r \in Seq(EntryType) /\ Len(r) = Len(es) + 1 /\ DOMAIN r = 1 .. Len(r)
        /\ \A j \in 1 .. i - 1 : r[j] = es[j]
        /\ r[i] = e1 /\ r[i + 1] = e2
        /\ \A j \in i + 1 .. Len(es) : r[j + 1] = es[j]
    BY DEF WellFormed, IsSplit
  <1>2. /\ \A j \in DOMAIN es : es[j].virtual_start \in Nat /\ es[j].size \in Nat
        /\ e1.virtual_start \in Nat /\ e1.size \in Nat
        /\ e2.virtual_start \in Nat /\ e2.size \in Nat
    <2>1. \A e \in EntryType : e.virtual_start \in Nat /\ e.size \in Nat
      BY EntryFields
    <2>. QED BY <1>1, <2>1
  <1>3. \A k \in DOMAIN r :
            \/ k \in 1 .. i - 1
            \/ k = i
            \/ k = i + 1
            \/ k - 1 \in i + 1 .. Len(es) /\ r[k] = es[k - 1]
    BY <1>1, SMTT(30)
  <1>4. ASSUME NEW a \in Space, NEW j \in DOMAIN es, InEntry(a, es[j])
        PROVE  \E k \in DOMAIN r : k <= j + 1 /\ (j < i => k = j) /\ InEntry(a, r[k])
    <2>1. CASE j < i
      BY <2>1, <1>4, <1>1
    <2>2. CASE j > i
      <3>1. j + 1 \in DOMAIN r /\ r[j + 1] = es[j]
        BY <2>2, <1>1
      <3>. QED BY <3>1, <2>2, <1>4, <1>1
    <2>3. CASE j = i
      <3>1. InEntry(a, e1) \/ InEntry(a, e2)
        BY <2>3, <1>2, <1>4 DEF InEntry, Parts, Stop, Space
      <3>2. i \in DOMAIN r /\ i + 1 \in DOMAIN r
        BY <1>1
      <3>. QED BY <3>1, <3>2, <2>3, <1>1
    <2>. QED BY <2>1, <2>2, <2>3, <1>1, SMTT(30)
  <1>5. Inside(r)
    <2>1. Stop(e1) <= SpaceSize /\ Stop(e2) <= SpaceSize
      BY <1>2, SMTT(30) DEF WellFormed, Inside, Parts, Stop, SpaceAssumptions
    <2>. QED BY <2>1, <1>1, <1>3, SMTT(30) DEF WellFormed, Inside
  <1>6. Followed(r)
    <2>. SUFFICES ASSUME NEW k \in DOMAIN r, ~IsFree(r[k])
                  PROVE  k < Len(r) /\ r[k + 1].virtual_start = Stop(r[k])
      BY Zenon DEF Followed
    <2>f. \A j \in DOMAIN es : ~IsFree(es[j]) => j < Len(es) /\ es[j + 1].virtual_start = Stop(es[j])
      BY Zenon DEF WellFormed, Followed
    <2>1. CASE k \in 1 .. i - 1
      <3>1. r[k] = es[k] /\ es[k + 1].virtual_start = Stop(es[k]) /\ k < Len(r)
        BY <2>1, <2>f, <1>1, SMTT(30)
      <3>2. r[k + 1].virtual_start = es[k + 1].virtual_start
        <4>1. CASE k + 1 = i
          BY <4>1, <1>1, Zenon DEF Parts
        <4>2. CASE k + 1 # i
          BY <4>2, <2>1, <1>1, SMTT(30)
        <4>. QED BY <4>1, <4>2, Zenon
      <3>. QED BY <3>1, <3>2, Zenon
    <2>2. CASE k = i
      BY <2>2, <1>1 DEF Parts
    <2>3. CASE k = i + 1
      BY <2>3, <1>1, Zenon DEF Parts
    <2>4. CASE k - 1 \in i + 1 .. Len(es) /\ r[k] = es[k - 1]
      <3>1. k - 1 \in DOMAIN es
        BY <2>4, <1>1
      <3>2. k - 1 < Len(es) /\ es[(k - 1) + 1].virtual_start = Stop(es[k - 1])
        BY <3>1, <2>4, <2>f, Zenon
      <3>3. k \in i + 1 .. Len(es) /\ (k - 1) + 1 = k
        BY <3>1, <3>2, <2>4, <1>1, SMTT(30)
      <3>4. r[k + 1] = es[k]
        BY <3>3, <1>1, Zenon
      <3>. QED BY <3>2, <3>3, <3>4, <2>4, <1>1, SMTT(30)
    <2>. QED BY <2>1, <2>2, <2>3, <2>4, <1>3, Zenon
  <1>7. CoveredBelow(r)
    <2>. SUFFICES ASSUME NEW k \in DOMAIN r, NEW a \in Space, a < r[k].virtual_start
                  PROVE  \E j \in DOMAIN r : j < k /\ InEntry(a, r[j])
      BY Zenon DEF CoveredBelow
    <2>c. \A l \in DOMAIN es : a < es[l].virtual_start => \E j \in DOMAIN es : j < l /\ InEntry(a, es[j])
      BY Zenon DEF WellFormed, CoveredBelow
    <2>1. CASE k \in 1 .. i - 1
      <3>1. PICK j \in DOMAIN es : j < k /\ InEntry(a, es[j])
        BY <2>1, <2>c, <1>1
      <3>. QED BY <3>1, <2>1, <1>1, SMTT(30)
    <2>2. CASE k = i \/ (k = i + 1 /\ a < es[i].virtual_start)
      <3>1. PICK j \in DOMAIN es : j < i /\ InEntry(a, es[j])
        BY <2>2, <2>c, <1>1, Zenon DEF Parts
      <3>. QED BY <3>1, <2>2, <1>1, SMTT(30)
    <2>3. CASE k = i + 1 /\ ~(a < es[i].virtual_start)
      <3>1. InEntry(a, e1)
        BY <2>3, <1>1, <1>2, SMTT(30) DEF InEntry, Parts, Space
      <3>. QED BY <3>1, <2>3, <1>1, SMTT(30)
    <2>4. CASE k - 1 \in i + 1 .. Len(es) /\ r[k] = es[k - 1]
      <3>1. PICK j \in DOMAIN es : j < k - 1 /\ InEntry(a, es[j])
        BY <2>4, <2>c, <1>1, SMTT(30)
      <3>2. PICK l \in DOMAIN r : l <= j + 1 /\ InEntry(a, r[l])
        BY <3>1, <1>4, Zenon
      <3>. QED BY <3>1, <3>2, <1>1, SMTT(30)
    <2>. QED BY <2>1, <2>2, <2>3, <2>4, <1>3, Zenon
  <1>8. Whole(r)
    BY <1>4, Zenon DEF WellFormed, Whole
  <1>. QED BY <1>1, <1>5, <1>6, <1>7, <1>8, Zenon DEF WellFormed

\* A split keeps the entries apart and every entry but the one that is split.
LEMMA SplitOrdered ==
    ASSUME SpaceAssumptions, NEW es \in Seq(EntryType), NEW i \in DOMAIN es, Ordered(es),
           NEW e1 \in EntryType, NEW e2 \in EntryType, Parts(es[i], e1, e2),
           NEW r, IsSplit(r, es, i, e1, e2)
    PROVE  /\ Ordered(r)
           /\ \A x : HasEntry(x, es) /\ Entry(Phys(x.phys), x.at, x.size) # es[i] => HasEntry(x, r)
  <1>1. /\ Len(es) \in Nat /\ DOMAIN es = 1 .. Len(es)
        /\ r \in Seq(EntryType) /\ Len(r) = Len(es) + 1 /\ DOMAIN r = 1 .. Len(r)
        /\ \A j \in 1 .. i - 1 : r[j] = es[j]
        /\ r[i] = e1 /\ r[i + 1] = e2
        /\ \A j \in i + 1 .. Len(es) : r[j + 1] = es[j]
    BY DEF IsSplit
  <1>2. /\ \A j \in DOMAIN es : es[j].virtual_start \in Nat /\ es[j].size \in Nat
        /\ e1.virtual_start \in Nat /\ e1.size \in Nat
        /\ e2.virtual_start \in Nat /\ e2.size \in Nat
    <2>1. \A e \in EntryType : e.virtual_start \in Nat /\ e.size \in Nat
      BY EntryFields
    <2>. QED BY <1>1, <2>1, SMTT(30)
  <1>3. \A k \in DOMAIN r :
            \/ k \in 1 .. i - 1 /\ r[k] = es[k]
            \/ k = i /\ r[k] = e1
            \/ k = i + 1 /\ r[k] = e2
            \/ k - 1 \in i + 1 .. Len(es) /\ r[k] = es[k - 1]
    BY <1>1, SMTT(30)
  <1>4. /\ e1.virtual_start = es[i].virtual_start /\ Stop(e1) = e2.virtual_start
        /\ Stop(e2) = Stop(es[i]) /\ Stop(e1) <= Stop(e2) /\ e1.virtual_start <= e2.virtual_start
        /\ Stop(e1) \in Nat /\ Stop(e2) \in Nat
    BY <1>2, SMTT(30) DEF Parts, Stop
  <1>5. Ordered(r)
    <2>. SUFFICES ASSUME NEW k \in DOMAIN r, NEW l \in DOMAIN r, k < l
                  PROVE  Stop(r[k]) <= r[l].virtual_start
      BY Zenon DEF Ordered
    <2>. DEFINE b(m) == IF m <= i THEN m ELSE m - 1
    <2>1. ASSUME NEW m \in DOMAIN r
          PROVE  /\ b(m) \in DOMAIN es /\ Stop(r[m]) <= Stop(es[b(m)])
                 /\ es[b(m)].virtual_start <= r[m].virtual_start
                 /\ Stop(r[m]) \in Nat /\ r[m].virtual_start \in Nat
                 /\ Stop(es[b(m)]) \in Nat /\ es[b(m)].virtual_start \in Nat
      <3>n. \A j \in DOMAIN es : Stop(es[j]) \in Nat /\ es[j].virtual_start \in Nat
        BY <1>2, SMTT(30) DEF Stop
      <3>1. CASE m \in 1 .. i - 1 /\ r[m] = es[m]
        <4>1. b(m) = m /\ m \in DOMAIN es
          BY <3>1, <1>1, SMTT(30)
        <4>. QED BY <4>1, <3>1, <3>n, SMTT(30)
      <3>2. CASE m = i /\ r[m] = e1
        <4>1. b(m) = i
          BY <3>2, <1>1, SMTT(30)
        <4>. QED BY <4>1, <3>2, <3>n, <1>2, <1>4, SMTT(30)
      <3>3. CASE m = i + 1 /\ r[m] = e2
        <4>1. b(m) = i
          BY <3>3, <1>1, SMTT(30)
        <4>. QED BY <4>1, <3>3, <3>n, <1>2, <1>4, SMTT(30)
      <3>4. CASE m - 1 \in i + 1 .. Len(es) /\ r[m] = es[m - 1]
        <4>1. b(m) = m - 1 /\ m - 1 \in DOMAIN es
          BY <3>4, <1>1, SMTT(30)
        <4>. QED BY <4>1, <3>4, <3>n, SMTT(30)
      <3>. QED BY <3>1, <3>2, <3>3, <3>4, <1>3, Zenon
    <2>2. CASE k = i /\ l = i + 1
      <3>1. r[k] = e1 /\ r[l] = e2
        BY <2>2, <1>1, Zenon
      <3>. QED BY <3>1, <1>4, SMTT(30)
    <2>3. CASE ~(k = i /\ l = i + 1)
      <3>1. b(k) < b(l)
        BY <2>3, <1>1, SMTT(30)
      <3>. HIDE DEF b
      <3>2. Stop(es[b(k)]) <= es[b(l)].virtual_start
        BY <3>1, <2>1, Zenon DEF Ordered
      <3>3. /\ Stop(r[k]) <= Stop(es[b(k)]) /\ es[b(l)].virtual_start <= r[l].virtual_start
            /\ Stop(r[k]) \in Nat /\ r[l].virtual_start \in Nat
            /\ Stop(es[b(k)]) \in Nat /\ es[b(l)].virtual_start \in Nat
        BY <2>1, Zenon
      <3>. QED BY <3>2, <3>3, SMTT(30)
    <2>. QED BY <2>2, <2>3, Zenon
  <1>6. ASSUME NEW x, HasEntry(x, es), Entry(Phys(x.phys), x.at, x.size) # es[i]
        PROVE  HasEntry(x, r)
    <2>1. PICK j \in DOMAIN es : es[j] = Entry(Phys(x.phys), x.at, x.size)
      BY <1>6, Zenon DEF HasEntry
    <2>2. j # i
      BY <2>1, <1>6, Zenon
    <2>3. CASE j < i
      <3>1. j \in DOMAIN r /\ r[j] = es[j]
        BY <2>3, <1>1
      <3>. QED BY <3>1, <2>1, Zenon DEF HasEntry
    <2>4. CASE j > i
      <3>1. j + 1 \in DOMAIN r /\ r[j + 1] = es[j]
        BY <2>4, <1>1, SMTT(30)
      <3>. QED BY <3>1, <2>1, Zenon DEF HasEntry
    <2>. QED BY <2>2, <2>3, <2>4, <1>1
  <1>. QED BY <1>5, <1>6, Zenon
-------------------------------------------------------------------------------
(* deallocate: the entry that is put back covers its own pages and those of  *)
(* the next one, the entry in front of it can only grow.                     *)

\* The entry that takes the place of entry i and of the n after it
Union(es, i, n, e) ==
    /\ IsFree(e) /\ e.virtual_start = es[i].virtual_start
    /\ Stop(e) = Stop(es[i + n])
\* The entry in front of it
Grown(old, f) ==
    /\ f.virtual_start = old.virtual_start /\ Stop(old) <= Stop(f)
    /\ ~IsFree(f) => f = old

\* A merge leaves a list that covers the space, whether or not the entry in front of
\* it grew.
LEMMA MergeWellFormed ==
    ASSUME SpaceAssumptions, NEW es, WellFormed(es), NEW i \in DOMAIN es, ~IsFree(es[i]),
           NEW n \in {0, 1}, i + n <= Len(es),
           NEW f, i > 1 => f \in EntryType /\ Grown(es[i - 1], f) /\ Stop(f) <= SpaceSize,
           NEW e \in EntryType, Union(es, i, n, e),
           NEW r, IsMerge(r, es, i, n, f, e)
    PROVE  WellFormed(r)
  <1>1. /\ es \in Seq(EntryType) /\ Len(es) \in Nat /\ DOMAIN es = 1 .. Len(es)
        /\ r \in Seq(EntryType) /\ Len(r) = Len(es) - n /\ DOMAIN r = 1 .. Len(r)
        /\ \A j \in 1 .. i - 2 : r[j] = es[j]
        /\ i > 1 => r[i - 1] = f
        /\ r[i] = e
        /\ \A j \in i + 1 .. Len(es) - n : r[j] = es[j + n]
        /\ n \in Nat /\ i \in Nat
    BY SMTT(30) DEF WellFormed, IsMerge
  <1>2. /\ \A j \in DOMAIN es : es[j].virtual_start \in Nat /\ es[j].size \in Nat
        /\ e.virtual_start \in Nat /\ e.size \in Nat
        /\ i > 1 => f.virtual_start \in Nat /\ f.size \in Nat
    <2>1. \A x \in EntryType : x.virtual_start \in Nat /\ x.size \in Nat
      BY EntryFields, SMTT(30)
    <2>. QED BY <1>1, <2>1, SMTT(30)
  <1>3. \A k \in DOMAIN r :
            \/ k \in 1 .. i - 2 /\ r[k] = es[k]
            \/ k = i - 1 /\ i > 1 /\ r[k] = f
            \/ k = i /\ r[k] = e
            \/ k \in i + 1 .. Len(es) - n /\ r[k] = es[k + n]
    <2>1. ASSUME NEW k \in DOMAIN r
          PROVE  k \in 1 .. i - 2 \/ (k = i - 1 /\ i > 1) \/ k = i \/ k \in i + 1 .. Len(es) - n
      <3>1. k \in 1 .. Len(es) - n /\ Len(es) \in Nat /\ n \in Nat /\ i \in Nat /\ i >= 1
        BY <1>1
      <3>. QED BY <3>1, SMTT(30)
    <2>. QED BY <2>1, <1>1, Zenon
  <1>f. \A j \in DOMAIN es : ~IsFree(es[j]) => j < Len(es) /\ es[j + 1].virtual_start = Stop(es[j])
    BY Zenon DEF WellFormed, Followed
  <1>v. \A k \in 1 .. i : k \in DOMAIN r /\ r[k].virtual_start = es[k].virtual_start
    <2>. TAKE k \in 1 .. i
    <2>1. k \in DOMAIN r /\ k \notin i + 1 .. Len(es) - n
      <3>1. k \in Nat /\ k >= 1 /\ k <= Len(es) - n /\ k < i + 1
        BY <1>1, SMTT(30)
      <3>. QED BY <3>1, <1>1, SMTT(30)
    <2>. QED BY <2>1, <1>3, Zenon DEF Grown, Union
  <1>4. ASSUME NEW a \in Space, NEW j \in DOMAIN es, InEntry(a, es[j])
        PROVE  \E k \in DOMAIN r : k <= j /\ (j > i => k + n <= j) /\ InEntry(a, r[k])
    <2>1. CASE j < i - 1
      <3>1. j \in DOMAIN r /\ r[j] = es[j]
        BY <2>1, <1>1, SMTT(30)
      <3>. QED BY <3>1, <2>1, <1>4, <1>1, SMTT(30)
    <2>2. CASE j = i - 1
      <3>1. j \in DOMAIN r /\ r[j] = f /\ i > 1
        BY <2>2, <1>1, SMTT(30)
      <3>2. InEntry(a, f)
        BY <2>2, <3>1, <1>2, <1>4, SMTT(30) DEF InEntry, Grown, Stop, Space
      <3>. QED BY <3>1, <3>2, <2>2, <1>1, SMTT(30)
    <2>3. CASE j = i \/ (j = i + 1 /\ n = 1)
      <3>1. es[i + 1].virtual_start = Stop(es[i]) /\ i < Len(es)
        BY <1>f, Zenon
      <3>2. InEntry(a, e)
        <4>1. e.virtual_start = es[i].virtual_start /\ Stop(e) = Stop(es[i + n]) /\ i + 1 \in DOMAIN es
          BY <3>1, <1>1, SMTT(30) DEF Union
        <4>2. /\ es[i].virtual_start \in Nat /\ es[i].size \in Nat
              /\ es[i + 1].virtual_start \in Nat /\ es[i + 1].size \in Nat /\ a \in Nat
          BY <4>1, <1>2, SMTT(30) DEF Space
        <4>3. CASE n = 0
          <5>1. i + n = i /\ j = i
            BY <4>3, <2>3, <1>1, SMTT(30)
          <5>. QED BY <5>1, <4>1, <1>4, Zenon DEF InEntry
        <4>4. CASE n = 1
          <5>1. Stop(e) = Stop(es[i + 1]) /\ (InEntry(a, es[i]) \/ InEntry(a, es[i + 1]))
            BY <4>4, <4>1, <2>3, <1>4, Zenon
          <5>. QED BY <5>1, <4>1, <4>2, <3>1, SMTT(30) DEF InEntry, Stop
        <4>. QED BY <4>3, <4>4, Zenon
      <3>. QED BY <3>2, <2>3, <1>1, SMTT(30)
    <2>4. CASE j > i + n
      <3>1. /\ j - n \in i + 1 .. Len(es) - n /\ j - n \in 1 .. Len(es) - n
            /\ (j - n) + n = j /\ j - n <= j /\ j <= j
        BY <2>4, <1>1, UnShift, SMTT(30)
      <3>2. j - n \in DOMAIN r /\ r[j - n] = es[j] /\ j - n <= j /\ (j - n) + n <= j
        BY <3>1, <1>1, Zenon
      <3>. QED BY <3>2, <1>4, Zenon
    <2>. QED BY <2>1, <2>2, <2>3, <2>4, <1>1, SMTT(30)
  <1>5. Inside(r)
    <2>1. Stop(e) <= SpaceSize
      BY <1>1, SMTT(30) DEF WellFormed, Inside, Union
    <2>2. \A j \in DOMAIN es : Stop(es[j]) <= SpaceSize
      BY Zenon DEF WellFormed, Inside
    <2>. SUFFICES ASSUME NEW k \in DOMAIN r PROVE Stop(r[k]) <= SpaceSize
      BY Zenon DEF Inside
    <2>3. CASE k \in i + 1 .. Len(es) - n /\ r[k] = es[k + n]
      BY <2>2, <2>3, <1>1, SMTT(30)
    <2>. QED BY <2>1, <2>2, <2>3, <1>1, <1>3, SMTT(30)
  <1>6. Followed(r)
    <2>. SUFFICES ASSUME NEW k \in DOMAIN r, ~IsFree(r[k])
                  PROVE  k < Len(r) /\ r[k + 1].virtual_start = Stop(r[k])
      BY Zenon DEF Followed
    <2>1. CASE k \in 1 .. i - 2 /\ r[k] = es[k]
      <3>1. k + 1 \in 1 .. i /\ k \in DOMAIN es /\ k < Len(r)
        BY <2>1, <1>1, SMTT(30)
      <3>. QED BY <3>1, <2>1, <1>f, <1>v, Zenon
    <2>2. CASE k = i - 1 /\ i > 1 /\ r[k] = f
      <3>1. f = es[i - 1] /\ k \in DOMAIN es /\ k + 1 = i /\ i \in 1 .. i /\ k < Len(r)
        BY <2>2, <1>1, SMTT(30) DEF Grown
      <3>. QED BY <3>1, <2>2, <1>f, <1>v, Zenon
    <2>3. CASE k = i /\ r[k] = e
      BY <2>3, Zenon DEF Union
    <2>4. CASE k \in i + 1 .. Len(es) - n /\ r[k] = es[k + n]
      <3>1. k + n \in DOMAIN es
        BY <2>4, <1>1, SMTT(30)
      <3>2. k + n < Len(es) /\ es[(k + n) + 1].virtual_start = Stop(es[k + n])
        BY <3>1, <2>4, <1>f, Zenon
      <3>3. k + 1 \in i + 1 .. Len(es) - n /\ (k + 1) + n = (k + n) + 1 /\ k < Len(r)
        BY <3>2, <2>4, <1>1, SMTT(30)
      <3>4. r[k + 1] = es[(k + n) + 1]
        BY <3>3, <1>1, SMTT(30)
      <3>. QED BY <3>2, <3>3, <3>4, <2>4, Zenon
    <2>. QED BY <2>1, <2>2, <2>3, <2>4, <1>3, Zenon
  <1>7. CoveredBelow(r)
    <2>. SUFFICES ASSUME NEW k \in DOMAIN r, NEW a \in Space, a < r[k].virtual_start
                  PROVE  \E j \in DOMAIN r : j < k /\ InEntry(a, r[j])
      BY Zenon DEF CoveredBelow
    <2>c. \A l \in DOMAIN es : a < es[l].virtual_start => \E j \in DOMAIN es : j < l /\ InEntry(a, es[j])
      BY Zenon DEF WellFormed, CoveredBelow
    <2>1. CASE k \in 1 .. i
      <3>1. k \in DOMAIN es /\ a < es[k].virtual_start
        BY <2>1, <1>1, <1>v, SMTT(30)
      <3>2. PICK j \in DOMAIN es : j < k /\ InEntry(a, es[j])
        BY <3>1, <2>c, Zenon
      <3>3. PICK l \in DOMAIN r : l <= j /\ InEntry(a, r[l])
        BY <3>2, <1>4, Zenon
      <3>. QED BY <3>2, <3>3, <1>1, SMTT(30)
    <2>2. CASE k \in i + 1 .. Len(es) - n /\ r[k] = es[k + n]
      <3>1. k + n \in DOMAIN es /\ a < es[k + n].virtual_start
        BY <2>2, <1>1, SMTT(30)
      <3>2. PICK j \in DOMAIN es : j < k + n /\ InEntry(a, es[j])
        BY <3>1, <2>c, Zenon
      <3>3. PICK l \in DOMAIN r : l <= j /\ (j > i => l + n <= j) /\ InEntry(a, r[l])
        BY <3>2, <1>4, Zenon
      <3>4. l < k
        BY <3>2, <3>3, <2>2, <1>1, SMTT(30)
      <3>. QED BY <3>3, <3>4, Zenon
    <2>. QED BY <2>1, <2>2, <1>3, <1>1, SMTT(30)
  <1>8. Whole(r)
    BY <1>4, Zenon DEF WellFormed, Whole
  <1>. QED BY <1>1, <1>5, <1>6, <1>7, <1>8, Zenon DEF WellFormed

\* A merge that leaves the entry in front alone keeps the entries apart, and all
\* mapped ones but the one that is unmapped.
LEMMA MergeOrdered ==
    ASSUME SpaceAssumptions, NEW es \in Seq(EntryType), Ordered(es), NEW i \in DOMAIN es,
           NEW n \in {0, 1}, i + n <= Len(es), n = 1 => IsFree(es[i + 1]),
           NEW f, i > 1 => f = es[i - 1], NEW e \in EntryType, Union(es, i, n, e),
           NEW r, IsMerge(r, es, i, n, f, e)
    PROVE  /\ Ordered(r)
           /\ \A x : HasEntry(x, es) /\ Entry(Phys(x.phys), x.at, x.size) # es[i] => HasEntry(x, r)
  <1>1. /\ Len(es) \in Nat /\ DOMAIN es = 1 .. Len(es)
        /\ r \in Seq(EntryType) /\ Len(r) = Len(es) - n /\ DOMAIN r = 1 .. Len(r)
        /\ \A j \in 1 .. i - 1 : r[j] = es[j]
        /\ r[i] = e
        /\ \A j \in i + 1 .. Len(es) - n : r[j] = es[j + n]
        /\ n \in Nat /\ i \in Nat
    BY SMTT(30) DEF IsMerge
  <1>3. \A k \in DOMAIN r :
            \/ k \in 1 .. i - 1 /\ r[k] = es[k]
            \/ k = i /\ r[k] = e
            \/ k \in i + 1 .. Len(es) - n /\ r[k] = es[k + n]
    BY <1>1, SMTT(30)
  <1>4. e.virtual_start = es[i].virtual_start /\ Stop(e) = Stop(es[i + n])
    BY Zenon DEF Union
  <1>5. Ordered(r)
    <2>. SUFFICES ASSUME NEW k \in DOMAIN r, NEW l \in DOMAIN r, k < l
                  PROVE  Stop(r[k]) <= r[l].virtual_start
      BY Zenon DEF Ordered
    <2>o. \A b, c \in DOMAIN es : b < c => Stop(es[b]) <= es[c].virtual_start
      BY Zenon DEF Ordered
    <2>1. CASE k \in 1 .. i - 1 /\ r[k] = es[k]
      <3>1. \E m \in DOMAIN es : k < m /\ r[l].virtual_start = es[m].virtual_start
        <4>1. CASE l \in 1 .. i - 1 /\ r[l] = es[l]
          BY <4>1, <1>1, SMTT(30)
        <4>2. CASE l = i /\ r[l] = e
          BY <4>2, <2>1, <1>1, <1>4, Zenon
        <4>3. CASE l \in i + 1 .. Len(es) - n /\ r[l] = es[l + n]
          <5>1. l + n \in DOMAIN es /\ k < l + n
            BY <4>3, <2>1, <1>1, SMTT(30)
          <5>. QED BY <5>1, <4>3, Zenon
        <4>. QED BY <4>1, <4>2, <4>3, <1>3, Zenon
      <3>2. k \in DOMAIN es
        BY <2>1, <1>1, SMTT(30)
      <3>. QED BY <3>1, <3>2, <2>1, <2>o, Zenon
    <2>2. CASE k = i /\ r[k] = e
      <3>0. l \in i + 1 .. Len(es) - n
        BY <2>2, <1>1, SMTT(30)
      <3>2. l + n \in DOMAIN es /\ r[l] = es[l + n] /\ i + n < l + n
        BY <3>0, <1>1, SMTT(30)
      <3>1. l + n \in DOMAIN es /\ i + n \in DOMAIN es /\ i + n < l + n /\ r[l] = es[l + n]
        BY <3>2, <1>1, SMTT(30)
      <3>. QED BY <3>1, <2>2, <2>o, <1>4, Zenon
    <2>3. CASE k \in i + 1 .. Len(es) - n /\ r[k] = es[k + n]
      <3>0. l \in i + 1 .. Len(es) - n
        BY <2>3, <1>1, SMTT(30)
      <3>2. l + n \in DOMAIN es /\ r[l] = es[l + n]
        BY <3>0, <1>1, SMTT(30)
      <3>3. k + n \in DOMAIN es /\ k + n < l + n
        BY <2>3, <3>0, <1>1, SMTT(30)
      <3>1. l + n \in DOMAIN es /\ k + n \in DOMAIN es /\ k + n < l + n /\ r[l] = es[l + n]
        BY <3>2, <3>3, Zenon
      <3>. QED BY <3>1, <2>3, <2>o, Zenon
    <2>. QED BY <2>1, <2>2, <2>3, <1>3, Zenon
  <1>6. ASSUME NEW x, HasEntry(x, es), Entry(Phys(x.phys), x.at, x.size) # es[i]
        PROVE  HasEntry(x, r)
    <2>1. PICK j \in DOMAIN es : es[j] = Entry(Phys(x.phys), x.at, x.size)
      BY <1>6, Zenon DEF HasEntry
    <2>2. j # i /\ ~IsFree(es[j])
      <3>1. es[j].physical_start = Phys(x.phys)
        BY <2>1, EntryFacts, SMTT(30)
      <3>. QED BY <3>1, <2>1, <1>6, EntryFacts, SMTT(30) DEF IsFree
    <2>3. CASE j < i
      <3>0. j \in 1 .. i - 1 /\ j \in 1 .. Len(es) - n
        BY <2>3, <1>1, SMTT(30)
      <3>1. j \in DOMAIN r /\ r[j] = es[j]
        BY <3>0, <1>1, Zenon
      <3>. QED BY <3>1, <2>1, Zenon DEF HasEntry
    <2>4. CASE j > i
      <3>0. j > i + n
        <4>1. n = 1 => j # i + 1
          BY <2>2, Zenon
        <4>. QED BY <4>1, <2>4, <1>1, SMTT(30)
      <3>2. j - n \in i + 1 .. Len(es) - n /\ j - n \in 1 .. Len(es) - n /\ (j - n) + n = j
        BY <3>0, <1>1, UnShift, SMTT(30)
      <3>1. j - n \in DOMAIN r /\ r[j - n] = es[j]
        BY <3>2, <1>1, Zenon
      <3>. QED BY <3>1, <2>1, Zenon DEF HasEntry
    <2>. QED BY <2>2, <2>3, <2>4, <1>1, SMTT(30)
  <1>. QED BY <1>5, <1>6, Zenon
-------------------------------------------------------------------------------
(* The steps                                                                 *)

\* The list that allocate works on, created or not
LEMMA ListIsRight ==
    ASSUME SpaceAssumptions, IInv
    PROVE  /\ WellFormed(List)
           /\ ~merged => Ordered(List) /\ \A x \in live : HasEntry(x, List)
  <1>1. CASE entries # <<>>
    BY <1>1, Zenon DEF IInv, List
  <1>2. CASE entries = <<>>
    <2>. DEFINE e == Entry(Unmapped, 0, SpaceSize)
                l == <<e>>
    <2>1. List = l
      BY <1>2, Zenon DEF List
    <2>2. /\ e \in EntryType /\ IsFree(e) /\ e.virtual_start = 0 /\ e.size = SpaceSize
          /\ SpaceSize \in Nat
      BY EntryFacts DEF SpaceAssumptions, IsFree
    <2>. HIDE DEF e
    <2>3. l \in Seq(EntryType) /\ Len(l) = 1 /\ DOMAIN l = {1} /\ l[1] = e
      BY <2>2
    <2>. HIDE DEF l
    <2>4. Inside(l) /\ Followed(l) /\ CoveredBelow(l) /\ Ordered(l)
      BY <2>2, <2>3, SMTT(30) DEF Inside, Followed, CoveredBelow, Ordered, Stop, Space
    <2>5. Whole(l)
      BY <2>2, <2>3 DEF Whole, InEntry, Stop, Space
    <2>6. ~merged => \A x \in live : HasEntry(x, l)
      <3>1. \A x : ~HasEntry(x, <<>>)
        BY DEF HasEntry
      <3>. QED BY <3>1, <1>2, Zenon DEF IInv
    <2>. QED BY <2>1, <2>3, <2>4, <2>5, <2>6, Zenon DEF WellFormed
  <1>. QED BY <1>1, <1>2, Zenon

\* A set of naturals has a least element: the first entry that fits, or that is hit.
LEMMA Least == ASSUME NEW S, S \subseteq Nat, S # {} PROVE \E x \in S : \A y \in S : x <= y
  <1>1. PICK n \in S : TRUE BY Zenon
  <1> DEFINE T == {0 .. x : x \in {k \in S : k <= n}}
  <1> DEFINE R == StrictSubsetOrdering(0 .. n)
  <1>2. IsFiniteSet(0 .. n) BY <1>1, FS_Interval
  <1>3. IsWellFoundedOn(R, SUBSET (0 .. n))
    BY <1>2, FS_FiniteSubsetsOfFinite, FS_StrictSubsetOrderingWellFounded, Zenon
  <1>4. T \subseteq SUBSET (0 .. n)
    <2> SUFFICES ASSUME NEW k \in S, k <= n PROVE 0 .. k \subseteq 0 .. n BY Zenon
    <2> QED BY <1>1
  <1>5. T # {}
    <2>1. n <= n BY <1>1
    <2>2. 0 .. n \in T BY <1>1, <2>1, Zenon
    <2> QED BY <2>2, Zenon
  <1>6. PICK x \in T : \A y \in T : ~(<<y, x>> \in R)
    <2> HIDE DEF T, R
    <2> QED BY <1>3, <1>4, <1>5, WFMin, Zenon
  <1>7. PICK k \in S : k <= n /\ x = 0 .. k BY <1>6, Zenon
  <1>8. ASSUME NEW y \in S PROVE k <= y
    <2> SUFFICES ASSUME y < k PROVE FALSE BY <1>1, <1>7
    <2>1. y <= n BY <1>1, <1>7
    <2>2. 0 .. y \in T BY <2>1, Zenon
    <2>3. 0 .. y \subseteq 0 .. k /\ 0 .. y # 0 .. k BY <1>1, <1>7
    <2>4. 0 .. y \in SUBSET (0 .. n) /\ x \in SUBSET (0 .. n) BY <1>4, <2>2, Zenon
    <2>5. <<0 .. y, x>> \in R BY <2>3, <2>4, <1>7, Zenon DEF StrictSubsetOrdering
    <2> QED BY <1>6, <2>2, <2>5, Zenon
  <1> QED BY <1>8, <1>7, Zenon

\* The live values have a size.
LEMMA LiveFields ==
    ASSUME SpaceAssumptions, LiveType, NEW x \in live
    PROVE  /\ x.at \in Nat /\ x.at < SpaceSize /\ x.size \in Nat /\ x.size > 0
           /\ x.phys \in PhysStarts /\ x.phys \in Nat /\ x.size \in Sizes /\ x.at \in Space
  <1>1. x.at \in Space /\ x.size \in Sizes /\ x.phys \in PhysStarts
    BY Zenon DEF LiveType
  <1>2. x.size \in Nat \ {0} /\ x.phys \in Nat /\ SpaceSize \in Nat
    <2>1. Sizes \subseteq Nat \ {0} /\ PhysStarts \subseteq Nat /\ SpaceSize \in Nat \ {0}
      BY Zenon DEF SpaceAssumptions
    <2>. QED BY <2>1, <1>1, Zenon
  <1>3. x.at \in Nat /\ x.at < SpaceSize
    BY <1>1, <1>2 DEF Space
  <1>4. x.size > 0
    BY <1>2
  <1>. QED BY <1>1, <1>2, <1>3, <1>4, Zenon

\* A value whose entry is in order has its pages inside of the space and apart from
\* every other entry.
LEMMA PagesApart ==
    ASSUME SpaceAssumptions, LiveType, NEW es, WellFormed(es), Ordered(es),
           NEW x \in live, NEW j \in DOMAIN es, es[j] = Entry(Phys(x.phys), x.at, x.size),
           NEW i \in DOMAIN es, i # j, NEW k \in 0 .. x.size - 1
    PROVE  x.at + k \in Space /\ ~InEntry(x.at + k, es[i])
  <1>1. /\ x.at \in Nat /\ x.size \in Nat
    BY LiveFields, Zenon
  <1>2. es[j].virtual_start = x.at /\ Stop(es[j]) = x.at + x.size
    BY EntryFacts, SMTT(30) DEF Stop
  <1>3. /\ es \in Seq(EntryType) /\ Stop(es[j]) <= SpaceSize /\ DOMAIN es = 1 .. Len(es)
        /\ Len(es) \in Nat /\ SpaceSize \in Nat
    BY SMTT(30) DEF WellFormed, Inside, SpaceAssumptions
  <1>4. es[i].virtual_start \in Nat /\ es[i].size \in Nat
    <2>1. es[i] \in EntryType
      BY <1>3
    <2>. QED BY <2>1, EntryFields, SMTT(30)
  <1>5. Stop(es[i]) <= es[j].virtual_start \/ Stop(es[j]) <= es[i].virtual_start
    BY <1>3, SMTT(30) DEF Ordered
  <1>6. x.at + k \in Space
    BY <1>1, <1>2, <1>3, SMTT(30) DEF Space
  <1>7. ~InEntry(x.at + k, es[i])
    BY <1>1, <1>2, <1>4, <1>5, SMTT(30) DEF InEntry, Stop
  <1>. QED BY <1>6, <1>7, Zenon

\* new of memory that is not mapped takes the front of the first entry that fits.
LEMMA NewKeeps ==
    ASSUME SpaceAssumptions, IInv, NEW p \in PhysStarts, NEW s \in Sizes, New(p, s)
    PROVE  IInv'
  <1>. DEFINE i == CHOOSE k \in Fitting(s) : \A j \in Fitting(s) : k <= j
              e == List[i]
              v == e.virtual_start
              e1 == Entry(Phys(p), v, s)
              e2 == Entry(Unmapped, v + s, e.size - s)
              new == [at |-> v, size |-> s, phys |-> p]
  <1>1. /\ ~panicked /\ get_entry_containing(p) = {} /\ Fitting(s) # {}
        /\ entries' = Split(i, p, s) /\ live' = live \cup {new}
        /\ mapped' = [a \in Space |-> IF a \in Covered(v, s) THEN Phys(p + a - v) ELSE mapped[a]]
        /\ UNCHANGED <<panicked, merged>>
    BY Zenon DEF New
  <1>2. /\ WellFormed(List) /\ (~merged => Ordered(List) /\ \A x \in live : HasEntry(x, List))
        /\ List \in Seq(EntryType)
    BY ListIsRight, Zenon DEF WellFormed
  <1>3. i \in Fitting(s)
    <2>1. \A k \in Fitting(s) : k \in Nat
      BY <1>2, SMTT(30) DEF Fitting
    <2>2. \E k \in Fitting(s) : \A j \in Fitting(s) : k <= j
      BY <1>1, <2>1, Fitting(s) \subseteq Nat, Least, Zenon DEF Fitting
    <2>. QED BY <2>2, Zenon
  <1>4. /\ i \in DOMAIN List /\ IsFree(e) /\ e.size >= s
    BY <1>3, Zenon DEF Fitting
  <1>5. Split(i, p, s) = SubSeq(List, 1, i - 1) \o <<e1, e2>> \o SubSeq(List, i + 1, Len(List))
    BY Zenon DEF Split
  <1>. HIDE DEF i
  <1>6. e \in EntryType /\ v \in Nat /\ e.size \in Nat /\ s \in Nat /\ s > 0 /\ SpaceSize \in Nat
        /\ v + e.size <= SpaceSize /\ p \in Nat
    <2>1. e \in EntryType
      BY <1>2, <1>4
    <2>2. Stop(e) <= SpaceSize
      BY <1>2, <1>4, Zenon DEF WellFormed, Inside
    <2>. QED BY <2>1, <2>2, EntryFields DEF SpaceAssumptions, Stop
  <1>. HIDE DEF e
  <1>7. e1 \in EntryType /\ e2 \in EntryType
    <2>1. /\ v \in 0 .. SpaceSize /\ s \in 0 .. SpaceSize
          /\ v + s \in 0 .. SpaceSize /\ e.size - s \in 0 .. SpaceSize
      BY <1>4, <1>6
    <2>. QED BY <2>1, EntryFacts, Zenon
  <1>8. Parts(e, e1, e2)
    BY <1>4, <1>6, EntryFacts, SMTT(30) DEF Parts, Stop, IsFree
  <1>9. IsSplit(entries', List, i, e1, e2)
    BY <1>1, <1>2, <1>4, <1>5, <1>7, SplitShape, Zenon
  <1>10. WellFormed(entries') /\ i \in DOMAIN entries' /\ entries'[i] = e1
    <2>1. WellFormed(entries')
      BY <1>2, <1>4, <1>7, <1>8, <1>9, SplitWellFormed, Zenon DEF e
    <2>2. i \in DOMAIN entries' /\ entries'[i] = e1
      BY <1>2, <1>4, <1>9, SMTT(30) DEF IsSplit
    <2>. QED BY <2>1, <2>2, Zenon
  <1>11. LiveType' /\ DOMAIN mapped' = Space
    <2>1. v \in Space
      BY <1>4, <1>6 DEF Space
    <2>. QED BY <1>1, <2>1, SMTT(30) DEF IInv, LiveType
  <1>12. ASSUME ~merged
         PROVE  /\ Ordered(entries')
                /\ \A x \in live' : HasEntry(x, entries')
                /\ \A x \in live' : \A k \in 0 .. x.size - 1 : mapped'[x.at + k] = Phys(x.phys + k)
                /\ \A x, y \in live' : x # y => x.phys # y.phys
    <2>1. /\ Ordered(entries')
          /\ \A x : HasEntry(x, List) /\ Entry(Phys(x.phys), x.at, x.size) # e => HasEntry(x, entries')
      BY <1>12, <1>2, <1>4, <1>7, <1>8, <1>9, SplitOrdered, SMTT(30) DEF e
    <2>2. \A x : Entry(Phys(x.phys), x.at, x.size) # e
      <3>1. \A x : Entry(Phys(x.phys), x.at, x.size).physical_start # Unmapped
        BY EntryFacts, SMTT(30)
      <3>. QED BY <3>1, <1>4, Zenon DEF IsFree
    <2>3. \A x \in live' : HasEntry(x, entries')
      <3>1. HasEntry(new, entries')
        BY <1>10, Zenon DEF HasEntry
      <3>. QED BY <1>1, <1>2, <1>12, <2>1, <2>2, <3>1, Zenon
    <2>4. ASSUME NEW x \in live, NEW k \in 0 .. x.size - 1
          PROVE  mapped'[x.at + k] = Phys(x.phys + k)
      <3>1. PICK j \in DOMAIN List : List[j] = Entry(Phys(x.phys), x.at, x.size)
        BY <1>2, <1>12, Zenon DEF HasEntry
      <3>2. i # j
        BY <3>1, <2>2, Zenon DEF e
      <3>3. x.at + k \in Space /\ ~InEntry(x.at + k, e)
        BY <3>1, <3>2, <1>2, <1>4, <1>12, PagesApart, Zenon DEF IInv, e
      <3>4. x.at + k \notin Covered(v, s)
        BY <3>3, <1>4, <1>6, SMTT(30) DEF InEntry, Stop, Covered, Space
      <3>5. mapped[x.at + k] = Phys(x.phys + k)
        BY <1>12, Zenon DEF IInv
      <3>. QED BY <3>3, <3>4, <3>5, <1>1, Zenon
    <2>5. ASSUME NEW k \in 0 .. s - 1 PROVE mapped'[v + k] = Phys(p + k)
      <3>1. v + k \in Space /\ v + k \in Covered(v, s) /\ p + (v + k) - v = p + k
        BY <1>4, <1>6 DEF Space, Covered
      <3>. QED BY <3>1, <1>1, Zenon
    <2>6. \A x \in live' : \A k \in 0 .. x.size - 1 : mapped'[x.at + k] = Phys(x.phys + k)
      <3>1. new.at = v /\ new.size = s /\ new.phys = p
        BY Zenon
      <3>. QED BY <3>1, <2>4, <2>5, <1>1, Zenon
    <2>7. \A x \in live : x.phys # p
      <3>. SUFFICES ASSUME NEW x \in live, x.phys = p PROVE FALSE
        BY Zenon
      <3>1. PICK j \in DOMAIN entries : entries[j] = Entry(Phys(x.phys), x.at, x.size)
        BY <1>12, Zenon DEF IInv, HasEntry
      <3>2. x.size \in Nat /\ x.size > 0
        BY LiveFields, Zenon DEF IInv
      <3>3. j \in get_entry_containing(p)
        BY <3>1, <3>2, <1>6, EntryFacts, SMTT(30) DEF get_entry_containing, IsFree
      <3>. QED BY <3>3, <1>1, Zenon
    <2>8. \A x, y \in live' : x # y => x.phys # y.phys
      <3>1. new.phys = p
        BY Zenon
      <3>. QED BY <3>1, <2>7, <1>1, <1>12, Zenon DEF IInv
    <2>. QED BY <2>1, <2>3, <2>6, <2>8, Zenon
  <1>. QED BY <1>1, <1>10, <1>11, <1>12, Zenon DEF IInv

\* new that fails leaves the list alone, but for creating it.
LEMMA NewFailsKeeps ==
    ASSUME SpaceAssumptions, IInv, NEW p, NEW s, NewFails(p, s)
    PROVE  IInv'
  <1>1. UNCHANGED <<live, mapped, panicked, merged>> /\ (entries' = entries \/ entries' = List)
    BY Zenon DEF NewFails
  <1>2. CASE entries' = entries
    BY <1>1, <1>2, Zenon DEF IInv, LiveType, HasEntry
  <1>3. CASE entries' = List
    BY <1>1, <1>3, ListIsRight, Zenon DEF IInv, LiveType
  <1>. QED BY <1>1, <1>2, <1>3, Zenon

\* The entries that the address of a VirtualSpace lies in; drop takes the first.
Hit(vs) ==
    {i \in DOMAIN entries : vs.at \in Covered(entries[i].virtual_start, entries[i].size)}
First(vs) == CHOOSE k \in Hit(vs) : \A j \in Hit(vs) : k <= j
Matches(vs, i) ==
    /\ Hit(vs) # {}
    /\ entries[i].virtual_start = vs.at /\ entries[i].size = vs.size
    /\ ~IsFree(entries[i])
    /\ \A a \in Covered(vs.at, vs.size) : mapped[a] # Unmapped

\* The numbers of the entries and of the list
LEMMA EntriesFacts ==
    ASSUME SpaceAssumptions, IInv, entries # <<>>
    PROVE  /\ WellFormed(entries) /\ entries \in Seq(EntryType)
           /\ Len(entries) \in Nat /\ DOMAIN entries = 1 .. Len(entries)
           /\ \A j \in DOMAIN entries : /\ entries[j] \in EntryType
                                        /\ entries[j].virtual_start \in Nat
                                        /\ entries[j].size \in Nat
                                        /\ Stop(entries[j]) <= SpaceSize
           /\ SpaceSize \in Nat
  <1>1. WellFormed(entries) /\ entries \in Seq(EntryType) /\ Inside(entries)
    BY Zenon DEF IInv, WellFormed
  <1>2. Len(entries) \in Nat /\ DOMAIN entries = 1 .. Len(entries) /\ SpaceSize \in Nat
    BY <1>1 DEF SpaceAssumptions
  <1>3. \A j \in DOMAIN entries : entries[j] \in EntryType
    BY <1>1
  <1>4. \A e \in EntryType : e.virtual_start \in Nat /\ e.size \in Nat
    BY EntryFields, SMTT(30)
  <1>. QED BY <1>1, <1>2, <1>3, <1>4, Zenon DEF Inside

\* The first of the entries that are hit is one of them and no other is before it.
LEMMA FirstIsHit ==
    ASSUME SpaceAssumptions, IInv, NEW vs, Hit(vs) # {}
    PROVE  /\ entries # <<>> /\ First(vs) \in Hit(vs) /\ First(vs) \in DOMAIN entries
           /\ \A j \in Hit(vs) : First(vs) <= j
  <1>1. entries # <<>>
    BY DEF Hit
  <1>2. Hit(vs) \subseteq DOMAIN entries /\ Hit(vs) \subseteq Nat
    BY <1>1, EntriesFacts, SMTT(30) DEF Hit
  <1>3. \E k \in Hit(vs) : \A j \in Hit(vs) : k <= j
    BY <1>2, Least, Zenon
  <1>. QED BY <1>1, <1>2, <1>3, Zenon DEF First

\* Until a drop meets a free entry in front of its own, a value hits its own entry.
LEMMA HitIsOwn ==
    ASSUME SpaceAssumptions, IInv, ~merged, NEW vs \in live
    PROVE  /\ Hit(vs) # {} /\ entries[First(vs)] = Entry(Phys(vs.phys), vs.at, vs.size)
           /\ Matches(vs, First(vs))
  <1>1. PICK j \in DOMAIN entries : entries[j] = Entry(Phys(vs.phys), vs.at, vs.size)
    BY Zenon DEF IInv, HasEntry
  <1>2. entries # <<>>
    BY <1>1
  <1>3. Ordered(entries)
    BY <1>2, Zenon DEF IInv
  <1>4. vs.at \in Nat /\ vs.size \in Nat /\ vs.size > 0
    BY LiveFields, Zenon DEF IInv
  <1>5. /\ entries[j].virtual_start = vs.at /\ entries[j].size = vs.size
        /\ Stop(entries[j]) = vs.at + vs.size /\ ~IsFree(entries[j])
    <2>1. /\ entries[j].virtual_start = vs.at /\ entries[j].size = vs.size
          /\ entries[j].physical_start = Phys(vs.phys) /\ Phys(vs.phys) # Unmapped
      BY <1>1, EntryFacts, SMTT(30)
    <2>. QED BY <2>1, Zenon DEF Stop, IsFree
  <1>6. j \in Hit(vs)
    BY <1>4, <1>5, SMTT(30) DEF Hit, Covered
  <1>7. ASSUME NEW k \in Hit(vs) PROVE k = j
    <2>1. k \in DOMAIN entries /\ vs.at \in Covered(entries[k].virtual_start, entries[k].size)
      BY Zenon DEF Hit
    <2>2. entries[k].virtual_start \in Nat /\ entries[k].size \in Nat
      BY <2>1, <1>2, EntriesFacts, Zenon
    <2>3. entries[k].virtual_start <= vs.at /\ vs.at < Stop(entries[k])
      BY <2>1, <2>2, <1>4 DEF Covered, Stop
    <2>4. k \in Nat /\ j \in Nat
      BY <2>1, <1>2, EntriesFacts
    <2>5. CASE k < j
      BY <2>1, <2>2, <2>3, <2>5, <1>3, <1>4, <1>5, SMTT(30) DEF Ordered, Stop
    <2>6. CASE j < k
      BY <2>1, <2>2, <2>3, <2>6, <1>3, <1>4, <1>5, SMTT(30) DEF Ordered, Stop
    <2>. QED BY <2>4, <2>5, <2>6
  <1>8. First(vs) = j
    BY <1>6, <1>7, FirstIsHit, Zenon
  <1>9. \A a \in Covered(vs.at, vs.size) : mapped[a] # Unmapped
    <2>. SUFFICES ASSUME NEW a \in Covered(vs.at, vs.size) PROVE mapped[a] # Unmapped
      BY Zenon
    <2>1. a - vs.at \in 0 .. vs.size - 1 /\ vs.at + (a - vs.at) = a
      BY <1>4 DEF Covered
    <2>2. mapped[vs.at + (a - vs.at)] = Phys(vs.phys + (a - vs.at))
      BY <2>1, Zenon DEF IInv
    <2>. QED BY <2>1, <2>2, EntryFacts, SMTT(30)
  <1>. QED BY <1>1, <1>5, <1>6, <1>8, <1>9, Zenon DEF Matches

\* A drop that does not panic
Dropped(vs) ==
    /\ entries' = Merge(First(vs))
    /\ live' = live \ {vs}
    /\ mapped' = [a \in Space |-> IF a \in Covered(vs.at, vs.size) THEN Unmapped ELSE mapped[a]]
    /\ merged' = (merged \/ (First(vs) > 1 /\ IsFree(entries[First(vs) - 1])))
    /\ UNCHANGED panicked

\* Drop unmaps the first entry that is hit, or panics because it is not its own.
LEMMA DropCases ==
    ASSUME NEW vs \in live, Drop(vs)
    PROVE  \/ Matches(vs, First(vs)) /\ Dropped(vs)
           \/ ~Matches(vs, First(vs)) /\ panicked' = TRUE /\ UNCHANGED <<entries, live, mapped, merged>>
  BY Zenon DEF Drop, Matches, Dropped, First, Hit

\* The entry in front of the first one that is hit ends at or below it.
LEMMA PrevIsBelow ==
    ASSUME SpaceAssumptions, IInv, NEW vs \in live, Matches(vs, First(vs)), First(vs) > 1
    PROVE  /\ First(vs) - 1 \in DOMAIN entries
           /\ Stop(entries[First(vs) - 1]) <= vs.at
  <1>. DEFINE i == First(vs)
              p == entries[i - 1]
  <1>1. entries # <<>> /\ i \in DOMAIN entries /\ \A j \in Hit(vs) : i <= j
    BY FirstIsHit, Zenon DEF Matches
  <1>. HIDE DEF i
  <1>2. i - 1 \in DOMAIN entries /\ i \in Nat /\ i - 1 < i
    BY <1>1, EntriesFacts, First(vs) > 1, SMTT(30) DEF i
  <1>3. p.virtual_start \in Nat /\ p.size \in Nat /\ vs.at \in Nat /\ vs.at \in Space
    BY <1>1, <1>2, EntriesFacts, LiveFields, Zenon DEF IInv
  <1>4. ASSUME NEW j \in DOMAIN entries, j < i PROVE ~InEntry(vs.at, entries[j])
    <2>1. j \in Nat /\ entries[j].virtual_start \in Nat /\ entries[j].size \in Nat
      BY <1>1, EntriesFacts, SMTT(30)
    <2>2. InEntry(vs.at, entries[j]) => j \in Hit(vs)
      BY <1>3, <2>1, SMTT(30) DEF InEntry, Stop, Hit, Covered
    <2>. QED BY <2>1, <2>2, <1>1, <1>2, <1>4, SMTT(30)
  <1>5. p.virtual_start <= vs.at
    <2>. SUFFICES ASSUME vs.at < p.virtual_start PROVE FALSE
      BY <1>3, SMTT(30)
    <2>1. PICK j \in DOMAIN entries : j < i - 1 /\ InEntry(vs.at, entries[j])
      BY <1>1, <1>2, <1>3, EntriesFacts, Zenon DEF WellFormed, CoveredBelow
    <2>2. j < i
      BY <2>1, <1>1, <1>2, EntriesFacts, SMTT(30)
    <2>. QED BY <2>1, <2>2, <1>4, Zenon
  <1>6. Stop(p) <= vs.at
    BY <1>2, <1>3, <1>4, <1>5, SMTT(30) DEF InEntry, Stop
  <1>. QED BY <1>2, <1>6, Zenon DEF i

\* deallocate puts back one free entry for the one that is dropped and a free one
\* after it; a free entry in front grows by as much and still ends in the space.
LEMMA MergeIsMerge ==
    ASSUME SpaceAssumptions, IInv, NEW vs \in live, Matches(vs, First(vs))
    PROVE  \E n, f, e :
             LET i == First(vs)
             IN  /\ n \in {0, 1} /\ e \in EntryType
                 /\ i \in DOMAIN entries /\ ~IsFree(entries[i])
                 /\ i + n <= Len(entries) /\ (n = 1 => IsFree(entries[i + 1]))
                 /\ i > 1 => /\ f \in EntryType /\ Grown(entries[i - 1], f) /\ Stop(f) <= SpaceSize
                             /\ ~IsFree(entries[i - 1]) => f = entries[i - 1]
                 /\ Union(entries, i, n, e) /\ IsMerge(Merge(i), entries, i, n, f, e)
  <1>. DEFINE i == First(vs)
              free == IsFree(entries[i + 1])
              n == IF free THEN 1 ELSE 0
              next == i < Len(entries) /\ free
              size == entries[i].size + (IF next THEN entries[i + 1].size ELSE 0)
              e == Entry(Unmapped, entries[i].virtual_start, size)
              b == SubSeq(entries, 1, i - 1)
              grows == i > 1 /\ IsFree(entries[i - 1])
              pr == IF grows THEN [b EXCEPT ![i - 1].size = @ + size] ELSE b
              f == pr[i - 1]
  <1>1. /\ entries # <<>> /\ i \in DOMAIN entries /\ ~IsFree(entries[i])
        /\ entries[i].virtual_start = vs.at
    BY FirstIsHit, Zenon DEF Matches
  <1>2. Merge(i) = pr \o <<e>> \o SubSeq(entries, i + (IF next THEN 2 ELSE 1), Len(entries))
    BY Zenon DEF Merge
  <1>p. i > 1 => i - 1 \in DOMAIN entries /\ Stop(entries[i - 1]) <= vs.at
    BY PrevIsBelow, Zenon
  <1>. HIDE DEF i
  <1>3. /\ entries \in Seq(EntryType) /\ Len(entries) \in Nat /\ DOMAIN entries = 1 .. Len(entries)
        /\ i \in Nat /\ i >= 1 /\ i <= Len(entries) /\ SpaceSize \in Nat
    BY <1>1, EntriesFacts, SMTT(30)
  <1>4. i < Len(entries) /\ entries[i + 1].virtual_start = Stop(entries[i]) /\ i + 1 \in DOMAIN entries
    <2>1. i < Len(entries) /\ entries[i + 1].virtual_start = Stop(entries[i])
      BY <1>1, EntriesFacts, Zenon DEF WellFormed, Followed
    <2>. QED BY <2>1, <1>3, SMTT(30)
  <1>5. /\ entries[i].virtual_start \in Nat /\ entries[i].size \in Nat
        /\ entries[i + 1].virtual_start \in Nat /\ entries[i + 1].size \in Nat
        /\ Stop(entries[i]) <= SpaceSize /\ Stop(entries[i + 1]) <= SpaceSize
    BY <1>1, <1>4, EntriesFacts, Zenon
  <1>6. n \in {0, 1} /\ i + n <= Len(entries) /\ (n = 1 => IsFree(entries[i + 1]))
        /\ i + (IF next THEN 2 ELSE 1) = i + (n + 1)
    <2>. HIDE DEF free
    <2>1. n \in {0, 1} /\ i + n <= Len(entries) /\ (n = 1 => free)
          /\ i + (IF next THEN 2 ELSE 1) = i + (n + 1)
      BY <1>3, <1>4
    <2>. QED BY <2>1, Zenon DEF free
  <1>7. /\ size \in Nat /\ size <= SpaceSize /\ entries[i].virtual_start + size = Stop(entries[i + n])
        /\ entries[i].virtual_start + size <= SpaceSize
    <2>. HIDE DEF free
    <2>1. CASE free
      <3>1. n = 1 /\ size = entries[i].size + entries[i + 1].size
        BY <2>1, <1>4, Zenon
      <3>. QED BY <3>1, <1>3, <1>4, <1>5, SMTT(30) DEF Stop
    <2>2. CASE ~free
      <3>1. n = 0 /\ size = entries[i].size + 0 /\ i + 0 = i
        BY <2>2, <1>3, SMTT(30)
      <3>. QED BY <3>1, <1>3, <1>5, SMTT(30) DEF Stop
    <2>. QED BY <2>1, <2>2, Zenon
  <1>. HIDE DEF size, n
  <1>8. e \in EntryType /\ Union(entries, i, n, e)
    <2>1. entries[i].virtual_start \in 0 .. SpaceSize /\ size \in 0 .. SpaceSize
      BY <1>3, <1>5, <1>7, SMTT(30)
    <2>2. e \in EntryType
      BY <2>1, EntryFacts, Zenon
    <2>3. Union(entries, i, n, e)
      <3>1. e.physical_start = Unmapped /\ e.virtual_start = entries[i].virtual_start /\ e.size = size
        BY EntryFacts, SMTT(30)
      <3>. QED BY <3>1, <1>7, Zenon DEF Union, Stop, IsFree
    <2>. QED BY <2>2, <2>3, Zenon
  <1>. HIDE DEF e
  <1>9. b \in Seq(EntryType) /\ Len(b) = i - 1 /\ \A j \in 1 .. i - 1 : b[j] = entries[j]
    BY <1>3, SMTT(30)
  <1>. HIDE DEF b
  <1>10. /\ pr \in Seq(EntryType) /\ Len(pr) = i - 1 /\ \A j \in 1 .. i - 2 : pr[j] = entries[j]
         /\ i > 1 => /\ f \in EntryType /\ Grown(entries[i - 1], f) /\ Stop(f) <= SpaceSize
                     /\ ~IsFree(entries[i - 1]) => f = entries[i - 1]
    <2>1. CASE ~grows
      <3>1. pr = b
        BY <2>1, Zenon
      <3>2. i > 1 => f = entries[i - 1] /\ ~IsFree(entries[i - 1])
        BY <3>1, <2>1, <1>3, <1>9
      <3>3. i > 1 => /\ entries[i - 1] \in EntryType /\ Stop(entries[i - 1]) <= SpaceSize
                     /\ Stop(entries[i - 1]) \in Nat
        BY <1>1, <1>p, EntriesFacts, SMTT(30) DEF Stop
      <3>4. i > 1 => Grown(entries[i - 1], f)
        BY <3>2, <3>3 DEF Grown
      <3>5. \A j \in 1 .. i - 2 : b[j] = entries[j]
        BY <1>3, <1>9, SMTT(30)
      <3>. QED BY <3>1, <3>2, <3>3, <3>4, <3>5, <1>9, Zenon
    <2>2. CASE grows
      <3>. DEFINE p == entries[i - 1]
                  g == [p EXCEPT !.size = @ + size]
      <3>1. /\ i > 1 /\ i - 1 \in DOMAIN entries /\ i - 1 \in 1 .. i - 1 /\ p \in EntryType /\ IsFree(p)
            /\ Stop(p) <= vs.at /\ p.virtual_start \in Nat /\ p.size \in Nat
        BY <2>2, <1>1, <1>p, <1>3, EntriesFacts, SMTT(30)
      <3>. HIDE DEF p
      <3>2. /\ g.virtual_start = p.virtual_start /\ g.size = p.size + size
            /\ g.physical_start = p.physical_start
        BY <3>1, Zenon DEF EntryType
      <3>3. p.size + size <= SpaceSize /\ Stop(g) <= SpaceSize /\ Stop(p) <= Stop(g) /\ p.size + size \in Nat
        <4>1. /\ p.virtual_start + p.size <= vs.at /\ vs.at + size <= SpaceSize /\ vs.at \in Nat
              /\ size \in Nat /\ p.virtual_start \in Nat /\ p.size \in Nat /\ SpaceSize \in Nat
          BY <3>1, <1>1, <1>3, <1>5, <1>7, Zenon DEF Stop
        <4>2. /\ p.size + size <= SpaceSize /\ p.virtual_start + (p.size + size) <= SpaceSize
              /\ p.virtual_start + p.size <= p.virtual_start + (p.size + size) /\ p.size + size \in Nat
          BY <4>1
        <4>. QED BY <4>2, <3>2, Zenon DEF Stop
      <3>4. g \in EntryType
        <4>1. p.size + size \in 0 .. SpaceSize
          BY <3>3, <1>3
        <4>. QED BY <4>1, <3>1, Zenon DEF EntryType
      <3>5. Grown(p, g)
        BY <3>1, <3>2, <3>3, Zenon DEF Grown, IsFree
      <3>6. b[i - 1] = p
        BY <3>1, <1>9, Zenon DEF p
      <3>. HIDE DEF g
      <3>7. pr = [b EXCEPT ![i - 1] = g]
        BY <2>2, <3>6, Zenon DEF g
      <3>8. /\ pr \in Seq(EntryType) /\ Len(pr) = i - 1 /\ pr[i - 1] = g
            /\ \A j \in 1 .. i - 2 : pr[j] = b[j]
        BY <3>1, <3>4, <3>7, <1>3, <1>9, SMTT(30)
      <3>9. \A j \in 1 .. i - 2 : b[j] = entries[j]
        BY <1>3, <1>9
      <3>. QED BY <3>1, <3>3, <3>4, <3>5, <3>8, <3>9, Zenon DEF p
    <2>. QED BY <2>1, <2>2, Zenon
  <1>. HIDE DEF pr
  <1>11. IsMerge(Merge(i), entries, i, n, f, e)
    <2>1. IsMerge(pr \o <<e>> \o SubSeq(entries, i + (n + 1), Len(entries)), entries, i, n, f, e)
      BY <1>1, <1>3, <1>6, <1>8, <1>10, MergeShape, Zenon
    <2>. QED BY <2>1, <1>2, <1>6, Zenon
  <1>. HIDE DEF f
  <1>. QED BY <1>1, <1>6, <1>8, <1>10, <1>11, Zenon DEF i

\* A drop, through or with a panic
LEMMA DropKeeps ==
    ASSUME SpaceAssumptions, IInv, NEW vs \in live, Drop(vs)
    PROVE  IInv'
  <1>1. CASE ~Matches(vs, First(vs)) /\ panicked' = TRUE /\ UNCHANGED <<entries, live, mapped, merged>>
    <2>1. merged
      BY <1>1, HitIsOwn, Zenon DEF IInv
    <2>. QED BY <1>1, <2>1, Zenon DEF IInv, LiveType
  <1>2. CASE Matches(vs, First(vs)) /\ Dropped(vs)
    <2>. DEFINE i == First(vs)
    <2>1. PICK n, f, e :
                 /\ n \in {0, 1} /\ e \in EntryType
                 /\ i \in DOMAIN entries /\ ~IsFree(entries[i])
                 /\ i + n <= Len(entries) /\ (n = 1 => IsFree(entries[i + 1]))
                 /\ i > 1 => /\ f \in EntryType /\ Grown(entries[i - 1], f) /\ Stop(f) <= SpaceSize
                             /\ ~IsFree(entries[i - 1]) => f = entries[i - 1]
                 /\ Union(entries, i, n, e) /\ IsMerge(Merge(i), entries, i, n, f, e)
      BY <1>2, MergeIsMerge, Zenon
    <2>2. /\ entries' = Merge(i) /\ live' = live \ {vs}
          /\ mapped' = [a \in Space |-> IF a \in Covered(vs.at, vs.size) THEN Unmapped ELSE mapped[a]]
          /\ merged' = (merged \/ (i > 1 /\ IsFree(entries[i - 1])))
          /\ panicked' = panicked
      BY <1>2, Zenon DEF Dropped
    <2>o. ~merged => entries[i] = Entry(Phys(vs.phys), vs.at, vs.size)
      BY HitIsOwn, Zenon
    <2>. HIDE DEF i
    <2>3. entries # <<>> /\ WellFormed(entries) /\ entries \in Seq(EntryType)
      <3>1. entries # <<>>
        BY <2>1
      <3>. QED BY <3>1, EntriesFacts, Zenon
    <2>4. WellFormed(entries')
      BY <2>1, <2>2, <2>3, MergeWellFormed, Zenon
    <2>5. LiveType' /\ DOMAIN mapped' = Space /\ merged' \in BOOLEAN /\ panicked' \in BOOLEAN
      <3>1. LiveType'
        BY <2>2, Zenon DEF IInv, LiveType
      <3>2. DOMAIN mapped' = Space
        BY <2>2, Zenon
      <3>3. merged' \in BOOLEAN /\ panicked' \in BOOLEAN
        BY <2>2, Zenon DEF IInv
      <3>. QED BY <3>1, <3>2, <3>3, Zenon
    <2>6. ASSUME ~merged'
          PROVE  /\ ~panicked' /\ Ordered(entries')
                 /\ \A x \in live' : HasEntry(x, entries')
                 /\ \A x \in live' : \A k \in 0 .. x.size - 1 : mapped'[x.at + k] = Phys(x.phys + k)
                 /\ \A x, y \in live' : x # y => x.phys # y.phys
      <3>1. ~merged /\ (i > 1 => ~IsFree(entries[i - 1]))
        BY <2>2, <2>6, Zenon
      <3>2. /\ ~panicked /\ Ordered(entries) /\ \A x \in live : HasEntry(x, entries)
            /\ \A x \in live : \A k \in 0 .. x.size - 1 : mapped[x.at + k] = Phys(x.phys + k)
            /\ \A x, y \in live : x # y => x.phys # y.phys
        BY <3>1, <2>3, Zenon DEF IInv
      <3>3. i > 1 => f = entries[i - 1]
        BY <3>1, <2>1, Zenon
      <3>4. /\ Ordered(entries')
            /\ \A x : HasEntry(x, entries) /\ Entry(Phys(x.phys), x.at, x.size) # entries[i]
                     => HasEntry(x, entries')
        BY <3>2, <3>3, <2>1, <2>2, <2>3, MergeOrdered, ZenonT(30)
      <3>5. ASSUME NEW x \in live'
            PROVE  x \in live /\ Entry(Phys(x.phys), x.at, x.size) # entries[i]
        <4>1. x \in live /\ x # vs
          BY <2>2, Zenon
        <4>2. x.phys # vs.phys
          BY <4>1, <3>2, Zenon
        <4>. QED BY <4>1, <4>2, <3>1, <2>o, EntryFacts, SMTT(30)
      <3>6. ASSUME NEW x \in live', NEW k \in 0 .. x.size - 1
            PROVE  mapped'[x.at + k] = Phys(x.phys + k)
        <4>1. x \in live
          BY <3>5, Zenon
        <4>2. PICK j \in DOMAIN entries : entries[j] = Entry(Phys(x.phys), x.at, x.size)
          BY <4>1, <3>2, Zenon DEF HasEntry
        <4>3. i # j /\ i \in DOMAIN entries
          BY <4>2, <3>5, <2>1, Zenon
        <4>4. LiveType
          BY Zenon DEF IInv
        <4>5. x.at + k \in Space /\ ~InEntry(x.at + k, entries[i])
          BY <4>1, <4>2, <4>3, <4>4, <3>2, <2>3, PagesApart, Zenon
        <4>6. entries[i].virtual_start = vs.at /\ entries[i].size = vs.size
          BY <2>o, <3>1, EntryFacts, SMTT(30)
        <4>7. x.at \in Nat /\ x.size \in Nat /\ vs.at \in Nat /\ vs.size \in Nat
          BY <4>1, <4>4, LiveFields, Zenon
        <4>8. x.at + k \notin Covered(vs.at, vs.size)
          BY <4>5, <4>6, <4>7, SMTT(30) DEF InEntry, Stop, Covered
        <4>9. mapped[x.at + k] = Phys(x.phys + k)
          BY <4>1, <3>2, Zenon
        <4>. QED BY <4>5, <4>8, <4>9, <2>2, Zenon
      <3>7. \A x \in live' : HasEntry(x, entries')
        BY <3>2, <3>4, <3>5, Zenon
      <3>8. \A x, y \in live' : x # y => x.phys # y.phys
        BY <3>2, <3>5, Zenon
      <3>9. ~panicked'
        BY <3>2, <2>2, Zenon
      <3>. QED BY <3>4, <3>6, <3>7, <3>8, <3>9, Zenon
    <2>. QED BY <2>4, <2>5, <2>6, Zenon DEF IInv
  <1>. QED BY <1>1, <1>2, DropCases, Zenon

\* The space before anything was asked for
LEMMA InitIsOK ==
    ASSUME SpaceAssumptions, Init
    PROVE  IInv
  BY Zenon DEF Init, IInv, LiveType, HasEntry

\* Every operation keeps the invariant.
LEMMA NextKeeps ==
    ASSUME SpaceAssumptions, IInv, [Next]_vars
    PROVE  IInv'
  <1>1. CASE UNCHANGED vars
    BY <1>1, Zenon DEF vars, IInv, LiveType
  <1>2. ASSUME NEW p \in PhysStarts, NEW s \in Sizes, New(p, s) PROVE IInv'
    BY <1>2, NewKeeps, Zenon
  <1>3. ASSUME NEW p \in PhysStarts, NEW s \in Sizes, NewFails(p, s) PROVE IInv'
    BY <1>3, NewFailsKeeps, Zenon
  <1>4. ASSUME NEW vs \in live, Drop(vs) PROVE IInv'
    BY <1>4, DropKeeps, Zenon
  <1>. QED BY <1>1, <1>2, <1>3, <1>4, Zenon DEF Next

\* What the invariant says of the space
LEMMA IInvIsRight ==
    ASSUME SpaceAssumptions, IInv
    PROVE  TypeOK /\ NothingIsLost /\ LiveMapsItsMemory /\ DropsSucceed
  <1>1. TypeOK
    <2>1. ASSUME NEW j \in DOMAIN entries
          PROVE  /\ entries[j].virtual_start \in 0 .. SpaceSize /\ entries[j].size \in 0 .. SpaceSize
                 /\ IsFree(entries[j]) \/ entries[j].physical_start \in {Phys(p) : p \in PhysStarts}
      <3>1. entries # <<>>
        OBVIOUS
      <3>2. entries[j] \in EntryType
        BY <3>1, EntriesFacts, Zenon
      <3>. QED BY <3>2, EntryFields, Zenon
    <2>. QED BY <2>1, Zenon DEF TypeOK, IInv, LiveType
  <1>2. NothingIsLost
    <2>. SUFFICES ASSUME entries # <<>>
                  PROVE  Space = UNION {Covered(entries[j].virtual_start, entries[j].size) : j \in DOMAIN entries}
      BY Zenon DEF NothingIsLost
    <2>1. ASSUME NEW j \in DOMAIN entries, NEW a
          PROVE  a \in Covered(entries[j].virtual_start, entries[j].size) <=> a \in Space /\ InEntry(a, entries[j])
      <3>1. /\ entries[j].virtual_start \in Nat /\ entries[j].size \in Nat
            /\ Stop(entries[j]) <= SpaceSize /\ SpaceSize \in Nat
        BY EntriesFacts, Zenon
      <3>. QED BY <3>1, SMTT(30) DEF Covered, Space, InEntry, Stop
    <2>2. Whole(entries)
      BY EntriesFacts, Zenon DEF WellFormed
    <2>. QED BY <2>1, <2>2, Zenon DEF Whole
  <1>3. LiveMapsItsMemory /\ DropsSucceed
    BY Zenon DEF IInv, LiveMapsItsMemory, DropsSucceed
  <1>. QED BY <1>1, <1>2, <1>3, Zenon

\* Whatever is created and dropped in whatever order, no page of the space is lost,
\* and until a drop meets a free entry in front of its own every VirtualSpace reads
\* the physical memory it was created for and drops without a panic.
THEOREM SpaceAlwaysSound ==
    ASSUME SpaceAssumptions
    PROVE  Spec => [](TypeOK /\ NothingIsLost /\ LiveMapsItsMemory /\ DropsSucceed)
  <1>1. Init => IInv
    BY InitIsOK, Zenon
  <1>2. IInv /\ [Next]_vars => IInv'
    BY NextKeeps, Zenon
  <1>3. IInv => TypeOK /\ NothingIsLost /\ LiveMapsItsMemory /\ DropsSucceed
    BY IInvIsRight, Zenon
  <1>. QED BY <1>1, <1>2, <1>3, PTL DEF Spec
===============================================================================
