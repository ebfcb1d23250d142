----------------------------- MODULE HeapProofs -----------------------------
(***************************************************************************)
(* The heap invariant and the refinement of AllocSpec, for every arena,    *)
(* header and request size that HeapAssumption allows.                     *)
(***************************************************************************)
EXTENDS Heap, TLAPS

\* What TypeOK says of a set of headers.
Shape(h) == h \in [DOMAIN h -> Header] /\ DOMAIN h \subseteq 0 .. Mapped - HdrSize

\* The types of one header of such a set.
LEMMA FieldTypes ==
    ASSUME NEW h, Shape(h), NEW n \in DOMAIN h
    PROVE  /\ n \in Int /\ 0 <= n /\ n + HdrSize <= Mapped
           /\ h[n].size \in Int /\ 0 <= h[n].size /\ h[n].size < Word
           /\ h[n].next \in Int /\ -1 <= h[n].next /\ h[n].next < Word
           /\ h[n].prev \in Int /\ -1 <= h[n].prev /\ h[n].prev < Word
           /\ h[n].is_allocated \in BOOLEAN
           /\ h[n] \in Header
BY HeapAssumption DEF Shape, Header


\* g is h with block r split behind s bytes and a free block t made of the rest.
IsSplit(h, r, s, t, g) ==
    /\ t \notin DOMAIN h
    /\ t \in Int /\ t > r
    /\ DOMAIN g = DOMAIN h \cup {t}
    /\ g[t].size = h[r].size - s - HdrSize /\ g[t].next = h[r].next
    /\ g[t].prev = r /\ g[t].is_allocated = FALSE
    /\ g[r].size = s /\ g[r].next = t /\ g[r].prev = h[r].prev
    /\ g[r].is_allocated = h[r].is_allocated
    /\ \A m \in DOMAIN h \ {r} :
         /\ g[m].size = h[m].size /\ g[m].next = h[m].next
         /\ g[m].prev = (IF m = h[r].next THEN t ELSE h[m].prev)
         /\ g[m].is_allocated = h[m].is_allocated
    /\ h[r].size - s - HdrSize > 0
    /\ Shape(g)

\* Split produces such a list, without overflow and inside mapped memory.
LEMMA SplitFields ==
    ASSUME NEW h, Shape(h), Linked(h), NEW r \in DOMAIN h, NEW s \in Nat,
           s + HdrSize < Word, Splits(h, r, s), ~Faults(h, r, s)
    PROVE  IsSplit(h, r, s, r + HdrSize + s, Split(h, r, s))
<1> SUFFICES ASSUME NEW t, t = r + HdrSize + s, NEW g, g = Split(h, r, s)
             PROVE  IsSplit(h, r, s, t, g)
  OBVIOUS
<1>1. h[r].size > s + HdrSize /\ r + HdrSize + s + HdrSize <= Mapped
  BY FieldTypes, HeapAssumption DEF Splits, Faults, Plus
<1>2. Plus(Plus(r, HdrSize), s) = t
  BY <1>1, FieldTypes, HeapAssumption DEF Plus
<1>3. Minus(h[r].size, Plus(s, HdrSize)) = h[r].size - s - HdrSize
  BY <1>1, FieldTypes, HeapAssumption DEF Plus, Minus
<1>4. t \in Int /\ t > r /\ t + HdrSize <= Mapped /\ t < End(h, r)
  BY <1>1, FieldTypes, HeapAssumption DEF End
<1>5. t \notin DOMAIN h
  BY <1>4, FieldTypes, HeapAssumption DEF Linked, End
<1> DEFINE new == [is_allocated |-> FALSE, prev |-> r, next |-> h[r].next,
                   size |-> h[r].size - s - HdrSize]
           f == [m \in DOMAIN h \cup {t} |-> IF m = t THEN new ELSE h[m]]
           e == SetPrev(f, h[r].next, t)
<1>6. g = [e EXCEPT ![r].next = t, ![r].size = s]
  BY <1>2, <1>3 DEF Split
<1>7. h[r].next # t /\ h[r].next # r /\ r # t
  BY <1>4, <1>5, HeapAssumption, FieldTypes DEF Linked, NULL, End
<1>8. /\ DOMAIN e = DOMAIN h \cup {t}
      /\ e[t] = new /\ e[r] = h[r]
      /\ \A m \in DOMAIN h \ {r} :
            e[m] = IF m = h[r].next THEN [h[m] EXCEPT !.prev = t] ELSE h[m]
  <2>1. h[r].next \in DOMAIN f \cup {NULL} /\ NULL \notin DOMAIN f
    BY <1>4, FieldTypes, HeapAssumption DEF Linked, NULL
  <2>2. \A m \in DOMAIN h : f[m] = h[m]
    BY <1>5
  <2> HIDE DEF new
  <2>3. DOMAIN f = DOMAIN h \cup {t} /\ f[t] = new
    OBVIOUS
  <2> HIDE DEF f
  <2>4. /\ DOMAIN e = DOMAIN f
        /\ \A m \in DOMAIN f :
             e[m] = IF m = h[r].next THEN [f[m] EXCEPT !.prev = t] ELSE f[m]
    BY <2>1 DEF e, SetPrev
  <2> QED BY <1>7, <2>2, <2>3, <2>4
<1> HIDE DEF e
<1>9. DOMAIN g = DOMAIN h \cup {t} /\ g[t] = new
  BY <1>6, <1>7, <1>8
<1>10. g[r] = [h[r] EXCEPT !.next = t, !.size = s]
  BY <1>6, <1>7, <1>8
<1>11. \A m \in DOMAIN h \ {r} : g[m] = e[m]
  BY <1>6, <1>7, <1>8
<1>12. h[r].size - s - HdrSize > 0
  BY <1>1, FieldTypes, HeapAssumption
<1>13. /\ g[t].size = h[r].size - s - HdrSize /\ g[t].next = h[r].next
       /\ g[t].prev = r /\ g[t].is_allocated = FALSE /\ g[t] \in Header
  <2>1. /\ h[r].size - s - HdrSize \in 0 .. Word - 1
        /\ r \in -1 .. Word - 1 /\ h[r].next \in -1 .. Word - 1
    BY <1>12, FieldTypes, HeapAssumption
  <2> QED BY <1>9, <2>1 DEF Header
<1>14. t \in -1 .. Word - 1 /\ s \in 0 .. Word - 1
  BY <1>4, FieldTypes, HeapAssumption
<1>15. /\ g[r].size = s /\ g[r].next = t /\ g[r].prev = h[r].prev
       /\ g[r].is_allocated = h[r].is_allocated /\ g[r] \in Header
  <2>1. h[r] \in Header
    BY FieldTypes
  <2> QED BY <1>10, <1>14, <2>1 DEF Header
<1>16. ASSUME NEW m \in DOMAIN h \ {r}
       PROVE  /\ g[m].size = h[m].size /\ g[m].next = h[m].next
              /\ g[m].prev = (IF m = h[r].next THEN t ELSE h[m].prev)
              /\ g[m].is_allocated = h[m].is_allocated /\ g[m] \in Header
  <2>1. h[m] \in Header
    BY FieldTypes
  <2>2. CASE m = h[r].next
    <3>1. g[m] = [h[m] EXCEPT !.prev = t]
      BY <1>8, <1>11, <2>2
    <3> QED BY <1>14, <2>1, <2>2, <3>1 DEF Header
  <2>3. CASE m # h[r].next
    BY <1>8, <1>11, <2>1, <2>3
  <2> QED BY <2>2, <2>3
<1>17. Shape(g)
  <2>1. \A m \in DOMAIN g : g[m] \in Header
    BY <1>9, <1>13, <1>15, <1>16
  <2>2. g = [m \in DOMAIN g |-> g[m]]
    BY <1>6
  <2>3. DOMAIN g \subseteq 0 .. Mapped - HdrSize
    BY <1>4, <1>9, FieldTypes, HeapAssumption
  <2> QED BY <2>1, <2>2, <2>3 DEF Shape
<1> QED BY <1>4, <1>5, <1>9, <1>12, <1>13, <1>15, <1>16, <1>17 DEF IsSplit

\* The list stays well linked when a block is split.
LEMMA SplitLinked ==
    ASSUME NEW h, Shape(h), Linked(h), NEW r \in DOMAIN h, NEW s \in Nat,
           NEW g, IsSplit(h, r, s, r + HdrSize + s, g)
    PROVE  Linked(g)
<1> SUFFICES ASSUME NEW t, t = r + HdrSize + s, IsSplit(h, r, s, t, g)
             PROVE  Linked(g)
  OBVIOUS
<1> DEFINE x == h[r].next
<1>1. /\ t \notin DOMAIN h /\ t \in Int /\ t > r
      /\ DOMAIN g = DOMAIN h \cup {t} /\ Shape(g)
      /\ h[r].size - s - HdrSize > 0
  BY DEF IsSplit
<1>2. /\ g[t].size = h[r].size - s - HdrSize /\ g[t].next = x /\ g[t].prev = r
  BY DEF IsSplit
<1>3. g[r].size = s /\ g[r].next = t /\ g[r].prev = h[r].prev
  BY DEF IsSplit
<1>4. ASSUME NEW m \in DOMAIN h \ {r}
      PROVE  /\ g[m].size = h[m].size /\ g[m].next = h[m].next
             /\ g[m].prev = (IF m = x THEN t ELSE h[m].prev)
  BY DEF IsSplit
<1>6. Linked(g)
  <2>0. /\ \A n \in DOMAIN h : n \in Int /\ n >= 0 /\ h[n].size \in Int
                                /\ h[n].size >= 0 /\ h[n].next \in Int
        /\ HdrSize \in Int /\ HdrSize > 0 /\ ArenaEnd \in Int /\ NULL = -1
        /\ t = r + HdrSize + s
    BY FieldTypes, HeapAssumption DEF ArenaEnd, NULL
  <2>1. 0 \in DOMAIN g /\ g[0].prev = NULL
    <3>1. x # 0
      BY <2>0 DEF Linked, End
    <3> QED BY <1>1, <1>3, <1>4, <2>0, <3>1 DEF Linked
  <2>2. ASSUME NEW m \in DOMAIN g, NEW n \in DOMAIN g, m < n
        PROVE End(g, m) <= n
    <3>1. CASE m = t
      BY <3>1, <1>1, <1>2, <2>0, <2>2 DEF Linked, End
    <3>2. CASE m = r
      BY <3>2, <1>1, <1>3, <2>0, <2>2 DEF Linked, End
    <3>3. CASE m # r /\ m # t
      BY <3>3, <1>1, <1>4, <2>0, <2>2 DEF Linked, End
    <3> QED BY <3>1, <3>2, <3>3
  <2>3. ASSUME NEW n \in DOMAIN g
        PROVE  /\ g[n].next # NULL =>
                    /\ g[n].next \in DOMAIN g
                    /\ g[n].next = End(g, n)
                    /\ g[g[n].next].prev = n
               /\ g[n].next = NULL => End(g, n) = ArenaEnd
               /\ End(g, n) <= ArenaEnd
               /\ n # 0 => /\ g[n].prev \in DOMAIN g
                           /\ g[g[n].prev].next = n
    <3>1. CASE n = t
      BY <3>1, <1>1, <1>2, <1>3, <1>4, <2>0 DEF Linked, End
    <3>2. CASE n = r
      BY <3>2, <1>1, <1>2, <1>3, <1>4, <2>0 DEF Linked, End
    <3>3. CASE n # r /\ n # t
      BY <3>3, <1>1, <1>2, <1>3, <1>4, <2>0 DEF Linked, End
    <3> QED BY <3>1, <3>2, <3>3
  <2> QED BY <2>1, <2>2, <2>3 DEF Linked
<1> QED BY <1>6

\* g is h after block a has swallowed its successor b.
IsAbsorb(h, a, b, g) ==
    /\ b \in DOMAIN h \ {a}
    /\ DOMAIN g = DOMAIN h \ {b}
    /\ g[a].size = h[a].size + h[b].size + HdrSize /\ g[a].next = h[b].next
    /\ g[a].prev = h[a].prev /\ g[a].is_allocated = h[a].is_allocated
    /\ \A m \in DOMAIN h \ {a, b} :
         /\ g[m].size = h[m].size /\ g[m].next = h[m].next
         /\ g[m].prev = (IF m = h[b].next THEN a ELSE h[m].prev)
         /\ g[m].is_allocated = h[m].is_allocated
    /\ Shape(g)

\* Absorb produces such a list and the sum of the two sizes does not overflow.
LEMMA AbsorbFields ==
    ASSUME NEW h, Shape(h), Linked(h), NEW a \in DOMAIN h, h[a].next # NULL
    PROVE  IsAbsorb(h, a, h[a].next, Absorb(h, a))
<1> SUFFICES ASSUME NEW b, b = h[a].next, NEW g, g = Absorb(h, a)
             PROVE  IsAbsorb(h, a, b, g)
  OBVIOUS
<1> DEFINE c == h[b].next
           z == h[a].size + h[b].size + HdrSize
           e == SetPrev(h, c, a)
           f == [e EXCEPT ![a].next = c, ![a].size = z]
<1>1. b \in DOMAIN h /\ b = a + HdrSize + h[a].size /\ b # a
  BY FieldTypes, HeapAssumption DEF Linked, End
<1>2. z \in 0 .. Word - 1 /\ c # a /\ c # b
  BY <1>1, FieldTypes, HeapAssumption DEF Linked, End, ArenaEnd, NULL
<1>3. Plus(h[a].size, Plus(h[b].size, HdrSize)) = z
  BY <1>1, <1>2, FieldTypes, HeapAssumption DEF Plus
<1>4. g = [n \in DOMAIN h \ {b} |-> f[n]]
  BY <1>3 DEF Absorb
<1>5. c \in DOMAIN h \cup {NULL} /\ NULL \notin DOMAIN h
  BY <1>1, FieldTypes, HeapAssumption DEF Linked, NULL
<1>6. /\ DOMAIN e = DOMAIN h /\ e[a] = h[a]
      /\ \A m \in DOMAIN h :
            e[m] = IF m = c THEN [h[m] EXCEPT !.prev = a] ELSE h[m]
  BY <1>2, <1>5 DEF e, SetPrev
<1> HIDE DEF e, z
<1>7. DOMAIN g = DOMAIN h \ {b} /\ g[a] = [h[a] EXCEPT !.next = c, !.size = z]
  BY <1>1, <1>4, <1>6
<1>8. \A m \in DOMAIN h \ {a, b} : g[m] = e[m]
  BY <1>4, <1>6
<1>9. c \in -1 .. Word - 1 /\ a \in -1 .. Word - 1 /\ z \in Int
  BY <1>1, <1>2, FieldTypes, HeapAssumption
<1>10. /\ g[a].size = z /\ g[a].next = c /\ g[a].prev = h[a].prev
       /\ g[a].is_allocated = h[a].is_allocated /\ g[a] \in Header
  <2>1. h[a] \in Header
    BY FieldTypes
  <2> QED BY <1>2, <1>7, <1>9, <2>1 DEF Header
<1>11. ASSUME NEW m \in DOMAIN h \ {a, b}
       PROVE  /\ g[m].size = h[m].size /\ g[m].next = h[m].next
              /\ g[m].prev = (IF m = c THEN a ELSE h[m].prev)
              /\ g[m].is_allocated = h[m].is_allocated /\ g[m] \in Header
  <2>1. h[m] \in Header
    BY FieldTypes
  <2>2. CASE m = c
    <3>1. g[m] = [h[m] EXCEPT !.prev = a]
      BY <1>6, <1>8, <2>2
    <3> QED BY <1>9, <2>1, <2>2, <3>1 DEF Header
  <2>3. CASE m # c
    BY <1>6, <1>8, <2>1, <2>3
  <2> QED BY <2>2, <2>3
<1>12. Shape(g)
  <2>1. \A m \in DOMAIN g : g[m] \in Header
    BY <1>7, <1>10, <1>11
  <2>2. g = [m \in DOMAIN g |-> g[m]]
    BY <1>4
  <2>3. DOMAIN g \subseteq 0 .. Mapped - HdrSize
    BY <1>7 DEF Shape
  <2> QED BY <2>1, <2>2, <2>3 DEF Shape
<1> QED BY <1>1, <1>7, <1>10, <1>11, <1>12 DEF IsAbsorb, z

\* The list stays well linked when a block swallows its successor.
LEMMA AbsorbLinked ==
    ASSUME NEW h, Shape(h), Linked(h), NEW a \in DOMAIN h, h[a].next # NULL,
           NEW g, IsAbsorb(h, a, h[a].next, g)
    PROVE  Linked(g)
<1> SUFFICES ASSUME NEW b, b = h[a].next, IsAbsorb(h, a, b, g)
             PROVE  Linked(g)
  OBVIOUS
<1> DEFINE c == h[b].next
<1>1. DOMAIN g = DOMAIN h \ {b} /\ b \in DOMAIN h \ {a}
  BY DEF IsAbsorb
<1>2. /\ g[a].size = h[a].size + h[b].size + HdrSize
      /\ g[a].next = c /\ g[a].prev = h[a].prev
  BY DEF IsAbsorb
<1>3. ASSUME NEW m \in DOMAIN h \ {a, b}
      PROVE  /\ g[m].size = h[m].size /\ g[m].next = h[m].next
             /\ g[m].prev = (IF m = c THEN a ELSE h[m].prev)
  BY DEF IsAbsorb
<1>4. /\ \A n \in DOMAIN h : n \in Int /\ n >= 0 /\ h[n].size \in Int
                              /\ h[n].size >= 0 /\ h[n].next \in Int
      /\ HdrSize \in Int /\ HdrSize > 0 /\ ArenaEnd \in Int /\ NULL = -1
  BY FieldTypes, HeapAssumption DEF ArenaEnd, NULL
<1>5. b = a + HdrSize + h[a].size /\ b # 0 /\ c # a /\ c # b /\ c # 0
  BY <1>1, <1>4 DEF Linked, End
<1>6. 0 \in DOMAIN g /\ g[0].prev = NULL
  BY <1>1, <1>2, <1>3, <1>5 DEF Linked
<1>7. ASSUME NEW m \in DOMAIN g, NEW n \in DOMAIN g, m < n
      PROVE End(g, m) <= n
  <2>1. CASE m = a
    <3>1. End(h, a) <= n
      BY <2>1, <1>1, <1>7 DEF Linked
    <3>2. b < n
      BY <3>1, <1>1, <1>4, <1>5 DEF End
    <3>3. End(h, b) <= n
      BY <3>2, <1>1 DEF Linked
    <3> QED BY <2>1, <3>3, <1>1, <1>2, <1>4, <1>5 DEF End
  <2>2. CASE m # a
    BY <2>2, <1>1, <1>3, <1>4, <1>7 DEF Linked, End
  <2> QED BY <2>1, <2>2
<1>8. ASSUME NEW n \in DOMAIN g
      PROVE  /\ g[n].next # NULL =>
                  /\ g[n].next \in DOMAIN g
                  /\ g[n].next = End(g, n)
                  /\ g[g[n].next].prev = n
             /\ g[n].next = NULL => End(g, n) = ArenaEnd
             /\ End(g, n) <= ArenaEnd
             /\ n # 0 => /\ g[n].prev \in DOMAIN g
                         /\ g[g[n].prev].next = n
  <2>1. CASE n = a
    <3>1. End(g, a) = End(h, b)
      BY <1>1, <1>2, <1>4, <1>5 DEF End
    <3>2. c # NULL => c \in DOMAIN h \ {a, b} /\ c = End(h, b)
      BY <1>1, <1>5 DEF Linked
    <3>3. End(h, b) <= ArenaEnd /\ (c = NULL => End(h, b) = ArenaEnd)
      BY <1>1 DEF Linked
    <3>4. a # 0 => /\ h[a].prev \in DOMAIN h \ {a, b}
                   /\ h[h[a].prev].next = a
      BY <1>1, <1>5 DEF Linked
    <3>5. a # 0 => g[a].prev \in DOMAIN g /\ g[g[a].prev].next = a
      BY <3>4, <1>1, <1>2, <1>3
    <3>6. c # NULL => c \in DOMAIN g /\ g[c].prev = a
      BY <3>2, <1>1, <1>3
    <3> QED BY <2>1, <3>1, <3>2, <3>3, <3>5, <3>6, <1>2
  <2>2. CASE n # a
    <3>1. n \in DOMAIN h \ {a, b} /\ End(g, n) = End(h, n)
      BY <2>2, <1>1, <1>3 DEF End
    <3>2. /\ g[n].next = h[n].next
          /\ h[n].next # NULL => h[n].next \in DOMAIN h /\ h[h[n].next].prev = n
      BY <3>1, <1>3 DEF Linked
    <3>3. h[b].prev = a /\ (c # NULL => h[c].prev = b)
      BY <1>1 DEF Linked
    <3>4. h[n].next # b /\ (h[n].next # NULL => h[n].next # c)
      BY <3>1, <3>2, <3>3
    <3>5. g[n].next # NULL =>
            g[n].next \in DOMAIN g /\ g[g[n].next].prev = n
      <4>1. CASE h[n].next = a
        BY <4>1, <3>2, <1>1, <1>2
      <4>2. CASE h[n].next # a
        BY <4>2, <3>2, <3>4, <1>1, <1>3
      <4> QED BY <4>1, <4>2
    <3>6. n # 0 => g[n].prev \in DOMAIN g /\ g[g[n].prev].next = n
      <4>1. CASE n = c
        BY <4>1, <3>1, <1>1, <1>2, <1>3
      <4>2. CASE n # c
        <5>1. n # 0 => h[n].prev \in DOMAIN h /\ h[h[n].prev].next = n
          BY <3>1 DEF Linked
        <5>2. g[n].prev = h[n].prev /\ n # b
          BY <4>2, <3>1, <1>3
        <5>3. n # 0 => h[n].prev # b /\ h[n].prev # a
          BY <5>1, <5>2, <4>2
        <5> QED BY <5>1, <5>2, <5>3, <1>1, <1>3
      <4> QED BY <4>1, <4>2
    <3> QED BY <3>1, <3>2, <3>5, <3>6 DEF Linked
  <2> QED BY <2>1, <2>2
<1> QED BY <1>6, <1>7, <1>8 DEF Linked

\* g is h with the flag of block r set to v.
IsFlagged(h, r, v, g) ==
    /\ DOMAIN g = DOMAIN h /\ g[r].is_allocated = v
    /\ \A m \in DOMAIN h \ {r} : g[m].is_allocated = h[m].is_allocated
    /\ \A m \in DOMAIN h :
         g[m].size = h[m].size /\ g[m].next = h[m].next /\ g[m].prev = h[m].prev
    /\ Shape(g)

\* Setting the flag of one header, the step that ends kmalloc and starts kfree.
LEMMA FlagFields ==
    ASSUME NEW h, Shape(h), NEW r \in DOMAIN h, NEW v \in BOOLEAN,
           NEW g, g = [h EXCEPT ![r].is_allocated = v]
    PROVE  IsFlagged(h, r, v, g)
<1>1. h[r] \in Header
  BY FieldTypes
<1>2. DOMAIN g = DOMAIN h /\ g[r] = [h[r] EXCEPT !.is_allocated = v]
  OBVIOUS
<1>3. \A m \in DOMAIN h \ {r} : g[m] = h[m]
  OBVIOUS
<1>4. /\ g[r].is_allocated = v /\ g[r].size = h[r].size
      /\ g[r].next = h[r].next /\ g[r].prev = h[r].prev /\ g[r] \in Header
  BY <1>1, <1>2 DEF Header
<1>5. Shape(g)
  <2>1. \A m \in DOMAIN g : g[m] \in Header
    BY <1>2, <1>3, <1>4, FieldTypes
  <2>2. g = [m \in DOMAIN g |-> g[m]]
    OBVIOUS
  <2> QED BY <1>2, <2>1, <2>2 DEF Shape
<1> QED BY <1>2, <1>3, <1>4, <1>5 DEF IsFlagged

\* Flags play no part in the links.
LEMMA SameLinks ==
    ASSUME NEW h, Linked(h), NEW g, DOMAIN g = DOMAIN h,
           \A m \in DOMAIN h :
             g[m].size = h[m].size /\ g[m].next = h[m].next /\ g[m].prev = h[m].prev
    PROVE  Linked(g)
<1>1. \A m \in DOMAIN h : End(g, m) = End(h, m)
  BY DEF End
<1>2. 0 \in DOMAIN g /\ g[0].prev = NULL
  BY DEF Linked
<1>3. \A m, n \in DOMAIN g : m < n => End(g, m) <= n
  BY <1>1 DEF Linked
<1>4. ASSUME NEW n \in DOMAIN g
      PROVE  /\ g[n].next # NULL =>
                  /\ g[n].next \in DOMAIN g
                  /\ g[n].next = End(g, n)
                  /\ g[g[n].next].prev = n
             /\ g[n].next = NULL => End(g, n) = ArenaEnd
             /\ End(g, n) <= ArenaEnd
             /\ n # 0 => /\ g[n].prev \in DOMAIN g
                         /\ g[g[n].prev].next = n
  BY <1>1 DEF Linked
<1> QED BY <1>2, <1>3, <1>4 DEF Linked

----------------------------------------------------------------------------
(* The parts of HeapInv for a list h in the middle of kfree.               *)

AccountedIn(h, l) ==
    /\ \A n \in DOMAIN h : h[n].is_allocated <=> n + HdrSize \in DOMAIN l
    /\ \A p \in DOMAIN l : \E n \in DOMAIN h : p = n + HdrSize

SlackIn(h, l) ==
    \A n \in DOMAIN h :
        h[n].is_allocated => h[n].size - l[n + HdrSize] \in 0 .. HdrSize

Good(h, l) == Shape(h) /\ Linked(h) /\ AccountedIn(h, l) /\ SlackIn(h, l)

\* n and its successor are both free, which kfree must not leave behind.
FreePair(h, n) == /\ h[n].next # NULL
                  /\ ~h[n].is_allocated /\ ~h[h[n].next].is_allocated

\* Merging two free neighbours keeps the books and makes no new free pair
\* other than one the swallowed block was part of.
LEMMA AbsorbGood ==
    ASSUME NEW h, NEW l, Good(h, l), NEW a \in DOMAIN h, FreePair(h, a),
           NEW g, g = Absorb(h, a)
    PROVE  /\ Good(g, l)
           /\ a \in DOMAIN g /\ ~g[a].is_allocated
           /\ h[a].next \in DOMAIN h /\ DOMAIN g = DOMAIN h \ {h[a].next}
           /\ h[a].next # a
           /\ \A n \in DOMAIN g \ {a} : FreePair(g, n) => FreePair(h, n)
           /\ FreePair(g, a) => FreePair(h, h[a].next)
<1> DEFINE b == h[a].next
<1>1. Shape(h) /\ Linked(h) /\ AccountedIn(h, l) /\ SlackIn(h, l) /\ b # NULL
  BY DEF Good, FreePair
<1>2. IsAbsorb(h, a, b, g)
  BY <1>1, AbsorbFields
<1>3. Linked(g)
  BY <1>1, <1>2, AbsorbLinked
<1>4. Shape(g) /\ b \in DOMAIN h \ {a} /\ DOMAIN g = DOMAIN h \ {b}
  BY <1>2 DEF IsAbsorb
<1>5. /\ \A m \in DOMAIN g : g[m].is_allocated = h[m].is_allocated
      /\ \A m \in DOMAIN g \ {a} : g[m].size = h[m].size /\ g[m].next = h[m].next
      /\ g[a].next = h[b].next
  BY <1>2, <1>4 DEF IsAbsorb
<1>6. ~h[a].is_allocated /\ ~h[b].is_allocated
  BY DEF FreePair
<1>7. AccountedIn(g, l)
  <2>1. \A n \in DOMAIN g : g[n].is_allocated <=> n + HdrSize \in DOMAIN l
    BY <1>1, <1>4, <1>5 DEF AccountedIn
  <2>2. ASSUME NEW p \in DOMAIN l PROVE \E n \in DOMAIN g : p = n + HdrSize
    <3>1. PICK n \in DOMAIN h : p = n + HdrSize
      BY <1>1 DEF AccountedIn
    <3>2. n # b
      BY <1>1, <1>4, <1>6, <3>1 DEF AccountedIn
    <3> QED BY <3>1, <3>2, <1>4
  <2> QED BY <2>1, <2>2 DEF AccountedIn
<1>8. SlackIn(g, l)
  BY <1>1, <1>4, <1>5, <1>6 DEF SlackIn
<1>9. ASSUME NEW n \in DOMAIN g \ {a}, FreePair(g, n) PROVE FreePair(h, n)
  <2>1. g[n].next \in DOMAIN g /\ ~g[g[n].next].is_allocated
    BY <1>3, <1>9 DEF Linked, FreePair
  <2> QED BY <2>1, <1>4, <1>5, <1>9 DEF FreePair
<1>10. ASSUME FreePair(g, a) PROVE FreePair(h, b)
  <2>1. g[a].next \in DOMAIN g /\ ~g[g[a].next].is_allocated
    BY <1>3, <1>4, <1>10 DEF Linked, FreePair
  <2> QED BY <2>1, <1>4, <1>5, <1>6, <1>10 DEF FreePair
<1> QED BY <1>3, <1>4, <1>5, <1>6, <1>7, <1>8, <1>9, <1>10 DEF Good


\* The second merge of kfree removes the last free pair.
LEMMA JoinNextGood ==
    ASSUME NEW h, NEW l, Good(h, l), NEW d \in DOMAIN h, ~h[d].is_allocated,
           \A n \in DOMAIN h : FreePair(h, n) => n = d,
           NEW g, g = JoinNext(h, d)
    PROVE  Good(g, l) /\ \A n \in DOMAIN g : ~FreePair(g, n)
<1>1. CASE MergesNext(h, d)
  <2>1. FreePair(h, d) /\ g = Absorb(h, d)
    BY <1>1 DEF MergesNext, FreePair, JoinNext
  <2>2. /\ Good(g, l) /\ DOMAIN g = DOMAIN h \ {h[d].next}
        /\ h[d].next \in DOMAIN h /\ h[d].next # d
        /\ \A n \in DOMAIN g \ {d} : FreePair(g, n) => FreePair(h, n)
        /\ FreePair(g, d) => FreePair(h, h[d].next)
    BY <2>1, AbsorbGood
  <2> QED BY <2>2
<1>2. CASE ~MergesNext(h, d)
  BY <1>2 DEF MergesNext, FreePair, JoinNext
<1> QED BY <1>1, <1>2

\* kfree's two merges, starting from a list whose only free pairs are the
\* ones the freed block b is part of.
LEMMA CoalesceGood ==
    ASSUME NEW h, NEW l, Good(h, l), NEW b \in DOMAIN h, ~h[b].is_allocated,
           \A n \in DOMAIN h : FreePair(h, n) => n = b \/ h[n].next = b,
           NEW g, g = Coalesce(h, b)
    PROVE  Good(g, l) /\ \A n \in DOMAIN g : ~FreePair(g, n)
<1> DEFINE p == h[b].prev
<1>1. \A n \in DOMAIN h : h[n].next = b => n = p
  <2>1. b # NULL
    BY FieldTypes, HeapAssumption DEF Good, NULL
  <2> QED BY <2>1 DEF Good, Linked
<1>2. CASE MergesPrev(h, b)
  <2> DEFINE h2 == Absorb(h, p)
  <2>1. p \in DOMAIN h /\ h[p].next = b /\ b # NULL
    BY <1>2, FieldTypes, HeapAssumption DEF Good, Linked, MergesPrev, NULL
  <2>2. FreePair(h, p)
    BY <1>2, <2>1 DEF FreePair, MergesPrev
  <2>3. /\ Good(h2, l) /\ p \in DOMAIN h2 /\ ~h2[p].is_allocated
        /\ DOMAIN h2 = DOMAIN h \ {b}
        /\ \A n \in DOMAIN h2 \ {p} : FreePair(h2, n) => FreePair(h, n)
    BY <2>1, <2>2, AbsorbGood
  <2>4. \A n \in DOMAIN h2 : FreePair(h2, n) => n = p
    BY <2>3, <1>1
  <2>5. g = JoinNext(h2, p)
    BY <1>2 DEF Coalesce, JoinPrev
  <2> HIDE DEF h2
  <2> QED BY <2>3, <2>4, <2>5, JoinNextGood
<1>3. CASE ~MergesPrev(h, b)
  <2>1. ASSUME NEW n \in DOMAIN h, FreePair(h, n) PROVE n = b
    <3>1. CASE h[n].next = b
      <4>1. n = p /\ n # NULL
        BY <3>1, <1>1, FieldTypes, HeapAssumption DEF Good, NULL
      <4> QED BY <4>1, <1>3, <2>1 DEF MergesPrev, FreePair
    <3> QED BY <3>1, <2>1
  <2>2. g = JoinNext(h, b)
    BY <1>3 DEF Coalesce, JoinPrev
  <2> QED BY <2>1, <2>2, JoinNextGood
<1> QED BY <1>2, <1>3

----------------------------------------------------------------------------
\* HeapInv in terms of the predicates above, in a state and in the next one.
LEMMA InvParts ==
    /\ HeapInv <=> /\ Good(hdr, live) /\ \A n \in DOMAIN hdr : ~FreePair(hdr, n)
                   /\ live \in [DOMAIN live -> Sizes]
                   /\ ret \in -1 .. Word - 1 /\ halted \in BOOLEAN
    /\ HeapInv' <=> /\ Good(hdr', live') /\ \A n \in DOMAIN hdr' : ~FreePair(hdr', n)
                    /\ live' \in [DOMAIN live' -> Sizes]
                    /\ ret' \in -1 .. Word - 1 /\ halted' \in BOOLEAN
BY DEF HeapInv, TypeOK, BlocksTile, Accounted, Coalesced, BoundedSlack,
       Good, Shape, AccountedIn, SlackIn, FreePair

\* The list in which kmalloc has chosen block r: every caller's block is where
\* it was, r is the caller's, and at most one free block t was added.
LEMMA CarveGood ==
    ASSUME NEW h, NEW l, Good(h, l), \A n \in DOMAIN h : ~FreePair(h, n),
           NEW s \in Sizes, NEW r \in DOMAIN h, h[r].size > s,
           ~h[r].is_allocated, ~Faults(h, r, s),
           NEW g, g = Carve(h, r, s),
           NEW k, DOMAIN k = DOMAIN l \cup {r + HdrSize},
           k[r + HdrSize] = s,
           \A p \in DOMAIN l : p # r + HdrSize => k[p] = l[p]
    PROVE  Good(g, k) /\ \A n \in DOMAIN g : ~FreePair(g, n)
<1> DEFINE f == IF Splits(h, r, s) THEN Split(h, r, s) ELSE h
<1>1. Shape(h) /\ Linked(h) /\ AccountedIn(h, l) /\ SlackIn(h, l)
  BY DEF Good
<1>2. s \in Nat /\ s + HdrSize < Word
  BY HeapAssumption
<1>3. g = [f EXCEPT ![r].is_allocated = TRUE]
  BY DEF Carve
<1>4. \* what the chosen block looks like, split or not
      /\ Shape(f) /\ Linked(f) /\ r \in DOMAIN f /\ DOMAIN h \subseteq DOMAIN f
      /\ f[r].size - s \in 0 .. HdrSize
      /\ \A m \in DOMAIN h \ {r} :
           /\ f[m].size = h[m].size /\ f[m].next = h[m].next
           /\ f[m].is_allocated = h[m].is_allocated
      /\ \A m \in DOMAIN f \ DOMAIN h :
           f[m].next = h[r].next /\ ~f[m].is_allocated
  <2>1. CASE Splits(h, r, s)
    <3>1. IsSplit(h, r, s, r + HdrSize + s, f)
      BY <2>1, <1>1, <1>2, SplitFields
    <3>2. Linked(f)
      BY <3>1, <1>1, <1>2, SplitLinked
    <3> HIDE DEF f
    <3> QED BY <1>2, <3>1, <3>2, HeapAssumption DEF IsSplit
  <2>2. CASE ~Splits(h, r, s)
    <3>1. f = h
      BY <2>2
    <3>2. f[r].size - s \in 0 .. HdrSize
      BY <2>2, <1>1, <1>2, FieldTypes, HeapAssumption DEF Splits, Plus
    <3> QED BY <1>1, <3>1, <3>2
  <2> QED BY <2>1, <2>2
<1> HIDE DEF f
<1>5. /\ DOMAIN g = DOMAIN f /\ g[r].is_allocated = TRUE /\ Shape(g)
      /\ \A m \in DOMAIN f \ {r} : g[m].is_allocated = f[m].is_allocated
      /\ \A m \in DOMAIN f :
           g[m].size = f[m].size /\ g[m].next = f[m].next /\ g[m].prev = f[m].prev
  <2>1. IsFlagged(f, r, TRUE, g)
    BY <1>3, <1>4, FlagFields
  <2> QED BY <2>1 DEF IsFlagged
<1>6. Linked(g)
  BY <1>4, <1>5, SameLinks
<1>7. \A m \in DOMAIN f : m \in Int
  BY <1>4, FieldTypes
<1>8. AccountedIn(g, k)
  <2>1. ASSUME NEW n \in DOMAIN g
        PROVE g[n].is_allocated <=> n + HdrSize \in DOMAIN k
    <3>1. CASE n = r
      BY <3>1, <1>5
    <3>2. CASE n \in DOMAIN h \ {r}
      BY <3>2, <1>1, <1>4, <1>5, <1>7, HeapAssumption DEF AccountedIn
    <3>3. CASE n \notin DOMAIN h
      <4>1. \A m \in DOMAIN h : n + HdrSize # m + HdrSize
        BY <3>3, <1>4, <1>5, <1>7, HeapAssumption
      <4>2. ~g[n].is_allocated
        BY <3>3, <1>4, <1>5
      <4> QED BY <4>1, <4>2, <1>1 DEF AccountedIn
    <3> QED BY <3>1, <3>2, <3>3
  <2>2. \A p \in DOMAIN k : \E n \in DOMAIN g : p = n + HdrSize
    BY <1>1, <1>4, <1>5 DEF AccountedIn
  <2> QED BY <2>1, <2>2 DEF AccountedIn
<1>9. SlackIn(g, k)
  <2> SUFFICES ASSUME NEW n \in DOMAIN g, g[n].is_allocated
               PROVE  g[n].size - k[n + HdrSize] \in 0 .. HdrSize
    BY DEF SlackIn
  <2>1. CASE n = r
    BY <2>1, <1>4, <1>5
  <2>2. CASE n # r
    <3>1. n \in DOMAIN h /\ h[n].is_allocated /\ g[n].size = h[n].size
      BY <2>2, <1>4, <1>5
    <3>2. n + HdrSize \in DOMAIN l /\ n + HdrSize # r + HdrSize
      BY <2>2, <3>1, <1>1, <1>4, <1>7, HeapAssumption DEF AccountedIn
    <3> QED BY <3>1, <3>2, <1>1 DEF SlackIn
  <2> QED BY <2>1, <2>2
<1>10. ASSUME NEW n \in DOMAIN g, FreePair(g, n) PROVE FALSE
  <2>1. /\ n # r /\ ~g[n].is_allocated /\ g[n].next # NULL
        /\ g[n].next \in DOMAIN g /\ g[n].next # r /\ ~g[g[n].next].is_allocated
    BY <1>5, <1>6, <1>10 DEF FreePair, Linked
  <2>2. CASE n \in DOMAIN h
    <3>1. h[n].next = g[n].next /\ h[n].next \in DOMAIN h \ {r} /\ ~h[n].is_allocated
      BY <2>1, <2>2, <1>1, <1>4, <1>5 DEF Linked
    <3> QED BY <3>1, <2>1, <2>2, <1>4, <1>5 DEF FreePair
  <2>3. CASE n \notin DOMAIN h
    <3>1. h[r].next = g[n].next /\ h[r].next \in DOMAIN h \ {r}
      BY <2>1, <2>3, <1>1, <1>4, <1>5 DEF Linked
    <3> QED BY <3>1, <2>1, <1>4, <1>5 DEF FreePair
  <2> QED BY <2>2, <2>3
<1> QED BY <1>5, <1>6, <1>8, <1>9, <1>10 DEF Good

----------------------------------------------------------------------------
(* One lemma per operation.                                                *)

\* What a successful kmalloc does, with its word arithmetic worked out.
LEMMA KmallocEffect ==
    ASSUME HeapInv, NEW s \in Sizes, Kmalloc(s)
    PROVE  \E r \in DOMAIN hdr :
             /\ hdr[r].size > s /\ ~hdr[r].is_allocated /\ ~Faults(hdr, r, s)
             /\ hdr' = Carve(hdr, r, s)
             /\ ret' = r + HdrSize /\ ret' \in 0 .. Word - 1
             /\ live' = [p \in DOMAIN live \cup {r + HdrSize} |->
                            IF p = r + HdrSize THEN s ELSE live[p]]
             /\ halted' = halted
<1>1. PICK r \in DOMAIN hdr :
        /\ FirstFit(r, s) /\ ~Faults(hdr, r, s)
        /\ hdr' = Carve(hdr, r, s)
        /\ ret' = Plus(r, HdrSize)
        /\ live' = [p \in DOMAIN live \cup {ret'} |-> IF p = ret' THEN s ELSE live[p]]
        /\ UNCHANGED halted
  BY DEF Kmalloc
<1>2. Plus(r, HdrSize) = r + HdrSize /\ r + HdrSize \in 0 .. Word - 1
  BY FieldTypes, HeapAssumption, InvParts DEF Plus, Good
<1> QED BY <1>1, <1>2 DEF FirstFit, Fits

\* A successful kmalloc keeps the list intact.
LEMMA KmallocStep ==
    ASSUME HeapInv, NEW s \in Sizes, Kmalloc(s)
    PROVE  HeapInv'
<1>1. PICK r \in DOMAIN hdr :
             /\ hdr[r].size > s /\ ~hdr[r].is_allocated /\ ~Faults(hdr, r, s)
             /\ hdr' = Carve(hdr, r, s)
             /\ ret' = r + HdrSize /\ ret' \in 0 .. Word - 1
             /\ live' = [p \in DOMAIN live \cup {r + HdrSize} |->
                            IF p = r + HdrSize THEN s ELSE live[p]]
             /\ halted' = halted
  BY KmallocEffect
<1>2. /\ DOMAIN live' = DOMAIN live \cup {r + HdrSize}
      /\ live'[r + HdrSize] = s
      /\ \A p \in DOMAIN live : p # r + HdrSize => live'[p] = live[p]
      /\ live' \in [DOMAIN live' -> Sizes]
  BY <1>1, InvParts
<1>3. Good(hdr', live') /\ \A n \in DOMAIN hdr' : ~FreePair(hdr', n)
  BY <1>1, <1>2, InvParts, CarveGood
<1> QED BY <1>1, <1>2, <1>3, InvParts

\* kfree is given a pointer kmalloc returned, and finds its header.
LEMMA KfreeEffect ==
    ASSUME HeapInv, NEW ptr \in DOMAIN live, Kfree(ptr)
    PROVE  \E b \in DOMAIN hdr :
             /\ ptr = b + HdrSize /\ hdr[b].is_allocated
             /\ hdr' = Coalesce(Freed(hdr, b), b)
             /\ live' = [p \in DOMAIN live \ {ptr} |-> live[p]]
             /\ ret' = ret /\ halted' = halted
<1>1. PICK b \in DOMAIN hdr : ptr = b + HdrSize
  BY InvParts DEF Good, AccountedIn
<1>2. Minus(ptr, HdrSize) = b
  BY <1>1, InvParts, FieldTypes, HeapAssumption DEF Minus, Good
<1>3. hdr[b].is_allocated
  BY <1>1, InvParts DEF Good, AccountedIn
<1> QED BY <1>1, <1>2, <1>3 DEF Kfree

\* kfree keeps it intact, whichever neighbours it merges with.
LEMMA KfreeStep ==
    ASSUME HeapInv, NEW ptr \in DOMAIN live, Kfree(ptr)
    PROVE  HeapInv'
<1>1. PICK b \in DOMAIN hdr :
             /\ ptr = b + HdrSize /\ hdr[b].is_allocated
             /\ hdr' = Coalesce(Freed(hdr, b), b)
             /\ live' = [p \in DOMAIN live \ {ptr} |-> live[p]]
             /\ ret' = ret /\ halted' = halted
  BY KfreeEffect
<1> DEFINE f == Freed(hdr, b)
<1>2. Shape(hdr) /\ Linked(hdr) /\ AccountedIn(hdr, live) /\ SlackIn(hdr, live)
  BY InvParts DEF Good
<1>3. IsFlagged(hdr, b, FALSE, f)
  BY <1>2, FlagFields DEF Freed
<1> HIDE DEF f
<1>4. Shape(f) /\ DOMAIN f = DOMAIN hdr /\ ~f[b].is_allocated
  BY <1>3 DEF IsFlagged
<1>5. \A m \in DOMAIN hdr : /\ f[m].size = hdr[m].size /\ f[m].next = hdr[m].next
                            /\ f[m].prev = hdr[m].prev
  BY <1>3 DEF IsFlagged
<1>6. \A m \in DOMAIN hdr \ {b} : f[m].is_allocated = hdr[m].is_allocated
  BY <1>3 DEF IsFlagged
<1>7. Linked(f)
  BY <1>2, <1>4, <1>5, SameLinks
<1>8. DOMAIN live' = DOMAIN live \ {ptr} /\ live' \in [DOMAIN live' -> Sizes]
  BY <1>1, InvParts
<1>9. \A p \in DOMAIN live' : live'[p] = live[p]
  BY <1>1
<1>10. \A m \in DOMAIN hdr \ {b} : m + HdrSize # ptr
  BY <1>1, <1>2, FieldTypes, HeapAssumption
<1>11. AccountedIn(f, live')
  <2>1. \A n \in DOMAIN f : f[n].is_allocated <=> n + HdrSize \in DOMAIN live'
    BY <1>1, <1>2, <1>4, <1>6, <1>8, <1>10 DEF AccountedIn
  <2>2. \A p \in DOMAIN live' : \E n \in DOMAIN f : p = n + HdrSize
    BY <1>2, <1>4, <1>8 DEF AccountedIn
  <2> QED BY <2>1, <2>2 DEF AccountedIn
<1>12. SlackIn(f, live')
  BY <1>2, <1>4, <1>5, <1>6, <1>9, <1>11 DEF SlackIn, AccountedIn
<1>13. ASSUME NEW n \in DOMAIN f, FreePair(f, n)
       PROVE  n = b \/ f[n].next = b
  <2>1. f[n].next \in DOMAIN hdr
    BY <1>4, <1>7, <1>13 DEF Linked, FreePair
  <2>2. ~FreePair(hdr, n)
    BY <1>4, InvParts
  <2> QED BY <2>1, <2>2, <1>4, <1>5, <1>6, <1>13 DEF FreePair
<1>14. Good(f, live')
  BY <1>4, <1>7, <1>11, <1>12 DEF Good
<1>15. Good(hdr', live') /\ \A n \in DOMAIN hdr' : ~FreePair(hdr', n)
  <2>1. hdr' = Coalesce(f, b) /\ b \in DOMAIN f
    BY <1>1, <1>4 DEF f
  <2> QED BY <2>1, <1>4, <1>13, <1>14, CoalesceGood
<1> QED BY <1>1, <1>8, <1>15, InvParts

\* The heap of heap_allocator_init is one free block.
LEMMA InitHolds == Init => HeapInv
<1> SUFFICES ASSUME Init PROVE HeapInv
  OBVIOUS
<1>1. DOMAIN hdr = {0} /\ DOMAIN live = {} /\ ret = 0 /\ halted = FALSE
  BY DEF Init
<1>2. /\ hdr[0].is_allocated = FALSE /\ hdr[0].size = HeapSize
      /\ hdr[0].next = -1 /\ hdr[0].prev = -1
  BY DEF Init, NULL
<1>3. TypeOK
  <2>1. hdr \in [{0} -> Header]
    BY HeapAssumption DEF Init, Header, NULL
  <2>2. 0 \in 0 .. Mapped - HdrSize /\ 0 \in -1 .. Word - 1
    BY HeapAssumption
  <2>3. live \in [DOMAIN live -> Sizes]
    BY DEF Init
  <2> QED BY <1>1, <2>1, <2>2, <2>3 DEF TypeOK
<1>4. BlocksTile
  BY <1>1, <1>2, HeapAssumption DEF BlocksTile, Linked, End, ArenaEnd, NULL
<1> QED BY <1>1, <1>2, <1>3, <1>4
        DEF HeapInv, Accounted, Coalesced, BoundedSlack, NULL

\* No call breaks the invariant.
LEMMA NextStep == HeapInv /\ [Next]_vars => HeapInv'
<1> SUFFICES ASSUME HeapInv, [Next]_vars PROVE HeapInv'
  OBVIOUS
<1>1. ASSUME NEW s \in Sizes, Kmalloc(s) PROVE HeapInv'
  BY <1>1, KmallocStep
<1>2. ASSUME NEW s \in Sizes, KmallocFaults(s) PROVE HeapInv'
  BY <1>2, InvParts DEF KmallocFaults
<1>3. ASSUME NEW s \in Sizes, KmallocFails(s) PROVE HeapInv'
  BY <1>3, InvParts, HeapAssumption DEF KmallocFails, FAIL
<1>4. ASSUME NEW p \in DOMAIN live, Kfree(p) PROVE HeapInv'
  BY <1>4, KfreeStep
<1>5. CASE UNCHANGED vars
  BY <1>5, InvParts DEF vars
<1> QED BY <1>1, <1>2, <1>3, <1>4, <1>5 DEF Next

\* The inductive invariant: after any history of kmalloc and kfree the blocks
\* tile the arena, the flags match what callers hold, no two neighbours are
\* free and no allocated block is short or wastes more than a header.
THEOREM HeapInvariant == Spec => []HeapInv
<1>1. Init => HeapInv
  BY InitHolds
<1>2. HeapInv /\ [Next]_vars => HeapInv'
  BY NextStep
<1> QED BY <1>1, <1>2, PTL DEF Spec

\* Each of the named properties follows from it.
LEMMA EmptyWhole == HeapInv => EmptyHeapIsWhole
<1> SUFFICES ASSUME HeapInv, DOMAIN live = {}
             PROVE  /\ DOMAIN hdr = {0}
                    /\ hdr[0].size = HeapSize /\ ~hdr[0].is_allocated
  BY DEF EmptyHeapIsWhole
<1>1. /\ Shape(hdr) /\ Linked(hdr) /\ 0 \in DOMAIN hdr
      /\ \A n \in DOMAIN hdr : ~hdr[n].is_allocated /\ ~FreePair(hdr, n)
  BY InvParts DEF Good, AccountedIn, Linked
<1>2. hdr[0].next = NULL /\ End(hdr, 0) = ArenaEnd
  BY <1>1 DEF Linked, FreePair
<1>3. ASSUME NEW n \in DOMAIN hdr, n # 0 PROVE FALSE
  <2>1. End(hdr, 0) <= n /\ End(hdr, n) <= ArenaEnd
    BY <1>1, <1>3, FieldTypes DEF Linked
  <2> QED BY <2>1, <1>1, <1>2, FieldTypes, HeapAssumption DEF End, ArenaEnd
<1>4. hdr[0].size = HeapSize
  BY <1>1, <1>2, FieldTypes, HeapAssumption DEF End, ArenaEnd
<1> QED BY <1>1, <1>3, <1>4

\* kmalloc's and kfree's relinking never breaks the list, whatever the sizes.
THEOREM TilingHolds == Spec => []BlocksTile
BY HeapInvariant, PTL DEF HeapInv

\* The is_allocated flags kmalloc and kfree keep are exactly the pointers that
\* callers hold, so nothing in use is handed out again and nothing free is lost.
THEOREM AccountsHold == Spec => []Accounted
BY HeapInvariant, PTL DEF HeapInv

\* Looking at one neighbour on each side is enough for kfree: no two free blocks
\* ever touch, in whatever order blocks are given back.
THEOREM CoalescingHolds == Spec => []Coalesced
BY HeapInvariant, PTL DEF HeapInv

\* A block is at least as long as asked for and wastes at most one header.
THEOREM SlackHolds == Spec => []BoundedSlack
BY HeapInvariant, PTL DEF HeapInv

\* Once everything is freed the arena is whole again, for any arena size.
THEOREM NoLeak == Spec => []EmptyHeapIsWhole
BY HeapInvariant, EmptyWhole, PTL

----------------------------------------------------------------------------
(* The refinement of AllocSpec.                                            *)

\* Two live regions never overlap, headers included.
LEMMA LiveApart ==
    ASSUME HeapInv, HeapInv', NEW r \in DOMAIN hdr', NEW s, s = live'[r + HdrSize],
           NEW q \in DOMAIN live', q # r + HdrSize, r + HdrSize \in DOMAIN live'
    PROVE  Abs!Apart(r + HdrSize, s, q, live'[q])
<1>1. Shape(hdr') /\ Linked(hdr') /\ AccountedIn(hdr', live') /\ SlackIn(hdr', live')
  BY InvParts DEF Good
<1>2. PICK n \in DOMAIN hdr' : q = n + HdrSize
  BY <1>1 DEF AccountedIn
<1>3. /\ s \in Nat /\ live'[q] \in Nat
  BY InvParts, HeapAssumption
<1>4. hdr'[r].is_allocated /\ hdr'[n].is_allocated
  BY <1>1, <1>2 DEF AccountedIn
<1>5. s <= hdr'[r].size /\ live'[q] <= hdr'[n].size
  BY <1>1, <1>2, <1>3, <1>4, FieldTypes, HeapAssumption DEF SlackIn
<1>6. n # r /\ n \in Int /\ r \in Int /\ hdr'[r].size \in Int /\ hdr'[n].size \in Int
  BY <1>1, <1>2, FieldTypes
<1>7. End(hdr', r) <= n \/ End(hdr', n) <= r
  BY <1>1, <1>6 DEF Linked
<1> QED BY <1>2, <1>3, <1>5, <1>6, <1>7, HeapAssumption DEF Abs!Apart, End

\* Every call is a call of the abstract allocator, and a page fault is none.
LEMMA StepRefines == HeapInv /\ HeapInv' /\ [Next]_vars => [Abs!AbsNext]_(Abs!absVars)
<1> SUFFICES ASSUME HeapInv, HeapInv', [Next]_vars
             PROVE  [Abs!AbsNext]_(Abs!absVars)
  OBVIOUS
<1>1. ASSUME NEW s \in Sizes, Kmalloc(s) PROVE Abs!Grant(s)
  <2>1. PICK r \in DOMAIN hdr :
             /\ hdr[r].size > s /\ ~hdr[r].is_allocated /\ ~Faults(hdr, r, s)
             /\ hdr' = Carve(hdr, r, s)
             /\ ret' = r + HdrSize /\ ret' \in 0 .. Word - 1
             /\ live' = [p \in DOMAIN live \cup {r + HdrSize} |->
                            IF p = r + HdrSize THEN s ELSE live[p]]
             /\ halted' = halted
    BY <1>1, KmallocEffect
  <2>2. Shape(hdr) /\ Linked(hdr) /\ AccountedIn(hdr, live) /\ Shape(hdr')
        /\ AccountedIn(hdr', live')
    BY InvParts DEF Good
  <2>3. s \in Nat
    BY HeapAssumption
  <2>4. ret' \in 0 .. Abs!ArenaEnd /\ ret' + s <= Abs!ArenaEnd
    <3>1. End(hdr, r) <= ArenaEnd
      BY <2>2 DEF Linked
    <3> QED BY <2>1, <2>2, <2>3, <3>1, FieldTypes, HeapAssumption
            DEF End, ArenaEnd, Abs!ArenaEnd
  <2>5. ret' \notin DOMAIN live
    BY <2>1, <2>2 DEF AccountedIn
  <2>6. /\ DOMAIN live' = DOMAIN live \cup {ret'} /\ live'[ret'] = s
        /\ \A q \in DOMAIN live : live'[q] = live[q]
    BY <2>1, <2>5
  <2>7. r \in DOMAIN hdr'
    <3>1. PICK n \in DOMAIN hdr' : ret' = n + HdrSize
      BY <2>2, <2>6 DEF AccountedIn
    <3>2. n = r
      BY <3>1, <2>1, <2>2, FieldTypes, HeapAssumption
    <3> QED BY <3>2
  <2>8. ASSUME NEW q \in DOMAIN live PROVE Abs!Apart(ret', s, q, live[q])
    BY <2>1, <2>5, <2>6, <2>7, LiveApart
  <2> QED BY <2>1, <2>4, <2>5, <2>8 DEF Abs!Grant
<1>2. ASSUME NEW s \in Sizes, KmallocFails(s) PROVE Abs!Refuse(s)
  <2>1. CASE DOMAIN live = {}
    <3>1. 0 \in DOMAIN hdr /\ hdr[0].size = HeapSize /\ ~hdr[0].is_allocated
      BY <2>1, EmptyWhole DEF EmptyHeapIsWhole
    <3>2. s >= HeapSize
      BY <3>1, <1>2, HeapAssumption DEF KmallocFails, Fits
    <3> QED BY <3>2, <1>2 DEF KmallocFails, FAIL, Abs!Refuse
  <2>2. CASE DOMAIN live # {}
    BY <2>2, <1>2 DEF KmallocFails, FAIL, Abs!Refuse
  <2> QED BY <2>1, <2>2
<1>3. ASSUME NEW p \in DOMAIN live, Kfree(p) PROVE Abs!Release(p)
  BY <1>3 DEF Kfree, Abs!Release
<1>4. ASSUME NEW s \in Sizes, KmallocFaults(s) PROVE UNCHANGED Abs!absVars
  BY <1>4 DEF KmallocFaults, Abs!absVars
<1>5. CASE UNCHANGED vars
  BY <1>5 DEF vars, Abs!absVars
<1> QED BY <1>1, <1>2, <1>3, <1>4, <1>5 DEF Next, Abs!AbsNext

\* The first-fit list implements the abstract allocator: every region handed
\* out is disjoint from those in use, and an empty heap refuses nothing that
\* would fit a fresh one.
THEOREM Refinement == Spec => ImplementsAllocSpec
<1>1. Init => Abs!AbsInit
  BY DEF Init, Abs!AbsInit
<1>2. HeapInv /\ HeapInv' /\ [Next]_vars => [Abs!AbsNext]_(Abs!absVars)
  BY StepRefines
<1> QED BY <1>1, <1>2, HeapInvariant, PTL DEF Spec, Abs!AbsSpec, ImplementsAllocSpec

============================================================================
