----------------------------- MODULE AllocSpec -----------------------------
(***************************************************************************)
(* What the kernel heap promises its callers, whatever strategy kmalloc    *)
(* uses: a request is answered with a region that overlaps no region       *)
(* already handed out, a region is given back exactly once, and an empty   *)
(* heap serves every request that a fresh heap would have served.          *)
(* Addresses are offsets from heap_top.                                    *)
(***************************************************************************)
EXTENDS Integers

CONSTANTS HdrSize,    \* bytes of bookkeeping in front of every region
          HeapSize,   \* bytes the arena had behind its first header
          Sizes       \* the request sizes callers use

VARIABLES live,       \* region handed out -> size that was asked for
          ret         \* what the last call of kmalloc returned

absVars == <<live, ret>>

\* One past the last byte of the arena.
ArenaEnd == HdrSize + HeapSize

\* The byte ranges p .. p+s-1 and q .. q+t-1, each with room for its header.
Apart(p, s, q, t) == p + s + HdrSize <= q \/ q + t + HdrSize <= p

AbsInit == live = [p \in {} |-> 0] /\ ret = 0

Grant(s) ==
    \E p \in 0 .. ArenaEnd :
        /\ p \notin DOMAIN live
        /\ p + s <= ArenaEnd
        /\ \A q \in DOMAIN live : Apart(p, s, q, live[q])
        /\ live' = [q \in DOMAIN live \cup {p} |-> IF q = p THEN s ELSE live[q]]
        /\ ret' = p

\* Refusing is allowed only while something is allocated, or when the
\* request would not have fitted a fresh heap either.
Refuse(s) ==
    /\ DOMAIN live # {} \/ s >= HeapSize
    /\ ret' = -1
    /\ UNCHANGED live

Release(p) ==
    /\ live' = [q \in DOMAIN live \ {p} |-> live[q]]
    /\ UNCHANGED ret

AbsNext == \/ \E s \in Sizes : Grant(s) \/ Refuse(s)
           \/ \E p \in DOMAIN live : Release(p)

AbsSpec == AbsInit /\ [][AbsNext]_absVars
============================================================================
