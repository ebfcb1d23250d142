----------------------------- MODULE MCConsole ------------------------------
(* Two tasks on a screen of two visible rows of two characters.            *)
EXTENDS Console

CONSTANTS t1, t2

MCDigits == <<"0", "1", "2", "3", "4", "5", "6", "7", "8", "9", "a", "b", "c", "d", "e", "f">>
MCDigit  == [d \in 0 .. 15 |-> MCDigits[d + 1]]

\* Pixel lines and pixels that are left over on the right and at the bottom;
\* framebuffers of a whole and of a broken number of pages.
MCModes == {[w |-> 17, h |-> 7, bpp |-> 24, pitch |-> 64],
            [w |-> 16, h |-> 6, bpp |-> 32, pitch |-> 64]}

Text(s)   == [fmt |-> [i \in DOMAIN s |-> Lit(s[i])], args |-> << >>]
Hex(p, v) == [fmt |-> <<[conv |-> "x", param |-> p]>>, args |-> <<v>>]

Dec(v)    == [fmt |-> <<[conv |-> "d", param |-> 0], Lit("nl")>>, args |-> <<v>>]

\* Two tasks print texts into each other, or one prints numbers, the largest
\* among them, and nothing for a conversion printf does not know.
MCCalls ==
    {t1 :> Text(s) @@ t2 :> Text(<<"k", "nl">>) : s \in [1 .. 4 -> {"h", "nl"}]}
    \cup {t1 :> Text(s) @@ t2 :> Text(<< >>) : s \in [1 .. 6 -> {"h", "nl"}]}
    \cup {t1 :> c @@ t2 :> Text(<< >>) : c \in
            {Hex(p, v) : p \in {0, 2, 8}, v \in {0, 15, 16, 2147483647}}
            \cup {Dec(v) : v \in {0, 9, 10, 2147483647}}
            \cup {[fmt |-> <<[conv |-> "c", param |-> 0], [conv |-> "x", param |-> 0]>>,
                   args |-> <<5, 16>>]}}
=============================================================================
