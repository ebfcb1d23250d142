------------------------------ MODULE Terminal ------------------------------
(***************************************************************************)
(* What a text console promises, whatever keeps its cursor: the text so    *)
(* far is broken into lines at newlines and at the right edge, as on       *)
(* endless paper, and the screen shows the last lines that fit above its   *)
(* bottom row. Nothing is promised once two calls have overlapped.         *)
(***************************************************************************)
EXTENDS Integers, SequencesExt

CONSTANTS Newline, Blank, Glyphs

VARIABLES cols, rows,   \* size of the screen in characters
          text,         \* the characters written so far
          shown,        \* what the screen shows
          torn          \* calls have overlapped

absVars == <<cols, rows, text, shown, torn>>

\* The paper, a sequence of lines, after one more character.
Type(paper, c) ==
    LET n    == Len(paper)
        line == Append(paper[n], c)
        full == c # Newline /\ Len(line) = cols
    IN  CASE c = Newline -> Append(paper, << >>)
          [] full        -> Append([paper EXCEPT ![n] = line], << >>)
          [] OTHER       -> [paper EXCEPT ![n] = line]

Paper(s) ==
    LET paper[n \in 0 .. Len(s)] == IF n = 0 THEN << << >> >> ELSE Type(paper[n - 1], s[n])
    IN  paper[Len(s)]

\* The window on the end of the paper, row and column counted from 0.
Window(paper) ==
    LET top == Max({0, Len(paper) - (rows - 1)})
    IN  [r \in 0 .. rows - 2 |-> [k \in 0 .. cols - 1 |->
            IF top + r < Len(paper) /\ k < Len(paper[top + r + 1])
            THEN paper[top + r + 1][k + 1] ELSE Blank]]

AbsInit == text = << >> /\ shown = Window(Paper(<< >>)) /\ ~torn

Put(c) ==
    /\ text' = Append(text, c)
    /\ shown' = Window(Paper(text'))
    /\ ~torn' /\ UNCHANGED torn

AbsNext == /\ UNCHANGED <<cols, rows>>
           /\ torn' \/ \E c \in Glyphs \cup {Newline} : Put(c)

AbsSpec == AbsInit /\ [][AbsNext]_absVars
=============================================================================
