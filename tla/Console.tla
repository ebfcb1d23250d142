------------------------------ MODULE Console -------------------------------
(***************************************************************************)
(* The text console of drivers/video.cpp with printf (std/printf.cpp) in   *)
(* front of it. Several tasks print: every access to the shared cursor and *)
(* every pixel line drawn or copied is a step of its own, so a tick may    *)
(* come between any two of them.                                           *)
(*                                                                         *)
(* A pixel line of the framebuffer holds, for each character column, the   *)
(* character whose pixels are there. A format is a sequence of items, the  *)
(* conversions [conv, param] and the literal characters; the arguments are *)
(* numbers.                                                                *)
(***************************************************************************)
EXTENDS Integers, FiniteSets, SequencesExt

CONSTANTS Tasks,        \* the tasks that print
          Calls,        \* task -> the call of printf [fmt, args] it makes
          Modes,        \* display modes [w, h, bpp, pitch]
          Digits,       \* the characters 0-9 and a-f, by value
          Letters,      \* the other printable characters used
          Newline, Blank,
          CharHeight,   \* VGA_CHAR_HEIGHT, 16 in the code
          PageSize      \* 4096 in the code

Glyphs == Letters \cup {Digits[d] : d \in 0 .. 15}

Chars  == Glyphs \cup {Newline}

\* An item of a format that stands for itself.
Lit(c) == [conv |-> "lit", param |-> c]
IsConversion(item) == item.conv # "lit"
Items == {Lit(c) : c \in Chars} \cup [conv : STRING \ {"lit"}, param : 0 .. 8]

\* A call of printf: no width is larger than 8, and every conversion has its
\* argument, a word of 32 bits.
CallOK(c) ==
    /\ c.fmt \in Seq(Items) /\ c.args \in Seq(Nat)
    /\ \A i \in DOMAIN c.args : c.args[i] \div 65536 < 65536
    /\ Cardinality({i \in DOMAIN c.fmt : IsConversion(c.fmt[i])}) <= Len(c.args)

\* put_pixel writes three bytes; a screen has room for two rows of text.
ASSUME ConsoleAssumption ==
    /\ \A c \in Calls : \A t \in Tasks : CallOK(c[t])
    /\ CharHeight \in Nat \ {0} /\ PageSize \in Nat \ {0}
    /\ Modes \subseteq [w : Nat, h : Nat, bpp : {24, 32}, pitch : Nat]
    /\ \A m \in Modes : /\ m.w >= 8 /\ m.h >= 2 * CharHeight
                        /\ m.pitch >= m.w * (m.bpp \div 8)

VARIABLES
    boot,                   \* video::init and video::clear
    mode, mapped,           \* scr_w, scr_h, scr_bpp, scr_pitch; pages mapped
    cursor_pos, fb,         \* the cursor and the framebuffer
    pc, pos, ch, line,      \* putc: where it is, its pos and c; the pixel line
    call, todo, args, out,  \* printf: its call, what is left of it; printed
    smashed,                \* a number did not fit the array it is built in
    text, shown, torn       \* ghosts: see Terminal

video  == <<boot, mode, mapped>>
putcVars == <<pc, pos, ch, line>>
printVars == <<call, todo, args, out, smashed>>
ghosts == <<text, shown, torn>>
vars   == <<video, cursor_pos, fb, putcVars, printVars, ghosts>>

Cols == mode.w \div 8
Rows == mode.h \div CharHeight
None == -1              \* a word of pos that has not been read
Unread == [x |-> None, y |-> None]
Line(c) == [k \in 0 .. Cols - 1 |-> c]

Init ==
    /\ boot = "off" /\ mode \in Modes /\ mapped = 0
    /\ cursor_pos = [x |-> 0, y |-> 0] /\ fb = [l \in 0 .. mode.h - 1 |-> Line("bios")]
    /\ pc = [t \in Tasks |-> "ready"] /\ pos = [t \in Tasks |-> Unread]
    /\ ch = [t \in Tasks |-> Blank] /\ line = [t \in Tasks |-> 0]
    /\ call \in Calls
    /\ todo = [t \in Tasks |-> call[t].fmt] /\ args = [t \in Tasks |-> call[t].args]
    /\ out = [t \in Tasks |-> << >>] /\ smashed = FALSE
    /\ text = << >> /\ torn = FALSE
    /\ shown = [r \in 0 .. Rows - 2 |-> [k \in 0 .. Cols - 1 |-> Blank]]

----------------------------------------------------------------------------
(* video::init and video::clear, before anything is printed.               *)

\* The size both compute; pitch counts bytes already.
FrameBytes == mode.pitch * mode.h * (mode.bpp \div 8)

\* Mutant: the last page, begun but not filled, is left out.
PagesBegun == FrameBytes \div PageSize
\* for (i = 0; i <= pages_for_framebuffer; i++)
Pages == FrameBytes \div PageSize + 1

VideoInit ==
    /\ boot = "off" /\ boot' = "clear"
    /\ mapped' = Pages
    /\ cursor_pos' = [x |-> 0, y |-> 0]
    /\ UNCHANGED <<mode, fb, putcVars, printVars, ghosts>>

Clear ==
    /\ boot = "clear" /\ boot' = "up"
    /\ fb' = [l \in DOMAIN fb |-> Line(Blank)]
    /\ UNCHANGED <<mode, mapped, cursor_pos, putcVars, printVars, ghosts>>

----------------------------------------------------------------------------
(* printf.                                                                 *)

\* do { digit = val % base; val /= base; } while (val != 0), last digit first.
Numeral(val, base) ==
    LET digits[v \in Nat] == IF v < base THEN <<Digits[v]>>
                             ELSE Append(digits[v \div base], Digits[v % base])
    IN  digits[val]

\* Mutant: the padding does not count the digits printed.
PrintHexPads(val, padding) == [i \in 1 .. padding |-> Digits[0]] \o Numeral(val, 16)

\* for (i = 0; i < padding - printed; i++) str[offset--] = '0'
PrintHex(val, padding) ==
    LET digits == Numeral(val, 16)
    IN  [i \in 1 .. Max({0, padding - Len(digits)}) |-> Digits[0]] \o digits

PrintDec(val) == Numeral(val, 10)

\* What a conversion prints: an unknown one nothing, and every one takes an
\* argument. str has room for 8 hexadecimal or 10 decimal digits.
Converted(cv, val) ==
    CASE cv.conv = "x" -> PrintHex(val, cv.param)
      [] cv.conv = "d" -> PrintDec(val)
      [] OTHER         -> << >>
Room(cv) == IF cv.conv = "x" THEN 8 ELSE 10

Convert(t) ==
    /\ boot = "up" /\ pc[t] = "ready" /\ todo[t] # << >> /\ IsConversion(Head(todo[t]))
    /\ LET digits == Converted(Head(todo[t]), Head(args[t]))
       IN  /\ todo' = [todo EXCEPT ![t] = [i \in DOMAIN digits |-> Lit(digits[i])] \o Tail(@)]
           /\ smashed' = (smashed \/ Len(digits) > Room(Head(todo[t])))
    /\ args' = [args EXCEPT ![t] = Tail(@)]
    /\ UNCHANGED <<video, cursor_pos, fb, putcVars, call, out, ghosts>>

----------------------------------------------------------------------------
(* putc.                                                                   *)

Goto(t, from, to) == pc[t] = from /\ pc' = [pc EXCEPT ![t] = to]

\* printf hands the next character to putc. From here to the last store the
\* call is under way.
Putc(t) ==
    /\ boot = "up" /\ todo[t] # << >> /\ ~IsConversion(Head(todo[t]))
    /\ Goto(t, "ready", "load")
    /\ ch' = [ch EXCEPT ![t] = Head(todo[t]).param]
    /\ todo' = [todo EXCEPT ![t] = Tail(@)]
    /\ pos' = [pos EXCEPT ![t] = Unread]
    /\ torn' = (torn \/ \E u \in Tasks : pc[u] # "ready")
    /\ UNCHANGED <<video, cursor_pos, fb, line, call, args, out, smashed, text, shown>>

\* get_cursor_pos: two words, read in an order the compiler chooses.
Load(t, f) ==
    /\ pc[t] = "load" /\ pos[t][f] = None
    /\ pos' = [pos EXCEPT ![t][f] = cursor_pos[f]]
    /\ pc' = [pc EXCEPT ![t] = IF \A g \in {"x", "y"} \ {f} : pos[t][g] # None
                               THEN "draw" ELSE "load"]
    /\ line' = [line EXCEPT ![t] = 0]
    /\ UNCHANGED <<video, cursor_pos, fb, ch, printVars, ghosts>>

\* One pixel line of the glyph.
Draw(t) ==
    /\ pc[t] = "draw" /\ ch[t] # Newline
    /\ fb' = [fb EXCEPT ![pos[t].y * CharHeight + line[t]][pos[t].x] = ch[t]]
    /\ line' = [line EXCEPT ![t] = line[t] + 1]
    /\ pc' = [pc EXCEPT ![t] = IF line[t] + 1 < CharHeight THEN "draw" ELSE "move"]
    /\ UNCHANGED <<video, cursor_pos, pos, ch, printVars, ghosts>>

\* Mutant: a full line is noticed one character late.
AdvanceLate(p, c) ==
    CASE c = Newline    -> [x |-> 0, y |-> p.y + 1]
      [] p.x + 1 > Cols -> [x |-> 0, y |-> p.y + 1]
      [] OTHER          -> [x |-> p.x + 1, y |-> p.y]

\* Lines 64-88: the position behind the character.
Advance(p, c) ==
    CASE c = Newline     -> [x |-> 0, y |-> p.y + 1]
      [] p.x + 1 >= Cols -> [x |-> 0, y |-> p.y + 1]
      [] OTHER           -> [x |-> p.x + 1, y |-> p.y]

\* Mutant: the screen is scrolled when its last row is full.
ScrollsLate(p) == p.y >= Rows
\* Line 90. The last row is never written.
Scrolls(p) == p.y >= Rows - 1

Move(t) ==
    /\ pc[t] = "move" \/ (pc[t] = "draw" /\ ch[t] = Newline)
    /\ LET p == Advance(pos[t], ch[t])
       IN  IF Scrolls(p)
           THEN /\ pos' = [pos EXCEPT ![t] = [p EXCEPT !.y = p.y - 1]]
                /\ pc' = [pc EXCEPT ![t] = "scroll"]
           ELSE /\ pos' = [pos EXCEPT ![t] = p]
                /\ pc' = [pc EXCEPT ![t] = "store"]
    /\ line' = [line EXCEPT ![t] = 0]
    /\ UNCHANGED <<video, cursor_pos, fb, ch, printVars, ghosts>>

\* scroll(): memcpy moves pixel line after pixel line.
Scroll(t) ==
    /\ pc[t] = "scroll"
    /\ fb' = [fb EXCEPT ![line[t]] = fb[line[t] + CharHeight]]
    /\ line' = [line EXCEPT ![t] = line[t] + 1]
    /\ pc' = [pc EXCEPT ![t] = IF line[t] + 1 < mode.h - CharHeight THEN "scroll" ELSE "store"]
    /\ UNCHANGED <<video, cursor_pos, pos, ch, printVars, ghosts>>

\* A cell shows a character when all its pixel lines do.
Cell(r, k) ==
    LET top == fb[r * CharHeight][k]
    IN  IF \A l \in 0 .. CharHeight - 1 : fb[r * CharHeight + l][k] = top THEN top ELSE "garbled"
Screen == [r \in 0 .. Rows - 2 |-> [k \in 0 .. Cols - 1 |-> Cell(r, k)]]

\* set_cursor_pos: two words again; putc returns after the second.
Store(t, f) ==
    /\ pc[t] = "store" /\ pos[t][f] # None
    /\ cursor_pos' = [cursor_pos EXCEPT ![f] = pos[t][f]]
    /\ pos' = [pos EXCEPT ![t][f] = None]
    /\ IF pos'[t] # Unread
       THEN UNCHANGED <<pc, out, text, shown>>
       ELSE /\ pc' = [pc EXCEPT ![t] = "ready"]
            /\ out' = [out EXCEPT ![t] = Append(@, ch[t])]
            /\ text' = IF torn THEN << >> ELSE Append(text, ch[t])
            /\ shown' = IF torn THEN shown ELSE Screen
    /\ UNCHANGED <<video, fb, ch, line, call, todo, args, smashed, torn>>

----------------------------------------------------------------------------
Next == \/ VideoInit \/ Clear
        \/ \E t \in Tasks : \/ Convert(t) \/ Putc(t) \/ Draw(t) \/ Move(t) \/ Scroll(t)
                            \/ \E f \in {"x", "y"} : Load(t, f) \/ Store(t, f)

Spec == Init /\ [][Next]_vars

----------------------------------------------------------------------------
\* The highest framebuffer byte the next write or copy of t touches, and the
\* highest that clear touches.
LastByte(t) ==
    CASE pc[t] = "draw"   -> (pos[t].y * CharHeight + line[t]) * mode.pitch
                              + (pos[t].x * 8 + 7) * (mode.bpp \div 8) + 2
      [] pc[t] = "scroll" -> (line[t] + CharHeight + 1) * mode.pitch - 1
      [] OTHER            -> -1

\* Nothing is drawn, copied or cleared behind the pages video::init has mapped
\* (a page fault there stops the machine), however the tasks interleave.
WritesMapped ==
    /\ boot = "clear" => FrameBytes <= mapped * PageSize
    /\ \A t \in Tasks : LastByte(t) < mapped * PageSize

\* However the tasks interleave, and with the two words of the cursor mixed up
\* between them, no glyph reaches the bottom row: it stays blank, and a scroll
\* opens a blank line.
BottomRowBlank ==
    boot = "up" => \A l \in (Rows - 1) * CharHeight .. mode.h - 1 : fb[l] = Line(Blank)

Power(base, k) == LET power[n \in Nat] == IF n = 0 THEN 1 ELSE base * power[n - 1] IN power[k]

\* The numeral of val: the first of the lengths that has room for it.
Shortest(val, base, lengths) ==
    LET fits(k) == val \div Power(base, k - 1) < base
        n == CHOOSE k \in lengths : fits(k) /\ \A j \in lengths : j < k => ~fits(j)
    IN  [i \in 1 .. n |-> Digits[(val \div Power(base, n - i)) % base]]

\* What item i of the format stands for, and the arguments used up to it.
Nth(c, i) == Cardinality({j \in 1 .. i : IsConversion(c.fmt[j])})
Meaning(c, i) ==
    LET it == c.fmt[i]
    IN  CASE ~IsConversion(it) -> <<it.param>>
          [] it.conv = "x" -> Shortest(c.args[Nth(c, i)], 16, Max({1, it.param}) .. 8)
          [] it.conv = "d" -> Shortest(c.args[Nth(c, i)], 10, 1 .. 10)
          [] OTHER -> << >>

Reference(c) == FlattenSeq([i \in 1 .. Len(c.fmt) |-> Meaning(c, i)])

\* printf prints what its format and arguments say, each number in full and no
\* wider than asked, and no number overruns the array print_hex or print_dec
\* builds it in: the largest ones fill it to the last byte.
PrintedExact ==
    /\ ~smashed
    /\ \A t \in Tasks : pc[t] = "ready" /\ todo[t] = << >> => out[t] = Reference(call[t])

Term == INSTANCE Terminal WITH cols <- Cols, rows <- Rows

\* As long as no two calls of putc overlap, cursor, wrapping and scrolling make
\* a terminal: after each call the screen shows the end of the text.
ImplementsTerminal == Term!AbsSpec
=============================================================================
