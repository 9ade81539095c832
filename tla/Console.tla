------------------------------- MODULE Console ------------------------------
(***************************************************************************)
(* The text console on the frame buffer (drivers/vga/console.rs): a cursor *)
(* in pixels, a font scale that any program may change, and a screen that  *)
(* is cleared instead of scrolled.  All positions the cursor can take are  *)
(* a whole number of unscaled cells from the top left corner, so the       *)
(* pixels are grouped into blocks of the size of such a cell.              *)
(***************************************************************************)
EXTENDS Integers

CONSTANTS
    FbW, FbH,          \* FB_WIDTH, FB_HEIGHT: the frame buffer in pixels
    MarginLeft, StartY,\* 20 and 120: the corner of the terminal area
    CellW, CellH,      \* 8 and 16: a cell of the font
    MaxScale,          \* 4: the largest font scale
    ScaleArgs          \* the arguments programs give to set_font_scale

(* The frame buffer has room for a cell of the largest scale.              *)
(* What is assumed of the constants.                                      *)
ConsoleAssumption ==
    /\ {FbW, FbH, CellW, CellH, MaxScale} \subseteq Nat \ {0}
    /\ {MarginLeft, StartY} \subseteq Nat /\ ScaleArgs \subseteq Nat
    /\ MarginLeft + CellW * MaxScale < FbW /\ StartY + CellH * MaxScale <= FbH

VARIABLES
    x, y,       \* USERSPACE_CURSOR_X, USERSPACE_CURSOR_Y
    scale,      \* GLOBAL_SCALE
    ink,        \* the blocks that show a part of a character
    garbled,    \* history: a character was drawn over another one
    redrawn,    \* history: a return or a smaller scale since the last clear
    grown,      \* history: a larger scale since the line began
    want        \* history: where the program expects the cursor, in cells

vars == <<x, y, scale, ink, garbled, redrawn, grown, want>>

Bytes == {"print", "newline", "return", "tab", "backspace", "skipped"}

(* The program has left the window it was told of, or never asked.         *)
Unknown == [col |-> 0, row |-> 0, known |-> FALSE]
Home == [col |-> 0, row |-> 0, known |-> TRUE]

Columns == 0 .. (FbW - MarginLeft) \div CellW
Lines == 0 .. (FbH - StartY) \div CellH

TypeOK ==
    /\ x \in MarginLeft .. FbW /\ y \in StartY .. FbH
    /\ scale \in 1 .. MaxScale
    /\ ink \subseteq Columns \X Lines
    /\ {garbled, redrawn, grown} \subseteq BOOLEAN
    /\ want \in [col : Columns, row : Lines, known : BOOLEAN]

(* run_shell has cleared the area and set the cursor before any program    *)
(* runs, so the case of a cursor at y = 0 does not arise.                  *)
Init ==
    /\ x = MarginLeft /\ y = StartY /\ scale = 1 /\ ink = {}
    /\ garbled = FALSE /\ redrawn = FALSE /\ grown = FALSE /\ want = Home

char_w == CellW * scale
char_h == CellH * scale

(* tty_winsize: what TIOCGWINSZ reports.                                   *)
tty_winsize_NoMargin == [rows |-> (FbH - StartY) \div char_h, cols |-> FbW \div char_w]

tty_winsize ==
    LET sub(a, b) == IF a < b THEN 0 ELSE a - b
    IN [rows |-> sub(FbH, StartY) \div char_h, cols |-> sub(FbW, 2 * MarginLeft) \div char_w]

(* The blocks of a cell whose corner is at pixel (px, py).                 *)
Blocks(px, py) ==
    LET c == (px - MarginLeft) \div CellW
        l == (py - StartY) \div CellH
    IN (c .. c + scale - 1) \X (l .. l + scale - 1)

(* putchar_raw draws only the set bits of a glyph: what was there shows    *)
(* through.  A cell that does not fit is not drawn at all.                 *)
Drawn == y + char_h <= FbH /\ x + char_w <= FbW

CanGoBack == x >= MarginLeft + char_w

TabStop(p) == LET w == char_w * 4 IN ((p - MarginLeft + w) \div w) * w + MarginLeft

(* Where a byte leaves the cursor, before the line is found to be full.    *)
XAfter(b) ==
    CASE b = "print" -> x + char_w
      [] b = "tab" -> TabStop(x)
      [] b = "backspace" -> IF CanGoBack THEN x - char_w ELSE x
      [] b \in {"newline", "return"} -> MarginLeft
      [] OTHER -> x

NextLine_Full(b) ==
    b = "newline" \/ (b = "print" /\ XAfter(b) + char_w >= FbW)

NextLine(b) ==
    b = "newline" \/ (b \in {"print", "tab"} /\ XAfter(b) + char_w >= FbW)

(* The line below would not fit: the area is cleared and the cursor goes   *)
(* back to its top.                                                        *)
Clears(b) == NextLine(b) /\ y + char_h + char_h >= FbH

(* What a program that counts cells expects of the byte.                   *)
Expected(b) ==
    LET w == [want EXCEPT
               !.col = CASE b = "print" -> want.col + 1
                         [] b = "tab" -> (want.col \div 4 + 1) * 4
                         [] b = "backspace" -> IF want.col > 0 THEN want.col - 1 ELSE 0
                         [] b \in {"newline", "return"} -> 0
                         [] OTHER -> want.col,
               !.row = IF b = "newline" THEN @ + 1 ELSE @]
    IN IF want.known /\ w.col < tty_winsize.cols /\ w.row < tty_winsize.rows - 1
       THEN w ELSE Unknown

Backspaced_Kept(b) == {}

(* The blocks that a backspace fills with the background.                  *)
Backspaced(b) ==
    IF b = "backspace" /\ CanGoBack THEN Blocks(x - char_w, y) ELSE {}

Inked(b) == IF b = "print" /\ Drawn THEN Blocks(x, y) ELSE {}

write_byte_to_fb(b) ==
    /\ x' = IF NextLine(b) THEN MarginLeft ELSE XAfter(b)
    /\ y' = IF Clears(b) THEN StartY ELSE IF NextLine(b) THEN y + char_h ELSE y
    /\ ink' = IF Clears(b) THEN {} ELSE (ink \ Backspaced(b)) \cup Inked(b)
    /\ garbled' = (~Clears(b) /\ (garbled \/ ink \cap Inked(b) # {}))
    /\ redrawn' = (~Clears(b) /\ (redrawn \/ b = "return"))
    /\ grown' = (~NextLine(b) /\ grown)
    /\ want' = Expected(b)
    /\ UNCHANGED scale

(* The system call clear_terminal.                                         *)
clear_terminal ==
    /\ x' = MarginLeft /\ y' = StartY /\ ink' = {}
    /\ garbled' = FALSE /\ redrawn' = FALSE /\ grown' = FALSE /\ want' = Home
    /\ UNCHANGED scale

Clamped(a) == IF a < 1 THEN 1 ELSE IF a > MaxScale THEN MaxScale ELSE a

set_font_scale(a) ==
    /\ scale' = Clamped(a)
    /\ redrawn' = (redrawn \/ Clamped(a) < scale)
    /\ grown' = (grown \/ Clamped(a) > scale)
    /\ want' = IF Clamped(a) = scale THEN want ELSE Unknown
    /\ UNCHANGED <<x, y, ink, garbled>>

Next ==
    \/ \E b \in Bytes : write_byte_to_fb(b)
    \/ clear_terminal
    \/ \E a \in ScaleArgs : set_font_scale(a)

Spec == Init /\ [][Next]_vars

-----------------------------------------------------------------------------
(* No printable byte is dropped: the guard before putchar_raw holds at     *)
(* every cursor position that write_byte_to_fb leaves, through wrapping,   *)
(* tabs and clearing; only a larger scale set in the middle of a line can  *)
(* make the rest of that line invisible.                                   *)
NextByteShown == ~grown => Drawn

(* Characters never run into each other: since putchar_raw does not erase  *)
(* the cell, write_byte_to_fb must reach blank cells only, also after      *)
(* backspaces, tabs, wrapped lines and clears, and when the scale grows.   *)
(* Only a carriage return or a smaller scale leads back over old text.     *)
Legible == garbled => redrawn

(* The size that tty_winsize reports is usable but for its last row: a     *)
(* program that stays inside it, and counts its own columns and lines from *)
(* a cleared screen, finds the cursor where it expects it; nothing wraps   *)
(* or is cleared behind its back.                                          *)
CursorAsExpected ==
    want.known => /\ x = MarginLeft + want.col * char_w
                  /\ y = StartY + want.row * char_h
=============================================================================
