--------------------------------- MODULE Tty --------------------------------
(***************************************************************************)
(* The keyboard and the terminal: hw/keyboard.rs, hw/ps2.rs, hw/tty.rs.    *)
(*                                                                         *)
(* An interrupt decodes one scancode and puts the character through the    *)
(* line editor in one step; a read that finds nothing waits for the next   *)
(* event and looks again.  Both hold the terminal with interrupts masked.  *)
(* Echo and logging are left out.  Characters keep only what the code      *)
(* tells apart: a letter and a symbol in both cases, blank, newline.       *)
(***************************************************************************)
EXTENDS Integers, Sequences

CONSTANTS
    Codes,             \* scancodes of the keys of the keyboard, below 128
    COOKED_CAPACITY,
    LINE_CAPACITY,
    MaxCount           \* bound: the count of a read

(* What is assumed of the constants.                                      *)
TtyAssumption ==
    /\ Codes \subseteq 0 .. 127
    /\ COOKED_CAPACITY \in Nat \ {0} /\ LINE_CAPACITY \in Nat /\ MaxCount \in Nat

Ring == 0 .. COOKED_CAPACITY - 1
Printable == {"a", "A", "1", "!", " "}
Chars == Printable \cup {"nl"}
NoChar == "none"

VARIABLES
    shift, caps_lock,       \* KBD_STATE
    cooked, head, tail,     \* cooked_head, cooked_tail
    line,                   \* line[0 .. line_len - 1]
    count,                  \* what the read in progress asks for, 0: none
    copied,                 \* history: the bytes that the last read returned
    down,                   \* history: the shift keys that are held down
    unread,                 \* history: the bytes of all lines not read yet
    behind                  \* history: unread was once more than fits

keyboard == <<shift, caps_lock, down>>
ring == <<cooked, head, tail>>
vars == <<keyboard, ring, line, count, copied, unread, behind>>

TypeOK ==
    /\ shift \in BOOLEAN /\ caps_lock \in BOOLEAN /\ down \subseteq Codes
    /\ cooked \in [Ring -> Chars] /\ head \in Ring /\ tail \in Ring
    /\ line \in Seq(Printable) /\ Len(line) <= LINE_CAPACITY
    /\ count \in 0 .. MaxCount
    /\ copied \in Seq(Chars) /\ unread \in Seq(Chars) /\ behind \in BOOLEAN

Init ==
    /\ shift = FALSE /\ caps_lock = FALSE /\ down = {}
    /\ cooked = [i \in Ring |-> "nl"] /\ head = 0 /\ tail = 0
    /\ line = << >> /\ count = 0
    /\ copied = << >> /\ unread = << >> /\ behind = FALSE

-----------------------------------------------------------------------------
(* hw/ps2.rs.  The match of decode_scancode takes the symbols out of the   *)
(* range of the letters first; the rest of that range is map_alpha.        *)

ShiftCodes == {42, 54}
SymbolCodes == 2 .. 13 \cup {26, 27, 39, 40, 41, 43, 51, 52, 53}
LetterCodes == 16 .. 25 \cup 30 .. 38 \cup 44 .. 50

(* decode_scancode: the key, without the bit of a release.                 *)
KeyCode(code) ==
    CASE code \in ShiftCodes -> "Shift"
      [] code = 58 -> "CapsLock"
      [] code = 28 -> "Enter"
      [] code = 14 -> "Backspace"
      [] code = 57 -> "Space"
      [] code \in SymbolCodes -> "Symbol"
      [] code \in LetterCodes -> "Letter"
      [] OTHER -> "Unknown"

(* keyevent_to_char of a press, after apply_state.                         *)
keyevent_to_char(key, shifted, caps) ==
    CASE key = "Letter" -> IF shifted # caps THEN "A" ELSE "a"
      [] key = "Symbol" -> IF shifted THEN "!" ELSE "1"
      [] key = "Enter" -> "nl"
      [] key = "Backspace" -> "bs"
      [] key = "Space" -> " "
      [] OTHER -> NoChar

-----------------------------------------------------------------------------
(* hw/tty.rs.                                                              *)

Used == (head - tail + COOKED_CAPACITY) % COOKED_CAPACITY
Cooked == [i \in 1 .. Used |-> cooked[(tail + i - 1) % COOKED_CAPACITY]]

(* cooked_push of the bytes of s, one after the other: the ring keeps one  *)
(* place empty, and what does not fit is dropped.                          *)
Fits(s) == SubSeq(s, 1, COOKED_CAPACITY - 1 - Used)

cooked_push_Early(s) ==
    LET new == IF Used + Len(s) < COOKED_CAPACITY - 1 THEN s ELSE << >>
    IN /\ cooked' = [i \in Ring |->
                       LET k == (i - head + COOKED_CAPACITY) % COOKED_CAPACITY
                       IN IF k < Len(new) THEN new[k + 1] ELSE cooked[i]]
       /\ head' = (head + Len(new)) % COOKED_CAPACITY

cooked_push(s) ==
    LET new == IF Used + Len(s) < COOKED_CAPACITY THEN s ELSE Fits(s)
    IN /\ cooked' = [i \in Ring |->
                       LET k == (i - head + COOKED_CAPACITY) % COOKED_CAPACITY
                       IN IF k < Len(new) THEN new[k + 1] ELSE cooked[i]]
       /\ head' = (head + Len(new)) % COOKED_CAPACITY

commit_line ==
    LET s == Append(line, "nl")
    IN /\ cooked_push(s)
       /\ line' = << >>
       /\ behind' = (behind \/ Len(unread) + Len(s) > COOKED_CAPACITY - 1)
       /\ unread' = IF behind' THEN << >> ELSE unread \o s
       /\ UNCHANGED tail

input_char(c) ==
    \/ c = "nl" /\ commit_line
    \/ /\ c = "bs"
       /\ line' = IF line = << >> THEN line ELSE SubSeq(line, 1, Len(line) - 1)
       /\ UNCHANGED <<ring, unread, behind>>
    \/ /\ c \in Printable
       /\ line' = IF Len(line) >= LINE_CAPACITY THEN line ELSE Append(line, c)
       /\ UNCHANGED <<ring, unread, behind>>
    \/ c = NoChar /\ UNCHANGED <<line, ring, unread, behind>>

(* keyboard_handler with the scancode of a press, or of a release.         *)
press(code) ==
    LET key == KeyCode(code)
        c == keyevent_to_char(key, shift', caps_lock')
    IN /\ shift' = (shift \/ key = "Shift")
       /\ caps_lock' = IF key = "CapsLock" THEN ~ caps_lock ELSE caps_lock
       /\ down' = IF key = "Shift" THEN down \cup {code} ELSE down
       /\ input_char(c)
       /\ UNCHANGED <<count, copied>>

release_Kept(code) ==
    /\ down' = down \ {code}
    /\ UNCHANGED <<shift, caps_lock, ring, line, count, copied, unread, behind>>

release(code) ==
    /\ KeyCode(code) = "Shift" /\ code \in down
    /\ shift' = FALSE
    /\ down' = down \ {code}
    /\ UNCHANGED <<caps_lock, ring, line, count, copied, unread, behind>>

(* read: the call, and one look at the ring.                               *)
read(n) ==
    /\ count = 0
    /\ count' = n
    /\ UNCHANGED <<keyboard, ring, line, copied, unread, behind>>

(* The bytes that one look copies: up to count, up to a newline.           *)
Taken_Through(n) == IF Used <= n THEN Cooked ELSE SubSeq(Cooked, 1, n)

Taken(n) ==
    LET Ends == {i \in 1 .. Used : i = n \/ i = Used \/ Cooked[i] = "nl"}
    IN SubSeq(Cooked, 1, CHOOSE i \in Ends : \A j \in Ends : i <= j)

ReadLooks_Line ==
    /\ count > 0 /\ \E i \in 1 .. Used : Cooked[i] = "nl"
    /\ copied' = Taken(count)
    /\ tail' = (tail + Len(copied')) % COOKED_CAPACITY
    /\ unread' = IF behind THEN unread ELSE SubSeq(unread, Len(copied') + 1, Len(unread))
    /\ count' = 0
    /\ UNCHANGED <<keyboard, cooked, head, line, behind>>

ReadLooks ==
    /\ count > 0 /\ Used > 0
    /\ copied' = Taken(count)
    /\ tail' = (tail + Len(copied')) % COOKED_CAPACITY
    /\ unread' = IF behind THEN unread ELSE SubSeq(unread, Len(copied') + 1, Len(unread))
    /\ count' = 0
    /\ UNCHANGED <<keyboard, cooked, head, line, behind>>

Next ==
    \/ \E code \in Codes : press(code) \/ release(code)
    \/ \E n \in 1 .. MaxCount : read(n)
    \/ ReadLooks

(* wait_for_event returns, at the latest with the next timer interrupt.    *)
Spec == Init /\ [][Next]_vars /\ WF_vars(ReadLooks)

-----------------------------------------------------------------------------
(* Properties.                                                             *)

(* Unless the reader was once behind by more than the ring holds, what it  *)
(* still has to read is exactly what was typed and entered, in order: the  *)
(* ring and the line editor lose, repeat and reorder nothing.              *)
NothingLost == ~ behind => Cooked = unread

(* A read never returns more than one line, nor goes on after its end.     *)
OneLine == \A i \in DOMAIN copied : copied[i] = "nl" => i = Len(copied)

(* A reader waits no longer once something was entered, even when the ring *)
(* was full and the newline of the last line was dropped.                  *)
ReaderReturns == (count > 0 /\ Used > 0) ~> (count = 0)

(* The shift state is never stuck: while it is on, a shift key is down,    *)
(* with two shift keys pressed and released in any order.                  *)
ShiftNotStuck == shift => down # {}
=============================================================================
