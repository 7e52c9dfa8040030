------------------------------- MODULE KTerm -------------------------------
(***************************************************************************)
(* The kernel terminal of src/src/kterm.c on top of the keyboard ring of  *)
(* Kbd: the thread of kterm_run calls kbd_read, and with each batch of    *)
(* characters it gets it edits its command line, echoes the batch through *)
(* printf and console_putstr to the framebuffer console (fb_cons.c), and  *)
(* on '\r' runs the line with kterm_exec.                                 *)
(*                                                                         *)
(* Each key the typist presses is one of a few characters; kbd_decode      *)
(* turns its scan code back into that character: the typist presses no   *)
(* Shift or Caps Lock (Kbd's IrqSpecial is not a step here; DecodedAs-    *)
(* Pressed of Kbd is about them).  The console is reduced to the line     *)
(* the cursor is on, as the sequence of glyphs left of the cursor: every  *)
(* glyph is drawn at the cursor, which then moves right, and the only way *)
(* back is fb_cons_clear_char, which clears what it passes.  Lines are    *)
(* assumed narrower than the screen.  Commands are the names given to     *)
(* kterm_add_cmd; what a command prints is left out: every command of     *)
(* the table except ipi's "bad option" ends its output with a newline.    *)
(***************************************************************************)
EXTENDS Kbd, SequencesExt, Vsprintf

CONSTANTS
    Chars,      \* the characters the typist can type
    Commands    \* the names registered by kterm_start, as character sequences

BS == "BS"      \* '\b'
CR == "CR"      \* '\r'
NL == "NL"      \* '\n'

ASSUME {BS, CR} \subseteq Chars /\ NL \notin Chars

\* The text of the prompt, printf("# _").
Prompt == <<"#", " ">>
Cursor == <<"_">>

VARIABLES
    typed,      \* the character of each key pressed: kbd_decode of code k
    tpc,        \* "read": in kbd_read; "batch": holding a batch
    cmd_line,   \* cmd_line[0 .. cmd_pos-1]; its length is cmd_pos
    scr,        \* the glyphs left of the console cursor on its line
    shown,      \* history: the console line of each command, as it was
                \* when kterm_run moved past it
    ran         \* history: what kterm_exec did with each line

termVars == <<typed, tpc, cmd_line, scr, shown, ran>>
allVars == <<vars, termVars>>

\* What ran records for a line no command took: "unknown command" was
\* printed.  A command always gets at least its own name in argv.
UNKNOWN == <<>>

Glyphs == (Chars \ {BS, CR}) \cup {"#", " ", "_"}

TermTypeOK ==
    /\ TypeOK
    /\ typed \in Seq(Chars) /\ Len(typed) = pressed
    /\ tpc \in {"read", "batch"}
    /\ cmd_line \in Seq(Chars \ {BS, CR})
    /\ scr \in Seq(Glyphs)
    /\ shown \in Seq(Seq(Glyphs))
    /\ ran \in Seq(Seq(Seq(Chars)))

-----------------------------------------------------------------------------
(* The console: fb_cons_putchar through console_putstr.                   *)

\* fb_cons_putchar for a glyph or '\b': '\b' is fb_cons_clear_char(1),
\* which does nothing at the start of the line.
PutChar(s, c) ==
    IF c = BS THEN IF s = <<>> THEN s ELSE Front(s)
              ELSE Append(s, c)

\* console_putstr, and printf of a string with no newline in it.
PutStr(s, str) == FoldLeft(PutChar, s, str)

\* printf("\b%s_", tmp): the text vsprintf writes to printf's buf, which
\* console_putstr prints.
EchoFmt == <<BS, "%", "s", "_">>
EchoText(t) == Vsprintf(EchoFmt, <<t>>)

-----------------------------------------------------------------------------
(* kterm_exec                                                             *)

\* The argument loop of kterm_exec: skip spaces (writing NULs over them),
\* take the word up to the next space as args[argc++].  A line that ends
\* in spaces yields a last, empty argument.
RECURSIVE Argv(_)
Argv(s) ==
    LET start == CHOOSE i \in 1..(Len(s) + 1) :
                     /\ \A j \in 1..(i - 1) : s[j] = " "
                     /\ i > Len(s) \/ s[i] # " "
        stop == CHOOSE i \in start..(Len(s) + 1) :
                    /\ \A j \in start..(i - 1) : s[j] # " "
                    /\ i > Len(s) \/ s[i] = " "
    IN IF s = <<>> THEN <<>>
       ELSE <<SubSeq(s, start, stop - 1)>> \o Argv(SubSeq(s, stop, Len(s)))

\* strcmp of string.c, compared with 0 as its callers do: it stops at the
\* first pair of characters that differ, or at the NUL the two share.
Strcmp(s1, s2) == IF s1 = s2 THEN 0 ELSE 1

\* kterm_exec: the first command of the table whose name strcmp finds
\* equal to args[0] runs, else "unknown command" is printed.
Exec(line) ==
    LET args == Argv(line)
    IN IF Len(args) > 0 /\ \E c \in Commands : Strcmp(c, args[1]) = 0
       THEN args ELSE UNKNOWN

-----------------------------------------------------------------------------
(* kterm_run                                                              *)

\* Mutant: "cmd_pos = 0" is missing after kterm_exec.
KTermCharNoReset(t, ch) ==
    CASE ch = CR /\ t.line # <<>> ->
            [t EXCEPT !.shown = Append(@, PutChar(t.scr, BS)),
                      !.ran = Append(@, Exec(t.line)),
                      !.tmp = <<>>, !.scr = Prompt \o Cursor]
      [] ch = CR -> [t EXCEPT !.tmp = <<>>, !.scr = Prompt \o Cursor]
      [] ch = BS /\ t.line # <<>> ->
            [t EXCEPT !.line = Front(@), !.scr = PutStr(@, <<BS, BS, "_">>)]
      [] ch = BS -> t
      [] OTHER -> [t EXCEPT !.tmp = Append(@, ch), !.line = Append(@, ch)]

\* One pass of the for loop of kterm_run over the batch; t is the state
\* of its locals tmp (the text to echo) and cmd_line, and of the console.
KTermChar(t, ch) ==
    CASE ch = CR /\ t.line # <<>> ->
            \* printf("\b\n"); kterm_exec(cmd_line); printf("# _")
            [t EXCEPT !.shown = Append(@, PutChar(t.scr, BS)),
                      !.ran = Append(@, Exec(t.line)),
                      !.line = <<>>, !.tmp = <<>>,
                      !.scr = Prompt \o Cursor]
      [] ch = CR ->
            \* printf("\b\n# _")
            [t EXCEPT !.tmp = <<>>, !.scr = Prompt \o Cursor]
      [] ch = BS /\ t.line # <<>> ->
            \* --cmd_pos; console_putstr("\b\b_")
            [t EXCEPT !.line = Front(@), !.scr = PutStr(@, <<BS, BS, "_">>)]
      [] ch = BS -> t
      [] OTHER ->
            [t EXCEPT !.tmp = Append(@, ch), !.line = Append(@, ch)]

\* The batch loop and the echo after it: printf("\b%s_", tmp).
KTermLoop(t, batch) == FoldLeft(KTermChar, t, batch)

KTermBatch(t, batch) ==
    LET u == KTermLoop(t, batch)
    IN IF u.tmp = <<>> THEN u
       ELSE [u EXCEPT !.scr = PutStr(@, EchoText(u.tmp))]

\* kbd_decode of the codes kbd_read copied last.
Decoded == [i \in 1..lastN |-> typed[got[Len(got) - lastN + i]]]

\* kterm_run handles the characters kbd_read returned and calls it again.
Batch ==
    /\ tpc = "batch" /\ rpc = "out"
    /\ \E u \in {KTermBatch([line |-> cmd_line, tmp |-> <<>>, scr |-> scr,
                             shown |-> shown, ran |-> ran], Decoded)} :
         /\ cmd_line' = u.line /\ scr' = u.scr
         /\ shown' = u.shown /\ ran' = u.ran
    /\ tpc' = "read"
    /\ UNCHANGED <<vars, typed>>

-----------------------------------------------------------------------------

\* kterm_start has registered the commands and kterm_run has printed its
\* banner and the first prompt.
TermInit ==
    /\ Init
    /\ typed = <<>> /\ tpc = "read" /\ cmd_line = <<>>
    /\ scr = Prompt \o Cursor /\ shown = <<>> /\ ran = <<>>

TReadLock == ReadLock /\ tpc = "read" /\ UNCHANGED termVars

\* kbd_read has copied its batch; it decodes it (ReadDecode) and
\* returns it to kterm_run.
TReadCopy ==
    /\ ReadCopy /\ tpc' = "batch"
    /\ UNCHANGED <<typed, cmd_line, scr, shown, ran>>

TKeyPress ==
    /\ KeyPress
    /\ \E c \in Chars : typed' = Append(typed, c)
    /\ UNCHANGED <<tpc, cmd_line, scr, shown, ran>>

KbdStep(A) == A /\ UNCHANGED termVars

TermNext ==
    \/ TReadLock \/ TReadCopy \/ KbdStep(ReadDecode) \/ TKeyPress \/ Batch
    \/ KbdStep(ReadWait) \/ KbdStep(SwitchAway) \/ KbdStep(Resume)
    \/ KbdStep(Relock) \/ KbdStep(IrqLock) \/ KbdStep(IrqWake)

\* As in Kbd; the terminal thread handles each batch before it reads again.
TermFairness ==
    /\ WF_allVars(TReadLock) /\ WF_allVars(TReadCopy)
    /\ WF_allVars(KbdStep(ReadDecode)) /\ WF_allVars(Batch)
    /\ WF_allVars(KbdStep(ReadWait)) /\ WF_allVars(KbdStep(SwitchAway))
    /\ WF_allVars(KbdStep(Resume)) /\ WF_allVars(KbdStep(Relock))
    /\ WF_allVars(KbdStep(IrqLock)) /\ WF_allVars(KbdStep(IrqWake))

TermSpec == TermInit /\ [][TermNext]_allVars /\ TermFairness

-----------------------------------------------------------------------------
(* Properties.                                                            *)

\* What the typist means by the keys: each '\r' enters the line typed
\* since the last one, in which '\b' erases the character before it; an
\* empty line enters nothing.
RECURSIVE Entered(_, _, _)
Entered(cs, line, lines) ==
    IF cs = <<>> THEN [lines |-> lines, pending |-> line]
    ELSE LET c == Head(cs)
         IN Entered(Tail(cs),
                    CASE c = CR -> <<>>
                      [] c = BS -> IF line = <<>> THEN line ELSE Front(line)
                      [] OTHER -> Append(line, c),
                    IF c = CR /\ line # <<>> THEN Append(lines, line) ELSE lines)
EnteredLines(cs) == Entered(cs, <<>>, <<>>).lines
PendingLine(cs) == Entered(cs, <<>>, <<>>).pending

\* The characters of the keys kbd_read has returned, in its order.
Consumed == [i \in 1..Len(got) |-> typed[got[i]]]

\* Between batches, kterm_exec has run exactly the lines entered by the
\* keys kbd_read returned, in order, and cmd_line holds what has been
\* typed of the next one, however the keys were split into batches by
\* the timing of irq_handler against kbd_read.
CommandsAsTyped ==
    tpc = "read" =>
        LET E == Entered(Consumed, <<>>, <<>>)
        IN /\ ran = [i \in DOMAIN E.lines |-> Exec(E.lines[i])]
           /\ cmd_line = E.pending

\* The console shows what the terminal holds: between batches the cursor
\* line is the prompt, the command line and the cursor, and each line
\* kterm_exec ran was shown behind its prompt when Enter moved past it.
EchoMatches ==
    /\ tpc = "read" => scr = Prompt \o cmd_line \o Cursor
    /\ \A i \in DOMAIN shown :
           shown[i] = Prompt \o EnteredLines(Consumed)[i]

====
