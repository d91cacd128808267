-------------------------------- MODULE Pager -------------------------------
(***************************************************************************)
(* The pager's hold on the terminal (mdf_pager_run, src/src/pager.c): it   *)
(* takes over signal handlers, terminal modes and the alternate screen,    *)
(* shows a view of the document, follows resizes and keys, and gives       *)
(* everything back before a signal that ended it reaches the caller.       *)
(*                                                                         *)
(* Signals arrive between any two steps and interrupt system calls.  `pc'  *)
(* is the pager's next step; everything else that moves is the terminal's  *)
(* or the kernel's.  The document, its layout and the position in it are   *)
(* left out: a view is the terminal size it was laid out for.              *)
(***************************************************************************)
EXTENDS Naturals, Sequences, SequencesExt

CONSTANTS
    Signals,        \* of mdf_pager_termination_signals
    None,
    Keys,           \* subset of DOMAIN KeyBytes
    MaxEvents       \* bound: keys pressed and resizes of the terminal, together

(* What a terminal sends for a key. *)
KeyBytes == [q |-> <<"q">>, down |-> <<"j">>, slash |-> <<"/">>, enter |-> <<"cr">>,
             up |-> <<"esc", "[", "A">>, escape |-> <<"esc">>]

ASSUME SignalsAssumption == None \notin Signals
ASSUME KeysAssumption    == Keys \subseteq DOMAIN KeyBytes
ASSUME BoundAssumption   == MaxEvents \in Nat

VARIABLES
    \* the terminal
    raw,                \* it is in raw mode
    screen,             \* "main" or "alternate"
    given_up,           \* why writes that switch the screen were given up
    size,               \* how often it was resized: its size
    shown,              \* the size that what it displays was laid out for
    tty,                \* bytes typed and not yet read
    pressed,            \* how many keys were pressed
    \* the process
    handlers,           \* who handles the termination signals: "caller", "pager"
    winch_handler,      \* the pager handles SIGWINCH
    winch_sent,         \* a SIGWINCH is on its way
    sent,               \* the termination signals sent
    blocked,            \* the termination signals are masked
    pending,            \* the masked ones
    caller_got,         \* those that reached the caller's dispositions
    interrupted,        \* the system call in progress was interrupted
    winch_count,        \* mdf_pager_winch_count
    termination_signal, \* mdf_pager_termination_signal
    \* mdf_pager_run; PagerView has its columns, redraw and search, too
    pc,
    loop_columns, seen_winch, resize_pending, entered_terminal, loop_redraw,
    ready,              \* what the last read returned: a byte, "none", "interrupted"
    search_mode,        \* "none", "editing", "active"
    picked              \* the local termination_signal

terminal == <<raw, screen, given_up, size, shown, tty, pressed>>
signals  == <<winch_sent, sent, pending, caller_got, winch_count, termination_signal>>
modes    == <<handlers, winch_handler, blocked>>
layout   == <<loop_columns, seen_winch, resize_pending, loop_redraw>>
keyboard == <<ready, search_mode>>
loop_vars == <<terminal, signals, modes, interrupted, pc, layout, keyboard,
              entered_terminal, picked>>

TerminalBytes == UNION {ToSet(KeyBytes[k]) : k \in DOMAIN KeyBytes}
Syscalls == {"enter", "enter_rest", "draw", "select", "restore"}

(* termination_signal is static: it holds whatever an earlier call left.     *)
LoopInit ==
    /\ raw = FALSE
    /\ screen = "main"
    /\ given_up = {}
    /\ size = 0
    /\ shown = 0
    /\ tty = << >>
    /\ pressed = 0
    /\ handlers = "caller"
    /\ winch_handler = FALSE
    /\ winch_sent = FALSE
    /\ sent = {}
    /\ blocked = FALSE
    /\ pending = {}
    /\ caller_got = {}
    /\ interrupted = FALSE
    /\ winch_count = 0
    /\ termination_signal \in Signals \cup {None}
    /\ pc = "start"
    /\ loop_columns = 0
    /\ seen_winch = 0
    /\ resize_pending = FALSE
    /\ entered_terminal = FALSE
    /\ loop_redraw = FALSE
    /\ ready = "none"
    /\ search_mode = "none"
    /\ picked = None

-----------------------------------------------------------------------------
(* Signals and the terminal *)

(* A signal handled while a system call blocks makes it return EINTR; one    *)
(* handled just before or after leaves it alone.                             *)
Interrupts ==
    interrupted' \in IF pc \in Syscalls THEN {interrupted, TRUE} ELSE {interrupted}

(* mdf_pager_on_termination: the first signal counts. *)
Recorded(s) == IF termination_signal = None THEN s ELSE termination_signal

SendTermination(s) ==
    /\ pc # "returned"
    /\ s \notin sent
    /\ sent' = sent \cup {s}
    /\ IF blocked
       THEN /\ pending' = pending \cup {s}
            /\ UNCHANGED <<caller_got, termination_signal, interrupted>>
       ELSE IF handlers = "pager"
       THEN /\ termination_signal' = Recorded(s)
            /\ Interrupts
            /\ UNCHANGED <<pending, caller_got>>
       ELSE /\ caller_got' = caller_got \cup {s}
            /\ UNCHANGED <<pending, termination_signal, interrupted>>
    /\ UNCHANGED <<terminal, modes, winch_sent, winch_count, pc, layout, keyboard,
                   entered_terminal, picked>>

Resize ==
    /\ pc # "returned"
    /\ size + pressed < MaxEvents
    /\ size' = size + 1
    /\ winch_sent' = TRUE
    /\ UNCHANGED <<raw, screen, given_up, shown, tty, pressed, sent, pending, caller_got,
                   winch_count, termination_signal, modes, interrupted, pc, layout,
                   keyboard, entered_terminal, picked>>

(* mdf_pager_on_winch, or nothing while the caller ignores SIGWINCH. *)
DeliverWinch ==
    /\ winch_sent
    /\ winch_sent' = FALSE
    /\ IF winch_handler
       THEN winch_count' = winch_count + 1 /\ Interrupts
       ELSE UNCHANGED <<winch_count, interrupted>>
    /\ UNCHANGED <<terminal, sent, pending, caller_got, termination_signal, modes,
                   pc, layout, keyboard, entered_terminal, picked>>

(* A terminal sends all bytes of a key at once. *)
PressKey(k) ==
    /\ raw
    /\ size + pressed < MaxEvents
    /\ pressed' = pressed + 1
    /\ tty' = tty \o KeyBytes[k]
    /\ UNCHANGED <<raw, screen, given_up, size, shown, signals, modes, interrupted, pc, layout,
                   keyboard, entered_terminal, picked>>

-----------------------------------------------------------------------------
(* Taking over the terminal *)

At(p)    == pc = p
GoTo(p)  == pc' = p

(* A step of the pager that makes no system call worth interrupting. *)
Quietly == UNCHANGED <<signals, interrupted>>

(* The handlers are installed after the record is cleared. *)
InstallHandlers ==
    /\ At("start")
    /\ termination_signal' = None
    /\ \/ handlers' = "pager" /\ GoTo("raw")
       \/ UNCHANGED handlers /\ GoTo("returned")
    /\ UNCHANGED <<terminal, winch_sent, sent, pending, caller_got, winch_count,
                   winch_handler, blocked, interrupted, layout, keyboard,
                   entered_terminal, picked>>

(* mdf_pager_set_raw_mode; TCSAFLUSH discards what was typed before. *)
SetRawMode ==
    /\ At("raw")
    /\ \/ raw' = TRUE /\ tty' = << >> /\ GoTo("winch")
       \/ UNCHANGED <<raw, tty>> /\ GoTo("done")
    /\ Quietly
    /\ UNCHANGED <<screen, given_up, size, shown, pressed, modes, layout, keyboard,
                   entered_terminal, picked>>

InstallWinch ==
    /\ At("winch")
    /\ \/ winch_handler' = TRUE /\ GoTo("enter")
       \/ UNCHANGED winch_handler /\ GoTo("done")
    /\ Quietly
    /\ UNCHANGED <<terminal, handlers, blocked, layout, keyboard, entered_terminal, picked>>

(* mdf_pager_write: EINTR is retried unless a termination signal was seen.   *)
Aborted == interrupted /\ termination_signal # None
Retry   == interrupted /\ termination_signal = None

(* -1: a recorded signal interrupted the write, or it failed for good.       *)
GivesUp == given_up' = given_up \cup {IF Aborted THEN "signal" ELSE "error"}

RetryWrite ==
    /\ pc \in {"enter", "enter_rest", "draw", "restore"}
    /\ Retry
    /\ interrupted' = FALSE
    /\ UNCHANGED <<terminal, signals, modes, pc, layout, keyboard, entered_terminal, picked>>

(* The alternate screen may be on when the rest of the write is pending, and *)
(* stays on when the rest fails: entered_terminal is only set after it.      *)
EnterTerminal ==
    /\ pc \in {"enter", "enter_rest"}
    /\ ~Retry
    /\ interrupted' = FALSE
    /\ \/ /\ GivesUp
          /\ GoTo("done")
          /\ UNCHANGED <<screen, entered_terminal>>
       \/ /\ ~interrupted
          /\ At("enter")
          /\ screen' = "alternate"
          /\ GoTo("enter_rest")
          /\ UNCHANGED <<given_up, entered_terminal>>
       \/ /\ ~interrupted
          /\ screen' = "alternate"
          /\ entered_terminal' = TRUE
          /\ GoTo("entered")
          /\ UNCHANGED given_up
    /\ UNCHANGED <<raw, size, shown, tty, pressed, signals, modes, layout, keyboard, picked>>

Entered ==
    /\ At("entered")
    /\ GoTo(IF termination_signal # None THEN "done" ELSE "first_seen")
    /\ Quietly
    /\ UNCHANGED <<terminal, modes, layout, keyboard, entered_terminal, picked>>

(* The resizes seen so far are noted before the size is read. *)
FirstSeen ==
    /\ At("first_seen")
    /\ seen_winch' = winch_count
    /\ GoTo("first_size")
    /\ Quietly
    /\ UNCHANGED <<terminal, modes, loop_columns, resize_pending, loop_redraw, keyboard,
                   entered_terminal, picked>>

FirstSize ==
    /\ At("first_size")
    /\ loop_columns' = size
    /\ GoTo("first_view")
    /\ Quietly
    /\ UNCHANGED <<terminal, modes, seen_winch, resize_pending, loop_redraw, keyboard,
                   entered_terminal, picked>>

(* Fault: a resize during the first layout is taken for one it has seen. *)
NeverPending == FALSE

PendingAfterView == winch_count # seen_winch

(* mdf_pager_make_view, and the caller's rerender before it. *)
FirstView ==
    /\ At("first_view")
    /\ \/ /\ resize_pending' = PendingAfterView
          /\ seen_winch' = winch_count
          /\ loop_redraw' = TRUE
          /\ GoTo("loop")
       \/ UNCHANGED <<resize_pending, seen_winch, loop_redraw>> /\ GoTo("done")
    /\ Quietly
    /\ UNCHANGED <<terminal, modes, loop_columns, keyboard, entered_terminal, picked>>

-----------------------------------------------------------------------------
(* The loop *)

Loop ==
    /\ At("loop")
    /\ GoTo(CASE termination_signal # None -> "done"
              [] OTHER -> IF loop_redraw THEN "draw" ELSE "note")
    /\ Quietly
    /\ UNCHANGED <<terminal, modes, layout, keyboard, entered_terminal, picked>>

(* mdf_pager_draw; its writes may also fail for good. *)
DrawView ==
    /\ At("draw")
    /\ ~Retry
    /\ interrupted' = FALSE
    /\ \/ /\ ~interrupted
          /\ shown' = loop_columns
          /\ loop_redraw' = FALSE
          /\ GoTo("note")
       \/ UNCHANGED <<shown, loop_redraw>> /\ GoTo("done")
    /\ UNCHANGED <<raw, screen, given_up, size, tty, pressed, signals, modes, loop_columns,
                   seen_winch, resize_pending, keyboard, entered_terminal, picked>>

Noticed == winch_count # seen_winch

Counted == winch_count

(* mdf_pager_note_resize *)
NoteResize ==
    /\ seen_winch' = Counted
    /\ resize_pending' = TRUE

Note ==
    /\ At("note")
    /\ IF Noticed THEN NoteResize ELSE UNCHANGED <<seen_winch, resize_pending>>
    /\ GoTo("select")
    /\ Quietly
    /\ UNCHANGED <<terminal, modes, loop_columns, loop_redraw, keyboard, entered_terminal, picked>>

(* Fault: it waits for input as long as no resize is pending. *)
WaitsForInput == tty = << >> /\ resize_pending

(* mdf_pager_read_with_timeout: the wait is bounded, with a resize pending   *)
(* or not.                                                                   *)
TimesOut == tty = << >>

ReadReturns(r) ==
    /\ ready' = r
    /\ interrupted' = FALSE
    /\ UNCHANGED <<raw, screen, given_up, size, shown, pressed, signals, modes, layout, search_mode,
                   entered_terminal, picked>>

SelectInput ==
    /\ At("select")
    /\ GoTo("decide")
    /\ \/ interrupted /\ ReadReturns("interrupted") /\ UNCHANGED tty
       \/ ~interrupted /\ TimesOut /\ ReadReturns("none") /\ UNCHANGED tty
       \/ ~interrupted /\ tty # << >> /\ ReadReturns(Head(tty)) /\ tty' = Tail(tty)

(* select or read fails, as on a terminal that is gone. *)
SelectFails ==
    /\ At("select")
    /\ GoTo("done")
    /\ ReadReturns("none")
    /\ UNCHANGED tty

(* A resize that was seen while waiting is noted first, and what was read is *)
(* not looked at.                                                            *)
ResizeFirst == Noticed

Decide ==
    /\ At("decide")
    /\ IF termination_signal = None /\ ResizeFirst
       THEN NoteResize
       ELSE UNCHANGED <<seen_winch, resize_pending>>
    /\ GoTo(CASE termination_signal # None -> "done"
              [] termination_signal = None /\ ResizeFirst -> "loop"
              [] OTHER -> CASE ready \in TerminalBytes            -> "key"
                            [] ready = "none" /\ resize_pending -> "relayout"
                            [] OTHER                            -> "loop")
    /\ Quietly
    /\ UNCHANGED <<terminal, modes, loop_columns, loop_redraw, ready, search_mode,
                   entered_terminal, picked>>

(* The size is read, then the document is laid out for it. *)
RelayoutSize ==
    /\ At("relayout")
    /\ loop_columns' = size
    /\ GoTo("relayout_view")
    /\ Quietly
    /\ UNCHANGED <<terminal, modes, seen_winch, resize_pending, loop_redraw, keyboard,
                   entered_terminal, picked>>

RelayoutView ==
    /\ At("relayout_view")
    /\ \/ resize_pending' = FALSE /\ loop_redraw' = TRUE /\ GoTo("loop")
       \/ UNCHANGED <<resize_pending, loop_redraw>> /\ GoTo("done")
    /\ Quietly
    /\ UNCHANGED <<terminal, modes, loop_columns, seen_winch, keyboard, entered_terminal, picked>>

-----------------------------------------------------------------------------
(* Keys *)

Acted(next, mode) ==
    /\ GoTo(next)
    /\ search_mode' = mode
    /\ loop_redraw' \in IF next = "loop" THEN {loop_redraw, TRUE} ELSE {loop_redraw}

(* Search modes come first; then a byte is / or a key of mdf_pager_read_key. *)
(* A bracket or an A alone is no key.  Looking for matches may run out of    *)
(* memory.                                                                   *)
Key ==
    /\ At("key")
    /\ CASE search_mode = "editing" ->
              (CASE ready \in {"q", "esc"} -> Acted("loop", "none")
                 [] ready = "cr" -> \E next \in {"loop", "done"}, m \in {"active", "none"} :
                                        Acted(next, m)
                 [] OTHER        -> \E next \in {"loop", "done"} : Acted(next, "editing"))
         [] search_mode = "active" /\ ready \in {"q", "esc"}  -> Acted("loop", "none")
         [] search_mode # "editing" /\ ready = "/"            -> Acted("loop", "editing")
         [] search_mode = "none" /\ ready = "q"               -> Acted("done", search_mode)
         [] search_mode = "none" /\ ready = "esc"            -> Acted("after_esc", search_mode)
         [] OTHER                                            -> Acted("loop", search_mode)
    /\ Quietly
    /\ UNCHANGED <<terminal, modes, loop_columns, seen_winch, resize_pending, ready,
                   entered_terminal, picked>>

(* mdf_pager_read_sequence_byte: an interrupted wait for the rest of an      *)
(* escape sequence is resumed.  Escape alone quits.                          *)
SequenceByte(next) ==
    \/ /\ tty # << >>
       /\ tty' = Tail(tty)
       /\ GoTo(next)
    \/ /\ tty = << >>
       /\ GoTo(IF At("after_esc") THEN "done" ELSE "loop")
       /\ UNCHANGED tty

Sequence ==
    /\ \/ At("after_esc") /\ SequenceByte(IF tty # << >> /\ Head(tty) = "["
                                          THEN "after_bracket" ELSE "loop")
       \/ At("after_bracket") /\ SequenceByte("loop")
    /\ loop_redraw' \in {loop_redraw, TRUE}
    /\ Quietly
    /\ UNCHANGED <<raw, screen, given_up, size, shown, pressed, modes, loop_columns, seen_winch,
                   resize_pending, keyboard, entered_terminal, picked>>

-----------------------------------------------------------------------------
(* done: giving the terminal back *)

(* Fault: the handlers are taken down without masking the signals first. *)
LeaveUnmasked == blocked

Masked == TRUE

(* Fault: a signal that ends the pager leaves no time for the screen. *)
BlockSignalsOnly ==
    /\ At("done")
    /\ blocked' = Masked
    /\ GoTo(IF entered_terminal /\ termination_signal = None THEN "restore" ELSE "unwinch")
    /\ Quietly
    /\ UNCHANGED <<terminal, handlers, winch_handler, layout, keyboard, entered_terminal, picked>>

BlockSignals ==
    /\ At("done")
    /\ blocked' = Masked
    /\ GoTo(IF entered_terminal THEN "restore" ELSE "unwinch")
    /\ Quietly
    /\ UNCHANGED <<terminal, handlers, winch_handler, layout, keyboard, entered_terminal, picked>>

(* The same mdf_pager_write as everywhere, its result ignored: EINTR aborts  *)
(* it when a termination signal was recorded, and it may fail for good.      *)
RestoreScreen ==
    /\ At("restore")
    /\ ~Retry
    /\ interrupted' = FALSE
    /\ \/ GivesUp /\ UNCHANGED screen
       \/ ~interrupted /\ screen' = "main" /\ UNCHANGED given_up
    /\ GoTo("unwinch")
    /\ UNCHANGED <<raw, size, shown, tty, pressed, signals, modes, layout, keyboard,
                   entered_terminal, picked>>

RestoreWinch ==
    /\ At("unwinch")
    /\ winch_handler' = FALSE
    /\ GoTo("untty")
    /\ Quietly
    /\ UNCHANGED <<terminal, handlers, blocked, layout, keyboard, entered_terminal, picked>>

RawAfter == FALSE

RestoreMode ==
    /\ At("untty")
    /\ raw' = RawAfter
    /\ tty' = IF raw THEN << >> ELSE tty
    /\ GoTo("pick")
    /\ Quietly
    /\ UNCHANGED <<screen, given_up, size, shown, pressed, modes, layout, keyboard, entered_terminal, picked>>

PickSignal ==
    /\ At("pick")
    /\ picked' = termination_signal
    /\ GoTo("rehandle")
    /\ Quietly
    /\ UNCHANGED <<terminal, modes, layout, keyboard, entered_terminal>>

RestoreHandlers ==
    /\ At("rehandle")
    /\ handlers' = "caller"
    /\ GoTo("unblock")
    /\ Quietly
    /\ UNCHANGED <<terminal, winch_handler, blocked, layout, keyboard, entered_terminal, picked>>

(* Fault: the saved mask is not set again. *)
StaysBlocked == blocked

BlockedAfter == FALSE

(* What is pending reaches the caller's dispositions at once. *)
UnblockSignals ==
    /\ At("unblock")
    /\ blocked' = BlockedAfter
    /\ caller_got' = caller_got \cup pending
    /\ pending' = {}
    /\ GoTo("raise")
    /\ UNCHANGED <<terminal, winch_sent, sent, winch_count, termination_signal,
                   handlers, winch_handler, interrupted, layout, keyboard,
                   entered_terminal, picked>>

(* kill(getpid(), termination_signal), then return. *)
Raise ==
    /\ At("raise")
    /\ caller_got' = caller_got \cup ({picked} \ {None})
    /\ GoTo("returned")
    /\ UNCHANGED <<terminal, winch_sent, sent, pending, winch_count,
                   termination_signal, modes, interrupted, layout, keyboard,
                   entered_terminal, picked>>

-----------------------------------------------------------------------------
PagerStep ==
    \/ InstallHandlers \/ SetRawMode \/ InstallWinch \/ EnterTerminal \/ RetryWrite
    \/ Entered \/ FirstSeen \/ FirstSize \/ FirstView
    \/ Loop \/ DrawView \/ Note \/ SelectInput \/ Decide \/ RelayoutSize \/ RelayoutView
    \/ Key \/ Sequence
    \/ BlockSignals \/ RestoreScreen \/ RestoreWinch \/ RestoreMode \/ PickSignal
    \/ RestoreHandlers \/ UnblockSignals \/ Raise

Environment ==
    \/ \E s \in Signals : SendTermination(s)
    \/ \E k \in Keys : PressKey(k)
    \/ Resize

LoopNext == PagerStep \/ SelectFails \/ DeliverWinch \/ Environment

(* The pager runs, its writes end, if only by failing, and its waits too; a  *)
(* signal that was sent is delivered.  Nobody has to press a key.            *)
Fairness == WF_loop_vars(PagerStep) /\ WF_loop_vars(DeliverWinch)

LoopSpec == LoopInit /\ [][LoopNext]_loop_vars /\ Fairness

-----------------------------------------------------------------------------
(* Properties *)

(* What the pager took over has been given back; the screen too, unless a    *)
(* write that switches it was given up.                                      *)
GivenBack ==
    /\ ~raw /\ ~winch_handler /\ handlers = "caller"
    /\ screen = "main" \/ given_up # {}

(* Every exit, also the early ones and the failing ones, gives back what was *)
(* taken and leaves no signal masked or pending.                             *)
ModesRestored == pc = "returned" => GivenBack /\ ~blocked /\ pending = {}

(* The caller may die of a signal, or stop: each one that reaches it, while  *)
(* it was pending or raised again, finds the terminal given back.            *)
RestoredBeforeSignal == [][caller_got' # caller_got => GivenBack]_loop_vars

(* No signal is lost in the gap between choosing the one to raise again and  *)
(* restoring the caller's handlers: each one sent reached the caller, unless *)
(* it came after another that did.                                           *)
SignalsReachCaller ==
    pc = "returned" =>
        \A s \in sent : s \in caller_got \/ (picked \in caller_got \ {s})

(* A recorded signal ends the pager, although nothing else may happen: the   *)
(* check before select is too early for a signal that comes after it.        *)
TerminationReturns ==
    termination_signal # None /\ handlers = "pager" ~> pc = "returned"

(* The terminal's size is followed, or the pager ends. *)
ResizeFollowed == size # shown ~> (size = shown \/ pc = "returned")
=============================================================================
