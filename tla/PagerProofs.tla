----------------------------- MODULE PagerProofs ----------------------------
(***************************************************************************)
(* The pager: the loop that holds the terminal (Pager) and what it shows   *)
(* (PagerView).  The two share no state; each has its own specification    *)
(* and invariant, LoopSpec and LoopInv, Spec and IInv.                     *)
(***************************************************************************)
EXTENDS Pager, PagerView, SequenceLemmas, FiniteSetTheorems

(***************************************************************************)
(* What the pager took it gives back, and no termination signal is lost,   *)
(* for every set of signals and keys and however many events arrive.       *)
(*                                                                         *)
(* The invariant says, step by step of mdf_pager_run, what the pager holds *)
(* and where a signal that was sent can be: at the caller, among the       *)
(* masked ones, or covered by the record of an earlier one, which the      *)
(* pager will raise again.                                                 *)
(***************************************************************************)

Opening  == {"enter", "enter_rest", "entered", "first_seen", "first_size", "first_view"}
Looping  == {"loop", "draw", "note", "select", "decide", "relayout", "relayout_view",
             "key", "after_esc", "after_bracket"}
Running  == {"raw", "winch", "done"} \cup Opening \cup Looping
Closing  == {"restore", "unwinch", "untty", "pick", "rehandle", "unblock"}
LoopSteps    == {"start", "raise", "returned"} \cup Running \cup Closing

LoopTypeOK ==
    /\ pc \in LoopSteps
    /\ raw \in BOOLEAN /\ winch_handler \in BOOLEAN /\ blocked \in BOOLEAN
    /\ entered_terminal \in BOOLEAN
    /\ screen \in {"main", "alternate"}
    /\ given_up \subseteq {"signal", "error"}
    /\ handlers \in {"caller", "pager"}
    /\ sent \subseteq Signals /\ pending \subseteq Signals /\ caller_got \subseteq Signals
    /\ termination_signal \in Signals \cup {None}
    /\ picked \in Signals \cup {None}

(* What the pager holds of the process and of the terminal at each step. *)
HeldAt ==
    /\ handlers = "pager" <=> pc \in Running \cup (Closing \ {"unblock"})
    /\ blocked <=> pc \in Closing
    /\ raw => pc \in (Running \ {"raw"}) \cup {"restore", "unwinch", "untty"}
    /\ winch_handler => pc \in (Running \ {"raw", "winch"}) \cup {"restore", "unwinch"}

(* The alternate screen is one the end of the run restores, or a write that  *)
(* was given up explains why it is left on.                                  *)
ScreenAt ==
    /\ pc \in {"start", "raw", "winch", "enter"} => screen = "main" /\ ~entered_terminal
    /\ pc \in (Running \ {"enter_rest"}) \cup {"restore"} =>
           screen = "main" \/ entered_terminal \/ given_up # {}
    /\ pc \in (Closing \ {"restore"}) \cup {"raise", "returned"} =>
           screen = "main" \/ given_up # {}

(* Where the signals that were sent are.  The record is only trusted once    *)
(* the pager has cleared it.                                                 *)
SignalsAt ==
    /\ pending # {} => blocked
    /\ sent \subseteq caller_got \cup pending \/ (pc # "start" /\ termination_signal # None)
    /\ picked = IF pc \in {"rehandle", "unblock", "raise", "returned"}
                THEN termination_signal ELSE None
    /\ pc = "returned" /\ picked # None => picked \in caller_got

LoopInv == LoopTypeOK /\ HeldAt /\ ScreenAt /\ SignalsAt

-----------------------------------------------------------------------------
(* What the invariant is about, all of which most of the pager's steps leave *)
(* alone.                                                                    *)
held == <<raw, screen, given_up, handlers, winch_handler, blocked, sent, pending, caller_got,
          termination_signal, entered_terminal, picked>>

(* Drawing, waiting, keys and resizes: as long as a step stays in the loop,  *)
(* or leaves it for `done', nothing is taken or given back.                  *)
Midway == (Opening \ {"enter", "enter_rest"}) \cup Looping

LEMMA Watching ==
    ASSUME LoopInv, UNCHANGED held,
           \/ pc \in Midway /\ pc' \in Midway \cup {"done"}
           \/ pc' = pc
    PROVE  LoopInv'
<1>1. LoopTypeOK'
  BY DEF LoopInv, LoopTypeOK, held, Midway, Opening, Looping, Running, LoopSteps
<1>2. HeldAt'
  BY DEF LoopInv, HeldAt, held, Midway, Opening, Looping, Running, Closing
<1>3. ScreenAt'
  BY DEF LoopInv, ScreenAt, held, Midway, Opening, Looping, Running, Closing
<1>4. SignalsAt'
  BY DEF LoopInv, SignalsAt, held, Midway, Opening, Looping, Running, Closing
<1> QED
  BY <1>1, <1>2, <1>3, <1>4 DEF LoopInv

LEMMA Initially == LoopInit => LoopInv
  BY SignalsAssumption
     DEF LoopInit, LoopInv, LoopTypeOK, HeldAt, ScreenAt, SignalsAt, LoopSteps, Running, Opening,
         Looping, Closing

-----------------------------------------------------------------------------
(* Signals and the terminal *)

(* A signal is masked, recorded unless an earlier one was, or the caller's.  *)
LEMMA SentSignal == ASSUME LoopInv, NEW s \in Signals, SendTermination(s) PROVE LoopInv'
<1> USE SignalsAssumption
<1>1. UNCHANGED <<raw, screen, given_up, handlers, winch_handler, blocked, entered_terminal,
                  picked, pc>>
  BY DEF SendTermination, terminal, modes
<1>2. sent' = sent \cup {s}
  BY DEF SendTermination
<1>3. CASE blocked
  <2>1. /\ pending' = pending \cup {s}
        /\ UNCHANGED <<caller_got, termination_signal>>
    BY <1>3 DEF SendTermination
  <2> QED
    BY <1>1, <1>2, <1>3, <2>1 DEF LoopInv, LoopTypeOK, HeldAt, ScreenAt, SignalsAt
<1>4. CASE ~blocked /\ handlers = "pager"
  <2>1. /\ termination_signal' = IF termination_signal = None THEN s
                                 ELSE termination_signal
        /\ UNCHANGED <<pending, caller_got>>
    BY <1>4 DEF SendTermination, Recorded
  <2>2. pc \in Running
    BY <1>4 DEF LoopInv, HeldAt
  <2> QED
    BY <1>1, <1>2, <1>4, <2>1, <2>2
       DEF LoopInv, LoopTypeOK, HeldAt, ScreenAt, SignalsAt, Running, Opening, Looping, Closing
<1>5. CASE ~blocked /\ handlers # "pager"
  <2>1. /\ caller_got' = caller_got \cup {s}
        /\ UNCHANGED <<pending, termination_signal>>
    BY <1>5 DEF SendTermination
  <2> QED
    BY <1>1, <1>2, <1>5, <2>1 DEF LoopInv, LoopTypeOK, HeldAt, ScreenAt, SignalsAt
<1> QED
  BY <1>3, <1>4, <1>5

(* Resizes and keys are the terminal's. *)
LEMMA TerminalEvents ==
    ASSUME LoopInv, Resize \/ DeliverWinch \/ \E k \in Keys : PressKey(k)
    PROVE  LoopInv'
<1>1. UNCHANGED held /\ pc' = pc
  BY DEF Resize, DeliverWinch, PressKey, held, terminal, signals, modes
<1> QED
  BY <1>1, Watching

-----------------------------------------------------------------------------
(* Taking over the terminal *)

LEMMA Installed == LoopInv /\ InstallHandlers => LoopInv'
<1> SUFFICES ASSUME LoopInv, InstallHandlers PROVE LoopInv'
  OBVIOUS
<1>1. /\ pc = "start" /\ termination_signal' = None
      /\ \/ handlers' = "pager" /\ pc' = "raw"
         \/ handlers' = handlers /\ pc' = "returned"
      /\ UNCHANGED <<raw, screen, given_up, winch_handler, blocked, sent, pending, caller_got,
                     entered_terminal, picked>>
  BY DEF InstallHandlers, At, GoTo, Quietly, terminal, signals, modes
<1>2. LoopTypeOK' /\ HeldAt'
  BY <1>1 DEF LoopInv, LoopTypeOK, HeldAt, LoopSteps, Running, Opening, Looping, Closing
<1>3. ScreenAt' /\ SignalsAt'
  BY <1>1, SignalsAssumption
     DEF LoopInv, LoopTypeOK, ScreenAt, SignalsAt, HeldAt, Running, Opening, Looping, Closing
<1> QED
  BY <1>2, <1>3 DEF LoopInv

LEMMA RawModeSet == LoopInv /\ SetRawMode => LoopInv'
<1> SUFFICES ASSUME LoopInv, SetRawMode PROVE LoopInv'
  OBVIOUS
<1>1. /\ pc = "raw"
      /\ \/ raw' = TRUE /\ pc' = "winch"
         \/ raw' = raw /\ pc' = "done"
      /\ UNCHANGED <<screen, given_up, handlers, winch_handler, blocked, sent, pending, caller_got,
                     termination_signal, entered_terminal, picked>>
  BY DEF SetRawMode, At, GoTo, Quietly, terminal, signals, modes
<1>2. LoopTypeOK' /\ HeldAt'
  BY <1>1 DEF LoopInv, LoopTypeOK, HeldAt, LoopSteps, Running, Opening, Looping, Closing
<1>3. ScreenAt' /\ SignalsAt'
  BY <1>1, SignalsAssumption
     DEF LoopInv, LoopTypeOK, ScreenAt, SignalsAt, HeldAt, Running, Opening, Looping, Closing
<1> QED
  BY <1>2, <1>3 DEF LoopInv

LEMMA WinchInstalled == LoopInv /\ InstallWinch => LoopInv'
<1> SUFFICES ASSUME LoopInv, InstallWinch PROVE LoopInv'
  OBVIOUS
<1>1. /\ pc = "winch"
      /\ \/ winch_handler' = TRUE /\ pc' = "enter"
         \/ winch_handler' = winch_handler /\ pc' = "done"
      /\ UNCHANGED <<raw, screen, given_up, handlers, blocked, sent, pending, caller_got,
                     termination_signal, entered_terminal, picked>>
  BY DEF InstallWinch, At, GoTo, Quietly, terminal, signals, modes
<1>2. LoopTypeOK' /\ HeldAt'
  BY <1>1 DEF LoopInv, LoopTypeOK, HeldAt, LoopSteps, Running, Opening, Looping, Closing
<1>3. ScreenAt' /\ SignalsAt'
  BY <1>1, SignalsAssumption
     DEF LoopInv, LoopTypeOK, ScreenAt, SignalsAt, HeldAt, Running, Opening, Looping, Closing
<1> QED
  BY <1>2, <1>3 DEF LoopInv

LEMMA ScreenEntered == LoopInv /\ EnterTerminal => LoopInv'
<1> SUFFICES ASSUME LoopInv, EnterTerminal PROVE LoopInv'
  OBVIOUS
<1>1. /\ pc \in {"enter", "enter_rest"}
      /\ \/ /\ GivesUp /\ pc' = "done"
            /\ UNCHANGED <<screen, entered_terminal>>
         \/ /\ pc = "enter" /\ screen' = "alternate" /\ pc' = "enter_rest"
            /\ UNCHANGED <<given_up, entered_terminal>>
         \/ /\ screen' = "alternate" /\ entered_terminal' = TRUE /\ pc' = "entered"
            /\ UNCHANGED given_up
      /\ UNCHANGED <<raw, handlers, winch_handler, blocked, sent, pending, caller_got,
                     termination_signal, picked>>
  BY DEF EnterTerminal, At, GoTo, Quietly, terminal, signals, modes
<1>2. LoopTypeOK' /\ HeldAt'
  BY <1>1 DEF LoopInv, LoopTypeOK, HeldAt, LoopSteps, Running, Opening, Looping, Closing,
              GivesUp
<1>3. ScreenAt' /\ SignalsAt'
  BY <1>1, SignalsAssumption
     DEF LoopInv, LoopTypeOK, ScreenAt, SignalsAt, HeldAt, Running, Opening, Looping, Closing,
         GivesUp
<1> QED
  BY <1>2, <1>3 DEF LoopInv

-----------------------------------------------------------------------------
(* The loop *)

LEMMA Retried == LoopInv /\ RetryWrite => LoopInv'
  BY Watching DEF RetryWrite, held, terminal, signals, modes

LEMMA Opened == LoopInv /\ (Entered \/ FirstSeen \/ FirstSize \/ FirstView) => LoopInv'
<1>1. ASSUME Entered \/ FirstSeen \/ FirstSize \/ FirstView
      PROVE  UNCHANGED held /\ pc \in Midway /\ pc' \in Midway \cup {"done"}
  BY <1>1 DEF Entered, FirstSeen, FirstSize, FirstView, At, GoTo, Quietly, terminal, signals,
              modes, held, Midway, Opening, Looping
<1> QED
  BY <1>1, Watching

LEMMA Looped ==
    LoopInv /\ (Loop \/ DrawView \/ Note \/ RelayoutSize \/ RelayoutView) => LoopInv'
<1>1. ASSUME Loop \/ DrawView \/ Note \/ RelayoutSize \/ RelayoutView
      PROVE  UNCHANGED held /\ pc \in Midway /\ pc' \in Midway \cup {"done"}
  BY <1>1 DEF Loop, DrawView, Note, RelayoutSize, RelayoutView, At, GoTo, Quietly, terminal,
              signals, modes, held, Midway, Opening, Looping
<1> QED
  BY <1>1, Watching

LEMMA Waited == LoopInv /\ (SelectInput \/ SelectFails \/ Decide) => LoopInv'
<1>1. ASSUME SelectInput \/ SelectFails \/ Decide
      PROVE  UNCHANGED held /\ pc \in Midway /\ pc' \in Midway \cup {"done"}
  <2>1. CASE SelectInput \/ SelectFails
    BY <2>1 DEF SelectInput, SelectFails, ReadReturns, At, GoTo, signals, modes, held, Midway,
                Opening, Looping
  <2>2. CASE Decide
    BY <2>2 DEF Decide, At, GoTo, Quietly, terminal, signals, modes, held, Midway, Opening,
                Looping
  <2> QED
    BY <1>1, <2>1, <2>2
<1> QED
  BY <1>1, Watching

LEMMA KeyHandled == LoopInv /\ (Key \/ Sequence) => LoopInv'
<1>1. ASSUME Key \/ Sequence
      PROVE  UNCHANGED held /\ pc \in Midway /\ pc' \in Midway \cup {"done"}
  <2>1. CASE Key
    BY <2>1 DEF Key, Acted, At, GoTo, Quietly, terminal, signals, modes, held, Midway,
                Opening, Looping
  <2>2. CASE Sequence
    BY <2>2 DEF Sequence, SequenceByte, At, GoTo, Quietly, signals, modes, held, Midway,
                Opening, Looping
  <2> QED
    BY <1>1, <2>1, <2>2
<1> QED
  BY <1>1, Watching

-----------------------------------------------------------------------------
(* done: giving the terminal back *)

LEMMA Blocked == LoopInv /\ BlockSignals => LoopInv'
<1> SUFFICES ASSUME LoopInv, BlockSignals PROVE LoopInv'
  OBVIOUS
<1>1. /\ pc = "done" /\ blocked' = TRUE
      /\ pc' = IF entered_terminal THEN "restore" ELSE "unwinch"
      /\ UNCHANGED <<raw, screen, given_up, handlers, winch_handler, sent, pending, caller_got,
                     termination_signal, entered_terminal, picked>>
  BY DEF BlockSignals, At, GoTo, Quietly, terminal, signals, modes, Masked
<1>2. LoopTypeOK' /\ HeldAt'
  BY <1>1 DEF LoopInv, LoopTypeOK, HeldAt, LoopSteps, Running, Opening, Looping, Closing
<1>3. ScreenAt' /\ SignalsAt'
  BY <1>1, SignalsAssumption
     DEF LoopInv, LoopTypeOK, ScreenAt, SignalsAt, HeldAt, Running, Opening, Looping, Closing
<1> QED
  BY <1>2, <1>3 DEF LoopInv

LEMMA ScreenRestored == LoopInv /\ RestoreScreen => LoopInv'
<1> SUFFICES ASSUME LoopInv, RestoreScreen PROVE LoopInv'
  OBVIOUS
<1>1. /\ pc = "restore" /\ pc' = "unwinch"
      /\ \/ screen' = "main" /\ given_up' = given_up
         \/ screen' = screen /\ GivesUp
      /\ UNCHANGED <<raw, handlers, winch_handler, blocked, sent, pending, caller_got,
                     termination_signal, entered_terminal, picked>>
  BY DEF RestoreScreen, At, GoTo, Quietly, terminal, signals, modes
<1>2. LoopTypeOK' /\ HeldAt'
  BY <1>1 DEF LoopInv, LoopTypeOK, HeldAt, LoopSteps, Running, Opening, Looping, Closing,
              GivesUp
<1>3. ScreenAt' /\ SignalsAt'
  BY <1>1, SignalsAssumption
     DEF LoopInv, LoopTypeOK, ScreenAt, SignalsAt, HeldAt, Running, Opening, Looping, Closing,
         GivesUp
<1> QED
  BY <1>2, <1>3 DEF LoopInv

LEMMA WinchRestored == LoopInv /\ RestoreWinch => LoopInv'
<1> SUFFICES ASSUME LoopInv, RestoreWinch PROVE LoopInv'
  OBVIOUS
<1>1. /\ pc = "unwinch" /\ pc' = "untty" /\ winch_handler' = FALSE
      /\ UNCHANGED <<raw, screen, given_up, handlers, blocked, sent, pending, caller_got,
                     termination_signal, entered_terminal, picked>>
  BY DEF RestoreWinch, At, GoTo, Quietly, terminal, signals, modes
<1>2. LoopTypeOK' /\ HeldAt'
  BY <1>1 DEF LoopInv, LoopTypeOK, HeldAt, LoopSteps, Running, Opening, Looping, Closing
<1>3. ScreenAt' /\ SignalsAt'
  BY <1>1, SignalsAssumption
     DEF LoopInv, LoopTypeOK, ScreenAt, SignalsAt, HeldAt, Running, Opening, Looping, Closing
<1> QED
  BY <1>2, <1>3 DEF LoopInv

LEMMA ModeRestored == LoopInv /\ RestoreMode => LoopInv'
<1> SUFFICES ASSUME LoopInv, RestoreMode PROVE LoopInv'
  OBVIOUS
<1>1. /\ pc = "untty" /\ pc' = "pick" /\ raw' = FALSE
      /\ UNCHANGED <<screen, given_up, handlers, winch_handler, blocked, sent, pending, caller_got,
                     termination_signal, entered_terminal, picked>>
  BY DEF RestoreMode, At, GoTo, Quietly, terminal, signals, modes, RawAfter
<1>2. LoopTypeOK' /\ HeldAt'
  BY <1>1 DEF LoopInv, LoopTypeOK, HeldAt, LoopSteps, Running, Opening, Looping, Closing
<1>3. ScreenAt' /\ SignalsAt'
  BY <1>1, SignalsAssumption
     DEF LoopInv, LoopTypeOK, ScreenAt, SignalsAt, HeldAt, Running, Opening, Looping, Closing
<1> QED
  BY <1>2, <1>3 DEF LoopInv

LEMMA Picked == LoopInv /\ PickSignal => LoopInv'
<1> SUFFICES ASSUME LoopInv, PickSignal PROVE LoopInv'
  OBVIOUS
<1>1. /\ pc = "pick" /\ pc' = "rehandle" /\ picked' = termination_signal
      /\ UNCHANGED <<raw, screen, given_up, handlers, winch_handler, blocked, sent, pending,
                     caller_got, termination_signal, entered_terminal>>
  BY DEF PickSignal, At, GoTo, Quietly, terminal, signals, modes
<1>2. LoopTypeOK' /\ HeldAt'
  BY <1>1 DEF LoopInv, LoopTypeOK, HeldAt, LoopSteps, Running, Opening, Looping, Closing
<1>3. ScreenAt' /\ SignalsAt'
  BY <1>1, SignalsAssumption
     DEF LoopInv, LoopTypeOK, ScreenAt, SignalsAt, HeldAt, Running, Opening, Looping, Closing
<1> QED
  BY <1>2, <1>3 DEF LoopInv

LEMMA HandlersRestored == LoopInv /\ RestoreHandlers => LoopInv'
<1> SUFFICES ASSUME LoopInv, RestoreHandlers PROVE LoopInv'
  OBVIOUS
<1>1. /\ pc = "rehandle" /\ pc' = "unblock" /\ handlers' = "caller"
      /\ UNCHANGED <<raw, screen, given_up, winch_handler, blocked, sent, pending, caller_got,
                     termination_signal, entered_terminal, picked>>
  BY DEF RestoreHandlers, At, GoTo, Quietly, terminal, signals, modes
<1>2. LoopTypeOK' /\ HeldAt'
  BY <1>1 DEF LoopInv, LoopTypeOK, HeldAt, LoopSteps, Running, Opening, Looping, Closing
<1>3. ScreenAt' /\ SignalsAt'
  BY <1>1, SignalsAssumption
     DEF LoopInv, LoopTypeOK, ScreenAt, SignalsAt, HeldAt, Running, Opening, Looping, Closing
<1> QED
  BY <1>2, <1>3 DEF LoopInv

LEMMA Unblocked == LoopInv /\ UnblockSignals => LoopInv'
<1> SUFFICES ASSUME LoopInv, UnblockSignals PROVE LoopInv'
  OBVIOUS
<1>1. /\ pc = "unblock" /\ pc' = "raise" /\ blocked' = FALSE
      /\ caller_got' = caller_got \cup pending /\ pending' = {}
      /\ UNCHANGED <<raw, screen, given_up, handlers, winch_handler, sent, termination_signal,
                     entered_terminal, picked>>
  BY DEF UnblockSignals, At, GoTo, Quietly, terminal, signals, modes, BlockedAfter
<1>2. LoopTypeOK' /\ HeldAt'
  BY <1>1 DEF LoopInv, LoopTypeOK, HeldAt, LoopSteps, Running, Opening, Looping, Closing
<1>3. ScreenAt' /\ SignalsAt'
  BY <1>1, SignalsAssumption
     DEF LoopInv, LoopTypeOK, ScreenAt, SignalsAt, HeldAt, Running, Opening, Looping, Closing
<1> QED
  BY <1>2, <1>3 DEF LoopInv

LEMMA Raised == LoopInv /\ Raise => LoopInv'
<1> SUFFICES ASSUME LoopInv, Raise PROVE LoopInv'
  OBVIOUS
<1>1. /\ pc = "raise" /\ pc' = "returned"
      /\ caller_got' = caller_got \cup ({picked} \ {None})
      /\ UNCHANGED <<raw, screen, given_up, handlers, winch_handler, blocked, sent, pending,
                     termination_signal, entered_terminal, picked>>
  BY DEF Raise, At, GoTo, Quietly, terminal, signals, modes
<1>2. LoopTypeOK' /\ HeldAt'
  BY <1>1 DEF LoopInv, LoopTypeOK, HeldAt, LoopSteps, Running, Opening, Looping, Closing
<1>3. ScreenAt' /\ SignalsAt'
  BY <1>1, SignalsAssumption
     DEF LoopInv, LoopTypeOK, ScreenAt, SignalsAt, HeldAt, Running, Opening, Looping, Closing
<1> QED
  BY <1>2, <1>3 DEF LoopInv

-----------------------------------------------------------------------------
(* Every step of the pager, of the kernel and of the terminal keeps what is  *)
(* held in step with mdf_pager_run.                                          *)
THEOREM LoopInvariance == LoopSpec => []LoopInv
<1>1. LoopInv /\ [LoopNext]_loop_vars => LoopInv'
  <2> SUFFICES ASSUME LoopInv, [LoopNext]_loop_vars PROVE LoopInv'
    OBVIOUS
  <2>1. CASE PagerStep
    BY <2>1, Installed, RawModeSet, WinchInstalled, ScreenEntered, Retried, Opened, Looped,
       Waited, KeyHandled, Blocked, ScreenRestored, WinchRestored, ModeRestored, Picked,
       HandlersRestored, Unblocked, Raised DEF PagerStep
  <2>2. CASE SelectFails
    BY <2>2, Waited
  <2>3. CASE DeliverWinch
    BY <2>3, TerminalEvents
  <2>4. CASE Environment
    BY <2>4, SentSignal, TerminalEvents DEF Environment
  <2>5. CASE UNCHANGED loop_vars
    BY <2>5, Watching DEF loop_vars, held, terminal, signals, modes
  <2> QED
    BY <2>1, <2>2, <2>3, <2>4, <2>5 DEF LoopNext
<1> QED
  BY <1>1, Initially, PTL DEF LoopSpec

(* The pager's state keeps its type for any signals, keys and events. *)
THEOREM LoopTypeCorrect == LoopSpec => []LoopTypeOK
  BY LoopInvariance, PTL DEF LoopInv

(* On every way out of mdf_pager_run, the early and the failing ones         *)
(* included, raw mode, the SIGWINCH handler, the caller's handlers and the   *)
(* signal mask are back, and the alternate screen is left unless a write     *)
(* that switches it was given up.                                            *)
THEOREM ModesRestoredHolds == LoopSpec => []ModesRestored
<1>1. LoopInv => ModesRestored
  BY DEF LoopInv, LoopTypeOK, HeldAt, ScreenAt, SignalsAt, ModesRestored, GivenBack, Running,
         Opening, Looping, Closing
<1> QED
  BY <1>1, LoopInvariance, PTL

(* Only three steps let a signal through to the caller, and the terminal is  *)
(* given back when they are taken.                                           *)
LEMMA ReachingCaller ==
    ASSUME LoopInv, [LoopNext]_loop_vars, caller_got' # caller_got
    PROVE  GivenBack
<1>1. ASSUME NEW s \in Signals, SendTermination(s) PROVE GivenBack
  <2>1. ~blocked /\ handlers # "pager"
    BY <1>1 DEF SendTermination
  <2> QED
    BY <2>1 DEF LoopInv, LoopTypeOK, HeldAt, ScreenAt, GivenBack, LoopSteps, Running, Opening,
                Looping, Closing
<1>2. CASE UnblockSignals \/ Raise
  BY <1>2 DEF UnblockSignals, Raise, At, LoopInv, LoopTypeOK, HeldAt, ScreenAt, GivenBack,
              Running, Opening, Looping, Closing
<1>3. CASE \/ InstallHandlers \/ SetRawMode \/ InstallWinch \/ EnterTerminal \/ RetryWrite
           \/ Entered \/ FirstSeen \/ FirstSize \/ FirstView \/ Loop \/ DrawView \/ Note
  BY <1>3 DEF InstallHandlers, SetRawMode, InstallWinch, EnterTerminal, RetryWrite, Entered,
              FirstSeen, FirstSize, FirstView, Loop, DrawView, Note, Quietly, signals
<1>4. CASE \/ SelectInput \/ SelectFails \/ Decide \/ RelayoutSize \/ RelayoutView \/ Key
           \/ Sequence \/ BlockSignals \/ RestoreScreen \/ RestoreWinch \/ RestoreMode
           \/ PickSignal \/ RestoreHandlers
  BY <1>4 DEF SelectInput, SelectFails, ReadReturns, Decide, RelayoutSize, RelayoutView, Key,
              Sequence, BlockSignals, RestoreScreen, RestoreWinch, RestoreMode, PickSignal,
              RestoreHandlers, Quietly, signals
<1>5. CASE DeliverWinch \/ Resize \/ (\E k \in Keys : PressKey(k)) \/ UNCHANGED loop_vars
  BY <1>5 DEF DeliverWinch, Resize, PressKey, loop_vars, signals
<1> QED
  BY <1>1, <1>2, <1>3, <1>4, <1>5 DEF LoopNext, PagerStep, Environment

(* A signal that reaches the caller finds the terminal given back: no signal *)
(* gets through between two steps of the way out.                            *)
THEOREM RestoredBeforeSignalHolds == LoopSpec => RestoredBeforeSignal
<1>1. LoopInv /\ [LoopNext]_loop_vars => [caller_got' # caller_got => GivenBack]_loop_vars
  BY ReachingCaller
<1> QED
  BY <1>1, LoopInvariance, PTL DEF LoopSpec, RestoredBeforeSignal

(* Whenever a termination signal arrives, it reaches the caller, or another  *)
(* one that arrived before it does.                                          *)
THEOREM SignalsReachCallerHolds == LoopSpec => []SignalsReachCaller
<1>1. LoopInv => SignalsReachCaller
  BY DEF LoopInv, LoopTypeOK, HeldAt, SignalsAt, SignalsReachCaller, Closing
<1> QED
  BY <1>1, LoopInvariance, PTL

-----------------------------------------------------------------------------
(***************************************************************************)
(* Proofs about PagerView, for any documents, renderer, sizes of the       *)
(* terminal and bytes typed: what is found is always found in the rows     *)
(* that are shown, and whatever changes the screen has it drawn again.     *)
(***************************************************************************)

(* The units of a document and of a view. *)
Chars ==
    Units \cup Typed \cup {"\n", " ", "W1", "W2", "^", "G", "M", "-", "D", "s", "a", NoLink}

(* What mdf_pager_reflow keeps while it cuts a document into rows. *)
Cutting == [bytes : Seq(Chars), col : Nat, link : Chars, sgr : Seq(Chars)]

Marks == [start : Nat, end : Nat]

Searches == [query : Seq(Chars), matches : Seq(Marks), selected : Nat,
             editing : BOOLEAN, active : BOOLEAN]

TypeOK ==
    /\ input \in Inputs
    /\ <<columns, rows>> \in Sizes
    /\ view = MakeView(input, columns)
    /\ top \in 0 .. Len(view.lines) - 1
    /\ search \in Searches
    /\ redraw \in BOOLEAN
    /\ running \in BOOLEAN

IInv == TypeOK /\ MatchesFresh

-----------------------------------------------------------------------------
(* Functions defined by recursion *)

(* What holds of the first value and is handed on from each to the next      *)
(* holds of all.                                                             *)
LEMMA HandedOn ==
    ASSUME NEW S, NEW N \in Nat, NEW f, f[0] \in S,
           \A n \in 1 .. N : f[n - 1] \in S => f[n] \in S
    PROVE  \A n \in 0 .. N : f[n] \in S
<1>. DEFINE D == {n \in 0 .. N : f[n] \notin S}
<1>1. SUFFICES ASSUME D # {}
               PROVE  FALSE
  OBVIOUS
<1>2. D \in SUBSET Nat
  OBVIOUS
<1>3. PICK n \in D : \A m \in D : n <= m
  <2>. HIDE DEF D
  <2>. QED
    BY <1>1, <1>2, LeastOf
<1>4. n \in 1 .. N
  BY <1>3
<1>5. n - 1 \in 0 .. N /\ ~(n <= n - 1)
  BY <1>4
<1>6. f[n - 1] \in S
  BY <1>3, <1>5
<1>. QED
  BY <1>3, <1>4, <1>6

(* A function's first value and its steps; the function they make. *)
Stepping(S, N, base, step) == N \in Nat /\ base \in S /\ step \in [S \X (1 .. N) -> S]
Follows(S, N, base, step, f) ==
    /\ f \in [0 .. N -> S]
    /\ f[0] = base
    /\ \A n \in 1 .. N : f[n] = step[<<f[n - 1], n>>]
(* There is one. *)
LEMMA StepsDefine ==
    \A S, N, base, step : Stepping(S, N, base, step) => \E f : Follows(S, N, base, step, f)
<1>. SUFFICES ASSUME NEW S, NEW N, NEW base, NEW step, Stepping(S, N, base, step)
              PROVE  \E f : Follows(S, N, base, step, f)
  OBVIOUS
<1>. N \in Nat /\ base \in S /\ step \in [S \X (1 .. N) -> S]
  BY DEF Stepping
<1>. DEFINE Upto(m, f) == f[0] = base /\ \A n \in 1 .. m : f[n] = step[<<f[n - 1], n>>]
            D == {m \in 0 .. N : ~ \E f \in [0 .. m -> S] : Upto(m, f)}
<1>1. D = {}
  <2>1. SUFFICES ASSUME D # {}
                 PROVE  FALSE
    OBVIOUS
  <2>2. D \in SUBSET Nat
    OBVIOUS
  <2>3. PICK m \in D : \A k \in D : m <= k
    <3>. HIDE DEF D
    <3>. QED
      BY <2>1, <2>2, LeastOf
  <2>4. m # 0
    <3>1. [i \in 0 .. 0 |-> base] \in [0 .. 0 -> S] /\ Upto(0, [i \in 0 .. 0 |-> base])
      OBVIOUS
    <3>. QED
      BY <2>3, <3>1
  <2>5. m - 1 \in 0 .. N /\ ~(m <= m - 1) /\ m \in 1 .. N
    BY <2>3, <2>4
  <2>6. PICK g \in [0 .. m - 1 -> S] : Upto(m - 1, g)
    BY <2>3, <2>5
  <2>. DEFINE f == [i \in 0 .. m |-> IF i = m THEN step[<<g[m - 1], m>>] ELSE g[i]]
  <2>7. f \in [0 .. m -> S]
    BY <2>5, <2>6
  <2>8. Upto(m, f)
    <3>1. f[0] = base
      BY <2>5, <2>6
    <3>2. ASSUME NEW n \in 1 .. m
          PROVE  f[n] = step[<<f[n - 1], n>>]
      <4>1. n - 1 \in 0 .. m - 1 /\ n - 1 # m /\ n \in 0 .. m /\ n - 1 \in 0 .. m
        BY <2>5
      <4>2. f[n - 1] = g[n - 1]
        BY <4>1
      <4>3. CASE n = m
        BY <4>1, <4>2, <4>3
      <4>4. CASE n # m
        <5>1. n \in 1 .. m - 1
          BY <2>5, <4>4
        <5>2. f[n] = g[n]
          BY <4>1, <4>4
        <5>. QED
          BY <2>6, <4>2, <5>1, <5>2
      <4>. QED
        BY <4>3, <4>4
    <3>. QED
      BY <3>1, <3>2
  <2>. QED
    BY <2>3, <2>7, <2>8
<1>2. N \in 0 .. N
  OBVIOUS
<1>3. PICK f \in [0 .. N -> S] : Upto(N, f)
  BY <1>1, <1>2
<1>4. Follows(S, N, base, step, f)
  BY <1>3 DEF Follows
<1>. QED
  BY <1>4, Zenon

-----------------------------------------------------------------------------
(* The types of what a view is made of *)

(* Those that the pager writes of its own. *)
LEMMA CharsAre ==
    /\ "\n" \in Chars /\ " " \in Chars /\ "W1" \in Chars /\ "W2" \in Chars
    /\ "^" \in Chars /\ "G" \in Chars /\ "M" \in Chars /\ "-" \in Chars /\ "D" \in Chars
    /\ "s" \in Chars /\ "a" \in Chars
    /\ NoLink \in Chars
  BY DEF Chars

(* Short sequences. *)
LEMMA ShortSeqs ==
    \A S : /\ << >> \in Seq(S)
           /\ \A a \in S : <<a>> \in Seq(S)
           /\ \A a, b \in S : <<a, b>> \in Seq(S)
           /\ \A a, b, c, d \in S : <<a, b, c, d>> \in Seq(S)
           /\ \A s \in Seq(S) : \A a \in S : Append(s, a) \in Seq(S)
  OBVIOUS

(* What is changed of the state of the cutting. *)
LEMMA CuttingUpdate ==
    \A s \in Cutting : \A bytes, sgr \in Seq(Chars) : \A col \in Nat : \A link \in Chars :
        /\ [s EXCEPT !.bytes = bytes, !.col = col] \in Cutting
        /\ [s EXCEPT !.bytes = bytes, !.link = link, !.sgr = sgr] \in Cutting
  BY DEF Cutting

(* A character's bytes. *)
LEMMA BytesType ==
    \A unit \in Chars : Bytes(unit) \in Seq(Chars) /\ GlyphWidth(unit) \in Nat
<1>. SUFFICES ASSUME NEW unit \in Chars
              PROVE  Bytes(unit) \in Seq(Chars) /\ GlyphWidth(unit) \in Nat
  OBVIOUS
<1>1. Bytes(unit) \in {<<"W1", "W2">>, <<"^", "G">>, <<"^", "M">>, <<"M", "-", "^", "D">>, <<unit>>}
  BY DEF Bytes
<1>2. {<<"W1", "W2">>, <<"^", "G">>, <<"^", "M">>, <<"M", "-", "^", "D">>, <<unit>>}
        \subseteq Seq(Chars)
  <2>1. /\ <<"W1", "W2">> \in Seq(Chars) /\ <<"^", "G">> \in Seq(Chars)
        /\ <<"^", "M">> \in Seq(Chars) /\ <<"M", "-", "^", "D">> \in Seq(Chars)
        /\ <<unit>> \in Seq(Chars)
    BY CharsAre, ShortSeqs, Zenon
  <2>. QED
    BY <2>1
<1>3. Bytes(unit) \in Seq(Chars)
  BY <1>1, <1>2
<1>4. Len(Bytes(unit)) \in Nat
  BY <1>3
<1>. QED
  BY <1>3, <1>4 DEF GlyphWidth

(* What each turn of mdf_pager_reflow_chunk leaves. *)
LEMMA WrapType ==
    \A s \in Cutting : Wrap(s) \in Cutting
<1>. SUFFICES ASSUME NEW s \in Cutting
              PROVE  Wrap(s) \in Cutting
  OBVIOUS
<1>. DEFINE link  == IF s.link = NoLink THEN << >> ELSE <<s.link>>
            close == IF link = << >> THEN << >> ELSE <<NoLink>>
            out   == s.bytes \o close \o <<"\n">> \o link \o s.sgr
<1>1. s.link \in Chars /\ s.bytes \in Seq(Chars) /\ s.sgr \in Seq(Chars)
  BY DEF Cutting
<1>2. link \in Seq(Chars) /\ close \in Seq(Chars) /\ <<"\n">> \in Seq(Chars)
  BY <1>1, CharsAre, ShortSeqs, Zenon
<1>3. out \in Seq(Chars)
  <2>. HIDE DEF link, close
  <2>. QED
    BY <1>1, <1>2
<1>4. Wrap(s) = [s EXCEPT !.bytes = out, !.col = 0]
  BY Zenon DEF Wrap
<1>. HIDE DEF out
<1>. QED
  <2>1. 0 \in Nat
    OBVIOUS
  <2>2. [s EXCEPT !.bytes = out, !.col = 0] \in Cutting
    BY <1>1, <1>3, <2>1, CuttingUpdate, Zenon
  <2>. QED
    BY <1>4, <2>2, Zenon

(* An escape sequence goes out and is tracked. *)
LEMMA EscapeType ==
    \A s \in Cutting : \A unit \in Chars : Escape(s, unit) \in Cutting
<1>. SUFFICES ASSUME NEW s \in Cutting, NEW unit \in Chars
              PROVE  Escape(s, unit) \in Cutting
  OBVIOUS
<1>. DEFINE link == IF unit \in Styles THEN s.link ELSE unit
            sgr  == CASE unit = "reset" -> << >>
                      [] unit = "bold"  -> Append(s.sgr, unit)
                      [] OTHER          -> s.sgr
<1>1. s.link \in Chars /\ s.bytes \in Seq(Chars) /\ s.sgr \in Seq(Chars)
  BY DEF Cutting
<1>2. Append(s.bytes, unit) \in Seq(Chars) /\ Append(s.sgr, unit) \in Seq(Chars)
  BY <1>1
<1>3. link \in Chars /\ sgr \in Seq(Chars)
  BY <1>1, <1>2
<1>4. Escape(s, unit) = [s EXCEPT !.bytes = Append(s.bytes, unit), !.link = link, !.sgr = sgr]
  BY DEF Escape
<1>. HIDE DEF link, sgr
<1>5. 0 \in Nat
  OBVIOUS
<1>6. [s EXCEPT !.bytes = Append(s.bytes, unit), !.link = link, !.sgr = sgr] \in Cutting
  BY <1>2, <1>3, <1>5, CuttingUpdate, Zenon
<1>. QED
  BY <1>4, <1>6, Zenon

(* A space of a tab may start a row. *)
LEMMA TabSpaceType ==
    \A s \in Cutting : \A width : TabSpace(s, width) \in Cutting
<1>. SUFFICES ASSUME NEW s \in Cutting, NEW width
              PROVE  TabSpace(s, width) \in Cutting
  OBVIOUS
<1>. DEFINE t == IF s.col >= width THEN Wrap(s) ELSE s
<1>1. t \in Cutting
  BY WrapType, Zenon
<1>2. TabSpace(s, width) = [t EXCEPT !.bytes = Append(t.bytes, " "), !.col = t.col + 1]
  BY Zenon DEF TabSpace
<1>. HIDE DEF t
<1>3. Append(t.bytes, " ") \in Seq(Chars) /\ t.col + 1 \in Nat
  <2>1. t.bytes \in Seq(Chars) /\ t.col \in Nat
    BY <1>1 DEF Cutting
  <2>2. Append(t.bytes, " ") \in Seq(Chars)
    BY <2>1, CharsAre, ShortSeqs, Zenon
  <2>3. t.col + 1 \in Nat
    BY <2>1
  <2>. QED
    BY <2>2, <2>3
<1>4. t.sgr \in Seq(Chars) /\ t.link \in Chars
  BY <1>1 DEF Cutting
<1>5. [t EXCEPT !.bytes = Append(t.bytes, " "), !.col = t.col + 1] \in Cutting
  BY <1>1, <1>3, <1>4, CuttingUpdate, Zenon
<1>. QED
  BY <1>2, <1>5, Zenon

(* All spaces of a tab. *)
LEMMA TabType ==
    \A s \in Cutting : \A width : Tab(s, width) \in Cutting
<1>. SUFFICES ASSUME NEW s \in Cutting, NEW width
              PROVE  Tab(s, width) \in Cutting
  OBVIOUS
<1>. DEFINE Is(f)  == f = [n \in 0 .. 8 |-> IF n = 0 THEN s ELSE TabSpace(f[n - 1], width)]
            Spaces == CHOOSE f : Is(f)
            step   == [x \in Cutting \X (1 .. 8) |-> TabSpace(x[1], width)]
<1>1. Tab(s, width) = Spaces[8 - (s.col % 8)]
  BY Zenon DEF Tab
<1>2. step \in [Cutting \X (1 .. 8) -> Cutting]
  BY TabSpaceType
<1>3. \E f : Is(f)
  <2>1. PICK f : Follows(Cutting, 8, s, step, f)
    <3>. HIDE DEF step
    <3>1. Stepping(Cutting, 8, s, step)
      BY <1>2 DEF Stepping
    <3>. QED
      BY <3>1, StepsDefine, Zenon
  <2>2. ASSUME NEW n \in 1 .. 8
        PROVE  f[n] = TabSpace(f[n - 1], width)
    <3>1. n - 1 \in 0 .. 8
      OBVIOUS
    <3>2. f[n - 1] \in Cutting
      BY <2>1, <3>1 DEF Follows
    <3>3. <<f[n - 1], n>> \in Cutting \X (1 .. 8)
      BY <3>2
    <3>. QED
      BY <2>1, <3>3 DEF Follows
  <2>3. \A n \in 0 .. 8 : f[n] = IF n = 0 THEN s ELSE TabSpace(f[n - 1], width)
    BY <2>1, <2>2 DEF Follows
  <2>4. f = [n \in 0 .. 8 |-> f[n]]
    BY <2>1 DEF Follows
  <2>5. [n \in 0 .. 8 |-> f[n]] = [n \in 0 .. 8 |-> IF n = 0 THEN s ELSE TabSpace(f[n - 1], width)]
    BY <2>3, Zenon
  <2>. QED
    BY <2>4, <2>5, Zenon
<1>4. Is(Spaces)
  <2>. HIDE DEF Is
  <2>. QED
    BY <1>3, Zenon
<1>. HIDE DEF Spaces
<1>5. \A n \in 0 .. 8 : Spaces[n] = IF n = 0 THEN s ELSE TabSpace(Spaces[n - 1], width)
  BY <1>4, Zenon
<1>6. Spaces[0] \in Cutting /\ \A n \in 1 .. 8 : Spaces[n - 1] \in Cutting => Spaces[n] \in Cutting
  BY <1>5, TabSpaceType
<1>7. \A n \in 0 .. 8 : Spaces[n] \in Cutting
  BY <1>6, HandedOn
<1>8. 8 - (s.col % 8) \in 0 .. 8
  BY DEF Cutting
<1>. QED
  BY <1>1, <1>7, <1>8

(* A character may start a row. *)
LEMMA GlyphType ==
    \A s \in Cutting : \A unit \in Chars : \A width : Glyph(s, unit, width) \in Cutting
<1>. SUFFICES ASSUME NEW s \in Cutting, NEW unit \in Chars, NEW width
              PROVE  Glyph(s, unit, width) \in Cutting
  OBVIOUS
<1>. DEFINE t == IF s.col > 0 /\ s.col + GlyphWidth(unit) > width THEN Wrap(s) ELSE s
<1>1. t \in Cutting
  BY WrapType, Zenon
<1>2. Glyph(s, unit, width) = [t EXCEPT !.bytes = t.bytes \o Bytes(unit),
                                          !.col = t.col + GlyphWidth(unit)]
  BY Zenon DEF Glyph
<1>. HIDE DEF t
<1>3. t.bytes \in Seq(Chars) /\ t.col \in Nat /\ t.sgr \in Seq(Chars) /\ t.link \in Chars
  BY <1>1 DEF Cutting
<1>4. t.bytes \o Bytes(unit) \in Seq(Chars) /\ t.col + GlyphWidth(unit) \in Nat
  BY <1>3, BytesType
<1>5. [t EXCEPT !.bytes = t.bytes \o Bytes(unit), !.col = t.col + GlyphWidth(unit)] \in Cutting
  BY <1>1, <1>3, <1>4, CuttingUpdate, Zenon
<1>. QED
  BY <1>2, <1>5, Zenon

(* All of them. *)
LEMMA ReflowUnitType ==
    \A s \in Cutting : \A units \in Seq(Chars) : \A i \in 1 .. Len(units) : \A width, styled :
        ReflowUnit(s, units, i, width, styled) \in Cutting
<1>. SUFFICES ASSUME NEW s \in Cutting, NEW units \in Seq(Chars), NEW i \in 1 .. Len(units),
                     NEW width, NEW styled
              PROVE  ReflowUnit(s, units, i, width, styled) \in Cutting
  OBVIOUS
<1>1. units[i] \in Chars
  OBVIOUS
<1>2. [s EXCEPT !.bytes = Append(@, "\n"), !.col = 0] \in Cutting
  <2>1. /\ s.bytes \in Seq(Chars) /\ s.sgr \in Seq(Chars) /\ s.link \in Chars
        /\ "\n" \in Chars
    BY CharsAre DEF Cutting
  <2>2. Append(s.bytes, "\n") \in Seq(Chars) /\ 0 \in Nat
    BY <2>1
  <2>. QED
    BY <2>1, <2>2, CuttingUpdate
<1>3. ReflowUnit(s, units, i, width, styled) \in
        {s, [s EXCEPT !.bytes = Append(@, "\n"), !.col = 0], Escape(s, units[i]),
         Tab(s, width), Glyph(s, units[i], width)}
  BY Zenon DEF ReflowUnit
<1>. QED
  BY <1>1, <1>2, <1>3, EscapeType, TabType, GlyphType

(* mdf_pager_reflow makes a sequence of the same. *)
LEMMA ReflowType ==
    \A units \in Seq(Chars) : \A width, styled : Reflow(units, width, styled) \in Seq(Chars)
<1>. SUFFICES ASSUME NEW units \in Seq(Chars), NEW width, NEW styled
              PROVE  Reflow(units, width, styled) \in Seq(Chars)
  OBVIOUS
<1>. DEFINE N     == Len(units)
            Turn(s, n) == ReflowUnit(s, units, n, width, styled)
            Is(f) == f = [n \in 0 .. N |-> IF n = 0 THEN Empty ELSE Turn(f[n - 1], n)]
            After == CHOOSE f : Is(f)
            step  == [x \in Cutting \X (1 .. N) |-> Turn(x[1], x[2])]
<1>1. Reflow(units, width, styled) = After[N].bytes
  BY Zenon DEF Reflow
<1>2. N \in Nat
  OBVIOUS
<1>3. Empty \in Cutting
  <2>1. << >> \in Seq(Chars) /\ 0 \in Nat /\ NoLink \in Chars
    BY CharsAre, ShortSeqs
  <2>. QED
    BY <2>1 DEF Empty, Cutting
<1>4. \A s \in Cutting : \A n \in 1 .. N : Turn(s, n) \in Cutting
  BY ReflowUnitType
<1>. HIDE DEF N, Turn
<1>5. \E f : Is(f)
  <2>1. step \in [Cutting \X (1 .. N) -> Cutting]
    BY <1>4
  <2>2. PICK f : Follows(Cutting, N, Empty, step, f)
    <3>. HIDE DEF step
    <3>1. Stepping(Cutting, N, Empty, step)
      BY <1>2, <1>3, <2>1 DEF Stepping
    <3>. QED
      BY <3>1, StepsDefine, Zenon
  <2>3. ASSUME NEW n \in 1 .. N
        PROVE  f[n] = Turn(f[n - 1], n)
    <3>1. n - 1 \in 0 .. N
      BY <1>2
    <3>2. f[n - 1] \in Cutting
      BY <2>2, <3>1 DEF Follows
    <3>3. <<f[n - 1], n>> \in Cutting \X (1 .. N)
      BY <3>2
    <3>. QED
      BY <2>2, <3>3 DEF Follows
  <2>4. \A n \in 0 .. N : f[n] = IF n = 0 THEN Empty ELSE Turn(f[n - 1], n)
    BY <1>2, <2>2, <2>3 DEF Follows
  <2>5. f = [n \in 0 .. N |-> f[n]]
    BY <2>2 DEF Follows
  <2>6. [n \in 0 .. N |-> f[n]] = [n \in 0 .. N |-> IF n = 0 THEN Empty ELSE Turn(f[n - 1], n)]
    BY <2>4, Zenon
  <2>. QED
    BY <2>5, <2>6, Zenon
<1>6. Is(After)
  <2>. HIDE DEF Is
  <2>. QED
    BY <1>5, Zenon
<1>. HIDE DEF After
<1>7. \A n \in 0 .. N : After[n] = IF n = 0 THEN Empty ELSE Turn(After[n - 1], n)
  BY <1>6, Zenon
<1>8. After[0] \in Cutting /\ \A n \in 1 .. N : After[n - 1] \in Cutting => After[n] \in Cutting
  <2>1. 0 \in 0 .. N /\ \A n \in 1 .. N : n \in 0 .. N /\ n # 0
    BY <1>2
  <2>. QED
    BY <1>3, <1>4, <1>7, <2>1
<1>9. \A n \in 0 .. N : After[n] \in Cutting
  BY <1>2, <1>8, HandedOn
<1>10. After[N] \in Cutting
  BY <1>2, <1>9
<1>. QED
  BY <1>1, <1>10 DEF Cutting

(* Ascending makes a sequence of such numbers. *)
LEMMA AscendingType ==
    \A n \in Nat : \A S : Ascending(n, S) \in Seq((1 .. n) \cap S)
<1>. SUFFICES ASSUME NEW n \in Nat, NEW S
              PROVE  Ascending(n, S) \in Seq((1 .. n) \cap S)
  OBVIOUS
<1>. DEFINE T    == (1 .. n) \cap S
            g(i) == IF i \in S THEN <<i>> ELSE << >>
            q    == [i \in 1 .. n |-> g(i)]
<1>1. \A i \in 1 .. n : g(i) \in Seq(T)
  <2>1. \A i \in 1 .. n : i \in S => i \in T
    OBVIOUS
  <2>. HIDE DEF T
  <2>. QED
    BY <2>1, ShortSeqs, Zenon
<1>. HIDE DEF T
<1>2. q \in Seq(Seq(T))
  <2>. HIDE DEF g
  <2>. QED
    BY <1>1, IsASeq
<1>3. FlattenSeq(q) \in Seq(T)
  <2>. HIDE DEF q
  <2>. QED
    BY <1>2, FlattenAppend, EmptySeq
<1>. QED
  BY <1>3, Zenon DEF Ascending, T

(* Each of them. *)
LEMMA AscendingIn ==
    \A n \in Nat : \A S : /\ Len(Ascending(n, S)) \in Nat
                         /\ \A j \in 1 .. Len(Ascending(n, S)) :
                               Ascending(n, S)[j] \in 1 .. n /\ Ascending(n, S)[j] \in S
<1>. SUFFICES ASSUME NEW n \in Nat, NEW S
              PROVE  /\ Len(Ascending(n, S)) \in Nat
                     /\ \A j \in 1 .. Len(Ascending(n, S)) :
                           Ascending(n, S)[j] \in 1 .. n /\ Ascending(n, S)[j] \in S
  OBVIOUS
<1>. DEFINE s == Ascending(n, S)
<1>1. s \in Seq((1 .. n) \cap S)
  BY AscendingType
<1>. HIDE DEF s
<1>2. Len(s) \in Nat /\ \A j \in 1 .. Len(s) : s[j] \in (1 .. n) \cap S
  BY <1>1
<1>. QED
  BY <1>2 DEF s

(* The view of a sequence of bytes: it has a line, and a place for all text. *)
ViewOK(v) ==
    /\ v.bytes \in Seq(Chars)
    /\ Len(v.lines) \in Nat \ {0}
    /\ v.text \in Seq(Chars)
    /\ Len(v.at) = Len(v.text)
    /\ \A k \in 1 .. Len(v.at) : v.at[k] \in 1 .. Len(v.bytes)

(* mdf_pager_view_index makes such a view. *)
LEMMA IndexedOK ==
    \A bytes \in Seq(Chars) : ViewOK(Indexed(bytes))
<1>. SUFFICES ASSUME NEW bytes \in Seq(Chars)
              PROVE  ViewOK(Indexed(bytes))
  OBVIOUS
<1>. DEFINE n      == Len(bytes)
            breaks == Ascending(n, {i \in 1 .. (n - 1) : bytes[i] = "\n"})
            at     == Ascending(n, {i \in 1 .. n : bytes[i] \notin Escapes})
            lines  == <<1>> \o [k \in 1 .. Len(breaks) |-> breaks[k] + 1]
            text   == [k \in 1 .. Len(at) |-> IF bytes[at[k]] = "\n" THEN " " ELSE bytes[at[k]]]
<1>1. Indexed(bytes) = [bytes |-> bytes, lines |-> lines, text |-> text, at |-> at]
  BY Zenon DEF Indexed, IndicesOf
<1>2. n \in Nat
  OBVIOUS
<1>. HIDE DEF n
<1>3. /\ Len(breaks) \in Nat /\ \A k \in 1 .. Len(breaks) : breaks[k] \in 1 .. n
      /\ Len(at) \in Nat /\ \A k \in 1 .. Len(at) : at[k] \in 1 .. n
  BY <1>2, AscendingIn
<1>. HIDE DEF breaks, at
<1>4. Len(lines) \in Nat \ {0}
  <2>. DEFINE rest == [k \in 1 .. Len(breaks) |-> breaks[k] + 1]
  <2>1. Len(breaks) \in Nat /\ \A k \in 1 .. Len(breaks) : breaks[k] \in Nat
    BY <1>2, <1>3
  <2>2. rest \in Seq(Nat)
    BY <2>1, IsASeq
  <2>. HIDE DEF rest
  <2>3. Len(<<1>> \o rest) = 1 + Len(rest) /\ Len(rest) \in Nat
    BY <2>2
  <2>4. lines = <<1>> \o rest
    BY Zenon DEF rest
  <2>. HIDE DEF lines
  <2>. QED
    BY <2>3, <2>4
<1>5. Len(at) \in Nat /\ \A k \in 1 .. Len(at) : at[k] \in 1 .. n
  BY <1>2, <1>3
<1>6. text \in Seq(Chars) /\ Len(text) = Len(at)
  <2>1. \A k \in 1 .. Len(at) : bytes[at[k]] \in Chars
    BY <1>5 DEF n
  <2>2. \A k \in 1 .. Len(at) : (IF bytes[at[k]] = "\n" THEN " " ELSE bytes[at[k]]) \in Chars
    BY <2>1, CharsAre, Zenon
  <2>. DEFINE c(k) == IF bytes[at[k]] = "\n" THEN " " ELSE bytes[at[k]]
  <2>3. \A k \in 1 .. Len(at) : c(k) \in Chars
    BY <2>2, Zenon
  <2>4. text = [k \in 1 .. Len(at) |-> c(k)]
    BY Zenon
  <2>. HIDE DEF c
  <2>5. [k \in 1 .. Len(at) |-> c(k)] \in Seq(Chars) /\ Len([k \in 1 .. Len(at) |-> c(k)]) = Len(at)
    BY <1>5, <2>3, IsASeq
  <2>. QED
    BY <2>4, <2>5, Zenon
<1>. HIDE DEF lines, text
<1>. QED
  BY <1>1, <1>4, <1>5, <1>6 DEF ViewOK, n

(* A layout of a document that is shown. *)
LEMMA MakeViewOK ==
    \A doc \in Inputs : \A dims \in Sizes : ViewOK(MakeView(doc, dims[1]))
<1>. SUFFICES ASSUME NEW doc \in Inputs, NEW dims \in Sizes
              PROVE  ViewOK(MakeView(doc, dims[1]))
  OBVIOUS
<1>1. Source(doc, dims[1]) \in Seq(Units)
  BY SourceAssumption
<1>2. Source(doc, dims[1]) \in Seq(Chars)
  <2>. DEFINE s == Source(doc, dims[1])
  <2>1. s \in Seq(Units) /\ Units \subseteq Chars
    BY <1>1 DEF Chars
  <2>. HIDE DEF s
  <2>2. s \in Seq(Chars)
    BY <2>1
  <2>. QED
    BY <2>2 DEF s
<1>3. Reflow(Source(doc, dims[1]), dims[1], doc.markdown) \in Seq(Chars)
  BY <1>2, ReflowType
<1>. QED
  BY <1>3, IndexedOK DEF MakeView

(* The row of an offset is one of the view. *)
LEMMA LineForType ==
    \A v, offset : ViewOK(v) => LineFor(v, offset) \in 0 .. Len(v.lines) - 1
<1>. SUFFICES ASSUME NEW v, NEW offset, ViewOK(v)
              PROVE  LineFor(v, offset) \in 0 .. Len(v.lines) - 1
  OBVIOUS
<1>. DEFINE n == Len(v.lines)
            T == {k \in 2 .. n : v.lines[k] <= offset}
<1>1. n \in Nat \ {0}
  BY DEF ViewOK
<1>2. T \in SUBSET (2 .. n)
  OBVIOUS
<1>3. LineFor(v, offset) = Cardinality(T)
  BY Zenon DEF LineFor
<1>. HIDE DEF n, T
<1>4. IsFiniteSet(2 .. n) /\ Cardinality(2 .. n) = n - 1
  BY <1>1, FS_Interval
<1>5. Cardinality(T) \in Nat /\ Cardinality(T) <= n - 1
  BY <1>2, <1>4, FS_Subset, FS_CardinalityType
<1>6. LineFor(v, offset) \in 0 .. n - 1
  BY <1>1, <1>3, <1>5
<1>. QED
  BY <1>6 DEF n

(* Folding keeps a sequence one. *)
LEMMA FoldedType ==
    \A text \in Seq(Chars) : Folded(text) \in Seq(Chars)
<1>. SUFFICES ASSUME NEW text \in Seq(Chars)
              PROVE  Folded(text) \in Seq(Chars)
  OBVIOUS
<1>. DEFINE g(i) == CASE text[i] = "S" -> <<"s", "s">>
                      [] text[i] = "A" -> <<"a">>
                      [] OTHER         -> <<text[i]>>
            n    == Len(text)
            q    == [i \in 1 .. n |-> g(i)]
<1>1. n \in Nat /\ \A i \in 1 .. n : text[i] \in Chars
  OBVIOUS
<1>. HIDE DEF n
<1>2. \A i \in 1 .. n : g(i) \in Seq(Chars)
  <2>1. <<"s", "s">> \in Seq(Chars) /\ <<"a">> \in Seq(Chars)
    BY CharsAre, ShortSeqs, Zenon
  <2>2. \A i \in 1 .. n : <<text[i]>> \in Seq(Chars)
    BY <1>1, ShortSeqs, Zenon
  <2>. QED
    BY <2>1, <2>2
<1>3. q \in Seq(Seq(Chars))
  <2>. HIDE DEF g
  <2>. QED
    BY <1>1, <1>2, IsASeq
<1>4. Folded(text) = FlattenSeq(q)
  BY Zenon DEF Folded, n
<1>5. FlattenSeq(q) \in Seq(Chars)
  <2>. HIDE DEF q
  <2>. QED
    BY <1>3, FlattenAppend, EmptySeq
<1>. QED
  BY <1>4, <1>5, Zenon

(* mdf_pager_search_refresh finds places in the view. *)
LEMMA MatchesType ==
    ASSUME NEW v, ViewOK(v), NEW query \in Seq(Chars)
    PROVE  /\ Matches(v, query) \in Seq(Marks)
           /\ Matches(v, query) # << >> => Len(Matches(v, query)) > 0
<1>. DEFINE n    == Len(v.text)
            S    == {k \in 1 .. n : v.text[k] # "W2" /\ SearchEnds(v.text, k, query) # {}}
            hits == Ascending(n, S)
            m(j) == Match(v, hits[j], CHOOSE e \in SearchEnds(v.text, hits[j], query) : TRUE)
<1>1. n \in Nat /\ n = Len(v.at) /\ \A k \in 1 .. n : v.at[k] \in Nat
  BY DEF ViewOK
<1>2. Matches(v, query) = IF query = << >> THEN << >> ELSE [j \in 1 .. Len(hits) |-> m(j)]
  BY Zenon DEF Matches
<1>. HIDE DEF n
<1>4. ASSUME NEW k \in 1 .. n, SearchEnds(v.text, k, query) # {}
      PROVE  (CHOOSE e \in SearchEnds(v.text, k, query) : TRUE) \in 1 .. n
  <2>1. Len(Folded(query)) \in Nat
    BY FoldedType
  <2>2. \A e \in SearchEnds(v.text, k, query) : e \in 1 .. n
    BY <1>1, <2>1 DEF SearchEnds, n
  <2>. QED
    BY <1>4, <2>2
<1>5. \A j \in 1 .. Len(hits) : hits[j] \in S
  BY <1>1, AscendingIn, Zenon
<1>6. \A j \in 1 .. Len(hits) : m(j) \in Marks
  <2>. SUFFICES ASSUME NEW j \in 1 .. Len(hits)
                PROVE  m(j) \in Marks
    OBVIOUS
  <2>. DEFINE e == CHOOSE e \in SearchEnds(v.text, hits[j], query) : TRUE
  <2>1. hits[j] \in 1 .. n /\ SearchEnds(v.text, hits[j], query) # {}
    BY <1>5, Zenon
  <2>2. e \in 1 .. n
    BY <1>4, <2>1
  <2>. HIDE DEF e, hits
  <2>3. v.at[hits[j]] \in Nat /\ v.at[e] + 1 \in Nat
    BY <1>1, <2>1, <2>2
  <2>4. Match(v, hits[j], e) \in Marks
    BY <2>3 DEF Match, Marks
  <2>. QED
    BY <2>4, Zenon DEF e
<1>. HIDE DEF hits, m
<1>7. Len(hits) \in Nat
  BY <1>1, AscendingIn DEF hits
<1>8. [j \in 1 .. Len(hits) |-> m(j)] \in Seq(Marks)
  BY <1>6, <1>7, IsASeq
<1>9. Matches(v, query) \in Seq(Marks)
  BY <1>2, <1>8
<1>. QED
  BY <1>9

-----------------------------------------------------------------------------
(* The query *)

(* Where an incomplete query is cut off first. *)
LEMMA FirstCut ==
    ASSUME NEW q, Len(q) \in Nat, NEW k \in Cut(q), \A j \in Cut(q) : k <= j
    PROVE  CompletePrefix(q) = SubSeq(q, 1, k - 1)
<1>. DEFINE c == CHOOSE i \in Cut(q) : \A j \in Cut(q) : i <= j
<1>1. CompletePrefix(q) = SubSeq(q, 1, c - 1)
  BY Zenon DEF CompletePrefix
<1>2. c \in Cut(q) /\ \A j \in Cut(q) : c <= j
  BY Zenon
<1>. HIDE DEF c
<1>3. c \in Int /\ k \in Int
  BY <1>2 DEF Cut
<1>4. c = k
  BY <1>2, <1>3
<1>. QED
  BY <1>1, <1>4, Zenon

(* While a rune is incomplete its bytes do not show. *)
LEMMA PartsDoNotShow ==
    ASSUME NEW q \in Seq(Chars), NEW b \in Chars, ~Complete(Append(q, b))
    PROVE  CompletePrefix(Append(q, b)) = CompletePrefix(q)
<1>. DEFINE n == Len(q)
            r == Append(q, b)
<1>1. /\ n \in Nat /\ Len(r) = n + 1 /\ r[n + 1] = b
      /\ \A i \in 1 .. n : r[i] = q[i]
      /\ \A k \in 0 .. n : SubSeq(r, 1, k) = SubSeq(q, 1, k)
  OBVIOUS
<1>2. Cut(r) # {}
  BY DEF Complete
<1>. HIDE DEF r
<1>3. \A k \in 1 .. n : k \in Cut(r) => k \in Cut(q)
  <2>. SUFFICES ASSUME NEW k \in 1 .. n, k \in Cut(r)
                PROVE  k \in Cut(q)
    OBVIOUS
  <2>1. r[k] = "W1" /\ (k = n + 1 \/ r[k + 1] # "W2")
    BY <1>1 DEF Cut
  <2>2. q[k] = "W1"
    BY <1>1, <2>1
  <2>3. k = n \/ q[k + 1] # "W2"
    BY <1>1, <2>1
  <2>. QED
    BY <2>2, <2>3 DEF Cut
<1>4. \A k \in 1 .. n - 1 : k \in Cut(q) => k \in Cut(r)
  <2>. SUFFICES ASSUME NEW k \in 1 .. n - 1, k \in Cut(q)
                PROVE  k \in Cut(r)
    OBVIOUS
  <2>1. q[k] = "W1" /\ q[k + 1] # "W2"
    BY <1>1 DEF Cut
  <2>2. k \in 1 .. n /\ k + 1 \in 1 .. n /\ k \in 1 .. n + 1
    BY <1>1
  <2>3. r[k] = "W1" /\ r[k + 1] # "W2"
    BY <1>1, <2>1, <2>2
  <2>. QED
    BY <1>1, <2>2, <2>3 DEF Cut
<1>5. \A k \in Cut(r) : k \in 1 .. n \/ k = n + 1
  BY <1>1 DEF Cut
<1>6. \A k \in Cut(q) : k \in 1 .. n
  BY DEF Cut
<1>7. Cut(r) \in SUBSET Nat /\ Cut(q) \in SUBSET Nat
  BY <1>1, <1>5, <1>6
<1>8. PICK c \in Cut(r) : \A j \in Cut(r) : c <= j
  BY <1>2, <1>7, LeastOf
<1>9. CompletePrefix(r) = SubSeq(r, 1, c - 1)
  BY <1>1, <1>8, FirstCut
<1>10. c - 1 \in 0 .. n
  BY <1>1, <1>5, <1>8
<1>11. CompletePrefix(r) = SubSeq(q, 1, c - 1)
  BY <1>1, <1>9, <1>10
<1>12. CASE c \in 1 .. n
  <2>1. c \in Cut(q)
    BY <1>3, <1>12
  <2>2. ASSUME NEW j \in Cut(q)
        PROVE  c <= j
    <3>1. CASE j \in 1 .. n - 1
      BY <1>4, <1>8, <3>1
    <3>2. CASE ~(j \in 1 .. n - 1)
      BY <1>1, <1>6, <1>12, <3>2
    <3>. QED
      BY <3>1, <3>2
  <2>3. CompletePrefix(q) = SubSeq(q, 1, c - 1)
    BY <1>1, <2>1, <2>2, FirstCut
  <2>. QED
    BY <1>11, <2>3 DEF r
<1>13. CASE c = n + 1
  <2>1. \A k \in Cut(r) : k = n + 1
    BY <1>1, <1>5, <1>8, <1>13
  <2>2. r[n + 1] = "W1"
    BY <1>8, <1>13 DEF Cut
  <2>3. Cut(q) = {}
    <3>1. \A k \in Cut(q) : k = n
      BY <1>1, <1>4, <1>6, <2>1
    <3>2. n \in Cut(q) => n \in Cut(r)
      <4>1. SUFFICES ASSUME n \in Cut(q)
                     PROVE  n \in Cut(r)
        OBVIOUS
      <4>2. n \in 1 .. n /\ q[n] = "W1"
        BY <4>1 DEF Cut
      <4>3. r[n] = "W1" /\ r[n + 1] # "W2" /\ n \in 1 .. n + 1
        BY <1>1, <2>2, <4>2
      <4>. QED
        BY <1>1, <4>3 DEF Cut
    <3>3. n \notin Cut(q)
      BY <1>1, <2>1, <3>2
    <3>. QED
      BY <3>1, <3>3
  <2>4. CompletePrefix(q) = q
    BY <2>3 DEF CompletePrefix
  <2>5. SubSeq(q, 1, n) = q
    OBVIOUS
  <2>6. c - 1 = n
    BY <1>1, <1>13
  <2>. QED
    BY <1>11, <2>4, <2>5, <2>6 DEF r
<1>. QED
  BY <1>5, <1>8, <1>12, <1>13 DEF r

(* What a key makes of the query is one. *)
LEMMA BackspaceType ==
    ASSUME NEW q \in Seq(Chars),
           NEW starts, starts = {k \in 1 .. Len(q) : q[k] # "W2"}
    PROVE  (IF starts = {} THEN << >>
            ELSE SubSeq(q, 1, (CHOOSE k \in starts : \A j \in starts : j <= k) - 1)) \in Seq(Chars)
<1>1. \A k \in 1 .. Len(q) : SubSeq(q, 1, k - 1) \in Seq(Chars)
  OBVIOUS
<1>2. CASE starts = {}
  BY <1>2
<1>3. CASE starts # {}
  <2>. DEFINE c == CHOOSE k \in starts : \A j \in starts : j <= k
  <2>1. \E k \in starts : \A j \in starts : j <= k
    <3>. DEFINE D == {i \in Nat : \E k \in starts : i = Len(q) - k}
    <3>1. D \in SUBSET Nat /\ D # {}
      <4>1. PICK k \in starts : TRUE
        BY <1>3
      <4>2. Len(q) - k \in Nat
        OBVIOUS
      <4>3. Len(q) - k \in D
        BY <4>1, <4>2
      <4>. QED
        BY <4>3
    <3>2. PICK i \in D : \A j \in D : i <= j
      <4>. HIDE DEF D
      <4>. QED
        BY <3>1, LeastOf
    <3>3. PICK k \in starts : i = Len(q) - k
      BY <3>2
    <3>4. ASSUME NEW j \in starts
          PROVE  j <= k
      <4>1. Len(q) - j \in D
        OBVIOUS
      <4>2. i <= Len(q) - j
        BY <3>2, <4>1
      <4>. QED
        BY <3>3, <4>2
    <3>. QED
      BY <3>4
  <2>2. c \in starts
    BY <2>1, Zenon
  <2>. HIDE DEF c
  <2>3. SubSeq(q, 1, c - 1) \in Seq(Chars)
    BY <1>1, <2>2
  <2>. QED
    BY <1>3, <2>3 DEF c
<1>. QED
  BY <1>2, <1>3

-----------------------------------------------------------------------------
(* The search *)

(* MatchesFresh of a search and a view. *)
Fresh(s, v) ==
    s.active /\ Complete(s.query) =>
        /\ s.matches = Matches(v, s.query)
        /\ s.matches # << >> => s.selected < Len(s.matches)

(* No search is shown. *)
LEMMA NoSearchOK ==
    /\ NoSearch \in Searches /\ ~NoSearch.active
    /\ [NoSearch EXCEPT !.editing = TRUE] \in Searches
    /\ ~[NoSearch EXCEPT !.editing = TRUE].active
<1>1. << >> \in Seq(Chars) /\ << >> \in Seq(Marks)
  BY ShortSeqs
<1>. QED
  BY <1>1 DEF NoSearch, Searches

(* mdf_pager_search_refresh *)
LEMMA RefreshOK ==
    ASSUME NEW v, ViewOK(v), NEW s \in Searches
    PROVE  Refresh(s, v) \in Searches /\ Fresh(Refresh(s, v), v)
<1>. DEFINE found == Matches(v, s.query)
            r     == [s EXCEPT !.matches = found, !.selected = 0]
<1>1. s.query \in Seq(Chars)
  BY DEF Searches
<1>2. found \in Seq(Marks) /\ (found # << >> => Len(found) > 0)
  BY <1>1, MatchesType
<1>3. Refresh(s, v) = r
  BY DEF Refresh
<1>4. r.query = s.query /\ r.matches = found /\ r.selected = 0
  BY DEF Searches
<1>. HIDE DEF found
<1>5. r \in Searches
  <2>1. 0 \in Nat
    OBVIOUS
  <2>. QED
    BY <1>2, <2>1 DEF Searches
<1>. HIDE DEF r
<1>6. Fresh(r, v)
  BY <1>2, <1>4 DEF Fresh, found
<1>. QED
  BY <1>3, <1>5, <1>6

(* mdf_pager_search_refresh_preserving_selection *)
LEMMA RefreshKeepingOK ==
    ASSUME NEW v, ViewOK(v), NEW s \in Searches
    PROVE  RefreshKeeping(s, v) \in Searches /\ Fresh(RefreshKeeping(s, v), v)
<1>. DEFINE found == Matches(v, s.query)
            kept  == CASE found = << >> -> 0
                       [] found # << >> /\ s.selected >= Len(found) -> Len(found) - 1
                       [] OTHER -> s.selected
            r     == [s EXCEPT !.matches = found, !.selected = kept]
<1>1. s.query \in Seq(Chars) /\ s.selected \in Nat
  BY DEF Searches
<1>2. found \in Seq(Marks) /\ (found # << >> => Len(found) > 0)
  BY <1>1, MatchesType
<1>3. RefreshKeeping(s, v) = r
  BY DEF RefreshKeeping
<1>4. r.query = s.query /\ r.matches = found /\ r.selected = kept
  BY DEF Searches
<1>5. kept \in Nat /\ (found # << >> => kept < Len(found))
  <2>. HIDE DEF found
  <2>1. Len(found) \in Nat /\ (found = << >> => Len(found) = 0)
    BY <1>2
  <2>2. CASE found = << >>
    <3>1. kept = 0
      BY <2>1, <2>2, <1>1
    <3>. QED
      BY <2>2, <3>1
  <2>3. CASE found # << >> /\ s.selected >= Len(found)
    <3>1. kept = Len(found) - 1
      BY <2>3
    <3>2. Len(found) - 1 \in Nat /\ Len(found) - 1 < Len(found)
      BY <1>2, <2>1, <2>3
    <3>. HIDE DEF kept
    <3>. QED
      BY <3>1, <3>2
  <2>4. CASE found # << >> /\ ~(s.selected >= Len(found))
    <3>1. kept = s.selected
      BY <2>4
    <3>. HIDE DEF kept
    <3>. QED
      BY <1>1, <2>1, <2>4, <3>1
  <2>. QED
    BY <2>2, <2>3, <2>4
<1>. HIDE DEF found, kept
<1>6. r \in Searches
  BY <1>2, <1>5 DEF Searches
<1>. HIDE DEF r
<1>7. Fresh(r, v)
  BY <1>4, <1>5 DEF Fresh, found
<1>. QED
  BY <1>3, <1>6, <1>7

(* mdf_pager_search_update_live *)
LEMMA UpdateLiveOK ==
    ASSUME NEW v, ViewOK(v), NEW s \in Searches
    PROVE  UpdateLive(s, v) \in Searches /\ Fresh(UpdateLive(s, v), v)
<1>1. CASE ~Complete(s.query)
  <2>1. UpdateLive(s, v) = s
    BY <1>1 DEF UpdateLive
  <2>. QED
    BY <1>1, <2>1 DEF Fresh
<1>2. CASE Complete(s.query) /\ CharacterCount(s.query) < 3
  <2>. DEFINE r == [s EXCEPT !.matches = << >>, !.selected = 0, !.active = FALSE]
  <2>1. UpdateLive(s, v) = r
    BY <1>2 DEF UpdateLive
  <2>2. r \in Searches /\ ~r.active
    <3>1. << >> \in Seq(Marks)
      BY ShortSeqs
    <3>. QED
      BY <3>1 DEF Searches
  <2>. HIDE DEF r
  <2>. QED
    BY <2>1, <2>2 DEF Fresh
<1>3. CASE Complete(s.query) /\ ~(CharacterCount(s.query) < 3)
  <2>1. UpdateLive(s, v) = Refresh([s EXCEPT !.active = TRUE], v)
    BY <1>3 DEF UpdateLive
  <2>2. [s EXCEPT !.active = TRUE] \in Searches
    BY DEF Searches
  <2>. QED
    BY <2>1, <2>2, RefreshOK
<1>. QED
  BY <1>1, <1>2, <1>3

(* mdf_pager_search_backspace *)
LEMMA BackspaceOK ==
    \A s \in Searches : Backspace(s) \in Searches
<1>. SUFFICES ASSUME NEW s \in Searches
              PROVE  Backspace(s) \in Searches
  OBVIOUS
<1>. DEFINE starts == {k \in 1 .. Len(s.query) : s.query[k] # "W2"}
            q == IF starts = {} THEN << >>
                 ELSE SubSeq(s.query, 1, (CHOOSE k \in starts : \A j \in starts : j <= k) - 1)
<1>1. s.query \in Seq(Chars)
  BY DEF Searches
<1>2. q \in Seq(Chars)
  <2>. DEFINE S == starts
  <2>1. S = {k \in 1 .. Len(s.query) : s.query[k] # "W2"}
    OBVIOUS
  <2>. HIDE DEF S
  <2>2. (IF S = {} THEN << >>
         ELSE SubSeq(s.query, 1, (CHOOSE k \in S : \A j \in S : j <= k) - 1)) \in Seq(Chars)
    BY <1>1, <2>1, BackspaceType
  <2>. QED
    BY <2>2, Zenon DEF S
<1>3. Backspace(s) = [s EXCEPT !.query = q]
  BY Zenon DEF Backspace
<1>. HIDE DEF q
<1>. QED
  BY <1>2, <1>3 DEF Searches

-----------------------------------------------------------------------------
(* The invariant *)

(* What holds between two turns of the loop. *)
LEMMA Facts ==
    ASSUME IInv
    PROVE  /\ ViewOK(view) /\ Len(view.lines) \in Nat \ {0}
           /\ rows \in Nat /\ rows >= 2 /\ columns \in Nat
           /\ search \in Searches /\ Fresh(search, view)
           /\ top \in 0 .. Len(view.lines) - 1
<1>1. <<columns, rows>> \in Sizes /\ <<columns, rows>>[1] = columns /\ <<columns, rows>>[2] = rows
  BY DEF IInv, TypeOK
<1>2. ViewOK(view)
  BY <1>1, MakeViewOK DEF IInv, TypeOK
<1>3. rows \in Nat /\ rows >= 2 /\ columns \in Nat
  BY <1>1, SizesAssumption
<1>4. Fresh(search, view)
  BY Zenon DEF IInv, MatchesFresh, Fresh
<1>. QED
  BY <1>2, <1>3, <1>4 DEF IInv, TypeOK, ViewOK

(* Both parts of it in the next state. *)
LEMMA Kept ==
    ASSUME TypeOK', Fresh(search', view')
    PROVE  IInv'
<1>1. MatchesFresh'
  BY Zenon DEF MatchesFresh, Fresh
<1>. QED
  BY <1>1 DEF IInv

(* The last row that may be the top one. *)
LEMMA MaxTopType ==
    \A v : \A height \in Nat :
        ViewOK(v) /\ height >= 2 => MaxTop(v, height) \in 0 .. Len(v.lines) - 1
  BY DEF MaxTop, ViewOK

(* A key that leaves a fresh search and a row of the view. *)
LEMMA LeavesKeeps ==
    ASSUME IInv, NEW s \in Searches, Fresh(s, view), NEW row \in 0 .. Len(view.lines) - 1,
           Leaves(s, row)
    PROVE  IInv'
<1>1. TypeOK'
  BY DEF IInv, TypeOK, Leaves
<1>2. Fresh(search', view')
  BY Zenon DEF Leaves
<1>. QED
  BY <1>1, <1>2, Kept

(* The row a key goes to. *)
LEMMA RowsType ==
    ASSUME IInv
    PROVE  /\ \A n, s : RowOf(n, s) \in 0 .. Len(view.lines) - 1
           /\ \A s : FirstFound(s) \in 0 .. Len(view.lines) - 1
           /\ Limit \in 0 .. Len(view.lines) - 1
           /\ \A n \in Nat : DownBy(n) \in 0 .. Len(view.lines) - 1
           /\ \A n \in Nat : UpBy(n) \in 0 .. Len(view.lines) - 1
           /\ Content \in Nat /\ Half \in Nat
<1>1. /\ ViewOK(view) /\ top \in 0 .. Len(view.lines) - 1 /\ Len(view.lines) \in Nat \ {0}
      /\ rows \in Nat /\ rows >= 2
  BY Facts
<1>2. \A n, s : RowOf(n, s) \in 0 .. Len(view.lines) - 1
  BY <1>1, LineForType DEF RowOf
<1>3. \A s : FirstFound(s) \in 0 .. Len(view.lines) - 1
  BY <1>1, <1>2 DEF FirstFound
<1>4. Limit \in 0 .. Len(view.lines) - 1
  BY <1>1, MaxTopType DEF Limit
<1>5. \A n \in Nat : DownBy(n) \in 0 .. Len(view.lines) - 1
  BY <1>1, <1>4 DEF DownBy
<1>6. \A n \in Nat : UpBy(n) \in 0 .. Len(view.lines) - 1
  BY <1>1 DEF UpBy
<1>7. Content \in Nat /\ Half \in Nat
  BY <1>1 DEF Content, Half
<1>. QED
  BY <1>2, <1>3, <1>4, <1>5, <1>6, <1>7

(* The invariant holds of the view the pager starts with. *)
LEMMA InitOK == Init => IInv
<1>. SUFFICES ASSUME Init
              PROVE  IInv
  OBVIOUS
<1>1. PICK dims \in Sizes : columns = dims[1] /\ rows = dims[2]
  BY DEF Init
<1>2. dims = <<columns, rows>>
  BY <1>1, SizesAssumption
<1>3. input \in Inputs /\ view = MakeView(input, columns) /\ search = NoSearch /\ top = 0
  BY DEF Init
<1>4. ViewOK(view)
  BY <1>1, <1>3, MakeViewOK
<1>5. top \in 0 .. Len(view.lines) - 1
  BY <1>3, <1>4 DEF ViewOK
<1>6. TypeOK
  BY <1>1, <1>2, <1>3, <1>5, NoSearchOK DEF TypeOK, Init
<1>7. MatchesFresh
  BY <1>3, NoSearchOK DEF MatchesFresh
<1>. QED
  BY <1>6, <1>7 DEF IInv

(* A resize: the rows are those of the new size, and so is what is found. *)
LEMMA RelayoutOK ==
    ASSUME IInv, NEW dims \in Sizes, Relayout(dims)
    PROVE  IInv'
<1>. DEFINE next     == MakeView(input, dims[1])
            anchor   == VisibleAnchor(view, top)
            expected == ScaleAnchor(anchor, Len(next.text), Len(view.text))
            place    == TopFor(next, FindAnchor(next, AnchorText(view, top), expected, anchor))
            max      == MaxTop(next, dims[2])
<1>1. /\ columns' = dims[1] /\ rows' = dims[2] /\ view' = next
      /\ top' = IF place > max THEN max ELSE place
      /\ search' = IF search.active THEN RefreshKeeping(search, next) ELSE search
      /\ redraw' = TRUE /\ input' = input /\ running' = running
  BY Zenon DEF Relayout
<1>2. input \in Inputs /\ search \in Searches /\ running \in BOOLEAN
  BY DEF IInv, TypeOK
<1>3. ViewOK(next)
  BY <1>2, MakeViewOK
<1>4. dims[2] \in Nat /\ dims[2] >= 2 /\ dims = <<dims[1], dims[2]>>
  BY SizesAssumption
<1>5. max \in 0 .. Len(next.lines) - 1
  BY <1>3, <1>4, MaxTopType
<1>6. place \in 0 .. Len(next.lines) - 1
  <2>. DEFINE a == FindAnchor(next, AnchorText(view, top), expected, anchor)
  <2>1. place = TopFor(next, a)
    BY Zenon
  <2>. HIDE DEF a, next
  <2>2. TopFor(next, a) \in 0 .. Len(next.lines) - 1
    BY <1>3, LineForType DEF TopFor, ViewOK
  <2>. QED
    BY <2>1, <2>2, Zenon
<1>7. search' \in Searches /\ Fresh(search', next)
  <2>1. CASE search.active
    BY <1>1, <1>2, <1>3, <2>1, RefreshKeepingOK
  <2>2. CASE ~search.active
    BY <1>1, <1>2, <2>2 DEF Fresh
  <2>. QED
    BY <2>1, <2>2
<1>8. <<columns', rows'>> \in Sizes
  BY <1>1, <1>4
<1>9. view' = MakeView(input', columns')
  BY <1>1
<1>10. Fresh(search', view')
  BY <1>1, <1>7, Zenon
<1>. HIDE DEF next, max, place
<1>11. top' \in 0 .. Len(view'.lines) - 1
  BY <1>1, <1>5, <1>6
<1>12. TypeOK'
  BY <1>1, <1>2, <1>7, <1>8, <1>9, <1>11 DEF TypeOK
<1>. QED
  BY <1>10, <1>12, Kept

(* Enter: the query as it is, if it is one. *)
LEMMA EnterOK ==
    ASSUME IInv, Enter
    PROVE  IInv'
<1>. DEFINE active == search.query # << >> /\ Complete(search.query)
            s      == [search EXCEPT !.editing = FALSE, !.active = active]
            found  == IF active THEN Refresh(s, view) ELSE s
            row    == IF found.matches # << >> THEN RowOf(0, found) ELSE top
<1>1. Leaves(found, row)
  BY Zenon DEF Enter
<1>2. ViewOK(view) /\ search \in Searches /\ top \in 0 .. Len(view.lines) - 1
  BY Facts
<1>3. active \in BOOLEAN
  BY Zenon
<1>. HIDE DEF active
<1>4. s \in Searches /\ s.active = active
  BY <1>2, <1>3 DEF Searches
<1>. HIDE DEF s
<1>5. found \in Searches /\ Fresh(found, view)
  <2>1. CASE active
    BY <1>2, <1>4, <2>1, RefreshOK
  <2>2. CASE ~active
    BY <1>4, <2>2 DEF Fresh
  <2>. QED
    BY <1>3, <2>1, <2>2
<1>. HIDE DEF found
<1>6. row \in 0 .. Len(view.lines) - 1
  BY <1>2, RowsType
<1>. HIDE DEF row
<1>. QED
  BY <1>1, <1>5, <1>6, LeavesKeeps

(* A byte less. *)
LEMMA EraseOK ==
    ASSUME IInv, Erase
    PROVE  IInv'
<1>. DEFINE s == UpdateLive(Backspace(search), view)
<1>1. Leaves(s, FirstFound(s))
  BY Zenon DEF Erase
<1>2. ViewOK(view) /\ search \in Searches
  BY Facts
<1>3. s \in Searches /\ Fresh(s, view)
  BY <1>2, BackspaceOK, UpdateLiveOK
<1>. HIDE DEF s
<1>. QED
  BY <1>1, <1>3, RowsType, LeavesKeeps

(* What a byte more makes of the search. *)
LEMMA TypedSearch ==
    ASSUME NEW s \in Searches, NEW byte \in Typed
    PROVE  LET t == [s EXCEPT !.query = Append(@, byte)]
           IN  /\ t \in Searches
               /\ t.query = Append(s.query, byte)
               /\ t.editing = s.editing /\ t.active = s.active
               /\ t.matches = s.matches /\ t.selected = s.selected
<1>1. s.query \in Seq(Chars) /\ byte \in Chars
  BY DEF Searches, Chars
<1>2. Append(s.query, byte) \in Seq(Chars)
  BY <1>1
<1>. QED
  BY <1>2 DEF Searches

(* A byte more: the search is live, or the rune is not complete. *)
LEMMA TypeKeepsOK ==
    ASSUME IInv, NEW byte \in Typed, Type(byte)
    PROVE  IInv'
<1>. DEFINE s     == [search EXCEPT !.query = Append(@, byte)]
            found == UpdateLive(s, view)
<1>1. /\ Complete(s.query) => Leaves(found, FirstFound(found))
      /\ ~Complete(s.query) =>
            search' = s /\ UNCHANGED <<input, columns, rows, view, top, redraw, running>>
  BY Zenon DEF Type
<1>2. ViewOK(view) /\ search \in Searches
  BY Facts
<1>3. s \in Searches
  BY <1>2, TypedSearch
<1>. HIDE DEF s
<1>4. CASE Complete(s.query)
  <2>1. found \in Searches /\ Fresh(found, view)
    BY <1>2, <1>3, UpdateLiveOK
  <2>2. Leaves(found, FirstFound(found))
    BY <1>1, <1>4
  <2>. HIDE DEF found
  <2>. QED
    BY <2>1, <2>2, RowsType, LeavesKeeps
<1>5. CASE ~Complete(s.query)
  <2>1. search' = s /\ UNCHANGED <<input, columns, rows, view, top, redraw, running>>
    BY <1>1, <1>5
  <2>2. TypeOK'
    BY <1>3, <2>1 DEF IInv, TypeOK
  <2>3. Fresh(search', view')
    BY <1>5, <2>1 DEF Fresh
  <2>. QED
    BY <2>2, <2>3, Kept
<1>. QED
  BY <1>4, <1>5

(* The next match and the one before: one of them again. *)
LEMMA SelectOK ==
    ASSUME IInv, NEW k \in Nat, search.active, search.matches # << >>,
           Complete(search.query) => k < Len(search.matches),
           Select([search EXCEPT !.selected = k])
    PROVE  IInv'
<1>. DEFINE s == [search EXCEPT !.selected = k]
<1>1. search \in Searches /\ Fresh(search, view)
  BY Facts
<1>2. /\ s \in Searches /\ s.selected = k /\ s.matches = search.matches
      /\ s.query = search.query /\ s.active = search.active
  BY <1>1 DEF Searches
<1>3. Leaves(s, RowOf(s.selected, s))
  BY Zenon DEF Select
<1>. HIDE DEF s
<1>4. Fresh(s, view)
  BY <1>1, <1>2 DEF Fresh
<1>. QED
  BY <1>2, <1>3, <1>4, RowsType, LeavesKeeps

(* From the last match the next is the first. *)
LEMMA FindNextOK ==
    ASSUME IInv, FindNext
    PROVE  IInv'
<1>. DEFINE k == (search.selected + 1) % Len(search.matches)
<1>1. search \in Searches /\ search.active /\ search.matches # << >>
  BY Facts DEF FindNext, Finding
<1>2. search.selected \in Nat /\ search.matches \in Seq(Marks)
  BY <1>1 DEF Searches
<1>3. Len(search.matches) \in Nat \ {0}
  BY <1>1, <1>2
<1>4. k \in Nat /\ k < Len(search.matches)
  BY <1>2, <1>3
<1>5. Select([search EXCEPT !.selected = k])
  BY DEF FindNext, Next_
<1>. HIDE DEF k
<1>. QED
  BY <1>1, <1>4, <1>5, SelectOK

(* From the first match the one before is the last. *)
LEMMA FindPreviousOK ==
    ASSUME IInv, FindPrevious
    PROVE  IInv'
<1>. DEFINE k == IF search.selected = 0 THEN Len(search.matches) - 1 ELSE search.selected - 1
<1>1. search \in Searches /\ search.active /\ search.matches # << >> /\ Fresh(search, view)
  BY Facts DEF FindPrevious, Finding
<1>2. search.selected \in Nat /\ search.matches \in Seq(Marks)
  BY <1>1 DEF Searches
<1>3. Len(search.matches) \in Nat \ {0}
  BY <1>1, <1>2
<1>4. k \in Nat
  BY <1>2, <1>3
<1>5. Complete(search.query) => k < Len(search.matches)
  BY <1>1, <1>2, <1>3 DEF Fresh
<1>6. Select([search EXCEPT !.selected = k])
  BY DEF FindPrevious, Previous
<1>. HIDE DEF k
<1>. QED
  BY <1>1, <1>4, <1>5, <1>6, SelectOK

(* Every step keeps the invariant. *)
LEMMA NextOK == IInv /\ [Next]_vars => IInv'
<1>. SUFFICES ASSUME IInv, [Next]_vars
              PROVE  IInv'
  OBVIOUS
<1>1. /\ search \in Searches /\ Fresh(search, view) /\ top \in 0 .. Len(view.lines) - 1
      /\ Len(view.lines) \in Nat \ {0}
  BY Facts
<1>2. CASE Draw
  <2>1. TypeOK'
    BY <1>2 DEF IInv, TypeOK, Draw
  <2>2. Fresh(search', view')
    BY <1>1, <1>2, Zenon DEF Draw
  <2>. QED
    BY <2>1, <2>2, Kept
<1>3. CASE \E dims \in Sizes : Relayout(dims)
  BY <1>3, RelayoutOK
<1>4. CASE Enter
  BY <1>4, EnterOK
<1>5. CASE Cancel
  <2>1. Fresh(NoSearch, view)
    BY NoSearchOK DEF Fresh
  <2>. QED
    BY <1>1, <1>5, <2>1, NoSearchOK, LeavesKeeps DEF Cancel
<1>6. CASE Erase
  BY <1>6, EraseOK
<1>7. CASE \E byte \in Typed : Type(byte)
  BY <1>7, TypeKeepsOK
<1>8. CASE FindNext
  BY <1>8, FindNextOK
<1>9. CASE FindPrevious
  BY <1>9, FindPreviousOK
<1>10. CASE Slash
  <2>. DEFINE s == [NoSearch EXCEPT !.editing = TRUE]
  <2>1. Fresh(s, view)
    BY NoSearchOK DEF Fresh
  <2>. QED
    BY <1>1, <1>10, <2>1, NoSearchOK, LeavesKeeps DEF Slash
<1>11. CASE Down
  <2>1. top + 1 \in 0 .. Len(view.lines) - 1
    <3>1. Limit \in 0 .. Len(view.lines) - 1 /\ top < Limit
      BY <1>11, RowsType DEF Down
    <3>. QED
      BY <1>1, <3>1
  <2>. QED
    BY <1>1, <1>11, <2>1, LeavesKeeps DEF Down
<1>12. CASE Up
  <2>1. top - 1 \in 0 .. Len(view.lines) - 1
    BY <1>1, <1>12 DEF Up
  <2>. QED
    BY <1>1, <1>12, <2>1, LeavesKeeps DEF Up
<1>13. CASE PageDown
  <2>1. DownBy(Content) \in 0 .. Len(view.lines) - 1
    BY RowsType
  <2>. QED
    BY <1>1, <1>13, <2>1, LeavesKeeps DEF PageDown
<1>14. CASE PageUp
  <2>1. UpBy(Content) \in 0 .. Len(view.lines) - 1
    BY RowsType
  <2>. QED
    BY <1>1, <1>14, <2>1, LeavesKeeps DEF PageUp
<1>15. CASE HalfDown
  <2>1. DownBy(Half) \in 0 .. Len(view.lines) - 1
    BY RowsType
  <2>. QED
    BY <1>1, <1>15, <2>1, LeavesKeeps DEF HalfDown
<1>16. CASE HalfUp
  <2>1. UpBy(Half) \in 0 .. Len(view.lines) - 1
    BY RowsType
  <2>. QED
    BY <1>1, <1>16, <2>1, LeavesKeeps DEF HalfUp
<1>17. CASE Home
  <2>1. 0 \in 0 .. Len(view.lines) - 1
    BY <1>1
  <2>. QED
    BY <1>1, <1>17, <2>1, LeavesKeeps DEF Home
<1>18. CASE End
  BY <1>1, <1>18, RowsType, LeavesKeeps DEF End
<1>19. CASE Quit
  <2>1. TypeOK'
    BY <1>19 DEF IInv, TypeOK, Quit
  <2>2. Fresh(search', view')
    BY <1>1, <1>19, Zenon DEF Quit
  <2>. QED
    BY <2>1, <2>2, Kept
<1>20. CASE UNCHANGED vars
  <2>1. TypeOK'
    BY <1>20 DEF IInv, TypeOK, vars
  <2>2. Fresh(search', view')
    BY <1>1, <1>20, Zenon DEF vars
  <2>. QED
    BY <2>1, <2>2, Kept
<1>. QED
  BY <1>2, <1>3, <1>4, <1>5, <1>6, <1>7, <1>8, <1>9, <1>10, <1>11, <1>12, <1>13, <1>14,
     <1>15, <1>16, <1>17, <1>18, <1>19, <1>20 DEF Next

(* The invariant holds of every behaviour of the pager. *)
THEOREM Invariance == Spec => []IInv
  BY InitOK, NextOK, PTL DEF Spec

(* The view is the one of the document and the present width, the top row is *)
(* a row of it, and the search keeps its type: mdf_pager_draw reads no line  *)
(* that the view does not have.                                              *)
THEOREM TypeCorrect == Spec => []TypeOK
<1>1. IInv => TypeOK
  BY DEF IInv
<1>. QED
  BY <1>1, Invariance, PTL

(* What is marked is what the present query finds in the present rows, and   *)
(* one of it is selected.                                                    *)
THEOREM MatchesAlwaysFresh == Spec => []MatchesFresh
<1>1. IInv => MatchesFresh
  BY DEF IInv
<1>. QED
  BY <1>1, Invariance, PTL

-----------------------------------------------------------------------------
(* What is drawn *)

(* Of a search a row shows what was found, while the search is active. *)
LEMMA RowsAlike ==
    \A v, row : \A s, t : s.active = t.active /\ s.matches = t.matches
                          => DrawRow(v, s, row) = DrawRow(v, t, row)
<1>. SUFFICES ASSUME NEW v, NEW row, NEW s, NEW t, s.active = t.active, s.matches = t.matches
              PROVE  DrawRow(v, s, row) = DrawRow(v, t, row)
  OBVIOUS
<1>1. \A start, end : DrawHighlighted(v, s, start, end) = DrawHighlighted(v, t, start, end)
  BY Zenon DEF DrawHighlighted
<1>. QED
  BY <1>1, Zenon DEF DrawRow

(* A byte that leaves the query incomplete changes nothing on the screen. *)
LEMMA PartUnseen ==
    ASSUME IInv, NEW byte \in Typed, Type(byte), ~redraw'
    PROVE  Screen' = Screen
<1>. DEFINE s     == [search EXCEPT !.query = Append(@, byte)]
            found == UpdateLive(s, view)
<1>1. /\ search.editing
      /\ Complete(s.query) => Leaves(found, FirstFound(found))
      /\ ~Complete(s.query) =>
            search' = s /\ UNCHANGED <<input, columns, rows, view, top, redraw, running>>
  BY Zenon DEF Type, Editing
<1>2. ~Complete(s.query)
  BY <1>1, Zenon DEF Leaves
<1>3. search \in Searches
  BY Facts
<1>4. /\ s.query = Append(search.query, byte)
      /\ s.editing = search.editing /\ s.active = search.active /\ s.matches = search.matches
  BY <1>3, TypedSearch
<1>5. search' = s /\ UNCHANGED <<view, top, rows>>
  BY <1>1, <1>2
<1>. HIDE DEF s
<1>6. search.query \in Seq(Chars) /\ byte \in Chars
  BY <1>3 DEF Searches, Chars
<1>7. CompletePrefix(s.query) = CompletePrefix(search.query)
  BY <1>2, <1>4, <1>6, PartsDoNotShow
<1>8. SearchStatus(s) = SearchStatus(search)
  BY <1>1, <1>4, <1>7 DEF SearchStatus
<1>9. \A row : DrawRow(view, s, row) = DrawRow(view, search, row)
  BY <1>4, RowsAlike
<1>10. Screen' = [rows    |-> [r \in 1 .. (rows - 1) |-> DrawRow(view, s, top + r - 1)],
                  percent |-> Percent(view, rows, top),
                  prompt  |-> <<s.editing, SearchStatus(s)>>]
  BY <1>5, Zenon DEF Screen
<1>11. [r \in 1 .. (rows - 1) |-> DrawRow(view, s, top + r - 1)]
         = [r \in 1 .. (rows - 1) |-> DrawRow(view, search, top + r - 1)]
  BY <1>9, Zenon
<1>. QED
  BY <1>4, <1>8, <1>10, <1>11, Zenon DEF Screen

(* A key that leaves something to be drawn says so. *)
LEMMA LeavesRedraws ==
    ASSUME NEW s, NEW row, Leaves(s, row)
    PROVE  redraw'
  BY DEF Leaves

(* Every step that changes the screen has it drawn again. *)
LEMMA NextFollows == IInv /\ [Next]_vars => [~redraw' => Screen' = Screen]_vars
<1>. SUFFICES ASSUME IInv, [Next]_vars, ~redraw'
              PROVE  Screen' = Screen
  OBVIOUS
<1>1. CASE Draw
  BY <1>1 DEF Draw, Screen
<1>2. CASE \E dims \in Sizes : Relayout(dims)
  BY <1>2 DEF Relayout
<1>3. CASE \E byte \in Typed : Type(byte)
  BY <1>3, PartUnseen
<1>4. CASE Quit
  BY <1>4 DEF Quit, Screen
<1>5. CASE UNCHANGED vars
  BY <1>5 DEF vars, Screen
<1>6. CASE Enter \/ Cancel \/ Erase \/ FindNext \/ FindPrevious \/ Slash
  BY <1>6, LeavesRedraws, Zenon DEF Enter, Cancel, Erase, FindNext, FindPrevious, Slash, Select
<1>7. CASE Down \/ Up \/ PageDown \/ PageUp \/ HalfDown \/ HalfUp \/ Home \/ End
  BY <1>7, LeavesRedraws, Zenon
     DEF Down, Up, PageDown, PageUp, HalfDown, HalfUp, Home, End
<1>. QED
  BY <1>1, <1>2, <1>3, <1>4, <1>5, <1>6, <1>7 DEF Next

(* No change of the screen waits for the next key: every step after which    *)
(* the loop goes on to read without drawing leaves the rows, the position    *)
(* and the prompt as they are.                                               *)
THEOREM DisplayAlwaysFollows == Spec => DisplayFollows
<1>1. IInv /\ [Next]_vars => [~redraw' => Screen' = Screen]_vars
  BY NextFollows
<1>. QED
  BY <1>1, Invariance, PTL DEF Spec, DisplayFollows

=============================================================================
