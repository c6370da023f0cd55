------------------------------- MODULE Device -------------------------------
(***************************************************************************)
(* The part of the Concordium Ledger app that every instruction shares:    *)
(* the command dispatcher concordium_main (src/src/common/mainHelpers.c),  *)
(* the functions that answer a command (src/src/common/util.c), and the    *)
(* idle menu (src/src/common/menu.c).  Instruction modules extend this one *)
(* and build the steps of their handlers and buttons from its fragments;   *)
(* each fragment says what becomes of all four variables below.            *)
(*                                                                         *)
(* Two parts are Ledger's SDK, which is not in the repository; they are    *)
(* modelled from how the code uses them, and marked external in the map:   *)
(*   - io_exchange lets the host send a command only when the one before   *)
(*     has been answered, and refuses an answer nobody waits for by        *)
(*     raising an exception concordium_main does not know, which resets;   *)
(*   - pressing both buttons runs a step's callback as a flow of its own,  *)
(*     so a callback that starts no flow leaves the display frozen until   *)
(*     some handler starts one; KeepsStep says whether the engine may keep *)
(*     the pressed step alive instead.                                     *)
(***************************************************************************)
EXTENDS Naturals

CONSTANTS
  None,                \* no instruction in progress: currentInstruction = -1
  KeepsStep            \* whether a validated step may stay alive: a set of BOOLEANs

ASSUME DeviceAssumption == KeepsStep \subseteq BOOLEAN

VARIABLES
  currentInstruction,  \* tx_state->currentInstruction
  owed,                \* a command has been received and not answered yet
  screen,              \* the UX flow on display
  reply                \* the last frame sent to the host

deviceVars == <<currentInstruction, owed, screen, reply>>

Success   == [kind |-> "success"]
Refusal   == [kind |-> "error"]      \* one of the listed ERROR_ status words
Rejection == [kind |-> "rejected"]   \* ERROR_REJECTED_BY_USER from a button
NoReply   == [kind |-> "none"]

\* The state after main() has run ui_idle() and entered concordium_main.
DeviceInit ==
  /\ currentInstruction = None
  /\ owed = FALSE
  /\ screen = "idle"
  /\ reply = NoReply

(***************************************************************************)
(* Dispatching a command.                                                  *)
(***************************************************************************)

\* The host sends a command of instruction i, and concordium_main calls the
\* handler: nothing is in progress, or i is.
Accepts(i) ==
  /\ ~owed
  /\ currentInstruction \in {None, i}

isInitialCall == currentInstruction = None

\* The handler answers with sendSuccessNoIdle() and returns.
AnswerNow(i) ==
  /\ currentInstruction' = i
  /\ owed' = FALSE
  /\ reply' = Success
  /\ UNCHANGED screen

\* The handler starts a flow and returns with IO_ASYNCH_REPLY.
Ask(i, flow) ==
  /\ currentInstruction' = i
  /\ owed' = TRUE
  /\ screen' = flow
  /\ UNCHANGED reply

\* The handler, or the dispatcher, throws one of the errors CATCH_OTHER lists:
\* the status word goes out with the next io_exchange, the display stays.
Refuse ==
  /\ currentInstruction' = None
  /\ owed' = FALSE
  /\ reply' = Refusal
  /\ UNCHANGED screen

\* A command whose INS is not the one in progress.
SwitchInstruction(i) ==
  /\ ~owed
  /\ currentInstruction \notin {None, i}
  /\ Refuse

\* An empty or foreign-class command, or an INS the handler's switch rejects.
BadCommand ==
  /\ ~owed
  /\ Refuse

(***************************************************************************)
(* Button callbacks, run from inside io_exchange.                          *)
(***************************************************************************)

\* The callback ends in ui_idle(), called directly.
uiIdle ==
  /\ currentInstruction' = None
  /\ screen' = "idle"

\* sendSuccess(tx) and sendUserRejection(): answer, then ui_idle().
PressAnswer(r) ==
  /\ owed
  /\ owed' = FALSE
  /\ reply' = r
  /\ uiIdle

\* The callback starts no flow of its own.
LeaveScreen == \E keeps \in KeepsStep : screen' = IF keeps THEN screen ELSE "frozen"

\* sendSuccessNoIdle(): answer and wait for the next command of the instruction.
PressContinue ==
  /\ owed
  /\ owed' = FALSE
  /\ reply' = Success
  /\ LeaveScreen
  /\ UNCHANGED currentInstruction

\* Mutant of PressThrow: the error does not end the instruction.
PressThrowKeeps ==
  /\ owed
  /\ UNCHANGED currentInstruction
  /\ LeaveScreen
  /\ \/ UNCHANGED <<owed, reply>>
     \/ owed' = FALSE /\ reply' = Refusal

\* The callback throws a listed error.  The status word is queued for the next
\* io_exchange, which still runs with IO_ASYNCH_REPLY in flags, as flags is
\* cleared only after a normal return: the word may never be transmitted.
PressThrow ==
  /\ owed
  /\ currentInstruction' = None
  /\ LeaveScreen
  /\ \/ UNCHANGED <<owed, reply>>
     \/ owed' = FALSE /\ reply' = Refusal

\* The app starts afresh: Quit in the idle menu, a reset by the default case of
\* the dispatcher's CATCH_OTHER, an answer io_exchange refuses, or USB power
\* gone: io_event throws EXCEPTION_IO_RESET from inside io_exchange, and the
\* default case catches that too, before main() could.
DeviceRestart ==
  /\ uiIdle
  /\ owed' = FALSE
  /\ reply' = NoReply
=============================================================================
