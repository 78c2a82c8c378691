--------------------------- MODULE AsyncDebouncer ---------------------------
(***************************************************************************)
(* The debouncer that AsyncHassHandler and AsyncFileSave inherit           *)
(* (src/src/Callback/AsyncDebouncer.cxx): a flag, the token of the last    *)
(* delayed task it handed to the live555 scheduler, and, on the            *)
(* scheduler's side, the set of its tasks that have not run yet.           *)
(*                                                                         *)
(* The operators are functions of a debouncer record, so that a client     *)
(* keeps one record per object.                                            *)
(***************************************************************************)
EXTENDS Integers

\* Tokens of delayed tasks. The debouncer remembers one and a task may be
\* pending under another, so three are enough for a fresh one to exist.
TaskTokens == 1..3

\* The value a TaskToken has before the first task is scheduled (nullptr).
NullToken == 0

Debouncer == [updateAllowed : BOOLEAN,
              taskToken     : TaskTokens \cup {NullToken},
              scheduled     : SUBSET TaskTokens]

NewDebouncer ==
    [updateAllowed |-> TRUE, taskToken |-> NullToken, scheduled |-> {}]

\* The token the scheduler gives to a new task: none that is still in its
\* queue or in the debouncer's memory.
FreshToken(d) == CHOOSE t \in TaskTokens : t \notin d.scheduled \cup {d.taskToken}

\* TaskScheduler::unscheduleDelayedTask: removes the task if it has not run.
Unschedule(d) == [d EXCEPT !.scheduled = @ \ {d.taskToken}]

\* taskToken_ = pSched_->scheduleDelayedTask(...)
Schedule(d) ==
    [updateAllowed |-> d.updateAllowed,
     taskToken     |-> FreshToken(d),
     scheduled     |-> d.scheduled \cup {FreshToken(d)}]

\* The first half of Debounce: a delay that is not positive cancels the
\* running window and forgets that there was one.
Reset(d) ==
    [(IF d.updateAllowed THEN d ELSE Unschedule(d))
        EXCEPT !.updateAllowed = TRUE]

\* MUTANT: the flag is left up when a window opens.
DebounceKeepingAllowed(d, delay) ==
    LET dr == IF delay <= 0 THEN Reset(d) ELSE d
    IN  IF dr.updateAllowed THEN Schedule(dr) ELSE Schedule(Unschedule(dr))

\* Debounce(delay): open a window, or move the end of the one that is open.
Debounce(d, delay) ==
    LET dr == IF delay <= 0 THEN Reset(d) ELSE d
    IN  IF dr.updateAllowed
        THEN [Schedule(dr) EXCEPT !.updateAllowed = FALSE]
        ELSE Schedule(Unschedule(dr))

\* The scheduler runs the task `token' and so removes it from its queue.
DebounceUpdateProc(d, token) ==
    [d EXCEPT !.scheduled = @ \ {token}, !.updateAllowed = TRUE]

\* A window is open exactly while one task is pending, and that task is the
\* one the debouncer would cancel or move.
OneTaskPerWindow(d) ==
    d.scheduled = IF d.updateAllowed THEN {} ELSE {d.taskToken}

=============================================================================
