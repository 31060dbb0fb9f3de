---------------------------- MODULE CommandLine ----------------------------
(***************************************************************************)
(* The pending task of the command line, Terminal/CommandLine.c.  A        *)
(* timeout command leaves a task behind, which ends by itself, by its      *)
(* timeout, or by a change of the slot or the configuration.  While it is  *)
(* pending the command line takes no command; the buttons always do.       *)
(***************************************************************************)
VARIABLE task   \* the task and the callback that is to end it early

Task == [pending : BOOLEAN,    \* TaskPending
         callback : BOOLEAN]   \* CommandLinePendingTaskTimeout is set

TaskInit == task = [pending |-> FALSE, callback |-> FALSE]

(* A timeout command has returned.  SEND and SEND_RAW set no callback: the *)
(* one of an earlier command that finished is still there.                 *)
Begin(t, callback) == [pending |-> TRUE, callback |-> callback \/ t.callback]

(* Is the callback called by a break or a timeout? *)
CallsBack(t) == t.pending /\ t.callback

(* The callback is forgotten when it is called, and only then. *)
PendingTaskBreakSlip(t) == t
PendingTaskBreak(t) == IF t.pending THEN [pending |-> FALSE, callback |-> FALSE] ELSE t

PendingTaskFinished(t) == [t EXCEPT !.pending = FALSE]
=============================================================================
