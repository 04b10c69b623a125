---------------------------- MODULE AsyncLoggerMC ----------------------------
(***************************************************************************)
(* The programs and the days with which AsyncLogger is model-checked: the   *)
(* ends of February and of March in a leap year.                            *)
(***************************************************************************)
EXTENDS AsyncLogger

CONSTANTS l1, l2, w1, w2

Month(year, month) == 12 * year + month - 1

Date(year, month, day) == MonthStart[Month(year, month)] + day - 1

June2023  == Month(2023, 6)
May2024   == Month(2024, 5)

LastOfFebruary == Date(2024, 2, 29)
FirstOfMarch   == Date(2024, 3, 1)
LastOfMarch    == Date(2024, 3, 31)
FirstOfApril   == Date(2024, 4, 1)

(* What the queue does: which threads, which policy. *)
Queueing ==
    [loggers |-> {l1, l2}, workers |-> {w1}, queue_size |-> 1, policy |-> "block",
     kinds |-> {"log", "flush"}, calls |-> 3, days |-> {LastOfFebruary},
     truncate |-> FALSE, max_files |-> 0, periodical |-> FALSE,
     existing |-> {}, failures |-> 0, restarts |-> 0]

Overrunning == [Queueing EXCEPT !.policy = "overrun_oldest", !.queue_size = 2]
TwoWorkers  == [Queueing EXCEPT !.workers = {w1, w2}, !.kinds = {"log"}]

(* What the sink does: one thread logs, or two that may be late and may find *)
(* the file that did not open.                                              *)
Sinking ==
    [Queueing EXCEPT !.loggers = {l1}, !.queue_size = 2, !.kinds = {"log"}, !.truncate = TRUE,
                     !.days = {LastOfFebruary, FirstOfMarch, LastOfMarch, FirstOfApril},
                     !.existing = {Month(2024, 1), Month(2024, 2)}]

Late       == [Sinking EXCEPT !.loggers = {l1, l2}, !.calls = 2, !.failures = 1]
OneFile    == [Sinking EXCEPT !.max_files = 1, !.restarts = 1, !.calls = 2]
TwoFiles   == [Sinking EXCEPT !.max_files = 2, !.truncate = FALSE]
Failing    == [Sinking EXCEPT !.failures = 1]
Periodical == [Sinking EXCEPT !.periodical = TRUE, !.restarts = 1, !.calls = 2,
                              !.existing = Month(2023, 7)..Month(2024, 1)]

Programs == {Queueing, Overrunning, TwoWorkers, Late, OneFile, TwoFiles, Failing, Periodical}

JustTwoFiles == {TwoFiles}
=============================================================================
