------------------------------ MODULE FileSink ------------------------------
(***************************************************************************)
(* spdlog/sinks/monthly_file_sink.h and periodical_file_sink.h: one file    *)
(* per month, a new one when a message is stamped at rotation_tp_ or later, *)
(* and the deletion of old ones.  Both classes are the same code; the       *)
(* periodical one also deletes the file of seven months ago.                *)
(*                                                                         *)
(* Time is a number of days: every point in time the sinks compute is a     *)
(* midnight or a message's own, and they look at no more than its month.    *)
(* A month is 12 * year + (month - 1).  There is no daylight saving time.   *)
(***************************************************************************)
EXTENDS CircularQueue, FiniteSets

CONSTANTS FirstMonth,   \* the calendar of the model begins with this month
          LastMonth     \* and ends with this one

(* The year 3200 is a leap year, but not to the sinks.                      *)
ASSUME FileSinkAssumption ==
    FirstMonth \in Nat /\ LastMonth \in Nat /\ FirstMonth + 7 < LastMonth /\ LastMonth < 12 * 3200

Months == FirstMonth..LastMonth

-----------------------------------------------------------------------------
(* The calendar: localtime and mktime *)

Gregorian(year) == year % 4 = 0 /\ (year % 100 # 0 \/ year % 400 = 0)

MonthLength(month) ==
    CASE month % 12 \in {3, 5, 8, 10} -> 30
      [] month % 12 = 1               -> IF Gregorian(month \div 12) THEN 29 ELSE 28
      [] OTHER                        -> 31

(* The days before the month in its year, and before the year.              *)
InYear(month) ==
    <<0, 31, 59, 90, 120, 151, 181, 212, 243, 273, 304, 334>>[(month % 12) + 1]
      + IF month % 12 >= 2 /\ Gregorian(month \div 12) THEN 1 ELSE 0

BeforeYear(year) == 365 * year + (year + 3) \div 4 - (year + 99) \div 100 + (year + 399) \div 400

DaysBefore(month) == BeforeYear(month \div 12) + InYear(month)

MonthStart == [m \in FirstMonth..(LastMonth + 1) |-> DaysBefore(m) - DaysBefore(FirstMonth)]

MonthOf(t) == CHOOSE m \in Months : MonthStart[m] <= t /\ t < MonthStart[m + 1]

DayOf(t) == t - MonthStart[MonthOf(t)] + 1

-----------------------------------------------------------------------------
(* next_rotation_tp_ *)

Leap(year) ==
    \/ year % 4 = 0 /\ year % 100 # 0
    \/ year % 400 = 0 /\ year % 3200 # 0
    \/ year % 172800 = 0

(* mutant: every February is short *)
Days_NoLeap(month) ==
    CASE month % 12 \in {0, 2, 4, 6, 7, 9, 11} -> 31
      [] month % 12 \in {3, 5, 8, 10}          -> 30
      [] OTHER                                 -> 28

(* the switch on the_month *)
Days(month) ==
    CASE month % 12 \in {0, 2, 4, 6, 7, 9, 11} -> 31
      [] month % 12 \in {3, 5, 8, 10}          -> 30
      [] OTHER                                 -> IF Leap(month \div 12) THEN 29 ELSE 28

(* mutant: the following month is skipped *)
next_rotation_tp_Late(now) ==
    MonthStart[MonthOf(now)] + Days(MonthOf(now)) + Days(MonthOf(now) + 1)

(* The first day of the month is never later than now. *)
next_rotation_tp(now) == MonthStart[MonthOf(now)] + Days(MonthOf(now))

(* mutant: the length of the current month is taken *)
back_a_month_Current ==
    [t \in 0..MonthStart[LastMonth] |-> t - Days(MonthOf(t))]

(* A day of the month before: back by the length of that month. *)
back_a_month == [t \in 0..MonthStart[LastMonth] |-> t - Days(MonthOf(t) - 1)]

(* Seven times. *)
before_7_month(t) ==
    LET back[k \in 0..7] == IF k = 0 THEN t ELSE back_a_month[back[k - 1]]
    IN  back[7]

-----------------------------------------------------------------------------
(* The directory: a function from the months whose file exists to what is   *)
(* in the file.                                                             *)

(* file_helper::open *)
Opened(files, name, truncate) ==
    [m \in DOMAIN files \cup {name} |->
        IF m \in DOMAIN files /\ ~(truncate /\ m = name) THEN files[m] ELSE {}]

Removed(files, name) == [m \in DOMAIN files \ {name} |-> files[m]]

Written(files, name, id) ==
    IF name \in DOMAIN files THEN [files EXCEPT ![name] = @ \cup {id}] ELSE files

-----------------------------------------------------------------------------
(* init_filenames_q_: back by a day for each name, while the file exists.   *)
init_filenames_q(files, maxFiles, now) ==
    LET exist == CHOOSE k \in 0..maxFiles :
                   /\ \A i \in 0..(k - 1) : MonthOf(now - i) \in DOMAIN files
                   /\ k = maxFiles \/ MonthOf(now - k) \notin DOMAIN files
        Push[k \in 0..exist] ==
            IF k = 0 THEN circular_q(maxFiles)
                     ELSE push_back(Push[k - 1], MonthOf(now - (exist - k)))
    IN  Push[exist]

(* mutant: the oldest name leaves the queue, but the file stays *)
delete_old_Keeps(files, names, current) ==
    [files |-> files,
     names |-> push_back(IF full(names) THEN pop_front(names) ELSE names, current)]

(* mutant: the current file enters the queue before the oldest leaves it *)
delete_old_PushFirst(files, names, current) ==
    LET pushed == push_back(names, current)
    IN  [files |-> IF full(names) THEN Removed(files, front(pushed)) ELSE files, names |-> pushed]

(* mutant: the file before this one is deleted *)
delete_old_Newest(files, names, current) ==
    IF full(names)
    THEN [files |-> Removed(files, Items(names)[size(names)]),
          names |-> push_back(pop_front(names), current)]
    ELSE [files |-> files, names |-> push_back(names, current)]

(* Delete the file max_files rotations ago. *)
delete_old(files, names, current) ==
    IF full(names)
    THEN [files |-> Removed(files, front(names)), names |-> push_back(pop_front(names), current)]
    ELSE [files |-> files, names |-> push_back(names, current)]
=============================================================================
