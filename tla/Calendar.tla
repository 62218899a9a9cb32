------------------------------ MODULE Calendar ------------------------------
(***************************************************************************)
(* The Gregorian calendar, a day at a time from 1970-01-01: what the       *)
(* timestamps of /api/tags, /api/generate and /api/chat have to follow.    *)
(***************************************************************************)
EXTENDS Naturals

VARIABLE date

Date(y, m, d) == [year |-> y, month |-> m, day |-> d]

IsLeap(y) == y % 4 = 0 /\ (y % 100 # 0 \/ y % 400 = 0)

DaysIn(y, m) ==
  IF m \in {4, 6, 9, 11} THEN 30
  ELSE IF m # 2 THEN 31
  ELSE IF IsLeap(y) THEN 29 ELSE 28

NextDay(d) ==
  IF d.day < DaysIn(d.year, d.month) THEN [d EXCEPT !.day = @ + 1]
  ELSE IF d.month < 12 THEN Date(d.year, d.month + 1, 1)
  ELSE Date(d.year + 1, 1, 1)

Init == date = Date(1970, 1, 1)
Next == date' = NextDay(date)
Spec == Init /\ [][Next]_date
=============================================================================
