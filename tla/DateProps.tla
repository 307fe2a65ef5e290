------------------------------ MODULE DateProps ------------------------------
(***************************************************************************)
(* What the dates of Date promise: a date is read as what it was written   *)
(* for.                                                                    *)
(***************************************************************************)
EXTENDS Date

Local == GmTime(AddZone(asked.time, asked.zone))
Year == Local.year + 1900

\* A date in numbers that is later than ten days from now
InNumbers ==
  \E i \in DOMAIN asked.text :
    asked.text[i].kind = "numbers" /\ asked.text[i].sep \in {"-", "/", "."}
Ahead == InNumbers /\ Later(AddZone(asked.time, asked.zone), InTenDays)

\* The guard against these compares with the time of day that was read
\* before.  Behind its time of day such a date is refused in one order and
\* taken in the next; when all are refused, its numbers are looked at one by
\* one, without the guard.  Both take the day for the month.
BehindClock ==
  \E i, j \in DOMAIN asked.text :
    /\ i < j
    /\ asked.text[i].kind = "numbers" /\ asked.text[i].sep = ":"
    /\ asked.text[j].kind = "numbers" /\ asked.text[j].sep \in {"-", "/", "."}
Exchanged ==
  /\ Ahead /\ BehindClock
  /\ GmTime(AddZone(stamp, asked.zone)) =
       [Local EXCEPT !.mon = Local.mday - 1, !.mday = Local.mon + 1]

\* Minute -1 stands for "no zone", so that is what -0001 means.
Unspoken == asked.zone = -1

\* A text without time of day is refused, as is a number of seconds with
\* less than nine digits; two digits stand for the years up to 2037 behind
\* separators, and up to 2009 behind the name of a month.
Understood ==
  /\ Year \in 1970..2099
  /\ asked.time # <<0, 0>>
  /\ CASE asked.style = "short"  -> FALSE
       [] asked.style = "raw"    -> ~Later(<<1666666, 40>>, asked.time)
       [] asked.style = "dotted" -> Year \in (1971..1999) \cup (2000..2037)
       [] asked.style = "named"  -> Year \in 1970..2009
       [] OTHER                  -> TRUE

(***************************************************************************)
(* Whatever the order of its parts, a date as show_date or a user writes   *)
(* it (parse_date_basic, date.c:599) is read as the time and the zone it   *)
(* was written for, or refused; it is refused only for want of a part, or  *)
(* because it is later than ten days from now.  One date is read as        *)
(* another: a later one behind its time of day may be read with day and    *)
(* month exchanged.                                                        *)
(***************************************************************************)
DatesReadBack ==
  ~Unspoken =>
    /\ outcome = "given" =>
         /\ stamp = asked.time \/ Exchanged
         /\ offset = ZoneMinutes(asked.zone)
    /\ outcome = "refused" => ~Understood \/ Ahead
    /\ outcome = "now" => asked.time = <<0, 0>>

(***************************************************************************)
(* "It does not make sense to specify timestamp way into the future.  Make *)
(* sure it is not later than ten days from now" (is_date): a date read     *)
(* from numbers is not.  This fails: as long as no time of day was read,   *)
(* the date is compared as the time -1, which is what tm_to_time_t returns *)
(* for want of it.                                                         *)
(***************************************************************************)
NotAhead ==
  outcome = "given" /\ InNumbers => ~Later(TmToTime(tm), InTenDays)
=============================================================================
