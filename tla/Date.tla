-------------------------------- MODULE Date --------------------------------
(***************************************************************************)
(* The date of a signature.  Without an identity in the configuration, the *)
(* author's and the committer's date are read from the environment by      *)
(* parse_date_basic, which guesses token by token what each word and each  *)
(* number may be.  A time is a pair <<minutes, seconds>> since 1970.       *)
(***************************************************************************)
EXTENDS Integers, Sequences

CONSTANTS
  Dates,      \* what the environment may say: text, style, time and zone
  Now,        \* the time of day
  LocalZone   \* minutes between the local zone and UTC

VARIABLES
  asked,      \* what the environment says: the text, and what it was written for
  rest,       \* the tokens to be read
  tm,         \* the fields found, -1 where there is none
  offset,     \* the zone in minutes; -1 stands for none
  gmt,        \* whether the text was a number of seconds
  stamp,      \* the time read
  outcome     \* "starting", "reading", or how the signature came about

dateVars == <<asked, rest, tm, offset, gmt, stamp, outcome>>

Unset == [year |-> -1, mon |-> -1, mday |-> -1, hour |-> -1, min |-> -1, sec |-> -1]

-----------------------------------------------------------------------------
(***************************************************************************)
(* The calendar.  Failed is the time -1, one second before 1970.           *)
(***************************************************************************)
Failed == <<-1, 59>>
MonthStarts == <<0, 31, 59, 90, 120, 151, 181, 212, 243, 273, 304, 334>>

\* Faulty: leap years begin with the leap day.
DaysLeapFirst(year, mon, mday) ==
  LET day == IF (year - 70 + 2) % 4 # 0 THEN mday - 1 ELSE mday
  IN  (year - 70) * 365 + (year - 70 + 1) \div 4 + MonthStarts[mon + 1] + day

Days(year, mon, mday) ==
  LET day == IF mon < 2 \/ (year - 70 + 2) % 4 # 0 THEN mday - 1 ELSE mday
  IN  (year - 70) * 365 + (year - 70 + 1) \div 4 + MonthStarts[mon + 1] + day

TmToTime(t) ==
  IF \/ t.year \notin 70..199 \/ t.mon \notin 0..11
     \/ t.hour < 0 \/ t.min < 0 \/ t.sec < 0
    THEN Failed
    ELSE <<(Days(t.year, t.mon, t.mday) * 24 + t.hour) * 60 + t.min + t.sec \div 60,
           t.sec % 60>>

Later(s, t) == s[1] > t[1] \/ (s[1] = t[1] /\ s[2] > t[2])

\* gmtime, from the last year before 1970 up to 2100
GmTime(t) ==
  LET days == t[1] \div 1440
      y == CHOOSE n \in 69..200 : Days(n, 0, 1) <= days /\ days < Days(n + 1, 0, 1)
      m == CHOOSE n \in 0..11 : /\ Days(y, n, 1) <= days
                                /\ n < 11 => days < Days(y, n + 1, 1)
  IN  [year |-> y, mon |-> m, mday |-> days - Days(y, m, 1) + 1,
       hour |-> (t[1] \div 60) % 24, min |-> t[1] % 60, sec |-> t[2]]

-----------------------------------------------------------------------------
(***************************************************************************)
(* Tokens: words by what they may mean; numbers, each with how many digits *)
(* it was written with, up to the first character that separates no        *)
(* number; numbers with a sign; numbers of seconds of 8 digits or more.    *)
(***************************************************************************)
Word(kind, v) == [kind |-> kind, value |-> v]
N(v, n) == [value |-> v, digits |-> n]
Numbers(sep, ns) == [kind |-> "numbers", sep |-> sep, parts |-> ns]
Number(v, n) == Numbers(" ", <<N(v, n)>>)
Signed(sign, n) == [kind |-> "signed", sign |-> sign, number |-> n]
Seconds(t) == [kind |-> "seconds", time |-> t]

\* What is left to be read when the numbers before ns are taken
Leftover(sep, ns) ==
  IF sep = "-" THEN [i \in DOMAIN ns |-> Signed(-1, ns[i])]
  ELSE IF ns = <<>> THEN <<>> ELSE <<Numbers(sep, ns)>>

(***************************************************************************)
(* show_date: how a time and a zone (in hours and minutes, as in 130 for   *)
(* an hour and a half) are written.  "relative" is not for reading.        *)
(***************************************************************************)
ZoneMinutes(z) ==
  LET m == (IF z < 0 THEN -z ELSE z)  minutes == 60 * (m \div 100) + (m % 100)
  IN  IF z < 0 THEN -minutes ELSE minutes
ZoneNumber(z) ==
  LET m == (IF z < 0 THEN -z ELSE z)  number == 100 * (m \div 60) + (m % 60)
  IN  IF z < 0 THEN -number ELSE number
AddZone(t, z) == <<t[1] + ZoneMinutes(z), t[2]>>

Show(t, z, style) ==
  LET f == GmTime(AddZone(t, z))
      year == N(f.year + 1900, 4)
      day == Number(f.mday, IF f.mday < 10 THEN 1 ELSE 2)
      date == Numbers("-", <<year, N(f.mon + 1, 2), N(f.mday, 2)>>)
      clock == Numbers(":", <<N(f.hour, 2), N(f.min, 2), N(f.sec, 2)>>)
      zone == Signed(IF z < 0 THEN -1 ELSE 1, N(IF z < 0 THEN -z ELSE z, 4))
      weekday == Word("weekday", (t[1] \div 1440 + 4) % 7)
      month == Word("month", f.mon)
  IN  CASE style = "raw"     -> <<Seconds(t), zone>>
        [] style = "short"   -> <<date>>
        [] style = "iso8601" -> <<date, clock, zone>>
        [] style = "rfc2822" -> <<weekday, day, month, Numbers(" ", <<year>>), clock, zone>>
        [] style = "normal"  -> <<weekday, month, day, clock, Numbers(" ", <<year>>), zone>>
        [] style = "local"   -> <<weekday, month, day, clock, Numbers(" ", <<year>>)>>

-----------------------------------------------------------------------------
DateInit ==
  /\ asked \in Dates
  /\ rest = asked.text
  /\ tm = Unset
  /\ offset = -1
  /\ gmt = FALSE
  /\ stamp = <<0, 0>>
  /\ outcome = "starting"

\* git_signature_default takes the configuration; an error but "not found" ends
\* it.  An environment without a date is the time of day, too ("default").
DefaultSignature ==
  /\ outcome = "starting"
  /\ outcome' \in {"default", "error", "reading"}
  /\ UNCHANGED <<asked, rest, tm, offset, gmt, stamp>>

Reading(kinds) == outcome = "reading" /\ rest # <<>> /\ rest[1].kind \in kinds
Pass == rest' = Tail(rest)

MonthName ==
  /\ Reading({"month"}) /\ Pass
  /\ tm' = [tm EXCEPT !.mon = rest[1].value]
  /\ UNCHANGED <<asked, offset, gmt, stamp, outcome>>

\* The weekday, and words that are none of these
OtherWord ==
  /\ Reading({"weekday", "other"}) /\ Pass
  /\ UNCHANGED <<asked, tm, offset, gmt, stamp, outcome>>

\* A name counts only as long as there is nothing better.
ZoneName ==
  /\ Reading({"zone"}) /\ Pass
  /\ offset' = IF offset = -1 THEN 60 * rest[1].value ELSE offset
  /\ UNCHANGED <<asked, tm, gmt, stamp, outcome>>

\* AM is 0, PM is 12; the remainder of -1 is -1.
HalfDay ==
  /\ Reading({"half"}) /\ Pass
  /\ tm' = [tm EXCEPT !.hour = (IF @ < 0 THEN @ ELSE @ % 12) + rest[1].value]
  /\ UNCHANGED <<asked, offset, gmt, stamp, outcome>>

\* At least three digits and a valid minute
Zone ==
  /\ Reading({"signed"}) /\ Pass
  /\ LET n == rest[1].number IN
       offset' = IF n.value % 100 < 60 /\ n.digits > 2
                   THEN rest[1].sign * ZoneMinutes(n.value) ELSE offset
  /\ UNCHANGED <<asked, tm, gmt, stamp, outcome>>

\* Nine digits are a time as long as nothing else was found.
SecondsSince ==
  /\ Reading({"seconds"}) /\ Pass
  /\ IF /\ ~Later(<<1666666, 40>>, rest[1].time)
        /\ \A f \in DOMAIN tm : tm[f] < 0
       THEN tm' = GmTime(rest[1].time) /\ gmt' = TRUE
       ELSE UNCHANGED <<tm, gmt>>
  /\ UNCHANGED <<asked, offset, stamp, outcome>>

-----------------------------------------------------------------------------
(***************************************************************************)
(* Two or three numbers with the same separator: a time of day, or a date. *)
(***************************************************************************)
Third(ns) == IF Len(ns) > 2 THEN ns[3].value ELSE -1

IsClock(ns) ==
  ns[1].value < 25 /\ ns[2].value < 60 /\ Third(ns) <= 60
Clock(ns) ==
  [tm EXCEPT !.hour = ns[1].value, !.min = ns[2].value,
             !.sec = IF Third(ns) < 0 THEN 0 ELSE Third(ns)]

\* The year as gmtime counts it; 0 if it is none
YearOf(y) ==
  IF y = -1 THEN GmTime(Now).year
  ELSE IF y \in 1970..2099 THEN y - 1900
  ELSE IF y \in 71..99 THEN y
  ELSE IF y < 38 THEN y + 100 ELSE 0

InTenDays == <<Now[1] + 10 * 24 * 60, Now[2]>>
IsDate(d) ==
  /\ d.month \in 1..12 /\ d.day \in 1..31
  /\ YearOf(d.year) # 0
  /\ ~Later(TmToTime([tm EXCEPT !.year = YearOf(d.year), !.mon = d.month - 1,
                                !.mday = d.day]), InTenDays)

\* Faulty: the point is a separator as any other.
OrdersUnpointed(sep, ns) ==
  LET a == ns[1].value  b == ns[2].value  c == Third(ns)
      D(y, m, d) == [year |-> y, month |-> m, day |-> d]
  IN  (IF a > 70 THEN <<D(a, b, c), D(a, c, b)>> ELSE <<>>)
      \o <<D(c, a, b), D(c, b, a)>>

\* The orders a date may be written in, the likeliest first
Orders(sep, ns) ==
  LET a == ns[1].value  b == ns[2].value  c == Third(ns)
      D(y, m, d) == [year |-> y, month |-> m, day |-> d]
  IN  (IF a > 70 THEN <<D(a, b, c), D(a, c, b)>> ELSE <<>>)
      \o (IF sep = "." THEN <<D(c, b, a), D(c, a, b)>> ELSE <<D(c, a, b), D(c, b, a)>>)

Possible(sep, ns) == SelectSeq(Orders(sep, ns), IsDate)

WithDate(d) ==
  [tm EXCEPT !.year = IF d.year = -1 THEN @ ELSE YearOf(d.year),
             !.mon = d.month - 1, !.mday = d.day]

Matches(sep, ns) ==
  Len(ns) > 1 /\ IF sep = ":" THEN IsClock(ns) ELSE Possible(sep, ns) # <<>>

MultiNumber ==
  /\ Reading({"numbers"})
  /\ LET sep == rest[1].sep
         ns == rest[1].parts
     IN  /\ Matches(sep, ns)
         /\ tm' = IF sep = ":" THEN Clock(ns) ELSE WithDate(Possible(sep, ns)[1])
         /\ rest' = Leftover(sep, SubSeq(ns, 4, Len(ns))) \o Tail(rest)
  /\ UNCHANGED <<asked, offset, gmt, stamp, outcome>>

(***************************************************************************)
(* A number by itself: four digits are a zone or a year, one or two what   *)
(* is still missing: the day, the year, the month.                         *)
(***************************************************************************)
FourDigits(n) ==
  IF n <= 1400 /\ offset = -1
    THEN offset' = ZoneMinutes(n) /\ UNCHANGED tm
    ELSE /\ tm' = IF n \in 1901..2099 THEN [tm EXCEPT !.year = n - 1900] ELSE tm
         /\ UNCHANGED offset

TwoDigitYear(n) == n.digits = 2 /\ tm.year < 0
Guess(n) ==
  LET v == n.value IN
  IF v \in 1..31 /\ tm.mday < 0 THEN [tm EXCEPT !.mday = v]
  ELSE IF TwoDigitYear(n) /\ v < 10 /\ tm.mday >= 0 THEN [tm EXCEPT !.year = v + 100]
  ELSE IF TwoDigitYear(n) /\ v >= 70 THEN [tm EXCEPT !.year = v]
  ELSE IF v \in 1..12 /\ tm.mon < 0 THEN [tm EXCEPT !.mon = v - 1]
  ELSE tm

SingleNumber ==
  /\ Reading({"numbers"})
  /\ LET sep == rest[1].sep
         ns == rest[1].parts
         n == ns[1]
     IN  /\ ~Matches(sep, ns)
         /\ IF n.digits = 4 THEN FourDigits(n.value)
            ELSE /\ tm' = IF n.digits > 2 THEN tm ELSE Guess(n)
                 /\ UNCHANGED offset
         /\ rest' = Leftover(sep, Tail(ns)) \o Tail(rest)
  /\ UNCHANGED <<asked, gmt, stamp, outcome>>

-----------------------------------------------------------------------------
(***************************************************************************)
(* The end of the text.  Without a zone the local one counts, and a number *)
(* of seconds needs none.                                                  *)
(***************************************************************************)
ParsedZone == IF offset = -1 THEN LocalZone ELSE offset
ParsedTime ==
  LET t == TmToTime(tm) IN IF gmt THEN t ELSE <<t[1] - ParsedZone, t[2]>>

\* The time 0 is taken for no time at all.
Signature ==
  /\ outcome = "reading" /\ rest = <<>>
  /\ offset' = ParsedZone
  /\ IF TmToTime(tm) = Failed THEN outcome' = "refused" /\ UNCHANGED stamp
     ELSE /\ stamp' = ParsedTime
          /\ outcome' = IF ParsedTime = <<0, 0>> THEN "now" ELSE "given"
  /\ UNCHANGED <<asked, rest, tm, gmt>>

DateNext ==
  \/ DefaultSignature \/ MonthName \/ OtherWord \/ ZoneName \/ HalfDay
  \/ Zone \/ SecondsSince \/ MultiNumber \/ SingleNumber \/ Signature

DateSpec == DateInit /\ [][DateNext]_dateVars
=============================================================================
