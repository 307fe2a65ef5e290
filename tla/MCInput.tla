------------------------------- MODULE MCInput -------------------------------
(***************************************************************************)
(* Small instances of Cli and Date for TLC: what a user types, and the     *)
(* dates the environment holds.  A behaviour has one of them, the other is *)
(* not looked at.                                                          *)
(***************************************************************************)
EXTENDS Cli, DateProps, TLC

Moment(y, mon, mday, h, m, s) ==
  TmToTime([year |-> y - 1900, mon |-> mon - 1, mday |-> mday,
            hour |-> h, min |-> m, sec |-> s])

FirstOfJune == Moment(2024, 6, 1, 12, 0, 0)
HourAndHalf == 90

\* The first second and the first day, around nine digits of seconds, leap
\* days, the turns of years, the years two digits change their meaning, days
\* that may be months, ten days from now, and the last year.
Times ==
  {<<0, 0>>, <<0, 1>>, <<720, 0>>, <<1666666, 39>>, <<1666666, 40>>,
   Moment(1972, 2, 29, 23, 30, 0), Moment(1999, 12, 31, 23, 59, 59),
   Moment(2000, 3, 1, 0, 0, 0), Moment(2004, 12, 31, 20, 0, 0),
   Moment(2005, 4, 7, 13, 14, 15), Moment(2010, 1, 10, 1, 2, 3),
   Moment(2024, 6, 11, 9, 0, 0), Moment(2024, 12, 5, 10, 0, 0),
   Moment(2037, 12, 31, 12, 0, 0), Moment(2038, 1, 1, 12, 0, 0),
   Moment(2099, 12, 31, 22, 0, 0)}
\* No user writes 01.01.00 for the year 2100.
NearTimes == {t \in Times : ~Later(t, Moment(2038, 1, 1, 12, 0, 0))}
Zones == {0, -1, 130, -930, 1400}

\* All orders of a text, but a weekday stays where it is
Shuffled(text) ==
  LET first == SelectSeq(text, LAMBDA t : t.kind = "weekday")
      parts == SelectSeq(text, LAMBDA t : t.kind # "weekday")
  IN  {first \o [i \in DOMAIN parts |-> parts[p[i]]] :
         p \in Permutations(DOMAIN parts)}

Written(t, z, style) ==
  LET f == GmTime(AddZone(t, z))
      day == N(f.mday, 2)
      month == N(f.mon + 1, 2)
      year == N(f.year + 1900, 4)
      short == N(f.year % 100, 2)
      clock == Numbers(":", <<N(f.hour, 2), N(f.min, 2), N(f.sec, 2)>>)
      zone == Show(t, z, "iso8601")[3]
  IN  CASE style = "pointed" -> <<Numbers(".", <<day, month, year>>), clock, zone>>
        [] style = "dotted"  -> <<Numbers(".", <<day, month, short>>), clock, zone>>
        [] style = "slashed" -> <<Numbers("/", <<month, day, year>>), clock, zone>>
        [] style = "bare"    ->
             <<Show(t, z, "iso8601")[1], clock, Numbers(" ", <<N(z, 4)>>)>>
        [] style = "named"   ->
             <<Numbers(" ", <<day>>), Word("month", f.mon), Numbers(" ", <<short>>),
               clock, zone>>
        [] style = "noon"    ->
             <<Word("month", f.mon), Numbers(" ", <<day>>), Numbers(" ", <<year>>),
               Word("other", 0),
               Numbers(":", <<N(IF f.hour % 12 = 0 THEN 12 ELSE f.hour % 12, 2),
                              N(f.min, 2), N(f.sec, 2)>>),
               Word("half", IF f.hour < 12 THEN 0 ELSE 12), Word("zone", z \div 100)>>

Date(t, z, style, text) == [time |-> t, zone |-> z, style |-> style, text |-> text]

SomeDates ==
  UNION {{Date(t, z, style, text) : text \in Shuffled(Show(t, z, style))} :
           t \in Times, z \in Zones, style \in {"short", "iso8601", "rfc2822"}}
  \cup {Date(t, z, "normal", Show(t, z, "normal")) : t \in Times, z \in Zones}
  \cup {Date(t, ZoneNumber(HourAndHalf), "local",
             Show(t, ZoneNumber(HourAndHalf), "local")) : t \in Times}
  \cup UNION {{Date(t, z, "raw", text) : text \in Shuffled(Show(t, z, "raw"))} :
                t \in {u \in Times : u[1] > 720}, z \in Zones}
  \cup UNION {{Date(t, z, style, text) : text \in Shuffled(Written(t, z, style))} :
                t \in Times, z \in Zones, style \in {"pointed", "slashed"}}
  \cup UNION {{Date(t, z, "dotted", text) : text \in Shuffled(Written(t, z, "dotted"))} :
                t \in NearTimes, z \in Zones}
  \cup UNION {{Date(t, z, "bare", text) : text \in Shuffled(Written(t, z, "bare"))} :
                t \in Times, z \in {0, 130, 1400}}
  \cup {Date(t, z, "named", Written(t, z, "named")) : t \in NearTimes, z \in Zones}
  \cup {Date(t, z, "noon", Written(t, z, "noon")) : t \in Times, z \in {0, 100, -700}}

InputStill ==
  /\ tool = "add" /\ argv = <<"add">> /\ next = 2 /\ given = {"add"}
  /\ after = [f \in Parser.flags |-> 0] /\ current = 2
  /\ words = <<>> /\ upstream = "" /\ fields = <<>>
  /\ verdict = "accepted"
DateStill ==
  /\ asked = Date(<<0, 0>>, 0, "short", <<>>)
  /\ outcome = "default" /\ rest = <<>> /\ tm = Unset
  /\ offset = -1 /\ gmt = FALSE /\ stamp = <<0, 0>>

DatesSpec == InputStill /\ DateInit /\ [][DateNext /\ UNCHANGED vars]_<<vars, dateVars>>
=============================================================================
