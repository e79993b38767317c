----------------------------- MODULE DateTime -----------------------------
(***************************************************************************)
(* src/date/src/date_time.rs: conversions between SystemTime and the       *)
(* fields of an HTTP date, printing and the three parsers, checked against *)
(* a calendar that is advanced one day at a time.                          *)
(*                                                                         *)
(* A SystemTime is [days, secs]: sec_since_epoch / 86400 and % 86400.      *)
(* A text is a sequence of tokens, each with its width in bytes, so that a *)
(* slice s[a..b] of the code is a run of whole tokens.                     *)
(***************************************************************************)
EXTENDS Integers, Sequences, Bitwise

CONSTANTS
  Starts,   \* the [days, date] the calendar is started from
  Span,     \* bound: days one behaviour advances
  Secs      \* the times of day looked at

VARIABLES days, date, left

vars == <<days, date, left>>

-----------------------------------------------------------------------------
(* The reference: the Gregorian calendar.                                  *)

Leap(y) == y % 4 = 0 /\ (y % 100 # 0 \/ y % 400 = 0)

MonthDays(y, m) ==
  IF m = 2 THEN IF Leap(y) THEN 29 ELSE 28 ELSE IF m \in {4, 6, 9, 11} THEN 30 ELSE 31

Tomorrow(d) ==
  LET wday == (d.wday % 7) + 1
  IN CASE d.day < MonthDays(d.year, d.mon) -> [d EXCEPT !.day = @ + 1, !.wday = wday]
       [] d.day = MonthDays(d.year, d.mon) /\ d.mon < 12 ->
            [d EXCEPT !.day = 1, !.mon = @ + 1, !.wday = wday]
       [] d.day = MonthDays(d.year, d.mon) /\ d.mon = 12 ->
            [day |-> 1, mon |-> 1, year |-> d.year + 1, wday |-> wday]

-----------------------------------------------------------------------------
(* From<SystemTime> for DateTime.                                          *)

DaysPer400 == 365 * 400 + 97
DaysPer100 == 365 * 100 + 24
DaysPer4   == 365 * 4 + 1
LEAPOCH    == 11017

\* Rust's / and % round towards zero; the remainder is then made non-negative.
Cycles400(d) == IF d < 0 /\ d % DaysPer400 # 0 THEN -((-d) \div DaysPer400) - 1 ELSE d \div DaysPer400

Least(m, n) == IF m <= n THEN m ELSE n

months_from_january == <<31, 29, 31, 30, 31, 30, 31, 31, 30, 31, 30, 31>>
\* March to February, so that the leap day comes last.
months == <<31, 30, 31, 30, 31, 31, 30, 31, 30, 31, 31, 29>>

RECURSIVE MonthLoop(_, _)
MonthLoop(mon, rem) ==
  CASE rem < months[mon]              -> [mon |-> mon, rem |-> rem]
    [] rem >= months[mon] /\ mon = 12 -> [mon |-> mon, rem |-> rem - months[mon]]
    [] rem >= months[mon] /\ mon < 12 -> MonthLoop(mon + 1, rem - months[mon])

\* `2000 + .. + 400 & qc_cycles`: in Rust + binds tighter than &.
YearExpr(rem_years, q_cycles, c_cycles, qc_cycles) ==
  LET sum == 2000 + rem_years + 4 * q_cycles + 100 * c_cycles + 400
  IN IF qc_cycles = -1 THEN sum ELSE sum & qc_cycles

Weekday(d) == LET w == IF 3 + d < 0 THEN -((-(3 + d)) % 7) ELSE (3 + d) % 7
              IN IF w <= 0 THEN w + 7 ELSE w

\* The panic on times from 253402300800 s = 2932897 days on.
Refused(t) == t.days >= 2932897

FromSystemTime(t) ==
  LET d         == t.days - LEAPOCH
      qc_cycles == Cycles400(d)
      rem400    == d - qc_cycles * DaysPer400
      c_cycles  == Least(rem400 \div DaysPer100, 3)
      rem100    == rem400 - c_cycles * DaysPer100
      q_cycles  == Least(rem100 \div DaysPer4, 24)
      rem4      == rem100 - q_cycles * DaysPer4
      rem_years == Least(rem4 \div 365, 3)
      m         == MonthLoop(1, rem4 - rem_years * 365)
      year      == YearExpr(rem_years, q_cycles, c_cycles, qc_cycles)
  IN [sec  |-> t.secs % 60, min |-> (t.secs % 3600) \div 60, hr |-> t.secs \div 3600,
      day  |-> m.rem + 1,
      mon  |-> IF m.mon + 2 > 12 THEN m.mon - 10 ELSE m.mon + 2,
      year |-> (IF m.mon + 2 > 12 THEN year + 1 ELSE year) % 2 ^ 16,
      wday |-> Weekday(d)]

-----------------------------------------------------------------------------
(* From<DateTime> for SystemTime.                                          *)

LeapYearsJulian(y) == ((y - 1) - 1968) \div 4 - ((y - 1) - 1900) \div 100
LeapYears(y) ==
  ((y - 1) - 1968) \div 4 - ((y - 1) - 1900) \div 100 + ((y - 1) - 1600) \div 400

BeforeMonth == <<0, 31, 59, 90, 120, 151, 181, 212, 243, 273, 304, 334>>

is_leap_year(y) == y % 4 = 0 /\ (y % 100 # 0 \/ y % 400 = 0)

ToSystemTime(c) ==
  LET y_days == BeforeMonth[c.mon] + c.day - 1
                  + IF is_leap_year(c.year) /\ c.mon > 2 THEN 1 ELSE 0
  IN [days |-> (c.year - 1970) * 365 + LeapYears(c.year) + y_days,
      secs |-> c.sec + c.min * 60 + c.hr * 3600]

-----------------------------------------------------------------------------
(* Display, and the texts of the three HTTP date formats.                  *)

Token(k, w, n) == [k |-> k, w |-> w, n |-> n]
Lit(k, w)      == Token(k, w, 0)
Num(w, n)      == Token("digits", w, n)
Wday(c)        == Token("wday", 3, c.wday)
Mon(c)         == Token("mon", 3, c.mon)
SP    == Lit("SP", 1)
COLON == Lit("COLON", 1)
DASH  == Lit("DASH", 1)
COMMA == Lit("COMMA", 1)
GMT   == Lit("GMT", 3)

Clock(c) == <<Num(2, c.hr), COLON, Num(2, c.min), COLON, Num(2, c.sec)>>

Display(c) ==
  <<Wday(c), COMMA, SP, Num(2, c.day), SP, Mon(c), SP, Num(4, c.year), SP>>
    \o Clock(c) \o <<SP, GMT>>

Rfc850Text(c) ==
  LET names == <<6, 7, 9, 8, 6, 8, 6>>  \* widths of Monday .. Sunday
  IN <<Token("weekday", names[c.wday], c.wday), COMMA, SP, Num(2, c.day), DASH, Mon(c), DASH,
       Num(2, c.year % 100), SP>> \o Clock(c) \o <<SP, GMT>>

\* A day below ten is padded with a blank or with a zero.
AsctimeTexts(c) ==
  {<<Wday(c), SP, Mon(c), SP, day, SP>> \o Clock(c) \o <<SP, Num(4, c.year)>> :
     day \in {Num(2, c.day)} \cup {Token("padded", 2, d) : d \in {c.day} \cap 1 .. 9}}

-----------------------------------------------------------------------------
(* FromStr: a parser answers <<date>> for Ok(date) and <<>> for Err.       *)

RECURSIVE Width(_)
Width(s) == IF s = <<>> THEN 0 ELSE Head(s).w + Width(Tail(s))

\* s[n..] and s[..n]: every slice taken below starts and ends between two tokens.
RECURSIVE From(_, _)
From(s, n) == IF n = 0 THEN s ELSE From(Tail(s), n - Head(s).w)

RECURSIVE UpTo(_, _)
UpTo(s, n) == IF n = 0 THEN <<>> ELSE <<Head(s)>> \o UpTo(Tail(s), n - Head(s).w)

Slice(s, a, b) == UpTo(From(s, a), b - a)

\* What to_int_1, to_int_2, to_int_4 and the tables of names answer with Err.
Bad == -1

Is(r, k) == Len(r) = 1 /\ r[1].k = k

\* to_int_2, to_int_4.
to_int(s, a, b) == LET r == Slice(s, a, b) IN IF Is(r, "digits") THEN r[1].n ELSE Bad

\* The tables: s[a..b] is a name of kind k between these.
Name(s, a, b, before, k, after) ==
  LET r == Slice(s, a, b)
      name == SubSeq(r, Len(before) + 1, Len(r) - Len(after))
  IN IF Is(name, k) /\ r = before \o name \o after THEN name[1].n ELSE Bad

\* The first `?` that meets an Err returns it.
Answer(c) == IF \E f \in DOMAIN c : c[f] = Bad THEN <<>> ELSE <<c>>

parse_imf_fixdate(s) ==
  IF \/ Width(s) # 29 \/ Slice(s, 25, 29) # <<GMT>>
     \/ Slice(s, 16, 17) # <<SP>> \/ Slice(s, 19, 20) # <<COLON>> \/ Slice(s, 22, 23) # <<COLON>>
  THEN <<>>
  ELSE Answer([sec  |-> to_int(s, 23, 25), min |-> to_int(s, 20, 22), hr |-> to_int(s, 17, 19),
               day  |-> to_int(s, 5, 7),   mon |-> Name(s, 7, 12, <<SP>>, "mon", <<SP>>),
               year |-> to_int(s, 12, 16), wday |-> Name(s, 0, 5, <<>>, "wday", <<COMMA, SP>>)])

parse_rfc850_date(text) ==
  IF Width(text) < 23 \/ Name(SubSeq(text, 1, 3), 0, Width(SubSeq(text, 1, 3)), <<>>, "weekday", <<COMMA, SP>>) = Bad
  THEN <<>>
  ELSE LET s == SubSeq(text, 4, Len(text))
           year == to_int(s, 7, 9)
       IN IF \/ Width(s) # 22 \/ Slice(s, 12, 13) # <<COLON>> \/ Slice(s, 15, 16) # <<COLON>>
             \/ Slice(s, 18, 22) # <<GMT>>
          THEN <<>>
          ELSE Answer([sec  |-> to_int(s, 16, 18), min |-> to_int(s, 13, 15), hr |-> to_int(s, 10, 12),
                       day  |-> to_int(s, 0, 2),   mon |-> Name(s, 2, 7, <<DASH>>, "mon", <<DASH>>),
                       year |-> IF year = Bad THEN Bad ELSE IF year < 70 THEN year + 2000 ELSE year + 1900,
                       wday |-> Head(text).n])

AsctimeDayDigits(s) == to_int(s, 8, 10)
\* to_int_1 for a day padded with a blank, to_int_2 otherwise.
AsctimeDay(s) == LET r == Slice(s, 8, 10) IN IF Is(r, "padded") THEN r[1].n ELSE to_int(s, 8, 10)

parse_asctime(s) ==
  IF \/ Width(s) # 24 \/ Slice(s, 10, 11) # <<SP>> \/ Slice(s, 13, 14) # <<COLON>>
     \/ Slice(s, 16, 17) # <<COLON>> \/ Slice(s, 19, 20) # <<SP>>
  THEN <<>>
  ELSE Answer([sec  |-> to_int(s, 17, 19), min |-> to_int(s, 14, 16), hr |-> to_int(s, 11, 13),
               day  |-> AsctimeDay(s),     mon |-> Name(s, 4, 8, <<>>, "mon", <<SP>>),
               year |-> to_int(s, 20, 24), wday |-> Name(s, 0, 4, <<>>, "wday", <<SP>>)])

\* The three parsers of from_str, one after the other.
Parsed(s) ==
  LET imf == parse_imf_fixdate(s)
      rfc == parse_rfc850_date(s)
  IN IF imf # <<>> THEN imf ELSE IF rfc # <<>> THEN rfc ELSE parse_asctime(s)

is_valid(c) ==
  /\ c.sec < 60 /\ c.min < 60 /\ c.hr < 24 /\ c.day \in 1 .. 31 /\ c.mon \in 1 .. 12
  /\ c.year \in 1970 .. 9999
  /\ FromSystemTime(ToSystemTime(c)) = c

from_str(s) == LET p == Parsed(s) IN IF p # <<>> /\ is_valid(p[1]) THEN p ELSE <<>>

-----------------------------------------------------------------------------
Init == \E s \in Starts : days = s.days /\ date = s.date /\ left = Span

\* Midnight; the calendar stops on the first day From<SystemTime> refuses.
Next == /\ left > 0 /\ left' = left - 1 /\ ~Refused([days |-> days, secs |-> 0])
        /\ days' = days + 1 /\ date' = Tomorrow(date)

Spec == Init /\ [][Next]_vars

-----------------------------------------------------------------------------
(* Properties.                                                             *)

\* The fields the calendar and the time of day call for.
Expected(t) ==
  [sec |-> t.secs % 60, min |-> (t.secs \div 60) % 60, hr |-> t.secs \div 3600,
   day |-> date.day, mon |-> date.mon, year |-> date.year, wday |-> date.wday]

Times == {[days |-> days, secs |-> s] : s \in Secs}

\* The cycle arithmetic of From<SystemTime> (date_time.rs:58-118) finds the
\* month, day, weekday and time of day of every day, in particular around the
\* leap days and the days where c_cycles, q_cycles and rem_years are clamped, and
\* refuses exactly the times after the year 9999 (date_time.rs:48).  The year field
\* is YearInRange's.
FieldsAgree ==
  \A t \in Times :
    IF date.year > 9999 THEN Refused(t)
    ELSE /\ ~Refused(t)
         /\ [FromSystemTime(t) EXCEPT !.year = 0] = [Expected(t) EXCEPT !.year = 0]

\* From<DateTime> (date_time.rs:132-167) gives the day back: the leap-year
\* count in u16 and the month table agree with the calendar.
BackToTime == \A t \in Times : ~Refused(t) => ToSystemTime(Expected(t)) = t

\* Bound: texts are made for one time of each day, the next day for another.
TextTimes == {t \in Times : (t.days + t.secs) % 3 = 0}

\* A text with one of its parts, each day the next, replaced by something else as long.
Spoiled(s) == LET i == (days % Len(s)) + 1 IN [s EXCEPT ![i] = Lit("other", @.w)]

\* from_str reads no text of a date as another date; the parser of asctime texts
\* (date_time.rs:387-433) reads them all, and refuses one with a part that is not
\* what belongs there.  (The other two compare four bytes with "GMT" and refuse
\* everything; from_str then refuses the asctime texts too, for the year is_valid
\* compares, which is YearInRange's.)
ParsersSound ==
  \A t \in TextTimes : date.year <= 9999 =>
    LET c == Expected(t)
    IN /\ \A s \in {Display(c), Rfc850Text(c)} \cup AsctimeTexts(c) : from_str(s) \in {<<>>, <<c>>}
       /\ \A s \in AsctimeTexts(c) : Parsed(s) = <<c>> /\ Parsed(Spoiled(s)) = <<>>

\* The year field stays in its documented range, "Year: 1970..9999" (date_time.rs:20).
YearInRange == \A t \in Times : ~Refused(t) => FromSystemTime(t).year \in 1970 .. 9999
=============================================================================
