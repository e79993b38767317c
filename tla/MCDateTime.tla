----------------------------- MODULE MCDateTime -----------------------------
(* The instances of DateTime that TLC checks.                              *)
EXTENDS DateTime

Start(n, y, wd) == [days |-> n, date |-> [day |-> 1, mon |-> 1, year |-> y, wday |-> wd]]

\* The 1 January that opens each century of the calendar's 400-year cycle, and
\* that of the last year there is.
MCStarts ==
  {Start(0, 1970, 4), Start(36525, 2070, 3), Start(73049, 2170, 1), Start(109573, 2270, 6),
   Start(2932532, 9999, 5)}

\* The year in which the 400-year cycle of the code begins.
MCTwoThousand == {Start(10957, 2000, 6)}

MCNoonAndEnds == {0, 43261, 86399}
=============================================================================
