------------------------------ MODULE MCRfc3339 ------------------------------
(* Model checking of the time stamps at the edges of their fields.         *)
EXTENDS Rfc3339

\* Around every power of ten, both signs, and the ends of int.
EdgeValues ==
  LET near == UNION {{p - 1, p, p + 1} : p \in {1, 10, 100, 1000, 10000}}
  IN  near \cup {-n : n \in near} \cup {MaxInt, -MaxInt, 9009, 1050}

\* The ends of what a clock of nanoseconds reaches, the epoch, the ends of
\* February of ordinary years, leap years, 1900 and 2000, and a turn of year.
EdgeDays ==
  {DayNumber(y, 3, 1) + k : y \in {1900, 2000, 2023, 2024}, k \in {-2, -1, 0}}
    \cup {DayNumber(y, 1, 1) + k : y \in {1970, 2000}, k \in {-1, 0}}
    \cup {DayNumber(1678, 1, 1), DayNumber(2261, 12, 31)}

EdgeMillis ==
  {0, 1, 9, 10, 99, 100, 999, 1000, 59999, 60000, 3599999, 3600000, 35999999,
   36000000, 43200000, 86399999}

\* The first and the last tick of those milliseconds.
EdgeTicks ==
  {m * TicksPerMilli + k : m \in EdgeMillis, k \in {0, TicksPerMilli - 1}}

\* The widest offsets in use, zones of half and quarter hours, and UTC.
EdgeOffsets == {-43200, -12600, -1800, 0, 3600, 19800, 20700, 50400}
=============================================================================
