-------------------------------- MODULE Rfc3339 --------------------------------
(***************************************************************************)
(* The time stamps of include/cpptrail/rfc3339.h: writeInteger() and the   *)
(* two printers built on it, for UTC and for local time.  They are pure    *)
(* functions of their arguments; a step of the specification is one call.  *)
(*                                                                         *)
(* A time point counts the ticks of system_clock, which are shorter than a *)
(* millisecond.  The count is kept as what floor<days> makes of it: a day  *)
(* since 1970-01-01 and the ticks that have passed of that day.  Text is a *)
(* sequence of characters.                                                 *)
(***************************************************************************)
EXTENDS Integers, Sequences, FiniteSets, SequencesExt

CONSTANTS
  MaxInt,         \* the greatest int
  Values,         \* the integers printed on their own
  TicksPerMilli,  \* how many ticks of system_clock make a millisecond
  Days,           \* the days printed
  Ticks,          \* the ticks of a day printed
  Offsets         \* the offsets of local time, in seconds

\* A year is an int of four digits, and -nValue exists.
ASSUME IntAssumption ==
  /\ MaxInt \in Nat /\ 9999 <= MaxInt
  /\ Values \subseteq (-MaxInt)..MaxInt

TicksPerDay == 86400000 * TicksPerMilli

\* The dates of RFC 3339 in every time zone (a clock of nanoseconds reaches
\* from 1677 to 2262), and zones of whole minutes.
ASSUME TimesAssumption ==
  /\ TicksPerMilli \in Nat \ {0}
  /\ \A day \in Days : day \in Int /\ -719527 <= day /\ day <= 2932895
  /\ \A tick \in Ticks : tick \in Nat /\ tick < TicksPerDay
  /\ \A offset \in Offsets :
       offset \in Int /\ -86399 <= offset /\ offset <= 86399 /\ offset % 60 = 0

VARIABLES
  printer,  \* which printer ran last
  value,    \* its argument
  nOffset,  \* the offset of the zone at that time
  sOutput   \* what it wrote

vars == <<printer, value, nOffset, sOutput>>

-----------------------------------------------------------------------------
(* writeInteger                                                            *)

\* What an int holds after an operation whose exact result is n.
AsInt(n) == ((n + MaxInt + 1) % (2 * MaxInt + 2)) - (MaxInt + 1)

Cipher == <<"0", "1", "2", "3", "4", "5", "6", "7", "8", "9">>

Zeros(n) == [i \in 1..n |-> "0"]

\* What the loop that counts the digits leaves in nDigits and nExp, the power
\* of ten of the first digit, when it starts with nValueCopy.
Measured[nValueCopy \in Nat] ==
  IF nValueCopy = 0 THEN [nDigits |-> 1, nExp |-> 1]
  ELSE LET rest == Measured[nValueCopy \div 10] IN
       [nDigits |-> rest.nDigits + 1, nExp |-> AsInt(rest.nExp * 10)]

Measure(nValue) == Measured[nValue \div 10]

\* What the loop that divides by falling powers of ten puts for nValue.
CiphersFrom[nExp \in Nat] ==
  [nValue \in Nat |->
     IF nExp = 0 THEN <<>>
     ELSE <<Cipher[(nValue \div nExp) + 1]>>
            \o CiphersFrom[nExp \div 10][nValue % nExp]]

Ciphers(nValue, nExp) == CiphersFrom[nExp][nValue]

\* Mutant of Padding: the comparison is with one digit too few.
PaddingShort(nDigits, nMinCiphers) == Zeros(nMinCiphers - nDigits - 1)

Padding(nDigits, nMinCiphers) == Zeros(nMinCiphers - nDigits)

writeInteger(nValue, nMinCiphers) ==
  LET absolute == IF nValue < 0 THEN AsInt(-nValue) ELSE nValue
      m == Measure(absolute)
  IN  IF nValue = 0 THEN Zeros(nMinCiphers - 1) \o <<"0">>
      ELSE (IF nValue < 0 THEN <<"-">> ELSE <<>>)
             \o (Padding(m.nDigits, nMinCiphers) \o Ciphers(absolute, m.nExp))

-----------------------------------------------------------------------------
(* The printers                                                            *)

\* std::chrono::year_month_day of a day: March is the first month of a year
\* that ends with the leap day, and 146097 days make 400 years.
year_month_day(day) ==
  LET z   == day + 719468
      doe == z % 146097
      yoe == (doe - (doe \div 1460) + (doe \div 36524) - (doe \div 146096)) \div 365
      doy == doe - ((365 * yoe) + (yoe \div 4) - (yoe \div 100))
      mp  == (5 * doy + 2) \div 153
      month == IF mp < 10 THEN mp + 3 ELSE mp - 9
  IN  [year  |-> yoe + 400 * (z \div 146097) + (IF month <= 2 THEN 1 ELSE 0),
       month |-> month,
       day   |-> doy - ((153 * mp + 2) \div 5) + 1]

WriteDate(day) ==
  LET nDate == year_month_day(day) IN
  writeInteger(nDate.year, 4) \o <<"-">> \o writeInteger(nDate.month, 2)
    \o <<"-">> \o writeInteger(nDate.day, 2) \o <<" ">>

WriteInstant(milli) ==
  writeInteger(milli \div 3600000, 2) \o <<":">>
    \o writeInteger((milli \div 60000) % 60, 2) \o <<":">>
    \o writeInteger((milli \div 1000) % 60, 2) \o <<".">>
    \o writeInteger(milli % 1000, 3)

\* Mutant of InstantMillis: the time is rounded to the nearest millisecond.
InstantMillisRounded(tick) == (tick + (TicksPerMilli \div 2)) \div TicksPerMilli

\* floor<milliseconds> of the ticks of a day: the rest of a millisecond is cut
\* off.
InstantMillis(tick) == tick \div TicksPerMilli

toRfc3339Utc(nTime) ==
  WriteDate(nTime.day) \o WriteInstant(InstantMillis(nTime.tick)) \o <<"Z">>

to_local(nTime, offset) ==
  LET tick == nTime.tick + (1000 * TicksPerMilli) * offset IN
  [day |-> nTime.day + (tick \div TicksPerDay), tick |-> tick % TicksPerDay]

\* Mutant of OffsetSecs: a negative offset is not negated before it is split.
OffsetSecsSigned(offset) == offset % 86400

OffsetSecs(offset) == IF offset >= 0 THEN offset ELSE -offset

WriteOffset(offset) ==
  LET nOffsetTotalMinutes == OffsetSecs(offset) \div 60 IN
  (IF offset >= 0 THEN <<"+">> ELSE <<"-">>)
    \o writeInteger(nOffsetTotalMinutes \div 60, 2) \o <<":">>
    \o writeInteger(nOffsetTotalMinutes % 60, 2)

toRfc3339Local(nTime, offset) ==
  LET nLocalTime == to_local(nTime, offset) IN
  WriteDate(nLocalTime.day) \o WriteInstant(InstantMillis(nLocalTime.tick))
    \o WriteOffset(offset)

-----------------------------------------------------------------------------
(* The calls                                                               *)

TimePoint == [day : Days, tick : Ticks]

Init == printer = "none" /\ value = [n |-> 0] /\ nOffset = 0 /\ sOutput = <<>>

PrintInteger(n, nMinCiphers) ==
  /\ printer = "none"
  /\ printer' = "integer"
  /\ value' = [n |-> n, min |-> nMinCiphers]
  /\ sOutput' = writeInteger(n, nMinCiphers)
  /\ UNCHANGED nOffset

PrintUtc(nTime) ==
  /\ printer \in {"none", "utc"}
  /\ printer' = "utc"
  /\ value' = nTime
  /\ sOutput' = toRfc3339Utc(nTime)
  /\ UNCHANGED nOffset

PrintLocal(nTime, offset) ==
  /\ printer = "none"
  /\ printer' = "local"
  /\ value' = nTime
  /\ nOffset' = offset
  /\ sOutput' = toRfc3339Local(nTime, offset)

Next ==
  \/ \E n \in Values, nMinCiphers \in 1..4 : PrintInteger(n, nMinCiphers)
  \/ \E nTime \in TimePoint : PrintUtc(nTime)
  \/ \E nTime \in TimePoint, offset \in Offsets : PrintLocal(nTime, offset)

Spec == Init /\ [][Next]_vars

-----------------------------------------------------------------------------
(* A reader of the text                                                    *)

Digit(character) == CHOOSE d \in 0..9 : Cipher[d + 1] = character

\* What a reader knows of the number after each character.
ReadUpTo(text) ==
  LET upTo[i \in 0..Len(text)] ==
        IF i = 0 THEN 0 ELSE 10 * upTo[i - 1] + Digit(text[i])
  IN  upTo

Number(text) == ReadUpTo(text)[Len(text)]

IsNumber(text) == ToSet(text) \subseteq ToSet(Cipher)

Field(first, last) == Number(SubSeq(sOutput, first, last))

Leap(year) == year % 4 = 0 /\ (year % 100 # 0 \/ year % 400 = 0)

LeapsBefore(year) ==
  ((year - 1) \div 4) - ((year - 1) \div 100) + ((year - 1) \div 400)

\* The days of an ordinary year before each month.
DaysBefore == <<0, 31, 59, 90, 120, 151, 181, 212, 243, 273, 304, 334>>

\* The day a date names, counted from 1970-01-01.
DayNumber(year, month, day) ==
  365 * (year - 1970) + LeapsBefore(year) - LeapsBefore(1970)
    + DaysBefore[month] + (IF month > 2 /\ Leap(year) THEN 1 ELSE 0) + day - 1

PrintedDay == DayNumber(Field(1, 4), Field(6, 7), Field(9, 10))

PrintedMilli ==
  1000 * (3600 * Field(12, 13) + 60 * Field(15, 16) + Field(18, 19))
    + Field(21, 23)

PrintedOffset ==
  (IF sOutput[24] = "-" THEN -1 ELSE 1)
    * 60 * (60 * Field(25, 26) + Field(28, 29))

\* The day and the millisecond of the text are those that nTime lies in.
Names(nTime) ==
  /\ PrintedDay = nTime.day
  /\ PrintedMilli * TicksPerMilli <= nTime.tick
  /\ nTime.tick < (PrintedMilli + 1) * TicksPerMilli

\* A stamp up to its zone; a zero stands for any digit.
StampShape ==
  <<"0", "0", "0", "0", "-", "0", "0", "-", "0", "0", " ",
    "0", "0", ":", "0", "0", ":", "0", "0", ".", "0", "0", "0">>

HasShape(shape) ==
  /\ Len(sOutput) = Len(shape)
  /\ \A i \in DOMAIN shape :
       IF shape[i] = "0" THEN sOutput[i] \in ToSet(Cipher)
       ELSE sOutput[i] = shape[i]

-----------------------------------------------------------------------------
(* What the printers promise                                               *)

\* writeInteger() writes the decimal numeral of its argument: the value, the
\* sign, at least nMinCiphers digits and no zero in front that is not asked
\* for.  The power of ten it divides by never leaves the range of int.
IntegerPrinted ==
  printer = "integer" =>
    LET digits == IF value.n < 0 THEN Tail(sOutput) ELSE sOutput IN
    /\ value.n < 0 => Head(sOutput) = "-"
    /\ IsNumber(digits)
    /\ Len(digits) >= value.min
    /\ Number(digits) = IF value.n < 0 THEN -value.n ELSE value.n
    /\ Len(digits) > value.min /\ Len(digits) > 1 => Head(digits) # "0"

\* Every stamp has the one shape a reader can split by position, whatever the
\* date and the zone.
StampsWellFormed ==
  /\ printer = "utc" => HasShape(StampShape \o <<"Z">>)
  /\ printer = "local" =>
       \E sign \in {"+", "-"} :
         HasShape(StampShape \o <<sign, "0", "0", ":", "0", "0">>)

\* A stamp names the millisecond in which the time point it was made from lies:
\* a UTC stamp directly, a local one after its printed offset has been taken
\* away again, over midnights, leap days and the turn of a century.
StampsNameTheTime ==
  /\ printer = "utc" => Names(value)
  /\ printer = "local" => Names(to_local(value, PrintedOffset))

\* The time point s is earlier than t.
Earlier(s, t) == s.day < t.day \/ (s.day = t.day /\ s.tick < t.tick)

\* Sorting UTC stamps as text never puts a later time before an earlier one; two
\* times have one text only if they are less than a millisecond apart.
StampsSort ==
  [][printer = "utc" /\ printer' = "utc" /\ Earlier(value, value') =>
       \/ \E i \in DOMAIN sOutput \cap DOMAIN sOutput' :
            /\ SubSeq(sOutput, 1, i - 1) = SubSeq(sOutput', 1, i - 1)
            /\ {sOutput[i], sOutput'[i]} \subseteq ToSet(Cipher)
            /\ Digit(sOutput[i]) < Digit(sOutput'[i])
       \/ /\ sOutput = sOutput'
          /\ value.day = value'.day
          /\ value'.tick - value.tick < TicksPerMilli]_vars
=============================================================================
