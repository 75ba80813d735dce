------------------------------- MODULE Clock -------------------------------
(***************************************************************************)
(* Wall-clock time: the CMOS real-time clock read by the kernel            *)
(* (kernel/src/arch/x86_64/rtc.rs) and broken down by the C library        *)
(* (libc/src/posix.rs).  The chip updates its registers while they are     *)
(* being read one by one.  TLC's integers have 32 bits, so epoch seconds   *)
(* are kept as <<days, seconds of the day>>.                               *)
(***************************************************************************)
EXTENDS Integers, Sequences

CONSTANTS
    LastDay,            \* days after 2000-01-01 that the calendar is walked
    UPDATES_PER_CALL    \* chip updates (one a second) that fall in one call

VARIABLES
    date,      \* [n, y, m, d, doy]: the civil date n days after 2000-01-01
    chip,      \* [shows, uip]: the chip's time in seconds, update in progress
    updates,   \* updates since the call began
    reader,    \* [pc, r, first, next, result]: epoch_secs in progress
    shown      \* the times the chip has shown since the call began
clock_vars == <<date, chip, updates, reader, shown>>

-----------------------------------------------------------------------------
(* The civil calendar, as the chip keeps it.                               *)
Leap(y) == (y % 4 = 0 /\ y % 100 # 0) \/ y % 400 = 0
MonthLength(y, m) ==
    IF m = 2 THEN IF Leap(y) THEN 29 ELSE 28 ELSE IF m \in {4, 6, 9, 11} THEN 30 ELSE 31
day_passes ==
    /\ date.n < LastDay
    /\ LET month_ends == date.d = MonthLength(date.y, date.m)
           year_ends == month_ends /\ date.m = 12
       IN  date' = [n |-> date.n + 1,
                    d |-> IF month_ends THEN 1 ELSE date.d + 1,
                    m |-> IF year_ends THEN 1 ELSE IF month_ends THEN date.m + 1 ELSE date.m,
                    y |-> IF year_ends THEN date.y + 1 ELSE date.y,
                    doy |-> IF year_ends THEN 0 ELSE date.doy + 1]
    /\ UNCHANGED <<chip, updates, reader, shown>>

(* rtc.rs and posix.rs: days since 1970-01-01 of a date, and back.         *)
days_from_civil(y0, m, d) ==
    LET y == IF m <= 2 THEN y0 - 1 ELSE y0
        era == y \div 400
        yoe == y - era * 400
        mp == IF m > 2 THEN m - 3 ELSE m + 9
        doe == yoe * 365 + yoe \div 4 - yoe \div 100 + (153 * mp + 2) \div 5 + d - 1
    IN  era * 146097 + doe - 719468
civil_from_days(days) ==
    LET z == days + 719468
        era == z \div 146097
        doe == z - era * 146097
        yoe == (doe - doe \div 1460 + doe \div 36524 - doe \div 146096) \div 365
        doy == doe - (365 * yoe + yoe \div 4 - yoe \div 100)
        mp == (5 * doy + 2) \div 153
        m == IF mp < 10 THEN mp + 3 ELSE mp - 9
        y == yoe + era * 400
    IN  [y |-> IF m <= 2 THEN y + 1 ELSE y, m |-> m, d |-> doy - (153 * mp + 2) \div 5 + 1]

(* The chip's encodings, status register B: binary or packed BCD, 24-hour  *)
(* or 12-hour with PM in bit 7.                                            *)
Modes == [bin : BOOLEAN, h24 : BOOLEAN]
Encode(mode, v) == IF mode.bin THEN v ELSE (v \div 10) * 16 + (v % 10)
EncodeHour(mode, h) ==
    IF mode.h24 THEN Encode(mode, h)
    ELSE Encode(mode, IF h % 12 = 0 THEN 12 ELSE h % 12) + (IF h >= 12 THEN 128 ELSE 0)

bcd_to_bin(v) == (v % 16) + (v \div 16) * 10
conv(mode, v) == IF mode.bin THEN v ELSE bcd_to_bin(v)
decode_hour(mode, raw) ==
    LET hour == conv(mode, raw % 128)
    IN  IF mode.h24 THEN hour
        ELSE IF raw >= 128 THEN IF hour # 12 THEN hour + 12 ELSE hour
        ELSE IF hour = 12 THEN 0 ELSE hour
epoch_of(mode, raw) ==
    << days_from_civil(2000 + conv(mode, raw.year), conv(mode, raw.mon), conv(mode, raw.day)),
       decode_hour(mode, raw.hour) * 3600 + conv(mode, raw.min) * 60 + conv(mode, raw.sec) >>
localtime(epoch) ==
    LET c == civil_from_days(epoch[1])
        rem == epoch[2]
    IN  [year |-> c.y, mon |-> c.m, mday |-> c.d, hour |-> rem \div 3600,
         min |-> (rem \div 60) % 60, sec |-> rem % 60,
         yday |-> epoch[1] - days_from_civil(c.y, 1, 1), wday |-> (epoch[1] + 4) % 7]

-----------------------------------------------------------------------------
(* The chip and one caller of epoch_secs.  Six registers are four digits,  *)
(* base 2, of a counter of seconds.                                        *)
Registers == 4
Digits(t) == [i \in 1..Registers |-> (t \div 2^(i - 1)) % 2]
Torn == <<>>

update_begins ==
    /\ ~chip.uip /\ updates < UPDATES_PER_CALL
    /\ chip' = [chip EXCEPT !.uip = TRUE] /\ updates' = updates + 1
    /\ UNCHANGED <<date, reader, shown>>
update_ends ==
    /\ chip.uip
    /\ chip' = [shows |-> (chip.shows + 1) % 2^Registers, uip |-> FALSE]
    /\ shown' = shown \cup {(chip.shows + 1) % 2^Registers}
    /\ UNCHANGED <<date, updates, reader>>

call_begins ==
    /\ reader.pc = "idle"
    /\ reader' = [pc |-> "wait", r |-> 1, first |-> Torn, next |-> Torn, result |-> Torn]
    /\ updates' = 0 /\ shown' = {chip.shows}
    /\ UNCHANGED <<date, chip>>
(* read_raw: wait out an update, then read the registers in turn; one read *)
(* while an update runs gives any value.                                   *)
wait_uip ==
    /\ reader.pc = "wait" /\ ~chip.uip
    /\ reader' = [reader EXCEPT !.pc = "read", !.r = 1, !.next = Torn]
    /\ UNCHANGED <<date, chip, updates, shown>>
read_reg ==
    /\ reader.pc = "read" /\ reader.r <= Registers
    /\ \E v \in IF chip.uip THEN {0, 1} ELSE {Digits(chip.shows)[reader.r]} :
          reader' = [reader EXCEPT !.r = @ + 1, !.next = Append(@, v)]
    /\ UNCHANGED <<date, chip, updates, shown>>
(* epoch_secs: two consecutive reads that agree.                           *)
\* Mutant: the first read is believed.
compare_Once ==
    /\ reader.pc = "read" /\ reader.r > Registers
    /\ reader' = [reader EXCEPT !.pc = "idle", !.result = reader.next]
    /\ UNCHANGED <<date, chip, updates, shown>>
compare ==
    /\ reader.pc = "read" /\ reader.r > Registers
    /\ reader' = IF reader.first = reader.next
                 THEN [reader EXCEPT !.pc = "idle", !.result = reader.next]
                 ELSE [reader EXCEPT !.pc = "wait", !.first = reader.next]
    /\ UNCHANGED <<date, chip, updates, shown>>

ClockInit ==
    /\ date = [n |-> 0, y |-> 2000, m |-> 1, d |-> 1, doy |-> 0]
    /\ chip = [shows |-> 0, uip |-> FALSE]
    /\ updates = 0 /\ shown = {0}
    /\ reader = [pc |-> "idle", r |-> 1, first |-> Torn, next |-> Torn, result |-> Torn]
ReadNext ==
    \/ update_begins \/ update_ends \/ call_begins \/ wait_uip \/ read_reg \/ compare
CalendarNext == day_passes

-----------------------------------------------------------------------------
(* The seconds since 1970 that time() returns, broken down by localtime(), *)
(* are the date, the hour, the weekday and the day of the year that the    *)
(* clock shows, in each of its encodings, on every day to the end of its   *)
(* century (days_from_civil, civil_from_days, the hour's 12/24 decoding).  *)
ShowsTheDate ==
    LET h == date.n % 24
        s == (7 * date.n) % 60
    IN  \A mode \in Modes :
          LET raw == [year |-> Encode(mode, date.y - 2000), mon |-> Encode(mode, date.m),
                      day |-> Encode(mode, date.d), hour |-> EncodeHour(mode, h),
                      min |-> Encode(mode, date.n % 60), sec |-> Encode(mode, s)]
          IN  localtime(epoch_of(mode, raw)) =
                [year |-> date.y, mon |-> date.m, mday |-> date.d, hour |-> h,
                 min |-> date.n % 60, sec |-> s, yday |-> date.doy,
                 wday |-> (6 + date.n) % 7]

(* A call returns a time that the chip really showed while the call ran,   *)
(* never a mixture of two (read_raw's wait and the agreement of two reads).*)
NeverTorn ==
    reader.result # Torn => \E t \in shown : reader.result = Digits(t)

(* time() is right: the date, hour and weekday computed from a reading are *)
(* those the chip shows, and a reading is of one moment.                   *)
ClockRight == ShowsTheDate /\ NeverTorn

=============================================================================
