------------------------------ MODULE LedClock ------------------------------
(***************************************************************************)
(* The clock face on the strip (led_clock.c): which LEDs led_matrix_set_   *)
(* time lights for a time of the RTC, in which colour, and whether the     *)
(* time can be read back from them.                                        *)
(*                                                                         *)
(* LEDs 0..11 are the hours, 12..17 the digits 0..5, shared by the tens    *)
(* and the units of the minute, and 18 adds five to the units.             *)
(***************************************************************************)
EXTENDS Integers, Sequences

CONSTANT
  NtpTimes    (* times an NTP answer may set the RTC to, <<hour, minute>>  *)

LED_NUM == 19
Leds    == 0 .. LED_NUM - 1
Hours   == 0 .. 23
Minutes == 0 .. 59

ASSUME NtpTimesAssumption == NtpTimes \subseteq Hours \X Minutes

VARIABLES
  rtc,        (* <<hour, minute>> of the real time clock                   *)
  drawn,      (* the time the face shows, << >> while it shows none        *)
  RGB_Data    (* the colour of each LED                                    *)

vars == <<rtc, drawn, RGB_Data>>

Colours == {"DARK", "HOUR", "MINUTE_TEN", "MINUTE_UNIT", "MINUTE", "TEST"}

TypeOK ==
  /\ rtc \in Hours \X Minutes
  /\ drawn \in (Hours \X Minutes) \cup {<< >>}
  /\ RGB_Data \in [Leds -> Colours]

-----------------------------------------------------------------------------
(* led_matrix_set_time as the sequence of its calls of Set_LEDColor.       *)

Set(id, colour) == [led |-> id, colour |-> colour]

HourWrite(hour) == <<Set(IF hour = 12 THEN 0 ELSE hour, "HOUR")>>

TenWrites(minute) ==
  LET ten == minute \div 10
  IN  IF ten # 0 THEN <<Set(ten + 12, "MINUTE_TEN")>> ELSE << >>

(* Bug: the digit is compared with the tens before it is reduced.          *)
UnitWrites_ComparesDigit(minute) ==
  LET ten   == minute \div 10
      digit == minute % 10
      unit  == IF digit > 5 THEN digit - 5 ELSE digit
  IN  (IF digit > 5 THEN <<Set(18, "MINUTE_UNIT")>> ELSE << >>)
      \o (IF ten = digit /\ ten # 0
          THEN <<Set(ten + 12, "MINUTE")>>
          ELSE <<Set(unit + 12, "MINUTE_UNIT")>>)

(* unit > 5 is shown as unit - 5 and LED 18.                               *)
UnitWrites(minute) ==
  LET ten   == minute \div 10
      digit == minute % 10
      unit  == IF digit > 5 THEN digit - 5 ELSE digit
  IN  (IF digit > 5 THEN <<Set(18, "MINUTE_UNIT")>> ELSE << >>)
      \o (IF ten = unit /\ ten # 0
          THEN <<Set(ten + 12, "MINUTE")>>
          ELSE <<Set(unit + 12, "MINUTE_UNIT")>>)

Writes(hour, minute) ==
  HourWrite(hour) \o TenWrites(minute) \o UnitWrites(minute)

(* The frame the writes leave on a dark strip: the last one to an LED wins. *)
Final(writes, i) ==
  {k \in 1 .. Len(writes) : /\ writes[k].led = i
                            /\ \A j \in k + 1 .. Len(writes) :
                                  writes[j].led # i}

ColourAfter(writes, i) ==
  IF Final(writes, i) = {} THEN "DARK"
  ELSE writes[CHOOSE k \in Final(writes, i) : TRUE].colour

led_matrix_set_time(hour, minute) ==
  [i \in Leds |-> ColourAfter(Writes(hour, minute), i)]

(* Bug: the hour of the day is passed on.                                  *)
FaceHour_OfDay(hour) == hour

(* led_matrix_example_entry takes hour and minute from ctime.              *)
FaceHour(hour) == hour % 12

-----------------------------------------------------------------------------
Init ==
  /\ rtc \in NtpTimes
  /\ drawn = << >>
  /\ RGB_Data = [i \in Leds |-> "DARK"]

(* Bug: the hour is not carried round at midnight.                         *)
MinutePasses_NoWrap ==
  /\ drawn = rtc
  /\ rtc' = IF rtc[2] = 59 THEN <<rtc[1] + 1, 0>> ELSE <<rtc[1], rtc[2] + 1>>
  /\ UNCHANGED <<drawn, RGB_Data>>

(* timer2_callback redraws every second: the RTC is at most one minute     *)
(* ahead of the face, or an NTP answer has set it.                         *)
MinutePasses ==
  /\ drawn = rtc
  /\ rtc' = IF rtc[2] = 59 THEN <<(rtc[1] + 1) % 24, 0>>
            ELSE <<rtc[1], rtc[2] + 1>>
  /\ UNCHANGED <<drawn, RGB_Data>>

NtpSync ==
  /\ rtc' \in NtpTimes
  /\ UNCHANGED <<drawn, RGB_Data>>

led_matrix_example_entry ==
  /\ drawn' = rtc
  /\ RGB_Data' = led_matrix_set_time(FaceHour(rtc[1]), rtc[2])
  /\ UNCHANGED rtc

(* A shell command draws its own pattern: all LEDs, or as test1 does.      *)
TestCommand ==
  /\ drawn' = << >>
  /\ \E lit \in {Leds, 0 .. 9} :
       RGB_Data' = [i \in Leds |-> IF i \in lit THEN "TEST" ELSE "DARK"]
  /\ UNCHANGED rtc

Next == MinutePasses \/ NtpSync \/ led_matrix_example_entry \/ TestCommand

Spec == Init /\ [][Next]_vars

-----------------------------------------------------------------------------
(* Properties.                                                             *)

(* How a person reads the face (README.md, on reading the clock): the hour *)
(* on the outer ring, the digit of the tens if there is one, the digit of  *)
(* the units, five more if the LED in the middle is lit.                   *)
Digits(colours) == {d \in 0 .. 5 : RGB_Data[d + 12] \in colours}
Tens  == Digits({"MINUTE_TEN", "MINUTE"})
Units == Digits({"MINUTE_UNIT", "MINUTE"})
Five  == IF RGB_Data[18] = "DARK" THEN 0 ELSE 5

ReadsAs(hour, minute) ==
  /\ {h \in 0 .. 11 : RGB_Data[h] # "DARK"} = {hour}
  /\ Tens = IF minute < 10 THEN {} ELSE {minute \div 10}
  /\ Units = {(minute % 10) - Five}

(* Every time of the day is drawn so that it can be read, and as no other  *)
(* time: the tens and the units share six LEDs, one colour stands for      *)
(* both, and zero tens are not drawn at all.                               *)
FaceIsReadable ==
  drawn # << >> =>
    \A h \in 0 .. 11, m \in Minutes :
      ReadsAs(h, m) <=> h = drawn[1] % 12 /\ m = drawn[2]

(* No time makes led_matrix_set_time write past the end of RGB_Data, whose *)
(* index Set_LEDColor does not check.                                      *)
WritesInRange ==
  LET writes == Writes(FaceHour(rtc[1]), rtc[2])
  IN  \A k \in 1 .. Len(writes) : writes[k].led \in Leds
=============================================================================
