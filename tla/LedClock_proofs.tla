-------------------------- MODULE LedClock_proofs --------------------------
(***************************************************************************)
(* The clock face (LedClock), for every time of the day and whatever times *)
(* an NTP answer sets.  OneMoreWrite says what one more write does to the  *)
(* frame, FrameIs adds the writes up to FaceOf, which gives the colour of  *)
(* each LED, and reading them back is arithmetic on the digits of the      *)
(* minute.                                                                 *)
(***************************************************************************)
EXTENDS LedClock, SequenceTheorems, TLAPS

Ten(minute)   == minute \div 10
Digit(minute) == minute % 10
Unit(minute)  == IF Digit(minute) > 5 THEN Digit(minute) - 5 ELSE Digit(minute)

(* What each LED shows, without the order of the writes.                   *)
DigitColour(minute, d) ==
  IF d = Unit(minute)
  THEN IF d = Ten(minute) /\ d # 0 THEN "MINUTE" ELSE "MINUTE_UNIT"
  ELSE IF d = Ten(minute) /\ d # 0 THEN "MINUTE_TEN" ELSE "DARK"

FaceOf(hour, minute, i) ==
  IF i < 12 THEN IF i = hour THEN "HOUR" ELSE "DARK"
  ELSE IF i < 18 THEN DigitColour(minute, i - 12)
  ELSE IF Digit(minute) > 5 THEN "MINUTE_UNIT" ELSE "DARK"

(* The digits of a minute, and that they make it up.                       *)
LEMMA MinuteDigits ==
  ASSUME NEW minute \in Minutes
  PROVE  /\ Ten(minute) \in 0 .. 5 /\ Digit(minute) \in 0 .. 9
         /\ Unit(minute) \in 0 .. 5
         /\ minute = 10 * Ten(minute) + Digit(minute)
         /\ minute < 10 <=> Ten(minute) = 0
BY DEF Minutes, Ten, Digit, Unit

-----------------------------------------------------------------------------
(* Sequences of writes.                                                    *)

AWrite     == [led : Nat, colour : Colours]
SomeWrites == Seq(AWrite)

(* One write more shows on its LED and leaves the others as they were.     *)
LEMMA OneMoreWrite ==
  ASSUME NEW s \in SomeWrites, NEW w \in AWrite, NEW i
  PROVE  /\ s \o <<w>> \in SomeWrites
         /\ ColourAfter(s \o <<w>>, i) =
              IF w.led = i THEN w.colour ELSE ColourAfter(s, i)
<1> DEFINE t == s \o <<w>>
           n == Len(s)
<1>1. /\ <<w>> \in Seq(AWrite) /\ Len(<<w>>) = 1 /\ <<w>>[1] = w
  OBVIOUS
<1>2. /\ n \in Nat /\ t \in Seq(AWrite) /\ Len(t) = n + 1
      /\ \A k \in 1 .. n : t[k] = s[k]
      /\ t[n + 1] = w
  <2>1. n \in Nat
    BY LenProperties DEF SomeWrites
  <2>2. /\ t \in Seq(AWrite) /\ Len(t) = Len(s) + Len(<<w>>)
        /\ \A k \in 1 .. Len(s) + Len(<<w>>) :
             t[k] = IF k <= Len(s) THEN s[k] ELSE <<w>>[k - Len(s)]
    BY <1>1, ConcatProperties DEF SomeWrites
  <2> QED
    BY <1>1, <2>1, <2>2
<1> HIDE DEF t, n
<1>3. CASE w.led = i
  <2>1. Final(t, i) = {n + 1}
    BY <1>2, <1>3 DEF Final
  <2> QED
    BY <1>2, <1>3, <2>1 DEF ColourAfter, t, SomeWrites
<1>4. CASE w.led # i
  <2>1. Final(t, i) = Final(s, i)
    <3>1. ASSUME NEW k \in 1 .. n
          PROVE  (\A j \in k + 1 .. n + 1 : t[j].led # i)
                   <=> (\A j \in k + 1 .. n : s[j].led # i)
      BY <1>2, <1>4
    <3>2. Final(t, i) = {k \in 1 .. n + 1 :
                           /\ t[k].led = i
                           /\ \A j \in k + 1 .. n + 1 : t[j].led # i}
      BY <1>2 DEF Final
    <3>3. Final(s, i) = {k \in 1 .. n :
                           /\ s[k].led = i
                           /\ \A j \in k + 1 .. n : s[j].led # i}
      BY DEF Final, n
    <3>4. n + 1 \notin Final(t, i)
      BY <1>2, <1>4, <3>2
    <3>5. \A k \in 1 .. n : k \in Final(t, i) <=> k \in Final(s, i)
      <4> TAKE k \in 1 .. n
      <4>1. t[k] = s[k] /\ k \in 1 .. n + 1
        BY <1>2
      <4>2. k \in Final(t, i) <=>
              t[k].led = i /\ \A j \in k + 1 .. n + 1 : t[j].led # i
        BY <3>2, <4>1
      <4>3. k \in Final(s, i) <=>
              s[k].led = i /\ \A j \in k + 1 .. n : s[j].led # i
        BY <3>3
      <4> QED
        BY <3>1, <4>1, <4>2, <4>3
    <3>6. \A k \in 1 .. n + 1 : k = n + 1 \/ k \in 1 .. n
      BY <1>2
    <3>7. Final(t, i) \subseteq 1 .. n + 1 /\ Final(s, i) \subseteq 1 .. n
      BY <3>2, <3>3
    <3> QED
      BY <3>4, <3>5, <3>6, <3>7
  <2>2. Final(s, i) # {} =>
          t[CHOOSE k \in Final(s, i) : TRUE] =
          s[CHOOSE k \in Final(s, i) : TRUE]
    <3>1. Final(s, i) \subseteq 1 .. n
      BY DEF Final, n
    <3> QED
      BY <1>2, <3>1
  <2> QED
    <3>1. ColourAfter(t, i) = ColourAfter(s, i)
      BY <2>1, <2>2 DEF ColourAfter
    <3> QED
      BY <1>2, <1>4, <3>1 DEF t, SomeWrites
<1> QED
  BY <1>3, <1>4

LEMMA NoWrites ==
  /\ << >> \in SomeWrites
  /\ \A i : ColourAfter(<< >>, i) = "DARK"
<1>1. << >> \in SomeWrites /\ Len(<< >>) = 0
  BY EmptySeq DEF SomeWrites
<1>2. \A i : Final(<< >>, i) = {}
  BY <1>1 DEF Final
<1> QED
  BY <1>1, <1>2 DEF ColourAfter

-----------------------------------------------------------------------------
(* The frame of a time.                                                    *)

LEMMA FrameIs ==
  ASSUME NEW hour \in 0 .. 11, NEW minute \in Minutes, NEW i \in Leds
  PROVE  led_matrix_set_time(hour, minute)[i] = FaceOf(hour, minute, i)
<1> DEFINE H == Set(hour, "HOUR")
           T == Set(Ten(minute) + 12, "MINUTE_TEN")
           F == Set(18, "MINUTE_UNIT")
           B == Set(Ten(minute) + 12, "MINUTE")
           U == Set(Unit(minute) + 12, "MINUTE_UNIT")
           L == IF Ten(minute) = Unit(minute) /\ Ten(minute) # 0 THEN B ELSE U
           s1 == <<H>>
           s2 == IF Ten(minute) # 0 THEN s1 \o <<T>> ELSE s1
           s3 == IF Digit(minute) > 5 THEN s2 \o <<F>> ELSE s2
<1>0. {H, T, F, B, U, L} \subseteq AWrite
  BY MinuteDigits DEF AWrite, Set, Colours
<1>1. s1 \in SomeWrites
        /\ ColourAfter(s1, i) = IF H.led = i THEN H.colour ELSE "DARK"
  <2>1. << >> \o <<H>> = <<H>> /\ <<H>> \in SomeWrites
    BY <1>0, ConcatEmptySeq DEF SomeWrites
  <2> QED
    <3>1. << >> \in SomeWrites /\ ColourAfter(<< >>, i) = "DARK"
      BY NoWrites
    <3>2. H \in AWrite
      BY <1>0
    <3> HIDE DEF H
    <3>3. ColourAfter(<< >> \o <<H>>, i) =
            IF H.led = i THEN H.colour ELSE ColourAfter(<< >>, i)
      BY <3>1, <3>2, OneMoreWrite
    <3> QED
      BY <2>1, <3>1, <3>3
<1>2. s2 \in SomeWrites
        /\ ColourAfter(s2, i) = IF Ten(minute) # 0 /\ T.led = i THEN T.colour
                                ELSE ColourAfter(s1, i)
  BY <1>0, <1>1, OneMoreWrite
<1>3. s3 \in SomeWrites
        /\ ColourAfter(s3, i) = IF Digit(minute) > 5 /\ F.led = i
                                THEN F.colour ELSE ColourAfter(s2, i)
  BY <1>0, <1>2, OneMoreWrite
<1>4. ColourAfter(s3 \o <<L>>, i) =
        IF L.led = i THEN L.colour ELSE ColourAfter(s3, i)
  BY <1>0, <1>3, OneMoreWrite
<1>5. Writes(hour, minute) = s3 \o <<L>>
  <2> DEFINE ten  == IF Ten(minute) # 0 THEN <<T>> ELSE << >>
             five == IF Digit(minute) > 5 THEN <<F>> ELSE << >>
  <2>1. Writes(hour, minute) = (s1 \o ten) \o (five \o <<L>>)
    BY DEF Writes, HourWrite, TenWrites, UnitWrites, Ten, Digit, Unit
  <2>2. /\ <<L>> \in SomeWrites /\ ten \in SomeWrites /\ five \in SomeWrites
    BY <1>0 DEF SomeWrites
  <2>3. s1 \o ten = s2
    BY <1>1, ConcatEmptySeq DEF SomeWrites
  <2>4. s2 \o five = s3
    BY <1>2, ConcatEmptySeq DEF SomeWrites
  <2>5. s2 \o (five \o <<L>>) = (s2 \o five) \o <<L>>
    BY <1>2, <2>2, ConcatAssociative DEF SomeWrites
  <2> QED
    BY <2>1, <2>3, <2>4, <2>5
<1>6. led_matrix_set_time(hour, minute)[i] = ColourAfter(s3 \o <<L>>, i)
  BY <1>5 DEF led_matrix_set_time
<1>7. /\ H.led = hour /\ H.colour = "HOUR"
      /\ T.led = Ten(minute) + 12 /\ T.colour = "MINUTE_TEN"
      /\ F.led = 18 /\ F.colour = "MINUTE_UNIT"
      /\ L.led = Unit(minute) + 12
      /\ L.colour = IF Ten(minute) = Unit(minute) /\ Ten(minute) # 0
                    THEN "MINUTE" ELSE "MINUTE_UNIT"
  BY DEF Set
<1> HIDE DEF H, T, F, B, U, L, s1, s2, s3
<1>8. i \in 0 .. 18
  BY DEF Leds, LED_NUM
<1> QED
  BY <1>1, <1>2, <1>3, <1>4, <1>6, <1>7, <1>8, MinuteDigits
     DEF FaceOf, DigitColour

-----------------------------------------------------------------------------
(* The index of Set_LEDColor.                                              *)

LEMMA WritesAreToLeds ==
  ASSUME NEW hour \in 0 .. 11, NEW minute \in Minutes
  PROVE  Writes(hour, minute) \in Seq([led : Leds, colour : Colours])
<1> DEFINE LedWrite  == [led : Leds, colour : Colours]
           LedWrites == Seq(LedWrite)
           H == Set(hour, "HOUR")
           T == Set(Ten(minute) + 12, "MINUTE_TEN")
           F == Set(18, "MINUTE_UNIT")
           B == Set(Ten(minute) + 12, "MINUTE")
           U == Set(Unit(minute) + 12, "MINUTE_UNIT")
<1>1. {H, T, F, B, U} \subseteq LedWrite
  BY MinuteDigits DEF Set, Leds, LED_NUM, Colours
<1>2. HourWrite(hour) = <<H>>
  BY DEF HourWrite
<1>3. TenWrites(minute) = IF Ten(minute) # 0 THEN <<T>> ELSE << >>
  BY DEF TenWrites, Ten
<1>4. UnitWrites(minute) =
        (IF Digit(minute) > 5 THEN <<F>> ELSE << >>)
        \o (IF Ten(minute) = Unit(minute) /\ Ten(minute) # 0
            THEN <<B>> ELSE <<U>>)
  BY DEF UnitWrites, Ten, Digit, Unit
<1> HIDE DEF LedWrite, H, T, F, B, U
<1>5. /\ {<<H>>, <<T>>, <<F>>, <<B>>, <<U>>} \subseteq LedWrites
      /\ << >> \in LedWrites
  BY <1>1, EmptySeq
<1>6. \A s, t \in LedWrites : s \o t \in LedWrites
  BY ConcatProperties
<1> HIDE DEF LedWrites
<1>7. UnitWrites(minute) \in LedWrites
  BY <1>4, <1>5, <1>6
<1>8. HourWrite(hour) \o TenWrites(minute) \in LedWrites
  BY <1>2, <1>3, <1>5, <1>6
<1> QED
  BY <1>6, <1>7, <1>8 DEF Writes, LedWrites, LedWrite

(* The hour and the minute the RTC is asked for.                           *)
LEMMA TimeParts ==
  ASSUME NEW time \in Hours \X Minutes
  PROVE  /\ time[1] \in Hours /\ time[2] \in Minutes
         /\ FaceHour(time[1]) \in 0 .. 11
BY DEF Hours, Minutes, FaceHour

(* A frame is one of the clock's: each LED has one of its colours.         *)
LEMMA FrameTyped ==
  ASSUME NEW hour \in 0 .. 11, NEW minute \in Minutes
  PROVE  led_matrix_set_time(hour, minute) \in [Leds -> Colours]
<1>1. \A i \in Leds : led_matrix_set_time(hour, minute)[i] \in Colours
  <2> TAKE i \in Leds
  <2>1. FaceOf(hour, minute, i) \in Colours
    BY DEF FaceOf, DigitColour, Colours
  <2> QED
    BY <2>1, FrameIs
<1> QED
  BY <1>1 DEF led_matrix_set_time

-----------------------------------------------------------------------------
(* The invariant: what stands on the strip is the frame of the time drawn. *)

FaceShows ==
  drawn # << >> =>
    RGB_Data = led_matrix_set_time(FaceHour(drawn[1]), drawn[2])

(* The RTC keeps a time of the day and every LED has a colour of the       *)
(* clock, through midnight, every NTP answer and the shell's commands.     *)
THEOREM ClockTypeCorrect == Spec => []TypeOK
<1>1. Init => TypeOK
  BY NtpTimesAssumption DEF Init, TypeOK, Colours
<1>2. TypeOK /\ [Next]_vars => TypeOK'
  <2> SUFFICES ASSUME TypeOK, [Next]_vars
               PROVE  TypeOK'
    OBVIOUS
  <2>1. CASE MinutePasses
    <3>1. rtc[1] \in 0 .. 23 /\ rtc[2] \in 0 .. 59
      BY TimeParts DEF TypeOK, Hours, Minutes
    <3>2. rtc' \in Hours \X Minutes
      <4>1. CASE rtc[2] = 59
        <5>1. (rtc[1] + 1) % 24 \in 0 .. 23
          BY <3>1
        <5>2. rtc' = <<(rtc[1] + 1) % 24, 0>>
          BY <2>1, <4>1 DEF MinutePasses
        <5> QED
          BY <5>1, <5>2 DEF Hours, Minutes
      <4>2. CASE rtc[2] # 59
        BY <2>1, <3>1, <4>2 DEF MinutePasses, Hours, Minutes
      <4> QED
        BY <4>1, <4>2
    <3> QED
      BY <2>1, <3>2 DEF MinutePasses, TypeOK
  <2>2. CASE NtpSync
    BY <2>2, NtpTimesAssumption DEF NtpSync, TypeOK
  <2>3. CASE led_matrix_example_entry
    BY <2>3, TimeParts, FrameTyped DEF led_matrix_example_entry, TypeOK
  <2>4. CASE TestCommand
    BY <2>4 DEF TestCommand, TypeOK, Colours
  <2>5. CASE UNCHANGED vars
    BY <2>5 DEF vars, TypeOK
  <2> QED
    BY <2>1, <2>2, <2>3, <2>4, <2>5 DEF Next
<1> QED
  BY <1>1, <1>2, PTL DEF Spec

(* Whatever the time, every LED led_matrix_set_time hands to Set_LEDColor  *)
(* is on the strip: RGB_Data is never written past its end.                *)
THEOREM WritesAlwaysInRange == Spec => []WritesInRange
<1>1. ASSUME TypeOK
      PROVE  WritesInRange
  <2> DEFINE writes == Writes(FaceHour(rtc[1]), rtc[2])
  <2>1. writes \in Seq([led : Leds, colour : Colours])
    BY <1>1, TimeParts, WritesAreToLeds DEF TypeOK
  <2>2. \A k \in 1 .. Len(writes) :
          writes[k] \in [led : Leds, colour : Colours]
    BY <2>1, ElementOfSeq
  <2> QED
    BY <2>2 DEF WritesInRange
<1> QED
  BY <1>1, ClockTypeCorrect, PTL

-----------------------------------------------------------------------------
(* Reading the face back.                                                  *)

(* What a person sees of the frame of a time.                              *)
LEMMA FaceReads ==
  ASSUME NEW hour \in 0 .. 11, NEW minute \in Minutes,
         RGB_Data = led_matrix_set_time(hour, minute)
  PROVE  /\ {h \in 0 .. 11 : RGB_Data[h] # "DARK"} = {hour}
         /\ Tens = IF Ten(minute) = 0 THEN {} ELSE {Ten(minute)}
         /\ Units = {Unit(minute)}
         /\ Five = IF Digit(minute) > 5 THEN 5 ELSE 0
<1>1. \A i \in 0 .. 18 : RGB_Data[i] = FaceOf(hour, minute, i)
  BY FrameIs DEF Leds, LED_NUM
<1>2. \A h \in 0 .. 11 : RGB_Data[h] = IF h = hour THEN "HOUR" ELSE "DARK"
  BY <1>1 DEF FaceOf
<1>3. \A d \in 0 .. 5 : RGB_Data[d + 12] = DigitColour(minute, d)
  <2> TAKE d \in 0 .. 5
  <2>1. /\ d + 12 \in 0 .. 18 /\ ~ (d + 12 < 12) /\ d + 12 < 18
        /\ (d + 12) - 12 = d
    OBVIOUS
  <2> QED
    BY <1>1, <2>1 DEF FaceOf
<1>4. RGB_Data[18] = IF Digit(minute) > 5 THEN "MINUTE_UNIT" ELSE "DARK"
  BY <1>1 DEF FaceOf
<1>5. Tens = IF Ten(minute) = 0 THEN {} ELSE {Ten(minute)}
  BY <1>3, MinuteDigits DEF Tens, Digits, DigitColour
<1>6. Units = {Unit(minute)}
  BY <1>3, MinuteDigits DEF Units, Digits, DigitColour
<1> QED
  BY <1>2, <1>4, <1>5, <1>6 DEF Five

(* The frame of a time reads as that time and as no other.                 *)
LEMMA FrameIsReadable ==
  ASSUME NEW hour \in 0 .. 11, NEW minute \in Minutes,
         RGB_Data = led_matrix_set_time(hour, minute)
  PROVE  \A h \in 0 .. 11, m \in Minutes :
           ReadsAs(h, m) <=> h = hour /\ m = minute
<1> TAKE h \in 0 .. 11, m \in Minutes
<1>1. ReadsAs(h, m) <=> /\ {hour} = {h}
                        /\ Tens = IF m < 10 THEN {} ELSE {Ten(m)}
                        /\ Units = {Digit(m) - Five}
  BY FaceReads DEF ReadsAs, Ten, Digit
<1>2. /\ Tens = (IF m < 10 THEN {} ELSE {Ten(m)}) <=> Ten(m) = Ten(minute)
      /\ Units = {Digit(m) - Five} <=> Unit(minute) = Digit(m) - Five
  <2>1. m < 10 <=> Ten(m) = 0
    BY MinuteDigits
  <2> QED
    BY <2>1, FaceReads
<1>3. Unit(minute) = Digit(m) - Five <=> Digit(m) = Digit(minute)
  <2>1. Five = (IF Digit(minute) > 5 THEN 5 ELSE 0)
    BY FaceReads
  <2>2. Digit(m) \in 0 .. 9 /\ Digit(minute) \in 0 .. 9
    BY MinuteDigits
  <2> QED
    BY <2>1, <2>2 DEF Unit
<1>4. Ten(m) = Ten(minute) /\ Digit(m) = Digit(minute) <=> m = minute
  <2>1. m = 10 * Ten(m) + Digit(m) /\ minute = 10 * Ten(minute) + Digit(minute)
    BY MinuteDigits
  <2> QED
    BY <2>1
<1> QED
  BY <1>1, <1>2, <1>3, <1>4

(* Every time of the day, drawn by the example's loop after whatever was   *)
(* on the strip before, is read off the LEDs as itself and as no other     *)
(* time of the twelve hours.                                               *)
THEOREM FaceAlwaysReadable == Spec => []FaceIsReadable
<1>1. Init => FaceShows
  BY DEF Init, FaceShows
<1>2. TypeOK /\ FaceShows /\ [Next]_vars => FaceShows'
  <2> SUFFICES ASSUME TypeOK, FaceShows, [Next]_vars
               PROVE  FaceShows'
    OBVIOUS
  <2>1. CASE MinutePasses
    BY <2>1 DEF MinutePasses, FaceShows
  <2>2. CASE NtpSync
    BY <2>2 DEF NtpSync, FaceShows
  <2>3. CASE led_matrix_example_entry
    BY <2>3 DEF led_matrix_example_entry, FaceShows
  <2>4. CASE TestCommand
    BY <2>4 DEF TestCommand, FaceShows
  <2>5. CASE UNCHANGED vars
    BY <2>5 DEF vars, FaceShows
  <2> QED
    BY <2>1, <2>2, <2>3, <2>4, <2>5 DEF Next
<1>3. TypeOK /\ FaceShows => FaceIsReadable
  <2> SUFFICES ASSUME TypeOK, FaceShows, drawn # << >>
               PROVE  \A h \in 0 .. 11, m \in Minutes :
                        ReadsAs(h, m) <=> h = drawn[1] % 12 /\ m = drawn[2]
    BY DEF FaceIsReadable
  <2>1. drawn \in Hours \X Minutes
    BY DEF TypeOK
  <2>2. RGB_Data = led_matrix_set_time(FaceHour(drawn[1]), drawn[2])
    BY DEF FaceShows
  <2>3. \A h \in 0 .. 11, m \in Minutes :
          ReadsAs(h, m) <=> h = FaceHour(drawn[1]) /\ m = drawn[2]
    BY <2>1, <2>2, TimeParts, FrameIsReadable
  <2> QED
    BY <2>3 DEF FaceHour
<1> QED
  BY <1>1, <1>2, <1>3, ClockTypeCorrect, PTL DEF Spec
=============================================================================
