--------------------------- MODULE UiTimers_proofs ---------------------------
(***************************************************************************)
(* The gap between two uploads (UiTimers) is bounded however long a        *)
(* failed reading, an upload and a fetch of the weather take.              *)
(*                                                                         *)
(* The argument counts the callbacks of timer2 since the upload: Paced     *)
(* says how much time there can be behind each, given the place of the     *)
(* thread and whether the timer has waited its second already.  One fetch  *)
(* may add to that, and as the period of the weather is longer than the    *)
(* gap that one must have begun after the upload, so that no second one is *)
(* due before the next.                                                    *)
(***************************************************************************)
EXTENDS UiTimers, TLAPS

(* The upload and the sleep after it; a callback and the sleep after it.   *)
First  == AtLeast(SensorPeriod, UploadMax)
Each   == AtLeast(SensorPeriod, 2 * Recovery)
Due(c) == First + (c - 1) * Each

LEMMA Lengths ==
  /\ Recovery \in Nat /\ UploadMax \in Nat /\ FetchMax \in Nat
  /\ First \in Nat /\ First >= 1 /\ First >= UploadMax
  /\ Each \in Nat /\ Each >= 1 /\ Each >= 2 * Recovery
  /\ LongestGap \in Nat /\ WeatherPeriod \in Nat
  /\ WeatherPeriod > LongestGap
<1>1. /\ First \in Nat /\ First >= 1 /\ First >= UploadMax
      /\ Each \in Nat /\ Each >= 1 /\ Each >= 2 * Recovery
  BY TimesAssumption DEF First, Each, AtLeast, SensorPeriod
<1>2. LongestGap = First + 5 * Each + 2 * Recovery + FetchMax
  BY DEF LongestGap, First, Each
<1> QED
  BY <1>1, <1>2, TimesAssumption

LEMMA DueSteps ==
  /\ Due(1) = First
  /\ \A c \in 1 .. 6 : /\ Due(c) \in Nat /\ Due(c) >= 1
                       /\ Due(c) + 2 * Recovery + FetchMax <= LongestGap
  /\ \A c \in 1 .. 5 : Due(c + 1) = Due(c) + Each
<1> DEFINE e == Each
<1>1. e \in Nat /\ First \in Nat /\ First >= 1
  BY Lengths
<1>2. /\ Due(1) = First /\ Due(2) = First + e /\ Due(3) = First + 2 * e
      /\ Due(4) = First + 3 * e /\ Due(5) = First + 4 * e
      /\ Due(6) = First + 5 * e
  BY <1>1 DEF Due
<1>3. LongestGap = First + 5 * e + 2 * Recovery + FetchMax
  BY DEF LongestGap, First, Each
<1> HIDE DEF e
<1>4. \A c \in 1 .. 6 : /\ Due(c) \in Nat /\ Due(c) >= 1
                        /\ Due(c) + 2 * Recovery + FetchMax <= LongestGap
  BY <1>1, <1>2, <1>3, Lengths
<1>5. \A c \in 1 .. 5 : Due(c + 1) = Due(c) + e
  BY <1>1, <1>2
<1> QED
  BY <1>2, <1>4, <1>5 DEF e

-----------------------------------------------------------------------------
(* Time passes.                                                            *)

LEMMA LaterEffect ==
  ASSUME NEW since \in Nat, NEW d \in Nat, NEW limit \in Nat
  PROVE  /\ Later(since, d, limit) \in 0 .. limit
         /\ Later(since, d, limit) <= since + d
         /\ since + d <= limit => Later(since, d, limit) = since + d
         /\ since + d >= limit => Later(since, d, limit) = limit
  BY DEF Later, AtMost

LEMMA PassesEffect ==
  ASSUME TypeOK, NEW d \in Nat, Passes(d)
  PROVE  /\ sinceSensor' \in 0 .. SensorPeriod
         /\ sinceWeather' \in 0 .. WeatherPeriod
         /\ gap' \in 0 .. LongestGap + 1
         /\ gap' <= gap + d
         /\ gap' <= LongestGap => gap' = gap + d
         /\ sinceWeather' <= sinceWeather + d
         /\ sinceSensor' = 0 => sinceSensor = 0 /\ d = 0
         /\ d = 0 => sinceSensor' = sinceSensor
<1>1. /\ sinceSensor \in Nat /\ sinceWeather \in Nat /\ gap \in Nat
      /\ SensorPeriod \in Nat /\ WeatherPeriod \in Nat
      /\ LongestGap + 1 \in Nat /\ SensorPeriod = 1
  BY Lengths DEF TypeOK, SensorPeriod
<1>2. /\ sinceSensor' = Later(sinceSensor, d, SensorPeriod)
      /\ sinceWeather' = Later(sinceWeather, d, WeatherPeriod)
      /\ gap' = Later(gap, d, LongestGap + 1)
  BY DEF Passes
<1>3. /\ sinceSensor' \in 0 .. SensorPeriod
      /\ sinceSensor' = 0 => sinceSensor = 0 /\ d = 0
      /\ d = 0 => sinceSensor' = sinceSensor
  BY <1>1, <1>2 DEF TypeOK, SensorPeriod, Later, AtMost
<1>4. sinceWeather' \in 0 .. WeatherPeriod /\ sinceWeather' <= sinceWeather + d
  BY <1>1, <1>2, LaterEffect
<1>5. /\ gap' \in 0 .. LongestGap + 1
      /\ gap' <= gap + d
      /\ gap' <= LongestGap => gap' = gap + d
  BY <1>1, <1>2, Lengths DEF Later, AtMost
<1> QED
  BY <1>3, <1>4, <1>5

(* What a reading and a sleep let pass.                                    *)
LEMMA MeasureEffect ==
  ASSUME TypeOK, Measure
  PROVE  calibrated' \in BOOLEAN /\ \E d \in 0 .. Recovery : Passes(d)
<1>1. calibrated' \in BOOLEAN
  BY Zenon DEF TypeOK, Measure
<1> QED
  BY <1>1, Lengths DEF Measure

LEMMA SleepEffect ==
  ASSUME TypeOK, Sleep
  PROVE  \E d \in 0 .. 1 : Passes(d) /\ (d = 1 => sinceSensor = 0)
  BY DEF TypeOK, Sleep, SensorPeriod

-----------------------------------------------------------------------------
LEMMA UiInitTypes == Init => TypeOK
<1> SUFFICES ASSUME Init PROVE TypeOK
  OBVIOUS
<1>1. gap \in 0 .. LongestGap + 1 /\ sinceWeather \in 0 .. WeatherPeriod
  BY Lengths DEF Init
<1>2. /\ title \in Readings \X Readings
      /\ Humi \in Readings /\ Temp \in Readings /\ pc \in Pcs
  BY DEF Init, Readings, Pcs
<1>3. sinceSensor \in 0 .. SensorPeriod /\ count \in 0 .. 6
  BY DEF Init, SensorPeriod
<1>4. bus \in BOOLEAN /\ calibrated \in BOOLEAN /\ uploaded \in BOOLEAN
  BY DEF Init
<1> QED
  BY <1>1, <1>2, <1>3, <1>4 DEF TypeOK

LEMMA UiTypesKept ==
  ASSUME TypeOK, [Next]_vars
  PROVE  TypeOK'
<1> USE Lengths DEF TypeOK, Readings, Pcs, SensorPeriod, sensorVars, clockVars,
        uploadVars
<1>1. CASE TimerExec
  BY <1>1 DEF TimerExec
<1>2. CASE NotDue
  BY <1>2 DEF NotDue
<1>3. CASE ReadHumidity \/ ReadTemperature
  <2>1. Measure
    BY <1>3 DEF ReadHumidity, ReadTemperature
  <2>2. calibrated' \in BOOLEAN /\ \E d \in Nat : Passes(d)
    BY <2>1, MeasureEffect
  <2>3. Humi' \in Readings /\ Temp' \in Readings /\ pc' \in Pcs
    BY <1>3 DEF ReadHumidity, ReadTemperature
  <2> QED
    BY <1>3, <2>2, <2>3, PassesEffect DEF ReadHumidity, ReadTemperature
<1>4. CASE TitleAndUpload
  <2>1. CASE UploadDue
    <3>1. PICK d \in 0 .. UploadMax :
            /\ gap' = d
            /\ sinceSensor' = Later(sinceSensor, d, SensorPeriod)
            /\ sinceWeather' = Later(sinceWeather, d, WeatherPeriod)
      BY <1>4, <2>1 DEF TitleAndUpload
    <3>2. d <= LongestGap
      BY DueSteps
    <3>3. sinceSensor' \in 0 .. SensorPeriod
      BY <3>1 DEF Later, AtMost
    <3>4. sinceWeather' \in 0 .. WeatherPeriod
      BY <3>1, LaterEffect
    <3> QED
      BY <1>4, <2>1, <3>1, <3>2, <3>3, <3>4 DEF TitleAndUpload
  <2>2. CASE ~UploadDue
    BY <1>4, <2>2 DEF TitleAndUpload, UploadDue
  <2> QED
    BY <2>1, <2>2
<1>5. CASE Fetch
  BY <1>5, PassesEffect DEF Fetch
<1>6. CASE Sleep
  <2>1. \E d \in Nat : Passes(d)
    BY <1>6, SleepEffect
  <2> QED
    BY <1>6, <2>1, PassesEffect DEF Sleep
<1>7. CASE BusChange
  BY <1>7 DEF BusChange
<1>8. CASE CalibrationLost
  BY <1>8 DEF CalibrationLost
<1>9. CASE HumidityData \/ TemperatureData
  BY <1>9 DEF HumidityData, TemperatureData, Data
<1>10. CASE UNCHANGED vars
  BY <1>10 DEF vars
<1> QED
  BY <1>1, <1>2, <1>3, <1>4, <1>5, <1>6, <1>7, <1>8, <1>9, <1>10
  DEF Next, Lvgl

(* Every reachable state has the types of TypeOK, however long the waits:  *)
(* no counter of the timers leaves its range.                              *)
THEOREM UiTypeCorrect == Spec => []TypeOK
<1> QED
  BY UiInitTypes, UiTypesKept, PTL DEF Spec

-----------------------------------------------------------------------------
(* The time behind the callback that is due or under way, without a fetch. *)

Places == {"timer2", "timer", "fetch", "sleep"}

Paced(extra) ==
  /\ pc \in Places => gap <= Due(count) - (1 - sinceSensor) + extra
  /\ pc = "humidity" => gap <= Due(count) + extra
  /\ pc \in {"humidityData", "temperature"} =>
       /\ gap <= Due(count) + Recovery + extra
       /\ sinceSensor = 0 => gap <= Due(count) + extra
  /\ pc \in {"temperatureData", "title"} =>
       /\ gap <= Due(count) + 2 * Recovery + extra
       /\ sinceSensor = 0 => gap <= Due(count) + extra

(* No fetch has begun since the upload, or one has, and no second is due.  *)
PaceInv ==
  uploaded =>
    /\ count \in 1 .. 6
    /\ pc = "fetch" => sinceWeather = 0
    /\ \/ Paced(0)
       \/ Paced(FetchMax) /\ pc # "fetch" /\ sinceWeather <= gap

(* Inside the range of the counters the time behind a callback is enough.  *)
LEMMA PacedIsBounded ==
  ASSUME TypeOK, NEW extra \in 0 .. FetchMax, count \in 1 .. 6, Paced(extra)
  PROVE  gap <= LongestGap - FetchMax + extra
<1>1. /\ Due(count) \in Nat
      /\ Due(count) + 2 * Recovery + FetchMax <= LongestGap
  BY DueSteps
<1> HIDE DEF Due
<1>2. gap \in Nat /\ sinceSensor \in 0 .. 1
  BY Lengths DEF TypeOK, SensorPeriod
<1> QED
  BY <1>1, <1>2, Lengths DEF TypeOK, Paced, Pcs, Places

(* A step that reads, shows without an upload, or sleeps.                  *)
LEMMA PacedStep ==
  ASSUME TypeOK, TypeOK', NEW extra \in 0 .. FetchMax, count \in 1 .. 6,
         Paced(extra),
         \/ pc = "timer2" /\ TimerExec
         \/ NotDue
         \/ ReadHumidity \/ ReadTemperature
         \/ HumidityData \/ TemperatureData
         \/ TitleAndUpload /\ ~UploadDue
         \/ Sleep
  PROVE  Paced(extra)' /\ count' \in 1 .. 6
<1> DEFINE due == Due(count)
           due2 == Due(count')
<1>1. /\ due \in Nat /\ due >= 1
      /\ due + 2 * Recovery + FetchMax <= LongestGap
      /\ count' \in 1 .. 6 => due2 \in Nat
      /\ count' = count => due2 = due
      /\ count \in 1 .. 5 /\ count' = count + 1 => due2 = due + Each
  BY DueSteps
<1>2. /\ gap \in Nat /\ gap' \in Nat
      /\ sinceSensor \in 0 .. 1 /\ sinceSensor' \in 0 .. 1
  BY Lengths DEF TypeOK, SensorPeriod
<1>3. /\ Recovery \in Nat /\ FetchMax \in Nat /\ extra \in Nat
      /\ Each \in Nat /\ Each >= 1 /\ Each >= 2 * Recovery
  BY Lengths
<1>4. /\ pc \in Places => gap <= due - (1 - sinceSensor) + extra
      /\ pc = "humidity" => gap <= due + extra
      /\ pc \in {"humidityData", "temperature"} =>
           /\ gap <= due + Recovery + extra
           /\ sinceSensor = 0 => gap <= due + extra
      /\ pc \in {"temperatureData", "title"} =>
           /\ gap <= due + 2 * Recovery + extra
           /\ sinceSensor = 0 => gap <= due + extra
  BY DEF Paced
<1>5. SUFFICES
        /\ count' \in 1 .. 6
        /\ pc' \in Places => gap' <= due2 - (1 - sinceSensor') + extra
        /\ pc' = "humidity" => gap' <= due2 + extra
        /\ pc' \in {"humidityData", "temperature"} =>
             /\ gap' <= due2 + Recovery + extra
             /\ sinceSensor' = 0 => gap' <= due2 + extra
        /\ pc' \in {"temperatureData", "title"} =>
             /\ gap' <= due2 + 2 * Recovery + extra
             /\ sinceSensor' = 0 => gap' <= due2 + extra
  BY DEF Paced, Due, First, Each, AtLeast, Places
<1> HIDE DEF due, due2
<1> USE DEF Places, uploadVars, sensorVars, clockVars
<1>6. CASE pc = "timer2" /\ TimerExec
  <2>1. /\ pc' = "humidity" /\ sinceSensor = 1
        /\ gap' = gap /\ count' = count
    BY <1>6 DEF TimerExec, SensorPeriod
  <2>2. gap <= due + extra /\ due2 = due
    BY <2>1, <1>1, <1>2, <1>3, <1>4, <1>6
  <2> QED
    BY <2>1, <2>2
<1>7. CASE NotDue
  <2>1. /\ pc \in Places /\ pc' \in Places
        /\ gap' = gap /\ count' = count /\ sinceSensor' = sinceSensor
    BY <1>7 DEF NotDue
  <2> QED
    BY <2>1, <1>1, <1>2, <1>3, <1>4
<1>8. CASE ReadHumidity \/ ReadTemperature
  <2>1. PICK d \in 0 .. Recovery : Passes(d)
    BY <1>8, MeasureEffect DEF ReadHumidity, ReadTemperature
  <2>2. /\ gap' <= gap + d
        /\ sinceSensor' = 0 => sinceSensor = 0 /\ d = 0
        /\ d \in Nat /\ d <= Recovery
    BY <2>1, <1>3, PassesEffect
  <2>3. count' = count
    BY <1>8 DEF ReadHumidity, ReadTemperature
  <2>4. CASE ReadHumidity
    BY <2>2, <2>3, <2>4, <1>1, <1>2, <1>3, <1>4 DEF ReadHumidity
  <2>5. CASE ReadTemperature
    BY <2>2, <2>3, <2>5, <1>1, <1>2, <1>3, <1>4 DEF ReadTemperature
  <2> QED
    BY <1>8, <2>4, <2>5
<1>9. CASE TitleAndUpload /\ ~UploadDue
  <2>1. /\ pc = "title" /\ pc' = "timer"
        /\ gap' = gap /\ sinceSensor' = sinceSensor
        /\ count \in 1 .. 5 /\ count' = count + 1
    BY <1>9 DEF TitleAndUpload, UploadDue
  <2> QED
    BY <2>1, <1>1, <1>2, <1>3, <1>4
<1>10. CASE Sleep
  <2>1. PICK d \in 0 .. 1 : Passes(d) /\ (d = 1 => sinceSensor = 0)
    BY <1>10, SleepEffect
  <2>2. /\ gap' <= gap + d
        /\ sinceSensor' = 0 => sinceSensor = 0 /\ d = 0
        /\ d = 0 => sinceSensor' = sinceSensor
    BY <2>1, PassesEffect
  <2>3. pc = "sleep" /\ pc' = "timer2" /\ count' = count
    BY <1>10 DEF Sleep
  <2>4. gap <= due - (1 - sinceSensor) + extra /\ due2 = due
    BY <2>3, <1>1, <1>4
  <2>5. gap' <= due2 - (1 - sinceSensor') + extra
    <3>1. CASE d = 0
      BY <3>1, <2>2, <2>4, <1>1, <1>2, <1>3
    <3>2. CASE d = 1
      <4>1. sinceSensor = 0 /\ sinceSensor' = 1 /\ gap' <= gap + 1
        BY <3>2, <2>1, <2>2, <1>2
      <4> QED
        BY <4>1, <2>4, <1>1, <1>2, <1>3
    <3> QED
      BY <2>1, <3>1, <3>2
  <2> QED
    BY <2>3, <2>5
<1>11. CASE HumidityData \/ TemperatureData
  <2>1. gap' = gap /\ sinceSensor' = sinceSensor /\ count' = count
    BY <1>11 DEF HumidityData, TemperatureData
  <2>2. CASE HumidityData
    BY <2>1, <2>2, <1>1, <1>2, <1>3, <1>4 DEF HumidityData
  <2>3. CASE TemperatureData
    BY <2>1, <2>3, <1>1, <1>2, <1>3, <1>4 DEF TemperatureData
  <2> QED
    BY <1>11, <2>2, <2>3
<1> QED
  BY <1>6, <1>7, <1>8, <1>9, <1>10, <1>11

LEMMA UploadStartsThePace ==
  ASSUME TypeOK, TitleAndUpload, UploadDue
  PROVE  PaceInv'
<1>1. PICK d \in 0 .. UploadMax :
        gap' = d /\ sinceSensor' = Later(sinceSensor, d, SensorPeriod)
  BY DEF TitleAndUpload
<1>2. count' = 1 /\ pc' = "timer"
  BY DEF TitleAndUpload, UploadDue
<1>3. sinceSensor' \in 0 .. 1 /\ (sinceSensor' = 0 => d = 0)
  BY <1>1, Lengths DEF TypeOK, SensorPeriod, Later, AtMost
<1>4. gap' <= First - (1 - sinceSensor') + 0
  <2>1. CASE sinceSensor' = 0
    BY <2>1, <1>1, <1>3, Lengths
  <2>2. CASE sinceSensor' = 1
    BY <2>2, <1>1, <1>3, Lengths
  <2> QED
    BY <1>3, <2>1, <2>2
<1>5. Due(count)' = First
  BY <1>2, DueSteps DEF Due, First, Each, AtLeast
<1> QED
  BY <1>2, <1>4, <1>5 DEF PaceInv, Paced, Places

(* The sensor and stuttering touch none of this.                           *)
LEMMA PaceFrame ==
  ASSUME PaceInv, UNCHANGED <<clockVars, uploadVars, pc>>
  PROVE  PaceInv'
BY DEF PaceInv, Paced, Places, Due, First, Each, AtLeast, clockVars,
       uploadVars

LEMMA PaceKept ==
  ASSUME TypeOK, TypeOK', PaceInv, [Next]_vars
  PROVE  PaceInv'
<1> USE DEF sensorVars, clockVars, uploadVars
<1>1. CASE TitleAndUpload /\ UploadDue
  BY <1>1, UploadStartsThePace
<1>2. CASE BusChange \/ CalibrationLost \/ UNCHANGED vars
  BY <1>2, PaceFrame DEF BusChange, CalibrationLost, vars
<1>3. ASSUME \/ pc = "timer2" /\ TimerExec
             \/ NotDue
             \/ ReadHumidity \/ ReadTemperature
             \/ HumidityData \/ TemperatureData
             \/ TitleAndUpload /\ ~UploadDue
             \/ Sleep,
             uploaded
      PROVE  PaceInv'
  <2>1. pc' # "fetch" /\ count \in 1 .. 6
    BY <1>3 DEF TimerExec, NotDue, ReadHumidity, ReadTemperature,
       HumidityData, TemperatureData, TitleAndUpload, Sleep, PaceInv
  <2>2. CASE Paced(0)
    <3>1. Paced(0)' /\ count' \in 1 .. 6
      BY <1>3, <2>1, <2>2, PacedStep, Lengths
    <3> QED
      BY <2>1, <3>1 DEF PaceInv
  <2>3. CASE Paced(FetchMax) /\ sinceWeather <= gap
    <3>1. Paced(FetchMax)' /\ count' \in 1 .. 6
      BY <1>3, <2>1, <2>3, PacedStep, Lengths
    <3>2. gap' <= LongestGap
      <4>1. Due(count') + 2 * Recovery + FetchMax <= LongestGap
               /\ Due(count') \in Nat
        BY <3>1, DueSteps
      <4>2. Due(count)' = Due(count')
        BY DEF Due, First, Each, AtLeast
      <4>3. /\ gap' \in Nat /\ sinceSensor' \in 0 .. 1
        BY Lengths DEF TypeOK, SensorPeriod
      <4> HIDE DEF Due
      <4> QED
        BY <3>1, <4>1, <4>2, <4>3, Lengths DEF TypeOK, Paced, Pcs, Places
    <3>3. \/ UNCHANGED <<gap, sinceWeather>>
          \/ \E d \in Nat : Passes(d)
      <4>1. CASE \/ pc = "timer2" /\ TimerExec
                 \/ NotDue
                 \/ HumidityData \/ TemperatureData
                 \/ TitleAndUpload /\ ~UploadDue
        BY <4>1 DEF TimerExec, NotDue, HumidityData, TemperatureData,
           TitleAndUpload
      <4>2. CASE ReadHumidity \/ ReadTemperature
        <5>1. Measure
          BY <4>2 DEF ReadHumidity, ReadTemperature
        <5> QED
          BY <5>1, MeasureEffect, Lengths
      <4>3. CASE Sleep
        BY <4>3, SleepEffect
      <4> QED
        BY <1>3, <4>1, <4>2, <4>3
    <3>4. sinceWeather' <= gap'
      BY <2>3, <3>2, <3>3, PassesEffect, Lengths DEF TypeOK
    <3> QED
      BY <2>1, <3>1, <3>4 DEF PaceInv
  <2> QED
    BY <1>3, <2>2, <2>3 DEF PaceInv
<1>4. ASSUME pc = "timer", TimerExec, uploaded PROVE PaceInv'
  <2>1. sinceWeather = WeatherPeriod /\ pc' = "fetch" /\ sinceWeather' = 0
           /\ UNCHANGED <<gap, count, sinceSensor>>
    BY <1>4 DEF TimerExec
  <2>2. Paced(0)
    <3>1. Paced(FetchMax) => gap <= LongestGap
      BY <1>4, PacedIsBounded, Lengths DEF PaceInv, TypeOK
    <3> QED
      BY <1>4, <2>1, <3>1, Lengths DEF PaceInv, TypeOK
  <2>3. Paced(0)'
    BY <2>1, <2>2, <1>4 DEF Paced, Places, Due, First, Each, AtLeast
  <2> QED
    BY <1>4, <2>1, <2>3 DEF PaceInv
<1>5. ASSUME Fetch, uploaded PROVE PaceInv'
  <2>1. PICK d \in 0 .. FetchMax : Passes(d)
    BY <1>5 DEF Fetch
  <2>2. /\ pc = "fetch" /\ pc' = "sleep" /\ count' = count
        /\ count \in 1 .. 6 /\ sinceWeather = 0 /\ Paced(0)
    BY <1>5 DEF Fetch, PaceInv
  <2>3. gap <= Due(count) - (1 - sinceSensor) + 0
    BY <2>2 DEF Paced, Places
  <2>4. /\ Due(count) \in Nat
        /\ Due(count) + 2 * Recovery + FetchMax <= LongestGap
    BY <2>2, DueSteps
  <2>5. Due(count)' = Due(count)
    BY <2>2 DEF Due, First, Each, AtLeast
  <2>6. /\ gap' <= gap + d /\ sinceWeather' <= d
        /\ gap' <= LongestGap => gap' = gap + d
        /\ sinceSensor' = 0 => sinceSensor = 0
        /\ d \in Nat /\ d <= FetchMax /\ gap \in Nat /\ gap' \in Nat
        /\ sinceSensor \in 0 .. 1 /\ sinceSensor' \in 0 .. 1
        /\ sinceWeather' \in Nat
    BY <2>1, <2>2, PassesEffect, Lengths DEF TypeOK, SensorPeriod
  <2> HIDE DEF Due
  <2>7. gap' <= Due(count)' - (1 - sinceSensor') + FetchMax
    <3>1. sinceSensor <= sinceSensor'
      BY <2>6
    <3> QED
      BY <3>1, <2>3, <2>4, <2>5, <2>6, Lengths
  <2>8. sinceWeather' <= gap'
    <3>1. gap' <= LongestGap
      BY <2>7, <2>4, <2>5, <2>6, Lengths
    <3> QED
      BY <3>1, <2>6
  <2>9. Paced(FetchMax)'
    BY <2>2, <2>7 DEF Paced, Places
  <2> QED
    BY <2>2, <2>8, <2>9 DEF PaceInv
<1>6. uploaded' => uploaded \/ (TitleAndUpload /\ UploadDue) \/ UNCHANGED vars
  BY DEF Next, Lvgl, TimerExec, NotDue, ReadHumidity, ReadTemperature,
     HumidityData, TemperatureData, TitleAndUpload, Fetch, Sleep, BusChange, CalibrationLost
<1>7. CASE ~uploaded'
  BY <1>7 DEF PaceInv
<1>8. CASE TimerExec
  BY <1>8, <1>3, <1>4, <1>6, <1>7 DEF TimerExec
<1> QED
  BY <1>1, <1>2, <1>3, <1>5, <1>6, <1>7, <1>8 DEF Next, Lvgl

(* However often the sensor fails, and whatever the fetch takes, the       *)
(* stalls of six callbacks and one fetch are all that lies between two     *)
(* uploads (lv_weather_widgets.c:91-111), for all their lengths.  These    *)
(* are six callbacks, one more than the five seconds of src/README.md:45.  *)
THEOREM GapIsBounded == Spec => []GapBounded
<1>1. Init => PaceInv
  BY DEF Init, PaceInv
<1>2. TypeOK /\ PaceInv => GapBounded
  BY PacedIsBounded, Lengths DEF PaceInv, GapBounded, TypeOK
<1>3. TypeOK /\ TypeOK' /\ PaceInv /\ [Next]_vars => PaceInv'
  BY PaceKept
<1> QED
  BY <1>1, <1>2, <1>3, UiTypeCorrect, PTL DEF Spec
=============================================================================
