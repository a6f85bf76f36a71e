------------------------------ MODULE UiTimers ------------------------------
(***************************************************************************)
(* The two timers of the user interface (lv_weather_widgets.c), both run   *)
(* by the lvgl thread, one after the other:                                *)
(*                                                                         *)
(*   timer2  every second: humidity and temperature from the AHT10, the    *)
(*           title, the upload of the sensor values, the clock;             *)
(*   timer   every ten minutes: the weather, fetched while all else waits. *)
(*                                                                         *)
(* lv_timer_handler runs timer2 before timer (the newest is the head of    *)
(* its list), then the thread sleeps.  Time passes in seconds, and only in *)
(* the steps that wait: a failed reading, the upload, the fetch, the sleep.*)
(***************************************************************************)
EXTENDS Integers

CONSTANTS
  WeatherPeriod,  (* of timer; the period of timer2 is one second          *)
  Recovery,       (* what a reading that fails waits: 1500 + 500 + 450 ms  *)
  UploadMax,      (* bound: the longest publish                            *)
  FetchMax        (* bound: the longest fetch of the weather               *)

SensorPeriod == 1

AtLeast(a, b) == IF a >= b THEN a ELSE b
AtMost(a, b)  == IF a <= b THEN a ELSE b

(* The longest time between two uploads as the code counts, which is not   *)
(* the five seconds of the README (UploadsEveryFiveSeconds): six callbacks *)
(* of a second, each of which may fail both readings, and one fetch.       *)
LongestGap ==
  AtLeast(SensorPeriod, UploadMax) + 5 * AtLeast(SensorPeriod, 2 * Recovery)
    + 2 * Recovery + FetchMax

ASSUME TimesAssumption ==
  /\ Recovery \in Nat /\ UploadMax \in Nat /\ FetchMax \in Nat
  /\ WeatherPeriod \in Nat /\ WeatherPeriod > LongestGap

VARIABLES
  bus,        (* the I2C bus of the AHT10 works                            *)
  calibrated, (* the status bit of the AHT10                               *)
  sinceSensor, sinceWeather,  (* since last_run of each timer, to its period *)
  Humi, Temp, (* the last reading of each: "good", "missing" (0, -50), or  *)
              (* "stray", from an array that was not filled                *)
  title,      (* what the title shows, <<humidity, temperature>>           *)
  count,      (* callbacks of timer2 since the last upload                 *)
  gap,        (* seconds since the last upload                             *)
  uploaded,   (* there has been one                                        *)
  pc          (* where the lvgl thread is                                  *)

sensorVars == <<bus, calibrated>>
clockVars  == <<sinceSensor, sinceWeather, gap>>
uploadVars == <<count, uploaded>>
vars == <<sensorVars, clockVars, Humi, Temp, title, uploadVars, pc>>

Readings == {"none", "good", "missing", "stray"}
Pcs == {"timer2", "humidity", "humidityData", "temperature",
        "temperatureData", "title", "timer", "fetch", "sleep"}

TypeOK ==
  /\ bus \in BOOLEAN /\ calibrated \in BOOLEAN
  /\ sinceSensor \in 0 .. SensorPeriod
  /\ sinceWeather \in 0 .. WeatherPeriod
  /\ gap \in 0 .. LongestGap + 1
  /\ Humi \in Readings /\ Temp \in Readings
  /\ title \in Readings \X Readings
  /\ count \in 0 .. 6
  /\ uploaded \in BOOLEAN
  /\ pc \in Pcs

(* lv_timer_ready has made the first fetch due at once.                    *)
Init ==
  /\ bus \in BOOLEAN /\ calibrated \in BOOLEAN
  /\ sinceSensor = 0
  /\ sinceWeather = WeatherPeriod
  /\ gap = 0
  /\ Humi = "none" /\ Temp = "none"
  /\ title = <<"none", "none">>
  /\ count = 0
  /\ uploaded = FALSE
  /\ pc = "timer2"

-----------------------------------------------------------------------------
(* d seconds pass; what a timer has waited is counted up to its period,    *)
(* the gap to one more than it may ever reach.                             *)
Later(since, d, limit) == AtMost(since + d, limit)

Passes(d) ==
  /\ sinceSensor' = Later(sinceSensor, d, SensorPeriod)
  /\ sinceWeather' = Later(sinceWeather, d, WeatherPeriod)
  /\ gap' = Later(gap, d, LongestGap + 1)

(* lv_timer_exec: last_run is the time at which the callback starts.       *)
TimerExec ==
  /\ \/ /\ pc = "timer2" /\ sinceSensor = SensorPeriod
        /\ sinceSensor' = 0
        /\ pc' = "humidity"
        /\ UNCHANGED sinceWeather
     \/ /\ pc = "timer" /\ sinceWeather = WeatherPeriod
        /\ sinceWeather' = 0
        /\ pc' = "fetch"
        /\ UNCHANGED sinceSensor
  /\ UNCHANGED <<gap, sensorVars, Humi, Temp, title, uploadVars>>

NotDue ==
  /\ \/ pc = "timer2" /\ sinceSensor < SensorPeriod /\ pc' = "timer"
     \/ pc = "timer" /\ sinceWeather < WeatherPeriod /\ pc' = "sleep"
  /\ UNCHANGED <<sensorVars, clockVars, Humi, Temp, title, uploadVars>>

(* calibration_enabled: without calibration the sensor is initialised      *)
(* anew, which takes time, and the reading ends without a value.           *)
Measured == bus /\ calibrated

(* Bug: the sensor is not initialised anew.                                *)
Measure_NoRepair ==
  /\ Passes(IF Measured THEN 0 ELSE Recovery)
  /\ UNCHANGED calibrated

Measure ==
  \/ Measured /\ Passes(0) /\ UNCHANGED calibrated
  \/ ~Measured /\ Passes(Recovery) /\ calibrated' = (calibrated \/ bus)

(* The six bytes are read after the check, and whether they came is not    *)
(* looked at: the array they go to is on the stack and was not set.        *)
Data == IF Measured THEN "good" ELSE "stray"

(* Bug: a reading that fails is tried again until it succeeds.             *)
ReadHumidity_Retries ==
  /\ pc = "humidity"
  /\ Measure
  /\ Humi' = IF Measured THEN Humi ELSE "missing"
  /\ pc' = IF Measured THEN "humidityData" ELSE "humidity"
  /\ UNCHANGED <<bus, Temp, title, uploadVars>>

ReadHumidity ==
  /\ pc = "humidity"
  /\ Measure
  /\ Humi' = IF Measured THEN Humi ELSE "missing"
  /\ pc' = IF Measured THEN "humidityData" ELSE "temperature"
  /\ UNCHANGED <<bus, Temp, title, uploadVars>>

HumidityData ==
  /\ pc = "humidityData"
  /\ Humi' = Data
  /\ pc' = "temperature"
  /\ UNCHANGED <<sensorVars, clockVars, Temp, title, uploadVars>>

ReadTemperature ==
  /\ pc = "temperature"
  /\ Measure
  /\ Temp' = IF Measured THEN Temp ELSE "missing"
  /\ pc' = IF Measured THEN "temperatureData" ELSE "title"
  /\ UNCHANGED <<bus, Humi, title, uploadVars>>

TemperatureData ==
  /\ pc = "temperatureData"
  /\ Temp' = Data
  /\ pc' = "title"
  /\ UNCHANGED <<sensorVars, clockVars, Humi, title, uploadVars>>

(* Bug: one callback late.                                                 *)
UploadDue_Late == count > 6
UploadDue == count > 5

(* The title, mqtt_main_publish when it is due, count, and the clock.      *)
TitleAndUpload ==
  /\ pc = "title"
  /\ title' = <<Humi, Temp>>
  /\ \/ /\ UploadDue
        /\ count' = 1
        /\ uploaded' = TRUE
        /\ \E d \in 0 .. UploadMax :
             /\ gap' = d
             /\ sinceSensor' = Later(sinceSensor, d, SensorPeriod)
             /\ sinceWeather' = Later(sinceWeather, d, WeatherPeriod)
     \/ /\ ~UploadDue
        /\ count' = count + 1
        /\ UNCHANGED <<clockVars, uploaded>>
  /\ pc' = "timer"
  /\ UNCHANGED <<sensorVars, Humi, Temp>>

(* timer_callback: weather_get_test, however it ends.                      *)
Fetch ==
  /\ pc = "fetch"
  /\ \E d \in 0 .. FetchMax : Passes(d)
  /\ pc' = "sleep"
  /\ UNCHANGED <<sensorVars, Humi, Temp, title, uploadVars>>

(* lvgl_thread_entry: the handler is called again until a timer is due.    *)
Sleep ==
  /\ pc = "sleep"
  /\ Passes(IF sinceSensor = SensorPeriod \/ sinceWeather = WeatherPeriod
            THEN 0 ELSE 1)
  /\ pc' = "timer2"
  /\ UNCHANGED <<sensorVars, Humi, Temp, title, uploadVars>>

(* The sensor: a bad contact, a dip of its supply.                         *)
BusChange ==
  /\ bus' = ~bus
  /\ UNCHANGED <<calibrated, clockVars, Humi, Temp, title, uploadVars, pc>>

CalibrationLost ==
  /\ calibrated /\ calibrated' = FALSE
  /\ UNCHANGED <<bus, clockVars, Humi, Temp, title, uploadVars, pc>>

Lvgl == TimerExec \/ NotDue \/ ReadHumidity \/ HumidityData
          \/ ReadTemperature \/ TemperatureData
          \/ TitleAndUpload \/ Fetch \/ Sleep

Next == Lvgl \/ BusChange \/ CalibrationLost

Spec == Init /\ [][Next]_vars

(* The thread of the highest priority of the application runs, and every   *)
(* wait in it ends.                                                        *)
FairSpec == Spec /\ WF_vars(Lvgl)

-----------------------------------------------------------------------------
(* Properties.                                                             *)

(* The gap the code does keep, six callbacks and not five seconds: however *)
(* often the sensor fails, and whatever the fetch takes, the stalls do not *)
(* add up.  A timer that is late runs at once and is not late for the next *)
(* time.                                                                   *)
GapBounded == uploaded => gap <= LongestGap

(* src/README.md:45 promises the sensor values every five seconds.  count  *)
(* is compared before it is incremented, and so the upload comes with      *)
(* every sixth callback: after six seconds even when nothing stalls        *)
(* (lv_weather_widgets.c:99-108).  The code does not keep this.            *)
UploadsEveryFiveSeconds == uploaded => gap <= 5

(* A sensor that works again is shown and uploaded again: a reading that   *)
(* fails repairs what made it fail.                                        *)
SensorRecovers ==
  (<>[]bus /\ <>[][calibrated => calibrated']_vars)
    => <>[](title = <<"good", "good">>)
=============================================================================
