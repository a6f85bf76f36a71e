-------------------------- MODULE LedMatrix_proofs --------------------------
(***************************************************************************)
(* What lvgl sends to the strip (LedMatrix), for a strip of any length and *)
(* any LEDs the clock lights.                                              *)
(*                                                                         *)
(* From Tick to the end of its redraw lvgl is not idle, so tshell does not *)
(* run: Redrawn follows the two drawings through the loops, whatever the   *)
(* command it preempted left behind.  Alone says that without a command    *)
(* the channel, the lock and the state of the DMA are what lvgl's place    *)
(* tells.                                                                  *)
(***************************************************************************)
EXTENDS LedMatrix, TLAPS

Plans == {<< >>, <<"rst">>, <<"test">>, <<"clock">>, Clock}

(* The plans are short, and their tails are plans.                         *)
LEMMA PlanTails ==
  /\ Plans \subseteq Seq(Colours)
  /\ \A p \in Plans \ {<< >>} : Tail(p) \in Plans /\ Head(p) \in Colours
  /\ Tail(<<"rst">>) = << >> /\ Tail(<<"test">>) = << >>
  /\ Tail(<<"clock">>) = << >> /\ Tail(Clock) = <<"clock">>
  /\ Head(<<"rst">>) = "rst" /\ Head(<<"test">>) = "test"
  /\ Head(<<"clock">>) = "clock" /\ Head(Clock) = "dark"
  /\ << >> # <<"clock">> /\ << >> # <<"rst">> /\ << >> # Clock
  /\ << >> # <<"test">>
  /\ <<"clock">> # <<"rst">> /\ <<"clock">> # Clock /\ <<"rst">> # Clock
<1>1. Plans \subseteq Seq(Colours)
  BY DEF Plans, Clock, Colours
<1>2. /\ Tail(<<"rst">>) = << >> /\ Tail(<<"test">>) = << >>
      /\ Tail(<<"clock">>) = << >> /\ Tail(Clock) = <<"clock">>
  BY DEF Clock
<1>3. /\ Head(<<"rst">>) = "rst" /\ Head(<<"test">>) = "test"
      /\ Head(<<"clock">>) = "clock" /\ Head(Clock) = "dark"
  BY DEF Clock
<1>4. << >> # <<"clock">> /\ << >> # <<"rst">> /\ << >> # Clock
        /\ << >> # <<"test">>
  BY DEF Clock
<1>5. <<"clock">> # <<"rst">> /\ <<"clock">> # Clock /\ <<"rst">> # Clock
  BY DEF Clock
<1> QED
  BY <1>1, <1>2, <1>3, <1>4, <1>5 DEF Plans, Colours

(* Who has a drawing to do, and which.                                     *)
Planned ==
  /\ \A t \in Threads : pc[t] # "idle" => plan[t] # << >>
  /\ plan["lvgl"] \in {<< >>, <<"rst">>, <<"clock">>, Clock}
  /\ plan["tshell"] \in {<< >>, <<"rst">>, <<"test">>}

(* Where a drawing begins.                                                 *)
Starts(p) ==
  IF p = << >> THEN "idle" ELSE IF p = <<"rst">> THEN "encode" ELSE "paint"

LEMMA BeginEffect ==
  ASSUME TypeOK, NEW t \in Threads, NEW p \in Plans, Begin(t, p)
  PROVE  /\ plan' = [plan EXCEPT ![t] = p]
         /\ led' = [led EXCEPT ![t] = 0]
         /\ pc' = [pc EXCEPT ![t] = Starts(p)]
         /\ RGB_Data' = IF p \in {<<"test">>, Clock} THEN AllDark ELSE RGB_Data
<1>1. CASE p = << >>
  BY <1>1 DEF Begin, Goto, Starts, Clock
<1>2. CASE p = <<"rst">>
  BY <1>2, PlanTails DEF Begin, Goto, Starts, Clock
<1>3. CASE p = <<"test">>
  BY <1>3, PlanTails DEF Begin, Goto, Starts
<1>4. CASE p = <<"clock">>
  BY <1>4, PlanTails DEF Begin, Goto, Starts
<1>5. CASE p = Clock
  BY <1>5, PlanTails DEF Begin, Goto, Starts
<1> QED
  BY <1>1, <1>2, <1>3, <1>4, <1>5 DEF Plans

LEMMA ReturnEffect ==
  ASSUME TypeOK, Planned, NEW t \in Threads, pc[t] # "idle", Return(t)
  PROVE  /\ plan[t] \in Plans \ {<< >>} /\ Tail(plan[t]) \in Plans
         /\ Begin(t, Tail(plan[t]))
<1>1. plan[t] \in Plans \ {<< >>}
  BY DEF Planned, Plans, Threads
<1> QED
  BY <1>1, PlanTails DEF Return

LEMMA BeginKeeps ==
  ASSUME TypeOK, Planned, NEW t \in Threads, NEW p \in Plans, Begin(t, p),
         t = "lvgl" => p \in {<< >>, <<"clock">>, Clock},
         t = "tshell" => p \in {<< >>, <<"rst">>, <<"test">>}
  PROVE  /\ Planned'
         /\ pc' \in [Threads -> Pcs] /\ plan' \in [Threads -> Seq(Colours)]
         /\ led' \in [Threads -> 0 .. LED_NUM]
         /\ RGB_Data' \in [Leds -> Colours]
<1> USE DEF TypeOK
<1>1. plan' = [plan EXCEPT ![t] = p] /\ led' = [led EXCEPT ![t] = 0]
  BY BeginEffect
<1>2. /\ pc' = [pc EXCEPT ![t] = Starts(p)]
      /\ Starts(p) \in {"idle", "encode", "paint"}
      /\ p = << >> => Starts(p) = "idle"
  BY BeginEffect DEF Starts
<1>3. RGB_Data' \in [Leds -> Colours]
  <2>1. AllDark \in [Leds -> Colours]
    BY DEF AllDark, Colours
  <2> QED
    BY <2>1, BeginEffect
<1>4. Planned'
  <2>1. \A u \in Threads : pc'[u] # "idle" => plan'[u] # << >>
    <3>1. plan'[t] = p /\ pc'[t] = Starts(p)
      BY <1>1, <1>2
    <3>2. ASSUME NEW u \in Threads, u # t
          PROVE  plan'[u] = plan[u] /\ pc'[u] = pc[u]
      BY <1>1, <1>2, <3>2
    <3>3. \A u \in Threads : pc[u] # "idle" => plan[u] # << >>
      BY DEF Planned
    <3> QED
      BY <1>2, <3>1, <3>2, <3>3
  <2>2. \A u \in Threads : plan'[u] = IF u = t THEN p ELSE plan[u]
    BY <1>1
  <2>3. "lvgl" \in Threads /\ "tshell" \in Threads
    BY DEF Threads
  <2> QED
    BY <2>1, <2>2, <2>3 DEF Planned
<1>5. pc' \in [Threads -> Pcs]
  BY <1>2 DEF Pcs
<1>6. plan' \in [Threads -> Seq(Colours)]
  BY <1>1, PlanTails
<1>7. led' \in [Threads -> 0 .. LED_NUM]
  BY <1>1, LedsAssumption
<1> QED
  BY <1>3, <1>4, <1>5, <1>6, <1>7

LEMMA ReturnKeeps ==
  ASSUME TypeOK, Planned, NEW t \in Threads, pc[t] # "idle", Return(t)
  PROVE  /\ Planned'
         /\ pc' \in [Threads -> Pcs] /\ plan' \in [Threads -> Seq(Colours)]
         /\ led' \in [Threads -> 0 .. LED_NUM]
         /\ RGB_Data' \in [Leds -> Colours]
<1>1. /\ Tail(plan[t]) \in Plans
      /\ t = "lvgl" => Tail(plan[t]) \in {<< >>, <<"clock">>, Clock}
      /\ t = "tshell" => Tail(plan[t]) \in {<< >>, <<"rst">>, <<"test">>}
  BY ReturnEffect, PlanTails DEF Planned
<1> QED
  BY <1>1, ReturnEffect, BeginKeeps

(* A thread that goes on stays with its drawing.                           *)
GoesOn(t) ==
  /\ UNCHANGED plan
  /\ \E w \in Pcs \ {"idle"} : pc' = [pc EXCEPT ![t] = w]

LEMMA GoesOnKeeps ==
  ASSUME TypeOK, Planned, NEW t \in Threads, pc[t] # "idle", GoesOn(t)
  PROVE  Planned' /\ pc' \in [Threads -> Pcs]
BY DEF TypeOK, Planned, GoesOn

LEMMA StepKinds ==
  ASSUME TypeOK, NEW t \in Threads, Step(t)
  PROVE  pc[t] # "idle" /\ Runs(t) /\ (Return(t) \/ GoesOn(t))
<1> USE DEF TypeOK, GoesOn, Goto, Pcs
<1>1. CASE Paint(t)
  BY <1>1 DEF Paint
<1>2. CASE Encode(t)
  BY <1>2 DEF Encode
<1>3. CASE Wait(t)
  BY <1>3 DEF Wait
<1>4. CASE Channel(t)
  BY <1>4 DEF Channel
<1>5. CASE Claim(t)
  BY <1>5 DEF Claim
<1>6. CASE Lock(t)
  BY <1>6 DEF Lock
<1>7. CASE State(t)
  BY <1>7 DEF State
<1>8. CASE Enable(t)
  BY <1>8 DEF Enable
<1> QED
  BY <1>1, <1>2, <1>3, <1>4, <1>5, <1>6, <1>7, <1>8 DEF Step

LEMMA StepTypes ==
  ASSUME TypeOK, Planned, NEW t \in Threads, Step(t)
  PROVE  TypeOK'
<1> USE LedsAssumption DEF TypeOK, halVars
<1>0. ASSUME NEW w \in Pcs, Goto(t, w)
      PROVE  pc' \in [Threads -> Pcs] /\ led' \in [Threads -> 0 .. LED_NUM]
  BY <1>0 DEF Goto
<1>00. pc[t] # "idle"
  BY StepKinds
<1> USE DEF Pcs
<1>1. CASE Paint(t)
  <2>1. Head(plan[t]) \in Colours
    BY <1>1, <1>00, PlanTails DEF Planned, Plans, Threads
  <2>2. RGB_Data' \in [Leds -> Colours]
    BY <1>1, <2>1 DEF Paint
  <2>3. pc' \in [Threads -> Pcs] /\ led' \in [Threads -> 0 .. LED_NUM]
    <3>1. CASE Goto(t, "encode")
      BY <3>1, <1>0
    <3>2. CASE UNCHANGED pc /\ led[t] < LED_NUM
               /\ led' = [led EXCEPT ![t] = led[t] + 1]
      BY <3>2
    <3> QED
      BY <1>1, <3>1, <3>2 DEF Paint
  <2> QED
    BY <1>1, <2>2, <2>3 DEF Paint
<1>2. CASE Encode(t)
  <2>1. led_buffer' \in [Leds -> Colours]
    <3>1. led[t] < LED_NUM => led[t] \in Leds
      BY DEF Leds
    <3> QED
      BY <1>2, <3>1 DEF Encode, Colours
  <2>2. pc' \in [Threads -> Pcs] /\ led' \in [Threads -> 0 .. LED_NUM]
    <3>1. CASE Goto(t, "wait")
      BY <3>1, <1>0
    <3>2. CASE UNCHANGED pc /\ led[t] < LED_NUM
               /\ led' = [led EXCEPT ![t] = led[t] + 1]
      BY <3>2
    <3> QED
      BY <1>2, <3>1, <3>2 DEF Encode
  <2> QED
    BY <1>2, <2>1, <2>2 DEF Encode
<1>3. CASE Wait(t)
  BY <1>3, <1>0 DEF Wait
<1>4. CASE Channel(t)
  <2>1. CASE Return(t)
    BY <1>4, <1>00, <2>1, ReturnKeeps DEF Channel
  <2>2. CASE Goto(t, "claim") /\ UNCHANGED <<RGB_Data, plan>>
    BY <1>4, <1>0, <2>2 DEF Channel
  <2> QED
    BY <1>4, <2>1, <2>2 DEF Channel
<1>5. CASE Claim(t)
  BY <1>5, <1>0 DEF Claim
<1>6. CASE Lock(t)
  <2>1. CASE Return(t)
    BY <1>6, <1>00, <2>1, ReturnKeeps DEF Lock
  <2>2. CASE (Goto(t, "locked") \/ Goto(t, "state"))
             /\ UNCHANGED <<RGB_Data, plan>>
    BY <1>6, <1>0, <2>2 DEF Lock
  <2> QED
    BY <1>6, <2>1, <2>2 DEF Lock
<1>7. CASE State(t)
  <2>1. CASE Return(t)
    BY <1>7, <1>00, <2>1, ReturnKeeps DEF State
  <2>2. CASE (Goto(t, "ready") \/ Goto(t, "enable"))
             /\ UNCHANGED <<RGB_Data, plan>>
    BY <1>7, <1>0, <2>2 DEF State
  <2> QED
    BY <1>7, <2>1, <2>2 DEF State
<1>8. CASE Enable(t)
  BY <1>8, <1>00, ReturnKeeps DEF Enable
<1> QED
  BY <1>1, <1>2, <1>3, <1>4, <1>5, <1>6, <1>7, <1>8 DEF Step

(* The hardware touches neither the threads nor what they draw.            *)
Hardware == Stream \/ Complete \/ Rest

LEMMA HardwareFrame ==
  ASSUME Hardware
  PROVE  UNCHANGED <<RGB_Data, led_buffer, threadVars>>
BY DEF Hardware, Stream, Complete, Rest

LEMMA LedKept ==
  ASSUME TypeOK, Planned, [Next]_vars
  PROVE  TypeOK' /\ Planned'
<1>1. CASE Tick
  <2>1. "lvgl" \in Threads /\ Clock \in Plans /\ Begin("lvgl", Clock)
    BY <1>1 DEF Tick, Threads, Plans
  <2>2. overtaken' \in 0 .. Overtakings
    BY <1>1 DEF Tick, TypeOK, Overtakings
  <2> QED
    BY <1>1, <2>1, <2>2, BeginKeeps DEF Tick, TypeOK, halVars
<1>2. CASE Command
  <2>1. PICK p \in Commands : Begin("tshell", p)
    BY <1>2 DEF Command
  <2>2. /\ p \in Plans /\ "tshell" \in Threads
        /\ p \in {<< >>, <<"rst">>, <<"test">>}
    BY DEF Commands, Plans, Threads
  <2>3. overtaken' \in 0 .. Overtakings
    BY <1>2 DEF Command, TypeOK, Overtakings
  <2>4. /\ Planned'
        /\ pc' \in [Threads -> Pcs] /\ plan' \in [Threads -> Seq(Colours)]
        /\ led' \in [Threads -> 0 .. LED_NUM]
        /\ RGB_Data' \in [Leds -> Colours]
    BY <2>1, <2>2, BeginKeeps
  <2> QED
    BY <1>2, <2>3, <2>4 DEF Command, TypeOK, halVars
<1>3. ASSUME NEW t \in Threads, Step(t) PROVE TypeOK' /\ Planned'
  BY <1>3, StepTypes, StepKinds, ReturnKeeps, GoesOnKeeps
<1>4. CASE Hardware
  <2>1. /\ streaming' \in BOOLEAN /\ sent' \in 0 .. LED_NUM
        /\ taken' \in 0 .. LED_NUM
        /\ channel' \in {"READY", "BUSY"} /\ dma' \in {"READY", "BUSY"}
        /\ hal_lock' \in BOOLEAN
    <3>1. CASE Stream
      BY <3>1, LedsAssumption DEF Stream, TypeOK, halVars
    <3>2. CASE Complete
      BY <3>2 DEF Complete, TypeOK
    <3>3. CASE Rest
      BY <3>3, LedsAssumption DEF Rest, TypeOK, halVars
    <3> QED
      BY <1>4, <3>1, <3>2, <3>3 DEF Hardware
  <2> QED
    BY <1>4, <2>1, HardwareFrame DEF TypeOK, Planned, threadVars
<1>5. CASE UNCHANGED vars
  BY <1>5 DEF vars, threadVars, halVars, TypeOK, Planned
<1> QED
  BY <1>1, <1>2, <1>3, <1>4, <1>5 DEF Next, Hardware

LEMMA LedInit == Init => TypeOK /\ Planned
<1> SUFFICES ASSUME Init PROVE TypeOK /\ Planned
  OBVIOUS
<1>1. AllDark \in [Leds -> Colours]
  BY DEF AllDark, Colours
<1>2. /\ pc \in [Threads -> Pcs]
      /\ led \in [Threads -> 0 .. LED_NUM]
      /\ sent \in 0 .. LED_NUM /\ taken \in 0 .. LED_NUM
      /\ overtaken \in 0 .. Overtakings
  BY LedsAssumption DEF Init, Pcs, Overtakings
<1>3. plan \in [Threads -> Seq(Colours)]
  BY PlanTails DEF Init, Plans
<1>4. Planned
  BY PlanTails DEF Init, Planned, Threads
<1> QED
  BY <1>1, <1>2, <1>3, <1>4 DEF Init, TypeOK

LEMMA LedAlways == Spec => [](TypeOK /\ Planned)
BY LedInit, LedKept, PTL DEF Spec

(* Every reachable state has the types of TypeOK: no loop over the LEDs    *)
(* leaves the strip, and the drawings of a thread are led_matrix_set_time, *)
(* led_matrix_rst or a test, one after the other.                          *)
THEOREM LedTypeCorrect == Spec => []TypeOK
BY LedAlways, PTL

-----------------------------------------------------------------------------
(* The clock, through its two drawings.                                    *)

Redrawn ==
  pc["lvgl"] # "idle" =>
    /\ plan["lvgl"] = Clock => RGB_Data = AllDark
    /\ plan["lvgl"] = <<"clock">> =>
         /\ pc["lvgl"] = "paint" =>
              \A j \in Leds : RGB_Data[j] =
                (IF j < led["lvgl"] THEN ClockFrame[j] ELSE "dark")
         /\ pc["lvgl"] # "paint" => RGB_Data = ClockFrame
         /\ pc["lvgl"] = "encode" =>
              \A j \in Leds :
                j < led["lvgl"] => led_buffer[j] = ClockFrame[j]
         /\ pc["lvgl"] \notin {"paint", "encode"} => led_buffer = ClockFrame

LEMMA ReturnsTo ==
  ASSUME TypeOK, Planned, NEW t \in Threads, pc[t] # "idle", Return(t)
  PROVE  /\ plan'[t] = Tail(plan[t])
         /\ led'[t] = 0
         /\ pc'[t] = "idle" <=> Tail(plan[t]) = << >>
         /\ pc'[t] = "encode" <=> Tail(plan[t]) = <<"rst">>
         /\ pc'[t] \in {"idle", "encode", "paint"}
         /\ plan[t] = Clock => RGB_Data' = RGB_Data
<1>1. PICK p \in Plans : p = Tail(plan[t]) /\ Begin(t, p)
  BY ReturnEffect
<1>2. /\ plan' = [plan EXCEPT ![t] = p]
      /\ led' = [led EXCEPT ![t] = 0]
      /\ pc' = [pc EXCEPT ![t] = Starts(p)]
      /\ RGB_Data' = IF p \in {<<"test">>, Clock} THEN AllDark ELSE RGB_Data
  BY <1>1, BeginEffect
<1>3. plan[t] = Clock => p = <<"clock">>
  BY <1>1, PlanTails
<1>4. <<"clock">> # Clock /\ <<"clock">> # <<"test">> /\ << >> # <<"rst">>
  BY PlanTails
<1> QED
  BY <1>1, <1>2, <1>3, <1>4 DEF TypeOK, Starts

LEMMA RedrawnKept ==
  ASSUME TypeOK, Planned, Redrawn, [Next]_vars
  PROVE  Redrawn'
<1> USE DEF TypeOK, Redrawn
<1>0. "lvgl" \in Threads /\ "tshell" \in Threads /\ LED_NUM \in Nat
        /\ \A t \in Threads : t = "lvgl" \/ t = "tshell"
  BY LedsAssumption DEF Threads
<1>1. CASE Tick
  <2>1. Clock \in Plans /\ Begin("lvgl", Clock)
    BY <1>1 DEF Tick, Plans
  <2>2. plan'["lvgl"] = Clock /\ RGB_Data' = AllDark
    BY <1>0, <2>1, BeginEffect
  <2> QED
    BY <2>2, PlanTails
<1>2. CASE Command
  BY <1>0, <1>2 DEF Command, Runs, Begin, Goto
<1>3. CASE Step("tshell")
  <2>1. pc["lvgl"] = "idle"
    BY <1>0, <1>3, StepKinds DEF Runs
  <2>2. pc'["lvgl"] = "idle"
    BY <1>0, <1>3, <2>1, StepKinds DEF Return, Begin, Goto, GoesOn
  <2> QED
    BY <2>2
<1>4. ASSUME Return("lvgl"), pc["lvgl"] # "idle" PROVE Redrawn'
  <2>1. /\ plan'["lvgl"] = Tail(plan["lvgl"])
        /\ led'["lvgl"] = 0
        /\ pc'["lvgl"] = "idle" <=> Tail(plan["lvgl"]) = << >>
        /\ pc'["lvgl"] = "encode" <=> Tail(plan["lvgl"]) = <<"rst">>
        /\ pc'["lvgl"] \in {"idle", "encode", "paint"}
        /\ plan["lvgl"] = Clock => RGB_Data' = RGB_Data
    BY <1>4, <1>0, ReturnsTo
  <2>2. CASE plan["lvgl"] = Clock
    <3>1. /\ plan'["lvgl"] = <<"clock">> /\ pc'["lvgl"] = "paint"
      BY <2>1, <2>2, PlanTails
    <3>2. RGB_Data' = AllDark
      BY <1>4, <2>1, <2>2
    <3>3. \A j \in Leds : j \in Nat /\ AllDark[j] = "dark"
      BY <1>0 DEF Leds, AllDark
    <3> QED
      BY <2>1, <3>1, <3>2, <3>3, PlanTails
  <2>3. CASE plan["lvgl"] # Clock
    <3>1. plan["lvgl"] \in {<<"rst">>, <<"clock">>}
      BY <1>0, <1>4, <2>3 DEF Planned
    <3>2. Tail(plan["lvgl"]) = << >>
      BY <3>1, PlanTails
    <3> QED
      BY <2>1, <3>2
  <2> QED
    BY <2>2, <2>3
<1>5. CASE Paint("lvgl")
  <2>1. /\ pc["lvgl"] = "paint" /\ UNCHANGED <<plan, led_buffer>>
    BY <1>5 DEF Paint
  <2>2. CASE plan["lvgl"] = Clock
    <3>1. RGB_Data' = RGB_Data
      BY <1>0, <1>5, <2>1, <2>2, PlanTails DEF Paint, AllDark, Leds
    <3> QED
      BY <2>1, <2>2, <3>1, PlanTails
  <2>3. CASE plan["lvgl"] = <<"clock">>
    <3>1. CASE led["lvgl"] < LED_NUM
      <4>1. /\ pc' = pc /\ led'["lvgl"] = led["lvgl"] + 1
            /\ RGB_Data' = IF led["lvgl"] \in Lit
                           THEN [RGB_Data EXCEPT ![led["lvgl"]] = "clock"]
                           ELSE RGB_Data
        BY <1>0, <1>5, <2>3, <3>1, PlanTails DEF Paint
      <4>2. \A j \in Leds : /\ j \in Nat
                            /\ ClockFrame[j] =
                                 IF j \in Lit THEN "clock" ELSE "dark"
        BY <1>0 DEF Leds, ClockFrame
      <4>3. led["lvgl"] \in Nat
        BY <1>0
      <4> QED
        BY <2>1, <2>3, <4>1, <4>2, <4>3, PlanTails
    <3>2. CASE led["lvgl"] = LED_NUM
      <4>1. /\ pc'["lvgl"] = "encode" /\ led'["lvgl"] = 0
            /\ RGB_Data' = RGB_Data
        BY <1>0, <1>5, <2>3, <3>2, PlanTails DEF Paint, Goto
      <4>2. \A j \in Leds : j \in Nat /\ j < LED_NUM
        BY <1>0 DEF Leds
      <4>3. RGB_Data = ClockFrame
        BY <2>1, <2>3, <3>2, <4>2 DEF ClockFrame
      <4> QED
        BY <2>1, <2>3, <4>1, <4>2, <4>3, PlanTails
    <3> QED
      BY <1>0, <3>1, <3>2
  <2>4. CASE plan["lvgl"] \notin {Clock, <<"clock">>}
    BY <2>1, <2>4
  <2> QED
    BY <2>2, <2>3, <2>4
<1>6. CASE Encode("lvgl")
  <2>1. /\ pc["lvgl"] = "encode" /\ UNCHANGED <<plan, RGB_Data>>
    BY <1>6 DEF Encode
  <2>2. CASE plan["lvgl"] = <<"clock">>
    <3>1. \A j \in Leds : j \in Nat /\ j < LED_NUM
      BY <1>0 DEF Leds
    <3>2. CASE led["lvgl"] < LED_NUM
      <4>1. /\ pc' = pc /\ led'["lvgl"] = led["lvgl"] + 1
            /\ led_buffer' = [led_buffer EXCEPT ![led["lvgl"]] =
                                RGB_Data[led["lvgl"]]]
        BY <1>0, <1>6, <2>2, <3>2, PlanTails DEF Encode
      <4>2. led["lvgl"] \in Nat /\ RGB_Data = ClockFrame
        BY <1>0, <2>1, <2>2
      <4>3. \A j \in Leds :
              j < led'["lvgl"] => led_buffer'[j] = ClockFrame[j]
        BY <2>1, <2>2, <3>1, <4>1, <4>2
      <4> QED
        BY <2>1, <2>2, <4>1, <4>2, <4>3, PlanTails
    <3>3. CASE led["lvgl"] = LED_NUM
      <4>1. pc'["lvgl"] = "wait" /\ led_buffer' = led_buffer
        BY <1>0, <1>6, <3>3 DEF Encode, Goto
      <4>2. led_buffer = ClockFrame
        BY <2>1, <2>2, <3>1, <3>3 DEF ClockFrame
      <4> QED
        BY <2>1, <2>2, <4>1, <4>2, PlanTails
    <3> QED
      BY <1>0, <3>2, <3>3
  <2>3. CASE plan["lvgl"] # <<"clock">>
    BY <2>1, <2>3
  <2> QED
    BY <2>2, <2>3
<1>7. ASSUME pc["lvgl"] \notin {"idle", "paint", "encode"},
             NEW w \in Pcs \ {"idle", "paint", "encode"},
             pc' = [pc EXCEPT ![ "lvgl" ] = w],
             UNCHANGED <<plan, RGB_Data, led_buffer>>
      PROVE  Redrawn'
  BY <1>0, <1>7
<1>8. CASE Wait("lvgl")
  BY <1>0, <1>7, <1>8 DEF Wait, Goto, Pcs
<1>9. CASE Channel("lvgl")
  BY <1>4, <1>7, <1>9 DEF Channel, Goto, Pcs
<1>10. CASE Claim("lvgl")
  BY <1>7, <1>10 DEF Claim, Goto, Pcs
<1>11. CASE Lock("lvgl")
  BY <1>4, <1>7, <1>11 DEF Lock, Goto, Pcs
<1>12. CASE State("lvgl")
  BY <1>4, <1>7, <1>12 DEF State, Goto, Pcs
<1>13. CASE Enable("lvgl")
  BY <1>4, <1>13 DEF Enable
<1>14. CASE Hardware \/ UNCHANGED vars
  BY <1>14, HardwareFrame DEF threadVars, vars
<1> QED
  BY <1>0, <1>1, <1>2, <1>3, <1>5, <1>6, <1>8, <1>9, <1>10, <1>11, <1>12,
     <1>13, <1>14 DEF Next, Step, Hardware

(* When lvgl sends the clock the buffer holds the clock and nothing else   *)
(* (led_clock.c:14-63), for any strip and any time, wherever it          *)
(* preempted a command.                                                    *)
THEOREM ClockAlwaysRedrawn == Spec => []ClockIsRedrawn
<1>1. Init => Redrawn
  BY PlanTails DEF Init, Redrawn, Threads
<1>2. TypeOK /\ Planned /\ Redrawn /\ [Next]_vars => Redrawn'
  BY RedrawnKept
<1>3. Redrawn => ClockIsRedrawn
  BY DEF Redrawn, ClockIsRedrawn
<1> QED
  BY <1>1, <1>2, <1>3, LedAlways, PTL DEF Spec

-----------------------------------------------------------------------------
(* The HAL, while lvgl is alone.                                           *)

Hal(s, c, h, d) == streaming = s /\ channel = c /\ hal_lock = h /\ dma = d

Free == Hal(FALSE, "READY", FALSE, "READY")
Busy == Hal(TRUE, "BUSY", TRUE, "BUSY")

Alone ==
  ~commanded =>
    /\ pc["tshell"] = "idle"
    /\ pc["lvgl"] \in {"idle", "paint", "encode", "wait"} => Free \/ Busy
    /\ pc["lvgl"] \in {"channel", "claim"} => Free
    /\ pc["lvgl"] \in {"lock", "locked"} => Hal(FALSE, "BUSY", FALSE, "READY")
    /\ pc["lvgl"] \in {"state", "ready"} => Hal(FALSE, "BUSY", TRUE, "READY")
    /\ pc["lvgl"] = "enable" => Hal(FALSE, "BUSY", TRUE, "BUSY")

LEMMA BeginMoves ==
  ASSUME TypeOK, NEW t \in Threads, NEW p, Begin(t, p)
  PROVE  /\ pc'[t] \in {"idle", "paint", "encode"}
         /\ \A u \in Threads : u # t => pc'[u] = pc[u]
BY DEF TypeOK, Begin, Goto

LEMMA AloneKept ==
  ASSUME TypeOK, Alone, [Next]_vars
  PROVE  Alone'
<1>0. "lvgl" \in Threads /\ "tshell" \in Threads /\ "lvgl" # "tshell"
        /\ \A t \in Threads : t = "lvgl" \/ t = "tshell"
  BY DEF Threads
<1>1. CASE Tick
  <2>1. /\ pc["lvgl"] = "idle" /\ Begin("lvgl", Clock)
        /\ UNCHANGED <<halVars, streaming, commanded>>
    BY <1>1 DEF Tick
  <2>2. pc'["lvgl"] \in {"idle", "paint", "encode"}
          /\ pc'["tshell"] = pc["tshell"]
    BY <1>0, <2>1, BeginMoves
  <2> QED
    BY <2>1, <2>2 DEF Alone, Free, Busy, Hal, halVars
<1>2. CASE Command
  BY <1>2 DEF Command, Alone
<1>3. CASE Step("tshell")
  <2>1. pc["tshell"] # "idle"
    BY <1>0, <1>3, StepKinds
  <2>2. commanded' = commanded
    BY <1>3 DEF Step, Paint, Encode, Wait, Channel, Claim, Lock, State, Enable
  <2> QED
    BY <2>1, <2>2 DEF Alone
<1>4. ASSUME commanded, commanded' = commanded PROVE Alone'
  BY <1>4 DEF Alone
<1>5. ASSUME NEW w, Goto("lvgl", w)
      PROVE  pc'["lvgl"] = w /\ pc'["tshell"] = pc["tshell"]
  BY <1>0, <1>5 DEF Goto, TypeOK
<1>6. CASE Paint("lvgl") /\ ~commanded
  <2>1. /\ pc["lvgl"] = "paint"
        /\ UNCHANGED pc \/ Goto("lvgl", "encode")
        /\ UNCHANGED <<halVars, streaming, commanded>>
    BY <1>6 DEF Paint
  <2> QED
    BY <1>6, <1>5, <2>1 DEF Alone, Free, Busy, Hal, halVars
<1>7. CASE Encode("lvgl") /\ ~commanded
  <2>1. /\ pc["lvgl"] = "encode"
        /\ UNCHANGED pc \/ Goto("lvgl", "wait")
        /\ UNCHANGED <<halVars, streaming, commanded>>
    BY <1>7 DEF Encode
  <2> QED
    BY <1>7, <1>5, <2>1 DEF Alone, Free, Busy, Hal, halVars
<1>8. CASE Wait("lvgl") /\ ~commanded
  BY <1>8, <1>5 DEF Wait, Alone, Free, Busy, Hal, halVars
<1>9. CASE Channel("lvgl") /\ ~commanded
  <2>1. Goto("lvgl", "claim") /\ pc["lvgl"] = "channel"
          /\ UNCHANGED <<halVars, streaming, commanded>>
    BY <1>9 DEF Channel, Alone, Free, Hal
  <2> QED
    BY <1>9, <1>5, <2>1 DEF Alone, Free, Busy, Hal, halVars
<1>10. CASE Claim("lvgl") /\ ~commanded
  BY <1>10, <1>5 DEF Claim, Alone, Free, Busy, Hal
<1>11. CASE Lock("lvgl") /\ ~commanded
  <2>1. /\ \/ /\ pc["lvgl"] = "lock"
              /\ Goto("lvgl", "locked") /\ UNCHANGED hal_lock
           \/ /\ pc["lvgl"] = "locked"
              /\ Goto("lvgl", "state") /\ hal_lock' = TRUE
        /\ UNCHANGED <<channel, dma, streaming, commanded>>
    BY <1>11 DEF Lock, Alone, Hal
  <2> QED
    BY <1>11, <1>5, <2>1 DEF Alone, Free, Busy, Hal
<1>12. CASE State("lvgl") /\ ~commanded
  <2>1. /\ \/ pc["lvgl"] = "state" /\ Goto("lvgl", "ready") /\ UNCHANGED dma
           \/ pc["lvgl"] = "ready" /\ Goto("lvgl", "enable") /\ dma' = "BUSY"
        /\ UNCHANGED <<channel, hal_lock, streaming, commanded>>
    BY <1>12 DEF State, Alone, Hal
  <2> QED
    BY <1>12, <1>5, <2>1 DEF Alone, Free, Busy, Hal
<1>13. CASE Enable("lvgl") /\ ~commanded
  <2>1. /\ pc["lvgl"] = "enable" /\ streaming' = TRUE
        /\ Begin("lvgl", Tail(plan["lvgl"]))
        /\ UNCHANGED <<halVars, commanded>>
    BY <1>13 DEF Enable, Return
  <2>2. pc'["lvgl"] \in {"idle", "paint", "encode"}
          /\ pc'["tshell"] = pc["tshell"]
    BY <1>0, <2>1, BeginMoves
  <2> QED
    BY <1>13, <2>1, <2>2 DEF Alone, Free, Busy, Hal, halVars
<1>14. CASE Step("lvgl")
  <2>1. commanded' = commanded
    BY <1>14 DEF Step, Paint, Encode, Wait, Channel, Claim, Lock, State, Enable
  <2> QED
    BY <1>14, <2>1, <1>4, <1>6, <1>7, <1>8, <1>9, <1>10, <1>11, <1>12, <1>13
       DEF Step
<1>15. CASE Stream \/ Rest
  BY <1>15 DEF Stream, Rest, Alone, Free, Busy, Hal, halVars, threadVars
<1>16. CASE Complete
  <2>1. /\ streaming /\ streaming' = FALSE
        /\ dma' = "READY" /\ hal_lock' = FALSE /\ channel' = "READY"
        /\ UNCHANGED <<pc, commanded>>
    BY <1>16 DEF Complete, threadVars
  <2> QED
    BY <2>1 DEF Alone, Free, Busy, Hal, TypeOK, Pcs
<1>17. CASE UNCHANGED vars
  BY <1>17 DEF vars, threadVars, halVars, Alone, Free, Busy, Hal
<1> QED
  BY <1>0, <1>1, <1>2, <1>3, <1>14, <1>15, <1>16, <1>17 DEF Next

(* Without shell commands no frame of the clock is refused: after the wait *)
(* of TIM_Send_WS2812 (drv_matrix_led.c:168) the HAL is ready, whatever    *)
(* the length of the strip.                                                *)
THEOREM NoFrameIsRefused == Spec => []NoFrameRefused
<1>1. Init => Alone
  BY DEF Init, Alone, Free, Hal, Threads
<1>2. TypeOK /\ Alone /\ [Next]_vars => Alone'
  BY AloneKept
<1>3. Alone => NoFrameRefused
  BY DEF Alone, Free, Hal, NoFrameRefused
<1> QED
  BY <1>1, <1>2, <1>3, LedTypeCorrect, PTL DEF Spec

-----------------------------------------------------------------------------
(* Two threads at the gates of the HAL.                                    *)

(* The redraws that the command under way has seen end.                    *)
Past == IF pc["lvgl"] = "idle" THEN overtaken ELSE overtaken - 1

Before == {"idle", "paint", "encode", "wait"}

Claimed == Hal(FALSE, "BUSY", FALSE, "READY")
Locked  == Hal(FALSE, "BUSY", TRUE, "READY")
Stale   == Hal(FALSE, "READY", TRUE, "READY")

(* While lvgl has started nothing of its own: each test of the shell that  *)
(* a transfer of lvgl and its interrupt have overtaken costs a redraw.     *)
ShellGates ==
  /\ pc["tshell"] \in Before => Free \/ (streaming /\ dma = "BUSY")
  /\ pc["tshell"] \in {"channel", "claim"} =>
       Free \/ (Busy /\ overtaken >= 1)
  /\ pc["tshell"] = "lock" => Claimed \/ ((Free \/ Busy) /\ Past >= 1)
  /\ pc["tshell"] = "locked" =>
       Claimed \/ (Free /\ Past >= 1) \/ (Busy /\ overtaken >= 2)
  /\ pc["tshell"] = "state" =>
       Locked \/ (Stale /\ Past >= 1) \/ ((Free \/ Busy) /\ Past >= 2)
  /\ pc["tshell"] = "ready" =>
       Locked \/ (Stale /\ Past >= 1) \/ (Free /\ Past >= 2)
  /\ pc["tshell"] = "enable" => ~streaming /\ dma = "BUSY"

(* Once lvgl has found the channel ready, the shell is overtaken where it  *)
(* is and the gates stand as lvgl has set them.                            *)
LvglGates ==
  /\ pc["lvgl"] \in {"claim", "lock", "locked", "state", "ready", "enable"} =>
       pc["tshell"] # "enable"
  /\ pc["lvgl"] \in {"locked", "state", "ready", "enable"} =>
       pc["tshell"] \notin {"state", "ready"}
  /\ pc["lvgl"] \in {"claim", "lock", "locked", "state", "ready", "enable"}
       /\ pc["tshell"] \in {"lock", "locked"} => overtaken >= 2
  /\ pc["lvgl"] = "claim" =>
       IF pc["tshell"] \in {"state", "ready"} THEN Stale ELSE Free
  /\ pc["lvgl"] = "lock" =>
       IF pc["tshell"] \in {"state", "ready"} THEN Locked ELSE Claimed
  /\ pc["lvgl"] = "locked" => Claimed
  /\ pc["lvgl"] \in {"state", "ready"} => Locked
  /\ pc["lvgl"] = "enable" => Hal(FALSE, "BUSY", TRUE, "BUSY")

Gates ==
  overtaken < Overtakings =>
    /\ pc["lvgl"] # "idle" /\ pc["tshell"] # "idle" => overtaken >= 1
    /\ pc["lvgl"] \in Before \cup {"channel"} => ShellGates
    /\ pc["lvgl"] = "channel" => dma = "READY"
    /\ LvglGates

LEMMA GatesHold == TypeOK /\ Gates => TransfersDontOverlap
<1> SUFFICES ASSUME TypeOK, Gates, overtaken < Overtakings,
                    NEW t \in Threads, pc[t] = "enable"
             PROVE  ~streaming
  BY DEF TransfersDontOverlap
<1>1. CASE t = "lvgl"
  BY <1>1 DEF Gates, LvglGates, Hal
<1>2. CASE t = "tshell"
  <2>1. pc["lvgl"] \in Pcs
    BY DEF TypeOK, Threads
  <2>2. pc["lvgl"] \in Before \cup {"channel"}
    BY <1>2, <2>1 DEF Gates, LvglGates, Pcs, Before
  <2> QED
    BY <1>2, <2>2 DEF Gates, ShellGates
<1> QED
  BY <1>1, <1>2 DEF Threads

(* A step of the shell: lvgl sleeps, and the gates are the shell's.        *)
LEMMA ShellStepKeepsGates ==
  ASSUME TypeOK, Gates, Step("tshell"), overtaken < Overtakings
  PROVE  Gates'
<1>0. /\ "lvgl" \in Threads /\ "tshell" \in Threads
      /\ pc["lvgl"] = "idle" /\ pc["tshell"] # "idle"
  BY StepKinds DEF Threads, Runs
<1>1. ShellGates /\ Past = overtaken
  BY <1>0 DEF Gates, Before, Past
<1>2. overtaken' = overtaken /\ pc'["lvgl"] = "idle"
  <2>1. overtaken' = overtaken
    BY DEF Step, Paint, Encode, Wait, Channel, Claim, Lock, State, Enable
  <2>2. pc'["lvgl"] = "idle"
    BY <1>0, StepKinds DEF Return, Begin, Goto, GoesOn, TypeOK
  <2> QED
    BY <2>1, <2>2
<1>3. Past' = overtaken
  BY <1>2 DEF Past
<1>4. SUFFICES ShellGates'
  BY <1>0, <1>2 DEF Gates, LvglGates, Before
<1>5. ASSUME NEW w, Goto("tshell", w) PROVE pc'["tshell"] = w
  BY <1>0, <1>5 DEF Goto, TypeOK
<1>6. Return("tshell") => pc'["tshell"] \in {"idle", "paint", "encode"}
  BY <1>0, BeginMoves DEF Return
<1> USE <1>1, <1>2, <1>3 DEF ShellGates, Before, Hal, Free, Busy, halVars
<1>7. CASE Paint("tshell")
  BY <1>0, <1>5, <1>7 DEF Paint
<1>8. CASE Encode("tshell")
  BY <1>0, <1>5, <1>8 DEF Encode
<1>9. CASE Wait("tshell")
  BY <1>0, <1>5, <1>9 DEF Wait
<1>10. CASE Channel("tshell")
  BY <1>0, <1>5, <1>6, <1>10 DEF Channel
<1>11. CASE Claim("tshell")
  BY <1>0, <1>5, <1>11 DEF Claim, Claimed
<1>12. CASE Lock("tshell")
  BY <1>0, <1>5, <1>6, <1>12 DEF Lock, Claimed, Locked, Stale
<1>13. CASE State("tshell")
  BY <1>0, <1>5, <1>6, <1>13 DEF State, Locked, Stale
<1>14. CASE Enable("tshell")
  BY <1>0, <1>6, <1>14 DEF Enable
<1> QED
  BY <1>7, <1>8, <1>9, <1>10, <1>11, <1>12, <1>13, <1>14 DEF Step

(* A step of lvgl, with the shell overtaken wherever it is.                *)
LEMMA LvglStepKeepsGates ==
  ASSUME TypeOK, Gates, Step("lvgl"), overtaken < Overtakings
  PROVE  Gates'
<1>0. /\ "lvgl" \in Threads /\ "tshell" \in Threads
      /\ pc["lvgl"] # "idle" /\ pc["lvgl"] \in Pcs /\ pc["tshell"] \in Pcs
  BY StepKinds DEF Threads, TypeOK
<1>1. /\ overtaken \in Nat /\ Past = overtaken - 1
      /\ pc["tshell"] # "idle" => overtaken >= 1
  BY <1>0 DEF Gates, Past, TypeOK, Overtakings
<1>2. overtaken' = overtaken /\ pc'["tshell"] = pc["tshell"]
  <2>1. overtaken' = overtaken
    BY DEF Step, Paint, Encode, Wait, Channel, Claim, Lock, State, Enable
  <2>2. pc'["tshell"] = pc["tshell"]
    BY <1>0, StepKinds DEF Return, Begin, Goto, GoesOn, TypeOK
  <2> QED
    BY <2>1, <2>2
<1>3. Past' = IF pc'["lvgl"] = "idle" THEN overtaken ELSE overtaken - 1
  BY <1>2 DEF Past
<1>4. ASSUME NEW w, Goto("lvgl", w) PROVE pc'["lvgl"] = w
  BY <1>0, <1>4 DEF Goto, TypeOK
<1>5. Return("lvgl") => pc'["lvgl"] \in {"idle", "paint", "encode"}
  BY <1>0, BeginMoves DEF Return
<1> USE <1>1, <1>2, <1>3
    DEF Gates, ShellGates, LvglGates, Before, Hal, Free, Busy, Claimed,
        Locked, Stale, halVars
<1>6. CASE Paint("lvgl")
  BY <1>0, <1>4, <1>6 DEF Paint
<1>7. CASE Encode("lvgl")
  BY <1>0, <1>4, <1>7 DEF Encode
<1>8. CASE Wait("lvgl")
  <2>1. /\ pc["lvgl"] = "wait" /\ UNCHANGED <<channel, dma, hal_lock, streaming>>
        /\ ShellGates
    BY <1>8 DEF Wait
  <2>2. CASE dma = "READY" /\ Goto("lvgl", "channel")
    <3>1. pc'["lvgl"] = "channel"
      BY <1>4, <2>2
    <3>2. Past' = Past
      BY <3>1
    <3>3. ShellGates'
      BY <2>1, <3>2
    <3> QED
      BY <2>1, <2>2, <3>1, <3>3
  <2>3. CASE UNCHANGED <<pc, led>>
    <3>1. Past' = Past
      BY <2>1, <2>3
    <3> QED
      BY <2>1, <2>3, <3>1
  <2> QED
    BY <1>8, <2>2, <2>3 DEF Wait
<1>9. CASE Channel("lvgl")
  <2>1. /\ pc["lvgl"] = "channel" /\ dma = "READY" /\ ShellGates
        /\ UNCHANGED <<channel, dma, hal_lock, streaming>>
    BY <1>9 DEF Channel
  <2>2. CASE channel = "READY" /\ Goto("lvgl", "claim")
    <3>1. pc'["lvgl"] = "claim"
      BY <1>4, <2>2
    <3>2. /\ pc["tshell"] # "enable"
          /\ pc["tshell"] \in {"lock", "locked"} => Free /\ overtaken >= 2
          /\ pc["tshell"] \in {"state", "ready"} => Stale
          /\ pc["tshell"] \notin {"state", "ready"} => Free
      BY <1>0, <2>1, <2>2 DEF Pcs, Overtakings
    <3> QED
      BY <2>1, <3>1, <3>2
  <2>3. CASE channel = "BUSY" /\ Return("lvgl")
    <3>1. pc'["lvgl"] \in {"idle", "paint", "encode"}
      BY <1>5, <2>3
    <3>2. Past' \in {Past, Past + 1}
      BY <3>1
    <3>3. ShellGates'
      BY <2>1, <3>2
    <3> QED
      BY <2>1, <3>1, <3>3
  <2> QED
    BY <1>9, <2>2, <2>3 DEF Channel
<1>10. CASE Claim("lvgl")
  BY <1>0, <1>4, <1>10 DEF Claim
<1>11. CASE Lock("lvgl")
  BY <1>0, <1>4, <1>5, <1>11 DEF Lock
<1>12. CASE State("lvgl")
  BY <1>0, <1>4, <1>5, <1>12 DEF State
<1>13. CASE Enable("lvgl")
  BY <1>0, <1>5, <1>13 DEF Enable, Pcs
<1> QED
  BY <1>6, <1>7, <1>8, <1>9, <1>10, <1>11, <1>12, <1>13 DEF Step

LEMMA GatesKept ==
  ASSUME TypeOK, Gates, [Next]_vars
  PROVE  Gates'
<1> SUFFICES ASSUME overtaken' < Overtakings PROVE Gates'
  BY DEF Gates
<1>0. /\ "lvgl" \in Threads /\ "tshell" \in Threads
      /\ \A t \in Threads : t = "lvgl" \/ t = "tshell"
      /\ pc["lvgl"] \in Pcs /\ pc["tshell"] \in Pcs
      /\ overtaken \in Nat
  BY DEF Threads, TypeOK
<1>1. CASE Tick
  <2>1. /\ overtaken < Overtakings
        /\ pc["tshell"] # "idle" => overtaken' = overtaken + 1
        /\ pc["tshell"] = "idle" => overtaken' = overtaken
    BY <1>0, <1>1 DEF Tick, Overtakings
  <2>2. /\ pc["lvgl"] = "idle" /\ pc'["tshell"] = pc["tshell"]
        /\ pc'["lvgl"] \in {"idle", "paint", "encode"}
        /\ UNCHANGED <<halVars, streaming>>
    BY <1>0, <1>1, BeginMoves DEF Tick
  <2>3. Clock # << >> /\ Begin("lvgl", Clock)
    BY <1>1 DEF Tick, Clock
  <2>4. pc'["lvgl"] # "idle"
    BY <1>0, <2>3, PlanTails DEF Begin, Goto, TypeOK
  <2>5. Past = overtaken /\ Past' = overtaken' - 1
    BY <2>2, <2>4 DEF Past
  <2> QED
    BY <1>0, <2>1, <2>2, <2>4, <2>5
       DEF Gates, ShellGates, LvglGates, Before, Hal, Free, Busy, Claimed,
           Locked, Stale, halVars, Overtakings
<1>2. CASE Command
  <2>1. /\ pc["lvgl"] = "idle" /\ pc["tshell"] = "idle"
        /\ overtaken < Overtakings
        /\ UNCHANGED <<halVars, streaming>>
    BY <1>2 DEF Command, Runs
  <2>2. /\ pc'["tshell"] \in {"idle", "paint", "encode"}
        /\ pc'["lvgl"] = "idle"
    BY <1>0, <1>2, <2>1, BeginMoves DEF Command
  <2> QED
    BY <2>1, <2>2
       DEF Gates, ShellGates, LvglGates, Before, Hal, Free, halVars
<1>3. CASE Step("tshell") \/ Step("lvgl")
  <2>1. overtaken' = overtaken
    BY <1>3 DEF Step, Paint, Encode, Wait, Channel, Claim, Lock, State, Enable
  <2> QED
    BY <1>3, <2>1, ShellStepKeepsGates, LvglStepKeepsGates
<1>4. CASE Stream \/ Rest \/ UNCHANGED vars
  BY <1>4 DEF Stream, Rest, vars, threadVars, halVars, Gates, ShellGates,
              LvglGates, Past, Hal, Free, Busy, Claimed, Locked, Stale
<1>5. CASE Complete
  <2>1. /\ streaming /\ Free'
        /\ UNCHANGED <<pc, overtaken>>
    BY <1>5 DEF Complete, threadVars, Free, Hal
  <2>2. Past' = Past
    BY <2>1 DEF Past
  <2> QED
    BY <1>0, <2>1, <2>2
       DEF Gates, ShellGates, LvglGates, Before, Hal, Free, Busy, Claimed,
           Locked, Stale, Past, Pcs
<1> QED
  BY <1>0, <1>1, <1>2, <1>3, <1>4, <1>5 DEF Next

(* A transfer is only started when the last one has finished, unless three *)
(* redraws fall into one command (stm32f4xx_hal_tim.c:1717-1781,           *)
(* stm32f4xx_hal_dma.c:463-497): for any strip, whatever is interrupted    *)
(* where.                                                                  *)
THEOREM TransfersNeverOverlap == Spec => []TransfersDontOverlap
<1>1. Init => Gates
  BY DEF Init, Gates, ShellGates, LvglGates, Before, Free, Hal, Threads
<1>2. TypeOK /\ Gates /\ [Next]_vars => Gates'
  BY GatesKept
<1>3. TypeOK /\ Gates => TransfersDontOverlap
  BY GatesHold
<1> QED
  BY <1>1, <1>2, <1>3, LedTypeCorrect, PTL DEF Spec

-----------------------------------------------------------------------------
(* No gate stays shut.                                                     *)

(* A step of a thread on its way through the gates: the one that turns it  *)
(* away is shut for another cause than this thread itself.                 *)
LEMMA StepLeavesNoGateShut ==
  ASSUME TypeOK, NoGateStaysShut, NEW t \in Threads, Step(t)
  PROVE  NoGateStaysShut'
<1>1. ASSUME NEW w, Goto(t, w)
      PROVE  pc'[t] = w /\ \A u \in Threads : u # t => pc'[u] = pc[u]
  BY <1>1 DEF Goto, TypeOK
<1>2. ASSUME Return(t)
      PROVE  /\ pc'[t] \in {"idle", "paint", "encode"}
             /\ \A u \in Threads : u # t => pc'[u] = pc[u]
  BY <1>2, BeginMoves DEF Return
<1> USE DEF NoGateStaysShut, halVars
<1>3. CASE Paint(t)
  BY <1>1, <1>3 DEF Paint
<1>4. CASE Encode(t)
  BY <1>1, <1>4 DEF Encode
<1>5. CASE Wait(t)
  BY <1>1, <1>5 DEF Wait
<1>6. CASE Channel(t)
  BY <1>1, <1>2, <1>6 DEF Channel
<1>7. CASE Claim(t)
  BY <1>1, <1>7 DEF Claim
<1>8. CASE Lock(t)
  BY <1>1, <1>2, <1>8 DEF Lock
<1>9. CASE State(t)
  BY <1>1, <1>2, <1>9 DEF State
<1>10. CASE Enable(t)
  BY <1>10 DEF Enable
<1> QED
  BY <1>3, <1>4, <1>5, <1>6, <1>7, <1>8, <1>9, <1>10 DEF Step

(* HAL_TIM_PWM_Start_DMA and HAL_DMA_Start_IT may refuse a frame halfway   *)
(* (stm32f4xx_hal_tim.c:1718, 1772), and the driver does not look at what  *)
(* they return: the channel, the lock and the state of the DMA are opened  *)
(* again all the same, by the transfer whose turn it was, with any number  *)
(* of redraws in the middle of any number of commands.                     *)
THEOREM GatesReopen == Spec => []NoGateStaysShut
<1>1. Init => NoGateStaysShut
  BY DEF Init, NoGateStaysShut
<1>2. TypeOK /\ NoGateStaysShut /\ [Next]_vars => NoGateStaysShut'
  <2> SUFFICES ASSUME TypeOK, NoGateStaysShut, [Next]_vars
               PROVE  NoGateStaysShut'
    OBVIOUS
  <2>1. ASSUME NEW t \in Threads, NEW p, pc[t] = "idle", Begin(t, p),
               UNCHANGED <<halVars, streaming>>
        PROVE  NoGateStaysShut'
    BY <2>1, BeginMoves DEF NoGateStaysShut, halVars
  <2>2. CASE Tick \/ Command
    BY <2>1, <2>2 DEF Tick, Command, Threads
  <2>3. CASE \E t \in Threads : Step(t)
    BY <2>3, StepLeavesNoGateShut
  <2>4. CASE Complete
    BY <2>4 DEF Complete, NoGateStaysShut
  <2>5. CASE Stream \/ Rest \/ UNCHANGED vars
    BY <2>5 DEF Stream, Rest, NoGateStaysShut, vars, threadVars, halVars
  <2> QED
    BY <2>2, <2>3, <2>4, <2>5 DEF Next
<1> QED
  BY <1>1, <1>2, LedTypeCorrect, PTL DEF Spec
=============================================================================
