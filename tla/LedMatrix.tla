------------------------------ MODULE LedMatrix ------------------------------
(***************************************************************************)
(* The WS2812 strip (drv_matrix_led.c) between two threads and the DMA.    *)
(*                                                                         *)
(*   lvgl     boots the strip and redraws the clock every second            *)
(*            (led_matrix_set_time): fill with DARK, then the lit LEDs.     *)
(*   tshell   runs the exported test commands.  It has the lower priority: *)
(*            it runs only while lvgl sleeps and is preempted anywhere.    *)
(*   DMA      streams led_buffer to the strip, LED by LED, and raises the  *)
(*            transfer complete interrupt.                                 *)
(*                                                                         *)
(* A colour stands for the 24 bits of an LED.  The strip takes the first   *)
(* colours that reach it and passes the rest on, until the line has been   *)
(* low for 50 us (RES): only then does it show what it took.               *)
(***************************************************************************)
EXTENDS Integers, Sequences

CONSTANTS
  LED_NUM,    (* LEDs of the strip                                         *)
  Lit         (* the LEDs the clock lights at this time                    *)

Leds == 0 .. LED_NUM - 1

ASSUME LedsAssumption == LED_NUM \in Nat \ {0} /\ Lit \subseteq Leds

(* Bound: the redraws counted during one command.                          *)
Overtakings == 3

VARIABLES
  RGB_Data,   (* the colour wanted for each LED                            *)
  led_buffer, (* the duty cycles the DMA reads                             *)
  channel,    (* state of TIM3 channel 2 in the HAL                        *)
  dma,        (* hdma_tim3_ch2.State                                       *)
  hal_lock,   (* hdma_tim3_ch2.Lock                                        *)
  streaming,  (* the stream is enabled                                     *)
  sent,       (* LEDs it has sent                                          *)
  taken,      (* LEDs of the strip that took a colour since the last RES   *)
  pc,         (* where each thread is                                      *)
  plan,       (* the drawings it has still to do, the current one first    *)
  led,        (* i of the loop it is in                                    *)
  commanded,  (* a shell command was ever given                            *)
  overtaken   (* redraws during the command; at Overtakings it stays there *)

halVars    == <<channel, dma, hal_lock>>
threadVars == <<pc, plan, led, commanded, overtaken>>
vars == <<RGB_Data, led_buffer, halVars, streaming, sent, taken,
          threadVars>>

Threads == {"lvgl", "tshell"}
Colours == {"dark", "clock", "test", "rst"}
Pcs     == {"idle", "paint", "encode", "wait", "channel", "claim", "lock",
            "locked", "state", "ready", "enable"}

(* led_matrix_set_time, the drawings of the shell, and led_matrix_rst; the *)
(* command led_matrix_test3 gives several, with a sleep after each.        *)
(* Bug: the lit LEDs are drawn over whatever was there.                    *)
Clock_NoFill == <<"clock">>

Clock    == <<"dark", "clock">>
Commands == {<<"test">>, <<"rst">>}

AllDark    == [i \in Leds |-> "dark"]
ClockFrame == [i \in Leds |-> IF i \in Lit THEN "clock" ELSE "dark"]

TypeOK ==
  /\ RGB_Data \in [Leds -> Colours]
  /\ led_buffer \in [Leds -> Colours]
  /\ channel \in {"READY", "BUSY"}
  /\ dma \in {"READY", "BUSY"}
  /\ hal_lock \in BOOLEAN
  /\ streaming \in BOOLEAN
  /\ sent \in 0 .. LED_NUM
  /\ taken \in 0 .. LED_NUM
  /\ pc \in [Threads -> Pcs]
  /\ plan \in [Threads -> Seq(Colours)]
  /\ led \in [Threads -> 0 .. LED_NUM]
  /\ commanded \in BOOLEAN
  /\ overtaken \in 0 .. Overtakings

(* matrix_init has just called led_matrix_rst, in what becomes lvgl.       *)
Init ==
  /\ RGB_Data = AllDark
  /\ led_buffer = AllDark
  /\ channel = "READY"
  /\ dma = "READY"
  /\ hal_lock = FALSE
  /\ streaming = FALSE
  /\ sent = 0
  /\ taken = 0
  /\ pc = [t \in Threads |-> IF t = "lvgl" THEN "encode" ELSE "idle"]
  /\ plan = [t \in Threads |-> IF t = "lvgl" THEN <<"rst">> ELSE << >>]
  /\ led = [t \in Threads |-> 0]
  /\ commanded = FALSE
  /\ overtaken = 0

-----------------------------------------------------------------------------
(* The threads.  lvgl sleeps only when it is idle.                         *)

Runs(t) == t = "lvgl" \/ pc["lvgl"] = "idle"

Goto(t, where) ==
  /\ pc' = [pc EXCEPT ![t] = where]
  /\ led' = [led EXCEPT ![t] = 0]

(* A drawing begins.  led_matrix_fill clears RGB_Data first; the second    *)
(* half of led_matrix_set_time draws over it; led_matrix_rst ignores it.   *)
Begin(t, drawings) ==
  /\ plan' = [plan EXCEPT ![t] = drawings]
  /\ Goto(t, CASE drawings = << >>         -> "idle"
               [] drawings # << >>
                    /\ Head(drawings) = "rst" -> "encode"
               [] OTHER                    -> "paint")
  /\ RGB_Data' = IF drawings # << >> /\ Head(drawings) \in {"dark", "test"}
                 THEN AllDark ELSE RGB_Data

Return(t) == Begin(t, Tail(plan[t]))

(* timer2_callback: led_matrix_example_entry.                              *)
Tick ==
  /\ pc["lvgl"] = "idle"
  /\ Begin("lvgl", Clock)
  /\ overtaken' = IF pc["tshell"] # "idle" /\ overtaken < Overtakings
                  THEN overtaken + 1 ELSE overtaken
  /\ UNCHANGED <<led_buffer, halVars, streaming, sent, taken, commanded>>

Command ==
  /\ Runs("tshell") /\ pc["tshell"] = "idle"
  /\ commanded' = TRUE
  /\ overtaken' = IF overtaken < Overtakings THEN 0 ELSE overtaken
  /\ \E drawings \in Commands : Begin("tshell", drawings)
  /\ UNCHANGED <<led_buffer, halVars, streaming, sent, taken>>

(* Set_LEDColor, for every LED of a fill or for the lit ones.              *)
Paint(t) ==
  /\ Runs(t) /\ pc[t] = "paint"
  /\ LET colour == Head(plan[t])
         i      == led[t]
     IN  IF i < LED_NUM
         THEN /\ RGB_Data' = IF colour # "clock" \/ i \in Lit
                             THEN [RGB_Data EXCEPT ![i] = colour]
                             ELSE RGB_Data
              /\ led' = [led EXCEPT ![t] = i + 1]
              /\ UNCHANGED pc
         ELSE Goto(t, "encode") /\ UNCHANGED RGB_Data
  /\ UNCHANGED <<led_buffer, halVars, streaming, sent, taken, plan,
                 commanded, overtaken>>

(* RGB_Reflash and led_matrix_rst fill led_buffer, without looking whether *)
(* the DMA is still reading it.                                            *)
Encode(t) ==
  /\ Runs(t) /\ pc[t] = "encode"
  /\ LET i == led[t]
     IN  IF i < LED_NUM
         THEN /\ led_buffer' = [led_buffer EXCEPT ![i] =
                   IF Head(plan[t]) = "rst" THEN "rst" ELSE RGB_Data[i]]
              /\ led' = [led EXCEPT ![t] = i + 1]
              /\ UNCHANGED pc
         ELSE Goto(t, "wait") /\ UNCHANGED led_buffer
  /\ UNCHANGED <<RGB_Data, halVars, streaming, sent, taken, plan,
                 commanded, overtaken>>

-----------------------------------------------------------------------------
(* TIM_Send_WS2812, HAL_TIM_PWM_Start_DMA and HAL_DMA_Start_IT.            *)

(* Bug: the frame is sent without waiting for the last one.                *)
Wait_Never(t) ==
  /\ Runs(t) /\ pc[t] = "wait"
  /\ Goto(t, "channel")
  /\ UNCHANGED <<RGB_Data, led_buffer, halVars, streaming, sent, taken,
                 plan, commanded, overtaken>>

(* The loop on HAL_DMA_GetState does not yield.                            *)
Wait(t) ==
  /\ Runs(t) /\ pc[t] = "wait"
  /\ \/ dma = "READY" /\ Goto(t, "channel")
     \/ dma = "BUSY" /\ UNCHANGED <<pc, led>>
  /\ UNCHANGED <<RGB_Data, led_buffer, halVars, streaming, sent, taken,
                 plan, commanded, overtaken>>

(* HAL_BUSY is returned to a caller that does not look: no frame is sent.  *)
Channel(t) ==
  /\ Runs(t) /\ pc[t] = "channel"
  /\ \/ /\ channel = "READY"
        /\ Goto(t, "claim")
        /\ UNCHANGED <<RGB_Data, plan>>
     \/ /\ channel = "BUSY"
        /\ Return(t)
  /\ UNCHANGED <<led_buffer, halVars, streaming, sent, taken, commanded,
                 overtaken>>

Claim(t) ==
  /\ Runs(t) /\ pc[t] = "claim"
  /\ channel' = "BUSY"
  /\ Goto(t, "lock")
  /\ UNCHANGED <<RGB_Data, led_buffer, dma, hal_lock, streaming, sent,
                 taken, plan, commanded, overtaken>>

(* __HAL_LOCK tests, then sets.                                            *)
Lock(t) ==
  /\ Runs(t)
  /\ \/ /\ pc[t] = "lock" /\ ~hal_lock
        /\ Goto(t, "locked")
        /\ UNCHANGED <<RGB_Data, plan, hal_lock>>
     \/ /\ pc[t] = "lock" /\ hal_lock
        /\ Return(t)
        /\ UNCHANGED hal_lock
     \/ /\ pc[t] = "locked"
        /\ hal_lock' = TRUE
        /\ Goto(t, "state")
        /\ UNCHANGED <<RGB_Data, plan>>
  /\ UNCHANGED <<led_buffer, channel, dma, streaming, sent, taken,
                 commanded, overtaken>>

(* Bug: the lock alone is trusted.                                         *)
State_Unchecked(t) ==
  /\ Runs(t) /\ pc[t] = "state"
  /\ dma' = "BUSY"
  /\ Goto(t, "enable")
  /\ UNCHANGED <<RGB_Data, plan, hal_lock, led_buffer, channel, streaming,
                 sent, taken, commanded, overtaken>>

(* hdma->State is tested, then set.                                        *)
State(t) ==
  /\ Runs(t)
  /\ \/ /\ pc[t] = "state" /\ dma = "READY"
        /\ Goto(t, "ready")
        /\ UNCHANGED <<RGB_Data, plan, hal_lock, dma>>
     \/ /\ pc[t] = "state" /\ dma = "BUSY"
        /\ hal_lock' = FALSE
        /\ Return(t)
        /\ UNCHANGED dma
     \/ /\ pc[t] = "ready"
        /\ dma' = "BUSY"
        /\ Goto(t, "enable")
        /\ UNCHANGED <<RGB_Data, plan, hal_lock>>
  /\ UNCHANGED <<led_buffer, channel, streaming, sent, taken, commanded,
                 overtaken>>

(* DMA_SetConfig and __HAL_DMA_ENABLE: the registers of a stream that is   *)
(* enabled cannot be written.                                              *)
Enable(t) ==
  /\ Runs(t) /\ pc[t] = "enable"
  /\ streaming' = TRUE
  /\ sent' = IF streaming THEN sent ELSE 0
  /\ Return(t)
  /\ UNCHANGED <<led_buffer, halVars, taken, commanded, overtaken>>

-----------------------------------------------------------------------------
(* The hardware.                                                           *)

(* Bug: one LED too many.                                                  *)
Stream_OneMore ==
  /\ streaming /\ sent <= LED_NUM
  /\ sent' = sent + 1
  /\ UNCHANGED <<RGB_Data, led_buffer, halVars, streaming, taken,
                 threadVars>>

Stream ==
  /\ streaming /\ sent < LED_NUM
  /\ sent' = sent + 1
  /\ taken' = IF taken < LED_NUM THEN taken + 1 ELSE taken
  /\ UNCHANGED <<RGB_Data, led_buffer, halVars, streaming, threadVars>>

(* Bug: the interrupt leaves the state of the DMA.                         *)
Complete_StaysBusy ==
  /\ streaming /\ sent = LED_NUM
  /\ streaming' = FALSE
  /\ hal_lock' = FALSE
  /\ channel' = "READY"
  /\ UNCHANGED <<RGB_Data, led_buffer, dma, sent, taken, threadVars>>

(* DMA1_Stream5_IRQHandler, TIM_DMADelayPulseCplt and the callback.        *)
Complete ==
  /\ streaming /\ sent = LED_NUM
  /\ streaming' = FALSE
  /\ dma' = "READY"
  /\ hal_lock' = FALSE
  /\ channel' = "READY"
  /\ UNCHANGED <<RGB_Data, led_buffer, sent, taken, threadVars>>

(* The line stays low for 50 us: the strip shows the colours it took and   *)
(* takes the next ones.                                                    *)
Rest ==
  /\ ~streaming /\ taken > 0
  /\ taken' = 0
  /\ UNCHANGED <<RGB_Data, led_buffer, halVars, streaming, sent, threadVars>>

-----------------------------------------------------------------------------
Step(t) ==
  \/ Paint(t) \/ Encode(t) \/ Wait(t) \/ Channel(t) \/ Claim(t) \/ Lock(t)
  \/ State(t) \/ Enable(t)

Next ==
  \/ Tick \/ Command
  \/ \E t \in Threads : Step(t)
  \/ Stream \/ Complete \/ Rest

Spec == Init /\ [][Next]_vars

(* The processor runs lvgl when it is ready, the DMA and its interrupt go  *)
(* on whatever the threads do.  Nothing is assumed of tshell.              *)
FairSpec == Spec /\ WF_vars(Step("lvgl")) /\ WF_vars(Stream \/ Complete)

-----------------------------------------------------------------------------
(* Properties.                                                             *)

(* When lvgl sends the clock, the frame in the buffer is the clock and     *)
(* nothing else, wherever it preempted a shell command that was painting,  *)
(* encoding or starting a transfer.                                        *)
ClockIsRedrawn ==
  (/\ pc["lvgl"] \notin {"idle", "paint", "encode"}
   /\ plan["lvgl"] = <<"clock">>)
  => RGB_Data = ClockFrame /\ led_buffer = ClockFrame

(* A transfer is only started when the last one has finished.  The channel,*)
(* the lock and the state of the DMA are each tested and then set, and the *)
(* interrupt resets all three: one redraw in the middle of a command, or   *)
(* two, cannot get past all of them.  (Three can, seconds apart, each at   *)
(* one instruction of the same command; from then on nothing is claimed.)  *)
TransfersDontOverlap ==
  overtaken < Overtakings => \A t \in Threads : pc[t] = "enable" => ~streaming

(* Without shell commands lvgl finds the channel ready after each wait: no *)
(* frame of the clock is refused by the HAL and lost.                      *)
NoFrameRefused ==
  ~commanded =>
    /\ pc["lvgl"] \in {"channel", "claim"} => channel = "READY"
    /\ pc["lvgl"] \in {"lock", "locked"} => ~hal_lock
    /\ pc["lvgl"] \in {"state", "ready"} => dma = "READY"

(* A gate is shut only while a transfer runs, or while a thread that has   *)
(* passed it is on its way to start one: the ways out of HAL_TIM_PWM_Start *)
(* _DMA that refuse a frame leave the channel BUSY, and yet no thread they *)
(* turn away can close the strip for good.                                 *)
NoGateStaysShut ==
  LET Someone(gates) == \E t \in Threads : pc[t] \in gates
  IN  /\ channel = "BUSY" =>
           streaming \/ Someone({"lock", "locked", "state", "ready", "enable"})
      /\ hal_lock => streaming \/ Someone({"state", "ready", "enable"})
      /\ dma = "BUSY" => streaming \/ Someone({"enable"})

(* Without shell commands every redraw ends, and the user interface, which *)
(* runs in the same thread, goes on.                                       *)
RedrawEnds == []~commanded => []<>(pc["lvgl"] = "idle")

(* drv_matrix_led.c:168 says the loop before a transfer finds out whether  *)
(* the last one has finished: it ends, for every transfer finishes.        *)
WaitEnds == pc["lvgl"] = "wait" ~> pc["lvgl"] # "wait"

(* drv_matrix_led.c:17: a frame is followed by a RES of at least 50 us; so *)
(* the strip is ready to take the clock when its transfer starts.          *)
RestBeforeClock ==
  pc["lvgl"] = "enable" /\ plan["lvgl"] = <<"clock">> => taken = 0
=============================================================================
