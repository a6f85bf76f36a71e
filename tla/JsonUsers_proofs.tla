-------------------------- MODULE JsonUsers_proofs --------------------------
(***************************************************************************)
(* The invariants of JsonUsers for every size of the heap.                 *)
(*                                                                         *)
(* The types bound what is used and lost by the size of the heap, which    *)
(* needs the account, and the account needs the types: HeapInv is both.    *)
(* GoodTextsDoNoHarm needs what the steps before have read (Traced).       *)
(***************************************************************************)
EXTENDS JsonUsers, TLAPS

HeapInv == TypeOK /\ HeapIsAccounted

(* Whatever is wrong on its way to the labels or the LEDs has its cause    *)
(* recorded already, each on its own side.                                 *)
LabelsTraced ==
  (\/ shown = "garbage" \/ info = "garbage"
   \/ answer.text \in Harmful \/ text \in Harmful)
    => "weather" \in bad \/ failed

LedsTraced ==
  pins # wanted \/ (mqttPc = "parse" /\ ~tokens)
    => "command" \in bad \/ failed

WritesTraced == broken => bad # {} \/ failed

Traced == LabelsTraced /\ LedsTraced /\ WritesTraced

-----------------------------------------------------------------------------
(* The account.                                                            *)

(* What each thread holds at its place.                                    *)
LEMMA LiveBounds ==
  ASSUME TypeOK
  PROVE  /\ UiLive \in Nat /\ UiLive <= Winfo + Buffer + Session
         /\ MqttLive \in Nat /\ MqttLive <= Copy + Tokens
<1>1. UiLive \in Nat /\ UiLive <= Winfo + Buffer + Session
  BY DEF TypeOK, UiLive, Winfo, Buffer, Session
<1>2. MqttLive \in Nat /\ MqttLive <= Copy + Tokens
  BY DEF TypeOK, MqttLive, Copy, Tokens
<1> QED
  BY <1>1, <1>2

(* A step of the lvgl thread keeps the account.                            *)
LEMMA UiAccount ==
  ASSUME HeapInv, UiNext
  PROVE  /\ HeapIsAccounted'
         /\ used' \in 0 .. HeapUnits /\ leaked' \in 0 .. HeapUnits
<1> USE DEF HeapInv, HeapIsAccounted, TypeOK, Ui, uiVars, mqttVars,
            heapVars, Alloc, Refuse, Free, UiLive, MqttLive,
            Winfo, Buffer, Session, Tokens, Copy
<1> USE HeapAssumption
<1>1. CASE TimerCallback
  BY <1>1 DEF TimerCallback
<1>2. CASE AllocBuffer
  BY <1>2 DEF AllocBuffer
<1>3. CASE CreateSession
  BY <1>3 DEF CreateSession
<1>4. ASSUME NEW a \in Answers \cup {Refused}, Get(a)
      PROVE  /\ HeapIsAccounted'
             /\ used' \in 0 .. HeapUnits /\ leaked' \in 0 .. HeapUnits
  BY <1>4 DEF Get
<1>5. CASE Read
  BY <1>5 DEF Read, ReadPiece, ReadNothing
<1>6. CASE Close
  BY <1>6 DEF Close
<1>7. CASE ParseText
  <2>1. CASE Parse
    BY <1>7, <2>1 DEF ParseText, Parse
  <2>2. CASE ParseWithoutTokens
    BY <1>7, <2>2 DEF ParseText, ParseWithoutTokens
  <2> QED
    BY <1>7, <2>1, <2>2 DEF ParseText
<1>8. CASE FreeBuffer
  BY <1>8 DEF FreeBuffer
<1>9. CASE SetLabels
  BY <1>9 DEF SetLabels
<1> QED
  BY <1>1, <1>2, <1>3, <1>4, <1>5, <1>6, <1>7, <1>8, <1>9 DEF UiNext

(* A step of the MQTT thread keeps the account.                            *)
LEMMA MqttAccount ==
  ASSUME HeapInv, MqttNext
  PROVE  /\ HeapIsAccounted'
         /\ used' \in 0 .. HeapUnits /\ leaked' \in 0 .. HeapUnits
<1> USE DEF HeapInv, HeapIsAccounted, TypeOK, Mqtt, uiVars, mqttVars,
            heapVars, Alloc, Refuse, Free, Leak, UiLive, MqttLive,
            Winfo, Buffer, Session, Tokens, Copy
<1> USE HeapAssumption
<1>1. CASE \E end \in Ends : CommandArrives(end)
  <2>1. /\ \/ Mqtt("idle", "tokens") /\ Alloc(Copy)
           \/ Mqtt("idle", "idle") /\ Refuse(Copy)
        /\ UNCHANGED <<uiVars, tokens>>
    BY <1>1, Zenon DEF CommandArrives
  <2> QED
    BY <2>1
<1>2. CASE AllocTokens
  BY <1>2 DEF AllocTokens
<1>3. CASE RejectCommand
  BY <1>3 DEF RejectCommand
<1>4. ASSUME NEW c \in Commands, Obey(c)
      PROVE  /\ HeapIsAccounted'
             /\ used' \in 0 .. HeapUnits /\ leaked' \in 0 .. HeapUnits
  BY <1>4 DEF Obey
<1>5. ASSUME NEW c \in Commands, ObeyWithoutTokens(c)
      PROVE  /\ HeapIsAccounted'
             /\ used' \in 0 .. HeapUnits /\ leaked' \in 0 .. HeapUnits
  BY <1>5 DEF ObeyWithoutTokens
<1> QED
  BY <1>1, <1>2, <1>3, <1>4, <1>5 DEF MqttNext

-----------------------------------------------------------------------------
(* Types.                                                                  *)

(* Everything but the counts of the heap.                                  *)
LEMMA UiTypes ==
  ASSUME TypeOK, UiNext
  PROVE  /\ failed' \in BOOLEAN /\ broken' \in BOOLEAN
         /\ bad' \in SUBSET {"weather", "command"}
         /\ uiPc' \in {"idle", "buffer", "session", "get", "read", "close",
                       "parse", "free", "labels"}
         /\ answer' \in Answers \cup {Refused}
         /\ text' \in Texts \cup {"empty", "head", "tail"}
         /\ bytes_read' \in {"some", "zero", "error"}
         /\ info' \in {"blank", "weather", "garbage"}
         /\ shown' \in {"blank", "weather", "garbage"}
         /\ UNCHANGED mqttVars
<1> USE DEF TypeOK, Ui, heapVars, ghostVars, mqttVars, Alloc, Refuse, Free
<1>1. CASE TimerCallback
  BY <1>1 DEF TimerCallback
<1>2. CASE AllocBuffer
  BY <1>2 DEF AllocBuffer
<1>3. CASE CreateSession
  BY <1>3 DEF CreateSession
<1>4. CASE \E a \in Answers \cup {Refused} : Get(a)
  BY <1>4 DEF Get
<1>5. CASE Read
  <2>1. /\ text' \in {text, answer.text, "head", "tail"}
        /\ answer.text \in Texts
        /\ bytes_read' \in {"some", "zero", "error"}
        /\ uiPc' \in {"read", "close"}
    BY <1>5 DEF Read, ReadPiece, ReadNothing, Answers, Refused, Texts
  <2> QED
    BY <1>5, <2>1 DEF Read
<1>6. CASE Close
  BY <1>6 DEF Close
<1>7. CASE ParseText
  <2>1. info' \in {"blank", "weather", "garbage"} /\ failed' \in BOOLEAN
    BY <1>7 DEF ParseText, Parse, ParseWithoutTokens, Filled
  <2>2. uiPc' \in {"free", "labels"}
    BY <1>7 DEF ParseText, Parse, ParseWithoutTokens
  <2>3. broken' \in BOOLEAN /\ text' = "empty"
          /\ bytes_read' = "zero" /\ UNCHANGED <<bad, answer, shown, mqttVars>>
    BY <1>7 DEF ParseText
  <2> QED
    BY <2>1, <2>2, <2>3
<1>8. CASE FreeBuffer
  BY <1>8 DEF FreeBuffer
<1>9. CASE SetLabels
  BY <1>9 DEF SetLabels
<1> QED
  BY <1>1, <1>2, <1>3, <1>4, <1>5, <1>6, <1>7, <1>8, <1>9 DEF UiNext

LEMMA MqttTypes ==
  ASSUME TypeOK, MqttNext
  PROVE  /\ failed' \in BOOLEAN /\ broken' \in BOOLEAN
         /\ bad' \in SUBSET {"weather", "command"}
         /\ mqttPc' \in {"idle", "tokens", "parse"}
         /\ tokens' \in BOOLEAN
         /\ pins' \in [LEDs -> BOOLEAN] /\ wanted' \in [LEDs -> BOOLEAN]
         /\ UNCHANGED uiVars
<1> USE DEF TypeOK, Mqtt, heapVars, ghostVars, mqttVars, Alloc, Refuse, Free,
            Leak
<1>1. CASE \E end \in Ends : CommandArrives(end)
  BY <1>1 DEF CommandArrives
<1>2. CASE AllocTokens
  BY <1>2 DEF AllocTokens
<1>3. CASE RejectCommand
  BY <1>3 DEF RejectCommand
<1>4. CASE \E c \in Commands : Obey(c)
  BY <1>4 DEF Obey, Commands
<1>5. CASE \E c \in Commands : ObeyWithoutTokens(c)
  BY <1>5 DEF ObeyWithoutTokens, Commands
<1> QED
  BY <1>1, <1>2, <1>3, <1>4, <1>5 DEF MqttNext

LEMMA HeapInit == Init => HeapInv
<1> SUFFICES ASSUME Init PROVE HeapInv
  OBVIOUS
<1>1. pins \in [LEDs -> BOOLEAN] /\ wanted \in [LEDs -> BOOLEAN]
  BY DEF Init, AllOff
<1>2. TypeOK
  <2>1. used \in 0 .. HeapUnits /\ leaked \in 0 .. HeapUnits
    BY HeapAssumption DEF Init
  <2>2. /\ answer \in Answers \cup {Refused}
        /\ bad \in SUBSET {"weather", "command"}
        /\ text \in Texts \cup {"empty", "head", "tail"}
    BY DEF Init
  <2> QED
    BY <1>1, <2>1, <2>2, Zenon DEF Init, TypeOK
<1>3. HeapIsAccounted
  BY DEF Init, HeapIsAccounted, UiLive, MqttLive
<1> QED
  BY <1>2, <1>3 DEF HeapInv

LEMMA HeapStep == HeapInv /\ [Next]_vars => HeapInv'
<1> SUFFICES ASSUME HeapInv, [Next]_vars PROVE HeapInv'
  OBVIOUS
<1>1. CASE UiNext
  BY <1>1, UiAccount, UiTypes DEF HeapInv, TypeOK, mqttVars
<1>2. CASE MqttNext
  BY <1>2, MqttAccount, MqttTypes DEF HeapInv, TypeOK, uiVars
<1>3. CASE UNCHANGED vars
  BY <1>3 DEF HeapInv, TypeOK, HeapIsAccounted, UiLive, MqttLive, vars,
     heapVars, ghostVars, uiVars, mqttVars
<1> QED
  BY <1>1, <1>2, <1>3 DEF Next

LEMMA HeapAlways == Spec => []HeapInv
  BY HeapInit, HeapStep, PTL DEF Spec

(* Every reachable state has the types of TypeOK: neither what is used nor *)
(* what is lost ever passes the heap or falls below zero.                  *)
THEOREM TypeCorrect == Spec => []TypeOK
  BY HeapAlways, PTL DEF HeapInv

(* No exit of the two readers frees a block twice or forgets one the       *)
(* others free: what is used is in use or lost to a text that did not      *)
(* parse (weather.c:107-111, mqtt_main.c:50-54).                           *)
THEOREM EveryBlockIsAccounted == Spec => []HeapIsAccounted
  BY HeapAlways, PTL DEF HeapInv

-----------------------------------------------------------------------------
(* The heap fails only after losses.                                       *)

(* What both threads hold and one of them asks for is within Peak, so that *)
(* a block is refused only if the rest of the heap is lost.                *)
LEMMA RefusedAfterLeaks ==
  ASSUME HeapInv, NEW n \in Nat, used + n > HeapUnits,
         UiLive + MqttLive + n <= Peak
  PROVE  leaked + Peak > HeapUnits
  BY HeapAssumption, LiveBounds DEF HeapInv, HeapIsAccounted, TypeOK,
     Peak, UiPeak, Winfo, Buffer, Session, Copy, Tokens

(* What is lost stays lost.                                                *)
LEMMA MoreIsLostStill ==
  \A l, m, p, h \in Nat : m >= l /\ l + p > h => m + p > h
  OBVIOUS

LEMMA UiFails ==
  ASSUME HeapInv, FailsOnlyAfterLeaks, UiNext
  PROVE  FailsOnlyAfterLeaks'
<1> DEFINE Asks(n) == used + n > HeapUnits /\ UiLive + MqttLive + n <= Peak
<1> USE DEF HeapInv, TypeOK, Ui, heapVars, Alloc, Free
<1>1. \/ UNCHANGED <<failed, leaked>>
      \/ failed' = failed /\ leaked' = leaked + Buffer + Tokens
      \/ /\ leaked' \in {leaked, leaked + Buffer}
         /\ Asks(Winfo) \/ Asks(Buffer) \/ Asks(Session) \/ Asks(Tokens)
  <2> USE LiveBounds DEF Winfo, Buffer, Session, Copy, Tokens, Peak, UiPeak
  <2>1. CASE TimerCallback
    BY <2>1 DEF TimerCallback, Refuse, UiLive
  <2>2. CASE AllocBuffer
    BY <2>2 DEF AllocBuffer, Refuse, UiLive
  <2>3. CASE CreateSession
    BY <2>3 DEF CreateSession, Refuse, UiLive
  <2>4. CASE \E a \in Answers \cup {Refused} : Get(a)
    BY <2>4 DEF Get
  <2>5. CASE Read
    BY <2>5 DEF Read, ReadPiece, ReadNothing
  <2>6. CASE Close
    BY <2>6 DEF Close
  <2>7. CASE ParseText
    <3>1. CASE Parse
      BY <3>1 DEF Parse
    <3>2. CASE ParseWithoutTokens
      BY <3>2 DEF ParseWithoutTokens, Refuse, UiLive
    <3> QED
      BY <2>7, <3>1, <3>2 DEF ParseText
  <2>8. CASE FreeBuffer
    BY <2>8 DEF FreeBuffer
  <2>9. CASE SetLabels
    BY <2>9 DEF SetLabels
  <2> QED
    BY <2>1, <2>2, <2>3, <2>4, <2>5, <2>6, <2>7, <2>8, <2>9 DEF UiNext
<1>2. \A n \in Nat : Asks(n) => leaked + Peak > HeapUnits
  BY RefusedAfterLeaks
<1>3. leaked' >= leaked /\ leaked' \in Nat
  BY <1>1 DEF Buffer, Tokens
<1>4. failed' = failed \/ leaked + Peak > HeapUnits
  BY <1>1, <1>2 DEF Winfo, Buffer, Session, Tokens
<1>5. leaked + Peak > HeapUnits => leaked' + Peak > HeapUnits
  <2>1. leaked \in Nat /\ HeapUnits \in Nat /\ Peak \in Nat
    BY HeapAssumption DEF Peak, UiPeak, Winfo, Buffer, Tokens, Copy
  <2> QED
    BY <1>3, <2>1, MoreIsLostStill
<1> QED
  BY <1>4, <1>5, Zenon DEF FailsOnlyAfterLeaks

LEMMA MqttFails ==
  ASSUME HeapInv, FailsOnlyAfterLeaks, MqttNext
  PROVE  FailsOnlyAfterLeaks'
<1> DEFINE Asks(n) == used + n > HeapUnits /\ UiLive + MqttLive + n <= Peak
<1> USE DEF HeapInv, TypeOK, Mqtt, heapVars, Alloc, Free
<1>1. \/ UNCHANGED <<failed, leaked>>
      \/ failed' = failed /\ leaked' \in {leaked + Copy + Tokens, leaked + Copy}
      \/ leaked' = leaked /\ (Asks(Copy) \/ Asks(Tokens))
  <2> USE LiveBounds DEF Winfo, Buffer, Session, Copy, Tokens, Peak, UiPeak
  <2>1. CASE \E end \in Ends : CommandArrives(end)
    <3>1. \/ Mqtt("idle", "tokens") /\ Alloc(Copy)
          \/ Mqtt("idle", "idle") /\ Refuse(Copy)
      BY <2>1, Zenon DEF CommandArrives
    <3> QED
      BY <3>1 DEF Refuse, MqttLive
  <2>2. CASE AllocTokens
    BY <2>2 DEF AllocTokens, Refuse, MqttLive
  <2>3. CASE RejectCommand
    BY <2>3 DEF RejectCommand, Leak
  <2>4. CASE \E c \in Commands : Obey(c)
    BY <2>4 DEF Obey
  <2>5. CASE \E c \in Commands : ObeyWithoutTokens(c)
    BY <2>5 DEF ObeyWithoutTokens
  <2> QED
    BY <2>1, <2>2, <2>3, <2>4, <2>5 DEF MqttNext
<1>2. \A n \in Nat : Asks(n) => leaked + Peak > HeapUnits
  BY RefusedAfterLeaks
<1>3. leaked' >= leaked /\ leaked' \in Nat
  BY <1>1 DEF Copy, Tokens
<1>4. failed' = failed \/ leaked + Peak > HeapUnits
  BY <1>1, <1>2 DEF Copy, Tokens
<1>5. leaked + Peak > HeapUnits => leaked' + Peak > HeapUnits
  <2>1. leaked \in Nat /\ HeapUnits \in Nat /\ Peak \in Nat
    BY HeapAssumption DEF Peak, UiPeak, Winfo, Buffer, Tokens, Copy
  <2> QED
    BY <1>3, <2>1, MoreIsLostStill
<1> QED
  BY <1>4, <1>5, Zenon DEF FailsOnlyAfterLeaks

(* The heap refuses a block only when texts that did not parse have cost   *)
(* all but what the two threads need together, however large it is.        *)
THEOREM FailureHasLeaks == Spec => []FailsOnlyAfterLeaks
<1>1. Init => FailsOnlyAfterLeaks
  BY DEF Init, FailsOnlyAfterLeaks
<1>2. HeapInv /\ FailsOnlyAfterLeaks /\ [Next]_vars => FailsOnlyAfterLeaks'
  <2>1. ASSUME FailsOnlyAfterLeaks, UNCHANGED vars PROVE FailsOnlyAfterLeaks'
    BY <2>1 DEF FailsOnlyAfterLeaks, vars, heapVars
  <2> QED
    BY <2>1, UiFails, MqttFails DEF Next
<1> QED
  BY <1>1, <1>2, HeapAlways, PTL DEF Spec

-----------------------------------------------------------------------------
(* Good texts do no harm.                                                  *)

LEMMA UiTraced ==
  ASSUME TypeOK, Traced, UiNext
  PROVE  Traced'
<1> USE DEF TypeOK, Traced, LabelsTraced, LedsTraced, WritesTraced, Ui,
            heapVars, ghostVars, mqttVars, Alloc, Refuse, Free
<1>1. CASE TimerCallback
  <2>1. /\ info' = "blank" /\ UNCHANGED <<bad, answer, text, shown, mqttVars>>
        /\ failed => failed'
        /\ broken' => failed'
    BY <1>1 DEF TimerCallback
  <2> QED
    BY <2>1
<1>2. CASE AllocBuffer
  BY <1>2 DEF AllocBuffer, Harmful
<1>3. CASE CreateSession
  BY <1>3 DEF CreateSession
<1>4. ASSUME NEW a \in Answers \cup {Refused}, Get(a) PROVE Traced'
  <2>1. /\ answer' = a /\ bad \subseteq bad'
        /\ a.text \in Harmful => "weather" \in bad'
        /\ failed' = failed
        /\ UNCHANGED <<broken, text, info, shown, mqttVars>>
    BY <1>4 DEF Get
  <2> QED
    BY <2>1
<1>5. CASE Read
  <2>1. text' \in {text, answer.text, "head", "tail"}
    BY <1>5 DEF Read, ReadPiece, ReadNothing
  <2>2. UNCHANGED <<failed, bad, broken, answer, info, shown, mqttVars>>
    BY <1>5 DEF Read
  <2> QED
    BY <2>1, <2>2 DEF Harmful
<1>6. CASE Close
  BY <1>6 DEF Close, Refused, Harmful
<1>7. CASE ParseText
  <2>1. /\ info' = "garbage" => "weather" \in bad \/ failed'
        /\ failed => failed'
    <3>1. CASE Parse
      <4>1. info' = "garbage" /\ Seen # "whole" => text \in Harmful \/ info = "garbage"
        BY <3>1 DEF Parse, Filled, Parses, Seen, Texts, Harmful
      <4>2. info' = "garbage" /\ Seen = "whole" => info = "garbage"
        BY <3>1 DEF Parse, Filled
      <4> QED
        BY <3>1, <4>1, <4>2, Zenon DEF Parse
    <3>2. CASE ParseWithoutTokens
      BY <3>2 DEF ParseWithoutTokens
    <3> QED
      BY <1>7, <3>1, <3>2 DEF ParseText
  <2>2. broken' => info' = "garbage" \/ text \in Harmful
    BY <1>7 DEF ParseText, Seen, Harmful
  <2>3. text' = "empty" /\ UNCHANGED <<bad, answer, shown, mqttVars>>
    BY <1>7 DEF ParseText
  <2> QED
    BY <2>1, <2>2, <2>3 DEF Harmful
<1>8. CASE FreeBuffer
  BY <1>8 DEF FreeBuffer
<1>9. CASE SetLabels
  BY <1>9 DEF SetLabels
<1> QED
  BY <1>1, <1>2, <1>3, <1>4, <1>5, <1>6, <1>7, <1>8, <1>9 DEF UiNext

LEMMA MqttTraced ==
  ASSUME TypeOK, Traced, MqttNext
  PROVE  Traced'
<1> USE DEF TypeOK, Traced, LabelsTraced, LedsTraced, WritesTraced, Mqtt,
            heapVars, ghostVars, uiVars, mqttVars, Alloc, Refuse, Free, Leak
<1>1. CASE \E end \in Ends : CommandArrives(end)
  <2>1. PICK end \in Ends : CommandArrives(end)
    BY <1>1
  <2>2. /\ bad \subseteq bad' /\ (broken' => bad' # {} \/ failed')
        /\ failed => failed'
        /\ mqttPc' # "parse"
        /\ UNCHANGED <<uiVars, pins, wanted>>
    <3>1. CASE end = "NUL"
      BY <2>1, <3>1 DEF CommandArrives
    <3>2. CASE end # "NUL"
      BY <2>1, <3>2 DEF CommandArrives
    <3> QED
      BY <3>1, <3>2
  <2> QED
    BY <2>2
<1>2. CASE AllocTokens
  BY <1>2 DEF AllocTokens
<1>3. CASE RejectCommand
  BY <1>3 DEF RejectCommand
<1>4. ASSUME NEW c \in Commands, Obey(c) PROVE Traced'
  <2>1. CASE c.has = LEDs
    <3>1. pins' = c.on
      BY <1>4, <2>1 DEF Obey, Commands
    <3> QED
      BY <1>4, <2>1, <3>1 DEF Obey
  <2>2. CASE c.has # LEDs
    <3>1. bad' = bad \cup {"command"} /\ UNCHANGED uiVars /\ failed' = failed
      BY <1>4, <2>2 DEF Obey
    <3> QED
      BY <3>1
  <2> QED
    BY <2>1, <2>2
<1>5. ASSUME NEW c \in Commands, ObeyWithoutTokens(c) PROVE Traced'
  <2>1. /\ bad \subseteq bad' /\ UNCHANGED uiVars /\ failed' = failed
        /\ "command" \in bad \/ failed
    BY <1>5 DEF ObeyWithoutTokens
  <2> QED
    BY <2>1
<1> QED
  BY <1>1, <1>2, <1>3, <1>4, <1>5 DEF MqttNext

(* However the two threads interleave and whatever they are sent, wrong    *)
(* labels, wrong LEDs and stray writes each have their cause: the text of  *)
(* that side was not one the code can take (a key missing, weather.c:116,  *)
(* or a value that does not fit, weather.c:222-283), or the heap was used  *)
(* up.  It says nothing of texts the code cannot take.                     *)
THEOREM HarmHasCause == Spec => []GoodTextsDoNoHarm
<1>1. Init => Traced
  BY DEF Init, Traced, LabelsTraced, LedsTraced, WritesTraced, Refused, Harmful
<1>2. TypeOK /\ Traced /\ [Next]_vars => Traced'
  <2>1. ASSUME Traced, UNCHANGED vars PROVE Traced'
    BY <2>1 DEF Traced, LabelsTraced, LedsTraced, WritesTraced, vars, heapVars,
       ghostVars, uiVars, mqttVars
  <2> QED
    BY <2>1, UiTraced, MqttTraced DEF Next
<1>3. Traced => GoodTextsDoNoHarm
  BY DEF Traced, LabelsTraced, LedsTraced, WritesTraced, GoodTextsDoNoHarm
<1> QED
  BY <1>1, <1>2, <1>3, TypeCorrect, PTL DEF Spec
=============================================================================
