------------------------------ MODULE JsonUsers ------------------------------
(***************************************************************************)
(* The two readers of JSON text and the heap they share:                   *)
(*                                                                         *)
(*   ui    the lvgl thread (priority 10): timer_callback fetches the       *)
(*         weather into a global buffer, parses it and sets the labels;    *)
(*   mqtt  the MQTT thread (priority 20): mqtt_recv_handle parses a        *)
(*         command and switches the two LEDs.                              *)
(*                                                                         *)
(* Both return at once when jsmn_parse fails and keep what they allocated. *)
(* The heap is a number of units; a block that cannot be had is NULL, and  *)
(* a write through NULL ends the model: what follows is not defined.  So   *)
(* does a write past a block.  An item whose key is missing is read        *)
(* uninitialised, and a value is copied whatever its length.               *)
(***************************************************************************)
EXTENDS Integers

CONSTANTS
  HeapUnits  (* bound: the heap, in units of 600 bytes                     *)

Winfo   == 1  (* struct weather_info *)
Buffer  == 2  (* GET_RESP_BUFSZ, 1200 bytes *)
Session == 2  (* a webclient session with GET_HEADER_BUFSZ *)
Tokens  == 5  (* 150 tokens of 20 bytes *)
Copy    == 1  (* a command's own copy of its payload *)

(* The most that both hold at a time.                                      *)
UiPeak == Winfo + Buffer + Tokens
Peak   == UiPeak + Copy + Tokens

ASSUME HeapAssumption == HeapUnits \in Nat /\ HeapUnits >= Peak

VARIABLES
  used,          (* units allocated                                        *)
  leaked,        (* ghost: units that nobody will free                     *)
  failed,        (* ghost: the heap has refused a block                    *)
  bad,           (* ghost: who has been sent a text the code cannot take   *)
  broken,        (* a write through NULL, a pointer not set or past a block *)
  uiPc, mqttPc,  (* where the two threads are                              *)
  answer,        (* what the server sends to this request                  *)
  text,          (* what the buffer starts with: a text or a piece of one  *)
  bytes_read,    (* the last result of webclient_read: some, zero or error *)
  info, shown,   (* what winfo holds, what the labels show                 *)
  tokens,        (* of a command: the pointer is not NULL                  *)
  pins, wanted   (* the LEDs; ghost: the last command with all its keys    *)

ghostVars == <<bad, broken>>
heapVars  == <<used, leaked, failed>>
uiVars    == <<uiPc, answer, text, bytes_read, info, shown>>
mqttVars  == <<mqttPc, tokens, pins, wanted>>
vars == <<heapVars, ghostVars, uiVars, mqttVars>>

(* "odd" lacks a key or the value of one.  "misfit" has them all, but not  *)
(* as the code takes them: a value longer than its field of 10, 20 or 25   *)
(* bytes, a date without its dashes.  A text is sent in pieces, read one   *)
(* at a time, with its length or chunked, and may not come to its end.     *)
Texts   == {"whole", "odd", "misfit"}
Harmful == {"odd", "misfit"}
Answers == [text : Texts, pieces : 1 .. 2, chunked : BOOLEAN, ends : BOOLEAN]

(* Any status but 200; also what answer is between two requests: no piece. *)
Refused == [text |-> "whole", pieces |-> 0, chunked |-> FALSE, ends |-> TRUE]

(* has: the keys that are there with a string or a number.                 *)
LEDs    == {"R", "B"}
Commands == [has : SUBSET LEDs, on : [LEDs -> BOOLEAN]]

TypeOK ==
  /\ used \in 0 .. HeapUnits /\ leaked \in 0 .. HeapUnits
  /\ failed \in BOOLEAN /\ bad \in SUBSET {"weather", "command"}
  /\ broken \in BOOLEAN
  /\ uiPc \in {"idle", "buffer", "session", "get", "read", "close", "parse",
               "free", "labels"}
  /\ mqttPc \in {"idle", "tokens", "parse"}
  /\ answer \in Answers \cup {Refused}
  /\ text \in Texts \cup {"empty", "head", "tail"}
  /\ bytes_read \in {"some", "zero", "error"}
  /\ info \in {"blank", "weather", "garbage"}
  /\ shown \in {"blank", "weather", "garbage"}
  /\ tokens \in BOOLEAN
  /\ pins \in [LEDs -> BOOLEAN] /\ wanted \in [LEDs -> BOOLEAN]

AllOff == [l \in LEDs |-> FALSE]

Init ==
  /\ used = 0 /\ leaked = 0
  /\ failed = FALSE /\ bad = {} /\ broken = FALSE
  /\ uiPc = "idle" /\ mqttPc = "idle"
  /\ answer = Refused /\ text = "empty" /\ bytes_read = "zero"
  /\ info = "blank" /\ shown = "blank"
  /\ tokens = FALSE
  /\ pins = AllOff /\ wanted = AllOff

-----------------------------------------------------------------------------
(* The heap.                                                               *)

Alloc(n) ==
  /\ used + n <= HeapUnits
  /\ used' = used + n /\ UNCHANGED <<leaked, failed>>

Refuse(n) ==
  /\ used + n > HeapUnits
  /\ failed' = TRUE /\ UNCHANGED <<used, leaked>>

Free(n) == used' = used - n /\ UNCHANGED <<leaked, failed>>
Leak(n) == leaked' = leaked + n /\ UNCHANGED <<used, failed>>

-----------------------------------------------------------------------------
(* The weather: timer_callback, weather_get_test and weather_get_comm.     *)

Ui(from, to) == ~broken /\ uiPc = from /\ uiPc' = to

(* winfo is written unchecked.                                             *)
TimerCallback ==
  /\ info' = "blank"
  /\ \/ Ui("idle", "buffer") /\ Alloc(Winfo) /\ UNCHANGED broken
     \/ Ui("idle", "idle") /\ Refuse(Winfo) /\ broken' = TRUE
  /\ UNCHANGED <<bad, answer, text, bytes_read, shown, mqttVars>>

AllocBuffer ==
  /\ \/ Ui("buffer", "session") /\ Alloc(Buffer) /\ text' = "empty"
     \/ Ui("buffer", "labels") /\ Refuse(Buffer) /\ UNCHANGED text
  /\ UNCHANGED <<ghostVars, answer, bytes_read, info, shown, mqttVars>>

CreateSession ==
  /\ \/ Ui("session", "get") /\ Alloc(Session)
     \/ Ui("session", "free") /\ Refuse(Session)
  /\ UNCHANGED <<ghostVars, answer, text, bytes_read, info, shown, mqttVars>>

(* webclient_get.  Any status but 200 closes the session and gives up.     *)
(* Bug: the test of the status is the wrong way round.                     *)
Get_Bug(a) ==
  /\ \/ Ui("get", "free") /\ a # Refused /\ Free(Session)
     \/ Ui("get", "read") /\ a = Refused /\ UNCHANGED heapVars
  /\ answer' = a
  /\ bad' = IF a.text \in Harmful THEN bad \cup {"weather"} ELSE bad
  /\ UNCHANGED <<broken, text, bytes_read, info, shown, mqttVars>>
Get(a) ==
  /\ \/ Ui("get", "free") /\ a = Refused /\ Free(Session)
     \/ Ui("get", "read") /\ a # Refused /\ UNCHANGED heapVars
  /\ answer' = a
  /\ bad' = IF a.text \in Harmful THEN bad \cup {"weather"} ELSE bad
  /\ UNCHANGED <<broken, text, bytes_read, info, shown, mqttVars>>

(* The two loops of weather_get_comm.  Each webclient_read overwrites the  *)
(* start of the buffer and bytes_read.  With a length the loop ends when   *)
(* it has been read; in chunks it goes on to a result of zero or less.     *)
AllRead == text \in Texts \cup {"tail"}

ReadPiece ==
  /\ ~AllRead
  /\ text' = IF text = "head" THEN "tail"
             ELSE IF answer.pieces = 1 THEN answer.text ELSE "head"
  /\ bytes_read' = "some"
  /\ Ui("read", IF AllRead' /\ ~answer.chunked THEN "close" ELSE "read")

(* The last chunk is followed by zero.  A connection that closes early is  *)
(* zero too, one that goes quiet an error; the buffer is left as it was.   *)
ReadNothing ==
  /\ Ui("read", "close")
  /\ \/ answer.ends /\ AllRead /\ bytes_read' = "zero"
     \/ ~answer.ends /\ bytes_read' \in {"zero", "error"}
  /\ UNCHANGED text

Read ==
  /\ ReadPiece \/ ReadNothing
  /\ UNCHANGED <<heapVars, ghostVars, answer, info, shown, mqttVars>>

(* The request is over, and so is what was sent for it.                    *)
Close ==
  /\ Ui("close", "parse") /\ Free(Session)
  /\ answer' = Refused
  /\ UNCHANGED <<ghostVars, text, bytes_read, info, shown, mqttVars>>

(* jsmn_parse sees bytes_read bytes, none after zero, and the buffer up to *)
(* its first NUL after an error (a negative length is a large one).        *)
Seen == IF bytes_read = "zero" THEN "empty" ELSE text
Parses(t) == t \in Texts

(* The values are copied into the fields of winfo one after the other and  *)
(* whatever their length: the pointer of a key that is missing was not     *)
(* set, and a long value runs into the next field or past the block.       *)
Filled(t) == IF t = "whole" THEN {"weather"} ELSE {"weather", "garbage"}

(* The text is taken over into winfo and the tokens are freed; a text that *)
(* does not parse leaves tokens and buffer behind.  None of it blocks, so  *)
(* the other thread, of lower priority, sees it in one step.               *)
(* Bug: a text that parses leaves its tokens behind too.                   *)
Parse_Bug ==
  \/ /\ Ui("parse", "free") /\ Parses(Seen)
     /\ Alloc(Tokens) /\ info' \in Filled(Seen)
  \/ /\ Ui("parse", "labels") /\ ~Parses(Seen)
     /\ used + Tokens <= HeapUnits /\ used' = used + Tokens
     /\ leaked' = leaked + Buffer + Tokens /\ UNCHANGED <<failed, info>>
Parse ==
  \/ /\ Ui("parse", "free") /\ Parses(Seen)
     /\ used + Tokens <= HeapUnits /\ UNCHANGED heapVars
     /\ info' \in Filled(Seen)
  \/ /\ Ui("parse", "labels") /\ ~Parses(Seen)
     /\ used + Tokens <= HeapUnits /\ used' = used + Tokens
     /\ leaked' = leaked + Buffer + Tokens /\ UNCHANGED <<failed, info>>

(* Without tokens jsmn_parse only counts and finds no fault but a string   *)
(* cut in two, and every item stays unset.                                 *)
ParseWithoutTokens ==
  \/ /\ Ui("parse", "free") /\ Seen # "empty"
     /\ Refuse(Tokens) /\ info' = "garbage"
  \/ /\ Ui("parse", "labels") /\ ~Parses(Seen)
     /\ used + Tokens > HeapUnits /\ failed' = TRUE
     /\ leaked' = leaked + Buffer /\ UNCHANGED <<used, info>>

(* The next request sets what is reset here.                               *)
ParseText ==
  /\ Parse \/ ParseWithoutTokens
  /\ broken' \in IF info' = "garbage" \/ Seen \in Harmful
                  THEN BOOLEAN ELSE {FALSE}
  /\ text' = "empty" /\ bytes_read' = "zero"
  /\ UNCHANGED <<bad, answer, shown, mqttVars>>

(* Bug: the buffer is freed twice.                                         *)
FreeBuffer_Bug ==
  /\ Ui("free", "labels") /\ Free(Buffer + Buffer)
  /\ UNCHANGED <<ghostVars, answer, text, bytes_read, info, shown, mqttVars>>
FreeBuffer ==
  /\ Ui("free", "labels") /\ Free(Buffer)
  /\ UNCHANGED <<ghostVars, answer, text, bytes_read, info, shown, mqttVars>>

(* Whatever weather_get_test has returned, the labels show winfo.          *)
SetLabels ==
  /\ Ui("labels", "idle") /\ Free(Winfo)
  /\ shown' = info /\ info' = "blank"
  /\ UNCHANGED <<ghostVars, answer, text, bytes_read, mqttVars>>

-----------------------------------------------------------------------------
(* The commands: mqtt_recv_handle.                                         *)

Mqtt(from, to) == ~broken /\ mqttPc = from /\ mqttPc' = to

Ends == {"NUL", "open"}

(* The copy of the payload is written unchecked, and up to a NUL, which a  *)
(* message that fills the read buffer of the client does not have.         *)
CommandArrives(end) ==
  /\ \/ /\ Mqtt("idle", "tokens") /\ Alloc(Copy)
        /\ broken' \in IF end = "NUL" THEN {FALSE} ELSE BOOLEAN
     \/ Mqtt("idle", "idle") /\ Refuse(Copy) /\ broken' = TRUE
  /\ bad' = IF end = "NUL" THEN bad ELSE bad \cup {"command"}
  /\ UNCHANGED <<uiVars, tokens, pins, wanted>>

AllocTokens ==
  /\ Mqtt("tokens", "parse")
  /\ \/ Alloc(Tokens) /\ tokens' = TRUE
     \/ Refuse(Tokens) /\ tokens' = FALSE
  /\ UNCHANGED <<ghostVars, uiVars, pins, wanted>>

(* A command that does not parse keeps its copy and the tokens; without    *)
(* tokens only an empty one does not parse.                                *)
RejectCommand ==
  /\ Mqtt("parse", "idle")
  /\ Leak(IF tokens THEN Copy + Tokens ELSE Copy)
  /\ tokens' = FALSE
  /\ UNCHANGED <<ghostVars, uiVars, pins, wanted>>

(* Each LED whose key is there is switched, then both blocks are freed.    *)
(* Bug: the tokens are not freed.                                          *)
Obey_Bug(c) ==
  /\ Mqtt("parse", "idle") /\ tokens
  /\ pins' \in {p \in [LEDs -> BOOLEAN] : \A l \in c.has : p[l] = c.on[l]}
  /\ broken' \in IF c.has = LEDs THEN {FALSE} ELSE BOOLEAN
  /\ bad' = IF c.has = LEDs THEN bad ELSE bad \cup {"command"}
  /\ wanted' = IF c.has = LEDs THEN c.on ELSE wanted
  /\ Free(Copy)
  /\ tokens' = FALSE
  /\ UNCHANGED uiVars
(* Bug: each LED takes the value of the other.                             *)
ObeyCrossed_Bug(c) ==
  /\ Mqtt("parse", "idle") /\ tokens
  /\ pins' \in {p \in [LEDs -> BOOLEAN] :
                  \A l \in c.has : \A k \in LEDs \ {l} : p[k] = c.on[l]}
  /\ broken' \in IF c.has = LEDs THEN {FALSE} ELSE BOOLEAN
  /\ bad' = IF c.has = LEDs THEN bad ELSE bad \cup {"command"}
  /\ wanted' = IF c.has = LEDs THEN c.on ELSE wanted
  /\ Free(Copy + Tokens)
  /\ tokens' = FALSE
  /\ UNCHANGED uiVars
Obey(c) ==
  /\ Mqtt("parse", "idle") /\ tokens
  /\ pins' \in {p \in [LEDs -> BOOLEAN] : \A l \in c.has : p[l] = c.on[l]}
  /\ broken' \in IF c.has = LEDs THEN {FALSE} ELSE BOOLEAN
  /\ bad' = IF c.has = LEDs THEN bad ELSE bad \cup {"command"}
  /\ wanted' = IF c.has = LEDs THEN c.on ELSE wanted
  /\ Free(Copy + Tokens)
  /\ tokens' = FALSE
  /\ UNCHANGED uiVars

(* Without tokens no item is set, whatever the command says.               *)
ObeyWithoutTokens(c) ==
  /\ Mqtt("parse", "idle") /\ ~tokens
  /\ pins' \in [LEDs -> BOOLEAN] /\ broken' \in BOOLEAN
  /\ bad' = IF c.has = LEDs THEN bad ELSE bad \cup {"command"}
  /\ wanted' = IF c.has = LEDs THEN c.on ELSE wanted
  /\ Free(Copy)
  /\ UNCHANGED <<uiVars, tokens>>

-----------------------------------------------------------------------------
UiNext ==
  \/ TimerCallback \/ AllocBuffer \/ CreateSession
  \/ \E a \in Answers \cup {Refused} : Get(a)
  \/ Read \/ Close \/ ParseText \/ FreeBuffer \/ SetLabels

MqttNext ==
  \/ \E end \in Ends : CommandArrives(end)
  \/ AllocTokens \/ RejectCommand
  \/ \E c \in Commands : Obey(c) \/ ObeyWithoutTokens(c)

Next == UiNext \/ MqttNext

Spec == Init /\ [][Next]_vars

(* The lvgl thread fetches again and again.                                *)
FairSpec == Spec /\ WF_vars(UiNext)

-----------------------------------------------------------------------------
(* What each thread holds at its place and will free itself.               *)
UiLive ==
  (IF uiPc = "idle" THEN 0 ELSE Winfo)
  + (IF uiPc \in {"idle", "buffer", "labels"} THEN 0 ELSE Buffer)
  + (IF uiPc \in {"get", "read", "close"} THEN Session ELSE 0)

MqttLive ==
  (IF mqttPc = "idle" THEN 0 ELSE Copy)
  + (IF mqttPc = "parse" /\ tokens THEN Tokens ELSE 0)

(* Every block is in use by one of the threads or lost to a text that did  *)
(* not parse: no way out of the two functions frees one twice, or keeps    *)
(* one that the others free.                                               *)
HeapIsAccounted == used = leaked + UiLive + MqttLive

(* The heap refuses a block only after texts that did not parse have cost  *)
(* all but what the two threads need together: with good texts the two     *)
(* never starve each other.                                                *)
FailsOnlyAfterLeaks == failed => leaked + Peak > HeapUnits

(* Each harm has its cause on its own side, or in a heap used up: labels   *)
(* go wrong only by a weather text that lacks a value or has one the code  *)
(* cannot take, LEDs only by a command without one of its keys or its end, *)
(* and nothing is written where it should not be without one of the two.   *)
(* Neither thread's bad texts, losses or order show in what the other does.*)
GoodTextsDoNoHarm ==
  /\ shown = "garbage" => "weather" \in bad \/ failed
  /\ mqttPc = "idle" /\ pins # wanted => "command" \in bad \/ failed
  /\ broken => bad # {} \/ failed

(* Once the server only sends good answers the weather is shown again and  *)
(* again, whatever it sent before, as long as the heap is not used up.     *)
GoodAnswer ==
  [text |-> "whole", pieces |-> 1, chunked |-> FALSE, ends |-> TRUE]
GoodAnswersOnly ==
  <>[][uiPc = "get" /\ uiPc' # "get" => answer' = GoodAnswer]_vars
WeatherReturns ==
  GoodAnswersOnly /\ []~failed /\ []~broken => []<>(shown = "weather")
=============================================================================
