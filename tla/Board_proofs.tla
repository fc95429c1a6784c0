---------------------------- MODULE Board_proofs ----------------------------
(***************************************************************************)
(* TLAPS proofs about Board, for every set of bytes on switches and line:  *)
(* a press acts once, an action sends one frame, everything keeps to its   *)
(* range, and what the eye sees is the abstract display.  And about Panel, *)
(* the functions of the drivers in any order: everything keeps to its      *)
(* range, the blinking LEDs agree, and the display rests readable.         *)
(***************************************************************************)
EXTENDS Board, Panel, SequenceTheorems, TLAPS

USE DEF PUSHED, RELEASED

(* The contacts, the finger and what Button_GetState remembers of them.  A  *)
(* press that was used up leaves the finger off a released button, and a    *)
(* contact that moved since the delay began did so by a press not used up.  *)
ContactInv ==
    /\ prevState \in [Buttons -> {0, 1}]
    /\ level \in [Buttons -> {0, 1}] /\ held \in [Buttons -> {0, 1}]
    /\ bounce \in [Buttons -> {"still", "old", "new"}]
    /\ pressed \in [Buttons -> BOOLEAN]
    /\ cur \in Buttons
    /\ \A b \in Buttons :
         /\ bounce[b] = "still" => level[b] = held[b]
         /\ prevState[b] = 0 /\ ~pressed[b] =>
              held[b] = 0 /\ (pc = "delay" => bounce[b] # "new")
         /\ pc = "delay" /\ bounce[b] = "new" /\ ~pressed[b] => held[b] = 0

(* Where the call of SPI_Excute stands: the line is quiet when it begins,   *)
(* its start level is accepted before it is cleared and not again.          *)
CallInv ==
    /\ access \in {"none", "set", "clear", "poll", "read"}
    /\ access # "none" => pc = "sending" /\ todo = <<>>
    /\ pc = "sending" => access # "none"
    /\ access # "clear" => start = 0
    /\ pc \in {"act", "send"} => phase = "idle"
    /\ access = "set" => phase = "idle" /\ frames = 0
    /\ access = "clear" =>
         /\ start = 1
         /\ IF taken THEN phase # "idle" /\ frames = 1 /\ out = tx
                     ELSE phase = "idle" /\ frames = 0
    /\ access \in {"poll", "read"} => frames = 1 /\ out = tx

-----------------------------------------------------------------------------
(* At power-up nobody is at the buttons and nothing is on the line. *)
LEMMA InitInv == Init => ContactInv /\ CallInv
  BY DEF Init, DeviceInit, SpiInit, T!Init, ContactInv, CallInv, Buttons

(* The device below the application leaves buttons and program alone. *)
LEMMA DeviceContact ==
    ASSUME ContactInv, UNCHANGED <<appVars, fingerVars>>
    PROVE  ContactInv'
  BY DEF ContactInv, appVars, fingerVars

(* The finger moves: a press is remembered until it is used up. *)
LEMMA MoveContact ==
    ASSUME ContactInv, NEW b \in Buttons, Move(b) PROVE ContactInv'
<1>1. /\ held' \in [Buttons -> {0, 1}] /\ bounce' \in [Buttons -> {"still", "old", "new"}]
      /\ pressed' \in [Buttons -> BOOLEAN]
  BY DEF ContactInv, Move
<1>2. UNCHANGED <<pc, cur, prevState, level>>
  BY DEF Move, appVars
<1>3. ASSUME NEW c \in Buttons
      PROVE  /\ bounce'[c] = "still" => level'[c] = held'[c]
             /\ prevState'[c] = 0 /\ ~pressed'[c] =>
                  held'[c] = 0 /\ (pc' = "delay" => bounce'[c] # "new")
             /\ pc' = "delay" /\ bounce'[c] = "new" /\ ~pressed'[c] => held'[c] = 0
  <2>1. CASE c = b
    <3>1. /\ held'[b] = 1 - held[b] /\ bounce'[b] = "new"
          /\ pressed'[b] = (pressed[b] \/ held[b] = 0)
      BY DEF ContactInv, Move
    <3>2. held[b] \in {0, 1}
      BY DEF ContactInv
    <3>3. ~pressed'[b] => ~pressed[b] /\ held[b] = 1 /\ prevState[b] # 0
      BY <3>1, <3>2 DEF ContactInv
    <3>4. QED
      BY <1>2, <2>1, <3>1, <3>2, <3>3
  <2>2. CASE c # b
    BY <1>2, <2>2 DEF ContactInv, Move
  <2>3. QED
    BY <2>1, <2>2
<1>4. QED
  BY <1>1, <1>2, <1>3 DEF ContactInv

(* A contact bounces, or comes to rest where the finger is. *)
LEMMA BounceContact ==
    ASSUME ContactInv, NEW b \in Buttons, Bounce(b) \/ Settle(b) PROVE ContactInv'
<1>1. /\ level' \in [Buttons -> {0, 1}] /\ bounce' \in [Buttons -> {"still", "old", "new"}]
      /\ UNCHANGED <<pc, cur, prevState, held, pressed>>
  BY DEF ContactInv, Bounce, Settle, appVars
<1>2. ASSUME NEW c \in Buttons
      PROVE  /\ bounce'[c] = "still" => level'[c] = held'[c]
             /\ bounce'[c] = "new" => bounce[c] = "new"
  BY <1>1 DEF ContactInv, Bounce, Settle
<1>3. QED
  BY <1>1, <1>2 DEF ContactInv

(* The first read of a button: what bounces now is older than the delay. *)
LEMMA CheckContact == ContactInv /\ Check => ContactInv'
<1> SUFFICES ASSUME ContactInv, Check PROVE ContactInv'
  OBVIOUS
<1>1. UNCHANGED <<prevState, level, held, pressed>> /\ cur' \in Buttons
  BY DEF Check, NextPart, ContactInv, Buttons
<1>2. CASE pc' = "delay"
  <2>1. bounce' = [b \in Buttons |-> IF bounce[b] = "new" THEN "old" ELSE bounce[b]]
    BY <1>2 DEF Check, NextPart
  <2>2. QED
    BY <1>1, <2>1 DEF ContactInv
<1>3. CASE pc' # "delay"
  <2>1. UNCHANGED bounce
    BY <1>3 DEF Check, NextPart
  <2>2. QED
    BY <1>1, <1>3, <2>1 DEF ContactInv
<1>4. QED
  BY <1>2, <1>3

(* The second read: a button that reads released, and whose contact is not  *)
(* still bouncing from before, has been let go.                             *)
LEMMA RereadContact == ContactInv /\ Reread => ContactInv'
<1> SUFFICES ASSUME ContactInv, Reread PROVE ContactInv'
  OBVIOUS
<1>1. /\ UNCHANGED <<level, held, bounce>> /\ cur' \in Buttons
      /\ pc = "delay" /\ pc' # "delay"
      /\ prevState' \in [Buttons -> {0, 1}] /\ pressed' \in [Buttons -> BOOLEAN]
  BY DEF Reread, NextPart, ContactInv, Buttons
<1>2. ASSUME NEW b \in Buttons, prevState'[b] = 0, ~pressed'[b]
      PROVE  held[b] = 0
  <2>1. CASE prevState[b] = 0 /\ ~pressed[b]
    BY <2>1 DEF ContactInv
  <2>2. CASE prevState[b] = 1 /\ ~pressed[b]
    <3>1. b = cur /\ level[b] = 0 /\ bounce[b] # "old"
      BY <1>2, <2>2 DEF Reread, Confirmed, DelayOver, ContactInv
    <3>2. QED
      BY <1>1, <2>2, <3>1 DEF ContactInv
  <2>3. CASE pressed[b]
    BY <1>2, <2>3 DEF Reread, ContactInv
  <2>4. QED
    BY <2>1, <2>2, <2>3 DEF ContactInv
<1>3. QED
  BY <1>1, <1>2 DEF ContactInv

-----------------------------------------------------------------------------
(* The invariant of the contacts is inductive by itself. *)
LEMMA ContactInductive == ContactInv /\ [Next]_vars => ContactInv'
<1> SUFFICES ASSUME ContactInv, [Next]_vars PROVE ContactInv'
  OBVIOUS
<1>1. CASE UNCHANGED <<appVars, fingerVars>>
  BY <1>1, DeviceContact
<1>2. CASE Check \/ Reread
  BY <1>2, CheckContact, RereadContact
<1>3. ASSUME NEW b \in Buttons, Move(b) \/ Bounce(b) \/ Settle(b) PROVE ContactInv'
  BY <1>3, MoveContact, BounceContact
<1>4. CASE InitDone
  BY <1>4 DEF InitDone, fingerVars, ContactInv
<1>5. ASSUME NEW switches \in Words, WriteAct(switches) PROVE ContactInv'
  BY <1>5 DEF WriteAct, fingerVars, ContactInv
<1>6. CASE Send
  BY <1>6 DEF Send, fingerVars, ContactInv
<1>7. CASE Sent
  BY <1>7 DEF Sent, NextPart, fingerVars, ContactInv, Buttons
<1>8. CASE DispDigit
  BY <1>8 DEF DispDigit, fingerVars, ContactInv, Buttons
<1>9. QED
  BY <1>1, <1>2, <1>3, <1>4, <1>5, <1>6, <1>7, <1>8
  DEF Next, Program, Hardware, vars

(* However the contact bounces, one press acts once. *)
THEOREM PressCorrect == Spec => PressActsOnce
<1>1. ContactInv /\ [Next]_vars =>
        [\A b \in Buttons : prevState[b] = RELEASED /\ prevState'[b] = PUSHED
                              => pressed[b]]_vars
  <2> SUFFICES ASSUME ContactInv, [Next]_vars, NEW b \in Buttons,
                      prevState[b] = 0, prevState'[b] = 1
               PROVE  pressed[b]
    OBVIOUS
  <2>1. Reread
    <3>1. prevState' # prevState
      OBVIOUS
    <3>2. ~ \E c \in Buttons : Move(c) \/ Bounce(c) \/ Settle(c)
      BY <3>1 DEF Move, Bounce, Settle, appVars
    <3>3. ~ \E switches \in Words : WriteAct(switches)
      BY <3>1 DEF WriteAct
    <3>4. ~ (InitDone \/ Check \/ Send \/ Sent \/ DispDigit)
      BY <3>1 DEF InitDone, Check, Send, Sent, DispDigit
    <3>5. ~ UNCHANGED appVars
      BY <3>1 DEF appVars
    <3>6. QED
      BY <3>2, <3>3, <3>4, <3>5 DEF Next, Program, Hardware, vars
  <2>2. b = cur /\ level[b] = 1 /\ bounce[b] # "old" /\ pc = "delay"
    BY <2>1 DEF Reread, Confirmed, DelayOver, ContactInv
  <2>3. QED
    BY <2>2 DEF ContactInv
<1>2. QED
  BY <1>1, InitInv, ContactInductive, PTL DEF Spec, PressActsOnce

-----------------------------------------------------------------------------
(* What the application may do around a call of SPI_Excute. *)

(* The calls into HAL/GPIO, SPI_Init among them, are made between calls of  *)
(* SPI_Excute.                                                              *)
LEMMA HalCallInv ==
    ASSUME CallInv, UNCHANGED pc, HalCall \/ SpiInitCall
    PROVE  CallInv'
<1>1. todo # <<>> /\ access = "none" /\ access' = "none" /\ start' = 0 /\ UNCHANGED phase
  BY DEF CallInv, HalCall, SpiInitCall, spiVars
<1>2. QED
  BY <1>1 DEF CallInv

(* The accesses of SPI_Excute: the start level cannot be cleared before the *)
(* idle master has accepted it.                                             *)
LEMMA ExcuteInv ==
    ASSUME CallInv, UNCHANGED pc, SetStart \/ ClearStart \/ Poll
    PROVE  CallInv'
<1>1. CASE SetStart
  BY <1>1 DEF CallInv, SetStart
<1>2. CASE ClearStart
  BY <1>2 DEF CallInv, ClearStart
<1>3. CASE Poll
  BY <1>3 DEF CallInv, Poll, spiVars
<1>4. QED
  BY <1>1, <1>2, <1>3

(* The peripheral: the frame accepted outlasts the start level. *)
LEMMA PeripheralInv ==
    ASSUME CallInv, UNCHANGED pc, Peripheral
    PROVE  CallInv'
<1>1. UNCHANGED <<todo, access, start, tx>>
  BY DEF Peripheral, codeVars, Accept, Deliver, Finish, DoneFalls
<1>2. CASE Accept
  BY <1>1, <1>2 DEF CallInv, Accept, T!Accept
<1>3. CASE Deliver
  BY <1>1, <1>3 DEF CallInv, Deliver, T!Deliver
<1>4. CASE Finish
  BY <1>1, <1>4 DEF CallInv, Finish, T!Finish
<1>5. CASE DoneFalls
  BY <1>1, <1>5 DEF CallInv, DoneFalls, T!Rest
<1>6. QED
  BY <1>2, <1>3, <1>4, <1>5 DEF Peripheral

(* The program calls SPI_Excute only after the delay of a button, with the  *)
(* line quiet.                                                              *)
LEMMA ApplicationInv ==
    ASSUME CallInv,
           \/ InitDone \/ Check \/ Reread \/ Send \/ Sent \/ DispDigit
           \/ \E switches \in Words : WriteAct(switches)
    PROVE  CallInv'
<1>1. CASE InitDone
  BY <1>1 DEF CallInv, InitDone, codeVars, spiVars, Free
<1>2. CASE Check
  BY <1>2 DEF CallInv, Check, NextPart, deviceVars, codeVars, spiVars, Free
<1>3. CASE Reread
  BY <1>3 DEF CallInv, Reread, NextPart, DelayOver, Quiet, deviceVars, codeVars, spiVars
<1>4. CASE Send
  BY <1>4 DEF CallInv, Send, SPI_Excute, Free
<1>5. CASE Sent
  BY <1>5 DEF CallInv, Sent, Returns, NextPart, spiVars
<1>6. CASE DispDigit
  BY <1>6 DEF CallInv, DispDigit, spiVars, Free
<1>7. CASE \E switches \in Words : WriteAct(switches)
  BY <1>7 DEF CallInv, WriteAct, spiVars
<1>8. QED
  BY <1>1, <1>2, <1>3, <1>4, <1>5, <1>6, <1>7

(* Every step keeps the invariant of the call. *)
LEMMA CallInductive == CallInv /\ [Next]_vars => CallInv'
<1> SUFFICES ASSUME CallInv, [Next]_vars PROVE CallInv'
  OBVIOUS
<1>1. CASE Execute /\ UNCHANGED appVars
  BY <1>1, HalCallInv, ExcuteInv DEF Execute, appVars
<1>2. CASE Hardware
  BY <1>2, PeripheralInv DEF Hardware, appVars
<1>3. CASE UNCHANGED <<deviceVars, appVars>>
  BY <1>3 DEF CallInv, deviceVars, codeVars, spiVars, appVars
<1>4. CASE \E b \in Buttons : Move(b) \/ Bounce(b) \/ Settle(b)
  BY <1>3, <1>4 DEF Move, Bounce, Settle
<1>5. QED
  BY <1>1, <1>2, <1>3, <1>4, ApplicationInv DEF Next, Program, vars

(* A press that acts sends one frame, with the byte it should, however fast *)
(* the buttons are pressed.                                                 *)
THEOREM SendCorrect == Spec => []EveryPressSends
<1>1. CallInv => EveryPressSends
  BY DEF CallInv, EveryPressSends
<1>2. QED
  BY <1>1, InitInv, CallInductive, PTL DEF Spec

-----------------------------------------------------------------------------
(* The calls into HAL/GPIO that are pending.                               *)

Call == {SPI_Init} \cup [fn : {"SetMode", "WritePin", "WritePort"}, port : Ports,
                         pins : SUBSET Pins, on : BOOLEAN]

(* They are made between calls of SPI_Excute, and all of them before a      *)
(* button is looked at.                                                     *)
QueueInv ==
    /\ todo \in Seq(Call)
    /\ pc \in {"delay", "act"} => todo = <<>>

(* How many there are. *)
Left == Len(todo)

(* At power-up what is pending is the end of ap_init, and the display is    *)
(* dark until its commons become outputs.                                   *)
SetUpInv ==
    pc = "init" =>
      /\ odr["GPIOC"] = {} /\ odr["GPIOD"] = {}
      /\ fndNumData = 0 /\ fndDigState = 0
      /\ Left \in 0..8
      /\ \A i \in 1..Left : todo[i] = ap_init[8 - Left + i]
      /\ cr["GPIOD"] = IF Left <= 1 THEN Digits ELSE {}
      /\ cr["GPIOC"] = IF Left = 0 THEN Segments \cup {DP} ELSE {}

(* The calls of FND_DispDigit_n for the digit whose turn it is. *)
DigitPins == PinsOf(fndFont[digitData(fndDigState) + 1])
DigitCalls ==
    <<WritePin("GPIOD", Digits, TRUE), WritePort("GPIOC", Pins),
      WritePort("GPIOC", DigitPins), WritePin("GPIOD", {fndDigState}, FALSE)>>

(* Then it is the end of FND_DispDigit, or one write to the LEDs.  All is   *)
(* dark while the segments change, and the digit is lit with its own.       *)
DigitInv ==
    pc # "init" =>
      /\ cr["GPIOD"] = Digits /\ cr["GPIOC"] = Segments \cup {DP}
      /\ Left \in 0..5
      /\ todo # <<>> => /\ todo[Left].fn = "WritePin"
                        /\ todo[Left].port = "GPIOB"
      /\ \A i \in 1..(Left - 1) : todo[i] = DigitCalls[5 - Left + i]
      /\ Left \in 2..4 => Lit = {}
      /\ Left = 2 => odr["GPIOC"] = DigitPins

(* Two sequences of the same elements are equal. *)
LEMMA SameElements ==
    ASSUME NEW S, NEW s \in Seq(S), NEW t \in Seq(S), NEW n \in Nat,
           Len(s) = n, Len(t) = n, \A i \in 1..n : s[i] = t[i]
    PROVE  s = t
  BY SeqEqual

(* ap_init, call by call. *)
LEMMA SetUpCalls ==
    ap_init = <<SetMode("GPIOA", Pins, FALSE), SetMode("GPIOD", {6}, FALSE),
                SetMode("GPIOD", {7}, FALSE), SPI_Init, SetMode("GPIOB", Pins, TRUE),
                WritePort("GPIOB", {}), SetMode("GPIOD", Digits, TRUE),
                SetMode("GPIOC", Segments \cup {DP}, TRUE)>>
<1> DEFINE a == SetMode("GPIOA", Pins, FALSE)
           b == SetMode("GPIOD", {6}, FALSE)
           c == SetMode("GPIOD", {7}, FALSE)
           d == SPI_Init
           e == SetMode("GPIOB", Pins, TRUE)
           f == WritePort("GPIOB", {})
           g == SetMode("GPIOD", Digits, TRUE)
           h == SetMode("GPIOC", Segments \cup {DP}, TRUE)
           s == <<a>> \o <<b>> \o <<c>> \o <<d>> \o <<e, f>> \o <<g, h>>
           t == <<a, b, c, d, e, f, g, h>>
<1>1. ap_init = s
  BY DEF ap_init, Switch_init, Button_Init, LED_Init, FND_init, GPIO_Pin
<1>2. s = t
  <2> HIDE DEF a, b, c, d, e, f, g, h
  <2> DEFINE S == {a, b, c, d, e, f, g, h}
  <2>1. s \in Seq(S) /\ t \in Seq(S) /\ Len(s) = 8 /\ Len(t) = 8
    OBVIOUS
  <2>2. \A i \in 1..8 : s[i] = t[i]
    OBVIOUS
  <2> HIDE DEF s, t, S
  <2>3. QED
    BY <2>1, <2>2, SameElements
<1>3. QED
  BY <1>1, <1>2

(* FND_DispDigit, call by call. *)
LEMMA DispDigitCalls ==
    ASSUME NEW k, k = NextDigit
    PROVE  FND_DispDigit =
             <<WritePin("GPIOD", Digits, TRUE), WritePort("GPIOC", Pins),
               WritePort("GPIOC", PinsOf(fndFont[digitData(k) + 1])),
               WritePin("GPIOD", {k}, FALSE),
               WritePin("GPIOB", {DP}, k \notin fndDpData)>>
<1> DEFINE a == WritePin("GPIOD", Digits, TRUE)
           b == WritePort("GPIOC", Pins)
           c == WritePort("GPIOC", PinsOf(fndFont[digitData(k) + 1]))
           d == WritePin("GPIOD", {k}, FALSE)
           e == WritePin("GPIOB", {DP}, k \notin fndDpData)
           s == <<a, b>> \o <<c, d>> \o <<e>>
           t == <<a, b, c, d, e>>
<1>1. FND_DispDigit = s
  BY DEF FND_DispDigit, FND_DispDigit_n, FND_DispAllOff, FND_DispDP
<1>2. s = t
  <2> HIDE DEF a, b, c, d, e
  <2> DEFINE S == {a, b, c, d, e}
  <2>1. s \in Seq(S) /\ t \in Seq(S) /\ Len(s) = 5 /\ Len(t) = 5
    OBVIOUS
  <2>2. \A i \in 1..5 : s[i] = t[i]
    OBVIOUS
  <2> HIDE DEF s, t, S
  <2>3. QED
    BY <2>1, <2>2, SameElements
<1>3. QED
  BY <1>1, <1>2

(* The calls made are well-formed. *)
LEMMA CallsTyped ==
    ASSUME NEW port \in Ports, NEW pins \in SUBSET Pins, NEW on \in BOOLEAN
    PROVE  /\ SetMode(port, pins, on) \in Call
           /\ WritePin(port, pins, on) \in Call
           /\ WritePort(port, pins) \in Call
  BY DEF Call, SetMode, WritePin, WritePort

(* The first of the pending calls is taken. *)
LEMMA Popped ==
    ASSUME todo \in Seq(Call), todo # <<>>, todo' = Tail(todo)
    PROVE  /\ todo' \in Seq(Call) /\ Left \in Nat \ {0}
           /\ Head(todo) = todo[1] /\ todo[1] \in Call
           /\ Left' = Left - 1
           /\ \A i \in 1..Left' : todo'[i] = todo[i + 1]
  BY DEF Left

-----------------------------------------------------------------------------
(* Type correctness. *)

(* TypeOK without the buttons, which ContactInv keeps in range. *)
Ranges ==
    /\ DeviceTypeOK
    /\ pc \in {"init", "check", "delay", "act", "send", "sending", "display"}
    /\ sw_state \in Words

LEMMA WordsAreBytes == 0 \in Words /\ Words \subseteq Nat /\ Replies \subseteq Words
  BY WordsAssumption

(* Power-up. *)
LEMMA RangesInit == Init => Ranges /\ QueueInv
<1> SUFFICES ASSUME Init PROVE Ranges /\ QueueInv
  OBVIOUS
<1>1. DeviceTypeOK
  <2>1. GpioTypeOK /\ FndTypeOK
    BY DEF Init, DeviceInit, GpioInit, FndVarInit, GpioTypeOK, FndTypeOK, Digits
  <2>2. taken \in BOOLEAN
    BY DEF Init, DeviceInit, SpiInit
  <2>3. QED
    BY <2>1, <2>2, WordsAreBytes DEF Init, DeviceInit, SpiInit, T!Init, DeviceTypeOK
<1>2. todo \in Seq(Call)
  <2>1. {6} \in SUBSET Pins /\ {7} \in SUBSET Pins /\ Digits \in SUBSET Pins
        /\ {} \in SUBSET Pins /\ Segments \cup {DP} \in SUBSET Pins
    BY DEF Pins, Digits, Segments, DP
  <2>2. QED
    <3> DEFINE a == SetMode("GPIOA", Pins, FALSE)
               b == SetMode("GPIOD", {6}, FALSE)
               c == SetMode("GPIOD", {7}, FALSE)
               d == SPI_Init
               e == SetMode("GPIOB", Pins, TRUE)
               f == WritePort("GPIOB", {})
               g == SetMode("GPIOD", Digits, TRUE)
               h == SetMode("GPIOC", Segments \cup {DP}, TRUE)
    <3>1. a \in Call /\ b \in Call /\ c \in Call /\ e \in Call
          /\ f \in Call /\ g \in Call /\ h \in Call
      BY <2>1, CallsTyped DEF Ports
    <3>2. d \in Call
      BY DEF Call
    <3>3. todo = <<a, b, c, d, e, f, g, h>>
      BY SetUpCalls DEF Init
    <3> HIDE DEF a, b, c, d, e, f, g, h
    <3>4. QED
      BY <3>1, <3>2, <3>3
<1>3. QED
  BY <1>1, <1>2, WordsAssumption DEF Init, Ranges, QueueInv

(* A call into HAL/GPIO writes pins of a port. *)
LEMMA HalCallTyped ==
    ASSUME DeviceTypeOK, todo \in Seq(Call), HalCall \/ SpiInitCall
    PROVE  DeviceTypeOK' /\ todo' \in Seq(Call)
<1>1. todo # <<>> /\ todo' = Tail(todo) /\ UNCHANGED <<fndVars, access>>
  BY DEF HalCall, SpiInitCall
<1>2. todo' \in Seq(Call)
  BY <1>1, Popped
<1>3. GpioTypeOK'
  <2>1. CASE SpiInitCall
    BY <2>1 DEF SpiInitCall, DeviceTypeOK, GpioTypeOK, gpioVars
  <2>2. CASE HalCall
    <3>1. PICK c \in Call : Perform(c)
      BY <2>2, <1>1, Popped DEF HalCall
    <3>2. c.fn \in {"SetMode", "WritePin", "WritePort"}
      BY <3>1 DEF Perform, GPIO_SetMode, GPIO_WritePin, GPIO_WritePort
    <3>3. c.port \in Ports /\ c.pins \in SUBSET Pins
      BY <3>2 DEF Call, SPI_Init
    <3>4. \A old \in SUBSET Pins : Updated(old, c) \in SUBSET Pins
      BY <3>3 DEF Updated
    <3>5. QED
      BY <3>1, <3>3, <3>4
      DEF Perform, GPIO_SetMode, GPIO_WritePin, GPIO_WritePort, DeviceTypeOK, GpioTypeOK
  <2>3. QED
    BY <2>1, <2>2
<1>4. start' \in {0, 1} /\ UNCHANGED <<tx, phase, out, peer, rx, done, taken, frames>>
  BY DEF HalCall, SpiInitCall, spiVars, DeviceTypeOK
<1>5. QED
  BY <1>1, <1>2, <1>3, <1>4 DEF DeviceTypeOK, FndTypeOK, fndVars

(* SPI_Excute and the peripheral exchange bytes. *)
LEMMA TransferTyped ==
    ASSUME DeviceTypeOK, SetStart \/ ClearStart \/ Poll \/ Peripheral
    PROVE  DeviceTypeOK' /\ UNCHANGED todo
<1>1. UNCHANGED <<gpioVars, fndVars, todo>>
  BY DEF SetStart, ClearStart, Poll, Peripheral, codeVars
<1>2. /\ access' \in {"none", "set", "clear", "poll", "read"}
      /\ start' \in {0, 1} /\ tx' \in Words /\ done' \in {0, 1}
      /\ phase' \in {"idle", "busy", "ending"}
      /\ out' \in Words /\ peer' \in Words /\ rx' \in Words
      /\ taken' \in BOOLEAN /\ frames' \in 0..2
  <2>1. CASE SetStart \/ ClearStart \/ Poll
    BY <2>1 DEF SetStart, ClearStart, Poll, spiVars, DeviceTypeOK
  <2>2. CASE Peripheral /\ Accept
    <3>1. frames' \in 0..2
      BY <2>2 DEF Accept, DeviceTypeOK
    <3>2. UNCHANGED access
      BY <2>2 DEF Accept, Peripheral, codeVars
    <3>3. QED
      BY <2>2, <3>1, <3>2, WordsAreBytes DEF Accept, T!Accept, DeviceTypeOK
  <2>3. CASE Peripheral /\ (Deliver \/ Finish)
    BY <2>3 DEF Peripheral, codeVars, Deliver, T!Deliver, Finish, T!Finish, DeviceTypeOK
  <2>4. CASE Peripheral /\ DoneFalls
    BY <2>4 DEF Peripheral, codeVars, DoneFalls, T!Rest, DeviceTypeOK
  <2>5. QED
    BY <2>1, <2>2, <2>3, <2>4 DEF Peripheral
<1>3. QED
  BY <1>1, <1>2 DEF DeviceTypeOK, GpioTypeOK, FndTypeOK, gpioVars, fndVars

(* Below the application everything stays in range. *)
LEMMA DeviceRanges ==
    ASSUME Ranges, QueueInv, UNCHANGED appVars, Execute \/ Peripheral
    PROVE  Ranges' /\ QueueInv'
<1>1. CASE HalCall \/ SpiInitCall
  <2>1. todo # <<>>
    BY <1>1 DEF HalCall, SpiInitCall
  <2>2. QED
    BY <1>1, <2>1, HalCallTyped DEF Ranges, QueueInv, appVars
<1>2. CASE SetStart \/ ClearStart \/ Poll \/ Peripheral
  BY <1>2, TransferTyped DEF Ranges, QueueInv, appVars
<1>3. QED
  BY <1>1, <1>2 DEF Execute

(* The application: the number shown and the digit stay numbers and digits. *)
LEMMA ApplicationRanges ==
    ASSUME Ranges, QueueInv, CallInv,
           \/ InitDone \/ Check \/ Reread \/ Send \/ Sent \/ DispDigit
           \/ \E switches \in Words : WriteAct(switches)
    PROVE  Ranges' /\ QueueInv'
<1>1. CASE InitDone
  BY <1>1 DEF InitDone, FND_SetNum, codeVars, spiVars, gpioVars, Ranges,
     DeviceTypeOK, GpioTypeOK, FndTypeOK, QueueInv
<1>2. CASE Check \/ Reread
  <2>1. UNCHANGED <<deviceVars, sw_state>>
        /\ pc' \in {"check", "delay", "act", "display"} /\ todo = <<>>
    BY <1>2 DEF Check, Reread, NextPart, QueueInv, Free
  <2>2. QED
    BY <2>1 DEF deviceVars, codeVars, spiVars, gpioVars, fndVars, Ranges,
       DeviceTypeOK, GpioTypeOK, FndTypeOK, QueueInv
<1>3. CASE \E switches \in Words : WriteAct(switches)
  <2>1. todo' \in Seq(Call)
    <3> DEFINE c == WritePin("GPIOB", Pins, TRUE)
    <3>1. c \in Call
      BY CallsTyped DEF Ports
    <3>2. todo' = <<c>>
      BY <1>3 DEF WriteAct
    <3> HIDE DEF c
    <3>3. QED
      BY <3>1, <3>2
  <2>2. QED
    BY <1>3, <2>1 DEF WriteAct, spiVars, gpioVars, fndVars, Ranges,
       DeviceTypeOK, GpioTypeOK, FndTypeOK, QueueInv
<1>4. CASE Send
  BY <1>4, WordsAssumption DEF Send, SPI_Excute, gpioVars, fndVars, Ranges,
     DeviceTypeOK, GpioTypeOK, FndTypeOK, QueueInv
<1>5. CASE Sent
  <2>1. todo' \in Seq(Call)
    <3> DEFINE c == WritePin("GPIOB", Pins, FALSE)
    <3>1. c \in Call
      BY CallsTyped DEF Ports
    <3>2. todo' \in {<<c>>, todo}
      BY <1>5 DEF Sent
    <3> HIDE DEF c
    <3>3. <<c>> \in Seq(Call)
      BY <3>1
    <3>4. QED
      BY <3>2, <3>3 DEF QueueInv
  <2>2. UNCHANGED <<gpioVars, spiVars, sw_state>> /\ access' = "none"
        /\ pc' \in {"check", "display"}
    BY <1>5 DEF Sent, Returns, NextPart
  <2>3. fndNumData' \in Nat /\ UNCHANGED <<fndDpData, fndDigState>>
    BY <1>5, WordsAreBytes DEF Sent, FND_SetNum, fndVars, Ranges, DeviceTypeOK, FndTypeOK
  <2>4. QED
    BY <2>1, <2>2, <2>3 DEF spiVars, gpioVars, Ranges,
       DeviceTypeOK, GpioTypeOK, FndTypeOK, QueueInv
<1>6. CASE DispDigit
  <2>1. NextDigit \in Digits
    BY DEF NextDigit, Digits, Ranges, DeviceTypeOK, FndTypeOK
  <2>2. todo' \in Seq(Call)
    <3>1. {NextDigit} \in SUBSET Pins /\ Digits \in SUBSET Pins /\ {DP} \in SUBSET Pins
      BY <2>1 DEF Pins, Digits, DP
    <3>2. \A n : PinsOf(n) \in SUBSET Pins
      BY DEF PinsOf
    <3>3. QED
      <4> DEFINE k == NextDigit
                 a == WritePin("GPIOD", Digits, TRUE)
                 b == WritePort("GPIOC", Pins)
                 c == WritePort("GPIOC", PinsOf(fndFont[digitData(k) + 1]))
                 d == WritePin("GPIOD", {k}, FALSE)
                 e == WritePin("GPIOB", {DP}, k \notin fndDpData)
      <4>1. a \in Call /\ b \in Call /\ c \in Call /\ d \in Call /\ e \in Call
        BY <3>1, <3>2, CallsTyped DEF Ports
      <4>2. todo' = <<a, b, c, d, e>>
        BY <1>6, DispDigitCalls DEF DispDigit
      <4> HIDE DEF a, b, c, d, e
      <4>3. QED
        BY <4>1, <4>2
  <2>3. QED
    BY <1>6, <2>1, <2>2 DEF DispDigit, spiVars, gpioVars, Ranges,
       DeviceTypeOK, GpioTypeOK, FndTypeOK, QueueInv
<1>7. QED
  BY <1>1, <1>2, <1>3, <1>4, <1>5, <1>6

(* Every step stays in range. *)
LEMMA RangesInductive ==
    Ranges /\ QueueInv /\ CallInv /\ [Next]_vars => Ranges' /\ QueueInv'
<1> SUFFICES ASSUME Ranges, QueueInv, CallInv, [Next]_vars
             PROVE  Ranges' /\ QueueInv'
  OBVIOUS
<1>1. CASE Execute /\ UNCHANGED appVars
  BY <1>1, DeviceRanges
<1>2. CASE Hardware
  BY <1>2, DeviceRanges DEF Hardware
<1>3. CASE UNCHANGED <<deviceVars, appVars>>
  BY <1>3 DEF deviceVars, codeVars, spiVars, gpioVars, fndVars, appVars, Ranges,
     DeviceTypeOK, GpioTypeOK, FndTypeOK, QueueInv
<1>4. CASE \E b \in Buttons : Move(b) \/ Bounce(b) \/ Settle(b)
  BY <1>3, <1>4 DEF Move, Bounce, Settle
<1>5. QED
  BY <1>1, <1>2, <1>3, <1>4, ApplicationRanges DEF Next, Program, vars

(* Registers, variables of the program and the buttons stay in range,       *)
(* whatever the bytes.                                                      *)
THEOREM TypeCorrect == Spec => []TypeOK
<1>1. Ranges /\ ContactInv => TypeOK
  BY DEF Ranges, ContactInv, TypeOK
<1>2. QED
  BY <1>1, RangesInit, RangesInductive, InitInv, ContactInductive, CallInductive, PTL
  DEF Spec

-----------------------------------------------------------------------------
(* The drivers implement the multiplexed display. *)

(* What is seen while the ports are set up: the digits light when the       *)
(* commons become outputs, the segments when theirs do.                     *)
LEMMA SetUpShown ==
    QueueInv /\ SetUpInv /\ pc = "init" =>
      /\ ~ShowPending
      /\ Lit = IF Left <= 1 THEN Digits ELSE {}
      /\ LitSegments = IF Left = 0 THEN Segments ELSE {}
<1> SUFFICES ASSUME QueueInv, SetUpInv, pc = "init"
             PROVE  /\ ~ShowPending
                    /\ Lit = IF Left <= 1 THEN Digits ELSE {}
                    /\ LitSegments = IF Left = 0 THEN Segments ELSE {}
  OBVIOUS
<1>1. \A i \in 1..8 : ap_init[i].fn # "WritePin"
  <2>1. /\ ap_init[1].fn # "WritePin" /\ ap_init[2].fn # "WritePin"
        /\ ap_init[3].fn # "WritePin" /\ ap_init[5].fn # "WritePin"
        /\ ap_init[6].fn # "WritePin" /\ ap_init[7].fn # "WritePin"
        /\ ap_init[8].fn # "WritePin"
    BY SetUpCalls DEF SetMode, WritePort
  <2>2. ap_init[4].fn # "WritePin"
    BY SetUpCalls DEF SPI_Init
  <2>3. QED
    BY <2>1, <2>2
<1>2. ~ShowPending
  <2>1. \A i \in DOMAIN todo : i \in 1..Left
    BY DEF QueueInv, Left
  <2>2. \A i \in 1..Left : 8 - Left + i \in 1..8
    <3>1. Left \in 0..8
      BY DEF SetUpInv
    <3>2. QED
      BY <3>1
  <2>3. QED
    BY <1>1, <2>1, <2>2 DEF ShowPending, SetUpInv
<1>3. Lit = IF Left <= 1 THEN Digits ELSE {}
  BY DEF Lit, SetUpInv
<1>4. LitSegments = IF Left = 0 THEN Segments ELSE {}
  <2>1. CASE Left = 0
    <3>1. cr["GPIOC"] = Segments \cup {DP} /\ odr["GPIOC"] = {} /\ Lit # {}
      BY <1>3, <2>1 DEF SetUpInv, Digits
    <3>2. QED
      BY <2>1, <3>1 DEF LitSegments
  <2>2. CASE Left # 0
    <3>1. cr["GPIOC"] = {}
      BY <2>2 DEF SetUpInv
    <3>2. QED
      BY <2>2, <3>1 DEF LitSegments
  <2>3. QED
    BY <2>1, <2>2
<1>5. QED
  BY <1>2, <1>3, <1>4

(* A digit is about to be lit until the fourth call of FND_DispDigit. *)
LEMMA DigitPending ==
    QueueInv /\ DigitInv /\ pc # "init" => (ShowPending <=> Left >= 2)
<1> SUFFICES ASSUME QueueInv, DigitInv, pc # "init"
             PROVE  ShowPending <=> Left >= 2
  OBVIOUS
<1>1. CASE Left >= 2
  <2>1. todo[Left - 1] = WritePin("GPIOD", {fndDigState}, FALSE)
    <3>1. /\ Left \in 2..5 /\ Left - 1 \in 1..(Left - 1)
          /\ 5 - Left + (Left - 1) = 4
      BY <1>1 DEF DigitInv
    <3>2. DigitCalls[4] = WritePin("GPIOD", {fndDigState}, FALSE)
      BY DEF DigitCalls
    <3>3. QED
      BY <3>1, <3>2 DEF DigitInv
  <2>2. Left - 1 \in DOMAIN todo
    BY <1>1 DEF QueueInv, DigitInv, Left
  <2>3. /\ todo[Left - 1].fn = "WritePin" /\ todo[Left - 1].port = "GPIOD"
        /\ ~todo[Left - 1].on
    BY <2>1 DEF WritePin
  <2>4. QED
    BY <1>1, <2>2, <2>3 DEF ShowPending
<1>2. CASE Left < 2
  <2>1. \A i \in DOMAIN todo : i = Left
    BY <1>2 DEF QueueInv, DigitInv, Left
  <2>2. QED
    BY <1>2, <2>1 DEF ShowPending, QueueInv, DigitInv
<1>3. QED
  BY <1>1, <1>2 DEF DigitInv

(* The pins of a byte. *)
LEMMA PinsOfByte ==
    ASSUME NEW n \in 0..255
    PROVE  /\ 0 \in PinsOf(n) <=> n % 2 = 1
           /\ 1 \in PinsOf(n) <=> (n \div 2) % 2 = 1
           /\ 2 \in PinsOf(n) <=> (n \div 4) % 2 = 1
           /\ 3 \in PinsOf(n) <=> (n \div 8) % 2 = 1
           /\ 4 \in PinsOf(n) <=> (n \div 16) % 2 = 1
           /\ 5 \in PinsOf(n) <=> (n \div 32) % 2 = 1
           /\ 6 \in PinsOf(n) <=> (n \div 64) % 2 = 1
<1>1. 2^0 = 1 /\ 2^1 = 2 /\ 2^2 = 4 /\ 2^3 = 8 /\ 2^4 = 16 /\ 2^5 = 32 /\ 2^6 = 64
  OBVIOUS
<1>2. QED
  BY <1>1 DEF PinsOf, Pins

(* The segments an entry of the font leaves low have the shape of its digit. *)
LEMMA FontShape ==
    ASSUME NEW d \in 0..9
    PROVE  Segments \ PinsOf(fndFont[d + 1]) = Shown!Shape[d]
<1>0. CASE d = 0
  BY <1>0, PinsOfByte DEF fndFont, Shown!Shape, Segments
<1>1. CASE d = 1
  BY <1>1, PinsOfByte DEF fndFont, Shown!Shape, Segments
<1>2. CASE d = 2
  BY <1>2, PinsOfByte DEF fndFont, Shown!Shape, Segments
<1>3. CASE d = 3
  BY <1>3, PinsOfByte DEF fndFont, Shown!Shape, Segments
<1>4. CASE d = 4
  BY <1>4, PinsOfByte DEF fndFont, Shown!Shape, Segments
<1>5. CASE d = 5
  BY <1>5, PinsOfByte DEF fndFont, Shown!Shape, Segments
<1>6. CASE d = 6
  BY <1>6, PinsOfByte DEF fndFont, Shown!Shape, Segments
<1>7. CASE d = 7
  BY <1>7, PinsOfByte DEF fndFont, Shown!Shape, Segments
<1>8. CASE d = 8
  <2>1. fndFont[9] = 128 /\ Shown!Shape[8] = 0..6
    BY DEF fndFont, Shown!Shape
  <2>2. \A i \in 0..6 : i \notin PinsOf(128)
    BY PinsOfByte
  <2>3. QED
    BY <1>8, <2>1, <2>2 DEF Segments
<1>9. CASE d = 9
  BY <1>9, PinsOfByte DEF fndFont, Shown!Shape, Segments
<1>10. QED
  BY <1>0, <1>1, <1>2, <1>3, <1>4, <1>5, <1>6, <1>7, <1>8, <1>9

(* A place of a number is a decimal digit. *)
LEMMA DecimalDigit ==
    ASSUME FndTypeOK, NEW k \in Digits PROVE digitData(k) \in 0..9
<1>1. 10^0 = 1 /\ 10^1 = 10 /\ 10^2 = 100 /\ 10^3 = 1000
  OBVIOUS
<1>2. QED
  BY <1>1 DEF digitData, FndTypeOK, Digits

(* A step that touches neither ports nor pending calls nor number. *)
LEMMA NothingShown ==
    ASSUME SetUpInv, DigitInv, UNCHANGED <<gpioVars, fndVars, todo>>,
           pc' = "init" <=> pc = "init"
    PROVE  SetUpInv' /\ DigitInv' /\ UNCHANGED Shown!vars
<1>1. UNCHANGED <<Left, Lit, LitSegments, ShowPending, DigitCalls, DigitPins>>
  BY DEF Left, gpioVars, fndVars, Lit, LitSegments, ShowPending, DigitCalls, DigitPins, digitData
<1>2. QED
  BY <1>1 DEF gpioVars, fndVars, SetUpInv, DigitInv, Shown!vars

(* What a call does to the ports. *)
LEMMA ModeIsSet ==
    ASSUME HalCall \/ SpiInitCall, Head(todo).fn = "SetMode"
    PROVE  /\ cr' = [cr EXCEPT ![Head(todo).port] = Updated(@, Head(todo))]
           /\ UNCHANGED odr
  BY DEF HalCall, SpiInitCall, SPI_Init, Perform, GPIO_SetMode, GPIO_WritePin, GPIO_WritePort

LEMMA PinIsWritten ==
    ASSUME HalCall \/ SpiInitCall, Head(todo).fn = "WritePin"
    PROVE  /\ odr' = [odr EXCEPT ![Head(todo).port] = Updated(@, Head(todo))]
           /\ UNCHANGED cr
  BY DEF HalCall, SpiInitCall, SPI_Init, Perform, GPIO_SetMode, GPIO_WritePin, GPIO_WritePort

LEMMA PortIsWritten ==
    ASSUME HalCall \/ SpiInitCall, Head(todo).fn = "WritePort"
    PROVE  odr' = [odr EXCEPT ![Head(todo).port] = Head(todo).pins] /\ UNCHANGED cr
  BY DEF HalCall, SpiInitCall, SPI_Init, Perform, GPIO_SetMode, GPIO_WritePin, GPIO_WritePort

LEMMA SpiIsSetUp ==
    ASSUME HalCall \/ SpiInitCall, Head(todo) = SPI_Init PROVE UNCHANGED gpioVars
<1>1. Head(todo).fn = "SPI_Init"
  BY DEF SPI_Init
<1>2. QED
  BY <1>1
  DEF HalCall, SpiInitCall, Perform, GPIO_SetMode, GPIO_WritePin, GPIO_WritePort

(* A call of ap_init: a flash, when an output of the display is set up. *)
LEMMA SetUpStep ==
    ASSUME Ranges, QueueInv, SetUpInv, QueueInv', pc = "init", UNCHANGED appVars,
           HalCall \/ SpiInitCall
    PROVE  SetUpInv' /\ DigitInv' /\ [Shown!Next]_(Shown!vars)
<1>1. /\ todo # <<>> /\ todo' = Tail(todo) /\ UNCHANGED <<fndVars, pc>>
  BY DEF HalCall, SpiInitCall, appVars
<1>2. /\ Left \in 1..8 /\ Left' = Left - 1 /\ Head(todo) = ap_init[9 - Left]
      /\ \A i \in 1..(Left - 1) : todo'[i] = ap_init[9 - Left + i]
  <2>1. Left \in 1..8 /\ Left' = Left - 1 /\ Head(todo) = todo[1]
        /\ \A i \in 1..(Left - 1) : todo'[i] = todo[i + 1]
    <3>1. /\ Left \in Nat \ {0} /\ Left' = Left - 1 /\ Head(todo) = todo[1]
          /\ \A i \in 1..Left' : todo'[i] = todo[i + 1]
      BY <1>1, Popped DEF QueueInv
    <3>2. Left \in 0..8
      BY DEF SetUpInv
    <3>3. QED
      BY <3>1, <3>2
  <2>2. \A i \in 1..Left : todo[i] = ap_init[8 - Left + i]
    BY DEF SetUpInv
  <2>3. 8 - Left + 1 = 9 - Left /\ \A i \in 1..(Left - 1) : i + 1 \in 1..Left /\ 8 - Left + (i + 1) = 9 - Left + i
    BY <2>1
  <2>4. QED
    BY <2>1, <2>2, <2>3
<1>3. /\ UNCHANGED <<odr["GPIOC"], odr["GPIOD"]>>
      /\ cr'["GPIOD"] = IF Left - 1 <= 1 THEN Digits ELSE {}
      /\ cr'["GPIOC"] = IF Left - 1 = 0 THEN Segments \cup {DP} ELSE {}
  <2>1. cr \in [Ports -> SUBSET Pins] /\ odr \in [Ports -> SUBSET Pins]
    BY DEF Ranges, DeviceTypeOK, GpioTypeOK
  <2>2. /\ Left > 1 => cr["GPIOD"] = {}
        /\ Left = 1 => cr["GPIOD"] = Digits
        /\ cr["GPIOC"] = {}
    BY <1>2 DEF SetUpInv
  <2>3. CASE Left = 1
    <3>1. /\ Head(todo).fn = "SetMode" /\ Head(todo).port = "GPIOC"
          /\ Head(todo).pins = Segments \cup {DP} /\ Head(todo).on
      BY <1>2, <2>3, SetUpCalls DEF SetMode
    <3>2. QED
      BY <2>1, <2>2, <2>3, <3>1, ModeIsSet DEF Ports, Updated
  <2>4. CASE Left = 2
    <3>1. /\ Head(todo).fn = "SetMode" /\ Head(todo).port = "GPIOD"
          /\ Head(todo).pins = Digits /\ Head(todo).on
      BY <1>2, <2>4, SetUpCalls DEF SetMode
    <3>2. QED
      BY <2>1, <2>2, <2>4, <3>1, ModeIsSet DEF Ports, Updated
  <2>5. CASE Left = 3
    <3>1. Head(todo).fn = "WritePort" /\ Head(todo).port = "GPIOB"
      BY <1>2, <2>5, SetUpCalls DEF WritePort
    <3>2. QED
      BY <2>1, <2>2, <2>5, <3>1, PortIsWritten DEF Ports
  <2>6. CASE Left = 4
    <3>1. Head(todo).fn = "SetMode" /\ Head(todo).port = "GPIOB"
      BY <1>2, <2>6, SetUpCalls DEF SetMode
    <3>2. QED
      BY <2>1, <2>2, <2>6, <3>1, ModeIsSet DEF Ports
  <2>7. CASE Left = 5
    <3>1. Head(todo) = SPI_Init
      BY <1>2, <2>7, SetUpCalls
    <3>2. QED
      BY <2>1, <2>2, <2>7, <3>1, SpiIsSetUp DEF gpioVars
  <2>8. CASE Left \in 6..8
    <3>1. /\ Head(todo).fn = "SetMode" /\ Head(todo).port \in {"GPIOA", "GPIOD"}
          /\ ~Head(todo).on
      <4>1. CASE Left = 6
        BY <1>2, <4>1, SetUpCalls DEF SetMode
      <4>2. CASE Left = 7
        BY <1>2, <4>2, SetUpCalls DEF SetMode
      <4>3. CASE Left = 8
        BY <1>2, <4>3, SetUpCalls DEF SetMode
      <4>4. QED
        BY <2>8, <4>1, <4>2, <4>3
    <3>2. QED
      BY <2>1, <2>2, <2>8, <3>1, ModeIsSet DEF Ports, Updated
  <2>9. QED
    BY <1>2, <2>3, <2>4, <2>5, <2>6, <2>7, <2>8
<1>4. SetUpInv'
  <2>1. Left' \in 0..8 /\ \A i \in 1..Left' : todo'[i] = ap_init[8 - Left' + i]
    BY <1>2
  <2>2. /\ cr'["GPIOD"] = IF Left' <= 1 THEN Digits ELSE {}
        /\ cr'["GPIOC"] = IF Left' = 0 THEN Segments \cup {DP} ELSE {}
    BY <1>2, <1>3
  <2>3. QED
    BY <1>1, <1>3, <2>1, <2>2 DEF SetUpInv, fndVars
<1>5. DigitInv'
  BY <1>1 DEF DigitInv
<1>6. /\ ~ShowPending' /\ pc' = "init"
      /\ Lit' = IF Left - 1 <= 1 THEN Digits ELSE {}
      /\ LitSegments' = IF Left - 1 = 0 THEN Segments ELSE {}
  <2>1. (QueueInv /\ SetUpInv /\ pc = "init")' =>
          (/\ ~ShowPending
           /\ Lit = IF Left <= 1 THEN Digits ELSE {}
           /\ LitSegments = IF Left = 0 THEN Segments ELSE {})'
    BY SetUpShown, PTL
  <2>2. QED
    BY <1>1, <1>2, <1>4, <2>1
<1>7. CASE Left > 2
  <2>1. ~ShowPending /\ Lit = {} /\ LitSegments = {}
    BY <1>2, <1>7, SetUpShown
  <2>2. ~ShowPending' /\ Lit' = {} /\ LitSegments' = {}
    BY <1>2, <1>6, <1>7
  <2>3. QED
    BY <1>1, <1>4, <1>5, <2>1, <2>2 DEF Shown!vars, fndVars
<1>8. CASE Left \in {1, 2}
  <2>1. Shown!Flash
    <3>1. ~ShowPending /\ ~ShowPending' /\ Lit' = Digits /\ LitSegments' \in SUBSET Segments
      BY <1>6, <1>8, SetUpShown
    <3>2. QED
      BY <1>1, <3>1 DEF Shown!Flash, Shown!Positions, fndVars, Digits, Segments
  <2>2. QED
    BY <1>4, <1>5, <2>1 DEF Shown!Next
<1>9. QED
  BY <1>2, <1>4, <1>5, <1>7, <1>8

(* A call of FND_DispDigit, or a write to the LEDs: the digit before goes   *)
(* dark, its segments change in the dark, and the next is lit with its own. *)
LEMMA DigitStep ==
    ASSUME Ranges, QueueInv, DigitInv, QueueInv', pc # "init", UNCHANGED appVars,
           HalCall \/ SpiInitCall
    PROVE  SetUpInv' /\ DigitInv' /\ [Shown!Next]_(Shown!vars)
<1>1. /\ todo # <<>> /\ todo' = Tail(todo)
      /\ UNCHANGED <<fndVars, fndDpData, fndNumData, fndDigState, pc, DigitPins, DigitCalls>>
  BY DEF HalCall, SpiInitCall, appVars, fndVars, DigitPins, DigitCalls, digitData
<1>2. /\ Left \in 1..5 /\ Left' = Left - 1 /\ Head(todo) = todo[1]
      /\ \A i \in 1..(Left - 1) : todo'[i] = todo[i + 1]
  <2>1. /\ Left \in Nat \ {0} /\ Left' = Left - 1 /\ Head(todo) = todo[1]
        /\ \A i \in 1..Left' : todo'[i] = todo[i + 1]
    BY <1>1, Popped DEF QueueInv
  <2>2. Left \in 0..5
    BY DEF DigitInv
  <2>3. QED
    BY <2>1, <2>2
<1>3. Left > 1 => Head(todo) = DigitCalls[6 - Left]
  <2>1. \A i \in 1..(Left - 1) : todo[i] = DigitCalls[5 - Left + i]
    BY DEF DigitInv
  <2>2. Left > 1 => 1 \in 1..(Left - 1) /\ 5 - Left + 1 = 6 - Left
    BY <1>2
  <2>3. QED
    BY <1>2, <2>1, <2>2
<1>4. cr \in [Ports -> SUBSET Pins] /\ odr \in [Ports -> SUBSET Pins]
  BY DEF Ranges, DeviceTypeOK, GpioTypeOK
<1>5. /\ todo' # <<>> => todo'[Left'].fn = "WritePin" /\ todo'[Left'].port = "GPIOB"
      /\ \A i \in 1..(Left' - 1) : todo'[i] = DigitCalls[5 - Left' + i]
  <2>1. todo' # <<>> => Left' \in 1..(Left - 1)
    BY <1>1, <1>2 DEF Left, QueueInv
  <2>2. todo' # <<>> => todo'[Left'] = todo[Left]
    BY <1>2, <2>1
  <2>3. \A i \in 1..(Left - 1) : todo[i] = DigitCalls[5 - Left + i]
    BY DEF DigitInv
  <2>4. \A i \in 1..(Left' - 1) : /\ i \in 1..(Left - 1) /\ i + 1 \in 1..(Left - 1)
                                 /\ 5 - Left + (i + 1) = 5 - Left' + i
    BY <1>2
  <2>5. QED
    BY <1>1, <1>2, <2>2, <2>3, <2>4 DEF DigitInv
<1>6. /\ UNCHANGED cr
      /\ Left = 5 => Lit' = {}
      /\ Left \in {3, 4} => Lit = {} /\ Lit' = {}
      /\ Left = 3 => odr'["GPIOC"] = DigitPins
      /\ Left = 2 => /\ Lit = {} /\ Lit' = {fndDigState}
                     /\ odr'["GPIOC"] = DigitPins
      /\ Left = 1 => Lit' = Lit /\ LitSegments' = LitSegments
  <2>1. cr["GPIOD"] = Digits /\ (Left \in 2..4 => Lit = {})
        /\ (Left = 2 => odr["GPIOC"] = DigitPins)
    BY DEF DigitInv
  <2>2. CASE Left = 5
    <3>1. /\ Head(todo).fn = "WritePin" /\ Head(todo).port = "GPIOD"
          /\ Head(todo).pins = Digits /\ Head(todo).on
      BY <1>3, <2>2 DEF DigitCalls, WritePin
    <3>2. UNCHANGED cr /\ Digits \subseteq odr'["GPIOD"]
      BY <1>4, <3>1, PinIsWritten DEF Ports, Updated
    <3>3. QED
      BY <2>2, <3>2 DEF Lit
  <2>3. CASE Left = 4
    <3>1. Head(todo).fn = "WritePort" /\ Head(todo).port = "GPIOC"
      BY <1>3, <2>3 DEF DigitCalls, WritePort
    <3>2. UNCHANGED <<cr, odr["GPIOD"]>>
      BY <1>4, <3>1, PortIsWritten DEF Ports
    <3>3. QED
      BY <2>1, <2>3, <3>2 DEF Lit
  <2>4. CASE Left = 3
    <3>1. /\ Head(todo).fn = "WritePort" /\ Head(todo).port = "GPIOC"
          /\ Head(todo).pins = DigitPins
      BY <1>3, <2>4 DEF DigitCalls, WritePort
    <3>2. UNCHANGED <<cr, odr["GPIOD"]>> /\ odr'["GPIOC"] = DigitPins
      BY <1>4, <3>1, PortIsWritten DEF Ports
    <3>3. QED
      BY <2>1, <2>4, <3>2 DEF Lit
  <2>5. CASE Left = 2
    <3>1. /\ Head(todo).fn = "WritePin" /\ Head(todo).port = "GPIOD"
          /\ Head(todo).pins = {fndDigState} /\ ~Head(todo).on
      BY <1>3, <2>5 DEF DigitCalls, WritePin
    <3>2. /\ UNCHANGED <<cr, odr["GPIOC"]>>
          /\ odr'["GPIOD"] = odr["GPIOD"] \ {fndDigState}
      BY <1>4, <3>1, PinIsWritten DEF Ports, Updated
    <3>3. fndDigState \in Digits
      BY DEF Ranges, DeviceTypeOK, FndTypeOK
    <3>4. Digits \subseteq odr["GPIOD"]
      BY <2>1, <2>5 DEF Lit
    <3>5. Lit' = {fndDigState}
      BY <2>1, <3>2, <3>3, <3>4 DEF Lit
    <3>6. QED
      BY <2>1, <2>5, <3>2, <3>5
  <2>6. CASE Left = 1
    <3>1. Head(todo).fn = "WritePin" /\ Head(todo).port = "GPIOB"
      BY <1>1, <1>2, <2>6 DEF DigitInv
    <3>2. UNCHANGED <<cr, odr["GPIOC"], odr["GPIOD"]>>
      BY <1>4, <3>1, PinIsWritten DEF Ports
    <3>3. Lit' = Lit
      BY <3>2 DEF Lit
    <3>4. LitSegments' = LitSegments
      BY <3>2, <3>3 DEF LitSegments
    <3>5. QED
      BY <2>6, <3>2, <3>3, <3>4
  <2>7. QED
    BY <1>2, <2>2, <2>3, <2>4, <2>5, <2>6
<1>7. DigitInv'
  <2>1. Left' \in 0..5 /\ (Left' \in 2..4 => Lit' = {})
        /\ (Left' = 2 => odr'["GPIOC"] = DigitPins)
    BY <1>2, <1>6
  <2>2. cr'["GPIOD"] = Digits /\ cr'["GPIOC"] = Segments \cup {DP}
    BY <1>6 DEF DigitInv
  <2>3. DigitPins' = DigitPins /\ DigitCalls' = DigitCalls
    BY <1>1
  <2>4. QED
    BY <1>5, <2>1, <2>2, <2>3 DEF DigitInv
<1>8. SetUpInv'
  BY <1>1 DEF SetUpInv
<1>9. (ShowPending <=> Left >= 2) /\ (ShowPending' <=> Left' >= 2)
  <2>1. (QueueInv /\ DigitInv /\ pc # "init")' => (ShowPending <=> Left >= 2)'
    BY DigitPending, PTL
  <2>2. QED
    BY <1>1, <1>7, <2>1, DigitPending
<1>10. (Lit = {} => LitSegments = {}) /\ (Lit' = {} => LitSegments' = {})
  BY DEF LitSegments
<1>11. CASE Left = 5
  <2>1. Shown!Blank
    BY <1>1, <1>2, <1>6, <1>9, <1>10, <1>11 DEF Shown!Blank
  <2>2. QED
    BY <1>7, <1>8, <2>1 DEF Shown!Next
<1>12. CASE Left \in {1, 3, 4}
  <2>1. (ShowPending <=> ShowPending') /\ UNCHANGED <<Lit, LitSegments>>
    BY <1>2, <1>6, <1>9, <1>10, <1>12
  <2>2. QED
    BY <1>1, <1>7, <1>8, <2>1 DEF Shown!vars
<1>13. CASE Left = 2
  <2>1. fndDigState \in Digits /\ digitData(fndDigState) \in 0..9
    BY DecimalDigit DEF Ranges, DeviceTypeOK, FndTypeOK
  <2>2. LitSegments' = Segments \ DigitPins
    BY <1>6, <1>13 DEF LitSegments, DigitInv
  <2>3. LitSegments' = Shown!Shape[digitData(fndDigState)]
    BY <2>1, <2>2, FontShape DEF DigitPins
  <2>4. (((fndDigState + 3) % 4) + 1) % 4 = fndDigState
    BY <2>1 DEF Digits
  <2>5. Shown!Show
    BY <1>1, <1>2, <1>6, <1>9, <1>13, <2>3, <2>4 DEF Shown!Show, digitData
  <2>6. QED
    BY <1>7, <1>8, <2>5 DEF Shown!Next
<1>14. QED
  BY <1>2, <1>11, <1>12, <1>13

(* The set-up is over: every output of the display is one. *)
LEMMA BootedStep ==
    ASSUME Ranges, QueueInv, SetUpInv, QueueInv', InitDone
    PROVE  SetUpInv' /\ DigitInv' /\ [Shown!Next]_(Shown!vars)
<1>1. /\ pc = "init" /\ pc' = "check" /\ todo = <<>> /\ todo' = <<>>
      /\ UNCHANGED <<cr, odr, fndDpData, fndNumData, fndDigState>>
  BY DEF InitDone, Free, FND_SetNum, codeVars, gpioVars, SetUpInv
<1>2. Left = 0 /\ Left' = 0
  BY <1>1 DEF Left
<1>3. SetUpInv' /\ DigitInv'
  BY <1>1, <1>2 DEF SetUpInv, DigitInv
<1>4. ~ShowPending /\ ~ShowPending'
  BY <1>1 DEF ShowPending
<1>5. UNCHANGED <<Lit, LitSegments>>
  BY <1>1 DEF Lit, LitSegments
<1>6. Shown!Booted
  BY <1>1, <1>4, <1>5 DEF Shown!Booted
<1>7. QED
  BY <1>3, <1>6 DEF Shown!Next

(* The LEDs are written between two calls of FND_DispDigit. *)
LEMMA LedStep ==
    ASSUME Ranges, QueueInv, DigitInv, pc # "init", pc' # "init", todo = <<>>,
           UNCHANGED <<gpioVars, fndVars>>, NEW on \in BOOLEAN,
           todo' = <<WritePin("GPIOB", Pins, on)>>
    PROVE  SetUpInv' /\ DigitInv' /\ [Shown!Next]_(Shown!vars)
<1>1. Left' = 1 /\ todo'[1].fn = "WritePin" /\ todo'[1].port = "GPIOB"
  BY DEF Left, WritePin
<1>2. UNCHANGED <<cr, odr, fndNumData, fndDigState>>
  BY DEF gpioVars, fndVars
<1>3. SetUpInv' /\ DigitInv'
  BY <1>1, <1>2 DEF SetUpInv, DigitInv
<1>4. ~ShowPending
  BY DEF ShowPending
<1>5. ~ShowPending'
  <2>1. \A i \in DOMAIN todo' : i = 1
    OBVIOUS
  <2>2. QED
    BY <1>1, <2>1 DEF ShowPending
<1>6. UNCHANGED <<Lit, LitSegments>>
  BY <1>2 DEF Lit, LitSegments
<1>7. QED
  BY <1>2, <1>3, <1>4, <1>5, <1>6 DEF Shown!vars

(* SPI_Excute returns: the LEDs, or a new number. *)
LEMMA SentStep ==
    ASSUME Ranges, QueueInv, DigitInv, CallInv, QueueInv', Sent
    PROVE  SetUpInv' /\ DigitInv' /\ [Shown!Next]_(Shown!vars)
<1>1. pc # "init" /\ pc' # "init" /\ todo = <<>> /\ UNCHANGED <<cr, odr>>
  BY DEF Sent, Returns, NextPart, CallInv, gpioVars
<1>2. CASE cur = "write"
  BY <1>1, <1>2, LedStep DEF Sent, gpioVars
<1>3. CASE cur = "read" /\ cur # "write"
  <2>1. todo' = <<>> /\ fndNumData' \in Words /\ UNCHANGED fndDigState
    BY <1>1, <1>3 DEF Sent, FND_SetNum, Ranges, DeviceTypeOK
  <2>2. Left = 0 /\ Left' = 0
    BY <1>1, <2>1 DEF Left
  <2>3. SetUpInv' /\ DigitInv'
    BY <1>1, <2>1, <2>2 DEF SetUpInv, DigitInv
  <2>4. ~ShowPending /\ ~ShowPending'
    BY <1>1, <2>1 DEF ShowPending
  <2>5. UNCHANGED <<Lit, LitSegments>>
    BY <1>1 DEF Lit, LitSegments
  <2>6. Shown!SetNum
    BY <1>1, <2>1, <2>4, <2>5 DEF Shown!SetNum
  <2>7. QED
    BY <2>3, <2>6 DEF Shown!Next
<1>4. QED
  BY <1>2, <1>3 DEF Sent

(* FND_DispDigit is called: nothing is seen of it yet. *)
LEMMA DispDigitStep ==
    ASSUME Ranges, QueueInv, DigitInv, QueueInv', DispDigit
    PROVE  SetUpInv' /\ DigitInv' /\ [Shown!Next]_(Shown!vars)
<1> DEFINE a == WritePin("GPIOD", Digits, TRUE)
           b == WritePort("GPIOC", Pins)
           c == WritePort("GPIOC", PinsOf(fndFont[digitData(NextDigit) + 1]))
           d == WritePin("GPIOD", {NextDigit}, FALSE)
           e == WritePin("GPIOB", {DP}, NextDigit \notin fndDpData)
<1>1. /\ pc = "display" /\ pc' = "check" /\ todo = <<>>
      /\ UNCHANGED <<cr, odr, fndNumData>> /\ fndDigState' = NextDigit
  BY DEF DispDigit, Free, gpioVars
<1>2. todo' = <<a, b, c, d, e>>
  BY DispDigitCalls DEF DispDigit
<1>3. DigitCalls' = <<a, b, c, d>>
  BY <1>1 DEF DigitCalls, DigitPins, digitData
<1>4. e.fn = "WritePin" /\ e.port = "GPIOB"
  BY DEF WritePin
<1>5. DigitInv'
  <2> HIDE DEF a, b, c, d, e
  <2>1. Left' = 5 /\ todo'[5] = e
    BY <1>2 DEF Left
  <2>2. \A i \in 1..4 : todo'[i] = DigitCalls'[i]
    BY <1>2, <1>3
  <2>3. 5 - 5 = 0 /\ 5 - 1 = 4 /\ \A i \in 1..4 : 0 + i = i
    OBVIOUS
  <2>4. cr'["GPIOD"] = Digits /\ cr'["GPIOC"] = Segments \cup {DP}
    BY <1>1 DEF DigitInv
  <2>5. QED
    BY <1>4, <2>1, <2>2, <2>3, <2>4 DEF DigitInv
<1>6. SetUpInv'
  BY <1>1 DEF SetUpInv
<1>7. ~ShowPending /\ ShowPending'
  <2>1. ~ShowPending
    BY <1>1 DEF ShowPending
  <2>2. (QueueInv /\ DigitInv /\ pc # "init")' => (ShowPending <=> Left >= 2)'
    BY DigitPending, PTL
  <2>3. Left' = 5
    BY <1>2 DEF Left
  <2>4. QED
    BY <1>1, <1>5, <2>1, <2>2, <2>3
<1>8. (fndDigState' + 3) % 4 = fndDigState
  BY <1>1 DEF NextDigit, Digits, Ranges, DeviceTypeOK, FndTypeOK
<1>9. UNCHANGED <<Lit, LitSegments>>
  BY <1>1 DEF Lit, LitSegments
<1>10. QED
  BY <1>1, <1>5, <1>6, <1>7, <1>8, <1>9 DEF Shown!vars

(* Every step is one of the display, or is not seen. *)
LEMMA DisplayStep ==
    Ranges /\ QueueInv /\ CallInv /\ SetUpInv /\ DigitInv /\ QueueInv' /\ [Next]_vars
      => SetUpInv' /\ DigitInv' /\ [Shown!Next]_(Shown!vars)
<1> SUFFICES ASSUME Ranges, QueueInv, CallInv, SetUpInv, DigitInv, QueueInv', [Next]_vars
             PROVE  SetUpInv' /\ DigitInv' /\ [Shown!Next]_(Shown!vars)
  OBVIOUS
<1>1. CASE UNCHANGED appVars /\ (HalCall \/ SpiInitCall)
  BY <1>1, SetUpStep, DigitStep
<1>2. CASE UNCHANGED <<gpioVars, fndVars, todo>> /\ (pc' = "init" <=> pc = "init")
  BY <1>2, NothingShown
<1>3. CASE Execute /\ UNCHANGED appVars
  <2>1. CASE SetStart \/ ClearStart \/ Poll
    BY <1>2, <1>3, <2>1 DEF SetStart, ClearStart, Poll, fndVars, appVars
  <2>2. QED
    BY <1>1, <1>3, <2>1 DEF Execute
<1>4. CASE Hardware \/ UNCHANGED vars
  BY <1>2, <1>4 DEF Hardware, Peripheral, codeVars, appVars, vars, deviceVars
<1>5. CASE InitDone
  BY <1>5, BootedStep
<1>6. CASE Check \/ Reread \/ Send
  <2>1. UNCHANGED <<gpioVars, fndVars, todo>> /\ pc # "init" /\ pc' # "init"
    BY <1>6 DEF Check, Reread, Send, NextPart, deviceVars, codeVars
  <2>2. QED
    BY <1>2, <2>1
<1>7. ASSUME NEW switches \in Words, WriteAct(switches)
      PROVE  SetUpInv' /\ DigitInv' /\ [Shown!Next]_(Shown!vars)
  <2>1. pc = "act" /\ pc' = "send" /\ todo = <<>> /\ UNCHANGED <<gpioVars, fndVars>>
    BY <1>7 DEF WriteAct, QueueInv
  <2>2. todo' = <<WritePin("GPIOB", Pins, TRUE)>>
    BY <1>7 DEF WriteAct
  <2>3. QED
    BY <2>1, <2>2, LedStep
<1>8. CASE Sent
  BY <1>8, SentStep
<1>9. CASE DispDigit
  BY <1>9, DispDigitStep
<1>10. CASE \E b \in Buttons : Move(b) \/ Bounce(b) \/ Settle(b)
  BY <1>2, <1>10 DEF Move, Bounce, Settle, deviceVars, codeVars, appVars
<1>11. QED
  BY <1>3, <1>4, <1>5, <1>6, <1>7, <1>8, <1>9, <1>10 DEF Next, Program

(* The drivers implement the multiplexed display: one digit at a time, in   *)
(* turn, each with the shape of its own digit of the number, with all dark  *)
(* in between, whatever bytes arrive and whenever a button is pressed.      *)
THEOREM DisplayCorrect == Spec => DisplaySpec
<1>1. Init => SetUpInv /\ DigitInv /\ Shown!Init
  <2> SUFFICES ASSUME Init PROVE SetUpInv /\ DigitInv /\ Shown!Init
    OBVIOUS
  <2>1. /\ cr = [p \in Ports |-> {}] /\ odr = [p \in Ports |-> {}]
        /\ fndNumData = 0 /\ fndDigState = 0 /\ pc = "init" /\ todo = ap_init
    BY DEF Init, DeviceInit, GpioInit, FndVarInit
  <2>2. Left = 8
    BY <2>1, SetUpCalls DEF Left
  <2>3. SetUpInv
    BY <2>1, <2>2 DEF SetUpInv, Ports
  <2>4. QueueInv
    BY RangesInit
  <2>5. ~ShowPending /\ Lit = {} /\ LitSegments = {}
    BY <2>1, <2>2, <2>3, <2>4, SetUpShown
  <2>6. QED
    BY <2>1, <2>3, <2>5 DEF DigitInv, Shown!Init
<1>2. QED
  BY <1>1, RangesInit, RangesInductive, InitInv, CallInductive, DisplayStep, PTL
  DEF Spec, DisplaySpec, Shown!Spec

-----------------------------------------------------------------------------
(* The driver functions under any application: Panel, over the same device. *)
(* Both displays are read with the same shapes. *)
LEMMA SameShape == Eye!Shape = Shown!Shape
  BY DEF Eye!Shape, Shown!Shape

(* FND_DispDigit_n, FND_DispAllOff and FND_DispAllOn, call by call. *)
ShapeCalls(n, k) ==
    <<WritePin("GPIOD", Digits, TRUE), WritePort("GPIOC", Pins),
      WritePort("GPIOC", PinsOf(fndFont[((n \div 10^k) % 10) + 1])),
      WritePin("GPIOD", {k}, FALSE)>>
OffCalls == <<WritePin("GPIOD", Digits, TRUE), WritePort("GPIOC", Pins)>>
OnCalls == <<WritePort("GPIOC", {}), WritePin("GPIOD", Digits, FALSE)>>
PointCall == WritePin("GPIOB", {DP}, NextDigit \notin fndDpData)

LEMMA PanelCalls ==
    /\ \A k : FND_DispDigit_n(k) = ShapeCalls(fndNumData, k)
    /\ FND_DispDigit = ShapeCalls(fndNumData, NextDigit) \o <<PointCall>>
    /\ FND_DispAllOff = OffCalls /\ FND_DispAllOn = OnCalls
<1>1. ASSUME NEW k PROVE FND_DispDigit_n(k) = ShapeCalls(fndNumData, k)
  <2> DEFINE a == WritePin("GPIOD", Digits, TRUE)
             b == WritePort("GPIOC", Pins)
             c == WritePort("GPIOC", PinsOf(fndFont[digitData(k) + 1]))
             d == WritePin("GPIOD", {k}, FALSE)
             s == <<a, b>> \o <<c, d>>
             t == <<a, b, c, d>>
  <2>1. FND_DispDigit_n(k) = s /\ ShapeCalls(fndNumData, k) = t
    BY DEF FND_DispDigit_n, FND_DispAllOff, ShapeCalls, digitData
  <2>2. s = t
    <3> HIDE DEF a, b, c, d
    <3> DEFINE S == {a, b, c, d}
    <3>1. s \in Seq(S) /\ t \in Seq(S) /\ Len(s) = 4 /\ Len(t) = 4
      OBVIOUS
    <3>2. \A i \in 1..4 : s[i] = t[i]
      OBVIOUS
    <3> HIDE DEF s, t, S
    <3>3. QED
      BY <3>1, <3>2, SameElements
  <2>3. QED
    BY <2>1, <2>2
<1>2. FND_DispDigit = ShapeCalls(fndNumData, NextDigit) \o <<PointCall>>
  BY <1>1 DEF FND_DispDigit, FND_DispDP, PointCall
<1>3. FND_DispAllOff = OffCalls /\ FND_DispAllOn = OnCalls
  BY DEF FND_DispAllOff, FND_DispAllOn, OffCalls, OnCalls
<1>4. QED
  BY <1>1, <1>2, <1>3

(* They are well-formed. *)
LEMMA PanelCallsTyped ==
    ASSUME NEW n, NEW k \in Digits
    PROVE  /\ ShapeCalls(n, k) \in Seq(Call) /\ Len(ShapeCalls(n, k)) = 4
           /\ OffCalls \in Seq(Call) /\ Len(OffCalls) = 2
           /\ OnCalls \in Seq(Call) /\ Len(OnCalls) = 2
           /\ PointCall \in Call
<1>1. {k} \in SUBSET Pins /\ Digits \in SUBSET Pins /\ {DP} \in SUBSET Pins
  BY DEF Pins, Digits, DP
<1>2. \A m : PinsOf(m) \in SUBSET Pins
  BY DEF PinsOf
<1> DEFINE a == WritePin("GPIOD", Digits, TRUE)
           b == WritePort("GPIOC", Pins)
           c == WritePort("GPIOC", PinsOf(fndFont[((n \div 10^k) % 10) + 1]))
           d == WritePin("GPIOD", {k}, FALSE)
           e == WritePort("GPIOC", {})
           f == WritePin("GPIOD", Digits, FALSE)
<1>3. /\ a \in Call /\ b \in Call /\ c \in Call /\ d \in Call /\ e \in Call /\ f \in Call
      /\ PointCall \in Call
  BY <1>1, <1>2, CallsTyped DEF Ports, PointCall
<1>4. ShapeCalls(n, k) = <<a, b, c, d>> /\ OffCalls = <<a, b>> /\ OnCalls = <<e, f>>
  BY DEF ShapeCalls, OffCalls, OnCalls
<1> HIDE DEF a, b, c, d, e, f
<1>5. QED
  BY <1>3, <1>4

(* Everything in range, and the number one that was set. *)
PanelRanges ==
    /\ DeviceTypeOK /\ todo \in Seq(Call)
    /\ panelPc \in {"free", "sending", "first", "second"}
    /\ sw \in {0, 1} /\ swState \in {0, 1}
    /\ act \in {"N_ACT", "ACT_UP", "ACT_DOWN"}
    /\ drawn \in Numbers \cup {0} /\ fndNumData \in Numbers \cup {0}

(* The ports are set up and nothing is called. *)
LEMMA PanelStart == PanelInit => PanelRanges
<1> SUFFICES ASSUME PanelInit PROVE PanelRanges
  OBVIOUS
<1>1. cr \in [Ports -> SUBSET Pins] /\ odr \in [Ports -> SUBSET Pins]
  BY DEF PanelInit, Ports, Digits, Pins
<1>2. taken \in BOOLEAN
  BY DEF PanelInit, SpiInit
<1>3. QED
  BY <1>1, <1>2, WordsAreBytes
  DEF PanelInit, SpiInit, T!Init, FndVarInit, PanelRanges, DeviceTypeOK, GpioTypeOK,
      FndTypeOK, Digits

(* A function of the display is called. *)
LEMMA DisplayCallRanges ==
    ASSUME PanelRanges,
           \/ CallDispDigit
           \/ \E k \in Digits : CallDispDigit_n(k)
           \/ \E on \in BOOLEAN : CallDispAll(on)
    PROVE  PanelRanges'
<1>1. /\ UNCHANGED <<cr, odr, access, spiVars, panelPc, sw, swState, act>>
      /\ UNCHANGED <<fndDpData, fndNumData>> /\ drawn' \in {drawn, fndNumData}
      /\ fndDigState' \in {fndDigState, NextDigit}
  BY DEF CallDispDigit, CallDispDigit_n, CallDispAll, Begin, gpioVars, fndVars, spiVars
<1>2. NextDigit \in Digits
  BY DEF NextDigit, PanelRanges, DeviceTypeOK, FndTypeOK, Digits
<1>3. todo' \in Seq(Call)
  <2>1. CASE CallDispDigit
    <3>1. todo' = ShapeCalls(fndNumData, NextDigit) \o <<PointCall>>
      BY <2>1, PanelCalls DEF CallDispDigit, Begin
    <3>2. ShapeCalls(fndNumData, NextDigit) \in Seq(Call) /\ <<PointCall>> \in Seq(Call)
      BY <1>2, PanelCallsTyped
    <3>3. QED
      BY <3>1, <3>2, ConcatProperties
  <2>2. CASE \E k \in Digits : CallDispDigit_n(k)
    BY <2>2, PanelCalls, PanelCallsTyped DEF CallDispDigit_n, Begin
  <2>3. CASE \E on \in BOOLEAN : CallDispAll(on)
    BY <1>2, <2>3, PanelCalls, PanelCallsTyped DEF CallDispAll, Begin
  <2>4. QED
    BY <2>1, <2>2, <2>3
<1>4. QED
  BY <1>1, <1>2, <1>3 DEF spiVars, PanelRanges, DeviceTypeOK, GpioTypeOK, FndTypeOK

(* A number or a point is set. *)
LEMMA SetRanges ==
    ASSUME PanelRanges,
           \/ \E n \in Numbers : CallSetNum(n)
           \/ \E k \in Points, on_off \in {0, 1} : CallSetDp(k, on_off)
    PROVE  PanelRanges'
<1>1. /\ UNCHANGED <<cr, odr, access, spiVars, panelPc, sw, swState, act, drawn>>
      /\ UNCHANGED fndDigState /\ todo' = <<>>
  BY DEF CallSetNum, CallSetDp, Begin, FND_SetNum, FND_SetDp, gpioVars, spiVars
<1>2. fndNumData' \in Numbers \cup {0} /\ fndNumData' \in Nat
  BY PanelAssumption
  DEF CallSetNum, CallSetDp, FND_SetNum, FND_SetDp, PanelRanges, DeviceTypeOK, FndTypeOK
<1>3. fndDpData' \subseteq Digits
  <2>1. fndDpData \subseteq Digits /\ Points \subseteq Digits
    BY PanelAssumption DEF PanelRanges, DeviceTypeOK, FndTypeOK, Digits
  <2>2. ASSUME NEW k \in Points, NEW on_off \in {0, 1}, CallSetDp(k, on_off)
        PROVE  fndDpData' \subseteq Digits
    BY <2>1, <2>2 DEF CallSetDp, FND_SetDp
  <2>3. ASSUME NEW n \in Numbers, CallSetNum(n) PROVE fndDpData' \subseteq Digits
    BY <2>1, <2>3 DEF CallSetNum, FND_SetNum
  <2>4. QED
    BY <2>2, <2>3
<1>4. QED
  BY <1>1, <1>2, <1>3 DEF spiVars, PanelRanges, DeviceTypeOK, GpioTypeOK, FndTypeOK

(* SPI_Excute, LED_State_blink, the switches. *)
LEMMA OtherCallRanges ==
    ASSUME PanelRanges,
           \/ \E data \in Words : CallExcute(data)
           \/ ExcuteReturns \/ CallBlink \/ BlinkStep \/ Flip \/ Switch_Excute
    PROVE  PanelRanges'
<1>1. CASE \E data \in Words : CallExcute(data)
  BY <1>1 DEF CallExcute, SPI_Excute, gpioVars, fndVars,
     PanelRanges, DeviceTypeOK, GpioTypeOK, FndTypeOK
<1>2. CASE ExcuteReturns
  BY <1>2 DEF ExcuteReturns, Returns, gpioVars, fndVars, spiVars,
     PanelRanges, DeviceTypeOK, GpioTypeOK, FndTypeOK
<1>3. CASE CallBlink \/ BlinkStep
  <2>1. /\ UNCHANGED <<cr, odr, fndVars, access, spiVars, sw, swState, act, drawn>>
        /\ panelPc' \in {"free", "first", "second"}
    BY <1>3 DEF CallBlink, BlinkStep, gpioVars, fndVars, spiVars
  <2>2. todo' \in Seq(Call)
    <3> DEFINE a == WritePort("GPIOB", {})
               b == WritePin("GPIOB", {1}, TRUE)
               c == WritePin("GPIOB", {2}, TRUE)
    <3>1. a \in Call /\ b \in Call /\ c \in Call
      <4>1. {1} \in SUBSET Pins /\ {2} \in SUBSET Pins /\ {} \in SUBSET Pins
        BY DEF Pins
      <4>2. QED
        BY <4>1, CallsTyped DEF Ports
    <3>2. todo' \in {<<>>, <<a>>, <<b>>, <<c>>}
      BY <1>3 DEF CallBlink, BlinkStep, BlinkBit, BlinkPin, WritePort, WritePin
    <3> HIDE DEF a, b, c
    <3>3. <<a>> \in Seq(Call) /\ <<b>> \in Seq(Call) /\ <<c>> \in Seq(Call)
          /\ <<>> \in Seq(Call)
      BY <3>1
    <3>4. QED
      BY <3>2, <3>3
  <2>3. QED
    BY <2>1, <2>2 DEF fndVars, spiVars, PanelRanges, DeviceTypeOK, GpioTypeOK, FndTypeOK
<1>4. CASE Flip \/ Switch_Excute
  <2>1. UNCHANGED <<deviceVars, drawn>> /\ panelPc' = panelPc
    BY <1>4 DEF Flip, Switch_Excute, deviceVars, codeVars, spiVars, gpioVars, fndVars
  <2>2. /\ sw' \in {0, 1} /\ swState' \in {0, 1}
        /\ act' \in {"N_ACT", "ACT_UP", "ACT_DOWN"}
    BY <1>4 DEF Flip, Switch_Excute, PanelRanges
  <2>3. QED
    BY <2>1, <2>2 DEF deviceVars, codeVars, spiVars, gpioVars, fndVars,
       PanelRanges, DeviceTypeOK, GpioTypeOK, FndTypeOK
<1>5. QED
  BY <1>1, <1>2, <1>3, <1>4

(* The functions may be called in any order. *)
LEMMA PanelRangesInductive ==
    PanelRanges /\ [PanelNext]_allVars => PanelRanges'
<1> SUFFICES ASSUME PanelRanges, [PanelNext]_allVars PROVE PanelRanges'
  OBVIOUS
<1>1. CASE (Execute \/ Peripheral) /\ UNCHANGED panelVars
  <2>1. DeviceTypeOK' /\ todo' \in Seq(Call)
    BY <1>1, HalCallTyped, TransferTyped DEF Execute, PanelRanges
  <2>2. UNCHANGED fndNumData
    BY <1>1
    DEF Execute, HalCall, SpiInitCall, SetStart, ClearStart, Poll, Peripheral, fndVars
  <2>3. QED
    BY <1>1, <2>1, <2>2 DEF panelVars, PanelRanges
<1>2. CASE UNCHANGED allVars
  BY <1>2 DEF allVars, panelVars, deviceVars, codeVars, spiVars, gpioVars,
     fndVars, PanelRanges, DeviceTypeOK, GpioTypeOK, FndTypeOK
<1>3. QED
  BY <1>1, <1>2, DisplayCallRanges, SetRanges, OtherCallRanges DEF PanelNext

(* Drivers and peripheral stay in range, in whatever order the functions    *)
(* are called and whatever numbers and points are set.                      *)
THEOREM PanelTypeCorrect == PanelSpec => []PanelTypeOK
<1>1. PanelRanges => PanelTypeOK
  BY DEF PanelRanges, PanelTypeOK
<1>2. PanelRanges /\ [PanelNext]_allVars => PanelRanges'
  BY PanelRangesInductive
<1>3. QED
  BY <1>1, <1>2, PanelStart, PTL DEF PanelSpec

-----------------------------------------------------------------------------
(* LED_State_blink under a frame that may end at any time. *)

(* SPI_Excute is called with nothing pending, its start level is down       *)
(* outside it, and done is up only with the master idle.                    *)
PanelCallInv ==
    /\ access # "none" <=> panelPc = "sending"
    /\ panelPc = "sending" => todo = <<>>
    /\ access # "clear" => start = 0
    /\ done = 1 => phase = "idle"

(* The LEDs of "done" (pin 1) and "busy" (pin 2).  If the first read gave   *)
(* "done" the line is idle, and stays so until the second.                  *)
BlinkInv ==
    /\ panelPc = "first" =>
         /\ Left \in 0..1
         /\ Left = 0 => 1 \notin odr["GPIOB"] /\ 2 \notin odr["GPIOB"]
         /\ Left = 1 => todo[1] = WritePort("GPIOB", {})
    /\ panelPc = "second" =>
         /\ Left \in 0..1 /\ 2 \notin odr["GPIOB"]
         /\ Left = 1 => todo[1] = WritePin("GPIOB", {1}, TRUE)
         /\ Left = 1 \/ 1 \in odr["GPIOB"] => phase = "idle"
    /\ panelPc \in {"free", "sending"} =>
         /\ ~ (1 \in odr["GPIOB"] /\ 2 \in odr["GPIOB"])
         /\ \A i \in 1..Left : todo[i].port = "GPIOB" =>
              /\ todo[i].fn = "WritePin"
              /\ \/ todo[i].pins = {DP}
                 \/ todo[i].pins = {2} /\ 1 \notin odr["GPIOB"]

LEMMA BlinkInit == PanelInit => PanelCallInv /\ BlinkInv
<1> SUFFICES ASSUME PanelInit PROVE PanelCallInv /\ BlinkInv
  OBVIOUS
<1>1. odr["GPIOB"] = {}
  BY DEF PanelInit, Ports
<1>2. todo = <<>> /\ Left = 0
  BY DEF PanelInit, Left
<1>3. QED
  BY <1>1, <1>2 DEF PanelInit, SpiInit, T!Init, PanelCallInv, BlinkInv

(* A write to the LEDs, or another call into HAL/GPIO. *)
LEMMA HalCallBlink ==
    ASSUME PanelRanges, PanelCallInv, BlinkInv, UNCHANGED panelPc, HalCall \/ SpiInitCall
    PROVE  PanelCallInv' /\ BlinkInv'
<1>1. /\ todo # <<>> /\ panelPc # "sending" /\ UNCHANGED <<access, phase, done>>
      /\ start' = 0
  BY DEF HalCall, SpiInitCall, spiVars, PanelCallInv
<1>2. /\ Left \in Nat \ {0} /\ Left' = Left - 1 /\ Head(todo) = todo[1]
      /\ \A i \in 1..Left' : todo'[i] = todo[i + 1]
  BY Popped DEF HalCall, SpiInitCall, PanelRanges
<1>3. odr \in [Ports -> SUBSET Pins]
  BY DEF PanelRanges, DeviceTypeOK, GpioTypeOK
<1>4. CASE panelPc = "first"
  <2>1. Left = 1 /\ Left' = 0 /\ Head(todo).fn = "WritePort" /\ Head(todo).port = "GPIOB"
        /\ Head(todo).pins = {}
    BY <1>2, <1>4 DEF BlinkInv, WritePort
  <2>2. odr'["GPIOB"] = {}
    BY <1>3, <2>1, PortIsWritten DEF Ports
  <2>3. QED
    BY <1>1, <1>4, <2>1, <2>2 DEF PanelCallInv, BlinkInv
<1>5. CASE panelPc = "second"
  <2>1. /\ Left = 1 /\ Left' = 0 /\ Head(todo).fn = "WritePin"
        /\ Head(todo).port = "GPIOB" /\ Head(todo).pins = {1} /\ Head(todo).on
    BY <1>2, <1>5 DEF BlinkInv, WritePin
  <2>2. odr'["GPIOB"] = odr["GPIOB"] \cup {1}
    BY <1>3, <2>1, PinIsWritten DEF Ports, Updated
  <2>3. QED
    BY <1>1, <1>5, <2>1, <2>2 DEF PanelCallInv, BlinkInv
<1>6. CASE panelPc = "free"
  <2>1. /\ 1 \in odr'["GPIOB"] <=> 1 \in odr["GPIOB"]
        /\ 1 \in odr["GPIOB"] => (2 \in odr'["GPIOB"] <=> 2 \in odr["GPIOB"])
    <3>1. CASE SpiInitCall \/ Head(todo).fn = "SetMode"
      BY <3>1, ModeIsSet DEF SpiInitCall, gpioVars
    <3>2. CASE Head(todo).fn \in {"WritePin", "WritePort"} /\ Head(todo).port # "GPIOB"
      BY <1>3, <3>2, PinIsWritten, PortIsWritten DEF Ports
    <3>3. CASE Head(todo).fn \in {"WritePin", "WritePort"} /\ Head(todo).port = "GPIOB"
      <4>1. /\ Head(todo).fn = "WritePin"
            /\ \/ Head(todo).pins = {DP}
               \/ Head(todo).pins = {2} /\ 1 \notin odr["GPIOB"]
        BY <1>2, <1>6, <3>3 DEF BlinkInv
      <4>2. odr'["GPIOB"] = Updated(odr["GPIOB"], Head(todo))
        BY <1>3, <3>3, <4>1, PinIsWritten DEF Ports
      <4>3. QED
        BY <4>1, <4>2 DEF Updated, DP
    <3>4. Head(todo).fn \in {"SetMode", "WritePin", "WritePort"} \/ SpiInitCall
      BY DEF HalCall, Perform, GPIO_SetMode, GPIO_WritePin, GPIO_WritePort
    <3>5. QED
      BY <3>1, <3>2, <3>3, <3>4
  <2>2. \A i \in 1..Left' : i + 1 \in 1..Left
    BY <1>2
  <2>3. QED
    BY <1>1, <1>2, <1>6, <2>1, <2>2 DEF PanelCallInv, BlinkInv
<1>7. QED
  BY <1>1, <1>4, <1>5, <1>6 DEF PanelRanges

(* SPI_Excute and the peripheral: with the start level down an idle master  *)
(* stays idle.                                                              *)
LEMMA TransferBlink ==
    ASSUME PanelCallInv, BlinkInv, UNCHANGED panelPc,
           SetStart \/ ClearStart \/ Poll \/ Peripheral
    PROVE  PanelCallInv' /\ BlinkInv'
<1>1. UNCHANGED <<cr, odr, todo, Left>>
  BY DEF SetStart, ClearStart, Poll, Peripheral, codeVars, gpioVars, Left
<1>2. CASE SetStart \/ ClearStart \/ Poll
  BY <1>1, <1>2 DEF SetStart, ClearStart, Poll, spiVars, PanelCallInv, BlinkInv
<1>3. CASE Peripheral
  <2>1. UNCHANGED <<access, start>>
    BY <1>3 DEF Peripheral, codeVars, Accept, Deliver, Finish, DoneFalls
  <2>2. done' = 1 => phase' = "idle"
    BY <1>3 DEF Peripheral, Accept, T!Accept, Deliver, T!Deliver, Finish, T!Finish,
       DoneFalls, T!Rest, PanelCallInv
  <2>3. start = 0 /\ phase = "idle" => phase' = "idle"
    BY <1>3 DEF Peripheral, Accept, T!Accept, Deliver, T!Deliver, Finish, T!Finish,
       DoneFalls, T!Rest
  <2>4. QED
    BY <1>1, <2>1, <2>2, <2>3 DEF PanelCallInv, BlinkInv
<1>4. QED
  BY <1>2, <1>3

(* LED_State_blink: the first bit is read with its LED dark, the second     *)
(* finds the line idle if the first was "done".                             *)
LEMMA BlinkBlink ==
    ASSUME PanelRanges, PanelCallInv, BlinkInv, CallBlink \/ BlinkStep
    PROVE  PanelCallInv' /\ BlinkInv'
<1>1. /\ UNCHANGED <<odr, access, start, phase, done>> /\ access = "none"
      /\ todo = <<>> /\ Left = 0
  BY DEF CallBlink, BlinkStep, Idle, Free, gpioVars, spiVars, Left
<1>2. CASE CallBlink
  <2>1. panelPc' = "first" /\ todo' = <<WritePort("GPIOB", {})>>
    BY <1>2 DEF CallBlink, WritePort
  <2>2. Left' = 1 /\ todo'[1] = WritePort("GPIOB", {})
    BY <2>1 DEF Left
  <2>3. QED
    BY <1>1, <2>1, <2>2 DEF PanelCallInv, BlinkInv
<1>3. CASE BlinkStep /\ panelPc = "first"
  <2>1. panelPc' = "second"
    BY <1>3 DEF BlinkStep
  <2>2. todo' = IF done = 1 THEN <<WritePin("GPIOB", {1}, TRUE)>> ELSE <<>>
    BY <1>3 DEF BlinkStep, STATE_REG, BlinkBit, BlinkPin, WritePin
  <2>3. /\ Left' \in 0..1
        /\ Left' = 1 => done = 1 /\ todo'[1] = WritePin("GPIOB", {1}, TRUE)
    BY <2>2 DEF Left
  <2>4. QED
    BY <1>1, <1>3, <2>1, <2>3 DEF PanelCallInv, BlinkInv
<1>4. CASE BlinkStep /\ panelPc = "second"
  <2>1. panelPc' = "free"
    BY <1>4 DEF BlinkStep
  <2>2. todo' = IF phase # "idle" THEN <<WritePin("GPIOB", {2}, TRUE)>> ELSE <<>>
    BY <1>4 DEF BlinkStep, STATE_REG, BlinkBit, BlinkPin, WritePin
  <2>3. /\ Left' \in 0..1
        /\ Left' = 1 => /\ phase # "idle"
                        /\ todo'[1].fn = "WritePin" /\ todo'[1].pins = {2}
    BY <2>2 DEF Left, WritePin
  <2>4. \A i \in 1..Left' : i = 1 /\ Left' = 1
    BY <2>3
  <2>5. QED
    BY <1>1, <1>4, <2>1, <2>3, <2>4 DEF PanelCallInv, BlinkInv
<1>5. QED
  BY <1>2, <1>3, <1>4 DEF BlinkStep

(* The display leaves the two LEDs alone: of their port it writes the point. *)
LEMMA DisplayCallBlink ==
    ASSUME PanelCallInv, BlinkInv,
           \/ CallDispDigit
           \/ \E k \in Digits : CallDispDigit_n(k)
           \/ \E on \in BOOLEAN : CallDispAll(on)
           \/ \E n \in Numbers : CallSetNum(n)
           \/ \E k \in Points, on_off \in {0, 1} : CallSetDp(k, on_off)
    PROVE  PanelCallInv' /\ BlinkInv'
<1>1. /\ panelPc = "free" /\ panelPc' = "free" /\ UNCHANGED <<odr, access, start, phase, done>>
  BY DEF CallDispDigit, CallDispDigit_n, CallDispAll, CallSetNum, CallSetDp,
     Begin, Idle, gpioVars, spiVars
<1>2. \A i \in 1..Left' : todo'[i].port = "GPIOB" =>
         todo'[i].fn = "WritePin" /\ todo'[i].pins = {DP}
  <2>1. ASSUME NEW n, NEW k
        PROVE  /\ Len(ShapeCalls(n, k)) = 4
               /\ \A i \in 1..4 : ShapeCalls(n, k)[i].port # "GPIOB"
    BY DEF ShapeCalls, WritePin, WritePort
  <2>2. CASE CallDispDigit
    <3> DEFINE a == WritePin("GPIOD", Digits, TRUE)
               b == WritePort("GPIOC", Pins)
               c == WritePort("GPIOC", PinsOf(fndFont[digitData(NextDigit) + 1]))
               d == WritePin("GPIOD", {NextDigit}, FALSE)
               e == WritePin("GPIOB", {DP}, NextDigit \notin fndDpData)
    <3>1. todo' = <<a, b, c, d, e>>
      BY <2>2, DispDigitCalls DEF CallDispDigit, Begin
    <3>2. /\ a.port # "GPIOB" /\ b.port # "GPIOB" /\ c.port # "GPIOB" /\ d.port # "GPIOB"
          /\ e.fn = "WritePin" /\ e.pins = {DP}
      BY DEF WritePin, WritePort
    <3> HIDE DEF a, b, c, d, e
    <3>3. QED
      BY <3>1, <3>2 DEF Left
  <2>3. CASE \E k \in Digits : CallDispDigit_n(k)
    BY <2>1, <2>3, PanelCalls DEF CallDispDigit_n, Begin, Left
  <2>4. CASE \E on \in BOOLEAN : CallDispAll(on)
    <3>1. todo' \in {OffCalls, OnCalls}
      BY <2>4, PanelCalls DEF CallDispAll, Begin
    <3>2. QED
      BY <3>1 DEF OffCalls, OnCalls, WritePin, WritePort, Left
  <2>5. CASE todo' = <<>>
    BY <2>5 DEF Left
  <2>6. QED
    BY <2>2, <2>3, <2>4, <2>5 DEF CallSetNum, CallSetDp, Begin
<1>3. QED
  BY <1>1, <1>2 DEF PanelCallInv, BlinkInv

(* SPI_Excute is called and returns; the switches are no part of this. *)
LEMMA OtherCallBlink ==
    ASSUME PanelCallInv, BlinkInv,
           \/ \E data \in Words : CallExcute(data)
           \/ ExcuteReturns \/ Flip \/ Switch_Excute
    PROVE  PanelCallInv' /\ BlinkInv'
<1>1. CASE \E data \in Words : CallExcute(data)
  BY <1>1 DEF CallExcute, SPI_Excute, Idle, Free, gpioVars, Left,
     PanelCallInv, BlinkInv
<1>2. CASE ExcuteReturns
  BY <1>2 DEF ExcuteReturns, Returns, gpioVars, spiVars, Left, PanelCallInv, BlinkInv
<1>3. CASE Flip \/ Switch_Excute
  BY <1>3 DEF Flip, Switch_Excute, deviceVars, gpioVars, spiVars, codeVars, Left,
     PanelCallInv, BlinkInv
<1>4. QED
  BY <1>1, <1>2, <1>3

(* Every step keeps both. *)
LEMMA BlinkInductive ==
    PanelRanges /\ PanelCallInv /\ BlinkInv /\ [PanelNext]_allVars => PanelCallInv' /\ BlinkInv'
<1> SUFFICES ASSUME PanelRanges, PanelCallInv, BlinkInv, [PanelNext]_allVars
             PROVE  PanelCallInv' /\ BlinkInv'
  OBVIOUS
<1>1. CASE (Execute \/ Peripheral) /\ UNCHANGED panelVars
  BY <1>1, HalCallBlink, TransferBlink DEF Execute, panelVars
<1>2. CASE UNCHANGED allVars
  BY <1>2 DEF allVars, panelVars, deviceVars, gpioVars, spiVars, codeVars, Left,
     PanelCallInv, BlinkInv
<1>3. QED
  BY <1>1, <1>2, BlinkBlink, DisplayCallBlink, OtherCallBlink DEF PanelNext

(* LED_State_blink never shows "done" and "busy" together, though it reads  *)
(* the status twice while a frame may end in between, and whatever other    *)
(* driver functions are called before and after.                            *)
THEOREM BlinkCorrect == PanelSpec => []BlinkConsistent
<1>1. PanelRanges /\ BlinkInv => BlinkConsistent
  <2>1. {BlinkPin[b] : b \in DOMAIN BlinkPin} = {1, 2}
    BY DEF BlinkPin
  <2>2. QED
    BY <2>1 DEF BlinkInv, BlinkConsistent, Idle, Level
<1>2. PanelRanges /\ [PanelNext]_allVars => PanelRanges'
  BY PanelRangesInductive
<1>3. QED
  BY <1>1, <1>2, PanelStart, BlinkInit, BlinkInductive, PTL DEF PanelSpec

-----------------------------------------------------------------------------
(* What the display rests with, whichever of its functions were called.     *)

(* At rest it is dark, or all bright, or shows one digit of the number.     *)
Rested ==
    \/ Lit = {}
    \/ Lit = Digits /\ LitSegments = Segments
    \/ \E k \in Digits :
         Lit = {k} /\ LitSegments = Shown!Shape[(drawn \div 10^k) % 10]

OnLeds(c) == c.fn \in {"WritePin", "WritePort"} /\ c.port = "GPIOB"

(* The last m calls of FND_DispDigit_n(k) are pending, with or without the  *)
(* point: dark after the first, and the segments of the digit before it is  *)
(* lit.                                                                     *)
ShowsDigit(k, m) ==
    /\ Left \in {m, m + 1}
    /\ \A i \in 1..m : todo[i] = ShapeCalls(drawn, k)[4 - m + i]
    /\ Left = m + 1 => OnLeds(todo[m + 1])
    /\ m <= 3 => Lit = {}
    /\ m = 1 => odr["GPIOC"] = PinsOf(fndFont[((drawn \div 10^k) % 10) + 1])

(* The last m calls of FND_DispAllOff, and of FND_DispAllOn. *)
GoesDark(m) ==
    /\ Left = m /\ \A i \in 1..m : todo[i] = OffCalls[2 - m + i]
    /\ m = 1 => Lit = {}

GoesBright(m) ==
    /\ Left = m /\ \A i \in 1..m : todo[i] = OnCalls[2 - m + i]
    /\ m = 1 => odr["GPIOC"] = {}

RestInv ==
    /\ cr["GPIOD"] = Digits /\ cr["GPIOC"] = Pins
    /\ \/ Rested /\ \A i \in 1..Left : OnLeds(todo[i])
       \/ \E k \in Digits, m \in 1..4 : ShowsDigit(k, m)
       \/ \E m \in 1..2 : GoesDark(m) \/ GoesBright(m)

(* Nothing of it shows in a step that leaves ports and pending calls alone. *)
LEMMA RestUnseen ==
    ASSUME RestInv, UNCHANGED <<cr, odr, todo, drawn>> PROVE RestInv'
<1>1. UNCHANGED <<Left, Lit, LitSegments>>
  BY DEF Left, Lit, LitSegments
<1>2. UNCHANGED Rested
  BY <1>1 DEF Rested
<1>3. \A k \in Digits, m \in 1..4 : ShowsDigit(k, m) => ShowsDigit(k, m)'
  BY <1>1 DEF ShowsDigit, ShapeCalls, WritePin, WritePort
<1>4. \A m \in 1..2 : (GoesDark(m) => GoesDark(m)') /\ (GoesBright(m) => GoesBright(m)')
  BY <1>1 DEF GoesDark, GoesBright, OffCalls, OnCalls
<1>5. QED
  BY <1>1, <1>2, <1>3, <1>4 DEF RestInv

(* Between calls it is at rest. *)
LEMMA RestFree == ASSUME RestInv, todo = <<>> PROVE Rested
<1>1. Left = 0
  BY DEF Left
<1>2. QED
  BY <1>1 DEF RestInv, ShowsDigit, GoesDark, GoesBright

(* A call that is only about the LEDs. *)
LEMMA RestLed ==
    ASSUME RestInv, todo = <<>>, UNCHANGED <<cr, odr, drawn>>,
           todo' = <<>> \/ \E c : OnLeds(c) /\ todo' = <<c>>
    PROVE  RestInv'
<1>1. Rested /\ UNCHANGED <<Lit, LitSegments>>
  BY RestFree DEF Lit, LitSegments
<1>2. Rested'
  BY <1>1 DEF Rested
<1>3. \A i \in 1..Left' : OnLeds(todo'[i])
  <2>1. CASE todo' = <<>>
    BY <2>1 DEF Left
  <2>2. CASE \E c : OnLeds(c) /\ todo' = <<c>>
    BY <2>2 DEF Left
  <2>3. QED
    BY <2>1, <2>2
<1>4. (\A i \in 1..Left : OnLeds(todo[i]))'
  BY <1>3 DEF OnLeds
<1>5. QED
  BY <1>2, <1>4 DEF RestInv

LEMMA RestInit == PanelInit => RestInv
<1> SUFFICES ASSUME PanelInit PROVE RestInv
  OBVIOUS
<1>1. cr["GPIOD"] = Digits /\ cr["GPIOC"] = Pins /\ odr["GPIOD"] = Digits
  BY DEF PanelInit, Ports, Digits, Pins
<1>2. todo = <<>> /\ Left = 0
  BY DEF PanelInit, Left
<1>3. Lit = {}
  BY <1>1 DEF Lit
<1>4. QED
  BY <1>1, <1>2, <1>3 DEF RestInv, Rested

(* A place of a number is a decimal digit. *)
LEMMA NumberDigit ==
    ASSUME NEW n \in Nat, NEW k \in Digits PROVE (n \div 10^k) % 10 \in 0..9
<1>1. 10^0 = 1 /\ 10^1 = 10 /\ 10^2 = 100 /\ 10^3 = 1000
  OBVIOUS
<1>2. QED
  BY <1>1 DEF Digits

(* A call of the display is made. *)
LEMMA HalCallRest ==
    ASSUME PanelRanges, RestInv, UNCHANGED drawn, HalCall \/ SpiInitCall
    PROVE  RestInv'
<1>1. /\ Left \in Nat \ {0} /\ Left' = Left - 1 /\ Head(todo) = todo[1]
      /\ \A i \in 1..Left' : todo'[i] = todo[i + 1]
  BY Popped DEF HalCall, SpiInitCall, PanelRanges
<1>2. odr \in [Ports -> SUBSET Pins] /\ cr["GPIOD"] = Digits /\ cr["GPIOC"] = Pins
  BY DEF PanelRanges, DeviceTypeOK, GpioTypeOK, RestInv
<1>3. CASE Rested /\ \A i \in 1..Left : OnLeds(todo[i])
  <2>1. Head(todo).fn \in {"WritePin", "WritePort"} /\ Head(todo).port = "GPIOB"
    BY <1>1, <1>3 DEF OnLeds
  <2>2. UNCHANGED <<cr, odr["GPIOC"], odr["GPIOD"]>>
    BY <1>2, <2>1, PinIsWritten, PortIsWritten DEF Ports
  <2>3. UNCHANGED <<Lit, LitSegments>>
    BY <2>2 DEF Lit, LitSegments
  <2>4. Rested'
    BY <1>3, <2>3 DEF Rested
  <2>5. \A i \in 1..Left' : i + 1 \in 1..Left
    BY <1>1
  <2>6. (\A i \in 1..Left : OnLeds(todo[i]))'
    BY <1>1, <1>3, <2>5 DEF OnLeds
  <2>7. QED
    BY <1>2, <2>2, <2>4, <2>6 DEF RestInv
<1>4. ASSUME NEW k \in Digits, NEW m \in 1..4, ShowsDigit(k, m) PROVE RestInv'
  <2> DEFINE shape == PinsOf(fndFont[((drawn \div 10^k) % 10) + 1])
  <2>1. /\ Left \in {m, m + 1} /\ Head(todo) = ShapeCalls(drawn, k)[4 - m + 1]
        /\ \A i \in 1..(m - 1) : todo'[i] = ShapeCalls(drawn, k)[4 - (m - 1) + i]
        /\ Left' = (m - 1) + 1 => OnLeds(todo'[(m - 1) + 1])
    <3>1. \A i \in 1..(m - 1) : i + 1 \in 1..m /\ 4 - (m - 1) + i = 4 - m + (i + 1)
                                /\ i \in 1..Left'
      BY <1>1, <1>4 DEF ShowsDigit
    <3>2. Left' = m => Left = m + 1 /\ m \in 1..Left'
      BY <1>1
    <3>3. QED
      BY <1>1, <1>4, <3>1, <3>2 DEF ShowsDigit
  <2>2. Left' \in {m - 1, (m - 1) + 1}
    BY <1>1, <2>1
  <2>3. ShapeCalls(drawn, k)' = ShapeCalls(drawn, k)
    BY DEF ShapeCalls, WritePin, WritePort
  <2>4. CASE m = 4
    <3>1. /\ Head(todo).fn = "WritePin" /\ Head(todo).port = "GPIOD"
          /\ Head(todo).pins = Digits /\ Head(todo).on
      BY <2>1, <2>4 DEF ShapeCalls, WritePin
    <3>2. UNCHANGED cr /\ Digits \subseteq odr'["GPIOD"]
      BY <1>2, <3>1, PinIsWritten DEF Ports, Updated
    <3>3. Lit' = {}
      BY <3>2 DEF Lit
    <3>4. ShowsDigit(k, 3)'
      BY <2>1, <2>2, <2>3, <2>4, <3>3 DEF ShowsDigit, OnLeds
    <3>5. QED
      BY <1>2, <3>2, <3>4 DEF RestInv
  <2>5. CASE m = 3
    <3>1. Head(todo).fn = "WritePort" /\ Head(todo).port = "GPIOC"
      BY <2>1, <2>5 DEF ShapeCalls, WritePort
    <3>2. UNCHANGED <<cr, odr["GPIOD"]>>
      BY <1>2, <3>1, PortIsWritten DEF Ports
    <3>3. Lit' = {}
      BY <1>4, <2>5, <3>2 DEF Lit, ShowsDigit
    <3>4. ShowsDigit(k, 2)'
      BY <2>1, <2>2, <2>3, <2>5, <3>3 DEF ShowsDigit, OnLeds
    <3>5. QED
      BY <1>2, <3>2, <3>4 DEF RestInv
  <2>6. CASE m = 2
    <3>1. /\ Head(todo).fn = "WritePort" /\ Head(todo).port = "GPIOC"
          /\ Head(todo).pins = shape
      BY <2>1, <2>6 DEF ShapeCalls, WritePort
    <3>2. UNCHANGED <<cr, odr["GPIOD"]>> /\ odr'["GPIOC"] = shape
      BY <1>2, <3>1, PortIsWritten DEF Ports
    <3>3. Lit' = {}
      BY <1>4, <2>6, <3>2 DEF Lit, ShowsDigit
    <3>4. odr'["GPIOC"] = shape'
      BY <3>2
    <3> HIDE DEF shape
    <3>5. (\A i \in 1..1 : todo[i] = ShapeCalls(drawn, k)[4 - 1 + i])'
      BY <2>1, <2>3, <2>6
    <3>6. ShowsDigit(k, 1)'
      BY <2>1, <2>2, <2>6, <3>3, <3>4, <3>5 DEF ShowsDigit, OnLeds, shape
    <3>7. QED
      BY <1>2, <3>2, <3>6 DEF RestInv
  <2>7. CASE m = 1
    <3>1. /\ Head(todo).fn = "WritePin" /\ Head(todo).port = "GPIOD"
          /\ Head(todo).pins = {k} /\ ~Head(todo).on
      BY <2>1, <2>7 DEF ShapeCalls, WritePin
    <3>2. /\ UNCHANGED <<cr, odr["GPIOC"]>>
          /\ odr'["GPIOD"] = odr["GPIOD"] \ {k}
      BY <1>2, <3>1, PinIsWritten DEF Ports, Updated
    <3>3. Lit' = {k}
      BY <1>2, <1>4, <2>7, <3>2 DEF Lit, ShowsDigit
    <3>4. LitSegments' = Segments \ shape
      BY <1>2, <1>4, <2>7, <3>2, <3>3 DEF LitSegments, ShowsDigit, Segments, Pins
    <3>5. (drawn \div 10^k) % 10 \in 0..9
      BY NumberDigit, PanelAssumption DEF PanelRanges
    <3>6. Rested'
      BY <3>3, <3>4, <3>5, FontShape DEF Rested
    <3>7. (\A i \in 1..Left : OnLeds(todo[i]))'
      BY <2>1, <2>2, <2>7 DEF OnLeds
    <3>8. QED
      BY <1>2, <3>2, <3>6, <3>7 DEF RestInv
  <2>8. QED
    BY <2>4, <2>5, <2>6, <2>7
<1>5. ASSUME NEW m \in 1..2, GoesDark(m) PROVE RestInv'
  <2>1. Left = m /\ Head(todo) = OffCalls[2 - m + 1] /\ (m = 2 => todo'[1] = OffCalls[2])
    BY <1>1, <1>5 DEF GoesDark
  <2>2. CASE m = 2
    <3>1. /\ Head(todo).fn = "WritePin" /\ Head(todo).port = "GPIOD"
          /\ Head(todo).pins = Digits /\ Head(todo).on
      BY <2>1, <2>2 DEF OffCalls, WritePin
    <3>2. UNCHANGED cr /\ Digits \subseteq odr'["GPIOD"]
      BY <1>2, <3>1, PinIsWritten DEF Ports, Updated
    <3>3. Lit' = {}
      BY <3>2 DEF Lit
    <3>4. GoesDark(1)'
      BY <1>1, <2>1, <2>2, <3>3 DEF GoesDark, OffCalls
    <3>5. QED
      BY <1>2, <3>2, <3>4 DEF RestInv
  <2>3. CASE m = 1
    <3>1. Head(todo).fn = "WritePort" /\ Head(todo).port = "GPIOC"
      BY <2>1, <2>3 DEF OffCalls, WritePort
    <3>2. UNCHANGED <<cr, odr["GPIOD"]>>
      BY <1>2, <3>1, PortIsWritten DEF Ports
    <3>3. Lit' = {} /\ Left' = 0
      BY <1>1, <1>5, <2>1, <2>3, <3>2 DEF Lit, GoesDark
    <3>4. QED
      BY <1>2, <3>2, <3>3 DEF RestInv, Rested
  <2>4. QED
    BY <2>2, <2>3
<1>6. ASSUME NEW m \in 1..2, GoesBright(m) PROVE RestInv'
  <2>1. Left = m /\ Head(todo) = OnCalls[2 - m + 1] /\ (m = 2 => todo'[1] = OnCalls[2])
    BY <1>1, <1>6 DEF GoesBright
  <2>2. CASE m = 2
    <3>1. /\ Head(todo).fn = "WritePort" /\ Head(todo).port = "GPIOC"
          /\ Head(todo).pins = {}
      BY <2>1, <2>2 DEF OnCalls, WritePort
    <3>2. UNCHANGED cr /\ odr'["GPIOC"] = {}
      BY <1>2, <3>1, PortIsWritten DEF Ports
    <3>3. OnCalls' = OnCalls
      BY DEF OnCalls
    <3>4. (\A i \in 1..1 : todo[i] = OnCalls[2 - 1 + i])'
      BY <2>1, <2>2, <3>3
    <3>5. GoesBright(1)'
      BY <1>1, <2>1, <2>2, <3>2, <3>4 DEF GoesBright
    <3>6. QED
      BY <1>2, <3>2, <3>5 DEF RestInv
  <2>3. CASE m = 1
    <3>1. /\ Head(todo).fn = "WritePin" /\ Head(todo).port = "GPIOD"
          /\ Head(todo).pins = Digits /\ ~Head(todo).on
      BY <2>1, <2>3 DEF OnCalls, WritePin
    <3>2. /\ UNCHANGED <<cr, odr["GPIOC"]>>
          /\ odr'["GPIOD"] = odr["GPIOD"] \ Digits
      BY <1>2, <3>1, PinIsWritten DEF Ports, Updated
    <3>3. Lit' = Digits /\ Left' = 0
      BY <1>1, <1>2, <2>1, <2>3, <3>2 DEF Lit
    <3>4. LitSegments' = Segments
      BY <1>2, <1>6, <2>3, <3>2, <3>3 DEF LitSegments, GoesBright, Segments, Pins, Digits
    <3>5. QED
      BY <1>2, <3>2, <3>3, <3>4 DEF RestInv, Rested
  <2>4. QED
    BY <2>2, <2>3
<1>7. QED
  BY <1>3, <1>4, <1>5, <1>6 DEF RestInv

(* A function of the display is called; one digit is shown with the number  *)
(* of then.                                                                 *)
LEMMA DisplayCallRest ==
    ASSUME PanelRanges, RestInv,
           \/ CallDispDigit
           \/ \E k \in Digits : CallDispDigit_n(k)
           \/ \E on \in BOOLEAN : CallDispAll(on)
    PROVE  RestInv'
<1>1. /\ UNCHANGED <<cr, odr>> /\ cr["GPIOD"] = Digits /\ cr["GPIOC"] = Pins
  BY DEF CallDispDigit, CallDispDigit_n, CallDispAll, Begin, gpioVars, RestInv
<1>2. CASE CallDispDigit
  <2>1. PICK k \in Digits : k = NextDigit
    BY DEF NextDigit, PanelRanges, DeviceTypeOK, FndTypeOK, Digits
  <2> DEFINE a == WritePin("GPIOD", Digits, TRUE)
             b == WritePort("GPIOC", Pins)
             c == WritePort("GPIOC", PinsOf(fndFont[digitData(k) + 1]))
             d == WritePin("GPIOD", {k}, FALSE)
             e == WritePin("GPIOB", {DP}, k \notin fndDpData)
  <2>2. todo' = <<a, b, c, d, e>>
    BY <1>2, <2>1, DispDigitCalls DEF CallDispDigit, Begin
  <2>3. ShapeCalls(drawn, k)' = <<a, b, c, d>>
    BY <1>2 DEF CallDispDigit, ShapeCalls, digitData, WritePin, WritePort
  <2>4. OnLeds(e)
    BY DEF OnLeds, WritePin
  <2> HIDE DEF a, b, c, d, e
  <2>5. Left' = 5 /\ todo'[5] = e
    BY <2>2 DEF Left
  <2>6. (\A i \in 1..4 : todo[i] = ShapeCalls(drawn, k)[4 - 4 + i])'
    BY <2>2, <2>3
  <2>7. ShowsDigit(k, 4)'
    BY <2>4, <2>5, <2>6 DEF ShowsDigit, OnLeds
  <2>8. QED
    BY <1>1, <2>7 DEF RestInv
<1>3. ASSUME NEW k \in Digits, CallDispDigit_n(k) PROVE RestInv'
  <2>1. todo' = ShapeCalls(fndNumData, k) /\ drawn' = fndNumData
    BY <1>3, PanelCalls DEF CallDispDigit_n, Begin
  <2>2. ShapeCalls(drawn, k)' = todo'
    BY <2>1 DEF ShapeCalls, WritePin, WritePort
  <2>3. Left' = 4
    BY <2>1, PanelCallsTyped DEF Left
  <2>4. ShowsDigit(k, 4)'
    BY <2>2, <2>3 DEF ShowsDigit
  <2>5. QED
    BY <1>1, <2>4 DEF RestInv
<1>4. CASE \E on \in BOOLEAN : CallDispAll(on)
  <2>1. todo' = OffCalls \/ todo' = OnCalls
    BY <1>4, PanelCalls DEF CallDispAll, Begin
  <2>2. CASE todo' = OffCalls
    <3>1. GoesDark(2)'
      BY <2>2 DEF GoesDark, Left, OffCalls
    <3>2. QED
      BY <1>1, <3>1 DEF RestInv
  <2>3. CASE todo' = OnCalls
    <3>1. GoesBright(2)'
      BY <2>3 DEF GoesBright, Left, OnCalls
    <3>2. QED
      BY <1>1, <3>1 DEF RestInv
  <2>4. QED
    BY <2>1, <2>2, <2>3
<1>5. QED
  BY <1>2, <1>3, <1>4

(* Every step keeps it. *)
LEMMA RestInductive ==
    PanelRanges /\ RestInv /\ [PanelNext]_allVars => RestInv'
<1> SUFFICES ASSUME PanelRanges, RestInv, [PanelNext]_allVars
             PROVE  RestInv'
  OBVIOUS
<1>1. CASE (Execute \/ Peripheral) /\ UNCHANGED panelVars
  <2>1. CASE HalCall \/ SpiInitCall
    BY <1>1, <2>1, HalCallRest DEF panelVars
  <2>2. CASE SetStart \/ ClearStart \/ Poll \/ Peripheral
    BY <1>1, <2>2, RestUnseen DEF SetStart, ClearStart, Poll, Peripheral, codeVars, gpioVars,
       panelVars
  <2>3. QED
    BY <1>1, <2>1, <2>2 DEF Execute
<1>2. CASE \/ \E data \in Words : CallExcute(data)
           \/ ExcuteReturns \/ Flip \/ Switch_Excute \/ UNCHANGED allVars
  <2>1. UNCHANGED <<cr, odr, todo, drawn>>
    BY <1>2 DEF CallExcute, ExcuteReturns, Flip, Switch_Excute, gpioVars, deviceVars,
       codeVars, allVars, panelVars
  <2>2. QED
    BY <2>1, RestUnseen
<1>3. CASE \/ \E n \in Numbers : CallSetNum(n)
           \/ \E k \in Points, on_off \in {0, 1} : CallSetDp(k, on_off)
  BY <1>3, RestLed DEF CallSetNum, CallSetDp, Begin, Idle, Free, gpioVars
<1>4. CASE CallBlink \/ BlinkStep
  <2>1. todo = <<>> /\ UNCHANGED <<cr, odr, drawn>>
    BY <1>4 DEF CallBlink, BlinkStep, Idle, Free, gpioVars
  <2>2. /\ \A pins : OnLeds(WritePort("GPIOB", pins))
        /\ \A pins : OnLeds(WritePin("GPIOB", pins, TRUE))
    BY DEF OnLeds, WritePort, WritePin
  <2>3. todo' = <<>> \/ \E c : OnLeds(c) /\ todo' = <<c>>
    BY <1>4, <2>2 DEF CallBlink, BlinkStep
  <2>4. QED
    BY <2>1, <2>3, RestLed
<1>5. QED
  BY <1>1, <1>2, <1>3, <1>4, DisplayCallRest DEF PanelNext

(* In whatever order the functions of the display are called, between calls *)
(* it is dark, all bright, or shows one digit with the shape of its own     *)
(* place of the number that was set when it was lit.                        *)
THEOREM RestsCorrect == PanelSpec => []RestsReadable
<1>1. RestInv => RestsReadable
  BY RestFree, SameShape DEF Rested, RestsReadable, Free
<1>2. PanelRanges /\ [PanelNext]_allVars => PanelRanges'
  BY PanelRangesInductive
<1>3. PanelRanges /\ RestInv /\ [PanelNext]_allVars => RestInv'
  BY RestInductive
<1>4. QED
  BY <1>1, <1>2, <1>3, PanelStart, RestInit, PTL DEF PanelSpec

=============================================================================
