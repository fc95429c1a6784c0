------------------------------ MODULE Firmware ------------------------------
(***************************************************************************)
(* The processor below the application: the pending calls into HAL/GPIO,   *)
(* made one at a time, and SPI_Excute, one register access at a time, with *)
(* the SPI peripheral and its peer as the word-level transfer that SPIHal  *)
(* implements.  Three facts of SPIHal about speed are taken over: an idle  *)
(* master accepts a start level before software can clear it, a frame      *)
(* lasts longer than the start pulse it is accepted in, and done is a      *)
(* pulse.                                                                  *)
(***************************************************************************)
EXTENDS FND

CONSTANTS Words,        \* bytes sent and received, with 0
          Replies       \* bytes the peer may answer with

ASSUME WordsAssumption == 0 \in Words /\ Words \subseteq 0..255 /\ Replies \subseteq Words

VARIABLES
    todo,               \* calls into HAL/GPIO still to be made
    access,             \* the next access of SPI_Excute, or "none"
    start, tx, phase, out, peer, rx, done,      \* the SPI peripheral
    taken,              \* the start level was accepted since it was raised
    frames              \* history: frames accepted since SPI_Excute was called

spiVars == <<start, tx, phase, out, peer, rx, done, taken, frames>>
codeVars == <<todo, access>>
deviceVars == <<gpioVars, fndVars, codeVars, spiVars>>

T == INSTANCE SPITransfer WITH ResetWord <- 0

DeviceTypeOK ==
    /\ GpioTypeOK /\ FndTypeOK
    /\ access \in {"none", "set", "clear", "poll", "read"}
    /\ start \in {0, 1} /\ tx \in Words /\ done \in {0, 1}
    /\ phase \in {"idle", "busy", "ending"}
    /\ out \in Words /\ peer \in Words /\ rx \in Words
    /\ taken \in BOOLEAN /\ frames \in 0..2

SpiInit ==
    /\ access = "none"
    /\ T!Init /\ out = 0 /\ peer = 0
    /\ taken = FALSE /\ frames = 0

DeviceInit == GpioInit /\ FndVarInit /\ SpiInit

(* The program is between two calls. *)
Free == todo = <<>> /\ access = "none"

HalCall ==
    /\ todo # <<>> /\ Perform(Head(todo)) /\ todo' = Tail(todo)
    /\ UNCHANGED <<fndVars, access, spiVars>>

(* CNTL_REG is assigned: mode, divider, and no start. *)
SPI_Init == [fn |-> "SPI_Init"]

SpiInitCall ==
    /\ todo # <<>> /\ Head(todo) = SPI_Init /\ todo' = Tail(todo)
    /\ start' = 0
    /\ UNCHANGED <<gpioVars, fndVars, access, tx, phase, out, peer, rx, done, taken, frames>>

-----------------------------------------------------------------------------
(* SPI_Excute.  It is entered by writing TX_DATA. *)
SPI_Excute(data) ==
    /\ tx' = data /\ access' = "set" /\ frames' = 0
    /\ UNCHANGED <<start, phase, out, peer, rx, done, taken>>

SetStart ==
    /\ access = "set" /\ access' = "clear"
    /\ start' = 1 /\ taken' = FALSE
    /\ UNCHANGED <<gpioVars, fndVars, todo, tx, phase, out, peer, rx, done, frames>>

ClearStart ==
    /\ access = "clear" /\ access' = "poll"
    /\ ~(phase = "idle" /\ start = 1)
    /\ start' = 0
    /\ UNCHANGED <<gpioVars, fndVars, todo, tx, phase, out, peer, rx, done, taken, frames>>

(* while (STATE_REG & (1<<0)); *)
Poll ==
    /\ access = "poll" /\ done = 0 /\ access' = "read"
    /\ UNCHANGED <<gpioVars, fndVars, todo, spiVars>>

Execute == HalCall \/ SpiInitCall \/ SetStart \/ ClearStart \/ Poll

(* The last access, by which the caller gets the contents of RX_DATA. *)
Returns == access = "read" /\ access' = "none"

-----------------------------------------------------------------------------
(* The peripheral. *)
Accept ==
    /\ UNCHANGED <<start, tx>> /\ T!Accept /\ peer' \in Replies
    /\ taken' = TRUE /\ frames' = IF frames < 2 THEN frames + 1 ELSE 2

Deliver == UNCHANGED <<start, tx, taken, frames>> /\ T!Deliver

Finish ==
    /\ ~(start = 1 /\ taken)
    /\ UNCHANGED <<start, tx, taken, frames>> /\ T!Finish

DoneFalls ==
    /\ done = 1 /\ done' = 0
    /\ UNCHANGED <<start, tx, peer, taken, frames>> /\ T!Rest

Peripheral ==
    /\ Accept \/ Deliver \/ Finish \/ DoneFalls
    /\ UNCHANGED <<gpioVars, fndVars, codeVars>>

(* A delay of 50 ms outlasts a frame, of less than a hundred clocks. *)
Quiet == phase = "idle" /\ done = 0

=============================================================================
