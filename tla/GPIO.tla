-------------------------------- MODULE GPIO --------------------------------
(***************************************************************************)
(* HAL/GPIO: four ports of eight pins.  A register is the set of its pins  *)
(* that are 1.  The firmware reaches a port only through these functions,  *)
(* each of which writes one register once; a driver's function is the      *)
(* sequence of the calls it makes, so that what happens between two of     *)
(* them can be seen.  The GPIO block itself is not in the repository: a    *)
(* pin is driven from ODR when CR makes it an output.                      *)
(***************************************************************************)
EXTENDS Integers, Sequences

VARIABLES cr, odr       \* [Ports -> SUBSET Pins]

gpioVars == <<cr, odr>>

Ports == {"GPIOA", "GPIOB", "GPIOC", "GPIOD"}
Pins == 0..7

GpioTypeOK == cr \in [Ports -> SUBSET Pins] /\ odr \in [Ports -> SUBSET Pins]

(* After reset of the block: inputs, nothing in ODR. *)
GpioInit == cr = [p \in Ports |-> {}] /\ odr = [p \in Ports |-> {}]

(* The pins set in a byte. *)
PinsOf(n) == {i \in Pins : (n \div 2^i) % 2 = 1}

Level(port) == odr[port] \cap cr[port]

-----------------------------------------------------------------------------
(* Calls. *)
SetMode(port, pins, output) ==
    [fn |-> "SetMode", port |-> port, pins |-> pins, on |-> output]
WritePin(port, pins, set) ==
    [fn |-> "WritePin", port |-> port, pins |-> pins, on |-> set]
WritePort(port, pins) ==
    [fn |-> "WritePort", port |-> port, pins |-> pins, on |-> TRUE]

(* Slip: the other pins are lost. *)
UpdatedPlain(old, c) == IF c.on THEN c.pins ELSE {}

(* |= pins or &= ~pins. *)
Updated(old, c) == IF c.on THEN old \cup c.pins ELSE old \ c.pins

GPIO_SetMode(c) ==
    /\ c.fn = "SetMode"
    /\ cr' = [cr EXCEPT ![c.port] = Updated(@, c)]
    /\ UNCHANGED odr

GPIO_WritePin(c) ==
    /\ c.fn = "WritePin"
    /\ odr' = [odr EXCEPT ![c.port] = Updated(@, c)]
    /\ UNCHANGED cr

GPIO_WritePort(c) ==
    /\ c.fn = "WritePort"
    /\ odr' = [odr EXCEPT ![c.port] = c.pins]
    /\ UNCHANGED cr

Perform(c) == GPIO_SetMode(c) \/ GPIO_WritePin(c) \/ GPIO_WritePort(c)

=============================================================================
