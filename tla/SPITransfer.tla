---------------------------- MODULE SPITransfer ----------------------------
(***************************************************************************)
(* What an SPI master promises to the register file in front of it, with   *)
(* the serial line left out: a start level taken while the master is idle  *)
(* latches one outgoing word; the peer's word is delivered to the receive  *)
(* register exactly once, as a whole; then done is raised, and it falls    *)
(* again before, or together with, the acceptance of the next word.        *)
(* SPILoopback, SPILink and SPIHal implement this specification.           *)
(***************************************************************************)
CONSTANTS Words,        \* the words that can be exchanged
          ResetWord     \* the receive register after a reset

VARIABLES
    start, tx,          \* command side: start bit and transmit register
    phase,              \* "idle", "busy" (word on the line) or "ending"
    out,                \* the word being, or last, transmitted
    peer,               \* the word the other end shifts out
    rx,                 \* the receive register
    done                \* the completion pulse

vars == <<start, tx, phase, out, peer, rx, done>>

Init ==
    /\ start = 0 /\ tx = ResetWord
    /\ phase = "idle"
    /\ out \in Words /\ peer \in Words
    /\ rx = ResetWord /\ done = 0

(* The command side is an input: its owner may rewrite it in any step, and *)
(* that never touches a word already on the line.                          *)
Inputs == start' \in {0, 1} /\ tx' \in Words

Command ==
    /\ Inputs
    /\ UNCHANGED <<phase, out, peer, rx, done>>

(* Between transfers the peer may load another word, and done, a pulse,    *)
(* falls by itself.                                                        *)
Rest ==
    /\ phase = "idle" /\ Inputs
    /\ peer' \in Words
    /\ done' \in {0, done}
    /\ UNCHANGED <<phase, out, rx>>

Accept ==
    /\ phase = "idle" /\ start = 1 /\ Inputs
    /\ phase' = "busy"
    /\ out' = tx /\ peer' \in Words
    /\ done' = 0
    /\ UNCHANGED rx

Deliver ==
    /\ phase = "busy" /\ Inputs
    /\ phase' = "ending"
    /\ rx' = peer
    /\ UNCHANGED <<out, peer, done>>

Finish ==
    /\ phase = "ending" /\ Inputs
    /\ phase' = "idle" /\ done' = 1
    /\ UNCHANGED <<out, peer, rx>>

Reset ==
    /\ Inputs
    /\ phase' = "idle" /\ rx' = ResetWord /\ done' = 0
    /\ out' \in Words /\ peer' \in Words

Next == Command \/ Rest \/ Accept \/ Deliver \/ Finish \/ Reset

Spec == Init /\ [][Next]_vars

=============================================================================
