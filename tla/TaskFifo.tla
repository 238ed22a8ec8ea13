------------------------------- MODULE TaskFifo -------------------------------
(***************************************************************************)
(* What a ready queue promises: a bounded FIFO.  A push appends one value; *)
(* a pop moves one value, a bulk pop a run of values, from the front into  *)
(* the hands of the consumer, which later returns them to its caller.      *)
(***************************************************************************)
EXTENDS Naturals, Sequences

CONSTANTS Values, Consumers, Bound   \* Bound is a positive number

VARIABLES
  fifo,   \* the values in the queue, oldest first
  hand    \* per consumer: values taken and not yet returned

fifoVars == <<fifo, hand>>

FifoInit == fifo = <<>> /\ hand = [c \in Consumers |-> <<>>]

Put(v) ==
  /\ Len(fifo) < Bound
  /\ fifo' = Append(fifo, v)
  /\ UNCHANGED hand

Take(c, k) ==
  /\ hand[c] = <<>>
  /\ hand' = [hand EXCEPT ![c] = SubSeq(fifo, 1, k)]
  /\ fifo' = SubSeq(fifo, k + 1, Len(fifo))

HandOver(c) ==
  /\ hand[c] # <<>>
  /\ hand' = [hand EXCEPT ![c] = <<>>]
  /\ UNCHANGED fifo

FifoNext ==
  \/ \E v \in Values : Put(v)
  \/ \E c \in Consumers :
       HandOver(c) \/ \E k \in 1 .. Len(fifo) : Take(c, k)

FifoSpec == FifoInit /\ [][FifoNext]_fifoVars
================================================================================
