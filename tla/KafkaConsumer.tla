---------------------------- MODULE KafkaConsumer -----------------------------
(***************************************************************************)
(* utils/ut_kafka.c: a thread consumes a topic into a list that the main   *)
(* thread empties; a byte in a pipe wakes the main thread.  A message is   *)
(* its offset.  The modules that use a consumer say what there is to       *)
(* consume and what the callback does.                                     *)
(***************************************************************************)
EXTENDS Naturals, Sequences

CONSTANT limit   \* of the list: the consumer's configuration

VARIABLES
    position,   \* the offset rd_kafka_consume returns next
    list,       \* oldest first; the code adds at the head and takes the tail
    consuming,  \* the thread has seen room in the list
    pipe,       \* whether the pipe has a byte
    taking      \* the main thread is in on_can_read, behind its first loop

consumer == <<position, list, consuming, pipe, taking>>

kafka_consumer_create(offset) ==
    /\ position = offset
    /\ list = <<>> /\ consuming = FALSE /\ pipe = FALSE /\ taking = FALSE

(* The process ends; the next one starts to consume at offset.             *)
Recreated(offset) ==
    /\ position' = offset
    /\ list' = <<>> /\ consuming' = FALSE /\ pipe' = FALSE /\ taking' = FALSE

(* Faulty: the length is not looked at.                                    *)
Faulty_SeeRoom_always ==
    /\ ~consuming
    /\ consuming' = TRUE
    /\ UNCHANGED <<position, list, pipe, taking>>

(* thread_routine looks at the length of the list without the lock.        *)
SeeRoom ==
    /\ ~consuming /\ Len(list) < limit
    /\ consuming' = TRUE
    /\ UNCHANGED <<position, list, pipe, taking>>

(* It adds a message under the lock, which on_can_read has only between    *)
(* two messages, and goes on without one if there is none or an error.     *)
Consume(available) ==
    /\ consuming
    /\ consuming' = FALSE
    /\ \/ /\ position < available
          /\ list' = Append(list, position)
          /\ pipe' = TRUE
          /\ position' = position + 1
       \/ UNCHANGED <<list, pipe, position>>
    /\ UNCHANGED taking

(* on_can_read reads the pipe until it is empty.                           *)
Wake ==
    /\ pipe /\ ~taking
    /\ pipe' = FALSE /\ taking' = TRUE
    /\ UNCHANGED <<position, list, consuming>>

(* It hands over one message, calls back and deletes it.                   *)
Take(Callback(_)) ==
    /\ taking /\ list # <<>>
    /\ Callback(Head(list))
    /\ list' = Tail(list)
    /\ UNCHANGED <<position, consuming, pipe, taking>>

(* It finds the list empty and returns to the loop.                        *)
Emptied ==
    /\ taking /\ list = <<>>
    /\ taking' = FALSE
    /\ UNCHANGED <<position, list, consuming, pipe>>
===============================================================================
