------------------------------- MODULE Queues -------------------------------
(***************************************************************************)
(* The queues that decouple a producer of events from a slow consumer      *)
(* (workflow/broadcast.go; harness/queue.go is the same machine): events   *)
(* are pushed under a mutex and handed over by a goroutine, which sleeps   *)
(* on a channel that holds one signal.                                     *)
(***************************************************************************)
EXTENDS Sequences

CONSTANT Clients  \* the consumers; each has one queue at a time

VARIABLES
  items,    \* events no delivery has taken yet
  batch,    \* events the goroutine took and has not handed over
  closed,   \* no more events are accepted
  signal,   \* the channel holds a signal
  dpc       \* where the goroutine is

queueVars == <<items, batch, closed, signal, dpc>>

QueueInit ==
    /\ items = [c \in Clients |-> <<>>] /\ batch = [c \in Clients |-> <<>>]
    /\ closed = [c \in Clients |-> TRUE] /\ signal = [c \in Clients |-> FALSE]
    /\ dpc = [c \in Clients |-> "gone"]

(* newQueue, the push of the replayed events, and the close of a queue     *)
(* that gets no others.                                                    *)
NewQueue(c, events, isClosed) ==
    /\ items' = [items EXCEPT ![c] = events] /\ batch' = [batch EXCEPT ![c] = <<>>]
    /\ closed' = [closed EXCEPT ![c] = isClosed]
    /\ signal' = [signal EXCEPT ![c] = TRUE] /\ dpc' = [dpc EXCEPT ![c] = "take"]

Push(S, e) ==
    /\ items' = [c \in Clients |-> IF c \in S /\ ~closed[c] THEN Append(items[c], e) ELSE items[c]]
    /\ signal' = [c \in Clients |-> signal[c] \/ (c \in S /\ ~closed[c])]
    /\ UNCHANGED <<batch, closed, dpc>>

(* Mutant: the goroutine is not woken. *)
CloseQuietly(S) ==
    /\ closed' = [c \in Clients |-> closed[c] \/ c \in S]
    /\ UNCHANGED <<items, batch, signal, dpc>>

Close(S) ==
    /\ closed' = [c \in Clients |-> closed[c] \/ c \in S]
    /\ signal' = [c \in Clients |-> signal[c] \/ c \in S]
    /\ UNCHANGED <<items, batch, dpc>>

(* deliver takes all there is; a closed queue that holds nothing is over. *)
Take(c) ==
    /\ dpc[c] = "take"
    /\ batch' = [batch EXCEPT ![c] = items[c]] /\ items' = [items EXCEPT ![c] = <<>>]
    /\ dpc' = [dpc EXCEPT ![c] = IF items[c] # <<>> THEN "send"
                                 ELSE IF closed[c] THEN "done" ELSE "wait"]
    /\ UNCHANGED <<closed, signal>>

(* The consumer receives the next event. *)
HandOver(c) ==
    /\ dpc[c] = "send"
    /\ batch' = [batch EXCEPT ![c] = Tail(@)]
    /\ dpc' = [dpc EXCEPT ![c] = IF Len(batch[c]) = 1 THEN "take" ELSE "send"]
    /\ UNCHANGED <<items, closed, signal>>

Wake(c) ==
    /\ dpc[c] = "wait" /\ signal[c]
    /\ signal' = [signal EXCEPT ![c] = FALSE] /\ dpc' = [dpc EXCEPT ![c] = "take"]
    /\ UNCHANGED <<items, batch, closed>>

(* The contexts of the consumers in S are over: what is queued is          *)
(* discarded, and later pushes are dropped.                                *)
Discard(S) ==
    /\ items' = [c \in Clients |-> IF c \in S THEN <<>> ELSE items[c]]
    /\ batch' = [c \in Clients |-> IF c \in S THEN <<>> ELSE batch[c]]
    /\ closed' = [c \in Clients |-> closed[c] \/ c \in S]
    /\ signal' = [c \in Clients |-> signal[c] /\ c \notin S]
    /\ dpc' = [c \in Clients |-> IF c \in S THEN "gone" ELSE dpc[c]]
=============================================================================
