------------------------------- MODULE Wakeup -------------------------------
(***************************************************************************)
(* What a completion queue with a notification channel promises to the     *)
(* thread that drains it: the thread may go back to sleep in its event     *)
(* loop only when nothing is left in the queue or a signal is already      *)
(* waiting for it, and a completion that finds the thread asleep leaves a  *)
(* signal behind.  How many times the queue was polled, when it was armed  *)
(* and how many events were read are details of the implementations        *)
(* (RDMAWorker::handle_tx_event, RDMAConnectedSocketImpl::read).           *)
(***************************************************************************)
EXTENDS Naturals

VARIABLES
    pending,  \* completions in the queue that no poll has taken
    signal,   \* the channel's file descriptor is readable
    awake,    \* the thread is inside the handler
    deaf      \* the adapter refused once to arm the queue: no promise is left

vars == <<pending, signal, awake, deaf>>

Init ==
    /\ pending = 0
    /\ signal = FALSE
    /\ awake = FALSE
    /\ deaf = FALSE

\* The adapter adds a completion; a sleeping thread is signalled.
Arrive ==
    /\ pending' = pending + 1
    /\ signal' \in BOOLEAN
    /\ signal => signal'
    /\ ~awake => signal' \/ deaf
    /\ UNCHANGED <<awake, deaf>>

\* The event loop sees the signal and enters the handler.
Wake ==
    /\ ~awake
    /\ signal
    /\ awake' = TRUE
    /\ signal' = FALSE
    /\ UNCHANGED <<pending, deaf>>

\* The handler takes at least one completion out of the queue.
Take ==
    /\ awake
    /\ pending > 0
    /\ pending' \in 0 .. (pending - 1)
    /\ UNCHANGED <<signal, awake, deaf>>

\* The handler returns to the event loop.
Sleep ==
    /\ awake
    /\ pending = 0 \/ signal
    /\ awake' = FALSE
    /\ UNCHANGED <<pending, signal, deaf>>

\* The handler asks to be signalled again and the adapter refuses.
Refuse ==
    /\ awake
    /\ deaf' = TRUE
    /\ UNCHANGED <<pending, signal, awake>>

Next == Arrive \/ Wake \/ Take \/ Sleep \/ Refuse

Spec == Init /\ [][Next]_vars
=============================================================================
