------------------------------ MODULE FrameFifo ------------------------------
(***************************************************************************)
(* What ContinuousOutput promises its clients: one bounded FIFO of frames   *)
(* per client.  A frame that is offered either leaves the FIFO once, in the *)
(* order it was offered, or is counted as canceled; a flush or a close      *)
(* drops what is queued and everything the blocked call still owes.         *)
(***************************************************************************)
EXTENDS Integers, Sequences

CONSTANTS Callers,     \* threads that call in
          Capacity,    \* frames a client can have queued
          Period,      \* frames taken per PCM period
          Clients,     \* the names a client can be given
          Frames,      \* the sequences of frames a call can offer
          NoCall       \* the state of a caller with no call in progress

VARIABLES fifo,        \* client -> sequence of frames; DOMAIN is the open clients
          owed,        \* caller -> [client, frames, void] or NoCall
          lost,        \* frames canceled so far
          running      \* FALSE once the output is being torn down

vars == <<fifo, owed, lost, running>>

Init == /\ fifo = <<>>
        /\ owed = [t \in Callers |-> NoCall]
        /\ lost = 0
        /\ running = TRUE

Void(c) == [t \in Callers |-> IF owed[t] # NoCall /\ owed[t].client = c
                                THEN [owed[t] EXCEPT !.void = TRUE] ELSE owed[t]]

Without(c) == [d \in DOMAIN fifo \ {c} |-> fifo[d]]

Open == /\ \E c \in Clients \ DOMAIN fifo :
             fifo' = [d \in DOMAIN fifo \cup {c} |-> IF d = c THEN <<>> ELSE fifo[d]]
        /\ UNCHANGED <<owed, lost, running>>

Close == \E c \in DOMAIN fifo :
           /\ fifo' = Without(c)
           /\ lost' = lost + Len(fifo[c])
           /\ owed' = Void(c)
           /\ UNCHANGED running

Flush == \E c \in DOMAIN fifo :
           /\ fifo' = [fifo EXCEPT ![c] = <<>>]
           /\ lost' = lost + Len(fifo[c])
           /\ owed' = Void(c)
           /\ UNCHANGED running

\* The first k of the frames of a call enter the FIFO of its client; the call
\* ends when none is left.
Put(t, c, frames, k) ==
    /\ Len(fifo[c]) + k <= Capacity
    /\ fifo' = [fifo EXCEPT ![c] = @ \o SubSeq(frames, 1, k)]
    /\ owed' = [owed EXCEPT ![t] =
                  IF k = Len(frames) THEN NoCall
                  ELSE [client |-> c, void |-> FALSE,
                        frames |-> SubSeq(frames, k + 1, Len(frames))]]
    /\ UNCHANGED <<lost, running>>

\* While the output is being torn down a call is canceled whole.
Offer(t, c, frames) ==
    /\ owed[t] = NoCall
    /\ c \in DOMAIN fifo
    /\ \/ \E k \in 0..Len(frames) : Put(t, c, frames, k)
       \/ /\ ~running
          /\ lost' = lost + Len(frames)
          /\ UNCHANGED <<fifo, owed, running>>

Accept(t) == /\ owed[t] # NoCall
             /\ ~owed[t].void
             /\ \E k \in 0..Len(owed[t].frames) :
                  Put(t, owed[t].client, owed[t].frames, k)

Cancel(t) == /\ owed[t] # NoCall
             /\ owed[t].void \/ ~running
             /\ lost' = lost + Len(owed[t].frames)
             /\ owed' = [owed EXCEPT ![t] = NoCall]
             /\ UNCHANGED <<fifo, running>>

\* One PCM period: every client gives up to Period frames from its head.
Take == /\ fifo' = [c \in DOMAIN fifo |->
                      SubSeq(fifo[c], Period + 1, Len(fifo[c]))]
        /\ UNCHANGED <<owed, lost, running>>

Stop == /\ running' = FALSE
        /\ UNCHANGED <<fifo, owed, lost>>

Next == \/ Open \/ Close \/ Flush \/ Take \/ Stop
        \/ \E t \in Callers : \/ \E c \in DOMAIN fifo, s \in Frames : Offer(t, c, s)
                              \/ Accept(t)
                              \/ Cancel(t)

Spec == Init /\ [][Next]_vars
===============================================================================
