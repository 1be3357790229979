------------------------------- MODULE Channel -------------------------------
(***************************************************************************)
(* The channel library of concurrency-project/channel.c: buffered and     *)
(* unbuffered (rendezvous) channels shared by application threads, with    *)
(* blocking and non-blocking send/receive, close, and select.              *)
(*                                                                         *)
(* Every channel has one mutex (chan_mutex).  Each action below is one     *)
(* critical section: it starts when the thread holds chan_mutex (after     *)
(* pthread_mutex_lock or after a condition wait returns) and ends at the   *)
(* next pthread_mutex_unlock or pthread_cond_wait.  The work a function    *)
(* does after it unlocks (notifying selectors, signalling) is an action of *)
(* its own, so other threads can run in between, as they can in the code.  *)
(*                                                                         *)
(* A condition variable is the set of threads blocked on it.  A signal     *)
(* removes one waiter of the signaller's choice (or none if it is empty),  *)
(* a broadcast removes them all; a removed thread then runs its next       *)
(* critical section when scheduled.  A select's semaphore is a counter.    *)
(* The selector registries (list_t of sem_t* in linked_list.c) are bags of *)
(* selecting threads: a select may register twice on one channel.          *)
(*                                                                         *)
(* Each thread runs a script of calls.  A payload is the pair <<t, k>> of  *)
(* the thread and the position of the call in its script, so every sent   *)
(* payload is distinct and a duplicate is visible.                         *)
(***************************************************************************)
EXTENDS Integers, Sequences, FiniteSets, Bags

CONSTANTS
    Threads,    \* application threads
    Chans,      \* channels
    Cap,        \* Cap[c]: the size passed to channel_create; 0 = unbuffered
    Script,     \* Script[t]: the sequence of calls thread t makes
    NoMsg       \* the value of a receive variable nothing was stored into

Msg(t, k) == <<t, k>>
Msgs == Threads \X (1..10)
Dirs == {"send", "recv"}

\* The calls a script may contain.
Entry == [chan : Chans, dir : Dirs]
Call == [op : {"send", "recv", "trysend", "tryrecv", "close", "destroy"}, chan : Chans]
          \cup [op : {"select"}, entries : Seq(Entry)]

ASSUME /\ Cap \in [Chans -> Nat]
       /\ \A t \in Threads : Script[t] \in Seq(Call) /\ Len(Script[t]) \in 1..10
       /\ NoMsg \notin Msgs

Status == {"SUCCESS", "CHANNEL_FULL", "CHANNEL_EMPTY", "CLOSED_ERROR",
           "DESTROY_ERROR", "GENERIC_ERROR", "NONE"}

VARIABLES
    closed,     \* channel->closed_flag
    buf,        \* channel->buffer contents (buffer_add appends, buffer_remove takes the head)
    stage,      \* channel->unbuf_stage: 0, 1 (a proposer waits) or 2 (hand-off done)
    active,     \* channel->active_unbuf_op: "send", "recv" or "none"
    slot,       \* channel->unbuf_data: the thread whose data variable the proposer offered
    sendSel,    \* channel->send_selectors: bag of selecting threads
    recvSel,    \* channel->recv_selectors
    notFull,    \* threads blocked on channel->cond_not_full
    notEmpty,   \* threads blocked on channel->cond_not_empty
    rdvWait,    \* threads blocked on channel->rendezvous_wait_cv
    rdvDone,    \* threads blocked on channel->rendezvous_complete_cv
    sem,        \* sem[t]: value of the local_sem of thread t's current select
    pc,         \* pc[t]: where thread t is
    step,       \* step[t]: index in Script[t] of the call thread t is making
    data,       \* data[t]: thread t's receive variable (the slot a receive fills)
    ret,        \* ret[t]: status the last (inner) call of t returned
    selI,       \* selI[t]: the select entry t is registering, scanning or removing
    selHit,     \* selHit[t]: the entry whose result the select returns
    selIdx,     \* selIdx[t]: the caller's sel_idx variable (0: never written)
    sentOK,     \* history: payloads whose send returned SUCCESS
    recvd       \* history: payloads returned by receives that returned SUCCESS, in order

chanVars == <<closed, buf, stage, active, slot>>
cvVars   == <<notFull, notEmpty, rdvWait, rdvDone>>
selLocal == <<selI, selHit, selIdx>>
selVars  == <<sendSel, recvSel, sem, selLocal>>
thrVars  == <<pc, step, data, ret>>
histVars == <<sentOK, recvd>>
vars == <<chanVars, cvVars, selVars, thrVars, histVars>>

-----------------------------------------------------------------------------
(* The call thread t is making, and the channel and direction it works on:  *)
(* for a select, those of the entry it is at.                               *)
CurCall(t) == Script[t][step[t]]
IsSelect(t) == CurCall(t).op = "select"
Chan(t) == IF IsSelect(t) THEN CurCall(t).entries[selI[t]].chan ELSE CurCall(t).chan
Dir(t) ==
    IF IsSelect(t) THEN CurCall(t).entries[selI[t]].dir
    ELSE CASE CurCall(t).op \in {"send", "trysend"} -> "send"
           [] CurCall(t).op \in {"recv", "tryrecv"} -> "recv"
           [] OTHER -> "none"

\* What thread t sends: the data argument of channel_send, or e->data.
Payload(t) == Msg(t, step[t])

\* channel->waiting_senders / waiting_receivers: the threads between the
\* increment before the retry wait and the decrement after it returns.
Waiting(c, d) ==
    Cardinality({u \in Threads : pc[u] = "sync_retry" /\ Chan(u) = c /\ Dir(u) = d})

\* list_count of a selector registry.
RegCount(reg, c) == BagCardinality(reg[c])

\* add_select_sender / add_select_receiver: list_insert of t's local_sem
\* into the channel's selector list, as one more node.
AddSelector(reg, c, t) == [reg EXCEPT ![c] = @ (+) SetToBag({t})]

\* remove_select_sender / remove_select_receiver: list_remove of the node
\* list_find returns (the first node holding t's local_sem; none: no-op).
RemoveSelector(reg, c, t) == [reg EXCEPT ![c] = @ (-) SetToBag({t})]

\* notify_select_senders / notify_select_receivers: sem_post on every node.
Notify(reg, c) == [u \in Threads |-> sem[u] + CopiesIn(u, reg[c])]

\* pthread_cond_signal: the possible waiter sets after waking one waiter.
Signalled(W) == IF W = {} THEN {{}} ELSE {W \ {w} : w \in W}

Wait(cv, t, c) == cv' = [cv EXCEPT ![c] = @ \cup {t}]
Broadcast(cv, c) == cv' = [cv EXCEPT ![c] = {}]

(* Thread t's current call returns status st; m is the payload it sent or   *)
(* received.  A call made by a select returns into the select (sel_got);    *)
(* any other call ends and t moves to the next call of its script.          *)
Advance(t) ==
    /\ step' = [step EXCEPT ![t] = @ + 1]
    /\ pc' = [pc EXCEPT ![t] = IF step[t] < Len(Script[t]) THEN "call" ELSE "done"]

Finish(t, st, m) ==
    /\ ret' = [ret EXCEPT ![t] = st]
    /\ sentOK' = IF st = "SUCCESS" /\ Dir(t) = "send" THEN sentOK \cup {m} ELSE sentOK
    /\ recvd' = IF st = "SUCCESS" /\ Dir(t) = "recv" THEN Append(recvd, m) ELSE recvd
    /\ IF IsSelect(t)
         THEN /\ pc' = [pc EXCEPT ![t] = "sel_got"]
              /\ UNCHANGED step
         ELSE Advance(t)

Goto(t, l) == pc' = [pc EXCEPT ![t] = l]

-----------------------------------------------------------------------------
(***************************************************************************)
(* unbuffered_sync, entered at label stage0 with chan_mutex held.          *)
(***************************************************************************)
\* stage 0: t becomes the proposer, wakes the other side, waits for the hand-off.
SyncPropose(t, c, d) ==
    /\ stage[c] = 0
    /\ stage' = [stage EXCEPT ![c] = 1]
    /\ active' = [active EXCEPT ![c] = d]
    /\ slot' = [slot EXCEPT ![c] = t]
    /\ sem' = Notify(IF d = "send" THEN recvSel ELSE sendSel, c)
    /\ IF d = "send" THEN Broadcast(notEmpty, c) /\ UNCHANGED notFull
                     ELSE Broadcast(notFull, c) /\ UNCHANGED notEmpty
    /\ Wait(rdvDone, t, c)
    /\ Goto(t, "sync_proposed")
    /\ UNCHANGED <<closed, buf, sendSel, recvSel, selLocal, rdvWait, step, data, ret,
                   histVars>>

\* stage 1 with the same operation, or stage 2: count and wait to retry.
SyncRetry(t, c, d) ==
    /\ (stage[c] = 1 /\ active[c] = d) \/ stage[c] = 2
    /\ Wait(rdvWait, t, c)
    /\ Goto(t, "sync_retry")
    /\ UNCHANGED <<chanVars, selVars, notFull, notEmpty, rdvDone, step, data, ret,
                   histVars>>

(* A plausible fault: the payload is copied in the wrong direction only,    *)
(* so a sender completing a receiver's proposal never fills its slot.       *)
SyncCompleteNoCopy(t, c, d) ==
    /\ stage[c] = 1 /\ active[c] # d
    /\ LET m == IF d = "recv" THEN Payload(slot[c]) ELSE Payload(t)
       IN /\ data' = IF d = "recv" THEN [data EXCEPT ![t] = m] ELSE data
          /\ Finish(t, "SUCCESS", m)
    /\ stage' = [stage EXCEPT ![c] = 2]
    /\ \E W \in Signalled(rdvDone[c]) : rdvDone' = [rdvDone EXCEPT ![c] = W]
    /\ UNCHANGED <<closed, buf, active, slot, selVars, notFull, notEmpty, rdvWait>>

(* A plausible fault: the completer leaves the stage at 1, so the proposal  *)
(* stays open to a second complementary thread.                             *)
SyncCompleteNoStage2(t, c, d) ==
    /\ stage[c] = 1 /\ active[c] # d
    /\ LET m == IF d = "recv" THEN Payload(slot[c]) ELSE Payload(t)
       IN /\ data' = IF d = "recv" THEN [data EXCEPT ![t] = m]
                                   ELSE [data EXCEPT ![slot[c]] = m]
          /\ Finish(t, "SUCCESS", m)
    /\ \E W \in Signalled(rdvDone[c]) : rdvDone' = [rdvDone EXCEPT ![c] = W]
    /\ UNCHANGED <<closed, buf, stage, active, slot, selVars, notFull, notEmpty, rdvWait>>

\* stage 1, complementary operation: copy the payload through the proposer's
\* slot, set stage 2 and signal the proposer.
SyncComplete(t, c, d) ==
    /\ stage[c] = 1 /\ active[c] # d
    /\ LET m == IF d = "recv" THEN Payload(slot[c]) ELSE Payload(t)
       IN /\ data' = IF d = "recv" THEN [data EXCEPT ![t] = m]
                                   ELSE [data EXCEPT ![slot[c]] = m]
          /\ Finish(t, "SUCCESS", m)
    /\ stage' = [stage EXCEPT ![c] = 2]
    /\ \E W \in Signalled(rdvDone[c]) : rdvDone' = [rdvDone EXCEPT ![c] = W]
    /\ UNCHANGED <<closed, buf, active, slot, selVars, notFull, notEmpty, rdvWait>>

SyncArrive(t, c, d) ==
    SyncPropose(t, c, d) \/ SyncRetry(t, c, d) \/ SyncComplete(t, c, d)

\* The proposer's pthread_cond_wait on rendezvous_complete_cv returned.
SyncProposedWake(t) ==
    LET c == Chan(t) IN
    /\ pc[t] = "sync_proposed" /\ t \notin rdvDone[c]
    /\ stage' = [stage EXCEPT ![c] = 0]
    /\ Broadcast(rdvWait, c)
    /\ Finish(t, "SUCCESS", IF Dir(t) = "send" THEN Payload(t) ELSE data[t])
    /\ UNCHANGED <<closed, buf, active, slot, selVars, notFull, notEmpty, rdvDone, data>>

\* The retry wait on rendezvous_wait_cv returned: decrement and goto stage0.
SyncRetryWake(t) ==
    /\ pc[t] = "sync_retry" /\ t \notin rdvWait[Chan(t)]
    /\ SyncArrive(t, Chan(t), Dir(t))

-----------------------------------------------------------------------------
(***************************************************************************)
(* Buffered send/receive loops (channel_send, channel_receive).            *)
(***************************************************************************)
(* A plausible fault: the capacity test of buffer_add is off by one.        *)
BufSendLoopOverfill(t, c) ==
    \/ /\ Len(buf[c]) <= Cap[c]
       /\ buf' = [buf EXCEPT ![c] = Append(@, Payload(t))]
       /\ Goto(t, "send_wake")
       /\ UNCHANGED <<closed, stage, active, slot, cvVars, selVars, step, data, ret, histVars>>
    \/ /\ Len(buf[c]) > Cap[c] /\ closed[c]
       /\ Finish(t, "CLOSED_ERROR", NoMsg)
       /\ UNCHANGED <<chanVars, cvVars, selVars, data>>
    \/ /\ Len(buf[c]) > Cap[c] /\ ~closed[c]
       /\ Wait(notFull, t, c)
       /\ Goto(t, "send_wait")
       /\ UNCHANGED <<chanVars, notEmpty, rdvWait, rdvDone, selVars, step, data, ret, histVars>>

\* channel_send's loop: add if there is room, else fail if closed, else wait.
BufSendLoop(t, c) ==
    \/ /\ Len(buf[c]) < Cap[c]
       /\ buf' = [buf EXCEPT ![c] = Append(@, Payload(t))]
       /\ Goto(t, "send_wake")
       /\ UNCHANGED <<closed, stage, active, slot, cvVars, selVars, step, data, ret, histVars>>
    \/ /\ Len(buf[c]) = Cap[c] /\ closed[c]
       /\ Finish(t, "CLOSED_ERROR", NoMsg)
       /\ UNCHANGED <<chanVars, cvVars, selVars, data>>
    \/ /\ Len(buf[c]) = Cap[c] /\ ~closed[c]
       /\ Wait(notFull, t, c)
       /\ Goto(t, "send_wait")
       /\ UNCHANGED <<chanVars, notEmpty, rdvWait, rdvDone, selVars, step, data, ret, histVars>>

\* channel_receive's loop after a wait: take the head, else fail if closed, else wait.
BufRecvLoop(t, c) ==
    \/ /\ buf[c] # <<>>
       /\ buf' = [buf EXCEPT ![c] = Tail(@)]
       /\ data' = [data EXCEPT ![t] = Head(buf[c])]
       /\ Goto(t, "recv_wake")
       /\ UNCHANGED <<closed, stage, active, slot, cvVars, selVars, step, ret, histVars>>
    \/ /\ buf[c] = <<>> /\ closed[c]
       /\ Finish(t, "CLOSED_ERROR", NoMsg)
       /\ UNCHANGED <<chanVars, cvVars, selVars, data>>
    \/ /\ buf[c] = <<>> /\ ~closed[c]
       /\ Wait(notEmpty, t, c)
       /\ Goto(t, "recv_wait")
       /\ UNCHANGED <<chanVars, notFull, rdvWait, rdvDone, selVars, step, data, ret, histVars>>

(* A plausible fault: the send never signals cond_not_empty.               *)
SendWakeNoSignal(t) ==
    LET c == Chan(t) IN
    /\ pc[t] = "send_wake"
    /\ sem' = Notify(recvSel, c)
    /\ Finish(t, "SUCCESS", Payload(t))
    /\ UNCHANGED <<chanVars, cvVars, sendSel, recvSel, selLocal, data>>

\* After the unlock of a successful buffered send: notify_select_receivers,
\* then pthread_cond_signal(cond_not_empty).
SendWake(t) ==
    LET c == Chan(t) IN
    /\ pc[t] = "send_wake"
    /\ sem' = Notify(recvSel, c)
    /\ \E W \in Signalled(notEmpty[c]) : notEmpty' = [notEmpty EXCEPT ![c] = W]
    /\ Finish(t, "SUCCESS", Payload(t))
    /\ UNCHANGED <<chanVars, notFull, rdvWait, rdvDone, sendSel, recvSel, selLocal, data>>

\* After the unlock of a successful buffered receive.
RecvWake(t) ==
    LET c == Chan(t) IN
    /\ pc[t] = "recv_wake"
    /\ sem' = Notify(sendSel, c)
    /\ \E W \in Signalled(notFull[c]) : notFull' = [notFull EXCEPT ![c] = W]
    /\ Finish(t, "SUCCESS", data[t])
    /\ UNCHANGED <<chanVars, notEmpty, rdvWait, rdvDone, sendSel, recvSel, selLocal, data>>

-----------------------------------------------------------------------------
(***************************************************************************)
(* The public calls.                                                       *)
(***************************************************************************)
ClosedReturn(t) ==
    /\ Finish(t, "CLOSED_ERROR", NoMsg)
    /\ UNCHANGED <<chanVars, cvVars, selVars, data>>

\* channel_send
Send(t, c) ==
    \/ closed[c] /\ ClosedReturn(t)
    \/ ~closed[c] /\ Cap[c] = 0 /\ SyncArrive(t, c, "send")
    \/ ~closed[c] /\ Cap[c] > 0 /\ BufSendLoop(t, c)

\* channel_receive
Receive(t, c) ==
    \/ closed[c] /\ ClosedReturn(t)
    \/ ~closed[c] /\ Cap[c] = 0 /\ SyncArrive(t, c, "recv")
    \/ ~closed[c] /\ Cap[c] > 0 /\ BufRecvLoop(t, c)

\* The unbuffered part of channel_non_blocking_send, from its while loop on.
TrySendUnbuf(t, c) ==
    \/ /\ Waiting(c, "recv") > 0 /\ stage[c] = 0 /\ RegCount(recvSel, c) = 0
       /\ Wait(notEmpty, t, c)
       /\ Goto(t, "trysend_wait")
       /\ UNCHANGED <<chanVars, notFull, rdvWait, rdvDone, selVars, step, data, ret, histVars>>
    \/ /\ ~(Waiting(c, "recv") > 0 /\ stage[c] = 0 /\ RegCount(recvSel, c) = 0)
       /\ (stage[c] = 1 /\ active[c] = "recv") \/ RegCount(recvSel, c) > 0
       /\ SyncArrive(t, c, "send")
    \/ /\ ~(Waiting(c, "recv") > 0 /\ stage[c] = 0 /\ RegCount(recvSel, c) = 0)
       /\ ~((stage[c] = 1 /\ active[c] = "recv") \/ RegCount(recvSel, c) > 0)
       /\ Finish(t, "CHANNEL_FULL", NoMsg)
       /\ UNCHANGED <<chanVars, cvVars, selVars, data>>

TryRecvUnbuf(t, c) ==
    \/ /\ Waiting(c, "send") > 0 /\ stage[c] = 0 /\ RegCount(sendSel, c) = 0
       /\ Wait(notFull, t, c)
       /\ Goto(t, "tryrecv_wait")
       /\ UNCHANGED <<chanVars, notEmpty, rdvWait, rdvDone, selVars, step, data, ret, histVars>>
    \/ /\ ~(Waiting(c, "send") > 0 /\ stage[c] = 0 /\ RegCount(sendSel, c) = 0)
       /\ (stage[c] = 1 /\ active[c] = "send") \/ RegCount(sendSel, c) > 0
       /\ SyncArrive(t, c, "recv")
    \/ /\ ~(Waiting(c, "send") > 0 /\ stage[c] = 0 /\ RegCount(sendSel, c) = 0)
       /\ ~((stage[c] = 1 /\ active[c] = "send") \/ RegCount(sendSel, c) > 0)
       /\ Finish(t, "CHANNEL_EMPTY", NoMsg)
       /\ UNCHANGED <<chanVars, cvVars, selVars, data>>

\* channel_non_blocking_send
TrySend(t, c) ==
    \/ closed[c] /\ ClosedReturn(t)
    \/ ~closed[c] /\ Cap[c] = 0 /\ TrySendUnbuf(t, c)
    \/ /\ ~closed[c] /\ Cap[c] > 0 /\ Len(buf[c]) < Cap[c]
       /\ buf' = [buf EXCEPT ![c] = Append(@, Payload(t))]
       /\ Goto(t, "send_wake")
       /\ UNCHANGED <<closed, stage, active, slot, cvVars, selVars, step, data, ret, histVars>>
    \/ /\ ~closed[c] /\ Cap[c] > 0 /\ Len(buf[c]) = Cap[c]
       /\ Finish(t, "CHANNEL_FULL", NoMsg)
       /\ UNCHANGED <<chanVars, cvVars, selVars, data>>

\* channel_non_blocking_receive
TryRecv(t, c) ==
    \/ closed[c] /\ ClosedReturn(t)
    \/ ~closed[c] /\ Cap[c] = 0 /\ TryRecvUnbuf(t, c)
    \/ /\ ~closed[c] /\ Cap[c] > 0 /\ buf[c] # <<>>
       /\ buf' = [buf EXCEPT ![c] = Tail(@)]
       /\ data' = [data EXCEPT ![t] = Head(buf[c])]
       /\ Goto(t, "recv_wake")
       /\ UNCHANGED <<closed, stage, active, slot, cvVars, selVars, step, ret, histVars>>
    \/ /\ ~closed[c] /\ Cap[c] > 0 /\ buf[c] = <<>>
       /\ Finish(t, "CHANNEL_EMPTY", NoMsg)
       /\ UNCHANGED <<chanVars, cvVars, selVars, data>>

\* channel_close, up to its unlock
Close(t, c) ==
    \/ closed[c] /\ ClosedReturn(t)
    \/ /\ ~closed[c]
       /\ closed' = [closed EXCEPT ![c] = TRUE]
       /\ Goto(t, "close_wake")
       /\ UNCHANGED <<buf, stage, active, slot, cvVars, selVars, step, data, ret, histVars>>

\* channel_close after its unlock: wake every selector and every waiter.
CloseWake(t) ==
    LET c == Chan(t) IN
    /\ pc[t] = "close_wake"
    /\ sem' = [u \in Threads |-> sem[u] + CopiesIn(u, recvSel[c]) + CopiesIn(u, sendSel[c])]
    /\ Broadcast(notEmpty, c) /\ Broadcast(notFull, c)
    /\ Broadcast(rdvWait, c) /\ Broadcast(rdvDone, c)
    /\ Finish(t, "SUCCESS", NoMsg)
    /\ UNCHANGED <<chanVars, sendSel, recvSel, selLocal, data>>

\* channel_destroy, called as its comment requires once every other thread
\* has finished: DESTROY_ERROR on an open channel, else the channel's
\* condition variables, mutexes, buffer and selector lists are freed.
ChannelDestroy(t, c) ==
    /\ \A u \in Threads \ {t} : pc[u] = "done"
    /\ Finish(t, IF closed[c] THEN "SUCCESS" ELSE "DESTROY_ERROR", NoMsg)
    /\ UNCHANGED <<chanVars, cvVars, selVars, data>>

\* A thread starts the next call of its script.
StartCall(t) ==
    /\ pc[t] = "call" /\ ~IsSelect(t)
    /\ LET c == CurCall(t).chan IN
       CASE CurCall(t).op = "send"    -> Send(t, c)
         [] CurCall(t).op = "recv"    -> Receive(t, c)
         [] CurCall(t).op = "trysend" -> TrySend(t, c)
         [] CurCall(t).op = "tryrecv" -> TryRecv(t, c)
         [] CurCall(t).op = "close"   -> Close(t, c)
         [] CurCall(t).op = "destroy" -> ChannelDestroy(t, c)

\* A condition wait returned: run the loop the wait sits in again.
SendWaitWake(t) ==
    /\ pc[t] = "send_wait" /\ t \notin notFull[Chan(t)]
    /\ BufSendLoop(t, Chan(t))

RecvWaitWake(t) ==
    /\ pc[t] = "recv_wait" /\ t \notin notEmpty[Chan(t)]
    /\ BufRecvLoop(t, Chan(t))

TrySendWaitWake(t) ==
    /\ pc[t] = "trysend_wait" /\ t \notin notEmpty[Chan(t)]
    /\ TrySendUnbuf(t, Chan(t))

TryRecvWaitWake(t) ==
    /\ pc[t] = "tryrecv_wait" /\ t \notin notFull[Chan(t)]
    /\ TryRecvUnbuf(t, Chan(t))

-----------------------------------------------------------------------------
(***************************************************************************)
(* channel_select.                                                         *)
(***************************************************************************)
Entries(t) == CurCall(t).entries

\* Count check, sem_init(&local_sem, 0, 0), then init_select.
SelStart(t) ==
    /\ pc[t] = "call" /\ IsSelect(t)
    /\ \/ /\ Entries(t) = <<>>
          /\ ret' = [ret EXCEPT ![t] = "GENERIC_ERROR"]
          /\ Advance(t)
          /\ UNCHANGED <<selLocal, sem>>
       \/ /\ Entries(t) # <<>>
          /\ sem' = [sem EXCEPT ![t] = 0]
          /\ selI' = [selI EXCEPT ![t] = 1]
          /\ selHit' = [selHit EXCEPT ![t] = 0]
          /\ Goto(t, "sel_reg")
          /\ UNCHANGED <<step, ret, selIdx>>
    /\ UNCHANGED <<chanVars, cvVars, sendSel, recvSel, data, histVars>>

\* init_select: add_select_sender / add_select_receiver for entry selI[t].
SelRegister(t) ==
    LET c == Chan(t) IN
    /\ pc[t] = "sel_reg"
    /\ IF Dir(t) = "send"
         THEN sendSel' = AddSelector(sendSel, c, t) /\ UNCHANGED recvSel
         ELSE recvSel' = AddSelector(recvSel, c, t) /\ UNCHANGED sendSel
    /\ IF selI[t] < Len(Entries(t))
         THEN selI' = [selI EXCEPT ![t] = @ + 1] /\ UNCHANGED pc
         ELSE selI' = [selI EXCEPT ![t] = 1] /\ Goto(t, "sel_scan")
    /\ UNCHANGED <<chanVars, cvVars, sem, selHit, selIdx, step, data, ret, histVars>>

\* The scan moves past entry selI[t], or blocks in sem_wait after the last.
SelNext(t) ==
    IF selI[t] < Len(Entries(t))
      THEN selI' = [selI EXCEPT ![t] = @ + 1] /\ pc' = [pc EXCEPT ![t] = "sel_scan"]
      ELSE pc' = [pc EXCEPT ![t] = "sel_wait"] /\ UNCHANGED selI

\* The scan reached an unbuffered entry: lock its channel and check it.
SelScanUnbuf(t, c, d) ==
    LET peer == IF d = "send" THEN "recv" ELSE "send"
        ready == (stage[c] = 1 /\ active[c] = peer)
                 \/ RegCount(IF d = "send" THEN recvSel ELSE sendSel, c) > 0
    IN
    \/ /\ closed[c]    \* cleanup and return CLOSED_ERROR; sel_idx is not written
       /\ ret' = [ret EXCEPT ![t] = "CLOSED_ERROR"]
       /\ selHit' = [selHit EXCEPT ![t] = selI[t]]
       /\ selI' = [selI EXCEPT ![t] = 1]
       /\ Goto(t, "sel_unreg")
       /\ UNCHANGED <<chanVars, cvVars, sendSel, recvSel, sem, selIdx, step, data, histVars>>
    \/ ~closed[c] /\ ready /\ SyncArrive(t, c, d)
    \/ /\ ~closed[c] /\ ~ready
       /\ SelNext(t)
       /\ UNCHANGED <<chanVars, cvVars, sendSel, recvSel, sem, selHit, selIdx,
                      step, data, ret, histVars>>

SelScan(t) ==
    LET c == Chan(t) IN
    /\ pc[t] = "sel_scan"
    /\ \/ Cap[c] = 0 /\ SelScanUnbuf(t, c, Dir(t))
       \/ Cap[c] > 0 /\ Dir(t) = "send" /\ TrySend(t, c)
       \/ Cap[c] > 0 /\ Dir(t) = "recv" /\ TryRecv(t, c)

\* The call made for entry selI[t] returned ret[t].
SelGot(t) ==
    /\ pc[t] = "sel_got"
    /\ \/ /\ Cap[Chan(t)] = 0 \/ ret[t] \notin {"CHANNEL_FULL", "CHANNEL_EMPTY"}
          /\ selIdx' = [selIdx EXCEPT ![t] = selI[t]]
          /\ selHit' = [selHit EXCEPT ![t] = selI[t]]
          /\ selI' = [selI EXCEPT ![t] = 1]
          /\ Goto(t, "sel_unreg")
       \/ /\ Cap[Chan(t)] > 0 /\ ret[t] \in {"CHANNEL_FULL", "CHANNEL_EMPTY"}
          /\ SelNext(t)
          /\ UNCHANGED <<selHit, selIdx>>
    /\ UNCHANGED <<chanVars, cvVars, sendSel, recvSel, sem, step, data, ret, histVars>>

\* sem_wait(&local_sem), then scan again from the first entry.
SelWait(t) ==
    /\ pc[t] = "sel_wait" /\ sem[t] > 0
    /\ sem' = [sem EXCEPT ![t] = @ - 1]
    /\ selI' = [selI EXCEPT ![t] = 1]
    /\ Goto(t, "sel_scan")
    /\ UNCHANGED <<chanVars, cvVars, sendSel, recvSel, selHit, selIdx, step, data, ret,
                   histVars>>

(* A plausible fault: cleanup stops after the first entry.                  *)
SelUnregisterFirstOnly(t) ==
    LET c == Chan(t) IN
    /\ pc[t] = "sel_unreg"
    /\ IF Dir(t) = "send"
         THEN sendSel' = RemoveSelector(sendSel, c, t) /\ UNCHANGED recvSel
         ELSE recvSel' = RemoveSelector(recvSel, c, t) /\ UNCHANGED sendSel
    /\ Advance(t)
    /\ UNCHANGED <<chanVars, cvVars, sem, selLocal, data, ret, histVars>>

\* cleanup_select: remove_select_sender / remove_select_receiver for entry
\* selI[t]; after the last one the select returns ret[t].
SelUnregister(t) ==
    LET c == Chan(t) IN
    /\ pc[t] = "sel_unreg"
    /\ IF Dir(t) = "send"
         THEN sendSel' = RemoveSelector(sendSel, c, t) /\ UNCHANGED recvSel
         ELSE recvSel' = RemoveSelector(recvSel, c, t) /\ UNCHANGED sendSel
    /\ IF selI[t] < Len(Entries(t))
         THEN selI' = [selI EXCEPT ![t] = @ + 1] /\ UNCHANGED <<pc, step>>
         ELSE Advance(t) /\ UNCHANGED selI
    /\ UNCHANGED <<chanVars, cvVars, sem, selHit, selIdx, data, ret, histVars>>

-----------------------------------------------------------------------------
Init ==
    /\ closed = [c \in Chans |-> FALSE]
    /\ buf = [c \in Chans |-> <<>>]
    /\ stage = [c \in Chans |-> 0]
    /\ active = [c \in Chans |-> "none"]
    /\ slot = [c \in Chans |-> CHOOSE t \in Threads : TRUE]
    /\ sendSel = [c \in Chans |-> EmptyBag]
    /\ recvSel = [c \in Chans |-> EmptyBag]
    /\ notFull = [c \in Chans |-> {}]
    /\ notEmpty = [c \in Chans |-> {}]
    /\ rdvWait = [c \in Chans |-> {}]
    /\ rdvDone = [c \in Chans |-> {}]
    /\ sem = [t \in Threads |-> 0]
    /\ pc = [t \in Threads |-> "call"]
    /\ step = [t \in Threads |-> 1]
    /\ data = [t \in Threads |-> NoMsg]
    /\ ret = [t \in Threads |-> "NONE"]
    /\ selI = [t \in Threads |-> 1]
    /\ selHit = [t \in Threads |-> 0]
    /\ selIdx = [t \in Threads |-> 0]
    /\ sentOK = {}
    /\ recvd = <<>>

Thread(t) ==
    \/ StartCall(t)
    \/ SendWaitWake(t) \/ RecvWaitWake(t)
    \/ SendWake(t) \/ RecvWake(t)
    \/ TrySendWaitWake(t) \/ TryRecvWaitWake(t)
    \/ SyncProposedWake(t) \/ SyncRetryWake(t)
    \/ CloseWake(t)
    \/ SelStart(t) \/ SelRegister(t) \/ SelScan(t) \/ SelGot(t)
    \/ SelWait(t) \/ SelUnregister(t)

\* pthread_cond_wait may return with no signal or broadcast (POSIX allows
\* spurious wake-ups).  The waits on cond_not_full, cond_not_empty and
\* rendezvous_wait_cv each sit in a loop (or a goto stage0) that re-checks
\* its condition, so the waiter only leaves the wait set and runs that
\* loop again.  The proposer's wait on rendezvous_complete_cv (line 112)
\* re-checks nothing; it is left out here, and the close_rdv run shows
\* what an unsignalled return of it does.
WakeNotFull(t, c) ==
    /\ t \in notFull[c] /\ notFull' = [notFull EXCEPT ![c] = @ \ {t}]
    /\ UNCHANGED <<notEmpty, rdvWait>>

WakeNotEmpty(t, c) ==
    /\ t \in notEmpty[c] /\ notEmpty' = [notEmpty EXCEPT ![c] = @ \ {t}]
    /\ UNCHANGED <<notFull, rdvWait>>

WakeRdvWait(t, c) ==
    /\ t \in rdvWait[c] /\ rdvWait' = [rdvWait EXCEPT ![c] = @ \ {t}]
    /\ UNCHANGED <<notFull, notEmpty>>

\* The waits: cond_not_full in channel_send (187) and the try_receive
\* pre-check (296), cond_not_empty in channel_receive (221) and the try_send
\* pre-check (250), rendezvous_wait_cv in unbuffered_sync (125, 150).
SpuriousWake(t) ==
    /\ \E c \in Chans : WakeNotFull(t, c) \/ WakeNotEmpty(t, c) \/ WakeRdvWait(t, c)
    /\ UNCHANGED <<chanVars, rdvDone, selVars, thrVars, histVars>>

\* Every script has run to its end.
Terminated == (\A t \in Threads : pc[t] = "done") /\ UNCHANGED vars

\* A spurious wake-up is not a step the thread is owed: it is not under
\* Fairness.
Next == (\E t \in Threads : Thread(t) \/ SpuriousWake(t)) \/ Terminated

\* Every thread that can run eventually runs: the scheduler runs every
\* runnable thread, and a thread blocked on a condition variable is not
\* runnable (the action is disabled until it is woken).
Fairness == \A t \in Threads : WF_vars(Thread(t))

Spec == Init /\ [][Next]_vars /\ Fairness

-----------------------------------------------------------------------------
(***************************************************************************)
(* Properties.                                                             *)
(***************************************************************************)
Labels == {"call", "done", "send_wait", "recv_wait", "send_wake", "recv_wake",
           "trysend_wait", "tryrecv_wait", "close_wake", "sync_proposed",
           "sync_retry", "sel_reg", "sel_scan", "sel_got", "sel_wait", "sel_unreg"}

SeqRange(s) == {s[i] : i \in DOMAIN s}

\* Every variable has the shape the code's fields have, and a buffered
\* channel never holds more payloads than its capacity.
TypeOK ==
    /\ closed \in [Chans -> BOOLEAN]
    /\ buf \in [Chans -> Seq(Msgs)]
    /\ \A c \in Chans : Len(buf[c]) <= Cap[c]
    /\ stage \in [Chans -> 0..2]
    /\ active \in [Chans -> Dirs \cup {"none"}]
    /\ slot \in [Chans -> Threads]
    /\ \A c \in Chans : IsABag(sendSel[c]) /\ IsABag(recvSel[c])
    /\ \A cv \in {notFull, notEmpty, rdvWait, rdvDone} : cv \in [Chans -> SUBSET Threads]
    /\ sem \in [Threads -> Nat]
    /\ pc \in [Threads -> Labels]
    /\ data \in [Threads -> Msgs \cup {NoMsg}]
    /\ ret \in [Threads -> Status]
    /\ sentOK \subseteq Msgs
    /\ recvd \in Seq(Msgs \cup {NoMsg})

(* No payload is received twice, and every successful receive returns a    *)
(* payload some send offered (never the stale or unset receive variable).  *)
(* The rendezvous stage machine of unbuffered_sync must pair each proposer *)
(* with exactly one complementary thread for this to hold.                 *)
NoDuplicateDelivery ==
    \A i \in DOMAIN recvd :
        /\ recvd[i] \in Msgs
        /\ \A j \in DOMAIN recvd : i # j => recvd[i] # recvd[j]

(* A send that returned SUCCESS handed its payload on: the payload is in a *)
(* channel buffer, was returned by a receive, or sits in the receive       *)
(* variable of a receiver that is about to return it.  A rendezvous sender *)
(* must not return SUCCESS unless a receiver took the payload.             *)
SentIsDelivered ==
    \A m \in sentOK :
        \/ m \in SeqRange(recvd)
        \/ \E c \in Chans : m \in SeqRange(buf[c])
        \/ \E u \in Threads : pc[u] \in {"sync_proposed", "recv_wake"} /\ data[u] = m

(* Every call of every thread eventually returns: no signal, broadcast or  *)
(* semaphore post the code relies on is lost.                              *)
AllCallsReturn == <>(\A t \in Threads : pc[t] = "done")


(* A select leaves no node of its own in any selector list once it has     *)
(* returned: cleanup_select removes one node per entry, so a later          *)
(* notify_select_* never posts the local_sem of a select that is gone      *)
(* (that semaphore lives on the returned call's stack).                     *)

NoStaleSelector ==
    \A t \in Threads :
        (pc[t] \in {"call", "done"}) =>
            \A c \in Chans : CopiesIn(t, sendSel[c]) = 0 /\ CopiesIn(t, recvSel[c]) = 0

(* A closed channel accepts no more payloads: once closed_flag is set, no   *)
(* send adds to the buffer (spec: "once closed is true, no send ever       *)
(* succeeds again").  channel_send retries buffer_add before it re-reads   *)
(* closed_flag after a wait.                                               *)
NoSendAfterClose ==
    [][\A c \in Chans : closed[c] => Len(buf'[c]) <= Len(buf[c])]_vars

(* A receive on a closed buffered channel still returns the payloads that  *)
(* are buffered, and fails with CLOSED_ERROR only once the buffer is empty *)
(* (the spec's drain-then-fail rule).                                      *)
DrainAfterClose ==
    [][\A t \in Threads :
         (/\ pc[t] # "done" /\ ~IsSelect(t) /\ Dir(t) = "recv" /\ Cap[Chan(t)] > 0
          /\ step'[t] # step[t] /\ ret'[t] = "CLOSED_ERROR")
         => buf[Chan(t)] = <<>>]_vars

(* When a select has returned, the caller's sel_idx names the entry whose  *)
(* result it returned, errors included (the comment above channel_select). *)
SelIndexReported ==
    \A t \in Threads :
        (pc[t] \in {"call", "done"} /\ selHit[t] # 0) => selIdx[t] = selHit[t]

(* A non-blocking call returns: a try_send or try_receive that has started *)
(* eventually finishes.  It may wait in its pre-check loop (246-251), and   *)
(* at line 257 it enters unbuffered_sync whenever a select of the other     *)
(* direction is registered, where it can wait as the proposer; spec 4.3     *)
(* says a non-blocking caller never becomes the proposer.                   *)
InTryCall(t) ==
    /\ pc[t] \notin {"call", "done"}
    /\ CurCall(t).op \in {"trysend", "tryrecv"}

NonBlockingReturns == \A t \in Threads : InTryCall(t) ~> ~InTryCall(t)

=============================================================================
