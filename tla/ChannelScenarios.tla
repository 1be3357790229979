-------------------------- MODULE ChannelScenarios --------------------------
(***************************************************************************)
(* The scripts the application threads run in the channel model checks:   *)
(* the calls of each thread, in order, on channels a and b.               *)
(***************************************************************************)
CONSTANTS s1, s2, r1, r2, a, b

Snd(c) == [op |-> "send", chan |-> c]
Rcv(c) == [op |-> "recv", chan |-> c]
Cls(c) == [op |-> "close", chan |-> c]
Dst(c) == [op |-> "destroy", chan |-> c]

\* A buffered channel a of capacity 1: two senders, a receiver, and a
\* receiver that closes a and, when the others are done, destroys it.
BufThreads == {s1, s2, r1, r2}
BufChans == {a}
BufCap == [c \in BufChans |-> 1]
BufScript ==
    [t \in BufThreads |->
        CASE t = s1 -> <<Snd(a), Snd(a)>>
          [] t = s2 -> <<Snd(a)>>
          [] t = r1 -> <<Rcv(a), Rcv(a)>>
          [] t = r2 -> <<Rcv(a), Cls(a), Dst(a)>>]

Sel(es) == [op |-> "select", entries |-> es]
SelSnd(c) == [chan |-> c, dir |-> "send"]
SelRcv(c) == [chan |-> c, dir |-> "recv"]

\* An unbuffered channel b: blocking senders and receivers and a select,
\* as many sends as receives, so every call has a partner; at the end r2
\* tries to destroy the channel, which was never closed.
UnbufThreads == {s1, s2, r1, r2}
UnbufChans == {b}
UnbufCap == [c \in UnbufChans |-> 0]
UnbufScript ==
    [t \in UnbufThreads |->
        CASE t = s1 -> <<Snd(b), Snd(b)>>
          [] t = s2 -> <<Sel(<<SelSnd(b)>>)>>
          [] t = r1 -> <<Rcv(b), Rcv(b)>>
          [] t = r2 -> <<Rcv(b), Dst(b)>>]

Try(c) == [op |-> "trysend", chan |-> c]

TryR(c) == [op |-> "tryrecv", chan |-> c]

\* Every kind of call at once: rendezvous traffic on b with a retrier that a
\* try_send or try_receive meets, and selects on the buffered a, which is closed.
MixThreads == {s1, s2, r1, r2}
MixChans == {a, b}
MixCap == [c \in MixChans |-> IF c = a THEN 1 ELSE 0]
MixScript ==
    [t \in MixThreads |->
        CASE t = s1 -> <<Snd(b), Snd(b)>>
          [] t = r1 -> <<Rcv(b), Rcv(b)>>
          [] t = s2 -> <<Try(b), TryR(b), Cls(a)>>
          [] t = r2 -> <<Sel(<<SelRcv(a), SelSnd(a)>>), Sel(<<>>), Sel(<<SelSnd(a), SelRcv(a)>>)>>]

\* A rendezvous sender waiting as proposer when the channel is closed.
CloseRdvThreads == {s1, r1}
CloseRdvScript == [t \in CloseRdvThreads |-> IF t = s1 THEN <<Snd(b)>> ELSE <<Cls(b)>>]

\* Two receivers, one sender and a try_send on the unbuffered channel b.
TryHangThreads == {s1, s2, r1, r2}
TryHangScript ==
    [t \in TryHangThreads |->
        CASE t = s1 -> <<Snd(b)>>
          [] t = s2 -> <<Try(b)>>
          [] t = r1 -> <<Rcv(b)>>
          [] t = r2 -> <<Rcv(b)>>]

\* Buffered channel a of capacity 1: a sender blocked on a full buffer while
\* a receiver empties it and another thread closes it.
SendCloseThreads == {s1, r1, r2}
SendCloseScript ==
    [t \in SendCloseThreads |->
        CASE t = s1 -> <<Snd(a), Snd(a)>>
          [] t = r1 -> <<Rcv(a)>>
          [] t = r2 -> <<Cls(a)>>]

\* A payload is buffered in a, then a is closed, then received.
DrainThreads == {s1, r1}
DrainScript == [t \in DrainThreads |-> IF t = s1 THEN <<Snd(a), Cls(a)>> ELSE <<Rcv(a), Rcv(a)>>]

\* A select sending on the unbuffered channel b, which another thread closes.
SelCloseThreads == {s1, r1}
SelCloseScript == [t \in SelCloseThreads |-> IF t = s1 THEN <<Sel(<<SelSnd(b)>>)>> ELSE <<Cls(b)>>]
\* Two sends to the buffered a, a select receiving on a or the unbuffered
\* b, and a select sending on b or receiving on a.  Each select can always
\* complete on a, which gets one payload for each.  The send select counts
\* the receive select as b's partner, while the receive select may take a.
SelHangThreads == {s1, s2, r1}
SelHangChans == {a, b}
SelHangCap == [c \in SelHangChans |-> IF c = a THEN 1 ELSE 0]
SelHangScript ==
    [t \in SelHangThreads |->
        CASE t = s1 -> <<Snd(a), Snd(a)>>
          [] t = s2 -> <<Sel(<<SelSnd(b), SelRcv(a)>>)>>
          [] t = r1 -> <<Sel(<<SelRcv(a), SelRcv(b)>>)>>]

=============================================================================
