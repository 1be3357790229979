--------------------------- MODULE MC_ChannelSuite ---------------------------
(***************************************************************************)
(* The three channel scenarios that must hold, checked in one model: the   *)
(* scenario is chosen in Init and never changes, and each scenario is an   *)
(* instance of Channel with its own threads' scripts.  A behaviour of this *)
(* module is a behaviour of exactly one instance, so the state space is    *)
(* the disjoint union of the three, not their product.                     *)
(*                                                                         *)
(*   buffered:   capacity-1 channel a, two senders (three sends), two      *)
(*               receivers (three receives), one of which closes a;        *)
(*   unbuffered: rendezvous channel b, blocking sends and receives and a   *)
(*               select that sends, as many sends as receives;             *)
(*   mixed:      rendezvous traffic on b met by try_send and try_receive,  *)
(*               and selects on the buffered a, which is closed.           *)
(***************************************************************************)
EXTENDS ChannelScenarios

CONSTANT NoMsg

VARIABLES closed, buf, stage, active, slot, sendSel, recvSel,
          notFull, notEmpty, rdvWait, rdvDone, sem, pc, step, data, ret,
          selI, selHit, selIdx, sentOK, recvd,
          scenario    \* which instance this behaviour runs

Buffered == INSTANCE Channel
    WITH Threads <- BufThreads, Chans <- BufChans, Cap <- BufCap, Script <- BufScript
Unbuffered == INSTANCE Channel
    WITH Threads <- UnbufThreads, Chans <- UnbufChans, Cap <- UnbufCap, Script <- UnbufScript
Mixed == INSTANCE Channel
    WITH Threads <- MixThreads, Chans <- MixChans, Cap <- MixCap, Script <- MixScript

Scenarios == {"buffered", "unbuffered", "mixed"}

\* All three scenarios run the threads s1, s2, r1, r2.
Threads == BufThreads \cup UnbufThreads \cup MixThreads

vars == <<closed, buf, stage, active, slot, sendSel, recvSel,
          notFull, notEmpty, rdvWait, rdvDone, sem, pc, step, data, ret,
          selI, selHit, selIdx, sentOK, recvd, scenario>>

Init ==
    \/ scenario = "buffered" /\ Buffered!Init
    \/ scenario = "unbuffered" /\ Unbuffered!Init
    \/ scenario = "mixed" /\ Mixed!Init

Step(t) ==
    /\ \/ scenario = "buffered" /\ Buffered!Thread(t)
       \/ scenario = "unbuffered" /\ Unbuffered!Thread(t)
       \/ scenario = "mixed" /\ Mixed!Thread(t)
    /\ UNCHANGED scenario

\* A spurious return of a condition wait, outside the fairness of Step.
Spurious(t) ==
    /\ \/ scenario = "buffered" /\ Buffered!SpuriousWake(t)
       \/ scenario = "unbuffered" /\ Unbuffered!SpuriousWake(t)
       \/ scenario = "mixed" /\ Mixed!SpuriousWake(t)
    /\ UNCHANGED scenario

Terminated == (\A t \in Threads : pc[t] = "done") /\ UNCHANGED vars

Next == (\E t \in Threads : Step(t) \/ Spurious(t)) \/ Terminated

\* The fairness of Channel, for the instance the behaviour runs.
Spec == Init /\ [][Next]_vars /\ \A t \in Threads : WF_vars(Step(t))

-----------------------------------------------------------------------------
\* Each property is the Channel property of the running instance.

\* The channel's variables have the code's shapes; buffers stay within capacity.
TypeOK ==
    /\ scenario \in Scenarios
    /\ CASE scenario = "buffered" -> Buffered!TypeOK
         [] scenario = "unbuffered" -> Unbuffered!TypeOK
         [] scenario = "mixed" -> Mixed!TypeOK

(* No payload is received twice, and every successful receive returns a    *)
(* payload a send offered: the rendezvous pairs each proposer with exactly *)
(* one partner, and buffer_remove never hands out a slot twice.            *)
NoDuplicateDelivery ==
    CASE scenario = "buffered" -> Buffered!NoDuplicateDelivery
      [] scenario = "unbuffered" -> Unbuffered!NoDuplicateDelivery
      [] scenario = "mixed" -> Mixed!NoDuplicateDelivery

(* A send that returned SUCCESS handed its payload on: it is buffered,     *)
(* received, or in the receive variable of a receiver about to return it.  *)
SentIsDelivered ==
    CASE scenario = "buffered" -> Buffered!SentIsDelivered
      [] scenario = "unbuffered" -> Unbuffered!SentIsDelivered
      [] scenario = "mixed" -> Mixed!SentIsDelivered

(* A select that has returned has no node left in any selector list, so    *)
(* no notify_select_* posts the semaphore of a select that is gone.        *)
NoStaleSelector ==
    CASE scenario = "buffered" -> Buffered!NoStaleSelector
      [] scenario = "unbuffered" -> Unbuffered!NoStaleSelector
      [] scenario = "mixed" -> Mixed!NoStaleSelector

(* In the scenarios without try operations every call of every thread      *)
(* eventually returns: no signal, broadcast or semaphore post that a       *)
(* blocked send, receive or select relies on is lost.  In the mixed        *)
(* scenario a try_send can block for good (the try_hang run), so it is not *)
(* claimed there.                                                          *)
AllCallsReturn == <>(scenario = "mixed" \/ \A t \in Threads : pc[t] = "done")

=============================================================================
