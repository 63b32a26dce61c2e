-------------------------------- MODULE Ring --------------------------------
(***************************************************************************)
(* The command ring and the event ring between the driver and the          *)
(* controller: Push of Ring, HasFront, Front and Pop of EventRing in       *)
(* usb/xhci/ring.cpp, driven by ProcessEvents of usb/xhci/xhci.cpp.  Both  *)
(* sides share memory and no lock; an entry is valid when its cycle bit is *)
(* the one its reader expects.  The driver's writes to memory and to       *)
(* registers are steps of their own.                                       *)
(*                                                                         *)
(* Push does not look whether the ring is full.  MaxUnderWay is what its   *)
(* callers keep to; see RingAssumption.                                    *)
(***************************************************************************)
EXTENDS Integers, Sequences, FiniteSets

CONSTANTS Command,     \* what is pushed
          buf_size_,   \* entries of the command ring, the last for the link
          event_size,  \* entries of the event ring, its buf_size_
          MaxUnderWay  \* commands that wait for an answer at a time

\* With one command more, the link could be rewritten before the controller
\* has followed it.
ASSUME RingAssumption ==
  /\ buf_size_ \in Nat /\ event_size \in Nat \ {0, 1}
  /\ MaxUnderWay \in Nat \ {0} /\ MaxUnderWay <= buf_size_ - 2

VARIABLES
  buf_, cycle_bit_, write_index_,     \* class Ring
  ebuf_, ecycle_bit_, ERDP,           \* class EventRing and its register
  dequeue, ccs, rung,                 \* of the controller: where it reads commands
  enqueue, pcs,                       \* of the controller: where it writes events
  pc,                                 \* how far ProcessEvents is
  issuer                              \* the command it found at the pointer of the event

commandRing == <<buf_, cycle_bit_, write_index_>>
eventRing == <<ebuf_, ecycle_bit_, ERDP>>
reader == <<dequeue, ccs, rung>>
writer == <<enqueue, pcs>>
ringVars == <<commandRing, eventRing, reader, writer, pc, issuer>>

Index == 0..buf_size_ - 1
EventIndex == 0..event_size - 1

RingInit ==
  /\ buf_ = [i \in Index |-> [data |-> 0, type |-> "None", cycle |-> FALSE]]
  /\ cycle_bit_ = TRUE /\ write_index_ = 0
  /\ ebuf_ = [i \in EventIndex |-> [pointer |-> -1, cycle |-> FALSE]]
  /\ ecycle_bit_ = TRUE /\ ERDP = 0
  /\ dequeue = 0 /\ ccs = TRUE /\ rung = FALSE
  /\ enqueue = 0 /\ pcs = TRUE
  /\ pc = "HasFront" /\ issuer = {}

-----------------------------------------------------------------------------
(* Push.                                                                   *)

\* data[0..2], without the cycle bit.
CopyData(data) == buf_' = [buf_ EXCEPT ![write_index_].data = data]

\* data[3], which makes the entry valid.
CopyControl(type) ==
  buf_' = [buf_ EXCEPT ![write_index_].type = type, ![write_index_].cycle = cycle_bit_]

\* Commands that the controller has not read yet, and those whose events are
\* not looked at yet.  At the link the controller is as good as at the start.
Untaken == (write_index_ - dequeue) % (buf_size_ - 1)
Unread == LET n == (enqueue - ERDP) % event_size
              first == IF pc = "HasFront" THEN 0 ELSE 1
          IN  {i \in EventIndex : ebuf_[i].pointer # -1 /\ (i - ERDP) % event_size \in first..n - 1}
UnderWay == Untaken + Cardinality(Unread)

PushData(c) ==
  /\ pc = "OnEvent" /\ UnderWay < MaxUnderWay
  /\ CopyData(c)
  /\ pc' = "PushControl"
  /\ UNCHANGED <<cycle_bit_, write_index_, eventRing, reader, writer, issuer>>

PushControl ==
  /\ pc = "PushControl"
  /\ CopyControl("Command")
  /\ write_index_' = write_index_ + 1
  /\ pc' = IF write_index_' = buf_size_ - 1 THEN "LinkData" ELSE "Doorbell"
  /\ UNCHANGED <<cycle_bit_, eventRing, reader, writer, issuer>>

\* LinkTRB{buf_}: the address of entry 0.
PushLinkData ==
  /\ pc = "LinkData"
  /\ CopyData(0)
  /\ pc' = "LinkControl"
  /\ UNCHANGED <<cycle_bit_, write_index_, eventRing, reader, writer, issuer>>

\* Mutant: cycle_bit_ stays.
PushLinkSameCycle ==
  /\ pc = "LinkControl"
  /\ CopyControl("Link")
  /\ write_index_' = 0
  /\ pc' = "Doorbell"
  /\ UNCHANGED <<cycle_bit_, eventRing, reader, writer, issuer>>

PushLinkControl ==
  /\ pc = "LinkControl"
  /\ CopyControl("Link")
  /\ write_index_' = 0 /\ cycle_bit_' = ~cycle_bit_
  /\ pc' = "Doorbell"
  /\ UNCHANGED <<eventRing, reader, writer, issuer>>

Doorbell ==
  /\ pc = "Doorbell"
  /\ rung' = TRUE
  /\ pc' = "Pop"
  /\ UNCHANGED <<commandRing, eventRing, dequeue, ccs, writer, issuer>>

-----------------------------------------------------------------------------
(* ProcessEvents.                                                          *)

HasFront == ebuf_[ERDP].cycle = ecycle_bit_

\* OnEvent reads the command through the pointer in the event.
ReadIssuer(i) == IF i = -1 THEN {} ELSE {buf_[i].data}

Front ==
  /\ pc = "HasFront" /\ HasFront
  /\ issuer' = ReadIssuer(ebuf_[ERDP].pointer)
  /\ pc' = "OnEvent"
  /\ UNCHANGED <<commandRing, eventRing, reader, writer>>

\* A handler that pushes nothing.
NoPush == pc = "OnEvent" /\ pc' = "Pop" /\ UNCHANGED <<commandRing, eventRing, reader, writer, issuer>>

\* Mutant: ecycle_bit_ turns one entry early.
PopEarly ==
  /\ pc = "Pop"
  /\ ERDP' = (ERDP + 1) % event_size
  /\ ecycle_bit_' = IF ERDP + 2 = event_size THEN ~ecycle_bit_ ELSE ecycle_bit_
  /\ pc' = "HasFront"
  /\ UNCHANGED <<commandRing, ebuf_, reader, writer, issuer>>

Pop ==
  /\ pc = "Pop"
  /\ IF ERDP + 1 = event_size
     THEN ERDP' = 0 /\ ecycle_bit_' = ~ecycle_bit_
     ELSE ERDP' = ERDP + 1 /\ UNCHANGED ecycle_bit_
  /\ pc' = "HasFront"
  /\ UNCHANGED <<commandRing, ebuf_, reader, writer, issuer>>

-----------------------------------------------------------------------------
(* The controller.                                                         *)

\* It leaves one entry of the event ring free.
Room == (enqueue + 1) % event_size # ERDP

WriteEvent(pointer) ==
  /\ Room
  /\ ebuf_' = [ebuf_ EXCEPT ![enqueue] = [pointer |-> pointer, cycle |-> pcs]]
  /\ enqueue' = (enqueue + 1) % event_size
  /\ pcs' = IF enqueue + 1 = event_size THEN ~pcs ELSE pcs

Valid == buf_[dequeue].cycle = ccs

\* The toggle_cycle bit of the link is always set.
FollowLink ==
  /\ rung /\ Valid /\ buf_[dequeue].type = "Link"
  /\ dequeue' = buf_[dequeue].data /\ ccs' = ~ccs
  /\ UNCHANGED <<commandRing, eventRing, rung, writer, pc, issuer>>

CarryOut ==
  /\ rung /\ Valid /\ buf_[dequeue].type # "Link"
  /\ WriteEvent(dequeue)
  /\ dequeue' = dequeue + 1
  /\ UNCHANGED <<commandRing, ecycle_bit_, ERDP, ccs, rung, pc, issuer>>

\* It stops at an invalid entry until the doorbell rings.
Stop ==
  /\ rung /\ ~Valid
  /\ rung' = FALSE
  /\ UNCHANGED <<commandRing, eventRing, dequeue, ccs, writer, pc, issuer>>

ReportPort ==
  /\ WriteEvent(-1)
  /\ UNCHANGED <<commandRing, ecycle_bit_, ERDP, reader, pc, issuer>>

-----------------------------------------------------------------------------
Push == (\E c \in Command : PushData(c)) \/ PushControl \/ PushLinkData \/ PushLinkControl
Driver == Push \/ Doorbell \/ Front \/ NoPush \/ Pop
Controller == FollowLink \/ CarryOut \/ Stop \/ ReportPort
RingNext == Driver \/ Controller

RingSpec == RingInit /\ [][RingNext]_ringVars

\* ProcessEvents loops while there is an event, and the controller's
\* interrupt starts it.  The controller looks at a ring whose bell was rung,
\* and reports of ports do not keep it from commands for ever.
RingFairness == WF_ringVars(Driver) /\ WF_ringVars(FollowLink \/ Stop) /\ SF_ringVars(CarryOut)

LiveRingSpec == RingSpec /\ RingFairness

-----------------------------------------------------------------------------
(* Properties.                                                             *)

\* The commands under way lie one after the other before write_index_.
AskedCommands == [k \in 1..UnderWay |-> buf_[(write_index_ - UnderWay + k - 1) % (buf_size_ - 1)].data]

Queue == INSTANCE CommandQueue WITH asked <- AskedCommands, answered <- issuer

\* However the driver's and the controller's accesses interleave, and however
\* often the rings wrap, the commands that OnEvent finds through the pointers
\* of the events are the ones that were pushed, each once and in that order:
\* none is read before it is complete, twice, or after it was overwritten.
AnsweredInOrder == Queue!Spec

\* No command is stuck: as long as some are under way, one more is answered
\* in the end.  It takes the cycle bits of both rings to turn at the right
\* entry, and the doorbell to ring after the entry is valid.
KeepsAnswering == [](UnderWay > 0 => <>(pc = "OnEvent" /\ issuer # {}))

=============================================================================
