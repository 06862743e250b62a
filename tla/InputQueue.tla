------------------------------ MODULE InputQueue ------------------------------
(***************************************************************************)
(* The raw-input queue (kernel/src/device/input): interrupt handlers put    *)
(* records of two devices into a bounded ring, one bound consumer drains    *)
(* it with READ_BATCH, and what did not fit, or what a consumer left        *)
(* unread when it exited, is reported by an Overflow record.  Everything    *)
(* runs with interrupts masked, so each operation is one action.  Button    *)
(* and wheel records are queued as keys are; times are left out.            *)
(***************************************************************************)
EXTENDS Integers, Sequences

CONSTANTS
  QueueDepth,     \* RAW_INPUT_QUEUE_DEPTH
  HighWater,      \* RAW_INPUT_COALESCE_HIGH_WATER
  MaxDeviceGen,   \* MAX_DEVICE_GENERATION, after which generations start over
  MaxEvents       \* bound on what the devices produce

ASSUME InputAssumption ==
  /\ {QueueDepth, HighWater, MaxDeviceGen, MaxEvents} \subseteq Nat \ {0}
  /\ HighWater <= QueueDepth

VARIABLES
  input,   \* InputState: the ring, the pending loss, the devices and the consumer
  log,     \* history: what the devices produced or lost, in order, until it is read
  seen     \* history: how far the records read reach, and the seq of the last

inputVars == <<input, log, seen>>

Keyboard == "keyboard"
Mouse == "mouse"
Devices == {Keyboard, Mouse}
KindOf(d) == IF d = Keyboard THEN "Key" ELSE "RelMotion"

NoDevice == [index |-> "none", gen |-> 0]
Lesser(a, b) == IF a <= b THEN a ELSE b
DeviceId(q, d) == [index |-> d, gen |-> q.gens[d]]

-----------------------------------------------------------------------------
(* RawInputQueue.  A record stands for the events from .. to of the log, and an
   Overflow for those lost; the pending loss starts at event lostFrom. *)

(* push_record, of an event or of the pending loss *)
PushRecord(q, id, kind, from, to, dropped) ==
  [q EXCEPT
     !.ring = Append(@, [seq |-> q.nextSeq, device |-> id, kind |-> kind,
                         from |-> from, to |-> to, dropped |-> dropped]),
     !.nextSeq = @ + 1]

NoLoss(q) == [q EXCEPT !.dropped = 0, !.first = NoDevice, !.lostFrom = 0]

(* Lose n records of events from the given one on. *)
Lose(q, n, id, from) ==
  [q EXCEPT !.dropped = @ + n, !.first = IF @ = NoDevice THEN id ELSE @,
            !.lostFrom = IF @ = 0 THEN from ELSE Lesser(@, from)]

(* Mutation: the loss is only reported once the ring has been emptied. *)
MaterializeLate(q, to) ==
  IF q.dropped > 0 /\ q.ring = << >>
    THEN PushRecord(NoLoss(q), q.first, "Overflow", q.lostFrom, to, q.dropped) ELSE q

(* materialize_pending_overflow, when the last event was the given one *)
Materialize(q, to) ==
  IF q.dropped > 0 /\ Len(q.ring) < QueueDepth
    THEN PushRecord(NoLoss(q), q.first, "Overflow", q.lostFrom, to, q.dropped) ELSE q

(* push, of event n: merged into the last record, appended or dropped *)
Coalesces(q, id, kind) ==
  /\ kind = "RelMotion" /\ q.dropped = 0 /\ Len(q.ring) >= HighWater
  /\ q.ring[Len(q.ring)].device = id /\ q.ring[Len(q.ring)].kind = "RelMotion"

Push(q, id, kind, n) ==
  LET m == Materialize(q, n - 1)
  IN  IF Coalesces(m, id, kind) THEN [m EXCEPT !.ring[Len(m.ring)].to = n]
      ELSE IF Len(m.ring) < QueueDepth THEN PushRecord(m, id, kind, n, n, 0)
      ELSE Lose(m, 1, id, n)

(* clear_into_loss: what is unread becomes part of the pending loss. *)
ClearIntoLoss(q) ==
  IF q.ring = << >> THEN q
  ELSE [Lose(q, Len(q.ring), q.ring[1].device, q.ring[1].from) EXCEPT !.ring = << >>]

(* pop, repeated: all records of the ring and then the pending loss *)
Unread(q) ==
  (IF q.dropped > 0 THEN PushRecord(q, q.first, "Overflow", q.lostFrom, Len(log), q.dropped)
   ELSE q).ring

AfterPops(q, k) ==
  IF k <= Len(q.ring) THEN [q EXCEPT !.ring = SubSeq(@, k + 1, Len(@))]
  ELSE NoLoss([q EXCEPT !.ring = << >>, !.nextSeq = @ + 1])

-----------------------------------------------------------------------------
(* The callbacks of the driver (QueueSink), in an interrupt *)
Produces(event) == Len(log) < MaxEvents /\ log' = Append(log, event)

InputRecord(d) ==
  /\ input.present[d]
  /\ Produces(KindOf(d))
  /\ input' = Push(input, DeviceId(input, d), KindOf(d), Len(log'))
  /\ UNCHANGED seen

InputLoss(d) ==
  /\ input.present[d]
  /\ Produces("Loss")
  /\ input' = Lose(input, 1, DeviceId(input, d), Len(log'))
  /\ UNCHANGED seen

NextGeneration(g) == IF g >= MaxDeviceGen THEN 1 ELSE g + 1

(* publish: a device that appears gets a new generation. *)
Publish(q, d, present) ==
  [q EXCEPT !.present[d] = present, !.gens[d] = IF present THEN NextGeneration(@) ELSE @]

(* device_lost: the loss is queued under the old generation. *)
DeviceLost(d) ==
  /\ input.present[d]
  /\ Produces("Loss")
  /\ input' = Publish(Lose(input, 1, DeviceId(input, d), Len(log')), d, FALSE)
  /\ UNCHANGED seen

(* device_ready, after the init program of a device that was absent or lost *)
DeviceReady(d) ==
  /\ ~input.present[d]
  /\ input' = Publish(input, d, TRUE)
  /\ UNCHANGED <<log, seen>>

(* ConsumerSlot::bind: the first reader is bound as the consumer. *)
CanBind(p) == input.consumer \subseteq {p}

(* READ_BATCH of up to n records *)
ReadBatch(p, n) ==
  /\ CanBind(p)
  /\ LET unread == Unread(input)
         k == Lesser(n, Len(unread))
     IN  /\ input' = [AfterPops(input, k) EXCEPT !.consumer = {p}]
         /\ seen' = IF k = 0 THEN seen ELSE [upto |-> unread[k].to, seq |-> unread[k].seq]
  /\ log' = [e \in DOMAIN log |-> IF e <= seen'.upto THEN "Read" ELSE log[e]]

(* The teardown hook InputConsumer: release_consumer_for_holder.  The next
   consumer has read nothing yet. *)
ReleaseConsumer(p) ==
  /\ IF input.consumer = {p}
       THEN /\ input' = [ClearIntoLoss(input) EXCEPT !.consumer = {}]
            /\ seen' = [seen EXCEPT !.seq = 0]
       ELSE UNCHANGED <<input, seen>>
  /\ UNCHANGED log

InputInit ==
  /\ input = [ring |-> << >>, nextSeq |-> 1, dropped |-> 0, first |-> NoDevice, lostFrom |-> 0,
              gens |-> [d \in Devices |-> 0], present |-> [d \in Devices |-> FALSE],
              consumer |-> {}]
  /\ log = << >> /\ seen = [upto |-> 0, seq |-> 0]

InputStep(readers) ==
  \/ \E d \in Devices : InputRecord(d) \/ InputLoss(d) \/ DeviceLost(d) \/ DeviceReady(d)
  \/ \E p \in readers, n \in 1 .. QueueDepth : ReadBatch(p, n)

-----------------------------------------------------------------------------
(* Properties. *)

(* Whoever reads next gets, in the order in which the devices produced them,
   every event that nobody has read: a key by itself, motions only merged with
   motions, and what was lost (in a full ring, in the device, or with a consumer
   that exited) within one Overflow that comes after everything older and before
   everything newer, so that no state held from before a loss survives it.  A
   consumer sees sequence numbers without a gap. *)
LossesInOrder ==
  LET unread == Unread(input)
  IN  /\ \A i \in 1 .. Len(unread) :
           LET r == unread[i]
           IN  /\ r.from = 1 + (IF i = 1 THEN seen.upto ELSE unread[i - 1].to)
               /\ IF r.kind = "Overflow"
                    THEN r.device # NoDevice /\ r.dropped \in 1 .. r.to - r.from + 1
                    ELSE /\ \A e \in r.from .. r.to : log[e] = r.kind
                         /\ r.kind = "Key" => r.from = r.to
               /\ i > 1 => r.seq = unread[i - 1].seq + 1
      /\ (IF unread = << >> THEN seen.upto ELSE unread[Len(unread)].to) = Len(log)
      /\ unread # << >> /\ seen.seq # 0 => unread[1].seq = seen.seq + 1
      /\ Len(input.ring) <= QueueDepth
=============================================================================
