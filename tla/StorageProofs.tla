---------------------------- MODULE StorageProofs ----------------------------
(* The shared descriptors are never overwritten under the device, and the newest
   acknowledged write is kept as far as AcknowledgedKept says, for any number of
   clients, slots, requests and service instances. *)
EXTENDS Storage, TLAPS

(* Zenon proves a leaf unless it cites SMT; either has thirty seconds. *)
USE ZenonT(30)

(* The driver knows of what the device holds: while the device owns the
   descriptors, or has posted a completion nobody took, the queue is busy or
   poisoned.  A completion is posted only when the descriptors are given back. *)
BridgeInv ==
  /\ driver \in [busy : BOOLEAN, poisoned : BOOLEAN]
  /\ DOMAIN device = {"owned", "used", "irq"} /\ device.owned \in BOOLEAN
  /\ device.owned => device.used = Nothing
  /\ device.owned \/ device.used # Nothing => driver.busy \/ driver.poisoned

(* The bridge starts with an idle device. *)
LEMMA BridgeInitInv == Init => BridgeInv
  BY SMTT(30) DEF Init, BridgeInit, BridgeInv

(* Whatever the service asks for, a request is submitted only once the device
   has given the descriptors back and its completion was taken. *)
LEMMA SubmitInv ==
  ASSUME BridgeInv, NEW c, NEW r, NEW live, SubmitBlock(c, r, live)
  PROVE  ~device.owned /\ BridgeInv'
  <1>1. QueueAvailable(Cleared(c, live))
    BY DEF SubmitBlock
  <1>2. ~device.owned
    <2>1. CASE inFlight = Nothing
      <3>1. Cleared(c, live) = driver
        BY <2>1 DEF Cleared, Drains, Orphaned
      <3> QED BY <1>1, <3>1 DEF QueueAvailable, BridgeInv
    <2>2. CASE inFlight # Nothing /\ Drains(c, live)
      BY <2>2 DEF Drains, Completed, BridgeInv
    <2>3. CASE inFlight # Nothing /\ ~Drains(c, live)
      <3>1. Cleared(c, live) = Abandoned
        BY <2>3 DEF Cleared
      <3> QED BY <1>1, <3>1, SMTT(30) DEF Abandoned, QueueAvailable, BridgeInv
    <2> QED BY <2>1, <2>2, <2>3
  <1>3. UsedAfter(c, live) = Nothing
    <2>1. CASE Drains(c, live)
      BY <2>1 DEF UsedAfter
    <2>2. CASE ~Drains(c, live) /\ inFlight = Nothing
      BY <1>1, <2>2 DEF Cleared, QueueAvailable, UsedAfter, BridgeInv
    <2>3. CASE ~Drains(c, live) /\ inFlight # Nothing
      <3>1. Cleared(c, live) = Abandoned
        BY <2>3 DEF Cleared
      <3> QED BY <1>1, <2>3, <3>1, SMTT(30) DEF Abandoned, QueueAvailable, UsedAfter, BridgeInv
    <2> QED BY <2>1, <2>2, <2>3
  <1>4. Cleared(c, live) \in [busy : BOOLEAN, poisoned : BOOLEAN]
    BY DEF Cleared, Taken, Abandoned, BridgeInv
  <1> QED BY <1>2, <1>3, <1>4 DEF SubmitBlock, Submitted, BridgeInv

(* A request that ends at once drains or abandons what was in flight. *)
LEMMA RespondInv ==
  ASSUME BridgeInv, NEW c, NEW r, NEW live, NEW status, Respond(c, r, live, status)
  PROVE  BridgeInv' /\ UNCHANGED descriptor
  <1>1. CASE inFlight = Nothing
    <2>1. driver' = driver /\ UsedAfter(c, live) = device.used
      BY <1>1 DEF Respond, Cleared, UsedAfter, Drains, Orphaned
    <2> QED BY <2>1 DEF Respond, BridgeInv
  <1>2. CASE inFlight # Nothing /\ Drains(c, live)
    BY <1>2 DEF Respond, Cleared, UsedAfter, Taken, Drains, Completed, BridgeInv
  <1>3. CASE inFlight # Nothing /\ ~Drains(c, live)
    BY <1>3 DEF Respond, Cleared, UsedAfter, Abandoned, BridgeInv
  <1> QED BY <1>1, <1>2, <1>3

(* Every step keeps the invariant and leaves descriptors alone that the device owns. *)
LEMMA BridgeStep ==
  ASSUME BridgeInv, [Next]_vars
  PROVE  BridgeInv' /\ (device.owned => UNCHANGED descriptor)
  <1>1. ASSUME UNCHANGED bridgeVars
        PROVE  BridgeInv' /\ (device.owned => UNCHANGED descriptor)
    BY <1>1 DEF bridgeVars, BridgeInv
  <1>2. CASE BlockCall
    <2>1. PICK status \in {"Ok", "Fault"} :
            \/ Harvest(service.gen, Head(service.commands), status)
            \/ GiveUp(service.gen, Head(service.commands), status)
            \/ Respond(service.gen, Head(service.commands), Live, status)
      BY <1>2 DEF BlockCall
    <2>2. CASE Harvest(service.gen, Head(service.commands), status)
      BY <2>2 DEF Harvest, Completed, Taken, BridgeInv
    <2>3. CASE GiveUp(service.gen, Head(service.commands), status)
      BY <2>3 DEF GiveUp, Abandoned, BridgeInv
    <2>4. CASE Respond(service.gen, Head(service.commands), Live, status)
      BY <2>4, RespondInv
    <2> QED BY <2>1, <2>2, <2>3, <2>4
  <1>3. CASE BlockStart
    BY <1>3, SubmitInv DEF BlockStart
  <1>4. CASE DeviceStep
    BY <1>4, SMTT(30) DEF DeviceStep, DeviceCompletes, BridgeInv
  <1>5. CASE InterruptStep
    BY <1>5 DEF InterruptStep, Interrupt, BridgeInv
  <1>6. CASE DeadlineStep
    BY <1>6 DEF DeadlineStep, DeadlinePasses, BridgeInv
  <1>7. CASE BlockWait \/ ServiceNext \/ ServiceWait \/ ExecuteRead \/ ExecuteWrite \/ Complete
    BY <1>1, <1>7 DEF BlockWait, ServiceNext, ServiceWait, ExecuteRead, ExecuteWrite, Complete
  <1>8. CASE StartService \/ Crash
    BY <1>1, <1>8 DEF StartService, Crash
  <1>9. ASSUME NEW c \in Clients, ClientStep(c)
        PROVE  BridgeInv' /\ (device.owned => UNCHANGED descriptor)
    BY <1>1, <1>9 DEF ClientStep, ClientSubmit, ClientPoll, ClientExit
  <1>10. CASE UNCHANGED vars
    BY <1>1, <1>10 DEF vars
  <1> QED BY <1>2, <1>3, <1>4, <1>5, <1>6, <1>7, <1>8, <1>9, <1>10 DEF Next, ServiceStep

(* While the device owns the shared descriptors nothing is written to them: an
   abandoned request poisons the queue for good (abandon_in_flight,
   ensure_queue_available), and a new one waits for the completion. *)
THEOREM DescriptorsStableCorrect == Spec => DescriptorsStable
  <1>1. BridgeInv /\ [Next]_vars => BridgeInv'
    BY BridgeStep
  <1>2. BridgeInv /\ [Next]_vars => [device.owned => UNCHANGED descriptor]_vars
    BY BridgeStep
  <1> QED BY BridgeInitInv, <1>1, <1>2, PTL DEF Spec, DescriptorsStable

-----------------------------------------------------------------------------
(* Acknowledged writes: an invariant on top of BridgeInv. *)

Fields == {"gen", "pc", "waits", "commands", "store", "candidates", "failed", "slot", "status"}

(* The device still has a write to carry out. *)
Writing == device.owned /\ descriptor.op \in {"superblock", "payloads"}

(* What request r, once carried out, has left on the medium. *)
Effect(r) ==
  /\ r.op = "superblock" => media[r.slot].generation = r.generation /\ media[r.slot].objects = r.objects
  /\ r.op = "payloads" => media[r.slot].payloads = Payloads(r.objects)

MediaInv ==
  /\ media = [s \in StoreSlots |-> media[s]]
  /\ \A s \in StoreSlots : media[s].generation \in Int
  /\ Writing => descriptor.slot \in StoreSlots /\ descriptor.generation \in Int

(* A request in flight is the one in the descriptors, on a queue that is not
   poisoned, and once it succeeded its effect is on the medium. *)
InFlightInv ==
  inFlight # Nothing =>
    /\ driver.busy /\ ~driver.poisoned /\ descriptor = inFlight.request
    /\ ~device.owned /\ device.used = "ok" => Effect(inFlight.request)

MountCommands ==
  {<<Geometry, ReadSuperblock(0), ReadSuperblock(1)>>, <<ReadSuperblock(0), ReadSuperblock(1)>>,
   <<ReadSuperblock(1)>>}

FormatCommands ==
  {<<Geometry, WriteSuperblock(0, 0, {}), WriteSuperblock(1, 0, {}), Flush>>,
   <<WriteSuperblock(0, 0, {}), WriteSuperblock(1, 0, {}), Flush>>}
FormatRest == {<<WriteSuperblock(1, 0, {}), Flush>>, <<Flush>>}

NewSuperblock == WriteSuperblock(NextSlot, NextGeneration, service.store.objects)

CommitCommands ==
  {<<WritePayloads(NextSlot, service.store.objects), NewSuperblock, Flush>>, <<NewSuperblock, Flush>>, <<Flush>>}

(* What the service has still to ask of the device at each stage. *)
StageInv ==
  /\ DOMAIN service = Fields
  /\ service.pc \in {"stopped", "mount", "load", "format", "next", "execute", "commit", "complete"}
  /\ service.candidates \subseteq StoreSlots
  /\ service.pc = "mount" => service.commands \in MountCommands
  /\ service.pc = "load" => \E s \in service.candidates : service.commands = <<ReadPayloads(s)>>
  /\ service.pc = "format" => service.commands \in FormatCommands \cup FormatRest
  /\ service.pc = "commit" => service.commands \in CommitCommands
  /\ service.pc \in {"stopped", "next", "execute", "complete"} => service.commands = <<>>

(* A mount has candidates once the device has no write left. *)
MountInv ==
  /\ service.pc \in {"mount", "load"} /\ service.candidates # {} =>
       ~Writing /\ \A s \in service.candidates : Decodes(s)
  /\ service.pc = "mount" /\ service.commands = <<ReadSuperblock(1)>> /\ ~service.failed =>
       ~Writing /\ (Decodes(0) => 0 \in service.candidates)
  /\ service.pc = "load" /\ ~service.failed =>
       \A s \in StoreSlots : Decodes(s) /\ Loadable(s) => s \in service.candidates
  /\ service.pc = "load" =>
       \E s \in service.candidates :
         service.commands = <<ReadPayloads(s)>> /\ \A t \in service.candidates : Preferred(s, t)
  /\ service.pc = "format" => acked = 0 \/ passedOver
  /\ service.pc = "format" /\ service.commands \in FormatRest =>
       /\ media[0].generation = 0 /\ media[0].objects = {}
       /\ Writing => descriptor.slot # 0

Serves == service.pc \in {"next", "execute", "commit", "complete"}

ServeInv ==
  Serves =>
    LET a == service.store.active
    IN  /\ a \in StoreSlots /\ service.store.generation \in Nat
        /\ media[a].generation = service.store.generation /\ Loadable(a)
        /\ Writing => descriptor.slot # a

Latest(objects) == \E e \in objects : e.at = writes

CommitInv ==
  LET objects == service.store.objects
  IN  /\ service.pc = "commit" => Latest(objects)
      /\ service.pc = "commit" /\ service.commands \in {<<NewSuperblock, Flush>>, <<Flush>>} =>
           /\ media[NextSlot].payloads = Payloads(objects)
           /\ device.owned => descriptor.op # "payloads"
      /\ service.pc = "commit" /\ service.commands = <<Flush>> =>
           media[NextSlot].generation = NextGeneration /\ media[NextSlot].objects = objects /\ ~Writing
      /\ service.pc = "complete" /\ service.slot.op = "write" /\ service.status = "Ok" =>
           /\ ~device.owned /\ Latest(objects) /\ media[service.store.active].objects = objects
           /\ media[NextSlot].generation < service.store.generation

Secured(k) ==
  /\ Decodes(k) /\ Loadable(k)
  /\ Writing => descriptor.slot # k
  /\ device.owned /\ descriptor.op = "superblock" => Kept(descriptor.objects)
  /\ \A t \in StoreSlots : Preferred(t, k) => Kept(media[t].objects)

KeptInv ==
  acked > 0 /\ ~passedOver =>
    /\ \E k \in StoreSlots : Secured(k)
    /\ Serves => Secured(service.store.active) /\ Kept(service.store.objects)

QueueInv ==
  /\ slots = [i \in SlotIndices |-> slots[i]]
  /\ nextRequest \in Nat \ {0}
  /\ \A r \in answered : r \in 1 .. nextRequest - 1
  /\ \A i \in SlotIndices :
       /\ DOMAIN slots[i] = {"state", "client", "id", "op", "object", "status"}
       /\ slots[i].id \in 0 .. nextRequest - 1
       /\ slots[i].id \in answered => slots[i].state = "Done"
       /\ slots[i].id = 0 => slots[i].state = "Free"
       /\ \A j \in SlotIndices : slots[i].id = slots[j].id => i = j \/ slots[i].id = 0
  /\ service.pc \in {"execute", "commit", "complete"} =>
       service.slot.id \in 1 .. nextRequest - 1 /\ service.slot.id \notin answered

StoreInv ==
  /\ acked \in Nat /\ writes \in Nat /\ acked <= writes /\ passedOver \in BOOLEAN
  /\ MediaInv /\ InFlightInv /\ StageInv /\ MountInv /\ ServeInv /\ CommitInv /\ KeptInv /\ QueueInv

(* One to four commands: the first one, the others and their number. *)
LEMMA Sequences ==
  /\ \A a : Head(<<a>>) = a /\ Tail(<<a>>) = <<>> /\ Len(<<a>>) = 1 /\ <<a>> # <<>>
  /\ \A a, b : Head(<<a, b>>) = a /\ Tail(<<a, b>>) = <<b>> /\ Len(<<a, b>>) = 2 /\ <<a, b>> # <<>>
  /\ \A a, b, c : Head(<<a, b, c>>) = a /\ Tail(<<a, b, c>>) = <<b, c>> /\ Len(<<a, b, c>>) = 3
  /\ \A a, b, c, d : Head(<<a, b, c, d>>) = a /\ Tail(<<a, b, c, d>>) = <<b, c, d>> /\ Len(<<a, b, c, d>>) = 4
  BY SMTT(30)

(* Sequences of different lengths differ. *)
LEMMA Lengths ==
  /\ \A a, b, c : <<a, b>> # <<c>>
  /\ \A a, b, c, d : <<a, b, c>> # <<d>>
  /\ \A a, b, c, d, e : <<a, b, c>> # <<d, e>>
  /\ \A a, b, c, d, e : <<a, b, c, d>> # <<e>>
  /\ \A a, b, c, d, e, f : <<a, b, c, d>> # <<e, f>>
  OBVIOUS

(* What the commands ask for. *)
LEMMA Operations ==
  /\ Geometry.op = "geometry" /\ Flush.op = "flush"
  /\ \A s : ReadSuperblock(s).op = "readSuperblock" /\ ReadSuperblock(s).slot = s
  /\ \A s : ReadPayloads(s).op = "readPayloads" /\ ReadPayloads(s).slot = s
  /\ \A s, g, T : LET r == WriteSuperblock(s, g, T)
                  IN  r.op = "superblock" /\ r.slot = s /\ r.generation = g /\ r.objects = T
  /\ \A s, T : LET r == WritePayloads(s, T)
               IN  r.op = "payloads" /\ r.slot = s /\ r.generation = 0 /\ r.objects = T
  BY DEF Geometry, ReadSuperblock, ReadPayloads, WriteSuperblock, WritePayloads, Flush, Request

(* The other slot. *)
LEMMA OtherSlot ==
  ASSUME NEW a \in StoreSlots
  PROVE  (a + 1) % 2 \in StoreSlots /\ (a + 1) % 2 # a /\ \A t \in StoreSlots : t = a \/ t = (a + 1) % 2
  BY SMTT(30) DEF StoreSlots

(* What a request leaves on the medium: nothing but its own slot changes. *)
LEMMA StoredFacts ==
  ASSUME NEW m, m = [s \in StoreSlots |-> m[s]], NEW r, r.slot \in StoreSlots
  PROVE  LET n == Stored(m, r)
         IN  /\ n = [s \in StoreSlots |-> n[s]]
             /\ \A t \in StoreSlots : t # r.slot => n[t] = m[t]
             /\ r.op = "superblock" =>
                  /\ n[r.slot].generation = r.generation /\ n[r.slot].objects = r.objects
                  /\ n[r.slot].payloads = m[r.slot].payloads
             /\ r.op = "payloads" =>
                  /\ n[r.slot].generation = m[r.slot].generation /\ n[r.slot].objects = m[r.slot].objects
                  /\ n[r.slot].payloads = Payloads(r.objects)
  <1>1. CASE r.op = "superblock"
    BY <1>1 DEF Stored
  <1>2. CASE r.op = "payloads"
    BY <1>2 DEF Stored
  <1>3. CASE r.op \notin {"superblock", "payloads"}
    BY <1>3 DEF Stored
  <1> QED BY <1>1, <1>2, <1>3

(* Other requests leave nothing. *)
LEMMA StoredNothing ==
  ASSUME NEW m, NEW r, r.op \notin {"superblock", "payloads"}
  PROVE  Stored(m, r) = m
  BY DEF Stored

(* The medium and what the device holds are as they were. *)
SameMedium == media' = media /\ descriptor' = descriptor /\ device'.owned = device.owned
SameHistory == writes' = writes /\ acked' = acked /\ answered' = answered

(* What is secured stays so. *)
LEMMA SecuredSame ==
  ASSUME SameMedium, acked' = acked, answered' = answered, NEW k, Secured(k)
  PROVE  Secured(k)'
  BY DEF SameMedium, Secured, Writing, Decodes, Loadable, Preferred, Kept

(* A mount that finds the newest table finds a secured one. *)
LEMMA NewestSecured ==
  ASSUME MediaInv, NEW k \in StoreSlots, Secured(k), NEW s \in StoreSlots, Newest(s), ~Writing
  PROVE  Secured(s)
  <1>1. Preferred(s, k)
    BY DEF Newest, Secured
  <1>2. ASSUME NEW t \in StoreSlots, Preferred(t, s) PROVE Preferred(t, k)
    <2>1. /\ media[t].generation \in Int /\ media[s].generation \in Int /\ media[k].generation \in Int
          /\ t \in Int /\ s \in Int /\ k \in Int
      BY SMTT(30) DEF MediaInv, StoreSlots
    <2> QED BY <1>1, <1>2, <2>1, SMTT(30) DEF Preferred
  <1>3. device.owned => descriptor.op # "superblock"
    BY DEF Writing
  <1> QED BY <1>2, <1>3 DEF Secured, Newest

(* The table a mount takes when it can read everything is a kept one, and there is one. *)
LEMMA SecuredNewest ==
  ASSUME MediaInv, NEW k \in StoreSlots, Secured(k)
  PROVE  /\ \E s \in StoreSlots : Newest(s)
         /\ \A s \in StoreSlots : Newest(s) => Kept(media[s].objects)
  <1>1. \A s \in StoreSlots : Newest(s) => Preferred(s, k)
    BY DEF Newest, Secured
  <1>2. \A s, t \in StoreSlots : Preferred(s, t) \/ Preferred(t, s)
    BY SMTT(30) DEF MediaInv, StoreSlots, Preferred
  <1>3. \A s \in StoreSlots : Preferred(s, s)
    BY SMTT(30) DEF StoreSlots, Preferred
  <1>0. PICK o : o = 1 - k
    OBVIOUS
  <1>4. o \in StoreSlots /\ \A t \in StoreSlots : t = k \/ t = o
    BY <1>0, SMTT(30) DEF StoreSlots
  <1>5. Newest(o) \/ Newest(k)
    <2>1. CASE Decodes(o) /\ Loadable(o) /\ Preferred(o, k)
      BY <1>3, <1>4, <2>1 DEF Newest
    <2>2. CASE ~(Decodes(o) /\ Loadable(o) /\ Preferred(o, k))
      BY <1>2, <1>3, <1>4, <2>2 DEF Newest, Secured
    <2> QED BY <2>1, <2>2
  <1> QED BY <1>1, <1>4, <1>5 DEF Secured

(* The service is where it was; it may have been woken or have gone to sleep. *)
SameStage ==
  /\ DOMAIN service' = Fields
  /\ service'.pc = service.pc /\ service'.commands = service.commands
  /\ service'.store = service.store /\ service'.slot = service.slot /\ service'.status = service.status
  /\ service'.candidates = service.candidates /\ service'.failed = service.failed

(* Sleeping and waking leave the stage alone. *)
LEMMA WaitsOnly ==
  ASSUME StageInv, NEW w, service' = [service EXCEPT !.waits = w] \/ service' = service
  PROVE  SameStage
  BY DEF StageInv, SameStage, Fields

(* Steps that leave the queue alone keep it in order, unless a request is taken up. *)
LEMMA QueueSame ==
  ASSUME QueueInv, UNCHANGED queueVars, answered' = answered,
         \/ service'.pc \notin {"execute", "commit", "complete"}
         \/ service.pc \in {"execute", "commit", "complete"} /\ service'.slot = service.slot
  PROVE  QueueInv'
  BY DEF QueueInv, queueVars

(* Steps that change neither the stage of the service nor what is stored. *)
LEMMA QuietStore ==
  ASSUME StoreInv, SameStage, InFlightInv', SameMedium, SameHistory, passedOver' = passedOver, QueueInv'
  PROVE  StoreInv'
  <1>1. MediaInv'
    BY DEF StoreInv, MediaInv, Writing, SameMedium
  <1>2. StageInv'
    BY DEF StoreInv, StageInv, SameStage, CommitCommands, NewSuperblock, NextSlot, NextGeneration
  <1>3. MountInv'
    BY DEF StoreInv, MountInv, SameStage, SameMedium, SameHistory, Writing, Decodes, Loadable, Preferred
  <1>4. ServeInv'
    BY DEF StoreInv, ServeInv, Serves, SameStage, SameMedium, Writing, Loadable
  <1>5. CommitInv'
    BY DEF StoreInv, CommitInv, SameStage, SameMedium, SameHistory, Writing, Latest, NewSuperblock, NextSlot, NextGeneration
  <1>6. KeptInv'
    <2> SUFFICES ASSUME acked > 0, ~passedOver
                 PROVE  (\E k \in StoreSlots : Secured(k))' /\ (Serves => Secured(service.store.active) /\ Kept(service.store.objects))'
      BY DEF KeptInv, SameHistory
    <2>1. (\E k \in StoreSlots : Secured(k)) /\ (Serves => Secured(service.store.active) /\ Kept(service.store.objects))
      BY DEF StoreInv, KeptInv
    <2>2. \A k : Secured(k) => Secured(k)'
      BY SecuredSame DEF SameHistory
    <2>3. (\E k \in StoreSlots : Secured(k))'
      BY <2>1, <2>2
    <2>4. Serves' => (Secured(service.store.active) /\ Kept(service.store.objects))'
      BY <2>1 DEF Serves, SameStage, SameMedium, SameHistory, Secured, Writing, Decodes, Loadable, Preferred, Kept
    <2> QED BY <2>3, <2>4
  <1> QED BY <1>1, <1>2, <1>3, <1>4, <1>5, <1>6 DEF StoreInv, SameHistory

(* The start. *)
LEMMA StoreInitInv == Init => StoreInv
  <1> SUFFICES ASSUME Init PROVE StoreInv
    OBVIOUS
  <1>1. InFlightInv /\ MediaInv
    BY SMTT(30) DEF Init, BridgeInit, InFlightInv, MediaInv, Writing, Blank
  <1>2. /\ DOMAIN service = Fields /\ service.pc = "stopped" /\ service.commands = <<>>
        /\ service.candidates = {}
    BY DEF Init, Stopped, Fields
  <1>3. StageInv /\ MountInv /\ ServeInv /\ CommitInv
    BY <1>2 DEF StageInv, MountInv, ServeInv, Serves, CommitInv
  <1>4. QueueInv
    BY <1>2, SMTT(30) DEF Init, QueueInit, QueueInv, FreeSlot
  <1>5. passedOver \in BOOLEAN
    BY DEF Init
  <1> QED BY <1>1, <1>3, <1>4, <1>5, SMTT(30) DEF Init, StoreInv, KeptInv

(* An answered block request: nothing is in flight any more, and one that went well
   needed no device or is the completed one. *)
LEMMA AnswerFacts ==
  ASSUME BridgeInv, InFlightInv, NEW c, NEW r, NEW live, NEW status,
         Harvest(c, r, status) \/ GiveUp(c, r, status) \/ Respond(c, r, live, status)
  PROVE  /\ inFlight' = Nothing /\ SameMedium
         /\ status = "Ok" /\ r.op # "geometry" => ~device.owned /\ Effect(r)
  <1>1. CASE Harvest(c, r, status)
    <2>1. /\ inFlight # Nothing /\ inFlight.request = r /\ device.used # Nothing
          /\ status = CompletionStatus
      BY <1>1 DEF Harvest, Resuming, Completed
    <2>2. ~device.owned
      BY <2>1 DEF BridgeInv
    <2>3. status = "Ok" => device.used = "ok"
      BY <2>1 DEF CompletionStatus
    <2> QED BY <1>1, <2>1, <2>2, <2>3 DEF Harvest, InFlightInv, BridgeInv, SameMedium
  <1>2. CASE GiveUp(c, r, status)
    BY <1>2 DEF GiveUp, SameMedium
  <1>3. CASE Respond(c, r, live, status)
    BY <1>3 DEF Respond, BridgeInv, SameMedium
  <1> QED BY <1>1, <1>2, <1>3

(* A service that does not serve: only the medium matters. *)
LEMMA OffStage ==
  ASSUME KeptInv, SameMedium, acked' = acked, answered' = answered, passedOver' = passedOver,
         service'.pc \in {"stopped", "mount", "load", "format"}
  PROVE  ServeInv' /\ CommitInv' /\ KeptInv'
  <1>1. ~Serves' /\ ServeInv' /\ CommitInv'
    BY DEF Serves, ServeInv, CommitInv
  <1>2. \A k : Secured(k) => Secured(k)'
    BY SecuredSame
  <1>3. KeptInv'
    BY <1>1, <1>2 DEF KeptInv
  <1> QED BY <1>1, <1>3

(* The service stops. *)
LEMMA StopStore ==
  ASSUME StoreInv, SameMedium, SameHistory, passedOver' = passedOver, service' = Stopped(service.gen)
  PROVE  StageInv' /\ MountInv' /\ ServeInv' /\ CommitInv' /\ KeptInv'
  <1>1. /\ DOMAIN service' = Fields /\ service'.pc = "stopped" /\ service'.commands = <<>>
        /\ service'.candidates = {}
    BY DEF Stopped, Fields
  <1>2. StageInv' /\ MountInv'
    BY <1>1 DEF StageInv, MountInv
  <1> QED BY <1>1, <1>2, OffStage DEF StoreInv, SameHistory

(* A mount that takes slot s: a read has failed, and it may pass over a newer table, or s
   is the newest, and it serves what is secured. *)
LEMMA MountedStore ==
  ASSUME StoreInv, SameMedium, SameHistory, NEW s \in StoreSlots, Decodes(s), Loadable(s), ~Writing,
         service.pc \in {"mount", "load"}, service' = Mounted(s),
         NEW status, passedOver' = (passedOver \/ PassesOver(status)),
         service.failed \/ status # "Ok" \/ Newest(s)
  PROVE  StageInv' /\ MountInv' /\ ServeInv' /\ CommitInv' /\ KeptInv'
  <1>0. DOMAIN service = Fields
    BY DEF StoreInv, StageInv
  <1>1. PICK store : store = [generation |-> media[s].generation, active |-> s, objects |-> media[s].objects]
    OBVIOUS
  <1>2. /\ DOMAIN service' = Fields /\ service'.pc = "next" /\ service'.commands = <<>>
        /\ service'.candidates = {} /\ service'.store = store
    BY <1>0, <1>1 DEF Mounted, Serving, Fields
  <1>3. store.generation = media[s].generation /\ store.active = s /\ store.objects = media[s].objects
    BY <1>1
  <1>4. StageInv' /\ MountInv' /\ CommitInv'
    BY <1>2 DEF StageInv, MountInv, CommitInv
  <1>5. ServeInv'
    <2>1. store.generation \in Nat
      BY <1>3, SMTT(30) DEF StoreInv, MediaInv, Decodes
    <2> QED BY <1>2, <1>3, <2>1 DEF ServeInv, SameMedium, Writing, Loadable
  <1>6. KeptInv'
    <2> SUFFICES ASSUME acked > 0, ~passedOver, ~PassesOver(status)
                 PROVE  Secured(s)' /\ Kept(media[s].objects)'
      BY <1>2, <1>3 DEF KeptInv, SameHistory, SameMedium
    <2>1. Newest(s)
      BY <1>2, <1>3 DEF PassesOver
    <2>2. PICK k \in StoreSlots : Secured(k)
      BY DEF StoreInv, KeptInv
    <2>3. Secured(s)
      BY <2>1, <2>2, NewestSecured DEF StoreInv
    <2>4. Kept(media[s].objects)
      BY <2>1, <2>2, SecuredNewest DEF StoreInv
    <2> QED BY <2>3, <2>4, SecuredSame DEF SameHistory, SameMedium, Kept
  <1> QED BY <1>4, <1>5, <1>6

(* The candidate that is tried first. *)
LEMMA BestCandidate ==
  ASSUME MediaInv, NEW C, C \subseteq StoreSlots, C # {}
  PROVE  LET s == CHOOSE x \in C : \A y \in C : Preferred(x, y)
         IN  s \in C /\ \A y \in C : Preferred(s, y)
  <1>1. \A x, y \in StoreSlots : Preferred(x, y) \/ Preferred(y, x)
    BY SMTT(30) DEF MediaInv, StoreSlots, Preferred
  <1>2. \E x \in C : \A y \in C : Preferred(x, y)
    BY <1>1 DEF StoreSlots
  <1> QED BY <1>2

(* select_committed_state goes on: to a table, to the payloads of one, to a format, which
   there is no reason for once a write was acknowledged, or to an exit. *)
LEMMA SelectStore ==
  ASSUME StoreInv, SameMedium, SameHistory,
         NEW status, passedOver' = (passedOver \/ PassesOver(status)),
         service.pc \in {"mount", "load"},
         NEW C, C \subseteq StoreSlots, C # {} => ~Writing, \A s \in C : Decodes(s),
         NEW f \in BOOLEAN, f = (service.failed \/ status # "Ok"),
         ~f => \A s \in StoreSlots : Decodes(s) /\ Loadable(s) => s \in C,
         service' = Select(C, f)
  PROVE  StageInv' /\ MountInv' /\ ServeInv' /\ CommitInv' /\ KeptInv'
  <1>0. DOMAIN service = Fields
    BY DEF StoreInv, StageInv
  <1>1. PICK s : s = CHOOSE x \in C : \A y \in C : Preferred(x, y)
    OBVIOUS
  <1>2. C # {} => s \in C /\ \A t \in C : Preferred(s, t)
    BY <1>1, BestCandidate DEF StoreInv
  <1>3. passedOver' = passedOver \/ service'.pc = "next"
    BY DEF PassesOver, StoreInv
  <1>4. CASE C # {} /\ media[s].objects = {}
    <2>1. service' = Mounted(s)
      BY <1>1, <1>4 DEF Select
    <2>2. Loadable(s)
      BY <1>4 DEF Loadable, Payloads
    <2>3. ~f => Newest(s)
      BY <1>2, <1>4, <2>2 DEF Newest
    <2> QED BY <1>2, <1>4, <2>1, <2>2, <2>3, MountedStore
  <1>5. CASE C # {} /\ media[s].objects # {}
    <2>1. service' = [service EXCEPT !.pc = "load", !.commands = <<ReadPayloads(s)>>, !.candidates = C, !.failed = f]
      BY <1>1, <1>5 DEF Select
    <2>2. /\ DOMAIN service' = Fields /\ service'.pc = "load" /\ service'.commands = <<ReadPayloads(s)>>
          /\ service'.candidates = C /\ service'.failed = f
      BY <1>0, <2>1 DEF Fields
    <2>3. StageInv'
      BY <1>2, <1>5, <2>2 DEF StageInv
    <2>4. MountInv'
      BY <1>2, <1>5, <2>2 DEF MountInv, SameMedium, Writing, Decodes, Loadable, Preferred
    <2> QED BY <1>3, <2>2, <2>3, <2>4, OffStage DEF StoreInv, SameHistory
  <1>6. CASE C = {} /\ ~f /\ \E t \in StoreSlots : ~Decodes(t)
    <2>1. service' = [service EXCEPT !.pc = "format", !.candidates = {},
                 !.commands = <<Geometry, WriteSuperblock(0, 0, {}), WriteSuperblock(1, 0, {}), Flush>>]
      BY <1>6 DEF Select
    <2>2. /\ DOMAIN service' = Fields /\ service'.pc = "format" /\ service'.candidates = {}
          /\ service'.commands = <<Geometry, WriteSuperblock(0, 0, {}), WriteSuperblock(1, 0, {}), Flush>>
      BY <1>0, <2>1 DEF Fields
    <2>3. StageInv'
      BY <2>2 DEF StageInv, FormatCommands
    <2>4. acked = 0 \/ passedOver
      BY <1>6, SMTT(30) DEF StoreInv, KeptInv, Secured
    <2>5. service'.commands \notin FormatRest'
      BY <2>2, Lengths, SMTT(30) DEF FormatRest
    <2>6. MountInv'
      BY <1>3, <2>2, <2>4, <2>5 DEF MountInv, SameHistory
    <2> QED BY <1>3, <2>2, <2>3, <2>6, OffStage DEF StoreInv, SameHistory
  <1>7. CASE C = {} /\ ~(~f /\ \E t \in StoreSlots : ~Decodes(t))
    <2>1. service' = Stopped(service.gen)
      BY <1>7 DEF Select
    <2>2. passedOver' = passedOver
      BY <1>3, <2>1, SMTT(30) DEF Stopped
    <2> QED BY <2>1, <2>2, StopStore
  <1> QED BY <1>4, <1>5, <1>6, <1>7

(* A superblock is answered for: it is read, and a candidate if it decodes, or the mount
   goes on without it. *)
LEMMA CallMount ==
  ASSUME StoreInv, SameMedium, SameHistory,
         NEW status \in {"Ok", "Fault"}, passedOver' = (passedOver \/ PassesOver(status)),
         service.pc = "mount", service' = AfterCommand(status),
         status = "Ok" /\ Head(service.commands).op # "geometry" => ~device.owned
  PROVE  StageInv' /\ MountInv' /\ ServeInv' /\ CommitInv' /\ KeptInv'
  <1>0. DOMAIN service = Fields /\ service.commands \in MountCommands /\ service.candidates \subseteq StoreSlots
    BY DEF StoreInv, StageInv
  <1>1. PICK C : C = service.candidates
    OBVIOUS
  <1>f. PICK f \in BOOLEAN : f = (service.failed \/ status # "Ok")
    OBVIOUS
  <1>2. C # {} => ~Writing /\ \A s \in C : Decodes(s)
    BY <1>1 DEF StoreInv, MountInv
  <1>3. CASE service.commands = <<Geometry, ReadSuperblock(0), ReadSuperblock(1)>>
    <2>1. Head(service.commands) = Geometry /\ Tail(service.commands) = <<ReadSuperblock(0), ReadSuperblock(1)>>
      BY <1>3, Sequences, SMTT(30)
    <2>2. service' = [service EXCEPT !.commands = <<ReadSuperblock(0), ReadSuperblock(1)>>]
      BY <2>1 DEF AfterCommand, Rest
    <2>3. /\ DOMAIN service' = Fields /\ service'.pc = "mount" /\ service'.candidates = C
          /\ service'.commands = <<ReadSuperblock(0), ReadSuperblock(1)>>
      BY <1>0, <1>1, <2>2 DEF Fields
    <2>4. StageInv'
      BY <1>0, <1>1, <2>3 DEF StageInv, MountCommands
    <2>5. service'.commands # <<ReadSuperblock(1)>>
      BY <2>3, Lengths
    <2>6. MountInv'
      BY <1>2, <2>3, <2>5 DEF MountInv, SameMedium, Writing, Decodes
    <2>7. passedOver' = passedOver
      BY <2>3 DEF PassesOver, StoreInv
    <2> QED BY <2>3, <2>4, <2>6, <2>7, OffStage DEF StoreInv, SameHistory
  <1>4. ASSUME NEW s \in StoreSlots, Head(service.commands) = ReadSuperblock(s)
        PROVE  \E D : /\ D = C \cup {t \in {s} : status = "Ok" /\ Decodes(t)}
                      /\ AfterCommand(status) = IF LastCommand THEN Select(D, f)
                           ELSE [Rest EXCEPT !.candidates = D, !.failed = f]
                      /\ D \subseteq StoreSlots /\ (D # {} => ~Writing) /\ \A t \in D : Decodes(t)
                      /\ status = "Ok" => ~Writing /\ (Decodes(s) => s \in D)
    <2>1. Head(service.commands) # Geometry /\ Head(service.commands).slot = s
          /\ Head(service.commands).op # "geometry"
      BY <1>4, Operations, SMTT(30)
    <2>2. AfterCommand(status) = AfterSuperblock(status)
      BY <2>1 DEF AfterCommand
    <2>3. status = "Ok" => ~Writing
      BY <2>1 DEF Writing
    <2>4. PICK D : D = C \cup {t \in {s} : status = "Ok" /\ Decodes(t)}
      OBVIOUS
    <2>5. AfterSuperblock(status) = IF LastCommand THEN Select(D, f)
                           ELSE [Rest EXCEPT !.candidates = D, !.failed = f]
      BY <1>1, <1>f, <2>1, <2>4 DEF AfterSuperblock
    <2>6. D \subseteq StoreSlots /\ (D # {} => ~Writing) /\ \A t \in D : Decodes(t)
      BY <1>0, <1>1, <1>2, <2>3, <2>4
    <2>7. status = "Ok" => ~Writing /\ (Decodes(s) => s \in D)
      BY <2>3, <2>4
    <2> QED BY <2>2, <2>4, <2>5, <2>6, <2>7
  <1>5. CASE service.commands = <<ReadSuperblock(0), ReadSuperblock(1)>>
    <2>1. /\ Head(service.commands) = ReadSuperblock(0) /\ Tail(service.commands) = <<ReadSuperblock(1)>>
          /\ Len(service.commands) = 2
      BY <1>5, Sequences, SMTT(30)
    <2>2. PICK D : /\ AfterCommand(status) = IF LastCommand THEN Select(D, f)
                           ELSE [Rest EXCEPT !.candidates = D, !.failed = f]
                   /\ D \subseteq StoreSlots /\ (D # {} => ~Writing) /\ \A t \in D : Decodes(t)
                   /\ status = "Ok" => ~Writing /\ (Decodes(0) => 0 \in D)
      BY <1>4, <2>1 DEF StoreSlots
    <2>3. service' = [[service EXCEPT !.commands = <<ReadSuperblock(1)>>] EXCEPT
                        !.candidates = D, !.failed = f]
      <3>1. ~LastCommand
        BY <2>1, SMTT(30) DEF LastCommand
      <3> QED BY <2>1, <2>2, <3>1 DEF Rest
    <2>4. /\ DOMAIN service' = Fields /\ service'.pc = "mount" /\ service'.candidates = D
          /\ service'.commands = <<ReadSuperblock(1)>> /\ service'.failed = f
      BY <1>0, <2>3 DEF Fields
    <2>f. ~f => status = "Ok"
      BY <1>f
    <2>5. StageInv'
      BY <2>2, <2>4 DEF StageInv, MountCommands
    <2>6. MountInv'
      BY <2>2, <2>4, <2>f DEF MountInv, SameMedium, Writing, Decodes
    <2>7. passedOver' = passedOver
      BY <2>4 DEF PassesOver, StoreInv
    <2> QED BY <2>4, <2>5, <2>6, <2>7, OffStage DEF StoreInv, SameHistory
  <1>6. CASE service.commands = <<ReadSuperblock(1)>>
    <2>1. Head(service.commands) = ReadSuperblock(1) /\ Len(service.commands) = 1
      BY <1>6, Sequences
    <2>2. PICK D : /\ AfterCommand(status) = IF LastCommand THEN Select(D, f)
                           ELSE [Rest EXCEPT !.candidates = D, !.failed = f]
                   /\ D = C \cup {t \in {1} : status = "Ok" /\ Decodes(t)}
                   /\ D \subseteq StoreSlots /\ (D # {} => ~Writing) /\ \A t \in D : Decodes(t)
                   /\ status = "Ok" => ~Writing /\ (Decodes(1) => 1 \in D)
      BY <1>4, <2>1 DEF StoreSlots
    <2>3. LastCommand
      BY <2>1 DEF LastCommand
    <2>4. service' = Select(D, f)
      BY <2>2, <2>3
    <2>5. ~f => status = "Ok" /\ ~service.failed
      BY <1>f
    <2>6. ~f => (Decodes(0) => 0 \in C)
      BY <1>1, <1>6, <2>5 DEF StoreInv, MountInv
    <2>7. ~f => \A s \in StoreSlots : Decodes(s) /\ Loadable(s) => s \in D
      BY <2>2, <2>5, <2>6 DEF StoreSlots
    <2> QED BY <1>f, <2>2, <2>4, <2>7, SelectStore
  <1> QED BY <1>0, <1>3, <1>5, <1>6 DEF MountCommands

(* The payloads of a candidate are answered for: the mount takes it or goes on. *)
LEMMA CallLoad ==
  ASSUME StoreInv, SameMedium, SameHistory,
         NEW status \in {"Ok", "Fault"}, passedOver' = (passedOver \/ PassesOver(status)),
         service.pc = "load", service' = AfterCommand(status)
  PROVE  StageInv' /\ MountInv' /\ ServeInv' /\ CommitInv' /\ KeptInv'
  <1>1. PICK s \in service.candidates :
          service.commands = <<ReadPayloads(s)>> /\ \A t \in service.candidates : Preferred(s, t)
    BY DEF StoreInv, MountInv
  <1>2. /\ service.candidates \subseteq StoreSlots /\ ~Writing /\ \A t \in service.candidates : Decodes(t)
        /\ ~service.failed => \A t \in StoreSlots : Decodes(t) /\ Loadable(t) => t \in service.candidates
    BY <1>1 DEF StoreInv, StageInv, MountInv
  <1>3. Head(service.commands).slot = s
    BY <1>1, Sequences, Operations, SMTT(30)
  <1>4. AfterCommand(status) = IF status = "Ok" /\ Loadable(s) THEN Mounted(s)
                               ELSE Select(service.candidates \ {s}, service.failed \/ status # "Ok")
    BY <1>3 DEF AfterCommand, AfterPayloads
  <1>5. CASE status = "Ok" /\ Loadable(s)
    <2>1. ~service.failed => Newest(s)
      BY <1>1, <1>2, <1>5 DEF Newest
    <2> QED BY <1>1, <1>2, <1>4, <1>5, <2>1, MountedStore
  <1>6. CASE ~(status = "Ok" /\ Loadable(s))
    <2>1. PICK f \in BOOLEAN : f = (service.failed \/ status # "Ok")
      OBVIOUS
    <2>2. service' = Select(service.candidates \ {s}, f)
      BY <1>4, <1>6, <2>1
    <2>3. ~f => \A t \in StoreSlots : Decodes(t) /\ Loadable(t) => t \in service.candidates \ {s}
      BY <1>2, <1>6, <2>1
    <2> QED BY <1>2, <2>1, <2>2, <2>3, SelectStore
  <1> QED BY <1>5, <1>6

(* A step of a format is answered: the first superblock is on the medium once the format
   is past it. *)
LEMMA CallFormat ==
  ASSUME StoreInv, SameMedium, SameHistory, passedOver' = passedOver,
         service.pc = "format", NEW status \in {"Ok", "Fault"}, service' = AfterCommand(status),
         status = "Ok" /\ Head(service.commands).op # "geometry" => ~device.owned /\ Effect(Head(service.commands))
  PROVE  StageInv' /\ MountInv' /\ ServeInv' /\ CommitInv' /\ KeptInv'
  <1>0. /\ DOMAIN service = Fields /\ service.commands \in FormatCommands \cup FormatRest
        /\ service.candidates \subseteq StoreSlots
        /\ acked = 0 \/ passedOver
    BY DEF StoreInv, StageInv, MountInv
  <1>1. AfterCommand(status) = AfterFormat(status)
    BY DEF AfterCommand
  <1>2. CASE status # "Ok"
    BY <1>1, <1>2, StopStore DEF AfterFormat
  <1>3. ASSUME NEW rest, status = "Ok", ~LastCommand, Tail(service.commands) = rest,
               rest \in FormatCommands \cup FormatRest,
               rest \in FormatRest => /\ media[0].generation = 0 /\ media[0].objects = {}
                                      /\ Writing => descriptor.slot # 0
        PROVE  StageInv' /\ MountInv' /\ ServeInv' /\ CommitInv' /\ KeptInv'
    <2>1. service' = [service EXCEPT !.commands = rest]
      BY <1>1, <1>3 DEF AfterFormat, Rest
    <2>2. /\ DOMAIN service' = Fields /\ service'.pc = "format" /\ service'.commands = rest
          /\ service'.candidates = service.candidates
      BY <1>0, <2>1 DEF Fields
    <2>3. StageInv'
      BY <1>0, <1>3, <2>2 DEF StageInv, FormatCommands, FormatRest
    <2>4. MountInv'
      BY <1>0, <1>3, <2>2 DEF MountInv, SameMedium, SameHistory, Writing, FormatRest
    <2> QED BY <2>2, <2>3, <2>4, OffStage DEF StoreInv, SameHistory
  <1>4. CASE status = "Ok" /\ service.commands = <<Geometry, WriteSuperblock(0, 0, {}), WriteSuperblock(1, 0, {}), Flush>>
    <2>1. PICK rest : rest = <<WriteSuperblock(0, 0, {}), WriteSuperblock(1, 0, {}), Flush>>
      OBVIOUS
    <2>2. Tail(service.commands) = rest /\ ~LastCommand
      BY <1>4, <2>1, Sequences, SMTT(30) DEF LastCommand
    <2>3. rest \in FormatCommands /\ rest \notin FormatRest
      BY <2>1, Lengths DEF FormatCommands, FormatRest
    <2> QED BY <1>3, <1>4, <2>2, <2>3
  <1>5. CASE status = "Ok" /\ service.commands = <<WriteSuperblock(0, 0, {}), WriteSuperblock(1, 0, {}), Flush>>
    <2>1. PICK rest : rest = <<WriteSuperblock(1, 0, {}), Flush>>
      OBVIOUS
    <2>2. Tail(service.commands) = rest /\ ~LastCommand /\ Head(service.commands) = WriteSuperblock(0, 0, {})
      BY <1>5, <2>1, Sequences, SMTT(30) DEF LastCommand
    <2>3. rest \in FormatRest
      BY <2>1 DEF FormatRest
    <2>4. ~device.owned /\ media[0].generation = 0 /\ media[0].objects = {}
      BY <1>5, <2>2, Operations, SMTT(30) DEF Effect
    <2> QED BY <1>3, <1>5, <2>2, <2>3, <2>4 DEF Writing
  <1>6. CASE status = "Ok" /\ service.commands = <<WriteSuperblock(1, 0, {}), Flush>>
    <2>1. Tail(service.commands) = <<Flush>> /\ ~LastCommand
      BY <1>6, Sequences, SMTT(30) DEF LastCommand
    <2>2. <<Flush>> \in FormatRest /\ service.commands \in FormatRest
      BY <1>6 DEF FormatRest
    <2>3. media[0].generation = 0 /\ media[0].objects = {} /\ (Writing => descriptor.slot # 0)
      BY <2>2 DEF StoreInv, MountInv
    <2> QED BY <1>3, <1>6, <2>1, <2>2, <2>3
  <1>7. CASE status = "Ok" /\ service.commands = <<Flush>>
    <2>1. LastCommand
      BY <1>7, Sequences DEF LastCommand
    <2>2. service' = Serving(NoStore)
      BY <1>1, <1>7, <2>1 DEF AfterFormat
    <2>3. /\ DOMAIN service' = Fields /\ service'.pc = "next" /\ service'.commands = <<>>
          /\ service'.candidates = {} /\ service'.store = NoStore
      BY <1>0, <2>2 DEF Serving, Fields
    <2>4. NoStore.active = 0 /\ NoStore.generation = 0 /\ NoStore.objects = {}
      BY DEF NoStore
    <2>5. service.commands \in FormatRest
      BY <1>7 DEF FormatRest
    <2>6. media[0].generation = 0 /\ media[0].objects = {} /\ (Writing => descriptor.slot # 0)
      BY <2>5 DEF StoreInv, MountInv
    <2>7. StageInv' /\ MountInv' /\ CommitInv'
      BY <2>3 DEF StageInv, MountInv, CommitInv
    <2>8. ServeInv'
      BY <2>3, <2>4, <2>6, SMTT(30) DEF ServeInv, SameMedium, Writing, Loadable, Payloads, StoreSlots
    <2>9. KeptInv'
      BY <1>0, SMTT(30) DEF KeptInv, SameHistory
    <2> QED BY <2>7, <2>8, <2>9
  <1> QED BY <1>0, <1>2, <1>4, <1>5, <1>6, <1>7 DEF FormatCommands, FormatRest

(* A step of a commit is answered: its table is on the medium, in the slot that is not the
   active one, when it ends well. *)
LEMMA CallCommit ==
  ASSUME StoreInv, SameMedium, SameHistory, passedOver' = passedOver,
         service.pc = "commit", NEW status \in {"Ok", "Fault"}, service' = AfterCommand(status),
         status = "Ok" /\ Head(service.commands).op # "geometry" => ~device.owned /\ Effect(Head(service.commands))
  PROVE  StageInv' /\ MountInv' /\ ServeInv' /\ CommitInv' /\ KeptInv'
  <1> PICK a, g, T : a = service.store.active /\ g = service.store.generation /\ T = service.store.objects
    OBVIOUS
  <1> PICK b : b = (a + 1) % 2
    OBVIOUS
  <1>0. /\ DOMAIN service = Fields /\ service.commands \in CommitCommands /\ service.candidates \subseteq StoreSlots
        /\ a \in StoreSlots /\ g \in Nat /\ media[a].generation = g /\ Loadable(a)
        /\ Writing => descriptor.slot # a
        /\ Latest(T)
    BY DEF StoreInv, StageInv, ServeInv, Serves, CommitInv
  <1>1. NextSlot = b /\ NextGeneration = g + 1 /\ b \in StoreSlots /\ b # a
    BY <1>0, OtherSlot DEF NextSlot, NextGeneration
  <1>2. AfterCommand(status) = AfterCommit(status)
    BY DEF AfterCommand
  <1>3. acked > 0 /\ ~passedOver => Secured(a) /\ Kept(T)
    BY DEF StoreInv, KeptInv, Serves
  <1>4. acked > 0 /\ ~passedOver => Secured(a)' /\ Kept(T)'
    BY <1>3, SecuredSame DEF SameHistory, Kept
  <1>5. CASE status # "Ok"
    <2>1. service' = [service EXCEPT !.commands = <<>>, !.pc = "complete", !.status = "StoreError"]
      BY <1>2, <1>5 DEF AfterCommit
    <2>2. /\ DOMAIN service' = Fields /\ service'.pc = "complete" /\ service'.commands = <<>>
          /\ service'.status = "StoreError" /\ service'.store = service.store
          /\ service'.candidates = service.candidates
      BY <1>0, <2>1 DEF Fields
    <2>3. StageInv' /\ MountInv' /\ CommitInv'
      BY <1>0, <2>2 DEF StageInv, MountInv, CommitInv
    <2>4. ServeInv'
      BY <1>0, <2>2 DEF ServeInv, SameMedium, Writing, Loadable
    <2>5. KeptInv'
      BY <1>0, <1>4, <2>2 DEF KeptInv, SameHistory
    <2> QED BY <2>3, <2>4, <2>5
  <1>6. ASSUME NEW rest \in {<<NewSuperblock, Flush>>, <<Flush>>}, status = "Ok", ~LastCommand,
               Tail(service.commands) = rest,
               media[b].payloads = Payloads(T), ~device.owned,
               rest = <<Flush>> => media[b].generation = g + 1 /\ media[b].objects = T
        PROVE  StageInv' /\ MountInv' /\ ServeInv' /\ CommitInv' /\ KeptInv'
    <2>1. service' = [service EXCEPT !.commands = rest]
      BY <1>2, <1>6 DEF AfterCommit, Rest
    <2>2. /\ DOMAIN service' = Fields /\ service'.pc = "commit" /\ service'.commands = rest
          /\ service'.store = service.store /\ service'.candidates = service.candidates
      BY <1>0, <2>1 DEF Fields
    <2>3. NextSlot' = b /\ NextGeneration' = g + 1 /\ NewSuperblock' = NewSuperblock
      BY <1>1, <2>2 DEF NextSlot, NextGeneration, NewSuperblock
    <2>4. StageInv'
      BY <1>0, <1>6, <2>2, <2>3 DEF StageInv, CommitCommands
    <2>5. MountInv'
      BY <2>2 DEF MountInv
    <2>6. ServeInv'
      BY <1>0, <2>2 DEF ServeInv, SameMedium, Writing, Loadable
    <2>7. CommitInv'
      BY <1>0, <1>6, <2>2, <2>3 DEF CommitInv, SameMedium, SameHistory, Writing, Latest
    <2>8. KeptInv'
      BY <1>0, <1>4, <2>2 DEF KeptInv, SameHistory
    <2> QED BY <2>4, <2>5, <2>6, <2>7, <2>8
  <1>7. CASE status = "Ok" /\ service.commands = <<WritePayloads(NextSlot, T), NewSuperblock, Flush>>
    <2>1. /\ Tail(service.commands) = <<NewSuperblock, Flush>> /\ ~LastCommand
          /\ Head(service.commands) = WritePayloads(b, T)
      BY <1>1, <1>7, Sequences, SMTT(30) DEF LastCommand
    <2>2. ~device.owned /\ media[b].payloads = Payloads(T)
      BY <1>7, <2>1, Operations, SMTT(30) DEF Effect
    <2>3. <<NewSuperblock, Flush>> # <<Flush>>
      BY Lengths
    <2> QED BY <1>6, <1>7, <2>1, <2>2, <2>3
  <1>8. CASE status = "Ok" /\ service.commands = <<NewSuperblock, Flush>>
    <2>1. /\ Tail(service.commands) = <<Flush>> /\ ~LastCommand
          /\ Head(service.commands) = WriteSuperblock(b, g + 1, T)
      BY <1>1, <1>8, Sequences, SMTT(30) DEF LastCommand, NewSuperblock
    <2>2. ~device.owned /\ media[b].generation = g + 1 /\ media[b].objects = T
      <3>1. PICK r : r = WriteSuperblock(b, g + 1, T)
        BY SMTT(30)
      <3>2. r.op = "superblock" /\ r.slot = b /\ r.generation = g + 1 /\ r.objects = T
        BY <3>1, Operations, SMTT(30)
      <3>3. ~device.owned /\ Effect(r)
        BY <1>8, <2>1, <3>1, <3>2
      <3> QED BY <3>2, <3>3 DEF Effect
    <2>3. media[b].payloads = Payloads(T)
      BY <1>1, <1>8 DEF StoreInv, CommitInv
    <2> QED BY <1>6, <1>8, <2>1, <2>2, <2>3
  <1>9. CASE status = "Ok" /\ service.commands = <<Flush>>
    <2>1. /\ Tail(service.commands) = <<>> /\ LastCommand /\ Head(service.commands) = Flush
      BY <1>9, Sequences DEF LastCommand
    <2>2. ~device.owned
      BY <1>9, <2>1, Operations
    <2>3. /\ media[b].payloads = Payloads(T) /\ media[b].generation = g + 1 /\ media[b].objects = T
      BY <1>1, <1>9 DEF StoreInv, CommitInv
    <2>4. PICK store : store = [generation |-> g + 1, active |-> b, objects |-> T]
      OBVIOUS
    <2>5. service' = [[service EXCEPT !.commands = <<>>] EXCEPT !.pc = "complete", !.status = "Ok", !.store = store]
      <3>1. service' = [Rest EXCEPT !.pc = "complete", !.status = "Ok",
              !.store = [generation |-> NextGeneration, active |-> NextSlot, objects |-> Rest.store.objects]]
        BY <1>2, <1>9, <2>1 DEF AfterCommit
      <3>2. Rest = [service EXCEPT !.commands = <<>>]
        BY <2>1 DEF Rest
      <3>3. Rest.store = service.store
        BY <1>0, <3>2 DEF Fields
      <3> QED BY <1>1, <2>4, <3>1, <3>2, <3>3
    <2>6. /\ DOMAIN service' = Fields /\ service'.pc = "complete" /\ service'.commands = <<>>
          /\ service'.store = store /\ service'.candidates = service.candidates
      BY <1>0, <2>5 DEF Fields
    <2>7. store.active = b /\ store.generation = g + 1 /\ store.objects = T
      BY <2>4
    <2>8. StageInv' /\ MountInv'
      BY <1>0, <2>6 DEF StageInv, MountInv
    <2>9. ServeInv'
      BY <1>0, <1>1, <2>2, <2>3, <2>6, <2>7, SMTT(30) DEF ServeInv, SameMedium, Writing, Loadable
    <2>10. NextSlot' = a
      BY <1>0, <1>1, <2>6, <2>7, SMTT(30) DEF NextSlot, StoreSlots
    <2>11. CommitInv'
      BY <1>0, <2>2, <2>3, <2>6, <2>7, <2>10, SMTT(30) DEF CommitInv, SameMedium, SameHistory, Latest
    <2>12. ASSUME acked > 0, ~passedOver PROVE Secured(b)'
      <3>1. Secured(a) /\ Kept(T)
        BY <1>3, <2>12
      <3>2. Decodes(b) /\ Loadable(b) /\ Preferred(b, a)
        BY <1>0, <2>3, SMTT(30) DEF Decodes, Loadable, Preferred
      <3>3. \A t \in StoreSlots : t = a \/ t = b
        BY <1>0, <1>1 DEF StoreSlots
      <3>4. ~Preferred(a, b)
        BY <1>0, <2>3, SMTT(30) DEF Preferred
      <3>5. Secured(b)
        BY <2>2, <2>3, <3>1, <3>2, <3>3, <3>4 DEF Secured, Writing
      <3> QED BY <3>5, SecuredSame DEF SameHistory
    <2>13. KeptInv'
      BY <1>1, <1>4, <2>6, <2>7, <2>12 DEF KeptInv, SameHistory
    <2> QED BY <2>8, <2>9, <2>11, <2>13
  <1> QED BY <1>0, <1>5, <1>7, <1>8, <1>9 DEF CommitCommands

(* Only a commit has a request to complete, and it keeps it. *)
LEMMA CallSlot ==
  ASSUME StageInv, NEW status, service.pc \in {"mount", "load", "format", "commit"}, service' = AfterCommand(status)
  PROVE  \/ service'.pc \notin {"execute", "commit", "complete"}
         \/ service.pc = "commit" /\ service'.slot = service.slot
  <1>0. DOMAIN service = Fields
    BY DEF StageInv
  <1>1. /\ Stopped(service.gen).pc = "stopped"
        /\ \A store : Serving(store).pc = "next"
        /\ Rest.pc = service.pc /\ Rest.slot = service.slot /\ DOMAIN Rest = Fields
    BY <1>0 DEF Stopped, Serving, Rest, Fields
  <1>2. \A C, f : Select(C, f).pc \in {"load", "format", "next", "stopped"}
    <2> TAKE C, f
    <2>1. PICK s : s = CHOOSE x \in C : \A y \in C : Preferred(x, y)
      OBVIOUS
    <2>2. \/ Select(C, f) = Mounted(s) \/ Select(C, f) = Stopped(service.gen)
          \/ Select(C, f) = [service EXCEPT !.pc = "load", !.commands = <<ReadPayloads(s)>>, !.candidates = C, !.failed = f]
          \/ Select(C, f) = [service EXCEPT !.pc = "format", !.candidates = {},
                 !.commands = <<Geometry, WriteSuperblock(0, 0, {}), WriteSuperblock(1, 0, {}), Flush>>]
      BY <2>1 DEF Select
    <2>3. Mounted(s).pc = "next"
      BY <1>1 DEF Mounted
    <2> QED BY <1>0, <1>1, <2>2, <2>3 DEF Fields
  <1>3. CASE service.pc = "mount"
    <2>1. \/ service' = Rest
          \/ \E C, f : service' = Select(C, f) \/ service' = [Rest EXCEPT !.candidates = C, !.failed = f]
      BY <1>3 DEF AfterCommand, AfterSuperblock
    <2> QED BY <1>1, <1>2, <1>3, <2>1 DEF Fields
  <1>4. CASE service.pc = "load"
    <2>1. \/ \E s : service' = Mounted(s)
          \/ \E C, f : service' = Select(C, f)
      BY <1>4 DEF AfterCommand, AfterPayloads
    <2> QED BY <1>1, <1>2, <2>1 DEF Mounted
  <1>5. CASE service.pc = "format"
    BY <1>1, <1>5 DEF AfterCommand, AfterFormat
  <1>6. CASE service.pc = "commit"
    <2>1. \/ service' = [service EXCEPT !.commands = <<>>, !.pc = "complete", !.status = "StoreError"]
          \/ \E store : service' = [Rest EXCEPT !.pc = "complete", !.status = "Ok", !.store = store]
          \/ service' = Rest
      BY <1>6 DEF AfterCommand, AfterCommit
    <2> QED BY <1>0, <1>1, <1>6, <2>1 DEF Fields
  <1> QED BY <1>3, <1>4, <1>5, <1>6

(* An answer moves the service on. *)
LEMMA CallStore ==
  ASSUME BridgeInv, StoreInv, BlockCall
  PROVE  StoreInv'
  <1>1. PICK status \in {"Ok", "Fault"} :
          /\ \/ Harvest(service.gen, Head(service.commands), status)
             \/ GiveUp(service.gen, Head(service.commands), status)
             \/ Respond(service.gen, Head(service.commands), Live, status)
          /\ service' = AfterCommand(status)
          /\ passedOver' = (passedOver \/ PassesOver(status))
    BY DEF BlockCall
  <1>2. Commanding /\ SameHistory /\ UNCHANGED queueVars
    BY DEF BlockCall, SameHistory
  <1>3. /\ inFlight' = Nothing /\ SameMedium
        /\ status = "Ok" /\ Head(service.commands).op # "geometry" =>
             ~device.owned /\ Effect(Head(service.commands))
    BY <1>1, AnswerFacts DEF StoreInv
  <1>4. service.pc \in {"mount", "load", "format", "commit"}
    BY <1>2 DEF StoreInv, StageInv, Commanding
  <1>5. StageInv' /\ MountInv' /\ ServeInv' /\ CommitInv' /\ KeptInv'
    <2>1. CASE service.pc = "mount"
      BY <1>1, <1>2, <1>3, <2>1, CallMount
    <2>2. CASE service.pc = "load"
      BY <1>1, <1>2, <1>3, <2>2, CallLoad
    <2>3. CASE service.pc \in {"format", "commit"}
      <3>1. passedOver' = passedOver
        BY <1>1, <2>3 DEF PassesOver, StoreInv
      <3> QED BY <1>1, <1>2, <1>3, <2>3, <3>1, CallFormat, CallCommit
    <2> QED BY <1>4, <2>1, <2>2, <2>3
  <1>6. MediaInv' /\ InFlightInv'
    BY <1>3 DEF StoreInv, MediaInv, InFlightInv, SameMedium, Writing
  <1>7. QueueInv'
    BY <1>1, <1>2, <1>4, CallSlot, QueueSame, SMTT(30) DEF StoreInv, SameHistory
  <1>8. passedOver' \in BOOLEAN
    BY <1>1
  <1> QED BY <1>2, <1>5, <1>6, <1>7, <1>8 DEF StoreInv, SameHistory

(* A submitted request is the first command: a write to the slot that is not the active
   one, or one that leaves the medium alone. *)
LEMMA StartStore ==
  ASSUME BridgeInv, StoreInv, BlockStart
  PROVE  StoreInv'
  <1>1. PICK r : r = Head(service.commands)
    OBVIOUS
  <1>2. /\ Commanding /\ SameHistory /\ passedOver' = passedOver /\ UNCHANGED queueVars
        /\ SubmitBlock(service.gen, r, Live) /\ service' = [service EXCEPT !.waits = "block"]
    BY <1>1 DEF BlockStart, historyVars, SameHistory
  <1>3. SameStage
    BY <1>2, WaitsOnly DEF StoreInv
  <1>4. /\ driver' = [Cleared(service.gen, Live) EXCEPT !.busy = TRUE] /\ descriptor' = r /\ media' = media
        /\ inFlight' = [owner |-> service.gen, request |-> r, late |-> FALSE]
        /\ device' = [device EXCEPT !.owned = TRUE, !.used = UsedAfter(service.gen, Live)]
        /\ QueueAvailable(Cleared(service.gen, Live)) /\ r.op # "geometry"
    BY <1>2 DEF SubmitBlock, Submitted
  <1>5. device'.owned /\ ~device.owned
    BY <1>2, <1>4, SubmitInv DEF BridgeInv
  <1>6. InFlightInv'
    <2>1. Cleared(service.gen, Live) \in [busy : BOOLEAN, poisoned : BOOLEAN]
      BY DEF Cleared, Taken, Abandoned, BridgeInv
    <2>2. driver'.busy /\ ~driver'.poisoned
      BY <1>4, <2>1 DEF QueueAvailable
    <2>3. inFlight'.request = r
      BY <1>4
    <2> QED BY <1>4, <1>5, <2>2, <2>3 DEF InFlightInv
  <1>7. StageInv'
    BY <1>3 DEF StoreInv, StageInv, SameStage, CommitCommands, NewSuperblock, NextSlot, NextGeneration
  <1>8. /\ service.commands # <<>> /\ service.pc \in {"mount", "load", "format", "commit"}
        /\ service.pc # "complete"
    BY <1>2 DEF Commanding, StoreInv, StageInv
  <1> PICK a, b, g, T : /\ a = service.store.active /\ g = service.store.generation /\ T = service.store.objects
                        /\ b = NextSlot
    OBVIOUS
  <1>9. /\ service.pc \in {"mount", "load"} => r.op \in {"readSuperblock", "readPayloads"}
        /\ service.pc = "format" => r \in {WriteSuperblock(0, 0, {}), WriteSuperblock(1, 0, {}), Flush}
        /\ service.pc = "commit" => r \in {WritePayloads(b, T), WriteSuperblock(b, g + 1, T), Flush}
    <2>1. CASE service.pc = "mount"
      <3>1. r \in {Geometry, ReadSuperblock(0), ReadSuperblock(1)}
        BY <1>1, <2>1, Sequences, SMTT(30) DEF StoreInv, StageInv, MountCommands
      <3> QED BY <1>4, <2>1, <3>1, Operations, SMTT(30)
    <2>2. CASE service.pc = "load"
      <3>1. \E s : r = ReadPayloads(s)
        BY <1>1, <2>2, Sequences, SMTT(30) DEF StoreInv, StageInv
      <3> QED BY <2>2, <3>1, Operations, SMTT(30)
    <2>3. CASE service.pc = "format"
      <3>1. r \in {Geometry, WriteSuperblock(0, 0, {}), WriteSuperblock(1, 0, {}), Flush}
        BY <1>1, <2>3, Sequences, SMTT(30) DEF StoreInv, StageInv, FormatCommands, FormatRest
      <3> QED BY <1>4, <2>3, <3>1, Operations
    <2>4. CASE service.pc = "commit"
      BY <1>1, <2>4, Sequences, SMTT(30) DEF StoreInv, StageInv, CommitCommands, NewSuperblock, NextGeneration
    <2> QED BY <1>8, <2>1, <2>2, <2>3, <2>4
  <1>10. Serves => /\ service.pc = "commit" /\ a \in StoreSlots /\ g \in Nat /\ b \in StoreSlots /\ b # a
                   /\ media[a].generation = g /\ Loadable(a)
    BY <1>8, OtherSlot DEF Serves, StoreInv, ServeInv, NextSlot
  <1>11. MediaInv'
    <2>1. r.op \in {"superblock", "payloads"} => r.slot \in StoreSlots /\ r.generation \in Int
      BY <1>8, <1>9, <1>10, Operations, SMTT(30) DEF Serves, StoreSlots
    <2> QED BY <1>4, <2>1 DEF StoreInv, MediaInv, Writing
  <1>12. MountInv'
    <2>1. service.pc \in {"mount", "load"} => ~Writing'
      BY <1>4, <1>9 DEF Writing
    <2>2. service.pc = "format" /\ service.commands \in FormatRest /\ Writing' => r.slot # 0
      <3>1. service.pc = "format" /\ service.commands \in FormatRest => r \in {WriteSuperblock(1, 0, {}), Flush}
        BY <1>1, Sequences, SMTT(30) DEF FormatRest
      <3> QED BY <1>4, <3>1, Operations, SMTT(30) DEF Writing
    <2>3. service.pc = "load" => (\E s \in service.candidates :
            service.commands = <<ReadPayloads(s)>> /\ \A t \in service.candidates : Preferred(s, t))'
      BY <1>3, <1>4 DEF StoreInv, MountInv, SameStage, Preferred
    <2> QED BY <1>2, <1>3, <1>4, <2>1, <2>2, <2>3 DEF StoreInv, MountInv, SameStage, SameHistory, Decodes, Loadable, FormatRest
  <1>13. ServeInv'
    <2>1. Serves /\ r.op \in {"superblock", "payloads"} => r.slot # a
      BY <1>9, <1>10, Operations, SMTT(30)
    <2> QED BY <1>3, <1>4, <1>10, <2>1 DEF ServeInv, Serves, SameStage, Writing, Loadable
  <1>14. CommitInv'
    <2>1. service.pc = "commit" /\ service.commands = <<NewSuperblock, Flush>> => r.op = "superblock"
      BY <1>1, Sequences, Operations, SMTT(30) DEF NewSuperblock
    <2>2. service.commands = <<Flush>> => r.op = "flush"
      BY <1>1, Sequences, Operations, SMTT(30)
    <2>3. NextSlot' = NextSlot /\ NextGeneration' = NextGeneration /\ NewSuperblock' = NewSuperblock
      BY <1>3 DEF SameStage, NextSlot, NextGeneration, NewSuperblock
    <2> QED BY <1>2, <1>3, <1>4, <1>8, <2>1, <2>2, <2>3 DEF StoreInv, CommitInv, SameStage, SameHistory, Writing, Latest
  <1>15. KeptInv'
    <2> SUFFICES ASSUME acked > 0, ~passedOver PROVE (\E k \in StoreSlots : Secured(k))' /\ (Serves' => Secured(a)' /\ Kept(T)')
      BY <1>2, <1>3 DEF KeptInv, SameHistory, SameStage
    <2>1. service.pc # "format"
      BY <1>2, SMTT(30) DEF StoreInv, MountInv
    <2>2. r.op = "superblock" => service.pc = "commit" /\ r.slot = b /\ Kept(r.objects)
      BY <1>8, <1>9, <2>1, Operations, SMTT(30) DEF StoreInv, KeptInv, Serves
    <2>3. r.op = "payloads" => service.pc = "commit" /\ r.slot = b
      BY <1>8, <1>9, <2>1, Operations, SMTT(30)
    <2>4. ASSUME NEW k, Secured(k), r.op \in {"superblock", "payloads"} => r.slot # k PROVE Secured(k)'
      BY <1>2, <1>4, <1>5, <2>2, <2>4 DEF Secured, SameHistory, Writing, Decodes, Loadable, Preferred, Kept
    <2>5. CASE Serves
      <3>1. Secured(a) /\ Kept(T)
        BY <2>5 DEF StoreInv, KeptInv
      <3>2. Secured(a)'
        BY <1>10, <2>2, <2>3, <2>4, <2>5, <3>1
      <3> QED BY <1>2, <1>10, <2>5, <3>1, <3>2 DEF Kept, SameHistory
    <2>6. CASE ~Serves
      <3>1. ~Serves' /\ r.op \notin {"superblock", "payloads"}
        BY <1>3, <2>2, <2>3, <2>6 DEF Serves, SameStage
      <3> QED BY <2>4, <3>1 DEF StoreInv, KeptInv
    <2> QED BY <2>5, <2>6
  <1>16. QueueInv'
    BY <1>2, <1>3, <1>8, QueueSame DEF StoreInv, SameHistory, SameStage
  <1> QED BY <1>2, <1>6, <1>7, <1>11, <1>12, <1>13, <1>14, <1>15, <1>16 DEF StoreInv, SameHistory

(* The device carries out a write of the slot that nothing depends on. *)
LEMMA DeviceStore ==
  ASSUME BridgeInv, StoreInv, DeviceStep
  PROVE  StoreInv'
  <1>1. PICK result \in {"ok", "fault", "malformed"} : DeviceCompletes(result)
    BY DEF DeviceStep
  <1>2. /\ device.owned /\ device' = [owned |-> FALSE, used |-> IF driver.busy THEN result ELSE Nothing, irq |-> TRUE]
        /\ media' = IF result = "ok" THEN Stored(media, descriptor) ELSE media
        /\ inFlight' = inFlight /\ driver' = driver /\ descriptor' = descriptor
    BY <1>1 DEF DeviceCompletes
  <1>3. service' = service /\ SameHistory /\ passedOver' = passedOver /\ UNCHANGED queueVars
    BY DEF DeviceStep, historyVars, SameHistory
  <1>4. ~device'.owned /\ ~Writing'
    BY <1>2 DEF Writing
  <1> PICK d, m : d = descriptor /\ m = media'
    OBVIOUS
  <1>5. m = [s \in StoreSlots |-> m[s]] /\ media = [s \in StoreSlots |-> media[s]]
    <2>1. CASE Writing /\ result = "ok"
      BY <1>2, <2>1, StoredFacts, SMTT(30) DEF StoreInv, MediaInv
    <2>2. CASE ~(Writing /\ result = "ok")
      BY <1>2, <2>2, StoredNothing DEF StoreInv, MediaInv, Writing
    <2> QED BY <2>1, <2>2 DEF StoreInv, MediaInv
  <1>6. \/ m = media
        \/ /\ Writing /\ d.slot \in StoreSlots /\ d.generation \in Int
           /\ \A t \in StoreSlots : t # d.slot => m[t] = media[t]
           /\ d.op = "superblock" =>
                /\ m[d.slot].generation = d.generation /\ m[d.slot].objects = d.objects
                /\ m[d.slot].payloads = media[d.slot].payloads
           /\ d.op = "payloads" =>
                m[d.slot].generation = media[d.slot].generation /\ m[d.slot].objects = media[d.slot].objects
    <2>1. CASE Writing /\ result = "ok"
      BY <1>2, <2>1, StoredFacts, SMTT(30) DEF StoreInv, MediaInv
    <2>2. CASE ~(Writing /\ result = "ok")
      BY <1>2, <2>2, StoredNothing DEF Writing
    <2> QED BY <2>1, <2>2
  <1>7. \A t \in StoreSlots : (Writing => d.slot # t) => m[t] = media[t]
    BY <1>6
  <1>8. InFlightInv'
    <2>1. driver'.busy /\ device'.used = "ok" => result = "ok"
      BY <1>2
    <2>2. ASSUME inFlight # Nothing, result = "ok" PROVE Effect(inFlight.request)'
      <3>1. d = inFlight.request /\ m = Stored(media, d)
        BY <1>2, <2>2 DEF StoreInv, InFlightInv
      <3>2. d.op \in {"superblock", "payloads"} => d.slot \in StoreSlots
        BY <1>2 DEF StoreInv, MediaInv, Writing
      <3>3. /\ d.op = "superblock" => m[d.slot].generation = d.generation /\ m[d.slot].objects = d.objects
            /\ d.op = "payloads" => m[d.slot].payloads = Payloads(d.objects)
        BY <1>5, <3>1, <3>2, StoredFacts, SMTT(30)
      <3> QED BY <1>2, <3>1, <3>3 DEF Effect
    <2> QED BY <1>2, <2>1, <2>2 DEF StoreInv, InFlightInv
  <1>9. MediaInv'
    BY <1>4, <1>5, <1>6 DEF StoreInv, MediaInv, Writing
  <1>10. StageInv'
    BY <1>3 DEF StoreInv, StageInv, CommitCommands, NewSuperblock, NextSlot, NextGeneration
  <1>11. MountInv'
    <2>1. ~Writing => \A s \in StoreSlots : m[s] = media[s]
      BY <1>7
    <2>2. Writing => d.slot \in StoreSlots
      BY DEF StoreInv, MediaInv
    <2>3. 0 \in StoreSlots
      BY DEF StoreSlots
    <2>4. service.pc \in {"mount", "load"} /\ service.candidates # {} => (\A s \in service.candidates : Decodes(s))'
      BY <1>3, <2>1 DEF StoreInv, MountInv, StageInv, Decodes
    <2>5. service.pc = "mount" /\ service.commands = <<ReadSuperblock(1)>> /\ ~service.failed =>
            (Decodes(0) => 0 \in service.candidates)'
      BY <1>3, <2>1, <2>3 DEF StoreInv, MountInv, Decodes
    <2>6. service.pc = "load" /\ ~service.failed =>
            (\A s \in StoreSlots : Decodes(s) /\ Loadable(s) => s \in service.candidates)'
      BY <1>3, <2>1 DEF StoreInv, MountInv, StageInv, Decodes, Loadable
    <2>7. service.pc = "format" /\ service.commands \in FormatRest => media'[0] = media[0]
      BY <1>7, <2>3 DEF StoreInv, MountInv
    <2>8. service.pc = "load" => (\E s \in service.candidates :
            service.commands = <<ReadPayloads(s)>> /\ \A t \in service.candidates : Preferred(s, t))'
      <3>1. ~Writing => \A s, t \in StoreSlots : Preferred(s, t) => Preferred(s, t)'
        BY <2>1 DEF Preferred
      <3>2. service.pc = "load" => ~Writing /\ service.candidates \subseteq StoreSlots
        BY DEF StoreInv, MountInv, StageInv
      <3> QED BY <1>3, <3>1, <3>2 DEF StoreInv, MountInv
    <2> QED BY <1>3, <1>4, <2>4, <2>5, <2>6, <2>7, <2>8 DEF StoreInv, MountInv, SameHistory, FormatRest
  <1>12. ServeInv'
    BY <1>3, <1>4, <1>7 DEF StoreInv, ServeInv, Serves, Loadable
  <1>13. CommitInv'
    <2>1. service.pc = "commit" => NextSlot \in StoreSlots
      BY OtherSlot DEF StoreInv, ServeInv, Serves, NextSlot
    <2>2. service.pc = "commit" /\ service.commands \in {<<NewSuperblock, Flush>>, <<Flush>>} =>
            m[NextSlot].payloads = media[NextSlot].payloads
      BY <1>2, <1>6, <2>1 DEF StoreInv, CommitInv, Writing
    <2>3. service.pc = "commit" /\ service.commands = <<Flush>> => m[NextSlot] = media[NextSlot]
      BY <1>7, <2>1 DEF StoreInv, CommitInv
    <2>4. NextSlot' = NextSlot /\ NextGeneration' = NextGeneration /\ NewSuperblock' = NewSuperblock
      BY <1>3 DEF NextSlot, NextGeneration, NewSuperblock
    <2> QED BY <1>2, <1>3, <1>4, <2>2, <2>3, <2>4 DEF StoreInv, CommitInv, Latest, SameHistory
  <1>14. ASSUME NEW k \in StoreSlots, Secured(k) PROVE Secured(k)'
    <2>1. m[k] = media[k]
      BY <1>7, <1>14 DEF Secured
    <2>2. ASSUME NEW t \in StoreSlots, Preferred(t, k)' PROVE Kept(media[t].objects)'
      <3>1. CASE m[t] = media[t]
        BY <1>3, <1>14, <2>1, <2>2, <3>1 DEF Secured, Preferred, Kept, SameHistory
      <3>2. CASE d.op = "superblock" /\ Writing /\ m[t].objects = d.objects
        BY <1>2, <1>3, <1>14, <3>2 DEF Secured, Writing, Kept, SameHistory
      <3>3. CASE m[t].generation = media[t].generation /\ m[t].objects = media[t].objects
        BY <1>3, <1>14, <2>1, <2>2, <3>3 DEF Secured, Preferred, Kept, SameHistory
      <3> QED BY <1>6, <3>1, <3>2, <3>3 DEF Writing
    <2> QED BY <1>4, <1>14, <2>1, <2>2 DEF Secured, Decodes, Loadable
  <1>15. KeptInv'
    BY <1>3, <1>14 DEF StoreInv, KeptInv, ServeInv, Serves, SameHistory, Kept
  <1>16. QueueInv'
    BY <1>3, QueueSame DEF StoreInv, SameHistory
  <1> QED BY <1>3, <1>8, <1>9, <1>10, <1>11, <1>12, <1>13, <1>15, <1>16 DEF StoreInv, SameHistory

(* The request taken up is one that was never answered. *)
LEMMA DequeueInv ==
  ASSUME QueueInv, NEW i \in SlotIndices, Dequeue(i), answered' = answered, service'.slot = slots[i]
  PROVE  QueueInv'
  <1>1. /\ slots' = [slots EXCEPT ![i].state = "InService"] /\ nextRequest' = nextRequest
        /\ slots[i].state = "Pending"
    BY DEF Dequeue, InState
  <1>2. \A j \in SlotIndices : /\ DOMAIN slots'[j] = DOMAIN slots[j] /\ slots'[j].id = slots[j].id
                               /\ slots'[j].state = IF j = i THEN "InService" ELSE slots[j].state
    BY <1>1 DEF QueueInv
  <1>3. slots[i].id \notin answered /\ slots[i].id # 0
    BY <1>1 DEF QueueInv
  <1>4. slots' = [j \in SlotIndices |-> slots'[j]]
    BY <1>1 DEF QueueInv
  <1> QED BY <1>1, <1>2, <1>3, <1>4, SMTT(30) DEF QueueInv

(* An answer ends the one request in service under its id. *)
LEMMA AnsweredInv ==
  ASSUME QueueInv, service.pc = "complete", service'.pc = "next", nextRequest' = nextRequest, NEW status,
         slots' = Answered(service.slot.id, status),
         \/ answered' = answered
         \/ answered' = answered \cup {service.slot.id} /\ Completable(service.slot.id) # {}
  PROVE  QueueInv'
  <1> PICK id : id = service.slot.id
    OBVIOUS
  <1>1. id \in 1 .. nextRequest - 1
    BY DEF QueueInv
  <1>2. \A j \in SlotIndices : /\ DOMAIN slots'[j] = DOMAIN slots[j] /\ slots'[j].id = slots[j].id
                               /\ j \in Completable(id) => slots'[j].state = "Done"
                               /\ j \notin Completable(id) => slots'[j].state = slots[j].state
    BY DEF QueueInv, Answered
  <1>3. \A j \in SlotIndices : j \in Completable(id) => slots[j].id = id /\ slots[j].state = "InService"
    BY DEF Completable, SlotOf, InState
  <1>4. Completable(id) # {} => \A j \in SlotIndices : slots[j].id = id => j \in Completable(id)
    BY <1>1, <1>3, SMTT(30) DEF QueueInv, Completable, SlotOf
  <1>5. slots' = [j \in SlotIndices |-> slots'[j]]
    BY DEF Answered
  <1> QED BY <1>1, <1>2, <1>3, <1>4, <1>5, SMTT(30) DEF QueueInv

(* What a teardown does to the queue. *)
LEMMA TornDownInv ==
  ASSUME QueueInv, nextRequest' = nextRequest, answered' = answered,
         \/ slots' = Requeue(slots) /\ service'.pc = "stopped"
         \/ service' = service /\ \E c : slots' = Reclaim(slots, c)
         \/ service' = service /\ \E i : slots' = Consumed(i)
  PROVE  QueueInv'
  <1>1. /\ slots' = [j \in SlotIndices |-> slots'[j]]
        /\ \A j \in SlotIndices :
             \/ /\ DOMAIN slots'[j] = DOMAIN slots[j] /\ slots'[j].id = slots[j].id
                /\ slots'[j].state = slots[j].state \/ slots[j].state = "InService"
             \/ slots'[j] = FreeSlot
    BY SMTT(30) DEF QueueInv, Requeue, Reclaim, Consumed
  <1>2. /\ FreeSlot.id = 0 /\ FreeSlot.state = "Free"
        /\ DOMAIN FreeSlot = {"state", "client", "id", "op", "object", "status"}
    BY DEF FreeSlot
  <1> QED BY <1>1, <1>2, SMTT(30) DEF QueueInv

(* A new request has a new id. *)
LEMMA EnqueueInv ==
  ASSUME QueueInv, NEW c, NEW op, NEW o, Enqueue(c, op, o), answered' = answered,
         service'.pc = service.pc, service'.slot = service.slot
  PROVE  QueueInv'
  <1> PICK i, new : /\ i = Min(InState("Free"))
                    /\ new = [state |-> "Pending", client |-> c, id |-> nextRequest, op |-> op,
                              object |-> o, status |-> "none"]
    OBVIOUS
  <1>1. slots' = [slots EXCEPT ![i] = new] /\ nextRequest' = nextRequest + 1
    BY DEF Enqueue
  <1>2. /\ new.id = nextRequest /\ new.state = "Pending"
        /\ DOMAIN new = {"state", "client", "id", "op", "object", "status"}
    OBVIOUS
  <1>3. /\ slots' = [j \in SlotIndices |-> slots'[j]]
        /\ \A j \in SlotIndices : slots'[j] = IF j = i THEN new ELSE slots[j]
    BY <1>1 DEF QueueInv
  <1> QED BY <1>1, <1>2, <1>3, SMTT(30) DEF QueueInv

(* A service that goes on with the same table and has nothing to acknowledge. *)
LEMMA ServesOn ==
  ASSUME StoreInv, Serves, DOMAIN service' = Fields, service'.pc \in {"next", "execute", "complete"},
         service'.commands = <<>>, service'.store = service.store, service'.candidates = service.candidates,
         service'.pc = "complete" => service'.slot.op # "write",
         SameMedium, SameHistory, passedOver' = passedOver, InFlightInv', QueueInv'
  PROVE  StoreInv'
  <1>1. MediaInv' /\ StageInv' /\ MountInv'
    BY DEF StoreInv, MediaInv, Writing, SameMedium, StageInv, MountInv
  <1>2. ServeInv' /\ CommitInv'
    BY DEF StoreInv, ServeInv, CommitInv, Serves, SameMedium, Writing, Loadable
  <1>3. \A k : Secured(k) => Secured(k)'
    BY SecuredSame DEF SameHistory
  <1>4. KeptInv'
    BY <1>3 DEF StoreInv, KeptInv, SameHistory, Kept
  <1> QED BY <1>1, <1>2, <1>4 DEF StoreInv, SameHistory

(* Serving a request: its write is newer than every one before, and its answer
   acknowledges what the medium holds. *)
LEMMA ServeStore ==
  ASSUME BridgeInv, StoreInv, ServiceNext \/ ExecuteRead \/ ExecuteWrite \/ Complete
  PROVE  StoreInv'
  <1>1. DOMAIN service = Fields
    BY DEF StoreInv, StageInv
  <1>2. UNCHANGED bridgeVars
    BY DEF ServiceNext, ExecuteRead, ExecuteWrite, Complete
  <1>3. SameMedium /\ InFlightInv'
    BY <1>2 DEF StoreInv, InFlightInv, SameMedium, bridgeVars, Effect
  <1>4. CASE ServiceNext
    <2>1. PICK i \in SlotIndices : Dequeue(i) /\ service' = [service EXCEPT !.pc = "execute", !.slot = slots[i]]
      BY <1>4 DEF ServiceNext
    <2>2. service.pc = "next" /\ SameHistory /\ passedOver' = passedOver
      BY <1>4 DEF ServiceNext, SameHistory, historyVars
    <2>3. /\ DOMAIN service' = Fields /\ service'.pc = "execute" /\ service'.commands = service.commands
          /\ service'.store = service.store /\ service'.candidates = service.candidates /\ service'.slot = slots[i]
      BY <1>1, <2>1 DEF Fields
    <2>4. QueueInv'
      BY <2>1, <2>2, <2>3, DequeueInv DEF StoreInv, SameHistory
    <2>5. service.commands = <<>> /\ Serves
      BY <2>2 DEF StoreInv, StageInv, Serves
    <2> QED BY <1>3, <2>2, <2>3, <2>4, <2>5, ServesOn
  <1>5. CASE ExecuteRead
    <2>1. /\ service.pc = "execute" /\ SameHistory /\ passedOver' = passedOver /\ UNCHANGED queueVars
          /\ \E st : service' = [service EXCEPT !.pc = "complete", !.status = st]
      BY <1>5 DEF ExecuteRead, SameHistory, historyVars
    <2>2. /\ DOMAIN service' = Fields /\ service'.pc = "complete" /\ service'.commands = service.commands
          /\ service'.store = service.store /\ service'.candidates = service.candidates /\ service'.slot = service.slot
      BY <1>1, <2>1 DEF Fields
    <2>3. QueueInv'
      BY <2>1, <2>2, QueueSame DEF StoreInv, SameHistory
    <2>4. service.commands = <<>> /\ Serves /\ service.slot.op # "write"
      BY <1>5, <2>1 DEF StoreInv, StageInv, Serves, ExecuteRead
    <2> QED BY <1>3, <2>1, <2>2, <2>3, <2>4, ServesOn
  <1>6. CASE ExecuteWrite
    <2> PICK T, a, g, b : /\ T = WriteObject(service.store.objects, service.slot.object, service.slot.id, writes + 1)
                          /\ a = service.store.active /\ g = service.store.generation /\ b = NextSlot
      OBVIOUS
    <2>1. /\ service.pc = "execute" /\ writes' = writes + 1 /\ acked' = acked /\ answered' = answered
          /\ passedOver' = passedOver /\ UNCHANGED queueVars
          /\ service' = [service EXCEPT !.pc = "commit", !.store = Table(@, T),
               !.commands = <<WritePayloads(b, T), WriteSuperblock(b, NextGeneration, T), Flush>>]
      BY <1>6 DEF ExecuteWrite
    <2>2. /\ DOMAIN service' = Fields /\ service'.pc = "commit" /\ service'.slot = service.slot
          /\ service'.commands = <<WritePayloads(b, T), WriteSuperblock(b, g + 1, T), Flush>>
          /\ service'.store = [generation |-> g, active |-> a, objects |-> T]
          /\ service'.candidates = service.candidates
      BY <1>1, <2>1 DEF Fields, Table, NextGeneration
    <2>3. /\ service'.store.generation = g /\ service'.store.active = a /\ service'.store.objects = T
          /\ NextSlot' = b /\ NextGeneration' = g + 1
      BY <2>2, SMTT(30) DEF NextSlot, NextGeneration
    <2>4. QueueInv'
      BY <2>1, <2>2, QueueSame DEF StoreInv
    <2>5. PICK e \in T : e.at = writes + 1 /\ e.request = service.slot.id
      <3>1. [id |-> service.slot.object, request |-> service.slot.id, at |-> writes + 1] \in T
        BY DEF WriteObject
      <3> QED BY <3>1
    <2>6. Latest(T)'
      BY <2>1, <2>5 DEF Latest
    <2>7. Kept(T)'
      <3>1. service.slot.id \notin answered
        BY <2>1 DEF StoreInv, QueueInv
      <3>2. writes + 1 > acked
        BY SMTT(30) DEF StoreInv
      <3> QED BY <2>1, <2>5, <3>1, <3>2 DEF Kept
    <2>8. MediaInv' /\ StageInv' /\ MountInv'
      BY <1>3, <2>1, <2>2, <2>3 DEF StoreInv, MediaInv, Writing, SameMedium, StageInv, MountInv, CommitCommands, NewSuperblock
    <2>9. ServeInv'
      BY <1>3, <2>1, <2>3 DEF StoreInv, ServeInv, Serves, SameMedium, Writing, Loadable
    <2>10. CommitInv'
      BY <2>2, <2>3, <2>6, Lengths DEF CommitInv
    <2>11. KeptInv'
      <3>1. \A k : Secured(k) => Secured(k)'
        BY <1>3, <2>1, SecuredSame
      <3> QED BY <2>1, <2>2, <2>3, <2>7, <3>1 DEF StoreInv, KeptInv, Serves
    <2>12. acked \in Nat /\ writes' \in Nat /\ acked <= writes' /\ passedOver \in BOOLEAN
      BY <2>1, SMTT(30) DEF StoreInv
    <2> QED BY <1>3, <2>1, <2>4, <2>8, <2>9, <2>10, <2>11, <2>12 DEF StoreInv
  <1>7. CASE Complete
    <2> PICK id : id = service.slot.id
      OBVIOUS
    <2>1. /\ DOMAIN service' = Fields /\ service'.pc = "next" /\ service'.commands = service.commands
          /\ service'.store = service.store /\ service'.candidates = service.candidates
          /\ service.pc = "complete" /\ writes' = writes /\ nextRequest' = nextRequest
          /\ slots' = Answered(id, service.status)
      BY <1>1, <1>7 DEF Complete, Fields
    <2>2. service.commands = <<>> /\ Serves
      BY <2>1 DEF StoreInv, StageInv, Serves
    <2>3. CASE service.slot.op = "write" /\ Completable(id) # {} /\ service.status = "Ok"
      <3> PICK a, T, g, b : /\ a = service.store.active /\ T = service.store.objects
                            /\ g = service.store.generation /\ b = NextSlot
        OBVIOUS
      <3>1. acked' = writes /\ answered' = answered \cup {id} /\ passedOver' = FALSE
        BY <1>7, <2>3 DEF Complete
      <3>2. QueueInv'
        BY <2>1, <2>3, <3>1, AnsweredInv DEF StoreInv
      <3>3. /\ ~device.owned /\ Latest(T) /\ media[a].objects = T /\ media[b].generation < g
            /\ a \in StoreSlots /\ g \in Nat /\ media[a].generation = g /\ Loadable(a)
        BY <2>1, <2>2, <2>3 DEF StoreInv, CommitInv, ServeInv
      <3>4. Kept(T)'
        BY <3>1, <3>3 DEF Latest, Kept
      <3>5. \A t \in StoreSlots : Preferred(t, a)' => t = a
        BY <1>3, <3>3, OtherSlot, SMTT(30) DEF Preferred, SameMedium, StoreInv, MediaInv, NextSlot
      <3>6. Secured(a)'
        BY <1>3, <3>3, <3>4, <3>5, SMTT(30) DEF Secured, SameMedium, Writing, Decodes, Loadable
      <3>7. KeptInv'
        BY <2>1, <3>3, <3>4, <3>6 DEF KeptInv
      <3>8. MediaInv' /\ StageInv' /\ MountInv'
        BY <1>3, <2>1, <2>2 DEF StoreInv, MediaInv, Writing, SameMedium, StageInv, MountInv
      <3>9. ServeInv' /\ CommitInv'
        BY <1>3, <2>1, <2>2 DEF StoreInv, ServeInv, CommitInv, Serves, SameMedium, Writing, Loadable
      <3>10. acked' \in Nat /\ writes' \in Nat /\ acked' <= writes'
        BY <2>1, <3>1, SMTT(30) DEF StoreInv
      <3>11. passedOver' \in BOOLEAN
        BY <3>1
      <3> QED BY <1>3, <3>2, <3>7, <3>8, <3>9, <3>10, <3>11 DEF StoreInv
    <2>4. CASE ~(service.slot.op = "write" /\ Completable(id) # {} /\ service.status = "Ok")
      <3>1. SameHistory /\ passedOver' = passedOver
        BY <1>7, <2>1, <2>4 DEF Complete, SameHistory
      <3>2. QueueInv'
        BY <2>1, <3>1, AnsweredInv DEF StoreInv, SameHistory
      <3> QED BY <1>3, <2>1, <2>2, <3>1, <3>2, ServesOn
    <2> QED BY <2>3, <2>4
  <1> QED BY <1>4, <1>5, <1>6, <1>7

(* Every step keeps the invariant. *)
LEMMA StoreStep ==
  ASSUME BridgeInv, StoreInv, [Next]_vars
  PROVE  StoreInv'
  <1>1. ASSUME UNCHANGED bridgeVars PROVE SameMedium /\ InFlightInv'
    BY <1>1 DEF StoreInv, InFlightInv, SameMedium, bridgeVars, Effect
  <1>2. ASSUME UNCHANGED historyVars PROVE SameHistory /\ passedOver' = passedOver
    BY <1>2 DEF SameHistory, historyVars
  <1>3. ASSUME NEW key, service' = Woken(key) PROVE SameStage
    BY <1>3, WaitsOnly DEF StoreInv, Woken
  <1>4. ASSUME SameStage, SameHistory, UNCHANGED queueVars PROVE QueueInv'
    BY <1>4, QueueSame DEF StoreInv, SameStage, SameHistory
  <1>5. CASE BlockCall \/ BlockStart \/ DeviceStep
    BY <1>5, CallStore, StartStore, DeviceStore
  <1>6. CASE ServiceNext \/ ExecuteRead \/ ExecuteWrite \/ Complete
    BY <1>6, ServeStore
  <1>7. CASE BlockWait \/ ServiceWait
    <2>1. UNCHANGED bridgeVars /\ UNCHANGED historyVars /\ UNCHANGED queueVars
      BY <1>7 DEF BlockWait, ServiceWait
    <2>2. \E w : service' = [service EXCEPT !.waits = w]
      BY <1>7 DEF BlockWait, ServiceWait
    <2>3. SameStage
      BY <2>2, WaitsOnly DEF StoreInv
    <2> QED BY <1>1, <1>2, <1>4, <2>1, <2>3, QuietStore
  <1>8. CASE InterruptStep
    <2>1. /\ inFlight' = inFlight /\ driver' = driver /\ descriptor' = descriptor /\ media' = media
          /\ device'.owned = device.owned /\ device'.used = device.used
          /\ UNCHANGED historyVars /\ UNCHANGED queueVars /\ service' = Woken("block")
      BY <1>8 DEF InterruptStep, Interrupt, BridgeInv
    <2>2. InFlightInv' /\ SameMedium
      BY <2>1 DEF StoreInv, InFlightInv, Effect, SameMedium
    <2> QED BY <1>2, <1>3, <1>4, <2>1, <2>2, QuietStore
  <1>9. CASE DeadlineStep
    <2>1. /\ inFlight # Nothing /\ inFlight' = [inFlight EXCEPT !.late = TRUE]
          /\ driver' = driver /\ descriptor' = descriptor /\ media' = media /\ device' = device
          /\ UNCHANGED historyVars /\ UNCHANGED queueVars /\ service' = Woken("block")
      BY <1>9 DEF DeadlineStep, DeadlinePasses
    <2>2. inFlight'.request = inFlight.request
      BY <2>1, SMTT(30)
    <2>3. InFlightInv' /\ SameMedium
      BY <2>1, <2>2 DEF StoreInv, InFlightInv, Effect, SameMedium
    <2> QED BY <1>2, <1>3, <1>4, <2>1, <2>3, QuietStore
  <1>10. CASE StartService \/ Crash
    <2>1. UNCHANGED bridgeVars /\ UNCHANGED historyVars
      BY <1>10 DEF StartService, Crash
    <2>2. /\ DOMAIN service' = Fields /\ service'.candidates = {}
          /\ \/ service'.pc = "mount" /\ service'.commands = <<Geometry, ReadSuperblock(0), ReadSuperblock(1)>>
             \/ service'.pc = "stopped" /\ service'.commands = <<>>
      <3>1. CASE StartService
        <4>1. PICK st : st = Stopped(service.gen + 1)
          OBVIOUS
        <4>2. /\ service' = [st EXCEPT !.pc = "mount", !.commands = <<Geometry, ReadSuperblock(0), ReadSuperblock(1)>>]
              /\ DOMAIN st = Fields /\ st.candidates = {}
          BY <3>1, <4>1 DEF StartService, Stopped, Fields
        <4> QED BY <4>2 DEF Fields
      <3>2. CASE Crash
        BY <3>2 DEF Crash, Stopped, Fields
      <3> QED BY <1>10, <3>1, <3>2
    <2>3. SameMedium /\ InFlightInv' /\ SameHistory /\ passedOver' = passedOver
      BY <1>1, <1>2, <2>1
    <2>4. StageInv' /\ MountInv'
      <3>1. service'.pc = "mount" => service'.commands \in MountCommands /\ service'.commands # <<ReadSuperblock(1)>>
        BY <2>2, Lengths DEF MountCommands
      <3> QED BY <2>2, <3>1 DEF StageInv, MountInv, MountCommands
    <2>5. ServeInv' /\ CommitInv' /\ KeptInv'
      BY <2>2, <2>3, OffStage DEF StoreInv, SameHistory
    <2>6. MediaInv'
      BY <2>3 DEF StoreInv, MediaInv, SameMedium, Writing
    <2>7. QueueInv'
      <3>1. CASE StartService
        BY <2>2, <2>3, <3>1, QueueSame DEF StoreInv, StartService, SameHistory
      <3>2. CASE Crash
        BY <2>3, <3>2, TornDownInv DEF StoreInv, Crash, TeardownQueue, Stopped, SameHistory
      <3> QED BY <1>10, <3>1, <3>2
    <2> QED BY <2>3, <2>4, <2>5, <2>6, <2>7 DEF StoreInv, SameHistory
  <1>11. ASSUME NEW c \in Clients, ClientStep(c) PROVE StoreInv'
    <2>1. UNCHANGED bridgeVars /\ UNCHANGED historyVars /\ (service' = Woken("work") \/ service' = service)
      BY <1>11 DEF ClientStep, ClientSubmit, ClientPoll, ClientExit
    <2>2. SameStage /\ SameHistory
      BY <1>2, <1>3, <2>1, WaitsOnly DEF StoreInv
    <2>3. ASSUME NEW op, NEW o, ClientSubmit(c, op, o) PROVE QueueInv'
      BY <2>2, <2>3, EnqueueInv DEF StoreInv, ClientSubmit, SameStage, SameHistory
    <2>4. ASSUME NEW i \in SlotIndices, ClientPoll(c, i) PROVE QueueInv'
      <3>1. nextRequest' = nextRequest /\ service' = service
        BY <2>4 DEF ClientPoll
      <3>2. slots' = Consumed(i) \/ slots' = slots
        BY <2>4 DEF ClientPoll
      <3>3. CASE slots' = Consumed(i)
        BY <2>2, <3>1, <3>3, TornDownInv DEF StoreInv, SameHistory
      <3>4. CASE slots' = slots
        BY <1>4, <2>2, <3>1, <3>4 DEF queueVars
      <3> QED BY <3>2, <3>3, <3>4
    <2>5. ASSUME ClientExit(c) PROVE QueueInv'
      <3>1. nextRequest' = nextRequest /\ service' = service /\ slots' = Reclaim(slots, c)
        BY <2>5 DEF ClientExit
      <3>2. \E d : slots' = Reclaim(slots, d)
        BY <3>1
      <3> QED BY <2>2, <3>1, <3>2, TornDownInv DEF StoreInv, SameHistory
    <2>6. QueueInv'
      BY <1>11, <2>3, <2>4, <2>5 DEF ClientStep
    <2> QED BY <1>1, <1>2, <2>1, <2>2, <2>6, QuietStore
  <1>12. CASE UNCHANGED vars
    <2>1. UNCHANGED bridgeVars /\ UNCHANGED historyVars /\ UNCHANGED queueVars /\ service' = service
      BY <1>12 DEF vars
    <2>2. SameStage
      BY <2>1, WaitsOnly DEF StoreInv
    <2> QED BY <1>1, <1>2, <1>4, <2>1, <2>2, QuietStore
  <1> QED BY <1>5, <1>6, <1>7, <1>8, <1>9, <1>10, <1>11, <1>12 DEF Next, ServiceStep

(* Whatever the number of clients, slots, requests and restarts, the newest write
   answered Ok is what the next mount finds and what the live table holds, or the
   entry of a write that was carried out after it and is still unanswered: a write
   that a dead instance left with the device poisons the queue or goes to the slot
   that is not the newest, and no answered request is carried out again
   (step_request, ensure_queue_available, commit, requeue_in_service).  It is not
   shown of what a mount that could not read the newest table serves until the next
   acknowledged write, nor that a write which a crash interrupted takes effect before
   one acknowledged in the meantime. *)
THEOREM AcknowledgedKeptCorrect == Spec => []AcknowledgedKept
  <1>1. BridgeInv /\ StoreInv /\ [Next]_vars => (BridgeInv /\ StoreInv)'
    BY BridgeStep, StoreStep
  <1>2. StoreInv => AcknowledgedKept
    <2> SUFFICES ASSUME StoreInv, acked > 0, ~passedOver
                 PROVE  /\ \E s \in StoreSlots : Newest(s)
                        /\ \A s \in StoreSlots : Newest(s) => Kept(media[s].objects)
                        /\ Serves => Kept(service.store.objects)
      BY DEF AcknowledgedKept, Serves
    <2>1. PICK k \in StoreSlots : Secured(k)
      BY DEF StoreInv, KeptInv
    <2>2. Serves => Kept(service.store.objects)
      BY DEF StoreInv, KeptInv
    <2> QED BY <2>1, <2>2, SecuredNewest DEF StoreInv
  <1> QED BY BridgeInitInv, StoreInitInv, <1>1, <1>2, PTL DEF Spec

=============================================================================
