-------------------------------- MODULE Push --------------------------------
(* Notices to the telephone (notifications/): a queue in push.db, a long poll *)
(* over one paired device, acknowledgements.  The watcher of the dashboard    *)
(* enqueues, a thread of the service answers the poll, the telephone is       *)
(* modelled from the protocol it is given (external).                        *)
EXTENDS Naturals, FiniteSets, Sequences

CONSTANTS Keys,       \* collapse keys: the queries of research
          MaxNotes,   \* bound: notices enqueued
          MaxDrops,   \* bound: answers, acknowledgements and connections lost
          MaxPairs    \* bound: times another telephone takes the slot

VARIABLES
  note,     \* the notices in order of id: key and state of the delivery
  slot,     \* the telephone the slot is bound to, 0 when it is free
  watcher,  \* the notify() under way: it has committed and not pinged yet
  wake,     \* version of the Wake of each hub
  poll,     \* the handler of the telephone's poll, with the batch it has read
  phone,    \* the telephone: what it does, last_ack_id it keeps, what it has received
  shown,    \* ids shown by some telephone
  drops, pairs

pvars == <<note, slot, watcher, wake, poll, phone, shown, drops, pairs>>

Hubs == {"service", "default"}
Ids == 1 .. Len(note)
NoPoll == [pc |-> "off", by |-> 0, since |-> 0, batch |-> {}, heard |-> 0]
Resting(since) == [pc |-> "rest", since |-> since, batch |-> {}]

Init ==
  /\ note = <<>> /\ slot = 1 /\ watcher = "idle" /\ wake = [h \in Hubs |-> 0]
  /\ poll = NoPoll /\ phone = Resting(0)
  /\ shown = {} /\ drops = 0 /\ pairs = 1

(* One transaction: the notice, its delivery, and the older deliveries of the *)
(* same key collapse.                                                        *)
Collapsed(k) ==
  [i \in Ids |-> IF note[i].key = k /\ note[i].state \in {"pending", "sent"}
                 THEN [note[i] EXCEPT !.state = "superseded"] ELSE note[i]]

Enqueue(k) ==
  /\ watcher = "idle" /\ Len(note) < MaxNotes
  /\ note' = Append(Collapsed(k), [key |-> k, state |-> "pending"])
  /\ watcher' = "ping"
  /\ UNCHANGED <<slot, wake, poll, phone, shown, drops, pairs>>

(* notify() pings the hub of its own, which no handler waits on.              *)
Ping ==
  /\ watcher = "ping" /\ watcher' = "idle"
  /\ wake' = [wake EXCEPT !["default"] = @ + 1]
  /\ UNCHANGED <<note, slot, poll, phone, shown, drops, pairs>>

(* The certificate must be the one of the slot, and one poll per certificate  *)
(* (here: one in all); a refused telephone tries again later.                *)
Admitted == slot = pairs /\ poll.pc = "off"

Poll ==
  /\ phone.pc = "rest" /\ Admitted
  /\ poll' = [NoPoll EXCEPT !.pc = "fetch", !.by = pairs, !.since = phone.since]
  /\ phone' = [phone EXCEPT !.pc = "poll"]
  /\ UNCHANGED <<note, slot, watcher, wake, shown, drops, pairs>>

Open == {"pending", "sent"}
(* Mutant: what was sent is not sent again.                                   *)
NextBatchOnce(since) == {i \in Ids : i > since /\ note[i].state = "pending"}

(* next_batch: what was sent and not acknowledged goes again.                 *)
NextBatch(since) == {i \in Ids : i > since /\ note[i].state \in Open}

(* A handler reads when it starts and when its hub has been pinged.           *)
Reading == {"fetch"} \cup (IF wake["service"] # poll.heard THEN {"wait"} ELSE {})

Fetch ==
  /\ poll.pc \in Reading
  /\ LET b == NextBatch(poll.since)
     IN poll' = IF b = {} THEN [poll EXCEPT !.pc = "wait", !.heard = wake["service"]]
                ELSE [poll EXCEPT !.pc = "mark", !.batch = b]
  /\ UNCHANGED <<note, slot, watcher, wake, phone, shown, drops, pairs>>

TimedOut ==
  /\ poll.pc = "wait" /\ poll' = [poll EXCEPT !.pc = "answer"]
  /\ UNCHANGED <<note, slot, watcher, wake, phone, shown, drops, pairs>>

(* A transaction of its own, whatever has become of the deliveries meanwhile. *)
MarkSent ==
  /\ poll.pc = "mark"
  /\ note' = [i \in Ids |-> IF i \in poll.batch THEN [note[i] EXCEPT !.state = "sent"] ELSE note[i]]
  /\ poll' = [poll EXCEPT !.pc = "answer"]
  /\ UNCHANGED <<slot, watcher, wake, phone, shown, drops, pairs>>

(* The answer is written to a telephone that may have hung up, or not be the  *)
(* one of the slot any more.                                                 *)
Listening == phone.pc = "poll" /\ poll.by = pairs

Answer ==
  /\ poll.pc = "answer" /\ poll' = NoPoll
  /\ phone' = IF Listening
              THEN [phone EXCEPT !.pc = IF poll.batch = {} THEN "rest" ELSE "show", !.batch = poll.batch]
              ELSE phone
  /\ UNCHANGED <<note, slot, watcher, wake, shown, drops, pairs>>

Show ==
  /\ phone.pc = "show"
  /\ shown' = shown \cup phone.batch /\ phone' = [phone EXCEPT !.pc = "ack"]
  /\ UNCHANGED <<note, slot, watcher, wake, poll, drops, pairs>>

Highest(S) == CHOOSE i \in S : \A j \in S : j <= i

(* The answer to an acknowledgement may be lost too: the telephone keeps the  *)
(* older cursor.                                                             *)
Ack ==
  /\ phone.pc = "ack" /\ slot = pairs
  /\ note' = [i \in Ids |-> IF i \in phone.batch /\ note[i].state \in Open
                            THEN [note[i] EXCEPT !.state = "acked"] ELSE note[i]]
  /\ phone' \in {Resting(Highest(phone.batch)), Resting(phone.since)}
  /\ UNCHANGED <<slot, watcher, wake, poll, shown, drops, pairs>>

(* The connection breaks, the telephone sleeps or restarts: it goes on from   *)
(* the last_ack_id it keeps.  The handler knows nothing of it.               *)
Drop ==
  /\ phone.pc # "rest" /\ drops < MaxDrops /\ drops' = drops + 1
  /\ phone' = Resting(phone.since)
  /\ UNCHANGED <<note, slot, watcher, wake, poll, shown, pairs>>

(* A refused acknowledgement: the telephone has lost the slot.                *)
Refused ==
  /\ phone.pc = "ack" /\ slot # pairs /\ phone' = Resting(phone.since)
  /\ UNCHANGED <<note, slot, watcher, wake, poll, shown, drops, pairs>>

(* The dashboard restarts: the handler and a notify() under way are gone.     *)
Restart ==
  /\ poll.pc # "off" /\ drops < MaxDrops /\ drops' = drops + 1
  /\ poll' = NoPoll /\ watcher' = "idle" /\ wake' = [h \in Hubs |-> 0]
  /\ phone' = IF phone.pc = "poll" THEN Resting(phone.since) ELSE phone
  /\ UNCHANGED <<note, slot, shown, pairs>>

Revoke ==
  /\ slot # 0 /\ pairs < MaxPairs /\ slot' = 0
  /\ UNCHANGED <<note, watcher, wake, poll, phone, shown, drops, pairs>>

(* Another telephone: it starts from nothing, the deliveries stay.  A pairing *)
(* that dies between its two writes leaves the slot as Revoke does.          *)
Pair ==
  /\ pairs < MaxPairs
  /\ pairs' = pairs + 1 /\ slot' = pairs + 1 /\ phone' = Resting(0)
  /\ UNCHANGED <<note, watcher, wake, poll, shown, drops>>

Serve == Fetch \/ TimedOut \/ MarkSent \/ Answer
Telephone == Poll \/ Show \/ Ack \/ Refused

Next ==
  \/ Serve \/ Telephone \/ Ping \/ Drop \/ Restart \/ Revoke \/ Pair
  \/ \E k \in Keys : Enqueue(k)

(* Handlers run and time out; the telephone goes on polling.                  *)
Fairness == WF_pvars(Serve) /\ WF_pvars(Telephone) /\ WF_pvars(Ping)

Spec == Init /\ [][Next]_pvars /\ Fairness

TypeOK ==
  /\ \A i \in Ids : note[i] \in [key : Keys, state : {"pending", "sent", "acked", "superseded"}]
  /\ poll.pc \in {"off", "fetch", "wait", "mark", "answer"} /\ poll.batch \subseteq Ids
  /\ phone.pc \in {"rest", "poll", "show", "ack"} /\ phone.batch \cup shown \subseteq Ids
  /\ slot \in 0 .. MaxPairs

(* "Backlog by last_ack_id: nothing is lost when the link is down" (DEC-011): *)
(* whatever answers and acknowledgements are lost, whoever takes the slot, a  *)
(* notice is shown in the end, or a later one of the same key is.             *)
NothingIsLost ==
  []<>(slot = 0 \/ \A i \in Ids : \E j \in shown : j >= i /\ note[j].key = note[i].key)

(* "Returns at once when there are events with id > since": a handler that    *)
(* waits with a notice to deliver, after notify() has returned, has been      *)
(* woken.                                                                    *)
WaitersAreWoken ==
  poll.pc = "wait" /\ watcher = "idle" /\ NextBatch(poll.since) # {} => wake["service"] # poll.heard

(* "Only the last one travels": a collapsed delivery is not opened again.     *)
OnlyLastTravels ==
  [][\A i \in Ids : note[i].state = "superseded" => note'[i].state = "superseded"]_pvars
=============================================================================
