------------------------------ MODULE BleMesh ------------------------------
(***************************************************************************)
(* src/modules/scripts/lib/blemesh.py: the flood mesh over BLE advertising *)
(* broadcasts.  Each node's radio puts what it hears in an inbox, in the   *)
(* scan interrupt; receive(), polled by the application, drains the inbox, *)
(* delivers what is new and queues it to be relayed with a smaller ttl;    *)
(* one packet at a time is advertised, again and again until the next.     *)
(*                                                                         *)
(* A message is a number: the pair (sender_id, msg_id) its packets carry,  *)
(* the random msg_id taken to be fresh.  Its text is cut into total[m]     *)
(* fragments.  How long a hold, a jitter or a reassembly lasts is left     *)
(* open.  got and heard are history variables.                             *)
(***************************************************************************)
EXTENDS Integers, Sequences, FiniteSets

CONSTANTS
  Node,
  Links,        \* who is in range of whom: pairs <<sender, receiver>>
  Hops,         \* a distance between nodes that a link covers one of
  SeenSize,     \* SEEN_CACHE_SIZE
  InboxSize,    \* packets the inbox holds
  Ttls,         \* what broadcast() is called with
  Slow,         \* whether reassembling a message may take longer than
                \* REASSEMBLY_TIMEOUT_MS
  Talkers,      \* bound: the nodes somebody broadcasts from
  MaxFrags,     \* bound: fragments in a message
  MaxMessages,  \* bound: messages broadcast
  MaxQueue,     \* bound: packets waiting to be sent by a node, and messages
                \* waiting to be returned
  MaxFailures,  \* bound: calls of gap_advertise that raise
  MaxRestarts   \* bound: instances deinitialised and made anew

ASSUME MeshAssumption ==
  /\ Links \subseteq Node \X Node
  /\ Hops \in [Node \X Node -> Nat]
  /\ \A n \in Node : Hops[<<n, n>>] = 0
  /\ \A s \in Node : \A l \in Links : Hops[<<s, l[2]>>] <= Hops[<<s, l[1]>>] + 1
  /\ SeenSize \in Nat \ {0} /\ InboxSize \in Nat \ {0}
  /\ Talkers \subseteq Node /\ Ttls \subseteq Nat /\ Slow \in BOOLEAN /\ MaxFrags \in Nat \ {0}
  /\ MaxMessages \in Nat /\ MaxQueue \in Nat
  /\ MaxFailures \in Nat /\ MaxRestarts \in Nat

VARIABLES
  seen,       \* each node's SeenCache: its keys, oldest first
  parts,      \* each node's Reassembler: the fragments it has of a message
  inbox,      \* _raw_inbox
  queue,      \* _tx_queue
  delivered,  \* _delivered
  air,        \* the packets each radio advertises: none, or the last sent
  scanning,   \* whether the radio listens
  pc,         \* where each node is inside receive()
  sender, total, reach,  \* who broadcast each message, in how many fragments
                         \* and with what ttl
  messages,   \* messages broadcast so far
  got,        \* how often receive() has returned each message, to each node:
              \* 0, 1, or 2 for more
  heard,      \* the fragments of each message that were in each node's inbox
  failures, restarts

node == <<seen, parts, inbox, queue, delivered, air, scanning, pc>>
sent == <<sender, total, reach, messages>>
vars == <<node, sent, got, heard, failures, restarts>>

Messages == 1..MaxMessages
Packets == [message : Messages, index : 0..(MaxFrags - 1), ttl : Nat]

Init ==
  /\ seen = [n \in Node |-> << >>]
  /\ parts = [n \in Node |-> [m \in Messages |-> {}]]
  /\ inbox = [n \in Node |-> << >>]
  /\ queue = [n \in Node |-> << >>]
  /\ delivered = [n \in Node |-> << >>]
  /\ air = [n \in Node |-> {}]
  /\ scanning = [n \in Node |-> TRUE]
  /\ pc = [n \in Node |-> "idle"]
  /\ sender = << >> /\ total = << >> /\ reach = << >> /\ messages = 0
  /\ got = [n \in Node |-> [m \in Messages |-> 0]]
  /\ heard = [n \in Node |-> [m \in Messages |-> {}]]
  /\ failures = 0 /\ restarts = 0

Goto(n, to) == pc' = [pc EXCEPT ![n] = to]

\* SeenCache: whether a key is known, and the cache with a new key in it.
Known(n, m) == \E i \in 1..Len(seen[n]) : seen[n][i] = m

\* SeenCache.add: a full cache forgets its oldest key.
Remember(n, m) ==
  IF Known(n, m) THEN seen[n]
  ELSE IF Len(seen[n]) = SeenSize THEN Append(Tail(seen[n]), m)
  ELSE Append(seen[n], m)

-----------------------------------------------------------------------------
(* broadcast().                                                            *)

Fragments(m, k, ttl) == [i \in 1..k |-> [message |-> m, index |-> i - 1, ttl |-> ttl]]

\* Slip: the node does not mark its own message as seen.
BroadcastUnseen(n) ==
  /\ pc[n] = "idle" /\ messages < MaxMessages
  /\ messages' = messages + 1
  /\ sender' = Append(sender, n)
  /\ \E k \in 1..MaxFrags, ttl \in Ttls :
       /\ Len(queue[n]) + k <= MaxQueue
       /\ total' = Append(total, k) /\ reach' = Append(reach, ttl)
       /\ queue' = [queue EXCEPT ![n] = @ \o Fragments(messages', k, ttl)]
  /\ UNCHANGED <<seen, parts, inbox, delivered, air, scanning, pc, got, heard,
                 failures, restarts>>

\* The message's own key is marked as seen, its fragments are queued.
Broadcast(n) ==
  /\ pc[n] = "idle" /\ messages < MaxMessages
  /\ messages' = messages + 1
  /\ sender' = Append(sender, n)
  /\ \E k \in 1..MaxFrags, ttl \in Ttls :
       /\ Len(queue[n]) + k <= MaxQueue
       /\ total' = Append(total, k) /\ reach' = Append(reach, ttl)
       /\ queue' = [queue EXCEPT ![n] = @ \o Fragments(messages', k, ttl)]
  /\ seen' = [seen EXCEPT ![n] = Remember(n, messages')]
  /\ UNCHANGED <<parts, inbox, delivered, air, scanning, pc, got, heard, failures,
                 restarts>>

-----------------------------------------------------------------------------
(* _irq: the radio of n hears what a node in its range advertises.         *)

\* The packet joins the inbox; a full inbox drops its oldest.
Hear(l) ==
  LET n == l[2] IN
  /\ scanning[n]
  /\ \E p \in air[l[1]] :
       inbox' = [inbox EXCEPT ![n] =
                   IF Len(@) = InboxSize THEN Append(Tail(@), p) ELSE Append(@, p)]
  /\ UNCHANGED <<seen, parts, queue, delivered, air, scanning, pc, sent, got, heard,
                 failures, restarts>>

-----------------------------------------------------------------------------
(* receive(): _pump, then _drive_tx, then one message is returned.         *)

Receive(n) ==
  /\ pc[n] = "idle"
  /\ Goto(n, "pump")
  /\ UNCHANGED <<seen, parts, inbox, queue, delivered, air, scanning, sent, got, heard,
                 failures, restarts>>

Pumping(n) == pc[n] = "pump" /\ inbox[n] # << >>

\* Slip: the fragment in hand is not counted.
CompletesLate(n, p) == parts[n][p.message] = 0..(total[p.message] - 1)

\* Reassembler.add_fragment: the last missing fragment completes the message.
Completes(n, p) == parts[n][p.message] \union {p.index} = 0..(total[p.message] - 1)

\* Slip: a packet is relayed whatever its ttl.
RelayAlways(n, p) == Append(queue[n], [p EXCEPT !.ttl = @ - 1])

\* What is queued for a packet that is new: the same with a smaller ttl.
Relay(n, p) ==
  IF p.ttl > 0 THEN Append(queue[n], [p EXCEPT !.ttl = @ - 1]) ELSE queue[n]

\* Slip: a packet of a message that was seen before is relayed once more.
DropSeenRelaying(n) ==
  /\ Pumping(n) /\ Known(n, Head(inbox[n]).message) /\ Len(queue[n]) < MaxQueue
  /\ inbox' = [inbox EXCEPT ![n] = Tail(@)]
  /\ LET p == Head(inbox[n]) IN
     /\ heard' = [heard EXCEPT ![n][p.message] = @ \union {p.index}]
     /\ queue' = [queue EXCEPT ![n] = Relay(n, p)]
  /\ UNCHANGED <<seen, parts, delivered, air, scanning, pc, sent, got, failures,
                 restarts>>

\* A packet of a message that was seen before is dropped.
DropSeen(n) ==
  /\ Pumping(n) /\ Known(n, Head(inbox[n]).message)
  /\ inbox' = [inbox EXCEPT ![n] = Tail(@)]
  /\ LET p == Head(inbox[n]) IN
     heard' = [heard EXCEPT ![n][p.message] = @ \union {p.index}]
  /\ UNCHANGED <<seen, parts, queue, delivered, air, scanning, pc, sent, got,
                 failures, restarts>>

\* A new one is marked as seen, put with the other fragments of its message,
\* delivered if it completes it, and queued to be relayed.
TakeNew(n) ==
  /\ Pumping(n)
  /\ LET p == Head(inbox[n])
         m == p.message
     IN
     /\ ~Known(n, m)
     /\ Len(queue[n]) < MaxQueue /\ Len(delivered[n]) < MaxQueue
     /\ inbox' = [inbox EXCEPT ![n] = Tail(@)]
     /\ heard' = [heard EXCEPT ![n][m] = @ \union {p.index}]
     /\ seen' = [seen EXCEPT ![n] = Remember(n, m)]
     /\ parts' = [parts EXCEPT ![n][m] =
                    IF Completes(n, p) THEN {} ELSE @ \union {p.index}]
     /\ delivered' = [delivered EXCEPT ![n] =
                        IF Completes(n, p) THEN Append(@, m) ELSE @]
     /\ queue' = [queue EXCEPT ![n] = Relay(n, p)]
  /\ UNCHANGED <<air, scanning, pc, sent, got, failures, restarts>>

\* The inbox is empty: fragments that waited too long are swept out.
Sweep(n) ==
  /\ pc[n] = "pump" /\ inbox[n] = << >>
  /\ \E stale \in SUBSET {m \in Messages : Slow /\ parts[n][m] # {}} :
       parts' = [parts EXCEPT ![n] = [m \in Messages |->
                                        IF m \in stale THEN {} ELSE @[m]]]
  /\ Goto(n, "drive")
  /\ UNCHANGED <<seen, inbox, queue, delivered, air, scanning, sent, got, heard,
                 failures, restarts>>

\* receive() returns the oldest message delivered, if any.
Return(n) ==
  /\ Goto(n, "idle")
  /\ IF delivered[n] = << >> THEN UNCHANGED <<delivered, got>>
     ELSE /\ delivered' = [delivered EXCEPT ![n] = Tail(@)]
          /\ got' = [got EXCEPT ![n][Head(delivered[n])] = IF @ = 2 THEN 2 ELSE @ + 1]

\* Nothing to send, or the advertisement before still holds the air, or the
\* oldest packet's jitter is not over: the packets behind it wait too.
SendNothing(n) ==
  /\ pc[n] = "drive"
  /\ Return(n)
  /\ UNCHANGED <<seen, parts, inbox, queue, air, scanning, sent, heard, failures,
                 restarts>>

\* Scanning stops, the packet is advertised, scanning starts again.
Send(n) ==
  /\ pc[n] = "drive" /\ queue[n] # << >>
  /\ queue' = [queue EXCEPT ![n] = Tail(@)]
  /\ air' = [air EXCEPT ![n] = {Head(queue[n])}]
  /\ scanning' = [scanning EXCEPT ![n] = TRUE]
  /\ Return(n)
  /\ UNCHANGED <<seen, parts, inbox, sent, heard, failures, restarts>>

\* gap_advertise raises: the packet is out of the queue, scanning stopped, and
\* receive() goes on as if nothing had happened.
SendFails(n) ==
  /\ pc[n] = "drive" /\ queue[n] # << >> /\ failures < MaxFailures
  /\ failures' = failures + 1
  /\ queue' = [queue EXCEPT ![n] = Tail(@)]
  /\ scanning' = [scanning EXCEPT ![n] = FALSE]
  /\ Return(n)
  /\ UNCHANGED <<seen, parts, inbox, air, sent, heard, restarts>>

\* The application leaves, deinit(), and is started again, __init__.
Restart(n) ==
  /\ pc[n] = "idle" /\ restarts < MaxRestarts
  /\ restarts' = restarts + 1
  /\ seen' = [seen EXCEPT ![n] = << >>]
  /\ parts' = [parts EXCEPT ![n] = [m \in Messages |-> {}]]
  /\ inbox' = [inbox EXCEPT ![n] = << >>]
  /\ queue' = [queue EXCEPT ![n] = << >>]
  /\ delivered' = [delivered EXCEPT ![n] = << >>]
  /\ air' = [air EXCEPT ![n] = {}]
  /\ scanning' = [scanning EXCEPT ![n] = TRUE]
  /\ UNCHANGED <<pc, sent, got, heard, failures>>

-----------------------------------------------------------------------------
ReceiveStep(n) == Receive(n) \/ DropSeen(n) \/ TakeNew(n) \/ Sweep(n) \/ SendNothing(n)

Next ==
  \/ \E n \in Talkers : Broadcast(n)
  \/ \E n \in Node : ReceiveStep(n) \/ Send(n) \/ SendFails(n) \/ Restart(n)
  \/ \E l \in Links : Hear(l)

Spec == Init /\ [][Next]_vars

\* The application keeps polling receive(), which takes packets out of the
\* inbox faster than an advertiser sends them, one every ADV_INTERVAL_US; and
\* time goes on, so that no hold and no jitter lasts for ever.  That a packet
\* is heard is not assumed.
FairSpec ==
  /\ Spec
  /\ \A n \in Node : WF_vars(ReceiveStep(n)) /\ SF_vars(Sweep(n)) /\ SF_vars(Send(n))

-----------------------------------------------------------------------------
(* Properties.                                                             *)

Held(s) == {s[i] : i \in DOMAIN s}

\* Every variable has its type; the cache and the inbox keep to their sizes.
TypeOK ==
  /\ \A n \in Node :
       /\ Held(seen[n]) \subseteq 1..messages /\ Len(seen[n]) <= SeenSize
       /\ Held(inbox[n]) \union Held(queue[n]) \union air[n] \subseteq Packets
       /\ Len(inbox[n]) <= InboxSize /\ Len(queue[n]) <= MaxQueue
       /\ Cardinality(air[n]) <= 1
       /\ Held(delivered[n]) \subseteq 1..messages
       /\ \A m \in Messages : parts[n][m] \subseteq 0..(MaxFrags - 1)
  /\ scanning \in [Node -> BOOLEAN]
  /\ pc \in [Node -> {"idle", "pump", "drive"}]
  /\ messages \in 0..MaxMessages
  /\ sender \in [1..messages -> Node] /\ total \in [1..messages -> 1..MaxFrags]
  /\ reach \in [1..messages -> Ttls]
  /\ failures \in 0..MaxFailures /\ restarts \in 0..MaxRestarts

\* As long as no more messages are about than SeenCache remembers, and no node
\* has been restarted, a message is returned at most once to an application,
\* and never to the one that broadcast it: the flood does not come back.
DeliveredOnce ==
  messages <= SeenSize /\ restarts = 0 =>
    \A n \in Node, m \in 1..messages :
      got[n][m] + Cardinality({i \in DOMAIN delivered[n] : delivered[n][i] = m})
        <= IF sender[m] = n THEN 0 ELSE 1

\* A packet may be k hops further than its ttl and the relays so far account
\* for; a message may be where its ttl and one hop lead.
Near(n, p, k) == p.ttl + Hops[<<sender[p.message], n>>] <= reach[p.message] + k
InRange(n, m) == Hops[<<sender[m], n>>] <= reach[m] + 1

\* What a packet's ttl leaves it: a node that holds one is as near to its
\* sender as the relays so far allow, whatever was evicted, lost or restarted.
TtlBoundsDistance ==
  \A n \in Node : /\ \A p \in Held(queue[n]) \union air[n] : Near(n, p, 0)
                  /\ \A p \in Held(inbox[n]) : Near(n, p, 1)

\* A message reaches no application further from its sender than its ttl and
\* one hop more.
DeliveredInRange ==
  \A n \in Node, m \in 1..messages : got[n][m] > 0 => InRange(n, m)

\* The shape of what is under way, and that it stems from messages sent.
Sent == [message : 1..messages, index : Nat, ttl : Nat]
Stemming ==
  /\ messages \in 0..MaxMessages
  /\ sender \in Seq(Node) /\ Len(sender) = messages
  /\ reach \in Seq(Nat) /\ Len(reach) = messages
  /\ queue \in [Node -> Seq(Sent)] /\ inbox \in [Node -> Seq(Sent)]
  /\ air \in [Node -> SUBSET Sent]
  /\ delivered \in [Node -> Seq(1..messages)]
  /\ got \in [Node -> [Messages -> 0..2]]
  /\ \A n \in Node, m \in Messages : got[n][m] > 0 => m <= messages

\* What waits for the application to ask for it came no further either.
WaitingInRange == \A n \in Node : \A m \in Held(delivered[n]) : InRange(n, m)

\* The inductive invariant behind the range of a message.
IInv == Stemming /\ TtlBoundsDistance /\ WaitingInRange /\ DeliveredInRange

\* A packet is never taken from the inbox without effect: once every fragment
\* of a message has been read from the inbox, the message is delivered.
HeardIsDelivered ==
  \A n \in Node, m \in 1..messages :
    heard[n][m] = 0..(total[m] - 1) /\ sender[m] # n =>
      got[n][m] > 0 \/ m \in Held(delivered[n])

\* The same for the messages that fit one fragment.
ShortHeardIsDelivered ==
  restarts = 0 =>
    \A n \in Node, m \in 1..messages :
      total[m] = 1 /\ heard[n][m] # {} /\ sender[m] # n =>
        got[n][m] > 0 \/ m \in Held(delivered[n])

\* A flood ends, unless there have been more messages than SeenCache remembers: the
\* nodes come to have nothing left to send, although what is on the air is heard again
\* and again.
FloodEnds == <>[](messages <= SeenSize => \A n \in Node : queue[n] = << >>)
=============================================================================
