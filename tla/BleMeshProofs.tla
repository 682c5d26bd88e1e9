--------------------------- MODULE BleMeshProofs ---------------------------
(***************************************************************************)
(* Proofs about module BleMesh, for any nodes, any links between them and  *)
(* any messages: whatever is lost, repeated, forgotten or restarted, a     *)
(* message goes no further from its sender than its ttl and one hop more;  *)
(* until a node is restarted, what fits one fragment is delivered where it *)
(* is heard, and nothing is delivered twice.                               *)
(***************************************************************************)
EXTENDS BleMesh, FiniteSetTheorems, TLAPS

-----------------------------------------------------------------------------
(* What a sequence holds.                                                  *)

\* An empty sequence holds nothing.
LEMMA HeldEmpty == Held(<< >>) = {}
BY DEF Held

\* What is held has the type of the elements.
LEMMA HeldType ==
  ASSUME NEW S, NEW s \in Seq(S)
  PROVE  Held(s) \subseteq S
BY DEF Held

\* A sequence over some elements is one over more.
LEMMA Wider ==
  ASSUME NEW S, NEW T, S \subseteq T, NEW s \in Seq(S)
  PROVE  s \in Seq(T)
OBVIOUS

\* Appending adds the element and nothing else.
LEMMA HeldAppend ==
  ASSUME NEW S, NEW s \in Seq(S), NEW e \in S
  PROVE  Append(s, e) \in Seq(S) /\ Held(Append(s, e)) \subseteq Held(s) \union {e}
<1>1. \A i \in 1..Len(s) + 1 : Append(s, e)[i] = IF i \in 1..Len(s) THEN s[i] ELSE e
  OBVIOUS
<1>2. DOMAIN Append(s, e) = 1..Len(s) + 1 /\ DOMAIN s = 1..Len(s)
  OBVIOUS
<1>3. QED
  BY <1>1, <1>2 DEF Held

\* The head comes from the sequence, and the tail holds no more than it did.
LEMMA HeldTail ==
  ASSUME NEW S, NEW s \in Seq(S), s # << >>
  PROVE  /\ Tail(s) \in Seq(S) /\ Held(Tail(s)) \subseteq Held(s)
         /\ Head(s) \in S /\ Head(s) \in Held(s)
BY DEF Held

\* Joining two sequences adds nothing to what they hold.
LEMMA HeldConcat ==
  ASSUME NEW S, NEW s \in Seq(S), NEW t \in Seq(S)
  PROVE  s \o t \in Seq(S) /\ Held(s \o t) \subseteq Held(s) \union Held(t)
<1>1. /\ Len(s) \in Nat /\ Len(t) \in Nat
      /\ DOMAIN (s \o t) = 1..Len(s) + Len(t)
      /\ DOMAIN s = 1..Len(s) /\ DOMAIN t = 1..Len(t)
  OBVIOUS
<1>2. ASSUME NEW i \in 1..Len(s) + Len(t)
      PROVE  (s \o t)[i] \in Held(s) \union Held(t)
  <2>1. CASE i <= Len(s)
    <3>1. (s \o t)[i] = s[i] /\ i \in DOMAIN s
      BY <2>1, <1>1
    <3>2. QED
      BY <3>1 DEF Held
  <2>2. CASE i > Len(s)
    <3>1. (s \o t)[i] = t[i - Len(s)] /\ i - Len(s) \in DOMAIN t
      BY <2>2, <1>1
    <3>2. QED
      BY <3>1 DEF Held
  <2>3. QED
    BY <2>1, <2>2, <1>1
<1>3. Held(s \o t) \subseteq Held(s) \union Held(t)
  BY <1>1, <1>2 DEF Held
<1>4. QED
  BY <1>3

-----------------------------------------------------------------------------
(* The invariant, node by node.                                            *)

\* What each node's queue, radio, inbox, application and history may hold.
QueueFine(n, q) == q \in Seq(Sent) /\ \A p \in Held(q) : Near(n, p, 0)
AirFine(n, a) == a \subseteq Sent /\ \A p \in a : Near(n, p, 0)
InboxFine(n, b) == b \in Seq(Sent) /\ \A p \in Held(b) : Near(n, p, 1)
WaitFine(n, d) == d \in Seq(1..messages) /\ \A m \in Held(d) : InRange(n, m)
GotFine(n, g) ==
  /\ g \in [Messages -> 0..2]
  /\ \A m \in Messages : g[m] > 0 => m <= messages /\ InRange(n, m)

Fine(n) ==
  /\ QueueFine(n, queue[n]) /\ AirFine(n, air[n]) /\ InboxFine(n, inbox[n])
  /\ WaitFine(n, delivered[n]) /\ GotFine(n, got[n])

\* What has been broadcast, and that each node has what it should.
History ==
  /\ messages \in 0..MaxMessages
  /\ sender \in Seq(Node) /\ Len(sender) = messages
  /\ reach \in Seq(Nat) /\ Len(reach) = messages
Domains ==
  \A f \in {queue, air, inbox, delivered, got} : f = [n \in Node |-> f[n]]

AllFine == \A n \in Node : Fine(n)

\* The invariant taken apart, node by node,
LEMMA Apart == IInv => History /\ Domains /\ AllFine
<1> SUFFICES ASSUME IInv PROVE History /\ Domains /\ AllFine
  OBVIOUS
<1>1. History /\ Domains
  BY DEF IInv, Stemming, History, Domains
<1>2. ASSUME NEW n \in Node PROVE Fine(n)
  <2>1. QueueFine(n, queue[n]) /\ AirFine(n, air[n]) /\ InboxFine(n, inbox[n])
    BY DEF IInv, Stemming, TtlBoundsDistance, QueueFine, AirFine, InboxFine
  <2>2. WaitFine(n, delivered[n])
    BY DEF IInv, Stemming, WaitingInRange, WaitFine
  <2>3. GotFine(n, got[n])
    BY MeshAssumption DEF IInv, Stemming, DeliveredInRange, GotFine, Messages
  <2>4. QED
    BY <2>1, <2>2, <2>3 DEF Fine
<1>3. QED
  BY <1>1, <1>2 DEF AllFine

\* ... and put together again.
LEMMA Together == History /\ Domains /\ AllFine => IInv
<1> SUFFICES ASSUME History, Domains, \A n \in Node : Fine(n) PROVE IInv
  BY DEF AllFine
<1>1. Stemming
  <2>1. /\ queue \in [Node -> Seq(Sent)] /\ inbox \in [Node -> Seq(Sent)]
        /\ air \in [Node -> SUBSET Sent]
    BY DEF Domains, Fine, QueueFine, AirFine, InboxFine
  <2>2. /\ delivered \in [Node -> Seq(1..messages)]
        /\ got \in [Node -> [Messages -> 0..2]]
    BY DEF Domains, Fine, WaitFine, GotFine
  <2>3. QED
    BY <2>1, <2>2 DEF History, Stemming, Fine, GotFine
<1>2. TtlBoundsDistance
  BY DEF Fine, TtlBoundsDistance, QueueFine, AirFine, InboxFine
<1>3. WaitingInRange /\ DeliveredInRange
  BY MeshAssumption DEF History, Fine, WaitingInRange, DeliveredInRange, WaitFine, GotFine,
                        Messages
<1>4. QED
  BY <1>1, <1>2, <1>3 DEF IInv

-----------------------------------------------------------------------------
(* What a node does with what it holds.                                    *)

\* Sending the head of the queue leaves queue and radio fine.
LEMMA QueueTail ==
  ASSUME NEW n, NEW q, QueueFine(n, q), q # << >>
  PROVE  QueueFine(n, Tail(q)) /\ AirFine(n, {Head(q)})
<1>1. /\ Tail(q) \in Seq(Sent) /\ Held(Tail(q)) \subseteq Held(q)
      /\ Head(q) \in Sent /\ Head(q) \in Held(q)
  BY HeldTail DEF QueueFine
<1>2. QED
  BY <1>1 DEF QueueFine, AirFine

\* Taking a packet from the inbox leaves the rest fine, and the packet near.
LEMMA InboxTail ==
  ASSUME NEW n, NEW b, InboxFine(n, b), b # << >>
  PROVE  InboxFine(n, Tail(b)) /\ Head(b) \in Sent /\ Near(n, Head(b), 1)
<1>1. /\ Tail(b) \in Seq(Sent) /\ Held(Tail(b)) \subseteq Held(b)
      /\ Head(b) \in Sent /\ Head(b) \in Held(b)
  BY HeldTail DEF InboxFine
<1>2. QED
  BY <1>1 DEF InboxFine

\* A near packet may join the inbox.
LEMMA InboxAppend ==
  ASSUME NEW n, NEW b, InboxFine(n, b), NEW p \in Sent, Near(n, p, 1)
  PROVE  InboxFine(n, Append(b, p))
<1>1. Append(b, p) \in Seq(Sent) /\ Held(Append(b, p)) \subseteq Held(b) \union {p}
  BY HeldAppend DEF InboxFine
<1>2. QED
  BY <1>1 DEF InboxFine

\* Returning a message leaves the rest fine, and the message is in range.
LEMMA WaitTail ==
  ASSUME NEW n, NEW d, WaitFine(n, d), d # << >>
  PROVE  WaitFine(n, Tail(d)) /\ Head(d) \in 1..messages /\ InRange(n, Head(d))
<1>1. /\ Tail(d) \in Seq(1..messages) /\ Held(Tail(d)) \subseteq Held(d)
      /\ Head(d) \in 1..messages /\ Head(d) \in Held(d)
  BY HeldTail DEF WaitFine
<1>2. QED
  BY <1>1 DEF WaitFine

\* A packet one hop beyond may be relayed with one hop less to go, and its
\* message handed to the application.
LEMMA RelayFine ==
  ASSUME History, NEW n \in Node, NEW p \in Sent, Near(n, p, 1), QueueFine(n, queue[n])
  PROVE  QueueFine(n, Relay(n, p)) /\ InRange(n, p.message)
<1>1. /\ p.ttl \in Nat /\ p.message \in 1..messages
      /\ reach[p.message] \in Nat /\ sender[p.message] \in Node
      /\ Hops[<<sender[p.message], n>>] \in Nat
  BY MeshAssumption DEF Sent, History
<1>2. InRange(n, p.message)
  BY <1>1 DEF InRange, Near
<1>3. CASE p.ttl > 0
  <2> DEFINE r == [p EXCEPT !.ttl = @ - 1]
  <2>1. r \in Sent /\ r.ttl = p.ttl - 1 /\ r.message = p.message
    BY <1>1, <1>3 DEF Sent
  <2>2. Near(n, r, 0)
    BY <2>1, <1>1 DEF Near
  <2>3. /\ Append(queue[n], r) \in Seq(Sent)
        /\ Held(Append(queue[n], r)) \subseteq Held(queue[n]) \union {r}
    BY <2>1, HeldAppend DEF QueueFine
  <2>4. QED
    BY <1>2, <1>3, <2>2, <2>3 DEF Relay, QueueFine
<1>4. CASE ~(p.ttl > 0)
  BY <1>2, <1>4 DEF Relay
<1>5. QED
  BY <1>3, <1>4

\* What one radio advertises is heard a hop further.
LEMMA HeardNear ==
  ASSUME History, NEW l \in Links, NEW p \in air[l[1]], AirFine(l[1], air[l[1]])
  PROVE  p \in Sent /\ Near(l[2], p, 1)
<1>1. /\ p \in Sent /\ l[1] \in Node /\ l[2] \in Node
      /\ p.ttl \in Nat /\ p.message \in 1..messages
      /\ reach[p.message] \in Nat /\ sender[p.message] \in Node
  BY MeshAssumption DEF AirFine, Sent, History
<1>2. /\ Hops[<<sender[p.message], l[2]>>] <= Hops[<<sender[p.message], l[1]>>] + 1
      /\ Hops[<<sender[p.message], l[1]>>] \in Nat /\ Hops[<<sender[p.message], l[2]>>] \in Nat
  BY <1>1, MeshAssumption
<1>3. Near(l[1], p, 0)
  BY DEF AirFine
<1>4. QED
  BY <1>1, <1>2, <1>3 DEF Near

\* A node that has just been made holds nothing, which is fine.
LEMMA EmptyFine ==
  ASSUME NEW n
  PROVE  QueueFine(n, << >>) /\ InboxFine(n, << >>) /\ AirFine(n, {}) /\ WaitFine(n, << >>)
BY HeldEmpty DEF QueueFine, InboxFine, AirFine, WaitFine

-----------------------------------------------------------------------------
(* Every step keeps the invariant.                                         *)

\* As long as nothing is broadcast, the past stays what it was, and only what
\* a node holds has to be looked at.
FineNext(n) ==
  /\ QueueFine(n, queue'[n]) /\ AirFine(n, air'[n]) /\ InboxFine(n, inbox'[n])
  /\ WaitFine(n, delivered'[n]) /\ GotFine(n, got'[n])

LEMMA SamePast ==
  ASSUME History, UNCHANGED sent, Domains', \A n \in Node : FineNext(n)
  PROVE  IInv'
<1>1. sender' = sender /\ reach' = reach /\ messages' = messages
  BY DEF sent
<1>2. History'
  BY <1>1 DEF History
<1>3. ASSUME NEW n \in Node PROVE Fine(n)'
  <2>1. FineNext(n) /\ Sent' = Sent
    BY <1>1 DEF Sent
  <2>2. QueueFine(n, queue[n])' /\ AirFine(n, air[n])' /\ InboxFine(n, inbox[n])'
    BY <1>1, <2>1 DEF FineNext, QueueFine, AirFine, InboxFine, Near
  <2>3. WaitFine(n, delivered[n])' /\ GotFine(n, got[n])'
    BY <1>1, <2>1 DEF FineNext, WaitFine, GotFine, InRange
  <2>4. QED
    BY <2>2, <2>3 DEF Fine
<1>4. (History /\ Domains /\ AllFine)' => IInv'
  BY Together, PTL
<1>5. QED
  BY <1>2, <1>3, <1>4 DEF AllFine

\* The usual case: only one node's possessions change.
Same(k) ==
  /\ queue'[k] = queue[k] /\ air'[k] = air[k] /\ inbox'[k] = inbox[k]
  /\ delivered'[k] = delivered[k] /\ got'[k] = got[k]

LEMMA OneNode ==
  ASSUME IInv, UNCHANGED sent, Domains', NEW n \in Node, FineNext(n),
         \A k \in Node \ {n} : Same(k)
  PROVE  IInv'
<1>1. History /\ \A k \in Node : Fine(k)
  BY Apart DEF AllFine
<1>2. \A k \in Node : FineNext(k)
  BY <1>1 DEF Fine, FineNext, Same
<1>3. QED
  BY <1>1, <1>2, SamePast

\* Hearing a packet.
LEMMA HearKeeps ==
  ASSUME IInv, NEW l \in Links, Hear(l)
  PROVE  IInv'
<1> DEFINE n == l[2]
<1>1. History /\ Domains /\ (\A k \in Node : Fine(k)) /\ l[1] \in Node /\ n \in Node
  BY Apart, MeshAssumption DEF AllFine
<1>2. PICK p \in air[l[1]] :
        inbox' = [inbox EXCEPT ![n] =
                    IF Len(@) = InboxSize THEN Append(Tail(@), p) ELSE Append(@, p)]
  BY DEF Hear
<1>3. p \in Sent /\ Near(n, p, 1)
  BY <1>1, HeardNear DEF Fine
<1>4. InboxFine(n, inbox'[n])
  <2>1. InboxFine(n, inbox[n]) /\ inbox'[n] = IF Len(inbox[n]) = InboxSize
                                             THEN Append(Tail(inbox[n]), p)
                                             ELSE Append(inbox[n], p)
    BY <1>1, <1>2 DEF Fine, Domains
  <2>2. CASE Len(inbox[n]) = InboxSize
    <3>1. inbox[n] # << >>
      BY <2>2, MeshAssumption
    <3>2. InboxFine(n, Tail(inbox[n]))
      BY <3>1, <2>1, InboxTail
    <3>3. QED
      BY <3>2, <2>1, <2>2, <1>3, InboxAppend
  <2>3. CASE Len(inbox[n]) # InboxSize
    BY <2>1, <2>3, <1>3, InboxAppend
  <2>4. QED
    BY <2>2, <2>3
<1>5. UNCHANGED <<queue, air, delivered, got, sent>>
  BY DEF Hear
<1>6. FineNext(n) /\ Domains' /\ \A k \in Node \ {n} : Same(k)
  BY <1>1, <1>2, <1>4, <1>5 DEF Fine, FineNext, Domains, Same
<1>7. QED
  BY <1>1, <1>5, <1>6, OneNode

\* A packet leaves the inbox, whether or not anything is made of it.
LEMMA DropSeenKeeps ==
  ASSUME IInv, NEW n \in Node, DropSeen(n)
  PROVE  IInv'
<1>1. Domains /\ Fine(n)
  BY Apart DEF AllFine
<1>2. inbox' = [inbox EXCEPT ![n] = Tail(inbox[n])] /\ inbox[n] # << >>
  BY DEF DropSeen, Pumping
<1>3. UNCHANGED <<queue, air, delivered, got, sent>>
  BY DEF DropSeen
<1>4. InboxFine(n, Tail(inbox[n]))
  BY <1>1, <1>2, InboxTail DEF Fine
<1>5. FineNext(n) /\ Domains' /\ \A k \in Node \ {n} : Same(k)
  BY <1>1, <1>2, <1>3, <1>4 DEF Fine, FineNext, Domains, Same
<1>6. QED
  BY <1>3, <1>5, OneNode

\* A new packet: delivered, relayed, or both.
LEMMA TakeNewKeeps ==
  ASSUME IInv, NEW n \in Node, TakeNew(n)
  PROVE  IInv'
<1> DEFINE p == Head(inbox[n])
<1>1. History /\ Domains /\ Fine(n)
  BY Apart DEF AllFine
<1>2. /\ inbox' = [inbox EXCEPT ![n] = Tail(inbox[n])] /\ inbox[n] # << >>
      /\ queue' = [queue EXCEPT ![n] = Relay(n, p)]
      /\ \/ delivered' = [delivered EXCEPT ![n] = Append(delivered[n], p.message)]
         \/ delivered' = [delivered EXCEPT ![n] = delivered[n]]
  BY DEF TakeNew, Pumping
<1>3. UNCHANGED <<air, got, sent>>
  BY DEF TakeNew
<1>4. InboxFine(n, Tail(inbox[n])) /\ p \in Sent /\ Near(n, p, 1)
  BY <1>1, <1>2, InboxTail DEF Fine
<1>5. QueueFine(n, Relay(n, p)) /\ InRange(n, p.message)
  BY <1>1, <1>4, RelayFine DEF Fine
<1>6. WaitFine(n, Append(delivered[n], p.message))
  <2>1. p.message \in 1..messages /\ WaitFine(n, delivered[n])
    BY <1>1, <1>4 DEF Sent, Fine
  <2> HIDE DEF p
  <2>2. /\ Append(delivered[n], p.message) \in Seq(1..messages)
        /\ Held(Append(delivered[n], p.message)) \subseteq Held(delivered[n]) \union {p.message}
    <3>1. delivered[n] \in Seq(1..messages)
      BY <2>1 DEF WaitFine
    <3>2. QED
      BY <2>1, <3>1, HeldAppend
  <2>3. QED
    BY <1>5, <2>1, <2>2 DEF WaitFine
<1>7. FineNext(n)
  BY <1>1, <1>2, <1>3, <1>4, <1>5, <1>6 DEF Fine, FineNext, Domains
<1>8. Domains' /\ \A k \in Node \ {n} : Same(k)
  <2>1. /\ inbox' = [inbox EXCEPT ![n] = inbox'[n]] /\ queue' = [queue EXCEPT ![n] = queue'[n]]
        /\ delivered' = [delivered EXCEPT ![n] = delivered'[n]]
    BY <1>1, <1>2 DEF Domains
  <2>2. QED
    BY <1>1, <1>3, <2>1 DEF Domains, Same
<1>9. QED
  BY <1>3, <1>7, <1>8, OneNode

\* receive() returns what waited.
LEMMA ReturnFine ==
  ASSUME IInv, NEW n \in Node, Return(n)
  PROVE  /\ WaitFine(n, delivered'[n]) /\ GotFine(n, got'[n])
         /\ delivered' = [delivered EXCEPT ![n] = delivered'[n]]
         /\ got' = [got EXCEPT ![n] = got'[n]]
<1>1. History /\ Domains /\ Fine(n)
  BY Apart DEF AllFine
<1>2. CASE delivered[n] = << >>
  BY <1>1, <1>2 DEF Return, Fine, Domains
<1>3. CASE delivered[n] # << >>
  <2> DEFINE m == Head(delivered[n])
  <2>1. /\ delivered' = [delivered EXCEPT ![n] = Tail(delivered[n])]
        /\ got' = [got EXCEPT ![n] = [got[n] EXCEPT ![m] = IF @ = 2 THEN 2 ELSE @ + 1]]
    BY <1>3 DEF Return
  <2>2. WaitFine(n, Tail(delivered[n])) /\ m \in 1..messages /\ InRange(n, m)
    BY <1>1, <1>3, WaitTail DEF Fine
  <2>3. m \in Messages /\ m <= messages
    BY <1>1, <2>2, MeshAssumption DEF History, Messages
  <2>4. GotFine(n, [got[n] EXCEPT ![m] = IF @ = 2 THEN 2 ELSE @ + 1])
    BY <1>1, <2>2, <2>3 DEF Fine, GotFine
  <2>5. QED
    BY <1>1, <2>1, <2>2, <2>4 DEF Domains
<1>4. QED
  BY <1>2, <1>3

\* receive() without anything to send.
LEMMA SendNothingKeeps ==
  ASSUME IInv, NEW n \in Node, SendNothing(n)
  PROVE  IInv'
<1>1. Domains /\ Fine(n)
  BY Apart DEF AllFine
<1>2. Return(n) /\ UNCHANGED <<queue, air, inbox, sent>>
  BY DEF SendNothing
<1>3. FineNext(n) /\ Domains' /\ \A k \in Node \ {n} : Same(k)
  BY <1>1, <1>2, ReturnFine DEF Fine, FineNext, Domains, Same
<1>4. QED
  BY <1>2, <1>3, OneNode

\* Sending, whether or not the radio takes the packet.
LEMMA SendKeeps ==
  ASSUME IInv, NEW n \in Node, Send(n) \/ SendFails(n)
  PROVE  IInv'
<1>1. Domains /\ Fine(n)
  BY Apart DEF AllFine
<1>2. /\ queue' = [queue EXCEPT ![n] = Tail(queue[n])] /\ queue[n] # << >>
      /\ air' = [air EXCEPT ![n] = {Head(queue[n])}] \/ air' = air
  BY DEF Send, SendFails
<1>3. Return(n) /\ UNCHANGED <<inbox, sent>>
  BY DEF Send, SendFails
<1>4. QueueFine(n, Tail(queue[n])) /\ AirFine(n, {Head(queue[n])})
  BY <1>1, <1>2, QueueTail DEF Fine
<1>5. FineNext(n)
  BY <1>1, <1>2, <1>3, <1>4, ReturnFine DEF Fine, FineNext, Domains
<1>6. Domains'
  BY <1>1, <1>2, <1>3, ReturnFine DEF Domains
<1>7. \A k \in Node \ {n} : Same(k)
  BY <1>1, <1>2, <1>3, ReturnFine DEF Domains, Same
<1>8. QED
  BY <1>3, <1>5, <1>6, <1>7, OneNode

\* A node deinitialised and made anew.
LEMMA RestartKeeps ==
  ASSUME IInv, NEW n \in Node, Restart(n)
  PROVE  IInv'
<1>1. Domains /\ Fine(n)
  BY Apart DEF AllFine
<1>2. /\ queue' = [queue EXCEPT ![n] = << >>] /\ inbox' = [inbox EXCEPT ![n] = << >>]
      /\ air' = [air EXCEPT ![n] = {}] /\ delivered' = [delivered EXCEPT ![n] = << >>]
      /\ UNCHANGED <<got, sent>>
  BY DEF Restart
<1>3. FineNext(n)
  BY <1>1, <1>2, EmptyFine DEF Fine, FineNext, Domains
<1>4. Domains' /\ \A k \in Node \ {n} : Same(k)
  BY <1>1, <1>2 DEF Domains, Same
<1>5. QED
  BY <1>2, <1>3, <1>4, OneNode

\* A new message leaves the others what they were, and its own fragments are
\* where they start from.
LEMMA BroadcastKeeps ==
  ASSUME IInv, NEW n \in Node, Broadcast(n)
  PROVE  IInv'
<1> DEFINE m == messages + 1
<1>1. History /\ Domains /\ \A k \in Node : Fine(k)
  BY Apart DEF AllFine
<1>2. PICK k \in 1..MaxFrags, ttl \in Ttls :
        /\ reach' = Append(reach, ttl)
        /\ queue' = [queue EXCEPT ![n] = queue[n] \o Fragments(m, k, ttl)]
  BY DEF Broadcast
<1>3. /\ messages' = m /\ sender' = Append(sender, n) /\ messages < MaxMessages
      /\ UNCHANGED <<air, inbox, delivered, got>>
  BY DEF Broadcast
<1>4. ttl \in Nat /\ k \in Nat /\ messages \in Nat /\ m \in Nat
  BY <1>1, MeshAssumption DEF History
<1>5. History'
  BY <1>1, <1>2, <1>3, <1>4, MeshAssumption DEF History
<1>6. /\ \A i \in 1..messages : sender'[i] = sender[i] /\ reach'[i] = reach[i]
      /\ sender'[m] = n /\ reach'[m] = ttl
  BY <1>1, <1>2, <1>3, <1>4 DEF History
<1>7. Sent \subseteq Sent' /\ 1..messages \subseteq 1..m
  BY <1>3, <1>4 DEF Sent
<1>8. \A S : \A s \in Seq(S) : Held(s) \subseteq S
  BY HeldType
<1>9. ASSUME NEW j, NEW p \in Sent, NEW c, Near(j, p, c)
      PROVE  p.ttl + Hops[<<sender'[p.message], j>>] <= reach'[p.message] + c
  BY <1>6, <1>9 DEF Sent, Near
<1>10. ASSUME NEW j, NEW q, QueueFine(j, q)
       PROVE  /\ q \in Seq(Sent')
              /\ \A p \in Held(q) : p.ttl + Hops[<<sender'[p.message], j>>] <= reach'[p.message] + 0
  BY <1>7, <1>8, <1>9, <1>10 DEF QueueFine
<1>11. ASSUME NEW j \in Node
       PROVE  AirFine(j, air[j])' /\ InboxFine(j, inbox[j])'
  <2>1. /\ air[j] \subseteq Sent'
        /\ \A p \in air[j] : p.ttl + Hops[<<sender'[p.message], j>>] <= reach'[p.message] + 0
    BY <1>1, <1>7, <1>9 DEF Fine, AirFine
  <2>2. /\ inbox[j] \in Seq(Sent')
        /\ \A p \in Held(inbox[j]) : p.ttl + Hops[<<sender'[p.message], j>>] <= reach'[p.message] + 1
    BY <1>1, <1>7, <1>8, <1>9 DEF Fine, InboxFine
  <2>3. QED
    BY <1>3, <2>1, <2>2 DEF AirFine, InboxFine, Near
<1>12. \A j : \A i \in 1..messages : InRange(j, i) => Hops[<<sender'[i], j>>] <= reach'[i] + 1
  BY <1>6 DEF InRange
<1>13. ASSUME NEW j \in Node
       PROVE  WaitFine(j, delivered[j])' /\ GotFine(j, got[j])'
  <2>1. /\ delivered[j] \in Seq(1..messages) /\ Held(delivered[j]) \subseteq 1..messages
        /\ \A i \in Held(delivered[j]) : InRange(j, i)
    BY <1>1, <1>8 DEF Fine, WaitFine
  <2>2. /\ delivered[j] \in Seq(1..m)
        /\ \A i \in Held(delivered[j]) : Hops[<<sender'[i], j>>] <= reach'[i] + 1
    <3> HIDE DEF m
    <3>1. delivered[j] \in Seq(1..m)
      BY <2>1, <1>7, Wider
    <3>2. QED
      BY <2>1, <3>1, <1>12
  <2>3. /\ got[j] \in [Messages -> 0..2]
        /\ \A i \in Messages : got[j][i] > 0 => i <= messages /\ InRange(j, i)
    BY <1>1 DEF Fine, GotFine
  <2>4. \A i \in Messages : i <= messages => i \in 1..messages /\ i <= m
    BY <1>4, MeshAssumption DEF Messages
  <2>5. \A i \in Messages : got[j][i] > 0 => i <= m /\ Hops[<<sender'[i], j>>] <= reach'[i] + 1
    BY <2>3, <2>4, <1>12
  <2>6. QED
    BY <1>3, <2>2, <2>3, <2>5 DEF WaitFine, GotFine, InRange
<1>14. ASSUME NEW j \in Node
       PROVE  QueueFine(j, queue[j])'
  <2>1. CASE j # n
    <3>1. queue'[j] = queue[j] /\ QueueFine(j, queue[j])
      BY <1>1, <1>2, <2>1 DEF Domains, Fine
    <3>2. QED
      BY <3>1, <1>10 DEF QueueFine, Near
  <2>2. CASE j = n
    <3> DEFINE f == Fragments(m, k, ttl)
    <3>1. f \in Seq(Sent') /\ \A p \in Held(f) : p.message = m /\ p.ttl = ttl
      BY <1>3, <1>4 DEF Fragments, Sent, Held
    <3>2. \A p \in Held(f) : p.ttl + Hops[<<sender'[p.message], n>>] <= reach'[p.message] + 0
      BY <3>1, <1>4, <1>6, MeshAssumption
    <3>3. /\ queue[n] \in Seq(Sent')
          /\ \A p \in Held(queue[n]) : p.ttl + Hops[<<sender'[p.message], n>>] <= reach'[p.message] + 0
      BY <1>1, <1>10 DEF Fine
    <3>4. queue'[n] = queue[n] \o f
      BY <1>1, <1>2 DEF Domains
    <3> HIDE DEF f
    <3>5. /\ queue[n] \o f \in Seq(Sent')
          /\ Held(queue[n] \o f) \subseteq Held(queue[n]) \union Held(f)
      BY <3>1, <3>3, HeldConcat
    <3>6. QED
      BY <2>2, <3>2, <3>3, <3>4, <3>5 DEF QueueFine, Near
  <2>3. QED
    BY <2>1, <2>2
<1>15. Domains'
  BY <1>1, <1>2, <1>3 DEF Domains
<1>16. \A j \in Node : Fine(j)'
  BY <1>11, <1>13, <1>14 DEF Fine
<1>17. (History /\ Domains /\ AllFine)' => IInv'
  BY Together, PTL
<1>18. QED
  BY <1>5, <1>15, <1>16, <1>17 DEF AllFine

-----------------------------------------------------------------------------
\* A step that moves no packet and no message.
LEMMA Unmoved ==
  ASSUME IInv, UNCHANGED <<queue, air, inbox, delivered, got, sent>>
  PROVE  IInv'
<1>1. History /\ Domains /\ \A k \in Node : Fine(k)
  BY Apart DEF AllFine
<1>2. Domains' /\ \A k \in Node : FineNext(k)
  BY <1>1 DEF Domains, Fine, FineNext
<1>3. QED
  BY <1>1, <1>2, SamePast

\* In every reachable state what is under way, waiting or returned is where
\* its ttl allows it to be.
THEOREM Invariance == Spec => []IInv
<1>1. Init => IInv
  BY MeshAssumption, HeldEmpty
  DEF Init, IInv, Stemming, TtlBoundsDistance, WaitingInRange, DeliveredInRange, Messages
<1>2. IInv /\ [Next]_vars => IInv'
  <2>1. SUFFICES ASSUME IInv, [Next]_vars PROVE IInv'
    OBVIOUS
  <2>2. CASE UNCHANGED vars
    BY <2>1, <2>2, Unmoved DEF vars, node
  <2>3. ASSUME NEW n \in Talkers, Broadcast(n) PROVE IInv'
    BY <2>1, <2>3, BroadcastKeeps, MeshAssumption
  <2>4. ASSUME NEW l \in Links, Hear(l) PROVE IInv'
    BY <2>1, <2>4, HearKeeps
  <2>5. ASSUME NEW n \in Node, Receive(n) \/ Sweep(n) PROVE IInv'
    BY <2>1, <2>5, Unmoved DEF Receive, Sweep
  <2>6. ASSUME NEW n \in Node, DropSeen(n) \/ TakeNew(n) \/ SendNothing(n) PROVE IInv'
    BY <2>1, <2>6, DropSeenKeeps, TakeNewKeeps, SendNothingKeeps
  <2>7. ASSUME NEW n \in Node, Send(n) \/ SendFails(n) \/ Restart(n) PROVE IInv'
    BY <2>1, <2>7, SendKeeps, RestartKeeps
  <2>8. QED
    BY <2>1, <2>2, <2>3, <2>4, <2>5, <2>6, <2>7 DEF Next, ReceiveStep
<1>3. QED
  BY <1>1, <1>2, PTL DEF Spec

\* What a packet's ttl leaves it: no node holds a packet further from its
\* sender than the hops its ttl has already been lowered for.
THEOREM PacketsInRange == Spec => []TtlBoundsDistance
<1>1. IInv => TtlBoundsDistance
  BY DEF IInv
<1>2. QED
  BY <1>1, Invariance, PTL

\* No application receives a message from further away than the ttl it was
\* broadcast with and one hop.
THEOREM MessagesInRange == Spec => []DeliveredInRange
<1>1. IInv => DeliveredInRange
  BY DEF IInv
<1>2. QED
  BY <1>1, Invariance, PTL

-----------------------------------------------------------------------------
(* Fragments.  Every packet about is one of the fragments that its message *)
(* was cut into, and what is put together of a message are such fragments. *)

\* A non-empty sequence holds its head and what its tail holds.
LEMMA HeldParts ==
  ASSUME NEW S, NEW s \in Seq(S), s # << >>
  PROVE  Held(s) = {Head(s)} \union Held(Tail(s))
<1>1. Len(s) \in Nat \ {0} /\ Len(Tail(s)) = Len(s) - 1 /\ Tail(s) \in Seq(S)
  OBVIOUS
<1>2. ASSUME NEW i \in 1..Len(s) PROVE s[i] \in {Head(s)} \union Held(Tail(s))
  <2>1. CASE i = 1
    BY <2>1, <1>1
  <2>2. CASE i # 1
    <3>1. i - 1 \in DOMAIN Tail(s) /\ Tail(s)[i - 1] = s[i]
      BY <2>2, <1>1
    <3>2. QED
      BY <3>1 DEF Held
  <2>3. QED
    BY <2>1, <2>2
<1>3. Held(s) \subseteq {Head(s)} \union Held(Tail(s))
  BY <1>1, <1>2 DEF Held
<1>4. QED
  BY <1>3, HeldTail

\* Appending adds just the element.
LEMMA HeldOneMore ==
  ASSUME NEW S, NEW s \in Seq(S), NEW e
  PROVE  Held(Append(s, e)) = Held(s) \union {e}
<1>1. \A i \in 1..Len(s) + 1 : Append(s, e)[i] = IF i \in 1..Len(s) THEN s[i] ELSE e
  OBVIOUS
<1>2. DOMAIN Append(s, e) = 1..Len(s) + 1 /\ DOMAIN s = 1..Len(s) /\ Len(s) + 1 \notin 1..Len(s)
      /\ Len(s) \in Nat
  OBVIOUS
<1>3. QED
  BY <1>1, <1>2 DEF Held

\* All that a node has of other nodes' packets or its own.
About(n) == Held(queue[n]) \union Held(inbox[n]) \union air[n]

PartsFit(f) ==
  /\ f \in [Messages -> SUBSET Nat]
  /\ \A m \in Messages : IF m <= messages THEN f[m] \subseteq 0..(total[m] - 1) ELSE f[m] = {}

Fitting ==
  /\ IInv
  /\ total \in Seq(Nat) /\ Len(total) = messages
  /\ parts = [n \in Node |-> parts[n]]
  /\ \A n \in Node : PartsFit(parts[n]) /\ \A p \in About(n) : p.index < total[p.message]

\* Every packet about is, but for its ttl, one that was about before.
Passed ==
  \A n \in Node : \A p \in About(n)' :
    \E k \in Node : \E q \in About(k) : q.message = p.message /\ q.index = p.index

\* A packet that is about is of a message that was broadcast.
LEMMA AboutSent ==
  ASSUME IInv, NEW n \in Node
  PROVE  /\ About(n) \subseteq Sent
         /\ queue[n] \in Seq(Sent) /\ inbox[n] \in Seq(Sent) /\ air[n] \subseteq Sent
<1>1. queue[n] \in Seq(Sent) /\ inbox[n] \in Seq(Sent) /\ air[n] \subseteq Sent
  BY DEF IInv, Stemming
<1>2. QED
  BY <1>1, HeldType DEF About

\* A packet heard was on the air.
LEMMA HearPasses ==
  ASSUME IInv, NEW l \in Links, Hear(l)
  PROVE  Passed
<1> DEFINE n == l[2]
<1>1. l[1] \in Node /\ n \in Node /\ Domains
  BY Apart, MeshAssumption
<1>2. PICK p \in air[l[1]] :
        inbox' = [inbox EXCEPT ![n] =
                    IF Len(@) = InboxSize THEN Append(Tail(@), p) ELSE Append(@, p)]
  BY DEF Hear
<1>3. UNCHANGED <<queue, air>>
  BY DEF Hear
<1>4. Held(inbox'[n]) \subseteq Held(inbox[n]) \union {p}
  <2>1. inbox[n] \in Seq(Sent) /\ Len(inbox[n]) \in Nat
    BY <1>1, AboutSent
  <2>2. inbox'[n] = IF Len(inbox[n]) = InboxSize THEN Append(Tail(inbox[n]), p)
                    ELSE Append(inbox[n], p)
    BY <1>1, <1>2 DEF Domains
  <2>3. CASE Len(inbox[n]) = InboxSize
    <3>1. inbox[n] # << >>
      BY <2>3, MeshAssumption
    <3>2. Tail(inbox[n]) \in Seq(Sent) /\ Held(Tail(inbox[n])) \subseteq Held(inbox[n])
      BY <2>1, <3>1, HeldTail
    <3>3. QED
      BY <2>2, <2>3, <3>2, HeldOneMore
  <2>4. CASE Len(inbox[n]) # InboxSize
    BY <2>1, <2>2, <2>4, HeldOneMore
  <2>5. QED
    BY <2>3, <2>4
<1>5. p \in About(l[1])
  BY DEF About
<1>6. \A k \in Node : About(k)' \subseteq About(k) \union {p}
  <2>1. \A k \in Node \ {n} : inbox'[k] = inbox[k]
    BY <1>1, <1>2 DEF Domains
  <2>2. QED
    BY <1>3, <1>4, <2>1 DEF About
<1>7. QED
  BY <1>1, <1>5, <1>6 DEF Passed

\* A packet taken from the inbox may be relayed.
LEMMA TakePasses ==
  ASSUME IInv, NEW n \in Node, DropSeen(n) \/ TakeNew(n)
  PROVE  Passed
<1> DEFINE p == Head(inbox[n])
<1>1. Domains
  BY Apart
<1>2. inbox[n] # << >> /\ inbox' = [inbox EXCEPT ![n] = Tail(inbox[n])] /\ UNCHANGED air
  BY DEF DropSeen, TakeNew, Pumping
<1>3. queue' = queue \/ queue' = [queue EXCEPT ![n] = Relay(n, p)]
  BY DEF DropSeen, TakeNew
<1>4. /\ inbox[n] \in Seq(Sent) /\ queue[n] \in Seq(Sent)
      /\ Held(Tail(inbox[n])) \subseteq Held(inbox[n])
      /\ p \in Held(inbox[n]) /\ p \in Sent
  BY <1>2, AboutSent, HeldTail
<1> DEFINE r == [p EXCEPT !.ttl = @ - 1]
<1>5. r.message = p.message /\ r.index = p.index
  BY <1>4 DEF Sent
<1>6. Held(Relay(n, p)) \subseteq Held(queue[n]) \union {r}
  BY <1>4, HeldOneMore DEF Relay
<1>7. \A k \in Node : About(k)' \subseteq About(k) \union {r}
  <2>1. \A k \in Node : Held(inbox'[k]) \subseteq Held(inbox[k])
    BY <1>1, <1>2, <1>4 DEF Domains
  <2>2. \A k \in Node : Held(queue'[k]) \subseteq Held(queue[k]) \union {r}
    <3> HIDE DEF p, r
    <3>1. QED
      BY <1>1, <1>3, <1>6 DEF Domains
  <2>3. QED
    BY <1>2, <2>1, <2>2 DEF About
<1>8. p \in About(n)
  BY <1>4 DEF About
<1> HIDE DEF p, r
<1>9. QED
  BY <1>5, <1>7, <1>8 DEF Passed

\* A packet sent was queued.
LEMMA SendPasses ==
  ASSUME IInv, NEW n \in Node, Send(n) \/ SendFails(n) \/ Restart(n)
  PROVE  Passed
<1>1. Domains
  BY Apart
<1>2. CASE Send(n) \/ SendFails(n)
  <2>1. /\ queue[n] # << >> /\ queue' = [queue EXCEPT ![n] = Tail(queue[n])]
        /\ air' = [air EXCEPT ![n] = {Head(queue[n])}] \/ air' = air
        /\ UNCHANGED inbox
    BY <1>2 DEF Send, SendFails
  <2>2. Held(Tail(queue[n])) \subseteq Held(queue[n]) /\ Head(queue[n]) \in Held(queue[n])
    BY <2>1, AboutSent, HeldTail
  <2>3. \A k \in Node : About(k)' \subseteq About(k)
    BY <1>1, <2>1, <2>2 DEF About, Domains
  <2>4. QED
    BY <2>3 DEF Passed
<1>3. CASE Restart(n)
  <2>1. /\ queue' = [queue EXCEPT ![n] = << >>] /\ inbox' = [inbox EXCEPT ![n] = << >>]
        /\ air' = [air EXCEPT ![n] = {}]
    BY <1>3 DEF Restart
  <2>2. \A k \in Node : About(k)' \subseteq About(k)
    BY <1>1, <2>1, HeldEmpty DEF About, Domains
  <2>3. QED
    BY <2>2 DEF Passed
<1>4. QED
  BY <1>2, <1>3

\* A step without a new message keeps the fragments in order if it keeps the parts so.
LEMMA PassingKeepsFitting ==
  ASSUME Fitting, IInv', Passed, UNCHANGED sent, parts' = [n \in Node |-> parts'[n]],
         \A n \in Node : PartsFit(parts'[n])
  PROVE  Fitting'
<1>1. UNCHANGED <<total, messages>>
  BY DEF sent
<1>2. ASSUME NEW n \in Node, NEW p \in About(n)' PROVE p.index < total[p.message]
  BY <1>2 DEF Fitting, Passed
<1>3. QED
  BY <1>1, <1>2 DEF Fitting, PartsFit

\* A new message comes in as many fragments as it is cut into.
LEMMA BroadcastKeepsFitting ==
  ASSUME Fitting, IInv', NEW n \in Node, Broadcast(n)
  PROVE  Fitting'
<1> DEFINE m == messages + 1
<1>1. PICK k \in 1..MaxFrags, ttl \in Ttls :
        /\ total' = Append(total, k)
        /\ queue' = [queue EXCEPT ![n] = queue[n] \o Fragments(m, k, ttl)]
  BY DEF Broadcast
<1>2. messages' = m /\ UNCHANGED <<air, inbox, parts>> /\ messages \in Nat /\ k \in Nat \ {0}
  BY DEF Broadcast, Fitting, IInv, Stemming
<1>3. Domains
  BY Apart DEF Fitting
<1>4. /\ total' \in Seq(Nat) /\ Len(total') = messages'
      /\ total'[m] = k /\ \A i \in 1..messages : total'[i] = total[i]
  BY <1>1, <1>2 DEF Fitting
<1> DEFINE f == Fragments(m, k, ttl)
<1> DEFINE F == [message : {m}, index : 0..(k - 1), ttl : {ttl}]
<1>5. f \in Seq(F) /\ \A p \in Held(f) : p.message = m /\ p.index < k
  <2>1. \A i \in 1..k : [message |-> m, index |-> i - 1, ttl |-> ttl] \in F
    BY <1>2
  <2>2. f \in [1..k -> F]
    BY <2>1 DEF Fragments
  <2> HIDE DEF f, F
  <2>3. f \in Seq(F)
    BY <2>2, <1>2
  <2>4. Held(f) \subseteq F
    BY <2>3, HeldType
  <2>5. QED
    BY <2>3, <2>4, <1>2 DEF F
<1>6. Held(queue[n] \o f) \subseteq Held(queue[n]) \union Held(f)
  <2> DEFINE S == Sent \union F
  <2>1. queue[n] \in Seq(Sent)
    BY AboutSent DEF Fitting
  <2> HIDE DEF f, F
  <2>2. queue[n] \in Seq(S) /\ f \in Seq(S)
    BY <2>1, <1>5, Wider
  <2> HIDE DEF S
  <2>3. QED
    BY <2>2, HeldConcat
<1>7. ASSUME NEW j \in Node, NEW p \in About(j)' PROVE p.index < total'[p.message]
  <2>1. CASE p \in About(j)
    <3>1. p \in Sent
      BY <2>1, AboutSent DEF Fitting
    <3>2. QED
      BY <2>1, <3>1, <1>4 DEF Fitting, Sent
  <2>2. CASE p \notin About(j)
    <3> HIDE DEF f
    <3>1. p \in Held(queue'[j]) /\ p \notin Held(queue[j])
      BY <1>2, <1>7, <2>2 DEF About
    <3>2. queue'[j] = IF j = n THEN queue[n] \o f ELSE queue[j]
      BY <1>1, <1>3 DEF Domains, f
    <3>3. j = n /\ p \in Held(f)
      BY <3>1, <3>2, <1>6
    <3>4. QED
      BY <3>3, <1>4, <1>5
  <2>3. QED
    BY <2>1, <2>2
<1>8. ASSUME NEW j \in Node PROVE PartsFit(parts[j])'
  <2>1. PartsFit(parts[j])
    BY DEF Fitting
  <2>2. ASSUME NEW i \in Messages
        PROVE  IF i <= m THEN parts[j][i] \subseteq 0..(total'[i] - 1) ELSE parts[j][i] = {}
    <3>1. i \in Nat /\ i > 0
      BY DEF Messages
    <3>2. CASE i <= messages
      BY <2>1, <3>1, <3>2, <1>2, <1>4 DEF PartsFit
    <3>3. CASE i > messages
      BY <2>1, <3>1, <3>3, <1>2 DEF PartsFit
    <3>4. QED
      BY <3>1, <3>2, <3>3, <1>2
  <2>3. QED
    BY <2>1, <2>2, <1>2 DEF PartsFit
<1>9. QED
  BY <1>2, <1>4, <1>7, <1>8 DEF Fitting

\* What a node has put together stays fragments of the message.
LEMMA PartsStayFit ==
  ASSUME Fitting, NEW n \in Node, ReceiveStep(n) \/ Send(n) \/ SendFails(n) \/ Restart(n)
  PROVE  parts' = [j \in Node |-> parts'[j]] /\ \A j \in Node : PartsFit(parts'[j])
<1>1. parts = [j \in Node |-> parts[j]] /\ \A j \in Node : PartsFit(parts[j])
  BY DEF Fitting
<1>2. SUFFICES ASSUME NEW f, parts' = [parts EXCEPT ![n] = f] PROVE parts' = parts \/ PartsFit(f)
  <2>1. (\E f : parts' = [parts EXCEPT ![n] = f]) \/ parts' = parts
    BY DEF ReceiveStep, Receive, DropSeen, TakeNew, Sweep, SendNothing, Send, SendFails, Restart
  <2>2. QED
    BY <1>1, <1>2, <2>1
<1>3. f = parts'[n]
  BY <1>1, <1>2
<1>4. CASE parts' = [parts EXCEPT ![n] = [m \in Messages |-> {}]]
  <2>1. f = [m \in Messages |-> {}]
    BY <1>1, <1>3, <1>4
  <2>2. QED
    BY <2>1 DEF PartsFit
<1>5. CASE TakeNew(n)
  <2> DEFINE p == Head(inbox[n])
  <2>1. inbox[n] # << >> /\ f = [parts[n] EXCEPT ![p.message] =
                                  IF Completes(n, p) THEN {} ELSE parts[n][p.message] \union {p.index}]
    BY <1>1, <1>3, <1>5 DEF TakeNew, Pumping
  <2>2. p \in About(n)
    BY <2>1, AboutSent, HeldTail DEF About, Fitting
  <2>3. p \in Sent /\ p.index < total[p.message]
    BY <2>2, AboutSent DEF Fitting
  <2>4. /\ p.message \in 1..messages /\ p.index \in Nat /\ messages \in Nat
        /\ total[p.message] \in Nat
    <3> HIDE DEF p
    <3>1. p.message \in 1..messages /\ p.index \in Nat
      BY <2>3 DEF Sent
    <3>2. messages \in Nat /\ total \in Seq(Nat) /\ Len(total) = messages
      BY DEF Fitting, IInv, Stemming
    <3>3. QED
      BY <3>1, <3>2
  <2>5. p.index \in 0..(total[p.message] - 1)
    BY <2>3, <2>4
  <2> HIDE DEF p
  <2>6. PartsFit(parts[n])
    BY <1>1
  <2>7. f \in [Messages -> SUBSET Nat]
    BY <2>1, <2>4, <2>6 DEF PartsFit
  <2>8. ASSUME NEW m \in Messages
        PROVE  IF m <= messages THEN f[m] \subseteq 0..(total[m] - 1) ELSE f[m] = {}
    <3>1. CASE m = p.message
      BY <2>1, <2>4, <2>5, <2>6, <3>1 DEF PartsFit
    <3>2. CASE m # p.message
      BY <2>1, <2>6, <3>2 DEF PartsFit
    <3>3. QED
      BY <3>1, <3>2
  <2>9. QED
    BY <2>7, <2>8 DEF PartsFit
<1>6. CASE Sweep(n)
  <2>1. PICK stale : f = [m \in Messages |-> IF m \in stale THEN {} ELSE parts[n][m]]
    <3>1. \E stale : parts' = [parts EXCEPT ![n] = [m \in Messages |-> IF m \in stale THEN {} ELSE @[m]]]
      BY <1>6 DEF Sweep
    <3>2. QED
      BY <1>1, <1>3, <3>1
  <2>2. PartsFit(parts[n])
    BY <1>1
  <2>3. QED
    BY <2>1, <2>2 DEF PartsFit
<1>7. QED
  BY <1>4, <1>5, <1>6
  DEF ReceiveStep, Receive, DropSeen, SendNothing, Send, SendFails, Restart

\* Before anything is broadcast nothing is about.
LEMMA FittingInitially == Init => Fitting
<1> SUFFICES ASSUME Init PROVE Fitting
  OBVIOUS
<1>1. IInv
  BY MeshAssumption, HeldEmpty
  DEF Init, IInv, Stemming, TtlBoundsDistance, WaitingInRange, DeliveredInRange, Messages
<1>2. \A n \in Node : About(n) = {}
  BY HeldEmpty DEF Init, About
<1>3. \A n \in Node : PartsFit(parts[n])
  BY DEF Init, PartsFit, Messages
<1>4. total = << >> /\ messages = 0 /\ parts = [n \in Node |-> parts[n]]
  BY DEF Init
<1>5. total \in Seq(Nat) /\ Len(total) = messages
  BY <1>4
<1>6. QED
  BY <1>1, <1>2, <1>3, <1>4, <1>5 DEF Fitting

\* Every packet about is a fragment of a message broadcast, and so is all that is
\* being put together.
THEOREM FragmentsFit == Spec => []Fitting
<1>1. Init => Fitting
  BY FittingInitially
<1>2. ASSUME Fitting, [Next]_vars, IInv' PROVE Fitting'
  <2>1. CASE UNCHANGED vars
    BY <1>2, <2>1 DEF Fitting, About, PartsFit, vars, node, sent
  <2>2. ASSUME NEW n \in Talkers, Broadcast(n) PROVE Fitting'
    BY <1>2, <2>2, BroadcastKeepsFitting, MeshAssumption
  <2>3. ASSUME NEW l \in Links, Hear(l) PROVE Fitting'
    <3>1. UNCHANGED <<parts, sent>>
      BY <2>3 DEF Hear
    <3>2. QED
      BY <1>2, <2>3, <3>1, HearPasses, PassingKeepsFitting DEF Fitting
  <2>4. ASSUME NEW n \in Node, ReceiveStep(n) \/ Send(n) \/ SendFails(n) \/ Restart(n)
        PROVE  Fitting'
    <3>1. UNCHANGED sent
      BY <2>4 DEF ReceiveStep, Receive, DropSeen, TakeNew, Sweep, SendNothing, Send, SendFails, Restart
    <3>2. Passed
      <4>1. CASE Receive(n) \/ Sweep(n) \/ SendNothing(n)
        <5>1. UNCHANGED <<queue, inbox, air>>
          BY <4>1 DEF Receive, Sweep, SendNothing
        <5>2. QED
          BY <5>1 DEF Passed, About
      <4>2. QED
        BY <1>2, <2>4, <4>1, TakePasses, SendPasses DEF ReceiveStep, Fitting
    <3>3. QED
      BY <1>2, <2>4, <3>1, <3>2, PartsStayFit, PassingKeepsFitting
  <2>5. QED
    BY <1>2, <2>1, <2>2, <2>3, <2>4 DEF Next
<1>3. QED
  BY <1>1, <1>2, Invariance, PTL DEF Spec

-----------------------------------------------------------------------------
(* Messages of one fragment.                                               *)

\* A node has returned the message, or will when it is asked.
Waits(n, m) == got[n][m] > 0 \/ m \in Held(delivered[n])

\* Whatever a node knows of a short message, which is not its own, it delivered.
ShortKept ==
  \A n \in Node : \A m \in 1..messages :
    (total[m] = 1 /\ sender[m] # n /\ (heard[n][m] # {} \/ m \in Held(seen[n]))) => Waits(n, m)

Short ==
  /\ Fitting
  /\ seen \in [Node -> Seq(1..messages)]
  /\ heard \in [Node -> [Messages -> SUBSET Nat]]
  /\ \A n \in Node : \A m \in Messages : m > messages => heard[n][m] = {}
  /\ restarts \in Nat
  /\ restarts = 0 => ShortKept

\* Known is membership of the cache.
LEMMA KnownIsHeld ==
  ASSUME NEW S, NEW n, seen[n] \in Seq(S), NEW m
  PROVE  Known(n, m) <=> m \in Held(seen[n])
<1>1. DOMAIN seen[n] = 1..Len(seen[n])
  OBVIOUS
<1>2. QED
  BY <1>1 DEF Known, Held

\* A new key is in the cache, and the cache gets no other.
LEMMA RememberFacts ==
  ASSUME NEW S, NEW n, seen[n] \in Seq(S), NEW m \in S
  PROVE  /\ Remember(n, m) \in Seq(S) /\ m \in Held(Remember(n, m))
         /\ Held(Remember(n, m)) \subseteq Held(seen[n]) \union {m}
<1>1. CASE Known(n, m)
  BY <1>1, KnownIsHeld DEF Remember
<1>2. CASE ~Known(n, m) /\ Len(seen[n]) = SeenSize
  <2>1. seen[n] # << >>
    BY <1>2, MeshAssumption
  <2>2. Tail(seen[n]) \in Seq(S) /\ Held(Tail(seen[n])) \subseteq Held(seen[n])
    BY <2>1, HeldTail
  <2>3. Append(Tail(seen[n]), m) \in Seq(S)
    BY <2>2
  <2>4. Held(Append(Tail(seen[n]), m)) = Held(Tail(seen[n])) \union {m}
    BY <2>2, HeldOneMore
  <2>5. QED
    BY <1>2, <2>2, <2>3, <2>4 DEF Remember
<1>3. CASE ~Known(n, m) /\ Len(seen[n]) # SeenSize
  <2>1. Append(seen[n], m) \in Seq(S) /\ Held(Append(seen[n], m)) = Held(seen[n]) \union {m}
    BY HeldOneMore
  <2>2. QED
    BY <1>3, <2>1 DEF Remember
<1>4. QED
  BY <1>1, <1>2, <1>3

\* receive() returns what waited, and what it returns has been returned.
LEMMA ReturnKeepsWaits ==
  ASSUME IInv, NEW n \in Node, Return(n)
  PROVE  \A k \in Node : \A m \in Messages : Waits(k, m)' <=> Waits(k, m)
<1>1. /\ History /\ delivered = [k \in Node |-> delivered[k]] /\ got = [k \in Node |-> got[k]]
      /\ \A k \in Node : delivered[k] \in Seq(1..messages) /\ got[k] \in [Messages -> 0..2]
  <2>1. History /\ Domains /\ \A k \in Node : Fine(k)
    BY Apart DEF AllFine
  <2>2. QED
    BY <2>1 DEF Domains, Fine, WaitFine, GotFine
<1>2. CASE delivered[n] = << >>
  BY <1>2 DEF Return, Waits
<1>3. CASE delivered[n] # << >>
  <2> DEFINE h == Head(delivered[n])
  <2>1. /\ delivered' = [delivered EXCEPT ![n] = Tail(delivered[n])]
        /\ got' = [got EXCEPT ![n] = [got[n] EXCEPT ![h] = IF @ = 2 THEN 2 ELSE @ + 1]]
    BY <1>3 DEF Return
  <2>2. Held(delivered[n]) = {h} \union Held(Tail(delivered[n]))
    BY <1>1, <1>3, HeldParts
  <2> HIDE DEF h
  <2>3. ASSUME NEW m \in Messages PROVE Waits(n, m)' <=> Waits(n, m)
    <3>1. got'[n][m] = IF m = h THEN IF got[n][m] = 2 THEN 2 ELSE got[n][m] + 1 ELSE got[n][m]
      BY <1>1, <2>1
    <3>2. got[n][m] \in 0..2 /\ delivered'[n] = Tail(delivered[n])
      BY <1>1, <2>1
    <3>3. QED
      BY <2>2, <3>1, <3>2 DEF Waits
  <2>4. \A k \in Node \ {n} : got'[k] = got[k] /\ delivered'[k] = delivered[k]
    BY <1>1, <2>1
  <2>5. QED
    BY <2>3, <2>4 DEF Waits
<1>4. QED
  BY <1>2, <1>3

\* A step that changes neither what is known nor, to the application, what is there.
LEMMA KnowingNoMore ==
  ASSUME Short, Fitting', UNCHANGED <<seen, heard, restarts, sent>>,
         \A k \in Node : \A m \in Messages : Waits(k, m) => Waits(k, m)'
  PROVE  Short'
<1>1. UNCHANGED <<messages, total, sender>>
  BY DEF sent
<1>2. 1..messages \subseteq Messages
  BY MeshAssumption DEF Messages, Short, Fitting, IInv, Stemming
<1>3. ShortKept => ShortKept'
  BY <1>1, <1>2 DEF ShortKept
<1>4. QED
  BY <1>1, <1>3 DEF Short

\* The messages broadcast are some of those that may be.
LEMMA SentAreMessages ==
  ASSUME IInv
  PROVE  messages \in Nat /\ 1..messages \subseteq Messages
BY MeshAssumption DEF IInv, Stemming, Messages

\* A packet dropped is of a message known.
LEMMA DropKeepsShort ==
  ASSUME Short, Fitting', NEW n \in Node, DropSeen(n)
  PROVE  Short'
<1> DEFINE p == Head(inbox[n])
<1>1. UNCHANGED <<messages, total, sender, seen, got, delivered, restarts>>
  BY DEF DropSeen, sent
<1>2. /\ inbox[n] # << >> /\ Known(n, p.message)
      /\ heard' = [heard EXCEPT ![n][p.message] = @ \union {p.index}]
  BY DEF DropSeen, Pumping
<1>3. p \in Sent
  BY <1>2, AboutSent, HeldTail DEF Short, Fitting
<1>4. p.message \in 1..messages /\ p.index \in Nat /\ 1..messages \subseteq Messages
  <2> HIDE DEF p
  <2>1. p.message \in 1..messages /\ p.index \in Nat
    BY <1>3 DEF Sent
  <2>2. QED
    BY <2>1, SentAreMessages DEF Short, Fitting
<1>5. p.message \in Held(seen[n])
  BY <1>2, KnownIsHeld DEF Short
<1> HIDE DEF p
<1>6. \A k \in Node : \A m \in Messages :
        heard'[k][m] = IF k = n /\ m = p.message THEN heard[k][m] \union {p.index} ELSE heard[k][m]
  BY <1>2, <1>4 DEF Short
<1>7. heard' \in [Node -> [Messages -> SUBSET Nat]]
  BY <1>2, <1>4 DEF Short
<1>8. ShortKept => ShortKept'
  <2>1. \A k \in Node : \A m \in 1..messages :
          heard'[k][m] # {} => (heard[k][m] # {} \/ m \in Held(seen[k]))
    BY <1>4, <1>5, <1>6
  <2>2. QED
    BY <1>1, <2>1 DEF ShortKept, Waits
<1>9. \A k \in Node : \A m \in Messages : m > messages => heard'[k][m] = {}
  <2>1. messages \in Nat
    BY SentAreMessages DEF Short, Fitting
  <2>2. ~(p.message > messages)
    BY <1>4, <2>1
  <2>3. QED
    BY <1>6, <2>2 DEF Short
<1>10. QED
  BY <1>1, <1>7, <1>8, <1>9 DEF Short

\* A new message of one fragment is complete at once.
LEMMA TakeKeepsShort ==
  ASSUME Short, Fitting', NEW n \in Node, TakeNew(n)
  PROVE  Short'
<1> DEFINE p == Head(inbox[n])
           h == p.message
<1>1. UNCHANGED <<messages, total, sender, got, restarts>>
  BY DEF TakeNew, sent
<1>2. /\ inbox[n] # << >>
      /\ heard' = [heard EXCEPT ![n][h] = @ \union {p.index}]
      /\ seen' = [seen EXCEPT ![n] = Remember(n, h)]
      /\ delivered' = [delivered EXCEPT ![n] = IF Completes(n, p) THEN Append(@, h) ELSE @]
  BY DEF TakeNew, Pumping
<1>3. p \in Sent /\ p.index < total[p.message]
  <2>1. p \in About(n)
    BY <1>2, AboutSent, HeldTail DEF About, Short, Fitting
  <2>2. QED
    BY <2>1, AboutSent DEF Short, Fitting
<1>4. /\ h \in 1..messages /\ p.index \in Nat /\ messages \in Nat
      /\ 1..messages \subseteq Messages
  <2> HIDE DEF p
  <2>1. p.message \in 1..messages /\ p.index \in Nat
    BY <1>3 DEF Sent
  <2>2. QED
    BY <2>1, SentAreMessages DEF Short, Fitting
<1>5. Remember(n, h) \in Seq(1..messages) /\ Held(Remember(n, h)) \subseteq Held(seen[n]) \union {h}
  <2> HIDE DEF h
  <2>1. QED
    BY <1>4, RememberFacts DEF Short
<1>6. total[h] = 1 => Completes(n, p)
  <2>1. PartsFit(parts[n])
    BY DEF Short, Fitting
  <2>2. parts[n][h] \subseteq 0..(total[h] - 1)
    BY <1>4, <2>1 DEF PartsFit
  <2>3. QED
    BY <1>3, <1>4, <2>2 DEF Completes
<1>7. delivered[n] \in Seq(1..messages) /\ delivered = [k \in Node |-> delivered[k]]
  BY DEF Short, Fitting, IInv, Stemming
<1>8. \A k \in Node : \A m \in Messages : Waits(k, m) => Waits(k, m)'
  <2>1. Held(delivered[n]) \subseteq Held(delivered'[n])
    BY <1>2, <1>7, HeldOneMore
  <2>2. \A k \in Node \ {n} : delivered'[k] = delivered[k]
    BY <1>2, <1>7
  <2>3. QED
    BY <1>1, <2>1, <2>2 DEF Waits
<1>9. total[h] = 1 => h \in Held(delivered'[n])
  <2>1. SUFFICES ASSUME total[h] = 1 PROVE h \in Held(delivered'[n])
    OBVIOUS
  <2>2. delivered'[n] = Append(delivered[n], h)
    BY <1>2, <1>6, <1>7, <2>1
  <2>3. Held(Append(delivered[n], h)) = Held(delivered[n]) \union {h}
    <3> HIDE DEF h
    <3>1. QED
      BY <1>7, HeldOneMore
  <2>4. QED
    BY <2>2, <2>3
<1> HIDE DEF p, h
<1>10. \A k \in Node : \A m \in Messages :
         heard'[k][m] = IF k = n /\ m = h THEN heard[k][m] \union {p.index} ELSE heard[k][m]
  BY <1>2, <1>4 DEF Short
<1>11. heard' \in [Node -> [Messages -> SUBSET Nat]]
  BY <1>2, <1>4 DEF Short
<1>12. /\ seen' \in [Node -> Seq(1..messages)]
       /\ \A k \in Node : \A m \in Held(seen'[k]) : (k = n /\ m = h) \/ m \in Held(seen[k])
  BY <1>2, <1>5 DEF Short
<1>13. ShortKept => ShortKept'
  <2>1. SUFFICES ASSUME ShortKept, NEW k \in Node, NEW m \in 1..messages,
                        total[m] = 1, sender[m] # k, heard'[k][m] # {} \/ m \in Held(seen'[k])
                 PROVE  Waits(k, m)'
    BY <1>1 DEF ShortKept
  <2>2. CASE k = n /\ m = h
    BY <1>9, <2>1, <2>2 DEF Waits
  <2>3. CASE ~(k = n /\ m = h)
    BY <1>4, <1>8, <1>10, <1>12, <2>1, <2>3 DEF ShortKept
  <2>4. QED
    BY <2>2, <2>3
<1>14. \A k \in Node : \A m \in Messages : m > messages => heard'[k][m] = {}
  <2>1. ~(h > messages)
    BY <1>4
  <2>2. QED
    BY <1>10, <2>1 DEF Short
<1>15. QED
  BY <1>1, <1>11, <1>12, <1>13, <1>14 DEF Short

\* Nobody knows a message just broadcast but its sender.
LEMMA BroadcastKeepsShort ==
  ASSUME Short, Fitting', NEW n \in Node, Broadcast(n)
  PROVE  Short'
<1> DEFINE h == messages + 1
<1>1. /\ messages' = h /\ UNCHANGED <<got, delivered, heard, restarts>>
      /\ sender' = Append(sender, n) /\ seen' = [seen EXCEPT ![n] = Remember(n, h)]
      /\ \E k \in 1..MaxFrags : total' = Append(total, k)
  BY DEF Broadcast
<1>2. /\ messages \in Nat /\ h \in Nat /\ h > messages /\ h \in 1..h /\ 1..h \subseteq Messages
      /\ 1..messages \subseteq 1..h
  <2>1. messages \in Nat /\ MaxMessages \in Nat /\ messages < MaxMessages
    BY MeshAssumption, SentAreMessages DEF Short, Fitting, Broadcast
  <2>2. QED
    BY <2>1 DEF Messages
<1>3. sender'[h] = n /\ \A i \in 1..messages : sender'[i] = sender[i] /\ total'[i] = total[i]
  BY <1>1, <1>2 DEF Short, Fitting, IInv, Stemming
<1> HIDE DEF h
<1>4. \A k \in Node : seen[k] \in Seq(1..h) /\ Held(seen[k]) \subseteq 1..messages
  BY <1>2, Wider, HeldType DEF Short
<1>5. Remember(n, h) \in Seq(1..h) /\ Held(Remember(n, h)) \subseteq Held(seen[n]) \union {h}
  BY <1>2, <1>4, RememberFacts
<1>6. /\ seen' \in [Node -> Seq(1..h)]
      /\ \A k \in Node : \A m \in Held(seen'[k]) : (k = n /\ m = h) \/ m \in Held(seen[k])
  BY <1>1, <1>4, <1>5 DEF Short
<1>7. ShortKept => ShortKept'
  <2>1. SUFFICES ASSUME ShortKept, NEW k \in Node, NEW m \in 1..h,
                        total'[m] = 1, sender'[m] # k, heard[k][m] # {} \/ m \in Held(seen'[k])
                 PROVE  Waits(k, m)
    BY <1>1 DEF ShortKept, Waits
  <2>2. CASE m \in 1..messages
    BY <1>2, <1>3, <1>6, <2>1, <2>2 DEF ShortKept
  <2>3. CASE m \notin 1..messages
    <3>1. m > messages /\ m \in Messages
      BY <1>2, <2>3
    <3>2. heard[k][m] = {} /\ m \notin Held(seen[k])
      BY <1>4, <2>3, <3>1 DEF Short
    <3>3. QED
      BY <1>3, <1>6, <2>1, <3>2
  <2>4. QED
    BY <2>2, <2>3
<1>8. \A k \in Node : \A m \in Messages : m > h => heard[k][m] = {}
  BY <1>2 DEF Short, Messages
<1>9. QED
  BY <1>1, <1>6, <1>7, <1>8 DEF Short

\* The inductive form of ShortHeardIsDelivered: what a node knows of a message of one
\* fragment, in its cache or heard from its inbox, it has handed on.
THEOREM ShortInvariance == Spec => []Short
<1>1. Init => Short
  <2> SUFFICES ASSUME Init, Fitting PROVE Short
    <3>1. Init => Fitting
      BY FittingInitially
    <3>2. QED
      BY <3>1
  <2>1. messages = 0 /\ 1..messages = {}
    BY DEF Init
  <2>2. QED
    BY <2>1 DEF Init, Short, ShortKept
<1>2. ASSUME Short, [Next]_vars, Fitting' PROVE Short'
  <2>1. CASE UNCHANGED vars
    BY <1>2, <2>1, KnowingNoMore DEF vars, node, Waits
  <2>2. ASSUME NEW n \in Talkers, Broadcast(n) PROVE Short'
    BY <1>2, <2>2, BroadcastKeepsShort, MeshAssumption
  <2>3. ASSUME NEW l \in Links, Hear(l) PROVE Short'
    BY <1>2, <2>3, KnowingNoMore DEF Hear, Waits
  <2>4. ASSUME NEW n \in Node, Receive(n) \/ Sweep(n) PROVE Short'
    BY <1>2, <2>4, KnowingNoMore DEF Receive, Sweep, Waits
  <2>5. ASSUME NEW n \in Node, DropSeen(n) \/ TakeNew(n) PROVE Short'
    BY <1>2, <2>5, DropKeepsShort, TakeKeepsShort
  <2>6. ASSUME NEW n \in Node, SendNothing(n) \/ Send(n) \/ SendFails(n) PROVE Short'
    <3>1. Return(n) /\ UNCHANGED <<seen, heard, restarts, sent>>
      BY <2>6 DEF SendNothing, Send, SendFails
    <3>2. QED
      BY <1>2, <3>1, ReturnKeepsWaits, KnowingNoMore DEF Short, Fitting
  <2>7. ASSUME NEW n \in Node, Restart(n) PROVE Short'
    <3>1. /\ seen' = [seen EXCEPT ![n] = << >>] /\ restarts' = restarts + 1
          /\ UNCHANGED <<heard, messages>>
      BY <2>7 DEF Restart, sent
    <3>2. seen' \in [Node -> Seq(1..messages)] /\ restarts' \in Nat \ {0}
      BY <1>2, <3>1 DEF Short
    <3>3. QED
      BY <1>2, <3>1, <3>2 DEF Short
  <2>8. QED
    BY <1>2, <2>1, <2>2, <2>3, <2>4, <2>5, <2>6, <2>7 DEF Next, ReceiveStep
<1>3. QED
  BY <1>1, <1>2, FragmentsFit, PTL DEF Spec

\* While no node restarts, a message of one fragment that a node reads from its inbox
\* is delivered there, however small the cache.
THEOREM ShortMessagesArrive == Spec => []ShortHeardIsDelivered
<1>1. Short => ShortHeardIsDelivered
  BY DEF Short, ShortKept, ShortHeardIsDelivered, Waits
<1>2. QED
  BY <1>1, ShortInvariance, PTL

-----------------------------------------------------------------------------
(* No message comes twice.  As long as the cache has room for all messages *)
(* it forgets none, and whatever a node has handed on is in it.            *)

OnceAt(n) ==
  /\ IsInjective(seen[n]) /\ IsInjective(delivered[n])
  /\ \A m \in 1..messages :
       /\ got[n][m] <= 1
       /\ got[n][m] > 0 => m \notin Held(delivered[n])
       /\ (Waits(n, m) \/ sender[m] = n) => m \in Held(seen[n])
       /\ sender[m] = n => ~Waits(n, m)

Once ==
  /\ IInv
  /\ seen \in [Node -> Seq(1..messages)]
  /\ restarts \in Nat
  /\ (messages <= SeenSize /\ restarts = 0) => \A n \in Node : OnceAt(n)

LEMMA DistinctTail ==
  ASSUME NEW S, NEW s \in Seq(S), s # << >>, IsInjective(s)
  PROVE  IsInjective(Tail(s)) /\ Head(s) \notin Held(Tail(s))
<1>1. /\ Len(s) \in Nat \ {0} /\ DOMAIN s = 1..Len(s) /\ DOMAIN Tail(s) = 1..(Len(s) - 1)
      /\ Head(s) = s[1] /\ \A i \in 1..(Len(s) - 1) : Tail(s)[i] = s[i + 1]
  OBVIOUS
<1>2. QED
  BY <1>1 DEF IsInjective, Held

LEMMA DistinctAppend ==
  ASSUME NEW S, NEW s \in Seq(S), IsInjective(s), NEW e, e \notin Held(s)
  PROVE  IsInjective(Append(s, e))
<1>1. /\ DOMAIN s = 1..Len(s) /\ DOMAIN Append(s, e) = 1..(Len(s) + 1) /\ Len(s) \in Nat
      /\ \A i \in 1..(Len(s) + 1) : Append(s, e)[i] = IF i = Len(s) + 1 THEN e ELSE s[i]
  OBVIOUS
<1>2. QED
  BY <1>1 DEF IsInjective, Held

\* Different numbers up to M, and not all of them, are fewer than M.
LEMMA NotAll ==
  ASSUME NEW M \in Nat, NEW s \in Seq(1..M), IsInjective(s), NEW m \in 1..M, m \notin Held(s)
  PROVE  Len(s) < M
<1> DEFINE R == (1..M) \ {m}
<1>1. /\ Len(s) \in Nat /\ DOMAIN s = 1..Len(s)
      /\ \A i \in 1..Len(s) : s[i] \in R
  BY DEF Held
<1>2. s \in Injection(1..Len(s), R)
  BY <1>1 DEF Injection, IsInjective
<1>3. IsFiniteSet(1..M) /\ Cardinality(1..M) = M
  BY FS_Interval
<1>4. IsFiniteSet(R) /\ Cardinality(R) = M - 1
  BY <1>3, FS_RemoveElement
<1>5. Cardinality(1..Len(s)) = Len(s)
  <2>1. PICK k \in Nat : k = Len(s)
    BY <1>1
  <2>2. Cardinality(1..k) = IF 1 > k THEN 0 ELSE k - 1 + 1
    BY FS_Interval
  <2>3. QED
    BY <2>1, <2>2
<1> HIDE DEF R
<1>6. Cardinality(1..Len(s)) <= Cardinality(R)
  BY <1>2, <1>4, FS_Injection
<1>7. QED
  BY <1>1, <1>4, <1>5, <1>6

\* A cache that is not smaller than the number of messages forgets none.
LEMMA NothingForgotten ==
  ASSUME NEW M \in Nat, M <= SeenSize, NEW n, seen[n] \in Seq(1..M), IsInjective(seen[n]),
         NEW m \in 1..M
  PROVE  /\ Remember(n, m) \in Seq(1..M) /\ IsInjective(Remember(n, m))
         /\ Held(Remember(n, m)) = Held(seen[n]) \union {m}
<1>1. CASE Known(n, m)
  <2>1. m \in Held(seen[n])
    BY <1>1, KnownIsHeld
  <2>2. QED
    BY <1>1, <2>1 DEF Remember
<1>2. CASE ~Known(n, m)
  <2>1. m \notin Held(seen[n])
    BY <1>2, KnownIsHeld
  <2>2. Len(seen[n]) < M
    BY <2>1, NotAll
  <2>3. Len(seen[n]) # SeenSize
    BY <2>2, MeshAssumption
  <2>4. Remember(n, m) = Append(seen[n], m)
    BY <1>2, <2>3 DEF Remember
  <2>5. QED
    BY <2>1, <2>4, HeldOneMore, DistinctAppend
<1>3. QED
  BY <1>1, <1>2

\* A step that leaves caches and applications alone.
LEMMA UnchangedOnce ==
  ASSUME Once, IInv', UNCHANGED <<seen, got, delivered, restarts, sent>>
  PROVE  Once'
<1>1. UNCHANGED <<messages, sender>>
  BY DEF sent
<1>2. QED
  BY <1>1 DEF Once, OnceAt, Waits

\* A message returned is the first that waited, and waits no more.
LEMMA ReturnKeepsOnce ==
  ASSUME Once, IInv', NEW n \in Node, Return(n), UNCHANGED <<seen, restarts, sent>>
  PROVE  Once'
<1>1. UNCHANGED <<messages, sender>>
  BY DEF sent
<1>2. CASE delivered[n] = << >>
  BY <1>2, UnchangedOnce DEF Return
<1>3. CASE delivered[n] # << >>
  <2> DEFINE h == Head(delivered[n])
  <2>1. /\ delivered' = [delivered EXCEPT ![n] = Tail(delivered[n])]
        /\ got' = [got EXCEPT ![n] = [got[n] EXCEPT ![h] = IF @ = 2 THEN 2 ELSE @ + 1]]
    BY <1>3 DEF Return
  <2>2. /\ delivered \in [Node -> Seq(1..messages)] /\ got \in [Node -> [Messages -> 0..2]]
        /\ 1..messages \subseteq Messages
    BY SentAreMessages DEF Once, IInv, Stemming
  <2>3. Held(delivered[n]) = {h} \union Held(Tail(delivered[n])) /\ h \in 1..messages
    <3>1. delivered[n] \in Seq(1..messages)
      BY <2>2
    <3>2. Held(delivered[n]) \subseteq 1..messages
      BY <3>1, HeldType
    <3>3. Held(delivered[n]) = {h} \union Held(Tail(delivered[n]))
      BY <1>3, <3>1, HeldParts
    <3>4. QED
      BY <3>2, <3>3
  <2>4. IsInjective(delivered[n]) => IsInjective(Tail(delivered[n])) /\ h \notin Held(Tail(delivered[n]))
    BY <1>3, <2>2, DistinctTail
  <2> HIDE DEF h
  <2>5. /\ delivered'[n] = Tail(delivered[n])
        /\ \A m \in 1..messages : got'[n][m] =
             IF m = h THEN IF got[n][m] = 2 THEN 2 ELSE got[n][m] + 1 ELSE got[n][m]
    BY <2>1, <2>2
  <2>6. OnceAt(n) => OnceAt(n)'
    <3>1. SUFFICES ASSUME OnceAt(n) PROVE OnceAt(n)'
      OBVIOUS
    <3>2. IsInjective(seen[n])' /\ IsInjective(delivered[n])' /\ h \notin Held(delivered'[n])
      BY <3>1, <2>4, <2>5 DEF OnceAt
    <3>3. ASSUME NEW m \in 1..messages
          PROVE  /\ got'[n][m] <= 1
                 /\ got'[n][m] > 0 => m \notin Held(delivered'[n])
                 /\ (Waits(n, m)' \/ sender[m] = n) => m \in Held(seen[n])
                 /\ sender[m] = n => ~Waits(n, m)'
      <4>1. got[n][m] \in 0..2 /\ got[n][m] <= 1
        BY <2>2, <3>1 DEF OnceAt
      <4>2. CASE m = h
        <5>1. got[n][m] = 0 /\ m \in Held(delivered[n])
          BY <2>3, <3>1, <4>1, <4>2 DEF OnceAt
        <5>2. got'[n][m] = 1
          BY <2>5, <4>2, <5>1
        <5>3. QED
          BY <3>1, <3>2, <4>2, <5>1, <5>2 DEF OnceAt, Waits
      <4>3. CASE m # h
        <5>1. got'[n][m] = got[n][m] /\ (m \in Held(delivered'[n]) <=> m \in Held(delivered[n]))
          BY <2>3, <2>5, <4>3
        <5>2. QED
          BY <3>1, <5>1 DEF OnceAt, Waits
      <4>4. QED
        BY <4>2, <4>3
    <3>4. QED
      BY <1>1, <3>2, <3>3 DEF OnceAt
  <2>7. \A k \in Node \ {n} : OnceAt(k) => OnceAt(k)'
    <3>1. \A k \in Node \ {n} : got'[k] = got[k] /\ delivered'[k] = delivered[k]
      BY <2>1, <2>2
    <3>2. QED
      BY <1>1, <3>1 DEF OnceAt, Waits
  <2>8. QED
    BY <1>1, <2>6, <2>7 DEF Once
<1>4. QED
  BY <1>2, <1>3

\* A message taken is not known, so it was never handed on, and it is not the node's own.
LEMMA TakeKeepsOnce ==
  ASSUME Once, IInv', NEW n \in Node, TakeNew(n)
  PROVE  Once'
<1> DEFINE p == Head(inbox[n])
<1>1. UNCHANGED <<messages, sender, got, restarts>>
  BY DEF TakeNew, sent
<1>2. PICK h : h = p.message
  OBVIOUS
<1>3. /\ inbox[n] # << >> /\ ~Known(n, h)
      /\ seen' = [seen EXCEPT ![n] = Remember(n, h)]
      /\ \/ delivered' = [delivered EXCEPT ![n] = Append(delivered[n], h)]
         \/ delivered' = [delivered EXCEPT ![n] = delivered[n]]
  BY <1>2 DEF TakeNew, Pumping
<1>4. h \in 1..messages /\ messages \in Nat
  <2>1. p \in Sent
    BY <1>3, AboutSent, HeldTail DEF Once
  <2>2. QED
    BY <1>2, <2>1, SentAreMessages DEF Sent, Once
<1>5. delivered \in [Node -> Seq(1..messages)]
  BY DEF Once, IInv, Stemming
<1> HIDE DEF p
<1>6. Remember(n, h) \in Seq(1..messages)
  BY <1>4, RememberFacts DEF Once
<1>7. seen' \in [Node -> Seq(1..messages)] /\ seen'[n] = Remember(n, h)
  BY <1>3, <1>6 DEF Once
<1>8. h \notin Held(seen[n])
  BY <1>3, KnownIsHeld DEF Once
<1>9. ASSUME messages <= SeenSize, OnceAt(n) PROVE OnceAt(n)'
  <2>1. IsInjective(seen'[n]) /\ Held(seen'[n]) = Held(seen[n]) \union {h}
    <3>1. seen[n] \in Seq(1..messages) /\ IsInjective(seen[n])
      BY <1>9 DEF Once, OnceAt
    <3>2. QED
      BY <1>4, <1>7, <1>9, <3>1, NothingForgotten
  <2>2. ~Waits(n, h) /\ sender[h] # n /\ h \notin Held(delivered[n])
    BY <1>4, <1>8, <1>9 DEF OnceAt, Waits
  <2>3. IsInjective(delivered'[n]) /\ Held(delivered'[n]) \subseteq Held(delivered[n]) \union {h}
    <3>1. CASE delivered' = [delivered EXCEPT ![n] = Append(delivered[n], h)]
      <4>1. delivered'[n] = Append(delivered[n], h) /\ delivered[n] \in Seq(1..messages)
        BY <1>5, <3>1
      <4>2. QED
        BY <1>9, <2>2, <4>1, HeldOneMore, DistinctAppend DEF OnceAt
    <3>2. CASE delivered' = [delivered EXCEPT ![n] = delivered[n]]
      BY <1>5, <1>9, <3>2 DEF OnceAt
    <3>3. QED
      BY <1>3, <3>1, <3>2
  <2>4. ASSUME NEW m \in 1..messages
        PROVE  /\ got[n][m] <= 1
               /\ got[n][m] > 0 => m \notin Held(delivered'[n])
               /\ (Waits(n, m)' \/ sender[m] = n) => m \in Held(seen'[n])
               /\ sender[m] = n => ~Waits(n, m)'
    BY <1>1, <1>9, <2>1, <2>2, <2>3 DEF OnceAt, Waits
  <2>5. QED
    BY <1>1, <2>1, <2>3, <2>4 DEF OnceAt
<1>10. \A k \in Node \ {n} : OnceAt(k) => OnceAt(k)'
  <2>1. \A k \in Node \ {n} : seen'[k] = seen[k] /\ delivered'[k] = delivered[k]
    BY <1>3, <1>5 DEF Once
  <2>2. QED
    BY <1>1, <2>1 DEF OnceAt, Waits
<1>11. QED
  BY <1>1, <1>7, <1>9, <1>10 DEF Once

\* The sender knows its message from the start, and nobody was handed it before.
LEMMA BroadcastKeepsOnce ==
  ASSUME Once, IInv', NEW n \in Node, Broadcast(n)
  PROVE  Once'
<1> DEFINE h == messages + 1
<1>1. /\ messages' = h /\ UNCHANGED <<got, delivered, restarts>>
      /\ sender' = Append(sender, n) /\ seen' = [seen EXCEPT ![n] = Remember(n, h)]
  BY DEF Broadcast
<1>2. messages \in Nat /\ h \in 1..h /\ 1..messages \subseteq 1..h /\ 1..h \subseteq (1..messages) \union {h}
      /\ h \in Messages /\ h \in Nat /\ messages <= h
  <2>1. messages \in Nat /\ MaxMessages \in Nat /\ messages < MaxMessages
    BY MeshAssumption, SentAreMessages DEF Once, Broadcast
  <2>2. QED
    BY <2>1 DEF Messages
<1>3. sender'[h] = n /\ \A i \in 1..messages : sender'[i] = sender[i]
  BY <1>1, <1>2 DEF Once, IInv, Stemming
<1>4. h \notin 1..messages
  BY <1>2
<1>5. \A k \in Node : got[k][h] = 0 /\ h \notin Held(delivered[k])
  <2>1. \A k \in Node : delivered[k] \in Seq(1..messages) /\ got[k][h] \in 0..2
    BY <1>2 DEF Once, IInv, Stemming
  <2>2. \A k \in Node : ~(got[k][h] > 0)
    BY <1>2 DEF Once, IInv, Stemming
  <2> HIDE DEF h
  <2>3. \A k \in Node : Held(delivered[k]) \subseteq 1..messages
    BY <2>1, HeldType
  <2>4. QED
    BY <1>4, <2>1, <2>2, <2>3
<1> HIDE DEF h
<1>6. \A k \in Node : seen[k] \in Seq(1..h) /\ Held(seen[k]) \subseteq 1..messages
  BY <1>2, Wider, HeldType DEF Once
<1>7. Remember(n, h) \in Seq(1..h)
  BY <1>2, <1>6, RememberFacts
<1>8. /\ seen' \in [Node -> Seq(1..h)] /\ seen'[n] = Remember(n, h)
      /\ \A k \in Node \ {n} : seen'[k] = seen[k]
  BY <1>1, <1>6, <1>7 DEF Once
<1>9. ASSUME h <= SeenSize, NEW k \in Node, OnceAt(k) PROVE OnceAt(k)'
  <2>1. /\ IsInjective(seen'[k]) /\ Held(seen[k]) \subseteq Held(seen'[k])
        /\ k = n => h \in Held(seen'[k])
    <3>1. CASE k = n
      BY <1>2, <1>6, <1>8, <1>9, <3>1, NothingForgotten DEF OnceAt
    <3>2. CASE k # n
      BY <1>8, <1>9, <3>2 DEF OnceAt
    <3>3. QED
      BY <3>1, <3>2
  <2>2. ASSUME NEW m \in 1..h
        PROVE  /\ got[k][m] <= 1
               /\ got[k][m] > 0 => m \notin Held(delivered[k])
               /\ (Waits(k, m) \/ sender'[m] = k) => m \in Held(seen'[k])
               /\ sender'[m] = k => ~Waits(k, m)
    <3>1. CASE m \in 1..messages
      BY <1>3, <1>9, <2>1, <3>1 DEF OnceAt
    <3>2. CASE m = h
      BY <1>3, <1>5, <2>1, <3>2 DEF Waits
    <3>3. QED
      BY <1>2, <3>1, <3>2
  <2>3. QED
    BY <1>1, <1>9, <2>1, <2>2 DEF OnceAt, Waits
<1>10. h <= SeenSize => messages <= SeenSize
  BY <1>2, MeshAssumption
<1>11. QED
  BY <1>1, <1>8, <1>9, <1>10 DEF Once

\* The inductive form of DeliveredOnce: until a node restarts, and while the cache has
\* room for every message, it knows all that it has broadcast or handed on.
THEOREM OnceInvariance == Spec => []Once
<1>1. Init => Once
  <2> SUFFICES ASSUME Init PROVE Once
    OBVIOUS
  <2>1. IInv
    BY FittingInitially DEF Fitting
  <2>2. messages = 0 /\ 1..messages = {}
    BY DEF Init
  <2>3. QED
    BY <2>1, <2>2 DEF Init, Once, OnceAt, IsInjective
<1>2. ASSUME Once, [Next]_vars, IInv' PROVE Once'
  <2>1. CASE UNCHANGED vars
    BY <1>2, <2>1, UnchangedOnce DEF vars, node
  <2>2. ASSUME NEW n \in Talkers, Broadcast(n) PROVE Once'
    BY <1>2, <2>2, BroadcastKeepsOnce, MeshAssumption
  <2>3. ASSUME NEW l \in Links, Hear(l) PROVE Once'
    BY <1>2, <2>3, UnchangedOnce DEF Hear
  <2>4. ASSUME NEW n \in Node, Receive(n) \/ Sweep(n) \/ DropSeen(n) PROVE Once'
    BY <1>2, <2>4, UnchangedOnce DEF Receive, Sweep, DropSeen
  <2>5. ASSUME NEW n \in Node, TakeNew(n) PROVE Once'
    BY <1>2, <2>5, TakeKeepsOnce
  <2>6. ASSUME NEW n \in Node, SendNothing(n) \/ Send(n) \/ SendFails(n) PROVE Once'
    <3>1. Return(n) /\ UNCHANGED <<seen, restarts, sent>>
      BY <2>6 DEF SendNothing, Send, SendFails
    <3>2. QED
      BY <1>2, <3>1, ReturnKeepsOnce
  <2>7. ASSUME NEW n \in Node, Restart(n) PROVE Once'
    <3>1. /\ seen' = [seen EXCEPT ![n] = << >>] /\ restarts' = restarts + 1
          /\ UNCHANGED messages
      BY <2>7 DEF Restart, sent
    <3>2. seen' \in [Node -> Seq(1..messages)] /\ restarts' \in Nat \ {0}
      BY <1>2, <3>1 DEF Once
    <3>3. QED
      BY <1>2, <3>1, <3>2 DEF Once
  <2>8. QED
    BY <1>2, <2>1, <2>2, <2>3, <2>4, <2>5, <2>6, <2>7 DEF Next, ReceiveStep
<1>3. QED
  BY <1>1, <1>2, Invariance, PTL DEF Spec

\* A message is returned to each application at most once and never to its sender,
\* while no more messages are about than SeenCache remembers and no node restarts.
THEOREM MessagesComeOnce == Spec => []DeliveredOnce
<1>1. Once => DeliveredOnce
  <2>1. SUFFICES ASSUME Once, messages <= SeenSize, restarts = 0,
                        NEW n \in Node, NEW m \in 1..messages
                 PROVE  got[n][m] + Cardinality({i \in DOMAIN delivered[n] : delivered[n][i] = m})
                          <= IF sender[m] = n THEN 0 ELSE 1
    BY DEF DeliveredOnce
  <2>2. OnceAt(n)
    BY <2>1 DEF Once
  <2>3. got[n][m] \in 0..2
    <3>1. m \in Messages
      BY <2>1, SentAreMessages DEF Once
    <3>2. QED
      BY <2>1, <3>1 DEF Once, IInv, Stemming
  <2> DEFINE D == {i \in DOMAIN delivered[n] : delivered[n][i] = m}
  <2>4. CASE m \in Held(delivered[n])
    <3>1. PICK i \in DOMAIN delivered[n] : delivered[n][i] = m
      BY <2>4 DEF Held
    <3>2. D = {i}
      BY <2>2, <3>1 DEF OnceAt, IsInjective
    <3>3. Cardinality(D) = 1
      BY <3>2, FS_Singleton
    <3>4. got[n][m] = 0 /\ sender[m] # n
      BY <2>2, <2>3, <2>4 DEF OnceAt, Waits
    <3>5. QED
      BY <3>3, <3>4
  <2>5. CASE m \notin Held(delivered[n])
    <3>1. D = {}
      BY <2>5 DEF Held
    <3>2. Cardinality(D) = 0
      BY <3>1, FS_EmptySet
    <3>3. got[n][m] <= IF sender[m] = n THEN 0 ELSE 1
      BY <2>2, <2>3 DEF OnceAt, Waits
    <3>4. QED
      BY <2>3, <3>2, <3>3
  <2>6. QED
    BY <2>4, <2>5
<1>2. QED
  BY <1>1, OnceInvariance, PTL
=============================================================================
