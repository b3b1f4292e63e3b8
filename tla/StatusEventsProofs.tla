-------------------------- MODULE StatusEventsProofs --------------------------
(***************************************************************************)
(* Theorems about status events, for every number of images, workers,      *)
(* replicas, clients and writes and every choice of faults and API calls.  *)
(***************************************************************************)
EXTENDS StatusEvents, SequenceTheorems, TLAPS

-----------------------------------------------------------------------------
(* Queues: what Append and Tail do to what is in one.                      *)

LEMMA AppendIn ==
    ASSUME NEW q \in Seq(Event), NEW x \in Event
    PROVE  /\ Append(q, x) \in Seq(Event)
           /\ \A e : InQueue(e, Append(q, x)) <=> InQueue(e, q) \/ e = x
<1>1. /\ Append(q, x) \in Seq(Event) /\ Len(Append(q, x)) = Len(q) + 1
      /\ \A n \in 1..Len(q) : Append(q, x)[n] = q[n]
      /\ Append(q, x)[Len(q) + 1] = x
  BY AppendProperties
<1>2. DOMAIN q = 1..Len(q) /\ DOMAIN Append(q, x) = 1..(Len(q) + 1) /\ Len(q) \in Nat
  BY <1>1, LenProperties
<1>3. ASSUME NEW e, InQueue(e, Append(q, x)) PROVE InQueue(e, q) \/ e = x
  BY <1>1, <1>2, <1>3 DEF InQueue
<1>4. ASSUME NEW e, InQueue(e, q) \/ e = x PROVE InQueue(e, Append(q, x))
  <2>1. CASE e = x
    <3>1. Len(q) + 1 \in DOMAIN Append(q, x)  BY <1>2
    <3>2. QED  BY <1>1, <2>1, <3>1 DEF InQueue
  <2>2. CASE InQueue(e, q)
    <3>1. PICK n \in DOMAIN q : q[n] = e  BY <2>2 DEF InQueue
    <3>2. n \in DOMAIN Append(q, x) /\ Append(q, x)[n] = e  BY <1>1, <1>2, <3>1
    <3>3. QED  BY <3>2 DEF InQueue
  <2>3. QED  BY <1>4, <2>1, <2>2
<1>5. QED  BY <1>1, <1>3, <1>4

LEMMA TailIn ==
    ASSUME NEW q \in Seq(Event), q # <<>>
    PROVE  /\ Head(q) \in Event /\ Tail(q) \in Seq(Event)
           /\ \A e : InQueue(e, q) <=> e = Head(q) \/ InQueue(e, Tail(q))
<1>1. /\ Head(q) \in Event /\ Tail(q) \in Seq(Event) /\ Len(Tail(q)) = Len(q) - 1
      /\ \A n \in 1..Len(Tail(q)) : Tail(q)[n] = q[n + 1]
  BY HeadTailProperties
<1>2. /\ DOMAIN q = 1..Len(q) /\ DOMAIN Tail(q) = 1..(Len(q) - 1)
      /\ Len(q) \in Nat /\ Len(q) > 0 /\ Head(q) = q[1]
  BY <1>1, LenProperties, EmptySeq
<1>3. ASSUME NEW e, InQueue(e, q) PROVE e = Head(q) \/ InQueue(e, Tail(q))
  <2>1. PICK n \in DOMAIN q : q[n] = e  BY <1>3 DEF InQueue
  <2>2. CASE n = 1  BY <1>2, <2>1, <2>2
  <2>3. CASE n # 1
    <3>1. n - 1 \in DOMAIN Tail(q) /\ (n - 1) + 1 = n  BY <1>2, <2>1, <2>3
    <3>2. Tail(q)[n - 1] = e  BY <1>1, <1>2, <2>1, <3>1
    <3>3. QED  BY <3>1, <3>2 DEF InQueue
  <2>4. QED  BY <2>2, <2>3
<1>4. ASSUME NEW e, e = Head(q) \/ InQueue(e, Tail(q)) PROVE InQueue(e, q)
  <2>1. CASE e = Head(q)
    <3>1. 1 \in DOMAIN q /\ q[1] = e  BY <1>2, <2>1
    <3>2. QED  BY <3>1 DEF InQueue
  <2>2. CASE InQueue(e, Tail(q))
    <3>1. PICK n \in DOMAIN Tail(q) : Tail(q)[n] = e  BY <2>2 DEF InQueue
    <3>2. n + 1 \in DOMAIN q /\ q[n + 1] = e  BY <1>1, <1>2, <3>1
    <3>3. QED  BY <3>2 DEF InQueue
  <2>3. QED  BY <1>4, <2>1, <2>2
<1>5. QED  BY <1>1, <1>3, <1>4

LEMMA EmptyIn == \A e : ~InQueue(e, <<>>)
  BY DEF InQueue

(* A queue has events of an image if one of them is in it.                 *)
LEMMA QueuedIn ==
    ASSUME NEW q \in Seq(Event), NEW i
    PROVE  ImageQueued(i, q) <=> \E e \in Event : e.image = i /\ InQueue(e, q)
<1>1. \A n \in DOMAIN q : q[n] \in Event  BY ElementOfSeq, LenProperties
<1>2. QED  BY <1>1 DEF ImageQueued, InQueue

-----------------------------------------------------------------------------
(* Type correctness.                                                       *)

LEMMA InitType == Init => TypeOK
<1> SUFFICES ASSUME Init PROVE TypeOK  OBVIOUS
<1>1. 1 \in 1..MaxWrites /\ 0 \in 0..MaxWrites /\ 0 \in 0..MaxFaults
  BY EventsAssumption DEF EventsAssumption
<1>2. NoListing \in [Images -> 0..MaxWrites]  BY <1>1 DEF NoListing
<1>3. <<>> \in Seq(Event)  BY EmptySeq
<1>4. QED  BY <1>1, <1>2, <1>3 DEF Init, TypeOK

LEMMA EventOfType ==
    ASSUME TypeOK, NEW i \in Images, rows[i] < MaxWrites
    PROVE  rows[i] + 1 \in 1..MaxWrites /\ EventOf(i) \in Event
<1>1. rows[i] \in 1..MaxWrites /\ MaxWrites \in Nat
  BY EventsAssumption DEF EventsAssumption, TypeOK
<1>2. rows[i] + 1 \in 1..MaxWrites  BY <1>1
<1>3. QED  BY <1>2 DEF EventOf, Event

LEMMA FaultType ==
    ASSUME TypeOK, NEW kind, Fault(kind)
    PROVE  faults' \in 0..MaxFaults
  BY EventsAssumption DEF EventsAssumption, TypeOK, Fault

LEMMA MissType ==
    ASSUME TypeOK, NEW events \in SUBSET Event, NEW clients, Miss(events, clients)
    PROVE  missed' \in [Clients -> SUBSET Event]
  BY DEF TypeOK, Miss

LEMMA ShownType ==
    ASSUME TypeOK, NEW c \in Clients, NEW e \in Event
    PROVE  Shown(c, e) \in [Images -> 0..MaxWrites]
<1>1. e.image \in Images /\ e.status \in 0..MaxWrites
  BY EventsAssumption DEF Event, EventsAssumption
<1>2. QED  BY <1>1 DEF TypeOK, Shown

LEMMA WorkerType ==
    ASSUME TypeOK, NEW w \in Workers,
           \/ \E i \in Images : Write(w, i)
           \/ WorkerStep(w) \/ Publish(w) \/ PublishFails(w) \/ WorkerCrash(w)
    PROVE  TypeOK'
<1>1. ASSUME NEW i \in Images, Write(w, i) PROVE TypeOK'
  <2>1. rows[i] + 1 \in 1..MaxWrites /\ EventOf(i) \in Event
    BY <1>1, EventOfType DEF Write
  <2>2. rows' \in [Images -> 1..MaxWrites]  BY <1>1, <2>1 DEF Write, TypeOK
  <2>3. unsent' \in [Workers -> SUBSET Event]  BY <1>1, <2>1 DEF Write, TypeOK
  <2>4. raced' \subseteq Images  BY <1>1 DEF Write, TypeOK
  <2>5. QED  BY <1>1, <2>2, <2>3, <2>4 DEF Write, TypeOK, api
<1>2. ASSUME NEW e \in Event, Emit(w, e) PROVE TypeOK'
  <2>1. Append(outbox[w], e) \in Seq(Event)  BY AppendIn DEF TypeOK
  <2>2. outbox' \in [Workers -> Seq(Event)]  BY <1>2, <2>1 DEF Emit, TypeOK
  <2>3. unsent' \in [Workers -> SUBSET Event]  BY <1>2 DEF Emit, TypeOK
  <2>4. QED  BY <1>2, <2>2, <2>3 DEF Emit, TypeOK, api
<1>3. CASE Publish(w)
  <2>1. Head(outbox[w]) \in Event /\ Tail(outbox[w]) \in Seq(Event)
    BY <1>3, TailIn DEF Publish, TypeOK
  <2>2. \A r \in Replicas : Append(inbox[r], Head(outbox[w])) \in Seq(Event)
    BY <2>1, AppendIn DEF TypeOK
  <2>3. outbox' \in [Workers -> Seq(Event)]  BY <1>3, <2>1 DEF Publish, TypeOK
  <2>4. inbox' \in [Replicas -> Seq(Event)]  BY <1>3, <2>2 DEF Publish, TypeOK
  <2>5. missed' \in [Clients -> SUBSET Event]  BY <1>3, <2>1, MissType DEF Publish
  <2>6. QED  BY <1>3, <2>3, <2>4, <2>5 DEF Publish, TypeOK
<1>4. CASE PublishFails(w)
  <2>1. missed' \in [Clients -> SUBSET Event]
    BY <1>4, MissType DEF PublishFails
  <2>2. faults' \in 0..MaxFaults  BY <1>4, FaultType DEF PublishFails
  <2>3. outbox' \in [Workers -> Seq(Event)]  BY <1>4, EmptySeq DEF PublishFails, TypeOK
  <2>4. QED  BY <1>4, <2>1, <2>2, <2>3 DEF PublishFails, TypeOK, api
<1>5. CASE WorkerCrash(w)
  <2>1. unsent[w] \cup {e \in Event : InQueue(e, outbox[w])} \subseteq Event
    BY DEF TypeOK
  <2>2. missed' \in [Clients -> SUBSET Event]
    BY <1>5, <2>1, MissType DEF WorkerCrash
  <2>3. faults' \in 0..MaxFaults  BY <1>5, FaultType DEF WorkerCrash
  <2>4. outbox' \in [Workers -> Seq(Event)]  BY <1>5, EmptySeq DEF WorkerCrash, TypeOK
  <2>5. unsent' \in [Workers -> SUBSET Event]  BY <1>5 DEF WorkerCrash, TypeOK
  <2>6. QED  BY <1>5, <2>2, <2>3, <2>4, <2>5 DEF WorkerCrash, TypeOK, api
<1>6. QED  BY <1>1, <1>2, <1>3, <1>4, <1>5 DEF WorkerStep

LEMMA ApiType ==
    ASSUME TypeOK,
           \/ \E i \in Images : Reprocess(i) \/ Remove(i)
           \/ \E r \in Replicas : Deliver(r) \/ Unsubscribe(r) \/ Subscribe(r)
    PROVE  TypeOK'
<1>1. ASSUME NEW i \in Images, Reprocess(i) PROVE TypeOK'
  <2>1. rows[i] + 1 \in 1..MaxWrites /\ EventOf(i) \in Event
    BY <1>1, EventOfType DEF Reprocess
  <2>2. rows' \in [Images -> 1..MaxWrites]  BY <1>1, <2>1 DEF Reprocess, TypeOK
  <2>3. missed' \in [Clients -> SUBSET Event]  BY <1>1, <2>1, MissType DEF Reprocess
  <2>4. QED  BY <1>1, <2>2, <2>3 DEF Reprocess, TypeOK, api
<1>2. ASSUME NEW i \in Images, Remove(i) PROVE TypeOK'
  BY <1>2 DEF Remove, TypeOK, api
<1>3. ASSUME NEW r \in Replicas, Deliver(r) PROVE TypeOK'
  <2>1. Head(inbox[r]) \in Event /\ Tail(inbox[r]) \in Seq(Event)
    BY <1>3, TailIn DEF Deliver, TypeOK
  <2>2. inbox' \in [Replicas -> Seq(Event)]  BY <1>3, <2>1 DEF Deliver, TypeOK
  <2>3. \A c \in Clients : Shown(c, Head(inbox[r])) \in [Images -> 0..MaxWrites]
    BY <2>1, ShownType
  <2>4. view' \in [Clients -> [Images -> 0..MaxWrites]]
    BY <1>3, <2>3 DEF Deliver, TypeOK
  <2>5. missed' \in [Clients -> SUBSET Event]  BY <1>3, <2>1, MissType DEF Deliver
  <2>6. QED  BY <1>3, <2>2, <2>4, <2>5 DEF Deliver, TypeOK
<1>4. ASSUME NEW r \in Replicas, Unsubscribe(r) PROVE TypeOK'
  <2>1. missed' \in [Clients -> SUBSET Event]  BY <1>4, MissType DEF Unsubscribe
  <2>2. faults' \in 0..MaxFaults  BY <1>4, FaultType DEF Unsubscribe
  <2>3. inbox' \in [Replicas -> Seq(Event)]  BY <1>4, EmptySeq DEF Unsubscribe, TypeOK
  <2>4. QED  BY <1>4, <2>1, <2>2, <2>3 DEF Unsubscribe, TypeOK
<1>5. ASSUME NEW r \in Replicas, Subscribe(r) PROVE TypeOK'
  BY <1>5 DEF Subscribe, TypeOK
<1>6. QED  BY <1>1, <1>2, <1>3, <1>4, <1>5

LEMMA ClientType ==
    ASSUME TypeOK, NEW c \in Clients, Open(c) \/ Break(c) \/ List(c) \/ ShowList(c)
    PROVE  TypeOK'
<1>1. CASE Open(c)  BY <1>1 DEF Open, TypeOK
<1>2. CASE Break(c)
  <2>1. faults' \in 0..MaxFaults  BY <1>2, FaultType DEF Break
  <2>2. QED  BY <1>2, <2>1 DEF Break, TypeOK
<1>3. 0 \in 0..MaxWrites  BY EventsAssumption DEF EventsAssumption
<1>4. CASE List(c)
  <2>1. ReadRows(c) \in [Images -> 0..MaxWrites]  BY <1>3 DEF ReadRows, TypeOK
  <2>2. QED  BY <1>4, <2>1 DEF List, TypeOK
<1>5. CASE ShowList(c)
  <2>1. NoListing \in [Images -> 0..MaxWrites]  BY <1>3 DEF NoListing
  <2>2. QED  BY <1>5, <2>1 DEF ShowList, TypeOK
<1>6. QED  BY <1>1, <1>2, <1>4, <1>5

LEMMA NextType ==
    ASSUME TypeOK, [Next]_vars
    PROVE  TypeOK'
<1>1. CASE UNCHANGED vars  BY <1>1 DEF vars, TypeOK
<1>2. CASE Next  BY <1>2, WorkerType, ApiType, ClientType DEF Next
<1>3. QED  BY <1>1, <1>2

(* The type invariant of the status events, for any number of processes.   *)
THEOREM TypeCorrect == Spec => []TypeOK
  BY InitType, NextType, PTL DEF Spec
-----------------------------------------------------------------------------
(* Nothing is ahead of the database.                                       *)

(* Worker w has made the event and not yet published it.                   *)
Unpub(w, e) == e \in unsent[w] \/ InQueue(e, outbox[w])

BehindInv ==
    /\ \A w \in Workers, e \in Event : Unpub(w, e) => e.status <= rows[e.image]
    /\ \A r \in Replicas, e \in Event : InQueue(e, inbox[r]) => e.status <= rows[e.image]
    /\ \A c \in Clients, i \in Images :
          /\ listing[c][i] <= rows[i] /\ view[c][i] <= rows[i]
          /\ i \notin OwnImages[c] => listing[c][i] = 0 /\ view[c][i] = 0

LEMMA BehindFrame ==
    ASSUME TypeOK, TypeOK', BehindInv,
           \A i \in Images : rows[i] <= rows'[i],
           \A w \in Workers, e \in Event : Unpub(w, e)' =>
              e.status <= rows'[e.image] \/ \E x \in Workers : Unpub(x, e),
           \A r \in Replicas, e \in Event : InQueue(e, inbox'[r]) =>
              InQueue(e, inbox[r]) \/ \E x \in Workers : Unpub(x, e),
           UNCHANGED <<listing, view>>
    PROVE  BehindInv'
<1>1. /\ \A i \in Images : rows[i] \in Int /\ rows'[i] \in Int
      /\ \A e \in Event : e.status \in Int /\ e.image \in Images
      /\ \A c \in Clients, i \in Images : view[c][i] \in Int /\ listing[c][i] \in Int
  BY EventsAssumption DEF TypeOK, Event, EventsAssumption
<1>2. \A e \in Event : (\E x \in Workers : Unpub(x, e)) => e.status <= rows'[e.image]
  BY <1>1 DEF BehindInv
<1>3. \A r \in Replicas, e \in Event : InQueue(e, inbox[r]) => e.status <= rows'[e.image]
  BY <1>1 DEF BehindInv
<1>4. \A c \in Clients, i \in Images :
         /\ listing'[c][i] <= rows'[i] /\ view'[c][i] <= rows'[i]
         /\ i \notin OwnImages[c] => listing'[c][i] = 0 /\ view'[c][i] = 0
  BY <1>1 DEF BehindInv
<1>5. QED  BY <1>2, <1>3, <1>4 DEF BehindInv

(* What the steps of the workers do to the events that are not published.  *)
LEMMA WriteEffect ==
    ASSUME TypeOK, NEW w \in Workers, NEW i \in Images, Write(w, i)
    PROVE  /\ EventOf(i) \in Event /\ EventOf(i).image = i /\ EventOf(i).status = rows[i] + 1
           /\ rows'[i] = rows[i] + 1 /\ \A k \in Images \ {i} : rows'[k] = rows[k]
           /\ unsent'[w] = unsent[w] \cup {EventOf(i)}
           /\ \A x \in Workers \ {w} : unsent'[x] = unsent[x]
           /\ UNCHANGED <<removed, outbox, api, missed, faults>>
<1>1. EventOf(i) \in Event  BY EventOfType DEF Write
<1>2. EventOf(i).image = i /\ EventOf(i).status = rows[i] + 1  BY DEF EventOf
<1>3. QED  BY <1>1, <1>2 DEF Write, TypeOK

LEMMA EmitEffect ==
    ASSUME TypeOK, NEW w \in Workers, NEW e \in Event, Emit(w, e)
    PROVE  /\ e \in unsent[w] /\ unsent'[w] = unsent[w] \ {e}
           /\ outbox'[w] = Append(outbox[w], e)
           /\ \A f : InQueue(f, outbox'[w]) <=> InQueue(f, outbox[w]) \/ f = e
           /\ \A x \in Workers \ {w} : unsent'[x] = unsent[x] /\ outbox'[x] = outbox[x]
           /\ \A x \in Workers : \A f : Unpub(x, f)' <=> Unpub(x, f)
<1>1. outbox[w] \in Seq(Event)  BY DEF TypeOK
<1>2. /\ e \in unsent[w] /\ unsent'[w] = unsent[w] \ {e}
      /\ outbox'[w] = Append(outbox[w], e)
      /\ \A x \in Workers \ {w} : unsent'[x] = unsent[x] /\ outbox'[x] = outbox[x]
  BY DEF Emit, TypeOK
<1>3. \A f : InQueue(f, outbox'[w]) <=> InQueue(f, outbox[w]) \/ f = e
  BY <1>1, <1>2, AppendIn
<1>4. QED  BY <1>2, <1>3 DEF Unpub

LEMMA PublishEffect ==
    ASSUME TypeOK, NEW w \in Workers, Publish(w)
    PROVE  \E h \in Event :
              /\ InQueue(h, outbox[w]) /\ outbox[w] # <<>> /\ h = Head(outbox[w])
              /\ outbox'[w] = Tail(outbox[w])
              /\ \A f : InQueue(f, outbox[w]) <=> f = h \/ InQueue(f, outbox'[w])
              /\ \A x \in Workers \ {w} : outbox'[x] = outbox[x]
              /\ unsent' = unsent
              /\ \A r \in Replicas :
                    \/ /\ subscribed[r] /\ inbox'[r] = Append(inbox[r], h)
                       /\ \A f : InQueue(f, inbox'[r]) <=> InQueue(f, inbox[r]) \/ f = h
                    \/ ~subscribed[r] /\ inbox'[r] = inbox[r]
              /\ \A c \in Clients : /\ missed[c] \subseteq missed'[c]
                                    /\ ~subscribed[ReplicaOf[c]] => h \in missed'[c]
<1>1. outbox[w] \in Seq(Event) /\ outbox[w] # <<>>  BY DEF TypeOK, Publish
<1> PICK h : h = Head(outbox[w])  OBVIOUS
<1>2. h \in Event /\ \A f : InQueue(f, outbox[w]) <=> f = h \/ InQueue(f, Tail(outbox[w]))
  BY <1>1, TailIn
<1>3. outbox'[w] = Tail(outbox[w]) /\ \A x \in Workers \ {w} : outbox'[x] = outbox[x]
  BY DEF Publish, TypeOK
<1>4. ASSUME NEW r \in Replicas
      PROVE  \/ /\ subscribed[r] /\ inbox'[r] = Append(inbox[r], h)
                /\ \A f : InQueue(f, inbox'[r]) <=> InQueue(f, inbox[r]) \/ f = h
             \/ ~subscribed[r] /\ inbox'[r] = inbox[r]
  <2>1. inbox'[r] = IF subscribed[r] THEN Append(inbox[r], h) ELSE inbox[r]
    BY DEF Publish
  <2>2. inbox[r] \in Seq(Event)  BY DEF TypeOK
  <2>3. \A f : InQueue(f, Append(inbox[r], h)) <=> InQueue(f, inbox[r]) \/ f = h
    BY <1>2, <2>2, AppendIn
  <2>4. CASE subscribed[r]
    <3>1. inbox'[r] = Append(inbox[r], h)  BY <2>1, <2>4
    <3>2. QED  BY <2>3, <2>4, <3>1
  <2>5. CASE ~subscribed[r]  BY <2>1, <2>5
  <2>6. QED  BY <2>4, <2>5
<1>5. \A c \in Clients : /\ missed[c] \subseteq missed'[c]
                         /\ ~subscribed[ReplicaOf[c]] => h \in missed'[c]
  BY DEF Publish, Miss
<1>6. unsent' = unsent  BY DEF Publish
<1>7. QED  BY <1>1, <1>2, <1>3, <1>4, <1>5, <1>6

LEMMA LossEffect ==
    ASSUME TypeOK, NEW w \in Workers, PublishFails(w) \/ WorkerCrash(w)
    PROVE  /\ UNCHANGED <<rows, removed, api, raced>>
           /\ \A x \in Workers : /\ outbox'[x] \in {outbox[x], <<>>}
                                 /\ unsent'[x] \subseteq unsent[x]
                                 /\ \A f : Unpub(x, f)' => Unpub(x, f)
           /\ \A x \in Workers, f \in Event : Unpub(x, f) /\ ~Unpub(x, f)' =>
                 \A c \in Clients : f \in missed'[c]
           /\ \A c \in Clients : missed[c] \subseteq missed'[c]
<1>1. UNCHANGED <<rows, removed, api, raced>>  BY DEF PublishFails, WorkerCrash
<1>2. /\ outbox'[w] = <<>> /\ \A x \in Workers \ {w} : outbox'[x] = outbox[x]
      /\ unsent'[w] \in {unsent[w], {}} /\ \A x \in Workers \ {w} : unsent'[x] = unsent[x]
  BY DEF PublishFails, WorkerCrash, TypeOK
<1>3. ASSUME NEW x \in Workers, NEW f, Unpub(x, f)' PROVE Unpub(x, f)
  BY <1>2, <1>3, EmptyIn DEF Unpub
<1>4. \A c \in Clients :
         /\ missed[c] \subseteq missed'[c]
         /\ \A f \in Event : InQueue(f, outbox[w]) => f \in missed'[c]
         /\ unsent'[w] # unsent[w] => unsent[w] \subseteq missed'[c]
  BY DEF PublishFails, WorkerCrash, Miss
<1>5. ASSUME NEW x \in Workers, NEW f \in Event, Unpub(x, f), ~Unpub(x, f)', NEW c \in Clients
      PROVE  f \in missed'[c]
  BY <1>2, <1>4, <1>5 DEF Unpub
<1>6. \A x \in Workers : outbox'[x] \in {outbox[x], <<>>} /\ unsent'[x] \subseteq unsent[x]
  BY <1>2
<1>7. QED  BY <1>1, <1>3, <1>4, <1>5, <1>6

LEMMA UnsubscribeEffect ==
    ASSUME TypeOK, NEW r \in Replicas, Unsubscribe(r)
    PROVE  /\ UNCHANGED <<rows, unsent, outbox, listing, view, raced>>
           /\ inbox'[r] = <<>> /\ \A q \in Replicas \ {r} : inbox'[q] = inbox[q]
           /\ \A q \in Replicas : \A f : InQueue(f, inbox'[q]) => InQueue(f, inbox[q])
           /\ \A c \in Clients :
                 /\ missed[c] \subseteq missed'[c]
                 /\ ReplicaOf[c] = r =>
                       \A f \in Event : InQueue(f, inbox[r]) => f \in missed'[c]
<1>1. inbox'[r] = <<>> /\ \A q \in Replicas \ {r} : inbox'[q] = inbox[q]
  BY DEF Unsubscribe, TypeOK
<1>2. \A q \in Replicas : \A f : InQueue(f, inbox'[q]) => InQueue(f, inbox[q])
  BY <1>1, EmptyIn
<1>3. \A c \in Clients :
         /\ missed[c] \subseteq missed'[c]
         /\ ReplicaOf[c] = r =>
               \A f \in Event : InQueue(f, inbox[r]) => f \in missed'[c]
  BY DEF Unsubscribe, Miss
<1>4. UNCHANGED <<rows, unsent, outbox, listing, view, raced>>  BY DEF Unsubscribe
<1>5. QED  BY <1>1, <1>2, <1>3, <1>4

LEMMA DeliverEffect ==
    ASSUME TypeOK, NEW r \in Replicas, Deliver(r)
    PROVE  \E h \in Event :
              /\ inbox[r] # <<>> /\ h = Head(inbox[r]) /\ inbox'[r] = Tail(inbox[r])
              /\ InQueue(h, inbox[r])
              /\ \A f : InQueue(f, inbox[r]) <=> f = h \/ InQueue(f, inbox'[r])
              /\ \A q \in Replicas \ {r} : inbox'[q] = inbox[q]
              /\ \A c \in Clients, i \in Images :
                    \/ view'[c][i] = view[c][i]
                    \/ /\ i = h.image /\ i \in OwnImages[c]
                       /\ view'[c][i] = h.status
              /\ \A c \in Clients : missed[c] \subseteq missed'[c]
              /\ \A c \in Clients :
                    ReplicaOf[c] = r /\ h.image \in OwnImages[c] =>
                       \/ h \in missed'[c]
                       \/ /\ listing[c] = NoListing
                          /\ view'[c][h.image] \in {0, h.status}
<1>1. inbox[r] \in Seq(Event) /\ inbox[r] # <<>>  BY DEF TypeOK, Deliver
<1> PICK h : h = Head(inbox[r])  OBVIOUS
<1>2. h \in Event /\ \A f : InQueue(f, inbox[r]) <=> f = h \/ InQueue(f, Tail(inbox[r]))
  BY <1>1, TailIn
<1>3. inbox'[r] = Tail(inbox[r]) /\ \A q \in Replicas \ {r} : inbox'[q] = inbox[q]
  BY DEF Deliver, TypeOK
<1>4. h.image \in Images  BY <1>2 DEF Event
<1>5. \A c \in Clients :
         view'[c] = IF c \in Receivers(r, h) THEN Shown(c, h) ELSE view[c]
  BY DEF Deliver
<1>6. ASSUME NEW c \in Clients
      PROVE  /\ Shown(c, h)[h.image] \in {0, h.status}
             /\ \A i \in Images : Shown(c, h)[i] = view[c][i] \/
                                  (i = h.image /\ Shown(c, h)[i] = h.status)
  <2>1. view[c] \in [Images -> 0..MaxWrites]  BY DEF TypeOK
  <2>2. CASE view[c][h.image] = 0  BY <2>2 DEF Shown
  <2>3. CASE view[c][h.image] # 0
    <3>1. Shown(c, h) = [view[c] EXCEPT ![h.image] = h.status]  BY <2>3 DEF Shown
    <3>2. QED  BY <1>4, <2>1, <3>1
  <2>4. QED  BY <2>2, <2>3
<1>7. \A c \in Clients : c \in Receivers(r, h) => h.image \in OwnImages[c]
  BY DEF Receivers
<1>8. \A c \in Clients, i \in Images :
         \/ view'[c][i] = view[c][i]
         \/ i = h.image /\ i \in OwnImages[c] /\ view'[c][i] = h.status
  BY <1>5, <1>6, <1>7
<1>9. \A c \in Clients :
         missed'[c] = IF ReplicaOf[c] = r /\ (c \notin Receivers(r, h) \/ listing[c] # NoListing)
                      THEN missed[c] \cup {h} ELSE missed[c]
  BY DEF Deliver, Miss
<1>10. \A c \in Clients :
          ReplicaOf[c] = r /\ h.image \in OwnImages[c] =>
             \/ h \in missed'[c]
             \/ listing[c] = NoListing /\ view'[c][h.image] \in {0, h.status}
  BY <1>5, <1>6, <1>9
<1>11. \A c \in Clients : missed[c] \subseteq missed'[c]  BY <1>9
<1>12. InQueue(h, inbox[r])  BY <1>2
<1>13. QED  BY <1>1, <1>2, <1>3, <1>8, <1>10, <1>11, <1>12

LEMMA WorkerBehind ==
    ASSUME TypeOK, TypeOK', BehindInv, NEW w \in Workers,
           \/ \E i \in Images : Write(w, i)
           \/ WorkerStep(w) \/ Publish(w) \/ PublishFails(w) \/ WorkerCrash(w)
    PROVE  BehindInv'
<1>0. \A i \in Images : rows[i] \in Int /\ rows[i] <= rows[i] /\ rows[i] <= rows[i] + 1
  BY EventsAssumption DEF TypeOK, EventsAssumption
<1>1. ASSUME NEW i \in Images, Write(w, i) PROVE BehindInv'
  <2>1. \A k \in Images : rows[k] <= rows'[k]  BY <1>0, <1>1, WriteEffect
  <2>2. ASSUME NEW x \in Workers, NEW e \in Event, Unpub(x, e)', ~Unpub(x, e)
        PROVE  e.status <= rows'[e.image]
    <3>1. e = EventOf(i)  BY <1>1, <2>2, WriteEffect DEF Unpub
    <3>2. rows'[i] \in Int  BY EventsAssumption DEF TypeOK, EventsAssumption
    <3>3. QED  BY <1>1, <3>1, <3>2, WriteEffect
  <2>3. UNCHANGED <<inbox, listing, view>>  BY <1>1 DEF Write, api
  <2>4. QED  BY <2>1, <2>2, <2>3, BehindFrame
<1>2. ASSUME NEW e \in Event, Emit(w, e) PROVE BehindInv'
  <2>1. \A x \in Workers, f \in Event : Unpub(x, f)' => Unpub(x, f)
    BY <1>2, EmitEffect
  <2>2. UNCHANGED <<rows, inbox, listing, view>>  BY <1>2 DEF Emit, api
  <2>3. QED  BY <1>0, <2>1, <2>2, BehindFrame
<1>3. CASE Publish(w)
  <2>1. PICK h \in Event :
           /\ InQueue(h, outbox[w])
           /\ \A f : InQueue(f, outbox[w]) <=> f = h \/ InQueue(f, outbox'[w])
           /\ \A x \in Workers \ {w} : outbox'[x] = outbox[x]
           /\ unsent' = unsent
           /\ \A r \in Replicas :
                 \/ \A f : InQueue(f, inbox'[r]) <=> InQueue(f, inbox[r]) \/ f = h
                 \/ inbox'[r] = inbox[r]
    BY <1>3, PublishEffect
  <2>2. \A x \in Workers, f \in Event : Unpub(x, f)' => Unpub(x, f)
    BY <2>1 DEF Unpub
  <2>3. \A r \in Replicas, e \in Event : InQueue(e, inbox'[r]) =>
           InQueue(e, inbox[r]) \/ \E x \in Workers : Unpub(x, e)
    BY <2>1 DEF Unpub
  <2>4. UNCHANGED <<rows, listing, view>>  BY <1>3 DEF Publish
  <2>5. QED  BY <1>0, <2>2, <2>3, <2>4, BehindFrame
<1>4. CASE PublishFails(w) \/ WorkerCrash(w)
  <2>1. \A x \in Workers, f \in Event : Unpub(x, f)' => Unpub(x, f)
    BY <1>4, LossEffect
  <2>2. UNCHANGED <<rows, inbox, listing, view>>
    BY <1>4 DEF PublishFails, WorkerCrash, api
  <2>3. QED  BY <1>0, <2>1, <2>2, BehindFrame
<1>5. QED  BY <1>1, <1>2, <1>3, <1>4 DEF WorkerStep

LEMMA ApiBehind ==
    ASSUME TypeOK, TypeOK', BehindInv,
           \/ \E i \in Images : Reprocess(i) \/ Remove(i)
           \/ \E r \in Replicas : Deliver(r) \/ Unsubscribe(r) \/ Subscribe(r)
    PROVE  BehindInv'
<1>0. \A i \in Images : rows[i] \in Int /\ rows[i] <= rows[i] /\ rows[i] <= rows[i] + 1
  BY EventsAssumption DEF TypeOK, EventsAssumption
<1>1. CASE \E i \in Images : Reprocess(i) \/ Remove(i)
  <2>1. \A k \in Images : rows[k] <= rows'[k]
    BY <1>0, <1>1 DEF Reprocess, Remove, TypeOK
  <2>2. UNCHANGED <<unsent, outbox, inbox, listing, view>>
    BY <1>1 DEF Reprocess, Remove, api
  <2>3. QED  BY <2>1, <2>2, BehindFrame DEF Unpub
<1>2. CASE \E r \in Replicas : Unsubscribe(r) \/ Subscribe(r)
  <2>1. \A q \in Replicas : \A e : InQueue(e, inbox'[q]) => InQueue(e, inbox[q])
    BY <1>2, UnsubscribeEffect DEF Subscribe
  <2>2. UNCHANGED <<rows, unsent, outbox, listing, view>>
    BY <1>2 DEF Unsubscribe, Subscribe
  <2>3. QED  BY <1>0, <2>1, <2>2, BehindFrame DEF Unpub
<1>3. ASSUME NEW r \in Replicas, Deliver(r) PROVE BehindInv'
  <2>1. PICK h \in Event :
           /\ InQueue(h, inbox[r])
           /\ \A f : InQueue(f, inbox[r]) <=> f = h \/ InQueue(f, inbox'[r])
           /\ \A q \in Replicas \ {r} : inbox'[q] = inbox[q]
           /\ \A c \in Clients, i \in Images :
                 \/ view'[c][i] = view[c][i]
                 \/ i = h.image /\ i \in OwnImages[c] /\ view'[c][i] = h.status
    BY <1>3, DeliverEffect
  <2>2. UNCHANGED <<rows, unsent, outbox, listing>>  BY <1>3 DEF Deliver
  <2>3. h.status <= rows[h.image]  BY <2>1 DEF BehindInv
  <2>4. \A q \in Replicas, e \in Event : InQueue(e, inbox'[q]) => InQueue(e, inbox[q])
    BY <2>1
  <2>5. \A c \in Clients, i \in Images :
           /\ view'[c][i] <= rows[i]
           /\ i \notin OwnImages[c] => view'[c][i] = 0
    BY <2>1, <2>3 DEF BehindInv
  <2>6. QED  BY <2>2, <2>4, <2>5 DEF BehindInv, Unpub
<1>4. QED  BY <1>1, <1>2, <1>3

LEMMA ClientBehind ==
    ASSUME TypeOK, TypeOK', BehindInv, NEW c \in Clients,
           Open(c) \/ Break(c) \/ List(c) \/ ShowList(c)
    PROVE  BehindInv'
<1>0. \A i \in Images : rows[i] \in 1..MaxWrites /\ rows[i] <= rows[i] /\ 0 <= rows[i]
  BY EventsAssumption DEF TypeOK, EventsAssumption
<1>1. UNCHANGED <<rows, unsent, outbox, inbox>>  BY DEF Open, Break, List, ShowList
<1>2. CASE Open(c) \/ Break(c)
  <2>1. UNCHANGED <<listing, view>>  BY <1>2 DEF Open, Break
  <2>2. QED  BY <1>0, <1>1, <2>1, BehindFrame DEF Unpub
<1>3. CASE List(c) \/ ShowList(c)
  <2>1. ASSUME NEW d \in Clients, NEW i \in Images
        PROVE  /\ listing'[d][i] <= rows[i] /\ view'[d][i] <= rows[i]
               /\ i \notin OwnImages[d] => listing'[d][i] = 0 /\ view'[d][i] = 0
    <3>1. /\ ReadRows(c)[i] = IF i \in OwnImages[c] \ removed THEN rows[i] ELSE 0
          /\ NoListing[i] = 0
      BY DEF ReadRows, NoListing
    <3>2. /\ listing'[d] \in {listing[d], NoListing} \/ (d = c /\ listing'[d] = ReadRows(c))
          /\ view'[d] \in {view[d], listing[d]}
      BY <1>3 DEF List, ShowList, TypeOK
    <3>3. QED  BY <1>0, <3>1, <3>2 DEF BehindInv
  <2>2. QED  BY <1>1, <2>1 DEF BehindInv, Unpub
<1>4. QED  BY <1>2, <1>3

LEMMA NextBehind ==
    ASSUME TypeOK, TypeOK', BehindInv, [Next]_vars
    PROVE  BehindInv'
<1>1. CASE UNCHANGED vars  BY <1>1 DEF vars, BehindInv, Unpub
<1>2. CASE Next  BY <1>2, WorkerBehind, ApiBehind, ClientBehind DEF Next
<1>3. QED  BY <1>1, <1>2

LEMMA InitBehind == Init => BehindInv
  BY EmptyIn DEF Init, BehindInv, Unpub, NoListing

LEMMA BehindHolds == Spec => [](TypeOK /\ BehindInv)
<1>1. Init => TypeOK /\ BehindInv  BY InitType, InitBehind
<1>2. (TypeOK /\ BehindInv) /\ [Next]_vars => (TypeOK /\ BehindInv)'
  BY NextType, NextBehind
<1>3. QED  BY <1>1, <1>2, PTL DEF Spec

(* Nothing under way to a client, and nothing it shows, is ahead of the    *)
(* database, and a client shows images of its own user only, whatever      *)
(* fails: each status write is awaited before its event                    *)
(* (image.worker.ts:45-51), and the stream filters by user                 *)
(* (images.controller.ts:188).                                             *)
THEOREM NeverAheadTheorem == Spec => []NeverAhead
<1>1. BehindInv => NeverAhead  BY DEF BehindInv, NeverAhead, Unpub
<1>2. QED  BY <1>1, BehindHolds, PTL
-----------------------------------------------------------------------------
(* Why a card stays stale.                                                 *)

(* Later events of the image are later in the queue.                       *)
Sorted(i, q) ==
    \A m, n \in DOMAIN q :
        m < n /\ q[m].image = i /\ q[n].image = i => q[m].status < q[n].status

(* What an image that has not raced is like: one event at most is on its   *)
(* way to Redis, in one place, and it is later than those that are on      *)
(* their way to the replicas, which are in order.                          *)
Solo(i) ==
    /\ \A w, x \in Workers, e, f \in Event :
          e.image = i /\ f.image = i /\ Unpub(w, e) /\ Unpub(x, f) => w = x /\ e = f
    /\ \A w \in Workers, e \in Event :
          e.image = i /\ e \in unsent[w] => ~InQueue(e, outbox[w])
    /\ \A w \in Workers : Sorted(i, outbox[w])
    /\ \A r \in Replicas : Sorted(i, inbox[r])
    /\ \A w \in Workers, r \in Replicas, e, f \in Event :
          e.image = i /\ f.image = i /\ Unpub(w, e) /\ InQueue(f, inbox[r])
          => f.status < e.status

Latest(i) == [image |-> i, status |-> rows[i]]

(* Nothing about the image is under way by the stream.                     *)
Quiet(c, i) ==
    \A e \in Event : e.image = i =>
        ~InQueue(e, inbox[ReplicaOf[c]]) /\ \A w \in Workers : ~Unpub(w, e)

(* The latest status of the image is missed, or on its way, or all that    *)
(* there is about the image at the client and on its way to it.            *)
Caught(c, i) ==
    \/ Latest(i) \in missed[c]
    \/ \E w \in Workers : Unpub(w, Latest(i))
    \/ InQueue(Latest(i), inbox[ReplicaOf[c]])
    \/ Quiet(c, i) /\ view[c][i] \in {0, rows[i]} /\ listing[c][i] \in {0, rows[i]}

StaleInv ==
    \A i \in Images \ raced :
        Solo(i) /\ \A c \in Clients : i \in OwnImages[c] => Caught(c, i)

LEMMA SortedAppend ==
    ASSUME NEW q \in Seq(Event), NEW x \in Event, NEW i, Sorted(i, q),
           x.image = i => \A e \in Event : e.image = i /\ InQueue(e, q) => e.status < x.status
    PROVE  Sorted(i, Append(q, x))
<1>1. /\ Len(Append(q, x)) = Len(q) + 1 /\ Append(q, x)[Len(q) + 1] = x
      /\ \A n \in 1..Len(q) : Append(q, x)[n] = q[n]
      /\ Append(q, x) \in Seq(Event)
  BY AppendProperties
<1>2. DOMAIN q = 1..Len(q) /\ DOMAIN Append(q, x) = 1..(Len(q) + 1) /\ Len(q) \in Nat
  BY <1>1, LenProperties
<1>3. \A m \in DOMAIN q : q[m] \in Event /\ InQueue(q[m], q)
  BY ElementOfSeq, <1>2 DEF InQueue
<1> SUFFICES ASSUME NEW m \in DOMAIN Append(q, x), NEW n \in DOMAIN Append(q, x), m < n,
                    Append(q, x)[m].image = i, Append(q, x)[n].image = i
             PROVE  Append(q, x)[m].status < Append(q, x)[n].status
  BY DEF Sorted
<1>4. m \in DOMAIN q /\ Append(q, x)[m] = q[m]  BY <1>1, <1>2
<1>5. CASE n \in DOMAIN q
  <2>1. Append(q, x)[n] = q[n]  BY <1>1, <1>2, <1>5
  <2>2. QED  BY <1>4, <1>5, <2>1 DEF Sorted
<1>6. CASE n \notin DOMAIN q
  <2>1. n = Len(q) + 1  BY <1>2, <1>6
  <2>2. Append(q, x)[n] = x  BY <1>1, <2>1
  <2>3. QED  BY <1>3, <1>4, <2>2
<1>7. QED  BY <1>5, <1>6

LEMMA SortedTail ==
    ASSUME NEW q \in Seq(Event), q # <<>>, NEW i, Sorted(i, q)
    PROVE  /\ Sorted(i, Tail(q))
           /\ Head(q).image = i => \A e : e.image = i /\ InQueue(e, Tail(q)) =>
                 Head(q).status < e.status
<1>1. /\ Tail(q) \in Seq(Event) /\ Len(Tail(q)) = Len(q) - 1
      /\ \A n \in 1..Len(Tail(q)) : Tail(q)[n] = q[n + 1]
  BY HeadTailProperties
<1>2. /\ DOMAIN q = 1..Len(q) /\ DOMAIN Tail(q) = 1..(Len(q) - 1)
      /\ Len(q) \in Nat /\ Len(q) > 0 /\ Head(q) = q[1]
  BY <1>1, LenProperties, EmptySeq
<1>3. \A n \in DOMAIN Tail(q) : n + 1 \in DOMAIN q /\ Tail(q)[n] = q[n + 1] /\ 1 < n + 1
  BY <1>1, <1>2
<1>4. Sorted(i, Tail(q))
  <2>1. \A m, n \in DOMAIN Tail(q) : m < n => m + 1 < n + 1  BY <1>2
  <2>2. QED  BY <1>3, <2>1 DEF Sorted
<1>5. ASSUME Head(q).image = i, NEW e, e.image = i, InQueue(e, Tail(q))
      PROVE  Head(q).status < e.status
  <2>1. PICK n \in DOMAIN Tail(q) : Tail(q)[n] = e  BY <1>5 DEF InQueue
  <2>2. 1 \in DOMAIN q /\ n + 1 \in DOMAIN q /\ 1 < n + 1 /\ q[n + 1] = e
    BY <1>2, <1>3, <2>1
  <2>3. QED  BY <1>2, <1>5, <2>2 DEF Sorted
<1>6. QED  BY <1>4, <1>5

LEMMA SortedEmpty == \A i : Sorted(i, <<>>)
  BY DEF Sorted

(* An image for which nothing new is under way and the queues are in order *)
(* stays solo.                                                             *)
LEMMA SoloFrame ==
    ASSUME NEW i \in Images, Solo(i),
           \A w \in Workers, e \in Event : e.image = i =>
              /\ e \in unsent'[w] => e \in unsent[w]
              /\ InQueue(e, outbox'[w]) => InQueue(e, outbox[w]),
           \A r \in Replicas, e \in Event : e.image = i =>
              (InQueue(e, inbox'[r]) => InQueue(e, inbox[r])),
           \A w \in Workers : Sorted(i, outbox'[w]),
           \A r \in Replicas : Sorted(i, inbox'[r])
    PROVE  Solo(i)'
<1>1. \A w \in Workers, e \in Event : e.image = i => (Unpub(w, e)' => Unpub(w, e))
  BY DEF Unpub
<1>2. \A w, x \in Workers, e, f \in Event :
         e.image = i /\ f.image = i /\ Unpub(w, e)' /\ Unpub(x, f)' => w = x /\ e = f
  BY <1>1 DEF Solo
<1>3. \A w \in Workers, e \in Event :
         e.image = i /\ e \in unsent'[w] => ~InQueue(e, outbox'[w])
  BY DEF Solo
<1>4. \A w \in Workers, r \in Replicas, e, f \in Event :
         e.image = i /\ f.image = i /\ Unpub(w, e)' /\ InQueue(f, inbox'[r])
         => f.status < e.status
  BY <1>1 DEF Solo
<1>5. QED  BY <1>2, <1>3, <1>4 DEF Solo, Sorted

(* The latest status stays where it is, or is missed, and nothing older    *)
(* comes up beside it.                                                     *)
LEMMA CaughtFrame ==
    ASSUME TypeOK, NEW c \in Clients, NEW i \in Images, Caught(c, i),
           rows'[i] = rows[i], missed[c] \subseteq missed'[c],
           \A w \in Workers, e \in Event : e.image = i =>
              /\ Unpub(w, e) => Unpub(w, e)' \/ e \in missed'[c]
              /\ Unpub(w, e)' => Unpub(w, e),
           \A e \in Event : e.image = i =>
              /\ InQueue(e, inbox[ReplicaOf[c]]) =>
                    InQueue(e, inbox'[ReplicaOf[c]]) \/ e \in missed'[c]
              /\ InQueue(e, inbox'[ReplicaOf[c]]) => InQueue(e, inbox[ReplicaOf[c]]),
           view'[c][i] \in {view[c][i], listing[c][i]},
           listing'[c][i] \in {0, rows[i], listing[c][i]}
    PROVE  Caught(c, i)'
<1>1. Latest(i) \in Event /\ Latest(i).image = i /\ Latest(i)' = Latest(i)
  BY DEF TypeOK, Event, Latest
<1>2. CASE Latest(i) \in missed[c]  BY <1>1, <1>2 DEF Caught
<1>3. CASE \E w \in Workers : Unpub(w, Latest(i))
  <2>1. (\E w \in Workers : Unpub(w, Latest(i))') \/ Latest(i) \in missed'[c]
    BY <1>1, <1>3
  <2>2. QED  BY <1>1, <2>1 DEF Caught, Unpub
<1>4. CASE InQueue(Latest(i), inbox[ReplicaOf[c]])
  BY <1>1, <1>4 DEF Caught
<1>5. CASE Quiet(c, i) /\ view[c][i] \in {0, rows[i]} /\ listing[c][i] \in {0, rows[i]}
  <2>1. Quiet(c, i)'  BY <1>5 DEF Quiet
  <2>2. view'[c][i] \in {0, rows'[i]} /\ listing'[c][i] \in {0, rows'[i]}  BY <1>5
  <2>3. QED  BY <2>1, <2>2 DEF Caught
<1>6. QED  BY <1>2, <1>3, <1>4, <1>5 DEF Caught

(* A write of a new status starts one event on its way.                    *)
LEMMA WriteStale ==
    ASSUME TypeOK, TypeOK', BehindInv, StaleInv, NEW w \in Workers, NEW k \in Images,
           Write(w, k)
    PROVE  StaleInv'
<1> SUFFICES ASSUME NEW i \in Images, i \notin raced'
             PROVE  Solo(i)' /\ \A c \in Clients : i \in OwnImages[c] => Caught(c, i)'
  BY DEF StaleInv
<1> PICK new \in Event : new = EventOf(k)  BY WriteEffect
<1>1. /\ new.image = k /\ new.status = rows[k] + 1
      /\ rows'[k] = rows[k] + 1 /\ \A l \in Images \ {k} : rows'[l] = rows[l]
      /\ unsent'[w] = unsent[w] \cup {new}
      /\ \A x \in Workers \ {w} : unsent'[x] = unsent[x]
      /\ UNCHANGED <<removed, outbox, inbox, listing, view, missed>>
  BY WriteEffect DEF api
<1>2. i \notin raced /\ (i = k => ~Unpublished(k))  BY DEF Write
<1>3. Solo(i) /\ \A c \in Clients : i \in OwnImages[c] => Caught(c, i)
  BY <1>2 DEF StaleInv
<1>4. \A x \in Workers, e \in Event : Unpub(x, e)' <=> Unpub(x, e) \/ (x = w /\ e = new)
  BY <1>1 DEF Unpub
<1>5. CASE i # k
  <2>1. Solo(i)'
    <3>1. /\ \A x \in Workers, e \in Event : e.image = i =>
                /\ e \in unsent'[x] => e \in unsent[x]
                /\ InQueue(e, outbox'[x]) => InQueue(e, outbox[x])
          /\ \A r \in Replicas, e \in Event : e.image = i =>
                (InQueue(e, inbox'[r]) => InQueue(e, inbox[r]))
          /\ \A x \in Workers : Sorted(i, outbox'[x])
          /\ \A r \in Replicas : Sorted(i, inbox'[r])
      BY <1>1, <1>3, <1>5 DEF Solo
    <3>2. QED  BY <1>3, <3>1, SoloFrame
  <2>2. ASSUME NEW c \in Clients, i \in OwnImages[c] PROVE Caught(c, i)'
    <3>1. /\ \A x \in Workers, e \in Event : e.image = i => (Unpub(x, e)' <=> Unpub(x, e))
          /\ rows'[i] = rows[i]
      BY <1>1, <1>4, <1>5
    <3>2. Caught(c, i)  BY <1>3, <2>2
    <3>3. QED  BY <1>1, <3>1, <3>2, CaughtFrame
  <2>3. QED  BY <2>1, <2>2
<1>6. CASE i = k
  <2>1. \A x \in Workers, e \in Event : e.image = i => ~Unpub(x, e)
    <3> SUFFICES ASSUME NEW x \in Workers, NEW e \in Event, e.image = i, Unpub(x, e)
                 PROVE  FALSE
      OBVIOUS
    <3>1. outbox[x] \in Seq(Event)  BY DEF TypeOK
    <3>2. InQueue(e, outbox[x]) => ImageQueued(i, outbox[x])  BY <3>1, QueuedIn
    <3>3. QED  BY <1>2, <1>6, <3>2 DEF Unpub, Unpublished
  <2>2. \A x \in Workers, e \in Event : e.image = i => (Unpub(x, e)' <=> x = w /\ e = new)
    BY <1>1, <1>4, <1>6, <2>1
  <2>3. Solo(i)'
    <3>1. \A x, y \in Workers, e, f \in Event :
             e.image = i /\ f.image = i /\ Unpub(x, e)' /\ Unpub(y, f)' => x = y /\ e = f
      BY <2>2
    <3>2. \A x \in Workers, e \in Event :
             e.image = i /\ e \in unsent'[x] => ~InQueue(e, outbox'[x])
      BY <1>1, <2>1 DEF Unpub
    <3>3. \A x \in Workers, r \in Replicas, e, f \in Event :
             e.image = i /\ f.image = i /\ Unpub(x, e)' /\ InQueue(f, inbox'[r])
             => f.status < e.status
      <4> SUFFICES ASSUME NEW r \in Replicas, NEW f \in Event, f.image = i,
                          InQueue(f, inbox[r])
                   PROVE  f.status < new.status
        BY <1>1, <2>2
      <4>1. f.status <= rows[i]  BY DEF BehindInv
      <4>2. rows[i] \in Int /\ f.status \in Int  BY DEF TypeOK, Event
      <4>3. QED  BY <1>1, <1>6, <4>1, <4>2
    <3>4. \A x \in Workers : Sorted(i, outbox'[x])  BY <1>1, <1>3 DEF Solo
    <3>5. \A r \in Replicas : Sorted(i, inbox'[r])  BY <1>1, <1>3 DEF Solo
    <3>6. QED  BY <3>1, <3>2, <3>3, <3>4, <3>5 DEF Solo, Sorted
  <2>4. Unpub(w, new)'  BY <1>4
  <2>5. Latest(i)' = new
    BY <1>1, <1>6 DEF Latest, EventOf
  <2>6. ASSUME NEW c \in Clients PROVE Caught(c, i)'
    <3>1. \E x \in Workers : Unpub(x, Latest(i))'  BY <2>4, <2>5 DEF Unpub
    <3>2. QED  BY <3>1 DEF Caught
  <2>7. QED  BY <2>3, <2>6
<1>7. QED  BY <1>5, <1>6

(* An event moves from its job to the queue of its publisher.              *)
LEMMA EmitStale ==
    ASSUME TypeOK, TypeOK', StaleInv, NEW w \in Workers, NEW e0 \in Event, Emit(w, e0)
    PROVE  StaleInv'
<1> SUFFICES ASSUME NEW i \in Images, i \notin raced'
             PROVE  Solo(i)' /\ \A c \in Clients : i \in OwnImages[c] => Caught(c, i)'
  BY DEF StaleInv
<1>1. UNCHANGED <<rows, inbox, listing, view, missed, raced>>  BY DEF Emit, api
<1>2. Solo(i) /\ \A c \in Clients : i \in OwnImages[c] => Caught(c, i)
  BY <1>1 DEF StaleInv
<1>3. /\ e0 \in unsent[w] /\ unsent'[w] = unsent[w] \ {e0}
      /\ outbox'[w] = Append(outbox[w], e0)
      /\ \A f : InQueue(f, outbox'[w]) <=> InQueue(f, outbox[w]) \/ f = e0
      /\ \A x \in Workers \ {w} : unsent'[x] = unsent[x] /\ outbox'[x] = outbox[x]
      /\ \A x \in Workers : \A f : Unpub(x, f)' <=> Unpub(x, f)
  BY EmitEffect
<1>4. Sorted(i, outbox'[w])
  <2>1. outbox[w] \in Seq(Event) /\ Sorted(i, outbox[w])  BY <1>2 DEF Solo, TypeOK
  <2>2. ASSUME NEW f \in Event, f.image = i, e0.image = i, InQueue(f, outbox[w])
        PROVE  FALSE
    <3>1. Unpub(w, f) /\ Unpub(w, e0)  BY <1>3, <2>2 DEF Unpub
    <3>2. f = e0  BY <1>2, <2>2, <3>1 DEF Solo
    <3>3. QED  BY <1>2, <1>3, <2>2, <3>2 DEF Solo
  <2>3. Sorted(i, Append(outbox[w], e0))  BY <2>1, <2>2, SortedAppend
  <2>4. QED  BY <1>3, <2>3
<1>5. Solo(i)'
  <2>1. \A x, y \in Workers, e, f \in Event :
           e.image = i /\ f.image = i /\ Unpub(x, e)' /\ Unpub(y, f)' => x = y /\ e = f
    BY <1>2, <1>3 DEF Solo
  <2>2. \A x \in Workers, e \in Event :
           e.image = i /\ e \in unsent'[x] => ~InQueue(e, outbox'[x])
    BY <1>2, <1>3 DEF Solo
  <2>3. \A x \in Workers : Sorted(i, outbox'[x])
    BY <1>2, <1>3, <1>4 DEF Solo
  <2>4. \A x \in Workers, r \in Replicas, e, f \in Event :
           e.image = i /\ f.image = i /\ Unpub(x, e)' /\ InQueue(f, inbox'[r])
           => f.status < e.status
    BY <1>1, <1>2, <1>3 DEF Solo
  <2>5. \A r \in Replicas : Sorted(i, inbox'[r])  BY <1>1, <1>2 DEF Solo
  <2>6. QED  BY <2>1, <2>2, <2>3, <2>4, <2>5 DEF Solo, Sorted
<1>6. ASSUME NEW c \in Clients, i \in OwnImages[c] PROVE Caught(c, i)'
  <2>1. Caught(c, i)  BY <1>2, <1>6
  <2>2. QED  BY <1>1, <1>3, <2>1, CaughtFrame
<1>7. QED  BY <1>5, <1>6

(* The event goes to the replicas, where it is the latest of the image; a  *)
(* client of a replica without a subscription misses it.                   *)
LEMMA PublishStale ==
    ASSUME TypeOK, TypeOK', StaleInv, NEW w \in Workers, Publish(w)
    PROVE  StaleInv'
<1> SUFFICES ASSUME NEW i \in Images, i \notin raced'
             PROVE  Solo(i)' /\ \A c \in Clients : i \in OwnImages[c] => Caught(c, i)'
  BY DEF StaleInv
<1>1. UNCHANGED <<rows, listing, view, raced>>  BY DEF Publish
<1>2. Solo(i) /\ \A c \in Clients : i \in OwnImages[c] => Caught(c, i)
  BY <1>1 DEF StaleInv
<1> PICK h \in Event :
       /\ InQueue(h, outbox[w]) /\ outbox[w] # <<>> /\ h = Head(outbox[w])
       /\ outbox'[w] = Tail(outbox[w])
       /\ \A f : InQueue(f, outbox[w]) <=> f = h \/ InQueue(f, outbox'[w])
       /\ \A x \in Workers \ {w} : outbox'[x] = outbox[x]
       /\ unsent' = unsent
       /\ \A r \in Replicas :
             \/ /\ subscribed[r] /\ inbox'[r] = Append(inbox[r], h)
                /\ \A f : InQueue(f, inbox'[r]) <=> InQueue(f, inbox[r]) \/ f = h
             \/ ~subscribed[r] /\ inbox'[r] = inbox[r]
       /\ \A c \in Clients : /\ missed[c] \subseteq missed'[c]
                             /\ ~subscribed[ReplicaOf[c]] => h \in missed'[c]
  BY PublishEffect
<1>3. outbox[w] \in Seq(Event) /\ \A r \in Replicas : inbox[r] \in Seq(Event)
  BY DEF TypeOK
<1>4. /\ Sorted(i, outbox[w]) /\ \A r \in Replicas : Sorted(i, inbox[r])
      /\ Unpub(w, h)
  BY <1>2 DEF Solo, Unpub
<1>5. /\ Sorted(i, outbox'[w])
      /\ h.image = i => \A e : e.image = i /\ InQueue(e, outbox'[w]) => h.status < e.status
  BY <1>3, <1>4, SortedTail
<1>6. \A x \in Workers : Sorted(i, outbox'[x])
  BY <1>2, <1>5 DEF Solo
<1>7. ASSUME NEW r \in Replicas PROVE Sorted(i, inbox'[r])
  <2>1. h.image = i => \A e \in Event : e.image = i /\ InQueue(e, inbox[r]) => e.status < h.status
    BY <1>2, <1>4 DEF Solo
  <2>2. Sorted(i, Append(inbox[r], h))  BY <1>3, <1>4, <2>1, SortedAppend
  <2>3. QED  BY <1>4, <2>2
<1>8. \A x \in Workers, e \in Event : Unpub(x, e)' => Unpub(x, e)
  BY DEF Unpub
<1>9. CASE h.image # i
  <2>1. Solo(i)'
    <3>1. /\ \A x \in Workers, e \in Event : e.image = i =>
                /\ e \in unsent'[x] => e \in unsent[x]
                /\ InQueue(e, outbox'[x]) => InQueue(e, outbox[x])
          /\ \A r \in Replicas, e \in Event : e.image = i =>
                (InQueue(e, inbox'[r]) => InQueue(e, inbox[r]))
      BY <1>9
    <3>2. QED  BY <1>2, <1>6, <1>7, <3>1, SoloFrame
  <2>2. ASSUME NEW c \in Clients, i \in OwnImages[c] PROVE Caught(c, i)'
    <3>1. \A x \in Workers, e \in Event : e.image = i => (Unpub(x, e)' <=> Unpub(x, e))
      BY <1>9 DEF Unpub
    <3>2. ReplicaOf[c] \in Replicas  BY EventsAssumption DEF EventsAssumption
    <3>3. \A e \in Event : e.image = i =>
             (InQueue(e, inbox'[ReplicaOf[c]]) <=> InQueue(e, inbox[ReplicaOf[c]]))
      BY <1>9, <3>2
    <3>4. Caught(c, i)  BY <1>2, <2>2
    <3>5. QED  BY <1>1, <3>1, <3>3, <3>4, CaughtFrame
  <2>3. QED  BY <2>1, <2>2
<1>10. CASE h.image = i
  <2>1. \A x \in Workers, e \in Event : e.image = i => ~Unpub(x, e)'
    <3> SUFFICES ASSUME NEW x \in Workers, NEW e \in Event, e.image = i, Unpub(x, e)'
                 PROVE  FALSE
      OBVIOUS
    <3>1. x = w /\ e = h  BY <1>2, <1>4, <1>8, <1>10 DEF Solo
    <3>2. e \notin unsent[w]  BY <1>2, <3>1 DEF Solo
    <3>3. InQueue(h, outbox'[w])  BY <3>1, <3>2 DEF Unpub
    <3>4. h.status < h.status /\ h.status \in Int  BY <1>5, <1>10, <3>3 DEF Event
    <3>5. QED  BY <3>4
  <2>2. Solo(i)'
    <3>1. \A x \in Workers, e \in Event :
             e.image = i /\ e \in unsent'[x] => ~InQueue(e, outbox'[x])
      BY <2>1 DEF Unpub
    <3>2. QED  BY <1>6, <1>7, <2>1, <3>1 DEF Solo, Sorted
  <2>3. ASSUME NEW c \in Clients, i \in OwnImages[c] PROVE Caught(c, i)'
    <3>1. /\ Latest(i) \in Event /\ Latest(i).image = i /\ Latest(i)' = Latest(i)
          /\ ReplicaOf[c] \in Replicas
      BY <1>1, EventsAssumption DEF TypeOK, Event, Latest, EventsAssumption
    <3>2. Caught(c, i) /\ ~Quiet(c, i)  BY <1>2, <1>4, <1>10, <2>3 DEF Quiet
    <3>3. CASE Latest(i) \in missed[c]  BY <3>1, <3>3 DEF Caught
    <3>4. CASE \E x \in Workers : Unpub(x, Latest(i))
      <4>1. Latest(i) = h  BY <1>2, <1>4, <1>10, <3>1, <3>4 DEF Solo
      <4>2. InQueue(h, inbox'[ReplicaOf[c]]) \/ h \in missed'[c]  BY <3>1
      <4>3. QED  BY <3>1, <4>1, <4>2 DEF Caught
    <3>5. CASE InQueue(Latest(i), inbox[ReplicaOf[c]])
      <4>1. InQueue(Latest(i), inbox'[ReplicaOf[c]])  BY <3>1, <3>5
      <4>2. QED  BY <3>1, <4>1 DEF Caught
    <3>6. QED  BY <3>2, <3>3, <3>4, <3>5 DEF Caught
  <2>4. QED  BY <2>2, <2>3
<1>11. QED  BY <1>9, <1>10

(* What a fault drops is missed.                                           *)
LEMMA LossStale ==
    ASSUME TypeOK, TypeOK', StaleInv, NEW w \in Workers, PublishFails(w) \/ WorkerCrash(w)
    PROVE  StaleInv'
<1> SUFFICES ASSUME NEW i \in Images, i \notin raced'
             PROVE  Solo(i)' /\ \A c \in Clients : i \in OwnImages[c] => Caught(c, i)'
  BY DEF StaleInv
<1>1. UNCHANGED <<rows, inbox, listing, view, raced>>  BY LossEffect DEF api
<1>2. Solo(i) /\ \A c \in Clients : i \in OwnImages[c] => Caught(c, i)
  BY <1>1 DEF StaleInv
<1>3. /\ \A x \in Workers : /\ outbox'[x] \in {outbox[x], <<>>}
                            /\ unsent'[x] \subseteq unsent[x]
                            /\ \A f : Unpub(x, f)' => Unpub(x, f)
      /\ \A x \in Workers, f \in Event : Unpub(x, f) /\ ~Unpub(x, f)' =>
            \A c \in Clients : f \in missed'[c]
      /\ \A c \in Clients : missed[c] \subseteq missed'[c]
  BY LossEffect
<1>4. Solo(i)'
  <2>1. \A x \in Workers : Sorted(i, outbox'[x])  BY <1>2, <1>3, SortedEmpty DEF Solo
  <2>2. \A r \in Replicas : Sorted(i, inbox'[r])  BY <1>1, <1>2 DEF Solo
  <2>3. \A x \in Workers, e \in Event : e.image = i =>
           /\ e \in unsent'[x] => e \in unsent[x]
           /\ InQueue(e, outbox'[x]) => InQueue(e, outbox[x])
    BY <1>3, EmptyIn
  <2>4. QED  BY <1>1, <1>2, <2>1, <2>2, <2>3, SoloFrame
<1>5. ASSUME NEW c \in Clients, i \in OwnImages[c] PROVE Caught(c, i)'
  <2>1. Caught(c, i)  BY <1>2, <1>5
  <2>2. QED  BY <1>1, <1>3, <2>1, CaughtFrame
<1>6. QED  BY <1>4, <1>5

LEMMA UnsubscribeStale ==
    ASSUME TypeOK, TypeOK', StaleInv, NEW r \in Replicas, Unsubscribe(r)
    PROVE  StaleInv'
<1> SUFFICES ASSUME NEW i \in Images, i \notin raced'
             PROVE  Solo(i)' /\ \A c \in Clients : i \in OwnImages[c] => Caught(c, i)'
  BY DEF StaleInv
<1>1. /\ UNCHANGED <<rows, unsent, outbox, listing, view, raced>>
      /\ inbox'[r] = <<>> /\ \A q \in Replicas \ {r} : inbox'[q] = inbox[q]
      /\ \A q \in Replicas : \A f : InQueue(f, inbox'[q]) => InQueue(f, inbox[q])
      /\ \A c \in Clients :
            /\ missed[c] \subseteq missed'[c]
            /\ ReplicaOf[c] = r => \A f \in Event : InQueue(f, inbox[r]) => f \in missed'[c]
  BY UnsubscribeEffect
<1>2. Solo(i) /\ \A c \in Clients : i \in OwnImages[c] => Caught(c, i)
  BY <1>1 DEF StaleInv
<1>3. Solo(i)'
  <2>1. \A q \in Replicas : Sorted(i, inbox'[q])  BY <1>1, <1>2, SortedEmpty DEF Solo
  <2>2. \A x \in Workers : Sorted(i, outbox'[x])  BY <1>1, <1>2 DEF Solo
  <2>3. QED  BY <1>1, <1>2, <2>1, <2>2, SoloFrame
<1>4. ASSUME NEW c \in Clients, i \in OwnImages[c] PROVE Caught(c, i)'
  <2>1. Caught(c, i) /\ ReplicaOf[c] \in Replicas
    BY <1>2, <1>4, EventsAssumption DEF EventsAssumption
  <2>2. \A e \in Event :
           /\ InQueue(e, inbox[ReplicaOf[c]]) =>
                 InQueue(e, inbox'[ReplicaOf[c]]) \/ e \in missed'[c]
           /\ InQueue(e, inbox'[ReplicaOf[c]]) => InQueue(e, inbox[ReplicaOf[c]])
    BY <1>1, <2>1
  <2>3. \A x \in Workers, e \in Event : Unpub(x, e)' <=> Unpub(x, e)
    BY <1>1 DEF Unpub
  <2>4. QED  BY <1>1, <2>1, <2>2, <2>3, CaughtFrame
<1>5. QED  BY <1>3, <1>4

LEMMA DeliverElsewhere ==
    ASSUME TypeOK, NEW r \in Replicas, Deliver(r), NEW c \in Clients, ReplicaOf[c] # r
    PROVE  view'[c] = view[c]
  BY DEF Deliver, Receivers

(* A replica handles the oldest event it has: a later one of the image is  *)
(* still to come, or this is the latest and the last.                      *)
LEMMA DeliverStale ==
    ASSUME TypeOK, TypeOK', BehindInv, StaleInv, NEW r \in Replicas, Deliver(r)
    PROVE  StaleInv'
<1> SUFFICES ASSUME NEW i \in Images, i \notin raced'
             PROVE  Solo(i)' /\ \A c \in Clients : i \in OwnImages[c] => Caught(c, i)'
  BY DEF StaleInv
<1>1. UNCHANGED <<rows, unsent, outbox, listing, raced>>  BY DEF Deliver
<1>2. Solo(i) /\ \A c \in Clients : i \in OwnImages[c] => Caught(c, i)
  BY <1>1 DEF StaleInv
<1> PICK h \in Event :
       /\ inbox[r] # <<>> /\ h = Head(inbox[r]) /\ inbox'[r] = Tail(inbox[r])
       /\ InQueue(h, inbox[r])
       /\ \A f : InQueue(f, inbox[r]) <=> f = h \/ InQueue(f, inbox'[r])
       /\ \A q \in Replicas \ {r} : inbox'[q] = inbox[q]
       /\ \A c \in Clients, k \in Images :
             \/ view'[c][k] = view[c][k]
             \/ /\ k = h.image /\ k \in OwnImages[c]
                /\ view'[c][k] = h.status
       /\ \A c \in Clients : missed[c] \subseteq missed'[c]
       /\ \A c \in Clients :
             ReplicaOf[c] = r /\ h.image \in OwnImages[c] =>
                \/ h \in missed'[c]
                \/ /\ listing[c] = NoListing
                   /\ view'[c][h.image] \in {0, h.status}
  BY DeliverEffect
<1>3. inbox[r] \in Seq(Event) /\ Sorted(i, inbox[r])  BY <1>2 DEF TypeOK, Solo
<1>4. /\ Sorted(i, inbox'[r])
      /\ h.image = i => \A e : e.image = i /\ InQueue(e, inbox'[r]) => h.status < e.status
  BY <1>3, SortedTail
<1>5. Solo(i)'
  <2>1. \A q \in Replicas : Sorted(i, inbox'[q])  BY <1>2, <1>4 DEF Solo
  <2>2. \A x \in Workers : Sorted(i, outbox'[x])  BY <1>1, <1>2 DEF Solo
  <2>3. \A q \in Replicas, e \in Event : InQueue(e, inbox'[q]) => InQueue(e, inbox[q])
    OBVIOUS
  <2>4. QED  BY <1>1, <1>2, <2>1, <2>2, <2>3, SoloFrame
<1>6. ASSUME NEW c \in Clients, i \in OwnImages[c] PROVE Caught(c, i)'
  <2>1. Caught(c, i) /\ ReplicaOf[c] \in Replicas
    BY <1>2, <1>6, EventsAssumption DEF EventsAssumption
  <2>2. \A x \in Workers, e \in Event : Unpub(x, e)' <=> Unpub(x, e)
    BY <1>1 DEF Unpub
  <2>3. CASE h.image # i \/ ReplicaOf[c] # r
    <3>1. view'[c][i] = view[c][i]  BY <2>3, DeliverElsewhere
    <3>2. \A e \in Event : e.image = i =>
             (InQueue(e, inbox'[ReplicaOf[c]]) <=> InQueue(e, inbox[ReplicaOf[c]]))
      BY <2>1, <2>3
    <3>3. QED  BY <1>1, <2>1, <2>2, <3>1, <3>2, CaughtFrame
  <2>4. CASE h.image = i /\ ReplicaOf[c] = r
    <3>1. /\ Latest(i) \in Event /\ Latest(i).image = i /\ Latest(i).status = rows[i]
          /\ Latest(i)' = Latest(i)
      BY <1>1 DEF TypeOK, Event, Latest
    <3>2. ~Quiet(c, i)  BY <2>4 DEF Quiet
    <3>3. CASE Latest(i) \in missed[c]  BY <3>1, <3>3 DEF Caught
    <3>4. CASE \E x \in Workers : Unpub(x, Latest(i))
      <4>1. \E x \in Workers : Unpub(x, Latest(i))'  BY <2>2, <3>1, <3>4
      <4>2. QED  BY <3>1, <4>1 DEF Caught, Unpub
    <3>5. CASE InQueue(Latest(i), inbox'[r])  BY <2>4, <3>1, <3>5 DEF Caught
    <3>6. CASE Latest(i) = h /\ h \in missed'[c]  BY <3>1, <3>6 DEF Caught
    <3>7. CASE Latest(i) = h /\ h \notin missed'[c]
      <4>1. \A e \in Event : e.status \in Int  BY DEF Event
      <4>2. \A e \in Event : e.image = i => ~InQueue(e, inbox'[r])
        <5> SUFFICES ASSUME NEW e \in Event, e.image = i, InQueue(e, inbox'[r])
                     PROVE  FALSE
          OBVIOUS
        <5>1. h.status < e.status  BY <1>4, <2>4
        <5>2. e.status <= rows[i]  BY DEF BehindInv
        <5>3. QED  BY <3>1, <3>7, <4>1, <5>1, <5>2
      <4>3. \A x \in Workers, e \in Event : e.image = i => ~Unpub(x, e)
        <5> SUFFICES ASSUME NEW x \in Workers, NEW e \in Event, e.image = i, Unpub(x, e)
                     PROVE  FALSE
          OBVIOUS
        <5>1. h.status < e.status  BY <1>2, <2>4 DEF Solo
        <5>2. e.status <= rows[i]  BY DEF BehindInv
        <5>3. QED  BY <3>1, <3>7, <4>1, <5>1, <5>2
      <4>4. Quiet(c, i)'
        <5>1. \A e \in Event : e.image = i =>
                 ~InQueue(e, inbox'[ReplicaOf[c]]) /\ \A x \in Workers : ~Unpub(x, e)'
          BY <2>2, <2>4, <4>2, <4>3
        <5>2. QED  BY <5>1 DEF Quiet, Unpub
      <4>5. listing[c] = NoListing /\ view'[c][i] \in {0, rows[i]}
        BY <1>6, <2>4, <3>1, <3>7
      <4>6. listing'[c][i] = 0  BY <1>1, <4>5 DEF NoListing
      <4>7. QED  BY <1>1, <4>4, <4>5, <4>6 DEF Caught
    <3>8. QED  BY <2>1, <2>4, <3>2, <3>3, <3>4, <3>5, <3>6, <3>7 DEF Caught
  <2>5. QED  BY <2>3, <2>4
<1>7. QED  BY <1>5, <1>6

(* reprocess makes a status without an event: everyone misses it.          *)
LEMMA ReprocessStale ==
    ASSUME TypeOK, TypeOK', StaleInv, NEW k \in Images, Reprocess(k)
    PROVE  StaleInv'
<1> SUFFICES ASSUME NEW i \in Images, i \notin raced'
             PROVE  Solo(i)' /\ \A c \in Clients : i \in OwnImages[c] => Caught(c, i)'
  BY DEF StaleInv
<1>1. /\ UNCHANGED <<unsent, outbox, inbox, listing, view, raced>>
      /\ rows'[k] = rows[k] + 1 /\ \A l \in Images \ {k} : rows'[l] = rows[l]
      /\ \A c \in Clients : missed'[c] = missed[c] \cup {EventOf(k)}
  BY DEF Reprocess, api, Miss, TypeOK
<1>2. Solo(i) /\ \A c \in Clients : i \in OwnImages[c] => Caught(c, i)
  BY <1>1 DEF StaleInv
<1>3. \A x \in Workers, e \in Event : Unpub(x, e)' <=> Unpub(x, e)
  BY <1>1 DEF Unpub
<1>4. Solo(i)'
  <2>1. /\ \A q \in Replicas : Sorted(i, inbox'[q])
        /\ \A x \in Workers : Sorted(i, outbox'[x])
    BY <1>1, <1>2 DEF Solo
  <2>2. QED  BY <1>1, <1>2, <2>1, SoloFrame
<1>5. ASSUME NEW c \in Clients, i \in OwnImages[c] PROVE Caught(c, i)'
  <2>1. CASE i = k
    <3>1. Latest(i)' = EventOf(k)  BY <1>1, <2>1 DEF Latest, EventOf
    <3>2. QED  BY <1>1, <3>1 DEF Caught
  <2>2. CASE i # k
    <3>1. Caught(c, i) /\ rows'[i] = rows[i]  BY <1>1, <1>2, <1>5, <2>2
    <3>2. QED  BY <1>1, <1>3, <3>1, CaughtFrame
  <2>3. QED  BY <2>1, <2>2
<1>6. QED  BY <1>4, <1>5

(* The other steps move nothing that is under way; a list shows a row as   *)
(* it was when it was read.                                                *)
LEMMA OtherStale ==
    ASSUME TypeOK, TypeOK', StaleInv,
           \/ \E i \in Images : Remove(i)
           \/ \E r \in Replicas : Subscribe(r)
           \/ \E c \in Clients : Open(c) \/ Break(c) \/ List(c) \/ ShowList(c)
           \/ UNCHANGED vars
    PROVE  StaleInv'
<1> SUFFICES ASSUME NEW i \in Images, i \notin raced'
             PROVE  Solo(i)' /\ \A c \in Clients : i \in OwnImages[c] => Caught(c, i)'
  BY DEF StaleInv
<1>1. UNCHANGED <<rows, unsent, outbox, inbox, missed, raced>>
  BY DEF Remove, Subscribe, Open, Break, List, ShowList, vars, api
<1>2. Solo(i) /\ \A c \in Clients : i \in OwnImages[c] => Caught(c, i)
  BY <1>1 DEF StaleInv
<1>3. \A x \in Workers, e \in Event : Unpub(x, e)' <=> Unpub(x, e)
  BY <1>1 DEF Unpub
<1>4. Solo(i)'
  <2>1. /\ \A q \in Replicas : Sorted(i, inbox'[q])
        /\ \A x \in Workers : Sorted(i, outbox'[x])
    BY <1>1, <1>2 DEF Solo
  <2>2. QED  BY <1>1, <1>2, <2>1, SoloFrame
<1>5. ASSUME NEW c \in Clients
      PROVE  /\ view'[c][i] \in {view[c][i], listing[c][i]}
             /\ listing'[c][i] \in {0, rows[i], listing[c][i]}
  <2>1. CASE UNCHANGED <<listing, view>>  BY <2>1
  <2>2. ASSUME NEW d \in Clients, List(d) \/ ShowList(d)
        PROVE  /\ view'[c] \in {view[c], listing[c]}
               /\ listing'[c] \in {listing[c], NoListing, ReadRows(c)}
    <3>1. CASE List(d)
      <4>1. view' = view /\ listing' = [listing EXCEPT ![d] = ReadRows(d)]
        BY <3>1 DEF List
      <4>2. listing'[c] = IF c = d THEN ReadRows(c) ELSE listing[c]  BY <4>1 DEF TypeOK
      <4>3. QED  BY <4>1, <4>2
    <3>2. CASE ShowList(d)
      <4>1. /\ view' = [view EXCEPT ![d] = listing[d]]
            /\ listing' = [listing EXCEPT ![d] = NoListing]
        BY <3>2 DEF ShowList
      <4>2. /\ view'[c] = IF c = d THEN listing[c] ELSE view[c]
            /\ listing'[c] = IF c = d THEN NoListing ELSE listing[c]
        BY <4>1 DEF TypeOK
      <4>3. QED  BY <4>2
    <3>3. QED  BY <2>2, <3>1, <3>2
  <2>3. NoListing[i] = 0 /\ ReadRows(c)[i] \in {0, rows[i]}
    BY DEF NoListing, ReadRows
  <2>4. UNCHANGED <<listing, view>> \/ \E d \in Clients : List(d) \/ ShowList(d)
    BY DEF Remove, Subscribe, Open, Break, vars, api
  <2>5. QED  BY <2>1, <2>2, <2>3, <2>4
<1>6. ASSUME NEW c \in Clients, i \in OwnImages[c] PROVE Caught(c, i)'
  <2>1. Caught(c, i)  BY <1>2, <1>6
  <2>2. QED  BY <1>1, <1>3, <1>5, <2>1, CaughtFrame
<1>7. QED  BY <1>4, <1>6

LEMMA NextStale ==
    ASSUME TypeOK, TypeOK', BehindInv, StaleInv, [Next]_vars
    PROVE  StaleInv'
<1>1. CASE UNCHANGED vars  BY <1>1, OtherStale
<1>2. ASSUME NEW w \in Workers,
             \/ \E i \in Images : Write(w, i)
             \/ WorkerStep(w) \/ Publish(w) \/ PublishFails(w) \/ WorkerCrash(w)
      PROVE  StaleInv'
  BY <1>2, WriteStale, EmitStale, PublishStale, LossStale DEF WorkerStep
<1>3. CASE \E i \in Images : Reprocess(i) \/ Remove(i)
  BY <1>3, ReprocessStale, OtherStale
<1>4. CASE \E r \in Replicas : Deliver(r) \/ Unsubscribe(r) \/ Subscribe(r)
  BY <1>4, DeliverStale, UnsubscribeStale, OtherStale
<1>5. CASE \E c \in Clients : Open(c) \/ Break(c) \/ List(c) \/ ShowList(c)
  BY <1>5, OtherStale
<1>6. QED  BY <1>1, <1>2, <1>3, <1>4, <1>5 DEF Next

LEMMA InitStale == Init => StaleInv
<1> SUFFICES ASSUME Init, NEW i \in Images
             PROVE  Solo(i) /\ \A c \in Clients : Caught(c, i)
  BY DEF StaleInv
<1>1. /\ \A w \in Workers : unsent[w] = {} /\ outbox[w] = <<>>
      /\ \A r \in Replicas : inbox[r] = <<>>
      /\ \A c \in Clients : view[c] = NoListing /\ listing[c] = NoListing
      /\ \A c \in Clients : ReplicaOf[c] \in Replicas
  BY EventsAssumption DEF Init, EventsAssumption
<1>2. \A w \in Workers, e \in Event : ~Unpub(w, e)  BY <1>1, EmptyIn DEF Unpub
<1>3. Solo(i)  BY <1>1, <1>2, EmptyIn, SortedEmpty DEF Solo
<1>4. \A c \in Clients : Caught(c, i)
  BY <1>1, <1>2, EmptyIn DEF Caught, Quiet, NoListing
<1>5. QED  BY <1>3, <1>4

LEMMA StaleInvIsEnough ==
    ASSUME TypeOK, BehindInv, StaleInv
    PROVE  StaleOnlyIfMissedOrRaced
<1> SUFFICES ASSUME NEW c \in Clients, NEW i \in Images, Settled(c, i), view[c][i] # 0,
                    view[c][i] # rows[i], i \notin raced
             PROVE  Latest(i) \in missed[c]
  BY DEF StaleOnlyIfMissedOrRaced, Latest
<1>1. i \in OwnImages[c]  BY DEF BehindInv
<1>2. Caught(c, i)  BY <1>1 DEF StaleInv
<1>3. Latest(i) \in Event /\ Latest(i).image = i  BY DEF TypeOK, Event, Latest
<1>4. ReplicaOf[c] \in Replicas  BY EventsAssumption DEF EventsAssumption
<1>5. ~InQueue(Latest(i), inbox[ReplicaOf[c]])
  BY <1>3 DEF Settled, ImageQueued, InQueue
<1>6. \A w \in Workers : ~Unpub(w, Latest(i))
  BY <1>3 DEF Settled, Unpub, ImageQueued, InQueue
<1>7. QED  BY <1>2, <1>5, <1>6 DEF Caught

(* A card that has settled on another status than the row's missed the     *)
(* event of that status, or the image had events on two ways at once,      *)
(* whatever fails and however many processes there are: emitStatus,        *)
(* the subscriber, and the listener of events (events.ts:65-84,            *)
(* images.controller.ts:185-188).                                          *)
THEOREM StaleTheorem == Spec => []StaleOnlyIfMissedOrRaced
<1>1. Init => TypeOK /\ BehindInv /\ StaleInv  BY InitType, InitBehind, InitStale
<1>2. (TypeOK /\ BehindInv /\ StaleInv) /\ [Next]_vars => (TypeOK /\ BehindInv /\ StaleInv)'
  BY NextType, NextBehind, NextStale
<1>3. TypeOK /\ BehindInv /\ StaleInv => StaleOnlyIfMissedOrRaced  BY StaleInvIsEnough
<1>4. QED  BY <1>1, <1>2, <1>3, PTL DEF Spec
=============================================================================
