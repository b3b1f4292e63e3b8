----------------------------- MODULE StatusEvents -----------------------------
(***************************************************************************)
(* Status events of Argon-BE, from the status write of a worker to the     *)
(* badge in a browser: the write, emitStatus after it, the publisher       *)
(* connection of each worker process, the Redis channel, the one           *)
(* subscription of each API replica, and its event streams (SSE).          *)
(*                                                                         *)
(* A status is known by its number: rows[i] counts the status writes of    *)
(* image i, and an event carries the number of the write it reports, as    *)
(* the code's event carries the status.  A client holds what list gave it  *)
(* and overwrites the status with each event it is sent; the client is     *)
(* the one docs/frontend-prompt.md describes.                              *)
(***************************************************************************)
EXTENDS Naturals, Sequences, FiniteSets

CONSTANTS
    Images,
    Workers,     \* worker processes, each with a publisher connection
    Replicas,    \* API processes, each with a subscription
    Clients,     \* browser sessions
    ReplicaOf,   \* ReplicaOf[c]: the replica the requests of c reach
    OwnImages,   \* OwnImages[c]: the images of the user of c
    MaxWrites,   \* bound on the status writes of an image
    MaxFaults,   \* bound on the faults of a behaviour
    Calls,       \* the API calls made: "reprocess" and "remove", or some of them
    Faults       \* "crash", a worker process stops; "publish", its publisher
                 \* gives up what it has queued; "redis", a subscription is
                 \* lost; "stream", the connection of a client is lost

ASSUME EventsAssumption ==
    /\ ReplicaOf \in [Clients -> Replicas]
    /\ OwnImages \in [Clients -> SUBSET Images]
    /\ MaxWrites \in Nat \ {0} /\ MaxFaults \in Nat
    /\ Calls \subseteq {"reprocess", "remove"}
    /\ Faults \subseteq {"crash", "publish", "redis", "stream"}

VARIABLES
    rows,        \* rows[i]: the number of the latest status write of i
    removed,     \* images whose row has been deleted
    unsent,      \* unsent[w]: events of writes w has made, emitStatus not called yet
    outbox,      \* outbox[w]: what the publisher of w has queued, in order
    subscribed,  \* subscribed[r]: Redis has the subscription of r
    inbox,       \* inbox[r]: what Redis has sent to r and r has not handled
    open,        \* open[c]: c has a stream at its replica
    listing,     \* listing[c]: the rows a list call of c read, or NoListing
    view,        \* view[c]: the status number c shows for each image; 0, no card
    missed,      \* history: events published or dropped that c was not sent
    raced,       \* history: images with status events on two ways at once
    faults       \* how many there were

vars == <<rows, removed, unsent, outbox, subscribed, inbox, open, listing, view,
          missed, raced, faults>>
api == <<subscribed, inbox, open, listing, view>>

-----------------------------------------------------------------------------
Event == [image : Images, status : 1..MaxWrites]
EventOf(i) == [image |-> i, status |-> rows[i] + 1]

NoListing == [i \in Images |-> 0]
ReadRows(c) ==
    [i \in Images |-> IF i \in OwnImages[c] \ removed THEN rows[i] ELSE 0]

InQueue(e, queue) == \E n \in DOMAIN queue : queue[n] = e
ImageQueued(i, queue) == \E n \in DOMAIN queue : queue[n].image = i

(* Every image has been uploaded: its first status is PENDING.             *)
Init ==
    /\ rows = [i \in Images |-> 1]
    /\ removed = {}
    /\ unsent = [w \in Workers |-> {}]
    /\ outbox = [w \in Workers |-> <<>>]
    /\ subscribed = [r \in Replicas |-> TRUE]
    /\ inbox = [r \in Replicas |-> <<>>]
    /\ open = [c \in Clients |-> FALSE]
    /\ listing = [c \in Clients |-> NoListing]
    /\ view = [c \in Clients |-> NoListing]
    /\ missed = [c \in Clients |-> {}]
    /\ raced = {}
    /\ faults = 0

-----------------------------------------------------------------------------
(* Workers.                                                                *)

(* Events of the image that have not reached Redis.                        *)
Unpublished(i) ==
    \E w \in Workers : ImageQueued(i, outbox[w]) \/ \E e \in unsent[w] : e.image = i

(* Mutant of Write: the event goes out before the row is written.          *)
EmitBeforeWrite(w, i) ==
    /\ i \notin removed /\ rows[i] < MaxWrites
    /\ IF EventOf(i) \in unsent[w]
       THEN rows' = [rows EXCEPT ![i] = @ + 1] /\ UNCHANGED unsent
       ELSE unsent' = [unsent EXCEPT ![w] = @ \cup {EventOf(i)}] /\ UNCHANGED rows
    /\ UNCHANGED <<removed, outbox, api, missed, raced, faults>>

(* A status write by a job of w.                                           *)
Write(w, i) ==
    /\ i \notin removed /\ rows[i] < MaxWrites
    /\ rows' = [rows EXCEPT ![i] = @ + 1]
    /\ unsent' = [unsent EXCEPT ![w] = @ \cup {EventOf(i)}]
    /\ raced' = IF Unpublished(i) THEN raced \cup {i} ELSE raced
    /\ UNCHANGED <<removed, outbox, api, missed, faults>>

(* The await of the write returns and emitStatus hands the event to the    *)
(* publisher; no one waits for that.                                       *)
Emit(w, e) ==
    /\ e \in unsent[w]
    /\ unsent' = [unsent EXCEPT ![w] = @ \ {e}]
    /\ outbox' = [outbox EXCEPT ![w] = Append(@, e)]
    /\ UNCHANGED <<rows, removed, api, missed, raced, faults>>

(* Events that the clients will not be sent.                               *)
Miss(events, clients) ==
    missed' = [c \in Clients |->
        IF c \in clients THEN missed[c] \cup events ELSE missed[c]]

(* Mutant of Publish: one replica gets the message, as from a queue.       *)
PublishToOne(w) ==
    /\ outbox[w] # <<>>
    /\ outbox' = [outbox EXCEPT ![w] = Tail(@)]
    /\ \E r \in Replicas :
          inbox' = [inbox EXCEPT ![r] = Append(@, Head(outbox[w]))]
    /\ UNCHANGED <<rows, removed, unsent, subscribed, open, listing, view, missed, raced, faults>>

(* Mutant of Publish: the publisher keeps what it has sent.                *)
PublishAgain(w) ==
    /\ outbox[w] # <<>> /\ Len(inbox[CHOOSE r \in Replicas : TRUE]) < 2
    /\ inbox' = [r \in Replicas |->
          IF subscribed[r] THEN Append(inbox[r], Head(outbox[w])) ELSE inbox[r]]
    /\ Miss({Head(outbox[w])}, {c \in Clients : ~subscribed[ReplicaOf[c]]})
    /\ UNCHANGED <<outbox, rows, removed, unsent, subscribed, open, listing, view, raced, faults>>

(* PUBLISH reaches Redis: every subscriber of the moment is sent it.       *)
Publish(w) ==
    /\ outbox[w] # <<>>
    /\ outbox' = [outbox EXCEPT ![w] = Tail(@)]
    /\ inbox' = [r \in Replicas |->
          IF subscribed[r] THEN Append(inbox[r], Head(outbox[w])) ELSE inbox[r]]
    /\ Miss({Head(outbox[w])}, {c \in Clients : ~subscribed[ReplicaOf[c]]})
    /\ UNCHANGED <<rows, removed, unsent, subscribed, open, listing, view, raced, faults>>

Fault(kind) == kind \in Faults /\ faults < MaxFaults /\ faults' = faults + 1

(* Redis is away for too long: the queued publishes reject, and emitStatus *)
(* logs that.                                                              *)
PublishFails(w) ==
    /\ outbox[w] # <<>> /\ Fault("publish")
    /\ outbox' = [outbox EXCEPT ![w] = <<>>]
    /\ Miss({e \in Event : InQueue(e, outbox[w])}, Clients)
    /\ UNCHANGED <<rows, removed, unsent, api, raced>>

WorkerCrash(w) ==
    /\ Fault("crash")
    /\ unsent' = [unsent EXCEPT ![w] = {}]
    /\ outbox' = [outbox EXCEPT ![w] = <<>>]
    /\ Miss(unsent[w] \cup {e \in Event : InQueue(e, outbox[w])}, Clients)
    /\ UNCHANGED <<rows, removed, api, raced>>

-----------------------------------------------------------------------------
(* The API.                                                                *)

(* Mutant of Reprocess: the row goes back to before its first status.      *)
ReprocessResets(i) ==
    /\ "reprocess" \in Calls /\ i \notin removed /\ rows[i] < MaxWrites
    /\ rows' = [rows EXCEPT ![i] = 0]
    /\ Miss({EventOf(i)}, Clients)
    /\ UNCHANGED <<removed, unsent, outbox, api, raced, faults>>

(* reprocess writes PROCESSING_CONVERT and emits nothing; the convert      *)
(* worker writes it again, as a Write.                                     *)
Reprocess(i) ==
    /\ "reprocess" \in Calls /\ i \notin removed /\ rows[i] < MaxWrites
    /\ rows' = [rows EXCEPT ![i] = @ + 1]
    /\ Miss({EventOf(i)}, Clients)
    /\ UNCHANGED <<removed, unsent, outbox, api, raced, faults>>

(* remove emits nothing either.                                            *)
Remove(i) ==
    /\ "remove" \in Calls /\ i \notin removed
    /\ removed' = removed \cup {i}
    /\ UNCHANGED <<rows, unsent, outbox, api, missed, raced, faults>>

(* The store of c takes the event: the card of the image, if there is one. *)
Shown(c, e) ==
    IF view[c][e.image] = 0 THEN view[c] ELSE [view[c] EXCEPT ![e.image] = e.status]

Receivers(r, e) ==
    {c \in Clients : ReplicaOf[c] = r /\ open[c] /\ e.image \in OwnImages[c]}

(* The message handler: the local emitter calls the listener of every open *)
(* stream, and the listener passes on the events of its user.  A client    *)
(* whose list is still on its way loses what the event said when it shows  *)
(* the list.                                                               *)
Deliver(r) ==
    LET e == Head(inbox[r])
        to == Receivers(r, e)
    IN  /\ inbox[r] # <<>>
        /\ inbox' = [inbox EXCEPT ![r] = Tail(@)]
        /\ view' = [c \in Clients |-> IF c \in to THEN Shown(c, e) ELSE view[c]]
        /\ Miss({e}, {c \in Clients : ReplicaOf[c] = r /\
                         (c \notin to \/ listing[c] # NoListing)})
        /\ UNCHANGED <<rows, removed, unsent, outbox, subscribed, open, listing, raced, faults>>

(* The subscription is lost with what was on its way; ioredis connects and *)
(* subscribes again.                                                       *)
Unsubscribe(r) ==
    /\ subscribed[r] /\ Fault("redis")
    /\ subscribed' = [subscribed EXCEPT ![r] = FALSE]
    /\ inbox' = [inbox EXCEPT ![r] = <<>>]
    /\ Miss({e \in Event : InQueue(e, inbox[r])}, {c \in Clients : ReplicaOf[c] = r})
    /\ UNCHANGED <<rows, removed, unsent, outbox, open, listing, view, raced>>

Subscribe(r) ==
    /\ ~subscribed[r]
    /\ subscribed' = [subscribed EXCEPT ![r] = TRUE]
    /\ UNCHANGED <<rows, removed, unsent, outbox, inbox, open, listing, view, missed, raced, faults>>

-----------------------------------------------------------------------------
(* Clients: one list and one stream, asked for in any order; the browser   *)
(* opens a stream that broke again.                                        *)

Open(c) ==
    /\ ~open[c]
    /\ open' = [open EXCEPT ![c] = TRUE]
    /\ UNCHANGED <<rows, removed, unsent, outbox, subscribed, inbox, listing, view, missed, raced, faults>>

Break(c) ==
    /\ open[c] /\ Fault("stream")
    /\ open' = [open EXCEPT ![c] = FALSE]
    /\ UNCHANGED <<rows, removed, unsent, outbox, subscribed, inbox, listing, view, missed, raced>>

HasRead(c) == listing[c] # NoListing \/ view[c] # NoListing

List(c) ==
    /\ ~HasRead(c)
    /\ listing' = [listing EXCEPT ![c] = ReadRows(c)]
    /\ UNCHANGED <<rows, removed, unsent, outbox, subscribed, inbox, open, view, missed, raced, faults>>

ShowList(c) ==
    /\ listing[c] # NoListing
    /\ view' = [view EXCEPT ![c] = listing[c]]
    /\ listing' = [listing EXCEPT ![c] = NoListing]
    /\ UNCHANGED <<rows, removed, unsent, outbox, subscribed, inbox, open, missed, raced, faults>>

-----------------------------------------------------------------------------
WorkerStep(w) == \E e \in Event : Emit(w, e)

Next ==
    \/ \E w \in Workers :
          \/ \E i \in Images : Write(w, i)
          \/ WorkerStep(w) \/ Publish(w) \/ PublishFails(w) \/ WorkerCrash(w)
    \/ \E i \in Images : Reprocess(i) \/ Remove(i)
    \/ \E r \in Replicas : Deliver(r) \/ Unsubscribe(r) \/ Subscribe(r)
    \/ \E c \in Clients : Open(c) \/ Break(c) \/ List(c) \/ ShowList(c)

Spec == Init /\ [][Next]_vars

(* Connections, event loops and responses go on, and a client that has a   *)
(* list keeps its stream open; writes and calls are not forced.            *)
Fairness ==
    /\ \A w \in Workers : WF_vars(WorkerStep(w)) /\ WF_vars(Publish(w))
    /\ \A r \in Replicas : WF_vars(Deliver(r)) /\ WF_vars(Subscribe(r))
    /\ \A c \in Clients : WF_vars(Open(c)) /\ WF_vars(ShowList(c))

FairSpec == Spec /\ Fairness

-----------------------------------------------------------------------------
(* Properties.                                                             *)

(* Every variable has its type; the numbers of statuses say how many       *)
(* writes there were.                                                      *)
TypeOK ==
    /\ rows \in [Images -> 1..MaxWrites]
    /\ removed \subseteq Images
    /\ unsent \in [Workers -> SUBSET Event]
    /\ outbox \in [Workers -> Seq(Event)]
    /\ subscribed \in [Replicas -> BOOLEAN]
    /\ inbox \in [Replicas -> Seq(Event)]
    /\ open \in [Clients -> BOOLEAN]
    /\ listing \in [Clients -> [Images -> 0..MaxWrites]]
    /\ view \in [Clients -> [Images -> 0..MaxWrites]]
    /\ missed \in [Clients -> SUBSET Event]
    /\ raced \subseteq Images
    /\ faults \in 0..MaxFaults

(* Nothing under way to a client, and nothing it shows, is ahead of the    *)
(* database, so that a GET after an event returns that status or a later   *)
(* one (image.worker.ts:45-51 and its siblings emit after the awaited      *)
(* write).                                                                 *)
NeverAhead ==
    /\ \A w \in Workers, e \in Event :
          e \in unsent[w] \/ InQueue(e, outbox[w]) => e.status <= rows[e.image]
    /\ \A r \in Replicas, e \in Event : InQueue(e, inbox[r]) => e.status <= rows[e.image]
    /\ \A c \in Clients, i \in Images : view[c][i] <= rows[i]

(* Nothing about the image is under way to the client.                     *)
Settled(c, i) ==
    /\ \A w \in Workers :
          ~ImageQueued(i, outbox[w]) /\ \A e \in unsent[w] : e.image # i
    /\ ~ImageQueued(i, inbox[ReplicaOf[c]])
    /\ listing[c] = NoListing

(* A card that came with a list stays stale for two reasons only: the      *)
(* event of the latest status was not sent to the client (no event exists, *)
(* as for reprocess; it was dropped while Redis, the subscription or the   *)
(* stream was away; it came while the list was on its way), or events of   *)
(* the image were under way from two processes, or twice from one, and may *)
(* have changed places (events.ts:82, images.controller.ts:185-190).       *)
StaleOnlyIfMissedOrRaced ==
    \A c \in Clients, i \in Images :
        /\ Settled(c, i) /\ view[c][i] # 0
        /\ view[c][i] # rows[i]
        => i \in raced \/ [image |-> i, status |-> rows[i]] \in missed[c]

(* Every event is emitted, published and delivered, or dropped by a fault: *)
(* nothing stays under way for ever.                                       *)
EventsSettle == \A c \in Clients, i \in Images : <>[]Settled(c, i)
===============================================================================
