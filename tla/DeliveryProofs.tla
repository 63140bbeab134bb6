--------------------------- MODULE DeliveryProofs ---------------------------
(***************************************************************************)
(* Proofs about what the rest of the system is told: an order's push       *)
(* notifications, its streams, and a location's menu. No theorem of one is *)
(* used in another.                                                        *)
(* For each: what is true of every state besides the types, the invariant  *)
(* they make up, its steps, and the theorems.                              *)
(***************************************************************************)
EXTENDS MCDelivery, SequenceTheorems, FiniteSetTheorems, NaturalsInduction,
        WellFoundedInduction, TLAPS

-----------------------------------------------------------------------------
(***************************************************************************)
(* Notifications: NotificationOutbox.                                      *)
(***************************************************************************)

(* Sets of naturals have a least element, and bounded ones a greatest. *)
LEMMA LessThanIsRelation ==
    \E R : IsWellFoundedOn(R, Nat) /\ \A x, y \in Nat : y < x => <<y, x>> \in R
  <1>1. \A x, y \in Nat : y < x => <<y, x>> \in OpToRel(<, Nat)
    BY DEF OpToRel
  <1> WITNESS OpToRel(<, Nat)
  <1> QED
    BY <1>1, NatLessThanWellFounded

LEMMA LeastOf ==
    ASSUME NEW S \in SUBSET Nat, S # {}
    PROVE  \E x \in S : \A y \in S : x <= y
  <1>1. PICK R : IsWellFoundedOn(R, Nat) /\ \A x, y \in Nat : y < x => <<y, x>> \in R
    BY LessThanIsRelation
  <1>2. PICK x \in S : \A y \in S : ~(<<y, x>> \in R)
    BY <1>1, WFMin
  <1>3. ASSUME NEW y \in S
        PROVE  x <= y
    <2>1. x \in Nat /\ y \in Nat
      OBVIOUS
    <2>2. ~(y < x)
      BY <1>1, <1>2, <2>1, Zenon
    <2> QED
      BY <2>1, <2>2
  <1> QED
    BY <1>3

Queued == {outbox[i].push : i \in DOMAIN outbox}
Enqueueing(p) == publisher[p].step \in {"list", "insert"}
Pushed(b) == batch[b].step \in {"count", "write"}

(* A status is marked before its rows are made, by one handler, which has    *)
(* the rows of its recipients still to make.                                 *)
OneHandler ==
    \A p, q \in Publishers :
        Enqueueing(p) /\ Enqueueing(q) /\ publisher[p].status = publisher[q].status => p = q

HandlersReady ==
    \A p \in Publishers :
        /\ publisher[p].step = "mark" => publisher[p].status \in Announced
        /\ Enqueueing(p) => publisher[p].status \in marked
        /\ publisher[p].step = "list" => \A x \in Queued : x[1] # publisher[p].status
        /\ publisher[p].step = "insert" =>
              \A d \in publisher[p].recipients : <<publisher[p].status, d>> \notin Queued

OneRow ==
    /\ \A i, j \in DOMAIN outbox : outbox[i].push = outbox[j].push => i = j
    /\ \A x \in Queued : x[1] \in marked

OwedIsDone ==
    faults = 0 => \A x \in owed :
        \/ x \in Queued
        \/ \E p \in Publishers :
              /\ publisher[p].status = x[1]
              /\ \/ publisher[p].step = "list" /\ x[2] \in devices
                 \/ publisher[p].step = "insert" /\ x[2] \in publisher[p].recipients

(* What is sent and what was pushed is in the outbox. *)
RowsExist ==
    /\ \A b \in Batches : \A e \in batch[b].todo : e.row \in DOMAIN outbox
    /\ \A x \in Pushes : pushed[x] > 0 => x \in Queued

(* While batches do not overlap: one is at work, its entries are what the    *)
(* rows are, and what it makes of the one it is at is right.                 *)
OneBatch ==
    \A b, c \in Batches : batch[b].step # "idle" /\ batch[c].step # "idle" => b = c

EntriesFresh ==
    \A b \in Batches : \A e \in batch[b].todo :
        outbox[e.row].status = "PENDING" /\ outbox[e.row].attempts = e.attempts

OutcomeRight ==
    \A b \in Batches : Pushed(b) =>
        /\ batch[b].becomes = "DISPATCHED" => pushed[Pushing(b)] > 0
        /\ batch[b].becomes = "FAILED" => Entry(b).attempts + 1 >= outboxMaxAttempts
        /\ batch[b].becomes = "PENDING" => Entry(b).attempts + 1 < outboxMaxAttempts
        /\ batch[b].step = "write" => batch[b].attempts = Entry(b).attempts + 1

Delivering(i) ==
    \E b \in Batches : Pushed(b) /\ batch[b].becomes = "DISPATCHED" /\ Entry(b).row = i

RowRight(i) ==
    /\ outbox[i].status = "PENDING" =>
          /\ outbox[i].attempts < outboxMaxAttempts
          /\ pushed[outbox[i].push] <= faults \/ Delivering(i)
    /\ outbox[i].status = "FAILED" => outbox[i].attempts = outboxMaxAttempts
    /\ outbox[i].status = "DISPATCHED" => pushed[outbox[i].push] > 0
    /\ pushed[outbox[i].push] <= faults + 1

OutboxIInv ==
    /\ OutboxTypeOK /\ OneHandler /\ HandlersReady /\ OneRow /\ OwedIsDone /\ RowsExist
    /\ ~overlapped =>
          /\ OneBatch /\ EntriesFresh /\ OutcomeRight
          /\ \A i \in DOMAIN outbox : RowRight(i)

-----------------------------------------------------------------------------
LEMMA OutboxShapes ==
    ASSUME OutboxTypeOK
    PROVE  /\ Len(outbox) \in Nat /\ DOMAIN outbox = 1..Len(outbox)
           /\ \A i \in DOMAIN outbox : outbox[i] \in OutboxRows
           /\ \A p \in Publishers : publisher[p] \in StatusHandlers
           /\ \A b \in Batches : batch[b] \in OutboxRequests
  BY LenProperties, ElementOfSeq DEF OutboxTypeOK

LEMMA RowFields ==
    ASSUME NEW row \in OutboxRows
    PROVE  /\ row.push \in Pushes /\ row.attempts \in Nat
           /\ row.status \in {"PENDING", "DISPATCHED", "FAILED"}
  BY DEF OutboxRows

LEMMA HandlerFields ==
    ASSUME NEW h \in StatusHandlers
    PROVE  /\ h.step \in {"idle", "mark", "list", "insert"}
           /\ h.status \in PushStatuses /\ h.recipients \subseteq Devices
  BY DEF StatusHandlers

LEMMA RequestFields ==
    ASSUME NEW r \in OutboxRequests
    PROVE  /\ r.step \in {"idle", "send", "count", "write"}
           /\ r.becomes \in {"PENDING", "DISPATCHED", "FAILED"} /\ r.attempts \in Nat
           /\ \A e \in r.todo : e.row \in Nat /\ e.attempts \in Nat
  BY DEF OutboxRequests

LEMMA NobodyShapes ==
    /\ NoPublisher \in StatusHandlers /\ NoPublisher.step = "idle"
    /\ NoBatch \in OutboxRequests /\ NoBatch.step = "idle" /\ NoBatch.todo = {}
  <1>1. NoPublisher \in StatusHandlers /\ NoPublisher.step = "idle"
    BY OutboxOK DEF NoPublisher, StatusHandlers
  <1>2. NoBatch \in OutboxRequests /\ NoBatch.step = "idle" /\ NoBatch.todo = {}
    BY DEF NoBatch, OutboxRequests
  <1> QED
    BY <1>1, <1>2

LEMMA EntryIsThere ==
    ASSUME OutboxTypeOK, NEW b \in Batches, batch[b].step # "idle"
    PROVE  Entry(b) \in batch[b].todo
  <1> DEFINE todo == batch[b].todo
             rows == {e.row : e \in todo}
  <1>1. todo # {} /\ \A e \in todo : e.row \in Nat
    BY OutboxShapes, RequestFields DEF OutboxTypeOK
  <1>2. rows \in SUBSET Nat /\ rows # {}
    BY <1>1
  <1>3. PICK i \in rows : \A j \in rows : i <= j
    BY <1>2, LeastOf
  <1>4. \E e \in todo : \A f \in todo : e.row <= f.row
    BY <1>3
  <1> QED
    BY <1>4 DEF Entry

(* The effect of a step in plain terms: on a handler, a batch and a row. *)
HandlerTo(p, step, status, recipients) ==
    /\ publisher' \in [Publishers -> StatusHandlers]
    /\ publisher'[p].step = step
    /\ step # "idle" => publisher'[p].status = status /\ publisher'[p].recipients = recipients
    /\ \A q \in Publishers \ {p} : publisher'[q] = publisher[q]

BatchTo(b, step, todo, becomes, attempts) ==
    /\ batch' \in [Batches -> OutboxRequests]
    /\ \A c \in Batches : batch'[c].todo = {} <=> batch'[c].step = "idle"
    /\ batch'[b].step = step /\ batch'[b].todo = todo
    /\ step \in {"count", "write"} =>
          batch'[b].becomes = becomes /\ batch'[b].attempts = attempts
    /\ \A c \in Batches \ {b} : batch'[c] = batch[c]

RowTo(i, status, attempts) ==
    /\ outbox' \in Seq(OutboxRows) /\ DOMAIN outbox' = DOMAIN outbox
    /\ \A j \in DOMAIN outbox : outbox'[j].push = outbox[j].push
    /\ outbox'[i].status = status /\ outbox'[i].attempts = attempts
    /\ \A j \in DOMAIN outbox \ {i} : outbox'[j] = outbox[j]

LEMMA HandlerMoves ==
    ASSUME OutboxTypeOK, NEW p \in Publishers, NEW h \in StatusHandlers,
           publisher' = [publisher EXCEPT ![p] = h]
    PROVE  HandlerTo(p, h.step, h.status, h.recipients)
  BY DEF HandlerTo, OutboxTypeOK

LEMMA BatchMoves ==
    ASSUME OutboxTypeOK, NEW b \in Batches, NEW r \in OutboxRequests,
           r.todo = {} <=> r.step = "idle",
           batch' = [batch EXCEPT ![b] = r]
    PROVE  BatchTo(b, r.step, r.todo, r.becomes, r.attempts)
  <1>1. batch' \in [Batches -> OutboxRequests] /\ batch'[b] = r
    BY DEF OutboxTypeOK
  <1>2. \A c \in Batches \ {b} : batch'[c] = batch[c]
    BY DEF OutboxTypeOK
  <1>3. \A c \in Batches : batch'[c].todo = {} <=> batch'[c].step = "idle"
    BY <1>1, <1>2 DEF OutboxTypeOK
  <1> QED
    BY <1>1, <1>2, <1>3 DEF BatchTo

LEMMA RowMoves ==
    ASSUME OutboxTypeOK, NEW i \in DOMAIN outbox, NEW row \in OutboxRows,
           row.push = outbox[i].push, outbox' = [outbox EXCEPT ![i] = row]
    PROVE  RowTo(i, row.status, row.attempts)
  BY ExceptSeq, LenProperties DEF RowTo, OutboxTypeOK

-----------------------------------------------------------------------------
(* What the handlers do. *)
LEMMA ReceiveEffect ==
    ASSUME OutboxTypeOK, NEW p \in Publishers, NEW status \in PushStatuses,
           ReceiveStatus(p, status)
    PROVE  /\ UNCHANGED <<devices, marked, outbox, faults, owed, pushed, batch, overlapped>>
           /\ publisher[p].step = "idle" /\ status \in Announced
           /\ HandlerTo(p, "mark", status, publisher[p].recipients)
  <1> DEFINE h == [publisher[p] EXCEPT !.step = "mark", !.status = status]
  <1>1. publisher' = [publisher EXCEPT ![p] = h]
    BY DEF ReceiveStatus, OutboxTypeOK
  <1>2. /\ h \in StatusHandlers /\ h.step = "mark" /\ h.status = status
        /\ h.recipients = publisher[p].recipients
    BY OutboxShapes DEF StatusHandlers
  <1> HIDE DEF h
  <1>3. HandlerTo(p, "mark", status, publisher[p].recipients)
    BY <1>1, <1>2, HandlerMoves
  <1> QED
    BY <1>3 DEF ReceiveStatus, unsent, Announced

LEMMA MarkEffect ==
    ASSUME OutboxTypeOK, NEW p \in Publishers, MarkDispatch(p)
    PROVE  /\ UNCHANGED <<devices, outbox, faults, pushed, batch, overlapped>>
           /\ publisher[p].step = "mark"
           /\ \/ HandlerTo(p, "idle", publisher[p].status, {}) /\ UNCHANGED <<marked, owed>>
              \/ /\ publisher[p].status \notin marked
                 /\ HandlerTo(p, "list", publisher[p].status, publisher[p].recipients)
                 /\ marked' = marked \cup {publisher[p].status}
                 /\ owed' = owed \cup ({publisher[p].status} \X devices)
  <1> DEFINE h == [publisher[p] EXCEPT !.step = "list"]
  <1>1. /\ h \in StatusHandlers /\ h.step = "list" /\ h.status = publisher[p].status
        /\ h.recipients = publisher[p].recipients
    BY OutboxShapes DEF StatusHandlers
  <1>2. CASE publisher[p].status \in marked
    <2>1. HandlerTo(p, "idle", publisher[p].status, {})
      BY <1>2, HandlerMoves, NobodyShapes DEF MarkDispatch, HandlerTo
    <2> QED
      BY <1>2, <2>1 DEF MarkDispatch, unsent
  <1>3. CASE publisher[p].status \notin marked
    <2>1. publisher' = [publisher EXCEPT ![p] = h]
      BY <1>3 DEF MarkDispatch, OutboxTypeOK
    <2> HIDE DEF h
    <2>2. HandlerTo(p, "list", publisher[p].status, publisher[p].recipients)
      BY <1>1, <2>1, HandlerMoves
    <2> QED
      BY <1>3, <2>2 DEF MarkDispatch, unsent
  <1> QED
    BY <1>2, <1>3

LEMMA ListEffect ==
    ASSUME OutboxTypeOK, NEW p \in Publishers, ListRecipients(p)
    PROVE  /\ UNCHANGED <<devices, marked, outbox, faults, owed, pushed, batch, overlapped>>
           /\ publisher[p].step = "list"
           /\ \/ devices = {} /\ HandlerTo(p, "idle", publisher[p].status, {})
              \/ HandlerTo(p, "insert", publisher[p].status, devices)
  <1> DEFINE h == [publisher[p] EXCEPT !.step = "insert", !.recipients = devices]
  <1>1. /\ h \in StatusHandlers /\ h.step = "insert" /\ h.status = publisher[p].status
        /\ h.recipients = devices
    BY OutboxShapes DEF StatusHandlers, OutboxTypeOK
  <1>2. CASE devices = {}
    <2>1. publisher' = [publisher EXCEPT ![p] = NoPublisher]
      BY <1>2 DEF ListRecipients
    <2>2. HandlerTo(p, "idle", publisher[p].status, {})
      BY <2>1, HandlerMoves, NobodyShapes DEF HandlerTo
    <2> QED
      BY <1>2, <2>2 DEF ListRecipients, unsent
  <1>3. CASE devices # {}
    <2>1. publisher' = [publisher EXCEPT ![p] = h]
      BY <1>3 DEF ListRecipients, OutboxTypeOK
    <2> HIDE DEF h
    <2>2. HandlerTo(p, "insert", publisher[p].status, devices)
      BY <1>1, <2>1, HandlerMoves
    <2> QED
      BY <1>3, <2>2 DEF ListRecipients, unsent
  <1> QED
    BY <1>2, <1>3

NewRow(push) == [push |-> push, status |-> "PENDING", attempts |-> 0, due |-> TRUE]

LEMMA EnqueueEffect ==
    ASSUME OutboxTypeOK, HandlersReady, NEW p \in Publishers, EnqueueRow(p)
    PROVE  /\ UNCHANGED <<devices, marked, faults, owed, pushed, batch, overlapped>>
           /\ publisher[p].step = "insert"
           /\ \E d \in publisher[p].recipients :
                 /\ outbox' \in Seq(OutboxRows)
                 /\ Len(outbox) + 1 \notin DOMAIN outbox
                 /\ DOMAIN outbox' = DOMAIN outbox \cup {Len(outbox) + 1}
                 /\ outbox'[Len(outbox) + 1] = NewRow(<<publisher[p].status, d>>)
                 /\ \A i \in DOMAIN outbox : outbox'[i] = outbox[i]
                 /\ \/ publisher[p].recipients = {d}
                       /\ HandlerTo(p, "idle", publisher[p].status, {})
                    \/ HandlerTo(p, "insert", publisher[p].status, publisher[p].recipients \ {d})
  <1>1. PICK d \in publisher[p].recipients :
            /\ outbox' = Append(outbox, NewRow(<<publisher[p].status, d>>))
            /\ publisher' = [publisher EXCEPT
                   ![p] = IF publisher[p].recipients = {d} THEN NoPublisher
                          ELSE [publisher[p] EXCEPT !.recipients = publisher[p].recipients \ {d}]]
    BY DEF EnqueueRow, NewRow, OutboxTypeOK
  <1> DEFINE row == NewRow(<<publisher[p].status, d>>)
             h == [publisher[p] EXCEPT !.recipients = publisher[p].recipients \ {d}]
  <1>2. publisher[p].step = "insert"
    BY DEF EnqueueRow
  <1>3. row \in OutboxRows
    <2>1. publisher[p].status \in Announced /\ d \in Devices
      BY <1>2, OutboxShapes, HandlerFields DEF HandlersReady, Enqueueing, OutboxTypeOK
    <2> QED
      BY <2>1 DEF NewRow, OutboxRows, Pushes
  <1>4. /\ h \in StatusHandlers /\ h.step = "insert" /\ h.status = publisher[p].status
        /\ h.recipients = publisher[p].recipients \ {d}
    BY <1>2, OutboxShapes DEF StatusHandlers
  <1> HIDE DEF row
  <1>5. /\ outbox' \in Seq(OutboxRows) /\ Len(outbox') = Len(outbox) + 1
        /\ outbox'[Len(outbox) + 1] = row
        /\ \A i \in 1..Len(outbox) : outbox'[i] = outbox[i]
    BY <1>1, <1>3, AppendProperties DEF OutboxTypeOK, row
  <1>6. /\ Len(outbox) + 1 \notin DOMAIN outbox
        /\ DOMAIN outbox' = DOMAIN outbox \cup {Len(outbox) + 1}
    BY <1>5, OutboxShapes, LenProperties
  <1>7. \/ publisher[p].recipients = {d} /\ HandlerTo(p, "idle", publisher[p].status, {})
        \/ HandlerTo(p, "insert", publisher[p].status, publisher[p].recipients \ {d})
    <2>1. CASE publisher[p].recipients = {d}
      <3>1. publisher' = [publisher EXCEPT ![p] = NoPublisher]
        BY <1>1, <2>1
      <3> QED
        BY <2>1, <3>1, HandlerMoves, NobodyShapes DEF HandlerTo
    <2>2. CASE publisher[p].recipients # {d}
      <3>1. publisher' = [publisher EXCEPT ![p] = h]
        BY <1>1, <2>2
      <3> HIDE DEF h
      <3> QED
        BY <1>4, <3>1, HandlerMoves
    <2> QED
      BY <2>1, <2>2
  <1> QED
    BY <1>2, <1>5, <1>6, <1>7, OutboxShapes DEF EnqueueRow, unsent, row

LEMMA PublisherDiesEffect ==
    ASSUME OutboxTypeOK, NEW p \in Publishers, PublisherDies(p)
    PROVE  /\ UNCHANGED <<devices, marked, outbox, owed, pushed, batch, overlapped>>
           /\ faults < MaxPushFaults /\ faults' = faults + 1
           /\ HandlerTo(p, "idle", publisher[p].status, {})
  <1>1. HandlerTo(p, "idle", publisher[p].status, {})
    BY HandlerMoves, NobodyShapes DEF PublisherDies, HandlerTo
  <1> QED
    BY <1>1 DEF PublisherDies, unsent

(* What the batches do. *)
LEMMA ListPendingEffect ==
    ASSUME OutboxTypeOK, NEW b \in Batches, ListPending(b)
    PROVE  /\ UNCHANGED <<devices, marked, publisher, owed, outbox, pushed, faults>>
           /\ batch[b].step = "idle"
           /\ overlapped' = (overlapped \/ \E c \in Batches : batch[c].step # "idle")
           /\ \E todo : /\ BatchTo(b, "send", todo, "PENDING", 0)
                        /\ \A e \in todo : /\ e.row \in DOMAIN outbox
                                           /\ outbox[e.row].status = "PENDING"
                                           /\ e.attempts = outbox[e.row].attempts
  <1> DEFINE due == {i \in DOMAIN outbox : Due(outbox[i])}
             oldest == {i \in due : Cardinality({j \in due : j < i}) < BatchSize}
             todo == {[row |-> i, attempts |-> outbox[i].attempts] : i \in oldest}
             r == [batch[b] EXCEPT !.step = "send", !.todo = todo]
  <1>1. /\ due # {} /\ batch[b].step = "idle"
        /\ batch' = [batch EXCEPT ![b] = r]
    BY DEF ListPending, OutboxTypeOK
  <1>2. \A i \in due : i \in DOMAIN outbox /\ outbox[i].status = "PENDING" /\ i \in Nat
    BY OutboxShapes DEF Due
  <1>3. oldest # {}
    <2>1. due \in SUBSET Nat
      BY <1>2
    <2> HIDE DEF due
    <2>2. PICK i \in due : \A j \in due : i <= j
      BY <1>1, <2>1, LeastOf
    <2>3. {j \in due : j < i} = {}
      <3>1. ASSUME NEW j \in due
            PROVE  ~(j < i)
        <4>1. i \in Nat /\ j \in Nat /\ i <= j
          BY <2>1, <2>2
        <4> QED
          BY <4>1
      <3> QED
        BY <3>1
    <2>4. Cardinality({}) = 0
      BY FS_EmptySet
    <2>5. Cardinality({j \in due : j < i}) < BatchSize
      BY <2>3, <2>4, OutboxOK
    <2> QED
      BY <2>5
  <1>4. \A i \in oldest : i \in due
    OBVIOUS
  <1> HIDE DEF due, oldest
  <1>5. /\ todo # {}
        /\ \A e \in todo : /\ e.row \in DOMAIN outbox
                           /\ outbox[e.row].status = "PENDING"
                           /\ e.attempts = outbox[e.row].attempts
    <2>1. todo # {}
      BY <1>3
    <2>2. ASSUME NEW e \in todo
          PROVE  /\ e.row \in DOMAIN outbox /\ outbox[e.row].status = "PENDING"
                 /\ e.attempts = outbox[e.row].attempts
      <3>1. PICK i \in oldest : e = [row |-> i, attempts |-> outbox[i].attempts]
        OBVIOUS
      <3>2. e.row = i /\ e.attempts = outbox[i].attempts
        BY <3>1
      <3> QED
        BY <1>2, <1>4, <3>2
    <2> QED
      BY <2>1, <2>2
  <1>6. todo \in SUBSET [row : Nat, attempts : Nat]
    BY <1>2, <1>4, OutboxShapes, RowFields
  <1> HIDE DEF todo
  <1>7. /\ r \in OutboxRequests /\ r.step = "send" /\ r.todo = todo
    BY <1>6, OutboxShapes DEF OutboxRequests
  <1> HIDE DEF r
  <1>8. BatchTo(b, r.step, r.todo, r.becomes, r.attempts)
    BY <1>1, <1>5, <1>7, BatchMoves
  <1>9. BatchTo(b, "send", todo, "PENDING", 0)
    BY <1>7, <1>8 DEF BatchTo
  <1> QED
    BY <1>1, <1>5, <1>9 DEF ListPending, unqueued

LEMMA OutcomeMoves ==
    ASSUME OutboxTypeOK, NEW b \in Batches, batch[b].step = "send",
           NEW status \in {"PENDING", "DISPATCHED", "FAILED"}, Outcome(b, status)
    PROVE  BatchTo(b, "count", batch[b].todo, status, batch[b].attempts)
  <1> DEFINE r == [batch[b] EXCEPT !.step = "count", !.becomes = status]
  <1>1. batch' = [batch EXCEPT ![b] = r]
    BY DEF Outcome, OutboxTypeOK
  <1>2. /\ r \in OutboxRequests /\ r.step = "count" /\ r.todo = batch[b].todo
        /\ r.becomes = status /\ r.attempts = batch[b].attempts
    BY OutboxShapes DEF OutboxRequests
  <1>3. r.todo # {}
    BY <1>2 DEF OutboxTypeOK
  <1> HIDE DEF r
  <1>4. BatchTo(b, r.step, r.todo, r.becomes, r.attempts)
    BY <1>1, <1>2, <1>3, BatchMoves
  <1> QED
    BY <1>2, <1>4

(* A push, of which Expo delivers or not. *)
PushMade(b) == pushed' = [pushed EXCEPT ![Pushing(b)] = @ + 1]

LEMMA PushEffect ==
    ASSUME OutboxTypeOK, RowsExist, NEW b \in Batches,
           PushDelivered(b) \/ PushRefused(b) \/ PushAnswerLost(b)
    PROVE  /\ UNCHANGED <<devices, marked, publisher, owed, outbox, overlapped>>
           /\ batch[b].step = "send"
           /\ Entry(b) \in batch[b].todo /\ Entry(b).row \in DOMAIN outbox
           /\ Pushing(b) \in Pushes
           /\ \/ /\ BatchTo(b, "count", batch[b].todo, "DISPATCHED", batch[b].attempts)
                 /\ PushMade(b) /\ UNCHANGED faults
              \/ /\ BatchTo(b, "count", batch[b].todo, Refused(b), batch[b].attempts)
                 /\ UNCHANGED <<pushed, faults>>
              \/ /\ BatchTo(b, "count", batch[b].todo, Refused(b), batch[b].attempts)
                 /\ PushMade(b) /\ faults < MaxPushFaults /\ faults' = faults + 1
  <1>1. batch[b].step = "send"
    BY DEF PushDelivered, PushRefused, PushAnswerLost
  <1>2. Entry(b) \in batch[b].todo /\ Entry(b).row \in DOMAIN outbox
    BY <1>1, EntryIsThere DEF RowsExist
  <1>3. Pushing(b) \in Pushes
    BY <1>2, OutboxShapes, RowFields DEF Pushing
  <1>4. Refused(b) \in {"PENDING", "DISPATCHED", "FAILED"}
    BY DEF Refused
  <1> QED
    BY <1>1, <1>2, <1>3, <1>4, OutcomeMoves
       DEF PushDelivered, PushRefused, PushAnswerLost, PushMade, unqueued

LEMMA CountEffect ==
    ASSUME OutboxTypeOK, RowsExist, NEW b \in Batches, CountAttempt(b)
    PROVE  /\ UNCHANGED <<devices, marked, publisher, owed, outbox, pushed, faults, overlapped>>
           /\ batch[b].step = "count"
           /\ Entry(b) \in batch[b].todo /\ Entry(b).row \in DOMAIN outbox
           /\ BatchTo(b, "write", batch[b].todo, batch[b].becomes,
                      outbox[Entry(b).row].attempts + 1)
  <1> DEFINE n == outbox[Entry(b).row].attempts + 1
             r == [batch[b] EXCEPT !.step = "write", !.attempts = n]
  <1>1. batch[b].step = "count" /\ batch' = [batch EXCEPT ![b] = r]
    BY DEF CountAttempt, OutboxTypeOK
  <1>2. Entry(b) \in batch[b].todo /\ Entry(b).row \in DOMAIN outbox
    BY <1>1, EntryIsThere DEF RowsExist
  <1>3. n \in Nat
    <2>1. outbox[Entry(b).row].attempts \in Nat
      BY <1>2, OutboxShapes, RowFields
    <2> QED
      BY <2>1
  <1> HIDE DEF n
  <1>4. /\ r \in OutboxRequests /\ r.step = "write" /\ r.todo = batch[b].todo
        /\ r.becomes = batch[b].becomes /\ r.attempts = n
    BY <1>3, OutboxShapes DEF OutboxRequests
  <1>5. r.todo # {}
    BY <1>1, <1>4 DEF OutboxTypeOK
  <1> HIDE DEF r
  <1>6. BatchTo(b, r.step, r.todo, r.becomes, r.attempts)
    BY <1>1, <1>4, <1>5, BatchMoves
  <1>7. BatchTo(b, "write", batch[b].todo, batch[b].becomes, n)
    BY <1>4, <1>6
  <1> QED
    BY <1>1, <1>2, <1>7 DEF CountAttempt, unqueued, n

LEMMA WriteEffect ==
    ASSUME OutboxTypeOK, RowsExist, NEW b \in Batches, WriteRow(b)
    PROVE  /\ UNCHANGED <<devices, marked, publisher, owed, pushed, faults, overlapped>>
           /\ batch[b].step = "write"
           /\ Entry(b) \in batch[b].todo /\ Entry(b).row \in DOMAIN outbox
           /\ RowTo(Entry(b).row, batch[b].becomes, batch[b].attempts)
           /\ \E step \in {"idle", "send"} :
                 BatchTo(b, step, batch[b].todo \ {Entry(b)}, "PENDING", 0)
  <1> DEFINE i == Entry(b).row
             left == batch[b].todo \ {Entry(b)}
             r == [NoBatch EXCEPT !.step = "send", !.todo = left]
             row == [outbox[i] EXCEPT !.status = batch[b].becomes,
                        !.attempts = batch[b].attempts, !.due = (batch[b].becomes # "PENDING")]
  <1>1. /\ batch[b].step = "write" /\ outbox' = [outbox EXCEPT ![i] = row]
        /\ batch' = [batch EXCEPT ![b] = IF batch[b].todo = {Entry(b)} THEN NoBatch ELSE r]
    BY DEF WriteRow, OutboxTypeOK
  <1>2. Entry(b) \in batch[b].todo /\ i \in DOMAIN outbox
    BY <1>1, EntryIsThere DEF RowsExist
  <1>3. RowTo(i, batch[b].becomes, batch[b].attempts)
    <2>1. /\ row \in OutboxRows /\ row.push = outbox[i].push
          /\ row.status = batch[b].becomes /\ row.attempts = batch[b].attempts
      <3>1. outbox[i] \in OutboxRows
        BY <1>2, OutboxShapes
      <3>2. /\ batch[b].becomes \in {"PENDING", "DISPATCHED", "FAILED"}
            /\ batch[b].attempts \in Nat
        BY OutboxShapes, RequestFields
      <3> HIDE DEF i
      <3> QED
        BY <3>1, <3>2 DEF OutboxRows
    <2> HIDE DEF row
    <2> QED
      BY <1>1, <1>2, <2>1, RowMoves
  <1>4. left \in SUBSET [row : Nat, attempts : Nat]
    BY OutboxShapes DEF OutboxRequests
  <1>5. \E step \in {"idle", "send"} : BatchTo(b, step, left, "PENDING", 0)
    <2>1. CASE batch[b].todo = {Entry(b)}
      <3>1. batch' = [batch EXCEPT ![b] = NoBatch] /\ left = {}
        BY <1>1, <2>1
      <3>2. BatchTo(b, NoBatch.step, NoBatch.todo, NoBatch.becomes, NoBatch.attempts)
        BY <3>1, BatchMoves, NobodyShapes
      <3>3. BatchTo(b, "idle", left, "PENDING", 0)
        BY <3>1, <3>2, NobodyShapes DEF BatchTo
      <3> QED
        BY <3>3
    <2>2. CASE batch[b].todo # {Entry(b)}
      <3>1. left # {}
        BY <1>2, <2>2
      <3> HIDE DEF left
      <3>2. /\ r \in OutboxRequests /\ r.step = "send" /\ r.todo = left
        BY <1>4 DEF NoBatch, OutboxRequests
      <3>3. batch' = [batch EXCEPT ![b] = r]
        BY <1>1, <2>2
      <3> HIDE DEF r
      <3>4. BatchTo(b, r.step, r.todo, r.becomes, r.attempts)
        BY <3>1, <3>2, <3>3, BatchMoves
      <3>5. BatchTo(b, "send", left, "PENDING", 0)
        BY <3>2, <3>4 DEF BatchTo
      <3> QED
        BY <3>5
    <2> QED
      BY <2>1, <2>2
  <1> QED
    BY <1>1, <1>2, <1>3, <1>5 DEF WriteRow, unqueued

LEMMA BatchDiesEffect ==
    ASSUME OutboxTypeOK, NEW b \in Batches, BatchDies(b)
    PROVE  /\ UNCHANGED <<devices, marked, publisher, owed, outbox, pushed, overlapped>>
           /\ batch[b].step # "idle"
           /\ faults < MaxPushFaults /\ faults' = faults + 1
           /\ BatchTo(b, "idle", {}, "PENDING", 0)
  <1>1. BatchTo(b, NoBatch.step, NoBatch.todo, NoBatch.becomes, NoBatch.attempts)
    BY BatchMoves, NobodyShapes DEF BatchDies
  <1>2. BatchTo(b, "idle", {}, "PENDING", 0)
    BY <1>1, NobodyShapes DEF BatchTo
  <1> QED
    BY <1>2 DEF BatchDies, unqueued

LEMMA FallsDueEffect ==
    ASSUME OutboxTypeOK, NEW i, RetryFallsDue(i)
    PROVE  /\ UNCHANGED <<devices, marked, publisher, owed, pushed, batch, faults, overlapped>>
           /\ i \in DOMAIN outbox /\ RowTo(i, outbox[i].status, outbox[i].attempts)
  <1> DEFINE row == [outbox[i] EXCEPT !.due = TRUE]
  <1>1. i \in DOMAIN outbox /\ outbox' = [outbox EXCEPT ![i] = row]
    BY DEF RetryFallsDue, OutboxTypeOK
  <1>2. /\ row \in OutboxRows /\ row.push = outbox[i].push
        /\ row.status = outbox[i].status /\ row.attempts = outbox[i].attempts
    BY <1>1, OutboxShapes DEF OutboxRows
  <1> HIDE DEF row
  <1>3. RowTo(i, outbox[i].status, outbox[i].attempts)
    BY <1>1, <1>2, RowMoves
  <1> QED
    BY <1>1, <1>3 DEF RetryFallsDue, unqueued, unsent

-----------------------------------------------------------------------------
(* Every step is one of these. *)
LEMMA OutboxCases ==
    ASSUME OutboxNext
    PROVE  \/ \E d \in Devices : UpsertPushToken(d)
           \/ \E p \in Publishers, status \in PushStatuses : ReceiveStatus(p, status)
           \/ \E p \in Publishers :
                 MarkDispatch(p) \/ ListRecipients(p) \/ EnqueueRow(p) \/ PublisherDies(p)
           \/ \E b \in Batches :
                 \/ ListPending(b) \/ CountAttempt(b) \/ WriteRow(b) \/ BatchDies(b)
                 \/ PushDelivered(b) \/ PushRefused(b) \/ PushAnswerLost(b)
           \/ \E i \in Rows : RetryFallsDue(i)
  BY DEF OutboxNext, PublisherStep, BatchStep

LEMMA OutboxTypeStep ==
    ASSUME OutboxTypeOK, HandlersReady, RowsExist, OutboxNext
    PROVE  OutboxTypeOK'
  <1> USE DEF OutboxTypeOK
  <1>0. OutboxTypeOK
    OBVIOUS
  <1>1. ASSUME NEW d \in Devices, UpsertPushToken(d)
        PROVE  OutboxTypeOK'
    BY <1>1 DEF UpsertPushToken, unsent
  <1>2. ASSUME NEW p \in Publishers, NEW status \in PushStatuses, ReceiveStatus(p, status)
        PROVE  OutboxTypeOK'
    BY <1>2, ReceiveEffect DEF HandlerTo
  <1>3. ASSUME NEW p \in Publishers, MarkDispatch(p)
        PROVE  OutboxTypeOK'
    <2>1. publisher[p].status \in Announced
      BY <1>3, MarkEffect DEF HandlersReady
    <2>2. /\ UNCHANGED <<devices, outbox, faults, pushed, batch, overlapped>>
          /\ publisher' \in [Publishers -> StatusHandlers]
          /\ \/ UNCHANGED <<marked, owed>>
             \/ /\ marked' = marked \cup {publisher[p].status}
                /\ owed' = owed \cup ({publisher[p].status} \X devices)
      BY <1>3, MarkEffect DEF HandlerTo
    <2>3. marked' \subseteq Announced /\ owed' \subseteq Pushes
      BY <2>1, <2>2 DEF Pushes
    <2> QED
      BY <2>2, <2>3
  <1>4. ASSUME NEW p \in Publishers, ListRecipients(p)
        PROVE  OutboxTypeOK'
    BY <1>4, ListEffect DEF HandlerTo
  <1>5. ASSUME NEW p \in Publishers, EnqueueRow(p)
        PROVE  OutboxTypeOK'
    BY <1>5, EnqueueEffect DEF HandlerTo
  <1>6. ASSUME NEW p \in Publishers, PublisherDies(p)
        PROVE  OutboxTypeOK'
    <2>1. faults' \in 0..MaxPushFaults
      BY <1>6, PublisherDiesEffect, OutboxOK
    <2> QED
      BY <1>6, <2>1, PublisherDiesEffect DEF HandlerTo
  <1>7. ASSUME NEW b \in Batches, ListPending(b)
        PROVE  OutboxTypeOK'
    <2>1. overlapped' \in BOOLEAN
      BY <1>7, ListPendingEffect
    <2>2. PICK todo : BatchTo(b, "send", todo, "PENDING", 0)
      BY <1>7, ListPendingEffect
    <2> QED
      BY <1>7, <2>1, <2>2, ListPendingEffect DEF BatchTo
  <1>8. ASSUME NEW b \in Batches, PushDelivered(b) \/ PushRefused(b) \/ PushAnswerLost(b)
        PROVE  OutboxTypeOK'
    <2>1. /\ UNCHANGED <<devices, marked, publisher, owed, outbox, overlapped>>
          /\ batch' \in [Batches -> OutboxRequests]
          /\ \A c \in Batches : batch'[c].todo = {} <=> batch'[c].step = "idle"
          /\ UNCHANGED pushed \/ PushMade(b)
          /\ UNCHANGED faults \/ (faults < MaxPushFaults /\ faults' = faults + 1)
      BY <1>8, PushEffect DEF BatchTo
    <2>2. pushed' \in [Pushes -> Nat]
      BY <2>1 DEF PushMade
    <2>3. faults' \in 0..MaxPushFaults
      BY <2>1, OutboxOK
    <2> QED
      BY <2>1, <2>2, <2>3
  <1>9. ASSUME NEW b \in Batches, CountAttempt(b)
        PROVE  OutboxTypeOK'
    BY <1>9, CountEffect DEF BatchTo
  <1>10. ASSUME NEW b \in Batches, WriteRow(b)
         PROVE  OutboxTypeOK'
    <2>1. PICK step \in {"idle", "send"} :
              BatchTo(b, step, batch[b].todo \ {Entry(b)}, "PENDING", 0)
      BY <1>10, WriteEffect
    <2>2. outbox' \in Seq(OutboxRows)
      BY <1>10, WriteEffect DEF RowTo
    <2> QED
      BY <1>10, <2>1, <2>2, WriteEffect DEF BatchTo
  <1>11. ASSUME NEW b \in Batches, BatchDies(b)
         PROVE  OutboxTypeOK'
    <2>1. faults' \in 0..MaxPushFaults
      BY <1>11, BatchDiesEffect, OutboxOK
    <2> QED
      BY <1>11, <2>1, BatchDiesEffect DEF BatchTo
  <1>12. ASSUME NEW i \in Rows, RetryFallsDue(i)
         PROVE  OutboxTypeOK'
    BY <1>12, FallsDueEffect DEF RowTo
  <1> QED
    BY <1>1, <1>2, <1>3, <1>4, <1>5, <1>6, <1>7, <1>8, <1>9, <1>10, <1>11, <1>12, OutboxCases

-----------------------------------------------------------------------------
(* The handlers, the marks and the rows they make. *)
QueueInv == OneHandler /\ HandlersReady /\ OneRow /\ OwedIsDone

(* A step of the batches changes nothing there. *)
LEMMA BatchesKeepQueue ==
    ASSUME QueueInv, UNCHANGED <<devices, marked, publisher, owed>>,
           faults' = 0 => faults = 0, DOMAIN outbox' = DOMAIN outbox,
           \A i \in DOMAIN outbox : outbox'[i].push = outbox[i].push
    PROVE  QueueInv'
  <1>1. Queued' = Queued
    BY DEF Queued
  <1>2. OneHandler' /\ HandlersReady'
    BY <1>1 DEF QueueInv, OneHandler, HandlersReady, Enqueueing
  <1>3. OneRow'
    BY <1>1 DEF QueueInv, OneRow
  <1>4. OwedIsDone'
    BY <1>1 DEF QueueInv, OwedIsDone
  <1> QED
    BY <1>2, <1>3, <1>4 DEF QueueInv

LEMMA QueueStep ==
    ASSUME OutboxTypeOK, QueueInv, RowsExist, OutboxNext
    PROVE  QueueInv'
  <1> USE DEF QueueInv
  <1>0. QueueInv /\ (faults' = faults + 1 => faults' # 0)
    BY OutboxOK DEF OutboxTypeOK
  <1>1. ASSUME NEW d \in Devices, UpsertPushToken(d)
        PROVE  QueueInv'
    <2>1. /\ devices' = devices \cup {d}
          /\ UNCHANGED <<marked, outbox, publisher, faults, owed>>
      BY <1>1 DEF UpsertPushToken
    <2>2. Queued' = Queued
      BY <2>1 DEF Queued
    <2>3. OneHandler' /\ HandlersReady' /\ OneRow'
      BY <2>1, <2>2 DEF OneHandler, HandlersReady, OneRow, Enqueueing
    <2>4. OwedIsDone'
      BY <2>1, <2>2 DEF OwedIsDone
    <2> QED
      BY <2>3, <2>4
  <1>2. ASSUME NEW p \in Publishers, NEW status \in PushStatuses, ReceiveStatus(p, status)
        PROVE  QueueInv'
    <2>1. /\ UNCHANGED <<devices, marked, outbox, faults, owed>>
          /\ publisher[p].step = "idle" /\ status \in Announced
          /\ publisher'[p].step = "mark" /\ publisher'[p].status = status
          /\ \A q \in Publishers \ {p} : publisher'[q] = publisher[q]
      BY <1>2, ReceiveEffect DEF HandlerTo
    <2>2. Queued' = Queued
      BY <2>1 DEF Queued
    <2>3. OneHandler'
      BY <2>1 DEF OneHandler, Enqueueing
    <2>4. HandlersReady'
      BY <2>1, <2>2 DEF HandlersReady, Enqueueing
    <2>5. OneRow'
      BY <2>1, <2>2 DEF OneRow
    <2>6. OwedIsDone'
      BY <2>1, <2>2 DEF OwedIsDone
    <2> QED
      BY <2>3, <2>4, <2>5, <2>6
  <1>3. ASSUME NEW p \in Publishers, MarkDispatch(p)
        PROVE  QueueInv'
    <2> DEFINE status == publisher[p].status
    <2>1. /\ UNCHANGED <<devices, outbox, faults>>
          /\ publisher[p].step = "mark" /\ status \in Announced
          /\ \A q \in Publishers \ {p} : publisher'[q] = publisher[q]
      BY <1>3, MarkEffect DEF HandlerTo, HandlersReady
    <2>2. Queued' = Queued
      BY <2>1 DEF Queued
    <2>3. CASE HandlerTo(p, "idle", status, {}) /\ UNCHANGED <<marked, owed>>
      <3>1. publisher'[p].step = "idle"
        BY <2>3 DEF HandlerTo
      <3>2. OneHandler'
        BY <2>1, <3>1 DEF OneHandler, Enqueueing
      <3>3. HandlersReady'
        BY <2>1, <2>2, <2>3, <3>1 DEF HandlersReady, Enqueueing
      <3>4. OneRow'
        BY <2>1, <2>2, <2>3 DEF OneRow
      <3>5. OwedIsDone'
        BY <2>1, <2>2, <2>3, <3>1 DEF OwedIsDone
      <3> QED
        BY <3>2, <3>3, <3>4, <3>5
    <2>4. CASE /\ status \notin marked
               /\ HandlerTo(p, "list", status, publisher[p].recipients)
               /\ marked' = marked \cup {status}
               /\ owed' = owed \cup ({status} \X devices)
      <3>1. publisher'[p].step = "list" /\ publisher'[p].status = status
        BY <2>4 DEF HandlerTo
      <3>2. \A q \in Publishers : Enqueueing(q) => publisher[q].status # status
        BY <2>4 DEF HandlersReady
      <3>3. \A x \in Queued : x[1] # status
        BY <2>4 DEF OneRow
      <3>4. OneHandler'
        BY <2>1, <3>1, <3>2 DEF OneHandler, Enqueueing
      <3>5. HandlersReady'
        BY <2>1, <2>2, <2>4, <3>1, <3>3 DEF HandlersReady, Enqueueing
      <3>6. OneRow'
        BY <2>1, <2>2, <2>4 DEF OneRow
      <3>7. OwedIsDone'
        <4>1. ASSUME faults' = 0, NEW x \in owed'
              PROVE  \/ x \in Queued'
                     \/ \E q \in Publishers :
                           /\ publisher'[q].status = x[1]
                           /\ \/ publisher'[q].step = "list" /\ x[2] \in devices'
                              \/ /\ publisher'[q].step = "insert"
                                 /\ x[2] \in publisher'[q].recipients
          <5>1. CASE x \in owed
            BY <2>1, <2>2, <3>1, <4>1, <5>1 DEF OwedIsDone
          <5>2. CASE x \in {status} \X devices
            BY <2>1, <3>1, <5>2
          <5> QED
            BY <2>4, <4>1, <5>1, <5>2
        <4> QED
          BY <4>1 DEF OwedIsDone
      <3> QED
        BY <3>4, <3>5, <3>6, <3>7
    <2> QED
      BY <1>3, <2>3, <2>4, MarkEffect
  <1>4. ASSUME NEW p \in Publishers, ListRecipients(p)
        PROVE  QueueInv'
    <2> DEFINE status == publisher[p].status
    <2>1. /\ UNCHANGED <<devices, marked, outbox, faults, owed>>
          /\ publisher[p].step = "list"
          /\ \A q \in Publishers \ {p} : publisher'[q] = publisher[q]
          /\ \/ devices = {} /\ publisher'[p].step = "idle"
             \/ /\ publisher'[p].step = "insert" /\ publisher'[p].status = status
                /\ publisher'[p].recipients = devices
      BY <1>4, ListEffect DEF HandlerTo
    <2>2. Queued' = Queued
      BY <2>1 DEF Queued
    <2>3. OneHandler'
      BY <2>1 DEF OneHandler, Enqueueing
    <2>4. HandlersReady'
      <3>1. \A d \in devices : <<status, d>> \notin Queued
        BY <2>1 DEF HandlersReady
      <3> QED
        BY <2>1, <2>2, <3>1 DEF HandlersReady, Enqueueing
    <2>5. OneRow'
      BY <2>1, <2>2 DEF OneRow
    <2>6. OwedIsDone'
      BY <2>1, <2>2 DEF OwedIsDone
    <2> QED
      BY <2>3, <2>4, <2>5, <2>6
  <1>5. ASSUME NEW p \in Publishers, EnqueueRow(p)
        PROVE  QueueInv'
    <2> DEFINE status == publisher[p].status
               n == Len(outbox) + 1
    <2>1. PICK d \in publisher[p].recipients :
              /\ n \notin DOMAIN outbox /\ DOMAIN outbox' = DOMAIN outbox \cup {n}
              /\ outbox'[n] = NewRow(<<status, d>>)
              /\ \A i \in DOMAIN outbox : outbox'[i] = outbox[i]
              /\ \/ publisher[p].recipients = {d} /\ HandlerTo(p, "idle", status, {})
                 \/ HandlerTo(p, "insert", status, publisher[p].recipients \ {d})
      BY <1>5, EnqueueEffect
    <2>2. /\ UNCHANGED <<devices, marked, faults, owed>> /\ publisher[p].step = "insert"
      BY <1>5, EnqueueEffect
    <2> HIDE DEF n
    <2>3. outbox'[n].push = <<status, d>>
      BY <2>1 DEF NewRow
    <2>4. Queued' = Queued \cup {<<status, d>>}
      BY <2>1, <2>3 DEF Queued
    <2>5. <<status, d>> \notin Queued /\ status \in marked
      BY <2>1, <2>2 DEF HandlersReady, Enqueueing
    <2>6. /\ \A q \in Publishers \ {p} : publisher'[q] = publisher[q]
          /\ \/ publisher[p].recipients = {d} /\ publisher'[p].step = "idle"
             \/ /\ publisher'[p].step = "insert" /\ publisher'[p].status = status
                /\ publisher'[p].recipients = publisher[p].recipients \ {d}
      BY <2>1 DEF HandlerTo
    <2>7. OneHandler'
      BY <2>2, <2>6 DEF OneHandler, Enqueueing
    <2>8. HandlersReady'
      <3>1. ASSUME NEW q \in Publishers \ {p}, Enqueueing(q)
            PROVE  publisher[q].status # status
        BY <2>2, <3>1 DEF OneHandler, Enqueueing
      <3>2. ASSUME NEW q \in Publishers
            PROVE  /\ publisher'[q].step = "mark" => publisher'[q].status \in Announced
                   /\ Enqueueing(q)' => publisher'[q].status \in marked'
                   /\ publisher'[q].step = "list" =>
                         \A x \in Queued' : x[1] # publisher'[q].status
                   /\ publisher'[q].step = "insert" =>
                         \A e \in publisher'[q].recipients :
                             <<publisher'[q].status, e>> \notin Queued'
        <4>1. CASE q = p
          BY <2>2, <2>4, <2>5, <2>6, <4>1 DEF HandlersReady, Enqueueing
        <4>2. CASE q # p
          BY <2>2, <2>4, <2>6, <3>1, <4>2 DEF HandlersReady, Enqueueing
        <4> QED
          BY <4>1, <4>2
      <3> QED
        BY <3>2 DEF HandlersReady
    <2>9. OneRow'
      <3>1. \A i \in DOMAIN outbox : outbox'[i].push # <<status, d>>
        BY <2>1, <2>5 DEF Queued
      <3>2. \A i, j \in DOMAIN outbox' : outbox'[i].push = outbox'[j].push => i = j
        BY <2>1, <2>3, <3>1 DEF OneRow
      <3>3. \A x \in Queued' : x[1] \in marked'
        BY <2>2, <2>4, <2>5 DEF OneRow
      <3> QED
        BY <3>2, <3>3 DEF OneRow
    <2>10. OwedIsDone'
      <3>1. ASSUME faults' = 0, NEW x \in owed', x \notin Queued'
            PROVE  \E q \in Publishers :
                      /\ publisher'[q].status = x[1]
                      /\ \/ publisher'[q].step = "list" /\ x[2] \in devices'
                         \/ publisher'[q].step = "insert" /\ x[2] \in publisher'[q].recipients
        <4>1. x \in Pushes /\ x = <<x[1], x[2]>>
          BY <2>2, <3>1 DEF OutboxTypeOK, Pushes
        <4>2. PICK q \in Publishers :
                  /\ publisher[q].status = x[1]
                  /\ \/ publisher[q].step = "list" /\ x[2] \in devices
                     \/ publisher[q].step = "insert" /\ x[2] \in publisher[q].recipients
          BY <2>2, <2>4, <3>1 DEF OwedIsDone
        <4>3. CASE q # p
          BY <2>2, <2>6, <4>2, <4>3
        <4>4. CASE q = p
          <5>1. x[2] # d
            BY <2>4, <3>1, <4>1, <4>2, <4>4
          <5> QED
            BY <2>2, <2>6, <4>2, <4>4, <5>1
        <4> QED
          BY <4>3, <4>4
      <3> QED
        BY <3>1 DEF OwedIsDone
    <2> QED
      BY <2>7, <2>8, <2>9, <2>10
  <1>6. ASSUME NEW p \in Publishers, PublisherDies(p)
        PROVE  QueueInv'
    <2>1. /\ UNCHANGED <<devices, marked, outbox, owed>> /\ faults' # 0
          /\ publisher'[p].step = "idle"
          /\ \A q \in Publishers \ {p} : publisher'[q] = publisher[q]
      BY <1>0, <1>6, PublisherDiesEffect DEF HandlerTo
    <2>2. Queued' = Queued
      BY <2>1 DEF Queued
    <2>3. OneHandler' /\ HandlersReady' /\ OneRow' /\ OwedIsDone'
      BY <2>1, <2>2 DEF OneHandler, HandlersReady, OneRow, OwedIsDone, Enqueueing
    <2> QED
      BY <2>3
  <1>7. ASSUME NEW b \in Batches,
               \/ ListPending(b) \/ CountAttempt(b) \/ BatchDies(b)
               \/ PushDelivered(b) \/ PushRefused(b) \/ PushAnswerLost(b)
        PROVE  QueueInv'
    <2>1. /\ UNCHANGED <<devices, marked, publisher, owed, outbox>>
          /\ faults' = 0 => faults = 0
      BY <1>0, <1>7, ListPendingEffect, CountEffect, BatchDiesEffect, PushEffect
    <2> QED
      BY <1>0, <2>1, BatchesKeepQueue
  <1>8. ASSUME NEW b \in Batches, WriteRow(b)
        PROVE  QueueInv'
    BY <1>0, <1>8, WriteEffect, BatchesKeepQueue DEF RowTo
  <1>9. ASSUME NEW i \in Rows, RetryFallsDue(i)
        PROVE  QueueInv'
    BY <1>0, <1>9, FallsDueEffect, BatchesKeepQueue DEF RowTo
  <1> QED
    BY <1>1, <1>2, <1>3, <1>4, <1>5, <1>6, <1>7, <1>8, <1>9, OutboxCases

-----------------------------------------------------------------------------
(* What is sent and pushed is there. *)
LEMMA PushCounted ==
    ASSUME OutboxTypeOK, NEW b \in Batches, Pushing(b) \in Pushes, PushMade(b)
    PROVE  /\ pushed'[Pushing(b)] = pushed[Pushing(b)] + 1
           /\ \A x \in Pushes \ {Pushing(b)} : pushed'[x] = pushed[x]
  BY DEF OutboxTypeOK, PushMade

LEMMA NoneAtMost == \A n \in Nat : 0 <= n /\ 0 <= n + 1
  OBVIOUS

LEMMA RowsExistStep ==
    ASSUME OutboxTypeOK, HandlersReady, RowsExist, OutboxNext
    PROVE  RowsExist'
  <1>1. ASSUME UNCHANGED <<batch, pushed>>, DOMAIN outbox \subseteq DOMAIN outbox',
               \A i \in DOMAIN outbox : outbox'[i].push = outbox[i].push
        PROVE  RowsExist'
    BY <1>1 DEF RowsExist, Queued
  <1>2. ASSUME NEW b \in Batches, NEW step, NEW todo, NEW becomes, NEW attempts,
               BatchTo(b, step, todo, becomes, attempts),
               \A e \in todo : e.row \in DOMAIN outbox,
               DOMAIN outbox' = DOMAIN outbox,
               \A i \in DOMAIN outbox : outbox'[i].push = outbox[i].push,
               \A x \in Pushes : pushed'[x] > 0 => x \in Queued
        PROVE  RowsExist'
    <2>1. Queued' = Queued
      BY <1>2 DEF Queued
    <2>2. \A c \in Batches : \A e \in batch'[c].todo : e.row \in DOMAIN outbox'
      BY <1>2 DEF BatchTo, RowsExist
    <2> QED
      BY <1>2, <2>1, <2>2 DEF RowsExist
  <1>3. ASSUME NEW d \in Devices, UpsertPushToken(d)
        PROVE  RowsExist'
    BY <1>1, <1>3 DEF UpsertPushToken, unsent
  <1>4. ASSUME NEW p \in Publishers, NEW status \in PushStatuses, ReceiveStatus(p, status)
        PROVE  RowsExist'
    BY <1>1, <1>4, ReceiveEffect
  <1>5. ASSUME NEW p \in Publishers, MarkDispatch(p) \/ ListRecipients(p) \/ PublisherDies(p)
        PROVE  RowsExist'
    BY <1>1, <1>5, MarkEffect, ListEffect, PublisherDiesEffect
  <1>6. ASSUME NEW p \in Publishers, EnqueueRow(p)
        PROVE  RowsExist'
    BY <1>1, <1>6, EnqueueEffect
  <1>7. ASSUME NEW b \in Batches, ListPending(b)
        PROVE  RowsExist'
    <2>1. PICK todo : /\ BatchTo(b, "send", todo, "PENDING", 0)
                      /\ \A e \in todo : e.row \in DOMAIN outbox
      BY <1>7, ListPendingEffect
    <2>2. UNCHANGED <<outbox, pushed>>
      BY <1>7, ListPendingEffect
    <2> QED
      BY <1>2, <2>1, <2>2 DEF RowsExist
  <1>8. ASSUME NEW b \in Batches, PushDelivered(b) \/ PushRefused(b) \/ PushAnswerLost(b)
        PROVE  RowsExist'
    <2>1. /\ UNCHANGED outbox /\ Pushing(b) \in Pushes
          /\ Entry(b).row \in DOMAIN outbox
          /\ UNCHANGED pushed \/ PushMade(b)
      BY <1>8, PushEffect
    <2>2. \E becomes : BatchTo(b, "count", batch[b].todo, becomes, batch[b].attempts)
      BY <1>8, PushEffect
    <2>3. Pushing(b) \in Queued
      BY <2>1 DEF Queued, Pushing
    <2>4. \A x \in Pushes : pushed'[x] > 0 => x \in Queued
      BY <2>1, <2>3, PushCounted DEF RowsExist
    <2> QED
      BY <1>2, <2>1, <2>2, <2>4 DEF RowsExist
  <1>9. ASSUME NEW b \in Batches, CountAttempt(b)
        PROVE  RowsExist'
    BY <1>2, <1>9, CountEffect DEF RowsExist
  <1>10. ASSUME NEW b \in Batches, WriteRow(b)
         PROVE  RowsExist'
    <2>1. PICK step \in {"idle", "send"} :
              BatchTo(b, step, batch[b].todo \ {Entry(b)}, "PENDING", 0)
      BY <1>10, WriteEffect
    <2>2. /\ UNCHANGED pushed /\ DOMAIN outbox' = DOMAIN outbox
          /\ \A i \in DOMAIN outbox : outbox'[i].push = outbox[i].push
      BY <1>10, WriteEffect DEF RowTo
    <2> QED
      BY <1>2, <2>1, <2>2 DEF RowsExist
  <1>11. ASSUME NEW b \in Batches, BatchDies(b)
         PROVE  RowsExist'
    BY <1>2, <1>11, BatchDiesEffect DEF RowsExist
  <1>12. ASSUME NEW i \in Rows, RetryFallsDue(i)
         PROVE  RowsExist'
    BY <1>1, <1>12, FallsDueEffect DEF RowTo
  <1> QED
    BY <1>3, <1>4, <1>5, <1>6, <1>7, <1>8, <1>9, <1>10, <1>11, <1>12, OutboxCases

-----------------------------------------------------------------------------
(* The batches, while they do not overlap. *)
BatchInv ==
    /\ OneBatch /\ EntriesFresh /\ OutcomeRight
    /\ \A i \in DOMAIN outbox : RowRight(i)

(* An entry is the one its batch is at as long as the batch has the same left. *)
LEMMA SameEntry ==
    ASSUME NEW b \in Batches, batch'[b].todo = batch[b].todo
    PROVE  Entry(b)' = Entry(b)
  BY DEF Entry

(* A step of the handlers, or of time, gives the batches more to do at most. *)
LEMMA HandlersKeepBatches ==
    ASSUME OutboxTypeOK, RowsExist, BatchInv, UNCHANGED <<batch, pushed>>,
           faults' = faults \/ faults' = faults + 1,
           DOMAIN outbox \subseteq DOMAIN outbox',
           \A i \in DOMAIN outbox :
              /\ outbox'[i].push = outbox[i].push /\ outbox'[i].status = outbox[i].status
              /\ outbox'[i].attempts = outbox[i].attempts,
           \A i \in DOMAIN outbox' \ DOMAIN outbox :
              /\ outbox'[i].push \in Pushes \ Queued
              /\ outbox'[i].status = "PENDING" /\ outbox'[i].attempts = 0
    PROVE  BatchInv'
  <1> USE DEF BatchInv
  <1>1. \A b \in Batches : batch'[b] = batch[b] /\ Entry(b)' = Entry(b)
    BY SameEntry
  <1>2. \A b \in Batches : Pushed(b)' = Pushed(b)
    BY <1>1 DEF Pushed
  <1>3. OneBatch'
    BY <1>1 DEF OneBatch
  <1>4. EntriesFresh'
    BY <1>1 DEF EntriesFresh, RowsExist
  <1>5. \A b \in Batches : Pushed(b) => Pushing(b)' = Pushing(b)
    <2>1. \A b \in Batches : Pushed(b) => Entry(b).row \in DOMAIN outbox
      BY EntryIsThere DEF Pushed, RowsExist
    <2> QED
      BY <1>1, <2>1 DEF Pushing
  <1>6. OutcomeRight'
    BY <1>1, <1>2, <1>5 DEF OutcomeRight
  <1>7. ASSUME NEW i \in DOMAIN outbox
        PROVE  RowRight(i)'
    <2>1. Delivering(i) => Delivering(i)'
      BY <1>1, <1>2 DEF Delivering
    <2>2. pushed[outbox[i].push] \in Nat /\ faults \in Nat
      BY OutboxShapes, RowFields DEF OutboxTypeOK
    <2>3. RowRight(i)
      OBVIOUS
    <2> QED
      BY <2>1, <2>2, <2>3 DEF RowRight
  <1>8. ASSUME NEW i \in DOMAIN outbox' \ DOMAIN outbox
        PROVE  RowRight(i)'
    <2> DEFINE x == outbox'[i].push
    <2>1. x \in Pushes /\ pushed[x] \in Nat /\ ~(pushed[x] > 0)
      BY DEF RowsExist, OutboxTypeOK
    <2>2. pushed'[x] = 0 /\ faults \in Nat /\ faults' \in Nat
      BY <2>1 DEF OutboxTypeOK
    <2>3. outbox'[i].status = "PENDING" /\ outbox'[i].attempts = 0
      OBVIOUS
    <2>4. 0 < outboxMaxAttempts
      BY DEF outboxMaxAttempts
    <2>5. 0 <= faults' /\ 0 <= faults' + 1
      BY <2>2, NoneAtMost
    <2>6. pushed'[outbox'[i].push] = 0
      BY <2>2
    <2> HIDE DEF x
    <2> QED
      BY <2>3, <2>4, <2>5, <2>6 DEF RowRight
  <1> QED
    BY <1>3, <1>4, <1>6, <1>7, <1>8

(* A step of the one batch at work. *)
LEMMA OthersRest ==
    ASSUME OutboxTypeOK, OneBatch, NEW b \in Batches,
           batch[b].step # "idle" \/ (ListPending(b) /\ ~overlapped')
    PROVE  \A c \in Batches \ {b} : batch[c].step = "idle" /\ batch[c].todo = {}
  <1>1. CASE batch[b].step # "idle"
    BY <1>1 DEF OneBatch, OutboxTypeOK
  <1>2. CASE ListPending(b) /\ ~overlapped'
    BY <1>2, ListPendingEffect DEF OutboxTypeOK
  <1> QED
    BY <1>1, <1>2

LEMMA OneBatchSteps ==
    ASSUME OutboxTypeOK, NEW b \in Batches, NEW step, NEW todo, NEW becomes, NEW attempts,
           BatchTo(b, step, todo, becomes, attempts),
           \A c \in Batches \ {b} : batch[c].step = "idle" /\ batch[c].todo = {}
    PROVE  /\ OneBatch'
           /\ \A c \in Batches : Pushed(c)' => c = b
           /\ \A c \in Batches : \A e \in batch'[c].todo : c = b /\ e \in todo
  BY DEF BatchTo, OneBatch, Pushed

LEMMA UnoverlappedStep ==
    ASSUME OutboxTypeOK, HandlersReady, OneRow, RowsExist, BatchInv, OutboxNext, ~overlapped'
    PROVE  BatchInv'
  <1> USE DEF BatchInv
  <1>0. /\ BatchInv /\ faults \in Nat /\ \A x \in Pushes : pushed[x] \in Nat
        /\ \A i \in DOMAIN outbox : /\ outbox[i].push \in Pushes
                                    /\ outbox[i].attempts \in Nat
    BY OutboxShapes, RowFields DEF OutboxTypeOK
  <1>1. ASSUME NEW d \in Devices, UpsertPushToken(d)
        PROVE  BatchInv'
    <2>1. UNCHANGED <<batch, pushed, faults, outbox>>
      BY <1>1 DEF UpsertPushToken, unsent
    <2> QED
      BY <2>1, <1>0, HandlersKeepBatches
  <1>2. ASSUME NEW p \in Publishers, NEW status \in PushStatuses, ReceiveStatus(p, status)
        PROVE  BatchInv'
    <2>1. UNCHANGED <<batch, pushed, faults, outbox>>
      BY <1>2, ReceiveEffect
    <2> QED
      BY <2>1, <1>0, HandlersKeepBatches
  <1>3. ASSUME NEW p \in Publishers, MarkDispatch(p) \/ ListRecipients(p) \/ PublisherDies(p)
        PROVE  BatchInv'
    <2>1. /\ UNCHANGED <<batch, pushed, outbox>>
          /\ faults' = faults \/ faults' = faults + 1
      BY <1>3, MarkEffect, ListEffect, PublisherDiesEffect
    <2> QED
      BY <2>1, <1>0, HandlersKeepBatches
  <1>4. ASSUME NEW p \in Publishers, EnqueueRow(p)
        PROVE  BatchInv'
    <2> DEFINE n == Len(outbox) + 1
    <2>1. PICK d \in publisher[p].recipients :
              /\ n \notin DOMAIN outbox /\ DOMAIN outbox' = DOMAIN outbox \cup {n}
              /\ outbox'[n] = NewRow(<<publisher[p].status, d>>)
              /\ \A i \in DOMAIN outbox : outbox'[i] = outbox[i]
      BY <1>4, EnqueueEffect
    <2>2. UNCHANGED <<batch, pushed, faults>> /\ publisher[p].step = "insert"
      BY <1>4, EnqueueEffect
    <2> HIDE DEF n
    <2>3. /\ outbox'[n].push = <<publisher[p].status, d>>
          /\ outbox'[n].status = "PENDING" /\ outbox'[n].attempts = 0
      BY <2>1 DEF NewRow
    <2>4. <<publisher[p].status, d>> \in Pushes \ Queued
      <3>1. publisher[p].status \in Announced /\ d \in Devices
        BY <2>2, OutboxShapes, HandlerFields DEF HandlersReady, Enqueueing, OutboxTypeOK
      <3> QED
        BY <2>2, <3>1 DEF HandlersReady, Pushes
    <2> QED
      BY <1>0, <2>1, <2>2, <2>3, <2>4, HandlersKeepBatches
  <1>5. ASSUME NEW i \in Rows, RetryFallsDue(i)
        PROVE  BatchInv'
    <2>1. UNCHANGED <<batch, pushed, faults>>
      BY <1>5, FallsDueEffect
    <2>2. /\ DOMAIN outbox' = DOMAIN outbox
          /\ \A j \in DOMAIN outbox :
                /\ outbox'[j].push = outbox[j].push /\ outbox'[j].status = outbox[j].status
                /\ outbox'[j].attempts = outbox[j].attempts
      BY <1>5, FallsDueEffect DEF RowTo
    <2> QED
      BY <1>0, <2>1, <2>2, HandlersKeepBatches
  <1>6. ASSUME NEW b \in Batches, ListPending(b)
        PROVE  BatchInv'
    <2>1. PICK todo : /\ BatchTo(b, "send", todo, "PENDING", 0)
                      /\ \A e \in todo : /\ e.row \in DOMAIN outbox
                                         /\ outbox[e.row].status = "PENDING"
                                         /\ e.attempts = outbox[e.row].attempts
      BY <1>6, ListPendingEffect
    <2>2. UNCHANGED <<outbox, pushed, faults>> /\ batch[b].step = "idle"
      BY <1>6, ListPendingEffect
    <2>3. \A c \in Batches \ {b} : batch[c].step = "idle" /\ batch[c].todo = {}
      BY <1>6, OthersRest
    <2>4. /\ OneBatch' /\ (\A c \in Batches : ~Pushed(c)' /\ ~Pushed(c))
          /\ \A c \in Batches : \A e \in batch'[c].todo : e \in todo
      BY <2>1, <2>2, <2>3, OneBatchSteps DEF Pushed, BatchTo
    <2>5. EntriesFresh'
      BY <2>1, <2>2, <2>4 DEF EntriesFresh
    <2>6. OutcomeRight'
      BY <2>4 DEF OutcomeRight
    <2>7. \A i \in DOMAIN outbox : RowRight(i)'
      BY <2>2, <2>4 DEF RowRight, Delivering
    <2> QED
      BY <2>2, <2>4, <2>5, <2>6, <2>7
  <1>7. ASSUME NEW b \in Batches, PushDelivered(b) \/ PushRefused(b) \/ PushAnswerLost(b)
        PROVE  BatchInv'
    <2> DEFINE i == Entry(b).row
    <2>1. PICK becomes \in {"DISPATCHED", Refused(b)} :
              /\ BatchTo(b, "count", batch[b].todo, becomes, batch[b].attempts)
              /\ \/ becomes = "DISPATCHED" /\ PushMade(b) /\ UNCHANGED faults
                 \/ becomes = Refused(b) /\ UNCHANGED <<pushed, faults>>
                 \/ becomes = Refused(b) /\ PushMade(b) /\ faults' = faults + 1
      BY <1>7, PushEffect
    <2>2. /\ UNCHANGED outbox /\ batch[b].step = "send" /\ Entry(b) \in batch[b].todo
          /\ i \in DOMAIN outbox /\ Pushing(b) \in Pushes
      BY <1>7, PushEffect
    <2>3. \A c \in Batches \ {b} : batch[c].step = "idle" /\ batch[c].todo = {}
      BY <2>2, OthersRest
    <2>4. /\ OneBatch' /\ (\A c \in Batches : Pushed(c)' => c = b)
          /\ \A c \in Batches : \A e \in batch'[c].todo : c = b /\ e \in batch[b].todo
      BY <2>1, <2>3, OneBatchSteps
    <2>5. /\ batch'[b].step = "count" /\ batch'[b].becomes = becomes
          /\ Entry(b)' = Entry(b) /\ Pushing(b)' = Pushing(b)
      BY <2>1, <2>2, SameEntry DEF BatchTo, Pushing
    <2>6. EntriesFresh'
      BY <2>2, <2>4 DEF EntriesFresh
    <2>7. /\ Entry(b).attempts = outbox[i].attempts /\ outbox[i].status = "PENDING"
          /\ outbox[i].attempts < outboxMaxAttempts /\ outbox[i].attempts \in Nat
          /\ outbox[i].push = Pushing(b)
      BY <1>0, <2>2 DEF EntriesFresh, RowRight, Pushing
    <2>8. ~Delivering(i) /\ \A c \in Batches : ~Pushed(c)
      BY <2>2, <2>3 DEF Delivering, Pushed
    <2>9. pushed[Pushing(b)] \in Nat /\ pushed[Pushing(b)] <= faults
      BY <1>0, <2>2, <2>7, <2>8 DEF RowRight
    <2>10. /\ pushed'[Pushing(b)] <= faults' + 1
           /\ pushed'[Pushing(b)] <= faults' \/ becomes = "DISPATCHED"
           /\ becomes = "DISPATCHED" => pushed'[Pushing(b)] > 0
           /\ \A x \in Pushes \ {Pushing(b)} : pushed'[x] = pushed[x]
           /\ faults' \in Nat /\ faults <= faults'
      <3>1. "DISPATCHED" # Refused(b)
        BY DEF Refused
      <3> QED
        BY <1>0, <2>1, <2>2, <2>9, <3>1, PushCounted
    <2>11. OutcomeRight'
      <3>1. /\ Refused(b) = "FAILED" => Entry(b).attempts + 1 >= outboxMaxAttempts
            /\ Refused(b) = "PENDING" => Entry(b).attempts + 1 < outboxMaxAttempts
            /\ Refused(b) # "DISPATCHED"
        BY <2>7 DEF Refused, outboxMaxAttempts
      <3> QED
        BY <2>1, <2>4, <2>5, <2>10, <3>1 DEF OutcomeRight
    <2>12. ASSUME NEW j \in DOMAIN outbox, j = i
           PROVE  RowRight(j)'
      <3>1. becomes = "DISPATCHED" => Delivering(j)'
        BY <2>5, <2>12 DEF Delivering, Pushed
      <3>2. /\ outbox'[j].status = "PENDING" /\ outbox'[j].push = Pushing(b)
            /\ outbox'[j].attempts < outboxMaxAttempts
        BY <2>2, <2>7, <2>12
      <3> QED
        BY <2>10, <3>1, <3>2 DEF RowRight
    <2>13. ASSUME NEW j \in DOMAIN outbox, j # i
           PROVE  RowRight(j)'
      <3>1. ~Delivering(j)
        BY <2>8 DEF Delivering
      <3>2. outbox[j].push # Pushing(b)
        BY <2>2, <2>7, <2>13 DEF OneRow
      <3>3. pushed'[outbox[j].push] = pushed[outbox[j].push] /\ outbox[j].push \in Pushes
        BY <1>0, <2>10, <3>2
      <3> QED
        BY <1>0, <2>2, <2>10, <3>1, <3>3 DEF RowRight
    <2>14. \A j \in DOMAIN outbox' : RowRight(j)'
      BY <2>2, <2>12, <2>13
    <2> QED
      BY <2>4, <2>6, <2>11, <2>14
  <1>8. ASSUME NEW b \in Batches, CountAttempt(b)
        PROVE  BatchInv'
    <2> DEFINE i == Entry(b).row
    <2>1. BatchTo(b, "write", batch[b].todo, batch[b].becomes, outbox[i].attempts + 1)
      BY <1>8, CountEffect
    <2>2. /\ UNCHANGED <<outbox, pushed, faults>> /\ batch[b].step = "count"
          /\ Entry(b) \in batch[b].todo /\ i \in DOMAIN outbox
      BY <1>8, CountEffect
    <2>3. \A c \in Batches \ {b} : batch[c].step = "idle" /\ batch[c].todo = {}
      BY <2>2, OthersRest
    <2>4. /\ OneBatch' /\ (\A c \in Batches : Pushed(c)' => c = b)
          /\ \A c \in Batches : \A e \in batch'[c].todo : c = b /\ e \in batch[b].todo
      BY <2>1, <2>3, OneBatchSteps
    <2>5. /\ batch'[b].step = "write" /\ batch'[b].becomes = batch[b].becomes
          /\ batch'[b].attempts = outbox[i].attempts + 1
          /\ Entry(b)' = Entry(b) /\ Pushing(b)' = Pushing(b)
      BY <2>1, <2>2, SameEntry DEF BatchTo, Pushing
    <2>6. EntriesFresh'
      BY <2>2, <2>4 DEF EntriesFresh
    <2>7. Entry(b).attempts = outbox[i].attempts /\ Pushed(b)
      BY <2>2 DEF EntriesFresh, Pushed
    <2>8. OutcomeRight'
      BY <2>2, <2>4, <2>5, <2>7 DEF OutcomeRight
    <2>9. ASSUME NEW j \in DOMAIN outbox
          PROVE  RowRight(j)'
      <3>1. Delivering(j) => Delivering(j)'
        BY <2>3, <2>5 DEF Delivering, Pushed
      <3> QED
        BY <2>2, <3>1 DEF RowRight
    <2> QED
      BY <2>2, <2>4, <2>6, <2>8, <2>9
  <1>9. ASSUME NEW b \in Batches, WriteRow(b)
        PROVE  BatchInv'
    <2> DEFINE i == Entry(b).row
               left == batch[b].todo \ {Entry(b)}
    <2>1. PICK step \in {"idle", "send"} : BatchTo(b, step, left, "PENDING", 0)
      BY <1>9, WriteEffect
    <2>2. /\ UNCHANGED <<pushed, faults>> /\ batch[b].step = "write"
          /\ Entry(b) \in batch[b].todo /\ i \in DOMAIN outbox
      BY <1>9, WriteEffect
    <2>3. RowTo(i, batch[b].becomes, batch[b].attempts)
      BY <1>9, WriteEffect
    <2>4. /\ DOMAIN outbox' = DOMAIN outbox
          /\ \A j \in DOMAIN outbox : outbox'[j].push = outbox[j].push
          /\ outbox'[i].status = batch[b].becomes /\ outbox'[i].attempts = batch[b].attempts
          /\ \A j \in DOMAIN outbox \ {i} : outbox'[j] = outbox[j]
      BY <2>3 DEF RowTo
    <2>5. \A c \in Batches \ {b} : batch[c].step = "idle" /\ batch[c].todo = {}
      BY <2>2, OthersRest
    <2>6. /\ OneBatch' /\ (\A c \in Batches : ~Pushed(c)')
          /\ \A c \in Batches : \A e \in batch'[c].todo : c = b /\ e \in left
      BY <2>1, <2>5, OneBatchSteps DEF BatchTo, Pushed
    <2>7. \A e \in left : e.row # i /\ e.row \in DOMAIN outbox
      <3>1. ASSUME NEW e \in left
            PROVE  e.row # i
        <4>1. /\ e \in [row : Nat, attempts : Nat] /\ Entry(b) \in [row : Nat, attempts : Nat]
          BY <2>2, OutboxShapes DEF OutboxRequests
        <4>2. e.attempts = outbox[e.row].attempts /\ Entry(b).attempts = outbox[i].attempts
          BY <2>2 DEF EntriesFresh
        <4>3. e # Entry(b)
          OBVIOUS
        <4> QED
          BY <4>1, <4>2, <4>3
      <3> QED
        BY <3>1 DEF RowsExist
    <2>8. EntriesFresh'
      BY <2>4, <2>6, <2>7 DEF EntriesFresh
    <2>9. OutcomeRight'
      BY <2>6 DEF OutcomeRight
    <2>10. ASSUME NEW j \in DOMAIN outbox, j # i
           PROVE  RowRight(j)'
      <3>1. ~Delivering(j)
        BY <2>5, <2>10 DEF Delivering, Pushed
      <3>2. outbox'[j] = outbox[j]
        BY <2>4, <2>10
      <3> QED
        BY <2>2, <3>1, <3>2 DEF RowRight
    <2>11. ASSUME NEW j \in DOMAIN outbox, j = i
           PROVE  RowRight(j)'
      <3>1. /\ Pushed(b) /\ batch[b].attempts = Entry(b).attempts + 1
            /\ batch[b].becomes = "DISPATCHED" => pushed[Pushing(b)] > 0
            /\ batch[b].becomes = "FAILED" => Entry(b).attempts + 1 >= outboxMaxAttempts
            /\ batch[b].becomes = "PENDING" => Entry(b).attempts + 1 < outboxMaxAttempts
        BY <2>2 DEF OutcomeRight, Pushed
      <3>2. /\ Entry(b).attempts = outbox[i].attempts /\ outbox[i].status = "PENDING"
            /\ outbox[i].attempts < outboxMaxAttempts /\ outbox[i].attempts \in Nat
            /\ outbox[i].push = Pushing(b)
        BY <1>0, <2>2 DEF EntriesFresh, RowRight, Pushing
      <3>3. /\ pushed[Pushing(b)] <= faults \/ Delivering(i)
            /\ pushed[Pushing(b)] <= faults + 1
        BY <2>2, <3>2 DEF RowRight
      <3>4. Delivering(i) => batch[b].becomes = "DISPATCHED"
        BY <2>5 DEF Delivering, Pushed
      <3>5. /\ batch[b].becomes = "FAILED" => batch[b].attempts = outboxMaxAttempts
            /\ batch[b].becomes = "PENDING" => batch[b].attempts < outboxMaxAttempts
        BY <3>1, <3>2 DEF outboxMaxAttempts
      <3>6. batch[b].becomes = "PENDING" => pushed[Pushing(b)] <= faults
        BY <3>3, <3>4
      <3>7. /\ outbox'[j].push = Pushing(b) /\ outbox'[j].status = batch[b].becomes
            /\ outbox'[j].attempts = batch[b].attempts
        BY <2>2, <2>4, <2>11, <3>2
      <3> QED
        BY <2>2, <3>1, <3>3, <3>5, <3>6, <3>7 DEF RowRight
    <2>12. \A j \in DOMAIN outbox' : RowRight(j)'
      BY <2>4, <2>10, <2>11
    <2> QED
      BY <2>6, <2>8, <2>9, <2>12
  <1>10. ASSUME NEW b \in Batches, BatchDies(b)
         PROVE  BatchInv'
    <2>1. BatchTo(b, "idle", {}, "PENDING", 0)
      BY <1>10, BatchDiesEffect
    <2>2. /\ UNCHANGED <<outbox, pushed>> /\ faults' = faults + 1 /\ batch[b].step # "idle"
      BY <1>10, BatchDiesEffect
    <2>3. \A c \in Batches \ {b} : batch[c].step = "idle" /\ batch[c].todo = {}
      BY <2>2, OthersRest
    <2>4. /\ OneBatch' /\ (\A c \in Batches : ~Pushed(c)')
          /\ \A c \in Batches : batch'[c].todo = {}
      BY <2>1, <2>3, OneBatchSteps DEF BatchTo, Pushed
    <2>5. EntriesFresh' /\ OutcomeRight'
      BY <2>4 DEF EntriesFresh, OutcomeRight
    <2>6. ASSUME NEW j \in DOMAIN outbox
          PROVE  RowRight(j)'
      <3>1. /\ RowRight(j) /\ pushed[outbox[j].push] \in Nat
            /\ pushed[outbox[j].push] <= faults'
        BY <1>0, <2>2 DEF RowRight
      <3> QED
        BY <1>0, <2>2, <3>1 DEF RowRight
    <2> QED
      BY <2>2, <2>4, <2>5, <2>6
  <1> QED
    BY <1>1, <1>2, <1>3, <1>4, <1>5, <1>6, <1>7, <1>8, <1>9, <1>10, OutboxCases

-----------------------------------------------------------------------------
LEMMA OutboxIInit == OutboxInit => OutboxIInv
  <1> SUFFICES ASSUME OutboxInit
               PROVE  OutboxIInv
    OBVIOUS
  <1> USE DEF OutboxInit
  <1>1. /\ outbox = <<>> /\ DOMAIN outbox = {} /\ outbox \in Seq(OutboxRows) /\ Queued = {}
    BY DEF Queued
  <1>2. \A p \in Publishers : publisher[p].step = "idle"
    BY NobodyShapes
  <1>3. \A b \in Batches : batch[b].step = "idle" /\ batch[b].todo = {}
    BY NobodyShapes
  <1>4. OutboxTypeOK
    <2>1. publisher \in [Publishers -> StatusHandlers] /\ batch \in [Batches -> OutboxRequests]
      BY NobodyShapes
    <2>2. pushed \in [Pushes -> Nat] /\ faults \in 0..MaxPushFaults
      BY OutboxOK
    <2>3. overlapped \in BOOLEAN
      BY Zenon
    <2> QED
      BY <1>1, <1>3, <2>1, <2>2, <2>3 DEF OutboxTypeOK
  <1>5. OneHandler /\ HandlersReady
    BY <1>2 DEF OneHandler, HandlersReady, Enqueueing
  <1>6. OneRow /\ OwedIsDone
    BY <1>1 DEF OneRow, OwedIsDone
  <1>7. RowsExist
    BY <1>3 DEF RowsExist
  <1>8. BatchInv
    BY <1>1, <1>3 DEF BatchInv, OneBatch, EntriesFresh, OutcomeRight, Pushed
  <1> QED
    BY <1>4, <1>5, <1>6, <1>7, <1>8 DEF OutboxIInv, BatchInv

(* Batches that overlapped are never forgotten. *)
LEMMA OverlapIsNoted ==
    ASSUME OutboxTypeOK, RowsExist, HandlersReady, OutboxNext
    PROVE  ~overlapped' => ~overlapped
  <1>1. \/ UNCHANGED overlapped
        \/ overlapped' = (overlapped \/ \E c \in Batches : batch[c].step # "idle")
    BY DEF OutboxNext, UpsertPushToken, ReceiveStatus, PublisherStep, MarkDispatch,
           ListRecipients, EnqueueRow, PublisherDies, ListPending, BatchStep, PushDelivered,
           PushRefused, PushAnswerLost, CountAttempt, WriteRow, BatchDies, RetryFallsDue, unsent
  <1> QED
    BY <1>1 DEF OutboxTypeOK

LEMMA OutboxIStep == OutboxIInv /\ [OutboxNext]_outboxVars => OutboxIInv'
  <1> SUFFICES ASSUME OutboxIInv, [OutboxNext]_outboxVars
               PROVE  OutboxIInv'
    OBVIOUS
  <1>1. CASE OutboxNext
    <2>1. OutboxTypeOK /\ QueueInv /\ RowsExist /\ (~overlapped => BatchInv)
      BY DEF OutboxIInv, QueueInv, BatchInv
    <2>2. OutboxTypeOK' /\ RowsExist' /\ QueueInv'
      BY <1>1, <2>1, OutboxTypeStep, RowsExistStep, QueueStep DEF QueueInv
    <2>3. ASSUME ~overlapped'
          PROVE  BatchInv'
      BY <1>1, <2>1, <2>3, OverlapIsNoted, UnoverlappedStep DEF QueueInv
    <2> QED
      BY <2>2, <2>3 DEF OutboxIInv, QueueInv, BatchInv
  <1>2. CASE UNCHANGED outboxVars
    <2>1. /\ OutboxTypeOK /\ QueueInv /\ RowsExist /\ (~overlapped => BatchInv)
          /\ UNCHANGED <<devices, marked, outbox, pushed, publisher, batch, faults, owed,
                        overlapped>>
      BY <1>2 DEF outboxVars, OutboxIInv, QueueInv, BatchInv
    <2>2. OutboxTypeOK' /\ Queued' = Queued
      BY <2>1 DEF OutboxTypeOK, Queued
    <2>3. QueueInv'
      BY <2>1, BatchesKeepQueue
    <2>4. RowsExist'
      BY <2>1, <2>2 DEF RowsExist
    <2>5. ASSUME ~overlapped'
          PROVE  BatchInv'
      BY <2>1, <2>5, HandlersKeepBatches
    <2> QED
      BY <2>2, <2>3, <2>4, <2>5 DEF OutboxIInv, QueueInv, BatchInv
  <1> QED
    BY <1>1, <1>2

(* The invariant of the outbox, whatever the statuses, devices, handlers,   *)
(* batches and faults.                                                      *)
THEOREM OutboxInductive == OutboxSpec => []OutboxIInv
  BY OutboxIInit, OutboxIStep, PTL DEF OutboxSpec

(* The outbox, the handlers and the batches are well formed. *)
THEOREM OutboxTypeCorrect == OutboxSpec => []OutboxTypeOK
  <1>1. OutboxIInv => OutboxTypeOK
    BY DEF OutboxIInv
  <1> QED
    BY <1>1, OutboxInductive, PTL

(* One row for each status and device, and none forgotten unless a handler  *)
(* died; and of batches that do not overlap, a push is tried thrice at most *)
(* and made once but for lost answers.                                      *)
THEOREM AlwaysNotifiedOnce == OutboxSpec => []NotifiedOnce
  <1>1. OutboxIInv => NotifiedOnce
    <2> SUFFICES ASSUME OutboxIInv
                 PROVE  NotifiedOnce
      OBVIOUS
    <2>1. QueuedOnce
      BY DEF OutboxIInv, QueuedOnce, OneRow, OwedIsDone, Queued
    <2>2. TriedAndDelivered
      BY DEF OutboxIInv, TriedAndDelivered, RowRight
    <2> QED
      BY <2>1, <2>2 DEF NotifiedOnce
  <1> QED
    BY <1>1, OutboxInductive, PTL

-----------------------------------------------------------------------------
(***************************************************************************)
(* Streams of orders: OrderStreams.                                        *)
(***************************************************************************)

OpenOnes == {s \in Streams : stream[s].phase = "open"}

(* A lease for every open stream, and none besides: the counter counts them *)
Leases ==
    /\ \A s \in Streams : stream[s].leased = (stream[s].phase = "open")
    /\ IsFiniteSet(OpenOnes)
    /\ openStreams = Cardinality(OpenOnes)

StreamsIInv == StreamsTypeOK /\ Leases

-----------------------------------------------------------------------------
(* The values the actions build. *)
LEMMA StreamNames ==
    /\ 0 \in Revisions
    /\ LastRevision \in Revisions
    /\ \A r : Terminal(r) \in BOOLEAN
  BY StreamsOK DEF Revisions, Terminal

(* Two records that are both open or both not, with the same lease. *)
SameLease(st, was) ==
    (st.phase = "open" <=> was.phase = "open") /\ st.leased = was.leased

LEMMA SendShapes ==
    \A st \in StreamRecords, r \in Revisions :
        Send(st, r) \in StreamRecords /\ SameLease(Send(st, r), st)
  <1> SUFFICES ASSUME NEW st \in StreamRecords, NEW r \in Revisions
               PROVE  Send(st, r) \in StreamRecords /\ SameLease(Send(st, r), st)
    OBVIOUS
  <1>1. (st.told \/ Terminal(r)) \in BOOLEAN
    BY DEF Terminal, StreamRecords
  <1>2. ASSUME NEW told \in BOOLEAN
        PROVE  /\ [st EXCEPT !.told = told] \in StreamRecords
               /\ SameLease([st EXCEPT !.told = told], st)
    BY DEF StreamRecords, SameLease
  <1>3. Show(st, r) = [st EXCEPT !.told = st.told \/ Terminal(r)]
    BY DEF Show
  <1> QED
    BY <1>1, <1>2, <1>3 DEF Send, SameLease

LEMMA ClosedShape ==
    \A st \in StreamRecords :
        /\ Closed(st) \in StreamRecords
        /\ Closed(st).phase = "closed" /\ Closed(st).leased = FALSE
  <1> SUFFICES ASSUME NEW st \in StreamRecords
               PROVE  /\ Closed(st) \in StreamRecords
                      /\ Closed(st).phase = "closed" /\ Closed(st).leased = FALSE
    OBVIOUS
  <1>1. ASSUME NEW set \in Streams \cup {Nobody}, NEW poll \in {"off", "timer", "asked"}
        PROVE  /\ [st EXCEPT !.phase = "closed", !.leased = FALSE, !.seen = 0,
                             !.set = set, !.poll = poll] \in StreamRecords
               /\ [st EXCEPT !.phase = "closed", !.leased = FALSE, !.seen = 0,
                             !.set = set, !.poll = poll].phase = "closed"
               /\ [st EXCEPT !.phase = "closed", !.leased = FALSE, !.seen = 0,
                             !.set = set, !.poll = poll].leased = FALSE
    BY StreamNames DEF StreamRecords
  <1> DEFINE set == IF st.set # Nobody /\ st.joining = "joined" THEN Nobody ELSE st.set
             poll == IF st.poll = "timer" THEN "off" ELSE st.poll
  <1>2. set \in Streams \cup {Nobody} /\ poll \in {"off", "timer", "asked"}
    BY DEF StreamRecords
  <1>3. Closed(st) = [st EXCEPT !.phase = "closed", !.leased = FALSE, !.seen = 0,
                                !.set = set, !.poll = poll]
    BY DEF Closed
  <1> HIDE DEF set, poll
  <1>4. /\ [st EXCEPT !.phase = "closed", !.leased = FALSE, !.seen = 0,
                       !.set = set, !.poll = poll] \in StreamRecords
        /\ [st EXCEPT !.phase = "closed", !.leased = FALSE, !.seen = 0,
                       !.set = set, !.poll = poll].phase = "closed"
        /\ [st EXCEPT !.phase = "closed", !.leased = FALSE, !.seen = 0,
                       !.set = set, !.poll = poll].leased = FALSE
    BY <1>1, <1>2
  <1> QED
    BY <1>3, <1>4

(* Its other fields change without its lease. *)
Joinings == {"no", "connect", "connecting", "subscribing", "replied", "joined"}
Polls == {"off", "timer", "asked"}
Apps == {"stream", "poll", "asked", "over"}

LEMMA FieldShapes ==
    ASSUME NEW st \in StreamRecords
    PROVE
        /\ \A joining \in Joinings :
              /\ [st EXCEPT !.joining = joining] \in StreamRecords
              /\ SameLease([st EXCEPT !.joining = joining], st)
        /\ \A joining \in Joinings, set \in Streams \cup {Nobody}, poll \in Polls :
              /\ [st EXCEPT !.joining = joining, !.set = set, !.poll = poll] \in StreamRecords
              /\ SameLease([st EXCEPT !.joining = joining, !.set = set, !.poll = poll], st)
        /\ \A poll \in Polls, r \in Revisions :
              /\ [st EXCEPT !.poll = poll, !.got = r] \in StreamRecords
              /\ SameLease([st EXCEPT !.poll = poll, !.got = r], st)
              /\ [st EXCEPT !.got = r, !.poll = poll] \in StreamRecords
              /\ SameLease([st EXCEPT !.got = r, !.poll = poll], st)
        /\ \A poll \in Polls, got \in Revisions, seen \in Revisions :
              /\ [st EXCEPT !.poll = poll, !.got = got, !.seen = seen] \in StreamRecords
              /\ SameLease([st EXCEPT !.poll = poll, !.got = got, !.seen = seen], st)
        /\ \A r \in Revisions :
              /\ [st EXCEPT !.seen = r] \in StreamRecords
              /\ SameLease([st EXCEPT !.seen = r], st)
        /\ \A app \in Apps :
              /\ [st EXCEPT !.app = app] \in StreamRecords
              /\ SameLease([st EXCEPT !.app = app], st)
        /\ \A app \in Apps, r \in Revisions :
              /\ [st EXCEPT !.app = app, !.got = r] \in StreamRecords
              /\ SameLease([st EXCEPT !.app = app, !.got = r], st)
        /\ \A app \in Apps, r \in Revisions, told \in BOOLEAN :
              /\ [st EXCEPT !.app = app, !.got = r, !.told = told] \in StreamRecords
              /\ SameLease([st EXCEPT !.app = app, !.got = r, !.told = told], st)
  <1> USE DEF StreamRecords, SameLease, Joinings, Polls, Apps
  <1>1. ASSUME NEW joining \in Joinings
        PROVE  /\ [st EXCEPT !.joining = joining] \in StreamRecords
               /\ SameLease([st EXCEPT !.joining = joining], st)
    OBVIOUS
  <1>2. ASSUME NEW joining \in Joinings, NEW set \in Streams \cup {Nobody}, NEW poll \in Polls
        PROVE  /\ [st EXCEPT !.joining = joining, !.set = set, !.poll = poll] \in StreamRecords
               /\ SameLease([st EXCEPT !.joining = joining, !.set = set, !.poll = poll], st)
    OBVIOUS
  <1>3. ASSUME NEW poll \in Polls, NEW r \in Revisions
        PROVE  /\ [st EXCEPT !.poll = poll, !.got = r] \in StreamRecords
               /\ SameLease([st EXCEPT !.poll = poll, !.got = r], st)
               /\ [st EXCEPT !.got = r, !.poll = poll] \in StreamRecords
               /\ SameLease([st EXCEPT !.got = r, !.poll = poll], st)
    OBVIOUS
  <1>4. ASSUME NEW poll \in Polls, NEW got \in Revisions, NEW seen \in Revisions
        PROVE  /\ [st EXCEPT !.poll = poll, !.got = got, !.seen = seen] \in StreamRecords
               /\ SameLease([st EXCEPT !.poll = poll, !.got = got, !.seen = seen], st)
    OBVIOUS
  <1>5. ASSUME NEW r \in Revisions
        PROVE  /\ [st EXCEPT !.seen = r] \in StreamRecords
               /\ SameLease([st EXCEPT !.seen = r], st)
    OBVIOUS
  <1>6. ASSUME NEW app \in Apps
        PROVE  /\ [st EXCEPT !.app = app] \in StreamRecords
               /\ SameLease([st EXCEPT !.app = app], st)
    OBVIOUS
  <1>7. ASSUME NEW app \in Apps, NEW r \in Revisions
        PROVE  /\ [st EXCEPT !.app = app, !.got = r] \in StreamRecords
               /\ SameLease([st EXCEPT !.app = app, !.got = r], st)
    OBVIOUS
  <1>8. ASSUME NEW app \in Apps, NEW r \in Revisions, NEW told \in BOOLEAN
        PROVE  /\ [st EXCEPT !.app = app, !.got = r, !.told = told] \in StreamRecords
               /\ SameLease([st EXCEPT !.app = app, !.got = r, !.told = told], st)
    OBVIOUS
  <1> QED
    BY <1>1, <1>2, <1>3, <1>4, <1>5, <1>6, <1>7, <1>8

LEMMA RefreshShape ==
    \A s \in Streams : stream[s] \in StreamRecords =>
        Refresh(s) \in StreamRecords /\ SameLease(Refresh(s), stream[s])
  <1> SUFFICES ASSUME NEW s \in Streams, stream[s] \in StreamRecords
               PROVE  Refresh(s) \in StreamRecords /\ SameLease(Refresh(s), stream[s])
    OBVIOUS
  <1> DEFINE st == stream[s]
             shown == IF st.got # st.seen THEN Send(st, st.got) ELSE st
  <1>1. st.got \in Revisions
    BY DEF StreamRecords
  <1>2. shown \in StreamRecords /\ SameLease(shown, st)
    BY <1>1, SendShapes DEF SameLease
  <1>3. Refresh(s) = IF st.phase # "open" THEN [st EXCEPT !.poll = "off", !.got = 0]
                     ELSE [shown EXCEPT !.poll = "timer", !.got = 0, !.seen = st.got]
    BY DEF Refresh
  <1>4. /\ [st EXCEPT !.poll = "off", !.got = 0] \in StreamRecords
        /\ SameLease([st EXCEPT !.poll = "off", !.got = 0], st)
    BY StreamNames, FieldShapes DEF Polls
  <1> HIDE DEF st, shown
  <1>5. /\ [shown EXCEPT !.poll = "timer", !.got = 0, !.seen = st.got] \in StreamRecords
        /\ SameLease([shown EXCEPT !.poll = "timer", !.got = 0, !.seen = st.got], shown)
    BY <1>1, <1>2, StreamNames, FieldShapes DEF Polls
  <1> QED
    BY <1>2, <1>3, <1>4, <1>5 DEF SameLease, st

(* A stream is admitted with its lease. *)
LEMMA AdmittedShape ==
    \A s \in Streams : stream[s] \in StreamRecords =>
        /\ Admitted(s) \in StreamRecords
        /\ Admitted(s).phase = "open" /\ Admitted(s).leased = TRUE
  <1> SUFFICES ASSUME NEW s \in Streams, stream[s] \in StreamRecords
               PROVE  /\ Admitted(s) \in StreamRecords
                      /\ Admitted(s).phase = "open" /\ Admitted(s).leased = TRUE
    OBVIOUS
  <1> DEFINE sent == Send(stream[s], stream[s].got)
             joining == IF eventBus THEN "connect" ELSE "no"
             poll == IF kind[s] = "admin" \/ ~eventBus THEN "timer" ELSE "off"
  <1>1. stream[s].got \in Revisions
    BY DEF StreamRecords
  <1>2. sent \in StreamRecords
    BY <1>1, SendShapes
  <1>3. Admitted(s) = [sent EXCEPT !.phase = "open", !.leased = TRUE, !.got = 0,
                           !.seen = stream[s].got, !.joining = joining, !.poll = poll]
    BY DEF Admitted
  <1>4. joining \in {"no", "connect"} /\ poll \in {"off", "timer"}
    OBVIOUS
  <1> HIDE DEF sent, joining, poll
  <1>5. /\ [sent EXCEPT !.phase = "open", !.leased = TRUE, !.got = 0,
                        !.seen = stream[s].got, !.joining = joining, !.poll = poll]
              \in StreamRecords
        /\ [sent EXCEPT !.phase = "open", !.leased = TRUE, !.got = 0,
                        !.seen = stream[s].got, !.joining = joining, !.poll = poll].phase = "open"
        /\ [sent EXCEPT !.phase = "open", !.leased = TRUE, !.got = 0,
                        !.seen = stream[s].got, !.joining = joining, !.poll = poll].leased = TRUE
    BY <1>1, <1>2, <1>4, StreamNames DEF StreamRecords
  <1> QED
    BY <1>3, <1>5

-----------------------------------------------------------------------------
(* The counter. *)

(* A step that opens and closes no stream. *)
LEMMA NobodyLeaves ==
    ASSUME StreamsIInv, UNCHANGED openStreams,
           \A s \in Streams : SameLease(stream'[s], stream[s])
    PROVE  Leases'
  <1>1. OpenOnes' = OpenOnes
    BY DEF OpenOnes, SameLease
  <1> QED
    BY <1>1 DEF StreamsIInv, Leases, SameLease

LEMMA SomeLeave ==
    ASSUME StreamsIInv, NEW next, NEW gone \in SUBSET Streams, Settle(next, gone),
           next \in [Streams -> StreamRecords],
           \A s \in Streams : SameLease(next[s], stream[s])
    PROVE  /\ stream' \in [Streams -> StreamRecords]
           /\ Leases'
           /\ openStreams' \in 0..MaxOpenStreams
           /\ current' \in [StreamKinds -> Streams \cup {Nobody}]
           /\ commands' \in Seq(BusCommands)
  <1> USE DEF StreamsIInv
  <1>1. /\ stream' = [s \in Streams |-> IF s \in gone THEN Closed(next[s]) ELSE next[s]]
        /\ openStreams' = openStreams - Cardinality({s \in gone : stream[s].leased})
    BY DEF Settle, Release
  <1>2. \A s \in Streams : Closed(next[s]) \in StreamRecords
    BY ClosedShape
  <1>3. stream' \in [Streams -> StreamRecords]
    BY <1>1, <1>2
  <1>4. \A s \in Streams :
            /\ s \in gone => stream'[s].phase = "closed" /\ stream'[s].leased = FALSE
            /\ s \notin gone => SameLease(stream'[s], stream[s])
    BY <1>1, ClosedShape
  <1>5. OpenOnes' = OpenOnes \ gone
    BY <1>4 DEF OpenOnes, SameLease
  <1>6. {s \in gone : stream[s].leased} = OpenOnes \cap gone
    BY DEF OpenOnes, Leases
  <1>7. /\ IsFiniteSet(OpenOnes \ gone)
        /\ Cardinality(OpenOnes \ gone) = Cardinality(OpenOnes) - Cardinality(OpenOnes \cap gone)
    BY FS_Difference DEF Leases
  <1>8. Leases'
    BY <1>1, <1>4, <1>5, <1>6, <1>7 DEF Leases, SameLease
  <1>9. openStreams' \in 0..MaxOpenStreams
    <2>1. /\ Cardinality(OpenOnes) \in Nat /\ Cardinality(OpenOnes \ gone) \in Nat
          /\ Cardinality(OpenOnes \ gone) <= Cardinality(OpenOnes)
      BY <1>7, FS_CardinalityType, FS_Subset DEF Leases
    <2>2. openStreams' = Cardinality(OpenOnes \ gone) /\ openStreams = Cardinality(OpenOnes)
      BY <1>1, <1>6, <1>7 DEF Leases
    <2> QED
      BY <2>1, <2>2, StreamsOK DEF StreamsTypeOK
  <1>10. current' \in [StreamKinds -> Streams \cup {Nobody}]
    BY DEF Settle, LeaveBus, StreamsTypeOK
  <1>11. commands' \in Seq(BusCommands)
    <2>1. CASE Emptied(gone) = {}
      BY <2>1 DEF Settle, LeaveBus, StreamsTypeOK
    <2>2. CASE Emptied(gone) # {}
      <3> DEFINE k == CHOOSE c \in Emptied(gone) : TRUE
      <3>1. k \in StreamKinds
        BY <2>2 DEF Emptied
      <3>2. Unsubscribe(k) \in BusCommands
        BY <3>1 DEF Unsubscribe, BusCommands
      <3>3. commands' = Append(commands, Unsubscribe(k))
        BY <2>2 DEF Settle, LeaveBus
      <3> QED
        BY <3>2, <3>3, AppendProperties DEF StreamsTypeOK
    <2> QED
      BY <2>1, <2>2
  <1> QED
    BY <1>3, <1>8, <1>9, <1>10, <1>11

LEMMA OneUpdated ==
    ASSUME StreamsTypeOK, NEW s \in Streams, NEW st \in StreamRecords, SameLease(st, stream[s])
    PROVE  /\ Update(s, st) \in [Streams -> StreamRecords]
           /\ \A t \in Streams : SameLease(Update(s, st)[t], stream[t])
  BY DEF Update, StreamsTypeOK, SameLease

(* What a step of the gateway does to the streams, the Sets, the commands   *)
(* and the counter.                                                         *)
LeasesKept ==
    /\ stream' \in [Streams -> StreamRecords]
    /\ current' \in [StreamKinds -> Streams \cup {Nobody}]
    /\ commands' \in Seq(BusCommands)
    /\ openStreams' \in 0..MaxOpenStreams
    /\ Leases'

LEMMA FieldsMove ==
    ASSUME StreamsIInv, UNCHANGED openStreams, NEW s \in Streams, NEW st \in StreamRecords,
           SameLease(st, stream[s]), stream' = Update(s, st),
           current' \in [StreamKinds -> Streams \cup {Nobody}], commands' \in Seq(BusCommands)
    PROVE  LeasesKept
  <1>1. StreamsTypeOK
    BY DEF StreamsIInv
  <1>2. /\ stream' \in [Streams -> StreamRecords]
        /\ \A t \in Streams : SameLease(stream'[t], stream[t])
    BY <1>1, OneUpdated
  <1> QED
    BY <1>1, <1>2, NobodyLeaves DEF LeasesKept, StreamsTypeOK

LEMMA StreamRows ==
    ASSUME StreamsTypeOK
    PROVE  /\ \A s \in Streams :
                 /\ stream[s] \in StreamRecords
                 /\ stream[s].got \in Revisions /\ stream[s].poll \in Polls
                 /\ stream[s].set \in Streams \cup {Nobody}
                 /\ kind[s] \in StreamKinds
           /\ revision \in Revisions
           /\ current \in [StreamKinds -> Streams \cup {Nobody}]
           /\ commands \in Seq(BusCommands)
  BY StreamsOK DEF StreamsTypeOK, StreamRecords, Polls

LEMMA JoinedShape ==
    ASSUME StreamsTypeOK, NEW s \in Streams, NEW maker \in Streams \cup {Nobody}
    PROVE  \E st \in StreamRecords : SameLease(st, stream[s]) /\ Joined(s, maker) = Update(s, st)
  <1> DEFINE poll == IF kind[s] = "orders" THEN Timer(stream[s]) ELSE stream[s].poll
             st == [stream[s] EXCEPT !.joining = "joined", !.set = maker, !.poll = poll]
  <1>1. poll \in Polls
    BY StreamRows DEF Timer, Polls
  <1>2. Joined(s, maker) = Update(s, st)
    BY DEF Joined
  <1> HIDE DEF poll
  <1>3. st \in StreamRecords /\ SameLease(st, stream[s])
    <2>1. "joined" \in Joinings
      BY DEF Joinings
    <2> QED
      BY <1>1, <2>1, StreamRows, FieldShapes
  <1> QED
    BY <1>2, <1>3

LEMMA JoinFailedShape ==
    ASSUME StreamsTypeOK, NEW s \in Streams
    PROVE  \E st \in StreamRecords : SameLease(st, stream[s]) /\ JoinFailed(s) = Update(s, st)
  <1> DEFINE poll == Timer(stream[s])
             st == [stream[s] EXCEPT !.joining = "no", !.set = Nobody, !.poll = poll]
  <1>1. poll \in Polls
    BY StreamRows DEF Timer, Polls
  <1>2. JoinFailed(s) = Update(s, st)
    BY DEF JoinFailed
  <1> HIDE DEF poll
  <1>3. st \in StreamRecords /\ SameLease(st, stream[s])
    <2>1. "no" \in Joinings
      BY DEF Joinings
    <2> QED
      BY <1>1, <2>1, StreamRows, FieldShapes
  <1> QED
    BY <1>2, <1>3

LEMMA Finding ==
    ASSUME StreamsIInv, NEW s \in Streams, FindHandlerSet(s), UNCHANGED openStreams
    PROVE  LeasesKept
  <1> USE DEF StreamsIInv
  <1> DEFINE k == kind[s]
  <1>1. k \in StreamKinds
    BY StreamRows
  <1>2. CASE current[k] = Nobody
    <2>1. /\ current' = [current EXCEPT ![k] = s]
          /\ commands' = Append(commands, [channel |-> k, by |-> s])
          /\ stream' = Update(s, [stream[s] EXCEPT !.joining = "subscribing"])
      BY <1>2 DEF FindHandlerSet
    <2>2. [channel |-> k, by |-> s] \in BusCommands
      BY <1>1 DEF BusCommands
    <2>3. commands' \in Seq(BusCommands)
      BY <2>1, <2>2, StreamRows, AppendProperties
    <2>4. current' \in [StreamKinds -> Streams \cup {Nobody}]
      BY <1>1, <2>1, StreamRows
    <2>5. "subscribing" \in Joinings
      BY DEF Joinings
    <2> QED
      BY <2>1, <2>3, <2>4, <2>5, FieldsMove, StreamRows, FieldShapes
  <1>3. CASE current[k] # Nobody
    <2>1. stream' = Joined(s, current[k]) /\ UNCHANGED <<current, commands>>
      BY <1>3 DEF FindHandlerSet
    <2>2. current[k] \in Streams \cup {Nobody}
      BY <1>1, StreamRows
    <2> QED
      BY <2>1, <2>2, JoinedShape, StreamRows, FieldsMove
  <1> QED
    BY <1>2, <1>3

(* The steps that open no stream and close none. *)
LEMMA Joining ==
    ASSUME StreamsIInv, NEW s \in Streams,
           JoinBus(s) \/ Connected(s) \/ AddHandler(s)
    PROVE  LeasesKept
  <1> USE StreamRows DEF StreamsIInv
  <1>1. CASE JoinBus(s)
    <2>1. UNCHANGED openStreams
      BY <1>1 DEF JoinBus
    <2>2. CASE connection = "new"
      <3>1. /\ stream' = Update(s, [stream[s] EXCEPT !.joining = "connecting"])
            /\ UNCHANGED <<commands, current>>
        BY <1>1, <2>2 DEF JoinBus
      <3>2. "connecting" \in Joinings
        BY DEF Joinings
      <3> QED
        BY <2>1, <3>1, <3>2, FieldsMove, FieldShapes
    <2>3. CASE connection = "connecting"
      <3>1. stream' = JoinFailed(s) /\ UNCHANGED <<commands, current>>
        BY <1>1, <2>3 DEF JoinBus
      <3> QED
        BY <2>1, <3>1, JoinFailedShape, FieldsMove
    <2>4. CASE connection \notin {"new", "connecting"}
      BY <1>1, <2>1, <2>4, Finding DEF JoinBus
    <2> QED
      BY <2>2, <2>3, <2>4
  <1>2. CASE Connected(s)
    <2>1. UNCHANGED openStreams
      BY <1>2 DEF Connected
    <2>2. CASE FindHandlerSet(s)
      BY <2>1, <2>2, Finding
    <2>3. CASE stream' = JoinFailed(s) /\ UNCHANGED <<current, commands>>
      BY <2>1, <2>3, JoinFailedShape, FieldsMove
    <2> QED
      BY <1>2, <2>2, <2>3 DEF Connected
  <1>3. CASE AddHandler(s)
    <2>1. stream' = Joined(s, s) /\ UNCHANGED <<current, commands, openStreams>>
      BY <1>3 DEF AddHandler, busVars
    <2> QED
      BY <2>1, JoinedShape, FieldsMove
  <1> QED
    BY <1>1, <1>2, <1>3

LEMMA RedisAnswers ==
    ASSUME StreamsIInv, RedisServes
    PROVE  LeasesKept
  <1> USE StreamRows DEF StreamsIInv
  <1> DEFINE s == Head(commands).by
  <1>1. Head(commands) \in BusCommands /\ commands' \in Seq(BusCommands)
    BY HeadTailProperties DEF RedisServes
  <1>2. UNCHANGED <<openStreams, current>>
    BY DEF RedisServes
  <1>3. CASE UNCHANGED stream
    <2>1. \A t \in Streams : SameLease(stream'[t], stream[t])
      BY <1>3 DEF SameLease
    <2> QED
      BY <1>1, <1>2, <1>3, <2>1, NobodyLeaves DEF LeasesKept, StreamsTypeOK
  <1>4. ASSUME s # Nobody
        PROVE  s \in Streams
    BY <1>1, <1>4 DEF BusCommands
  <1>5. CASE s # Nobody /\ stream' = Update(s, [stream[s] EXCEPT !.joining = "replied"])
    <2>1. "replied" \in Joinings
      BY DEF Joinings
    <2> QED
      BY <1>1, <1>2, <1>4, <1>5, <2>1, FieldsMove, FieldShapes
  <1>6. CASE s # Nobody /\ stream' = JoinFailed(s)
    BY <1>1, <1>2, <1>4, <1>6, JoinFailedShape, FieldsMove
  <1> QED
    BY <1>3, <1>5, <1>6 DEF RedisServes

(* A request whose order was fetched, or that is refused. *)
LEMMA FetchedShape ==
    ASSUME NEW st \in StreamRecords, st.phase # "open"
    PROVE  /\ \A r \in Revisions :
                 /\ [st EXCEPT !.phase = "asked", !.got = r] \in StreamRecords
                 /\ SameLease([st EXCEPT !.phase = "asked", !.got = r], st)
                 /\ [st EXCEPT !.phase = "refused", !.got = r] \in StreamRecords
                 /\ SameLease([st EXCEPT !.phase = "refused", !.got = r], st)
           /\ [st EXCEPT !.phase = "refused"] \in StreamRecords
           /\ SameLease([st EXCEPT !.phase = "refused"], st)
  <1> USE DEF StreamRecords, SameLease
  <1>1. ASSUME NEW r \in Revisions, NEW phase \in {"asked", "refused"}
        PROVE  /\ [st EXCEPT !.phase = phase, !.got = r] \in StreamRecords
               /\ SameLease([st EXCEPT !.phase = phase, !.got = r], st)
    OBVIOUS
  <1>2. /\ [st EXCEPT !.phase = "refused"] \in StreamRecords
        /\ SameLease([st EXCEPT !.phase = "refused"], st)
    OBVIOUS
  <1> QED
    BY <1>1, <1>2

LEMMA Fetching ==
    ASSUME StreamsIInv, NEW s \in Streams,
           \/ FetchForStream(s) \/ PollOrders(s) \/ FallBack(s) \/ ListOrders(s)
           \/ ShowOrders(s)
    PROVE  LeasesKept
  <1> USE StreamRows DEF StreamsIInv
  <1>1. UNCHANGED <<openStreams, current, commands>>
    BY DEF FetchForStream, PollOrders, FallBack, ListOrders, ShowOrders, busVars
  <1>2. CASE FetchForStream(s)
    <2>1. stream[s].phase # "open"
      BY <1>2 DEF FetchForStream
    <2>2. \/ stream' = Update(s, [stream[s] EXCEPT !.phase = "asked", !.got = revision])
          \/ stream' = Update(s, [stream[s] EXCEPT !.phase = "refused"])
      BY <1>2 DEF FetchForStream
    <2> QED
      BY <1>1, <2>1, <2>2, FieldsMove, FetchedShape
  <1>3. CASE PollOrders(s)
    <2>1. stream' = Update(s, [stream[s] EXCEPT !.poll = "asked", !.got = revision])
      BY <1>3 DEF PollOrders
    <2>2. "asked" \in Polls
      BY DEF Polls
    <2> QED
      BY <1>1, <2>1, <2>2, FieldsMove, FieldShapes
  <1>4. CASE FallBack(s)
    <2> DEFINE app == IF kind[s] = "order" THEN "over" ELSE "poll"
    <2>1. stream' = Update(s, [stream[s] EXCEPT !.app = app])
      BY <1>4 DEF FallBack
    <2>2. app \in Apps
      BY DEF Apps
    <2> HIDE DEF app
    <2> QED
      BY <1>1, <2>1, <2>2, FieldsMove, FieldShapes
  <1>5. CASE ListOrders(s)
    <2>1. stream' = Update(s, [stream[s] EXCEPT !.app = "asked", !.got = revision])
      BY <1>5 DEF ListOrders
    <2>2. "asked" \in Apps
      BY DEF Apps
    <2> QED
      BY <1>1, <2>1, <2>2, FieldsMove, FieldShapes
  <1>6. CASE ShowOrders(s)
    <2> DEFINE told == stream[s].told \/ Terminal(stream[s].got)
    <2>1. stream' = Update(s, [stream[s] EXCEPT !.app = "poll", !.got = 0, !.told = told])
      BY <1>6 DEF ShowOrders
    <2>2. told \in BOOLEAN /\ "poll" \in Apps
      BY DEF Apps
    <2> HIDE DEF told
    <2> QED
      BY <1>1, <2>1, <2>2, FieldsMove, FieldShapes, StreamNames
  <1> QED
    BY <1>2, <1>3, <1>4, <1>5, <1>6

(* A stream that finds capacity counts, unless its order is over already. *)
LEMMA Admission ==
    ASSUME StreamsIInv, NEW s \in Streams, AdmitStream(s)
    PROVE  LeasesKept
  <1> USE StreamRows DEF StreamsIInv
  <1> DEFINE over == kind[s] = "order" /\ Terminal(stream[s].got)
  <1>1. UNCHANGED <<current, commands>> /\ stream[s].phase # "open"
    BY DEF AdmitStream, busVars
  <1>2. stream[s].leased = FALSE /\ s \notin OpenOnes
    BY <1>1 DEF Leases, OpenOnes
  <1>3. CASE /\ stream' = Update(s, [stream[s] EXCEPT !.phase = "refused", !.got = 0])
             /\ UNCHANGED openStreams
    BY <1>1, <1>3, FieldsMove, FetchedShape, StreamNames
  <1>4. CASE /\ stream' = Update(s, [Closed(Admitted(s)) EXCEPT !.joining = "no"])
             /\ UNCHANGED openStreams
    <2>1. Closed(Admitted(s)) \in StreamRecords /\ SameLease(Closed(Admitted(s)), stream[s])
      BY <1>1, <1>2, ClosedShape, AdmittedShape DEF SameLease
    <2>2. "no" \in Joinings
      BY DEF Joinings
    <2>3. /\ [Closed(Admitted(s)) EXCEPT !.joining = "no"] \in StreamRecords
          /\ SameLease([Closed(Admitted(s)) EXCEPT !.joining = "no"], Closed(Admitted(s)))
      BY <2>1, <2>2, FieldShapes
    <2>4. SameLease([Closed(Admitted(s)) EXCEPT !.joining = "no"], stream[s])
      BY <2>1, <2>3 DEF SameLease
    <2> QED
      BY <1>1, <1>4, <2>3, <2>4, FieldsMove
  <1>5. CASE HasCapacity /\ stream' = Update(s, Admitted(s)) /\ openStreams' = openStreams + 1
    <2>1. /\ stream' \in [Streams -> StreamRecords]
          /\ stream'[s].phase = "open" /\ stream'[s].leased = TRUE
          /\ \A t \in Streams \ {s} : stream'[t] = stream[t]
      BY <1>5, AdmittedShape DEF Update, StreamsTypeOK
    <2>2. OpenOnes' = OpenOnes \cup {s}
      BY <2>1 DEF OpenOnes
    <2>3. IsFiniteSet(OpenOnes') /\ Cardinality(OpenOnes') = Cardinality(OpenOnes) + 1
      BY <1>2, <2>2, FS_AddElement DEF Leases
    <2>4. Leases'
      BY <1>5, <2>1, <2>3 DEF Leases
    <2>5. openStreams' \in 0..MaxOpenStreams
      BY <1>5, StreamsOK DEF HasCapacity, StreamsTypeOK
    <2> QED
      BY <1>1, <2>1, <2>4, <2>5 DEF LeasesKept
  <1> QED
    BY <1>3, <1>4, <1>5 DEF AdmitStream

(* The steps that may close streams: an event for all that listen, a poll,  *)
(* the app that leaves.                                                     *)
LEMMA SettledKeeps ==
    ASSUME StreamsIInv, NEW s \in Streams, NEW st \in StreamRecords, SameLease(st, stream[s]),
           NEW gone \in SUBSET {s}, Settle(Update(s, st), gone)
    PROVE  LeasesKept
  <1>1. /\ Update(s, st) \in [Streams -> StreamRecords]
        /\ \A t \in Streams : SameLease(Update(s, st)[t], stream[t])
    BY OneUpdated DEF StreamsIInv
  <1>2. gone \in SUBSET Streams
    OBVIOUS
  <1> QED
    BY <1>1, <1>2, SomeLeave DEF LeasesKept

LEMMA Closing ==
    ASSUME StreamsIInv, NEW s \in Streams,
           RefreshSnapshot(s) \/ PollFails(s) \/ LeaveStream(s)
    PROVE  LeasesKept
  <1> USE StreamRows DEF StreamsIInv
  <1>1. CASE RefreshSnapshot(s)
    <2> DEFINE gone == IF kind[s] = "order" /\ Terminal(stream[s].got) THEN {s} ELSE {}
    <2>1. Settle(Update(s, Refresh(s)), gone) /\ gone \in SUBSET {s}
      BY <1>1 DEF RefreshSnapshot
    <2>2. Refresh(s) \in StreamRecords /\ SameLease(Refresh(s), stream[s])
      BY RefreshShape
    <2> HIDE DEF gone
    <2> QED
      BY <2>1, <2>2, SettledKeeps
  <1>2. CASE PollFails(s)
    <2> DEFINE gone == IF kind[s] = "admin" THEN {} ELSE {s}
               poll == IF kind[s] = "admin" /\ stream[s].phase = "open" THEN "timer" ELSE "off"
               st == [stream[s] EXCEPT !.got = 0, !.poll = poll]
    <2>1. Settle(Update(s, st), gone) /\ gone \in SUBSET {s}
      BY <1>2 DEF PollFails
    <2>2. poll \in Polls
      BY DEF Polls
    <2> HIDE DEF poll
    <2>3. st \in StreamRecords /\ SameLease(st, stream[s])
      BY <2>2, StreamNames, FieldShapes
    <2> HIDE DEF gone, st
    <2> QED
      BY <2>1, <2>3, SettledKeeps
  <1>3. CASE LeaveStream(s)
    <2> DEFINE gone == IF stream[s].phase = "open" THEN {s} ELSE {}
               st == [stream[s] EXCEPT !.app = "over"]
    <2>1. Settle(Update(s, st), gone) /\ gone \in SUBSET {s}
      BY <1>3 DEF LeaveStream
    <2>2. st \in StreamRecords /\ SameLease(st, stream[s])
      <3>1. "over" \in Apps
        BY DEF Apps
      <3> QED
        BY <3>1, FieldShapes
    <2> HIDE DEF gone, st
    <2> QED
      BY <2>1, <2>2, SettledKeeps
  <1> QED
    BY <1>1, <1>2, <1>3

LEMMA Dispatching ==
    ASSUME StreamsIInv, Dispatch
    PROVE  LeasesKept
  <1> USE StreamRows DEF StreamsIInv
  <1> DEFINE k == Head(relayed).channel
             r == Head(relayed).revision
             To == IF current[k] = Nobody THEN {}
                   ELSE {s \in HandlersIn(current[k]) : stream[s].phase = "open"}
             Told(s) == [Send(stream[s], r) EXCEPT
                            !.seen = IF k = "order" THEN r ELSE Send(stream[s], r).seen]
             next == [s \in Streams |-> IF s \notin To THEN stream[s] ELSE Told(s)]
             gone == IF k = "order" /\ Terminal(r) THEN To ELSE {}
  <1>1. r \in Revisions
    <2>1. relayed \in Seq(Messages) /\ relayed # <<>>
      BY DEF Dispatch, StreamsTypeOK
    <2>2. Head(relayed) \in Messages
      BY <2>1, HeadTailProperties
    <2> QED
      BY <2>2 DEF Messages
  <1>2. To \in SUBSET Streams /\ gone \in SUBSET Streams
    BY DEF HandlersIn
  <1>3. Settle(next, gone)
    BY DEF Dispatch
  <1>4. \A s \in Streams : Told(s) \in StreamRecords /\ SameLease(Told(s), stream[s])
    <2> SUFFICES ASSUME NEW s \in Streams
                 PROVE  Told(s) \in StreamRecords /\ SameLease(Told(s), stream[s])
      OBVIOUS
    <2> DEFINE sent == Send(stream[s], r)
               seen == IF k = "order" THEN r ELSE sent.seen
    <2>1. sent \in StreamRecords /\ SameLease(sent, stream[s])
      BY <1>1, SendShapes
    <2>2. seen \in Revisions
      BY <1>1, <2>1 DEF StreamRecords
    <2>3. Told(s) = [sent EXCEPT !.seen = seen]
      OBVIOUS
    <2> HIDE DEF sent, seen
    <2>4. /\ [sent EXCEPT !.seen = seen] \in StreamRecords
          /\ SameLease([sent EXCEPT !.seen = seen], sent)
      BY <2>1, <2>2, FieldShapes
    <2> QED
      BY <2>1, <2>3, <2>4 DEF SameLease
  <1> HIDE DEF Told, To, gone
  <1>5. /\ next \in [Streams -> StreamRecords]
        /\ \A s \in Streams : SameLease(next[s], stream[s])
    BY <1>4 DEF SameLease
  <1> HIDE DEF next
  <1> QED
    BY <1>2, <1>3, <1>5, SomeLeave DEF LeasesKept

LEMMA LeasesStep ==
    ASSUME StreamsIInv, StreamsNext
    PROVE  LeasesKept
  <1>1. CASE SaveOrderRevision \/ \E r \in Revisions : PublishOrderEvent(r)
    <2>1. UNCHANGED <<stream, current, commands, openStreams>>
      BY <1>1 DEF SaveOrderRevision, PublishOrderEvent, busVars
    <2>2. \A s \in Streams : SameLease(stream'[s], stream[s])
      BY <2>1 DEF SameLease
    <2> QED
      BY <2>1, <2>2, NobodyLeaves DEF LeasesKept, StreamsIInv, StreamsTypeOK
  <1> QED
    BY <1>1, Fetching, Admission, Joining, RedisAnswers, Closing, Dispatching
       DEF StreamsNext, BusStep, StreamStep

(* The rest of the types: the order, its publications and the connection. *)
LEMMA FaultsCount ==
    ASSUME StreamsTypeOK, StreamFault \/ NoFault
    PROVE  streamFaults' \in 0..MaxStreamFaults
  BY StreamsOK DEF StreamFault, NoFault, StreamsTypeOK

LEMMA RelayShape ==
    ASSUME StreamsTypeOK, NEW r \in Revisions, NEW lost
    PROVE  Relay(r, lost) \in Seq(Messages)
  <1> DEFINE Passed(k) == IF k \in channels \ lost
                       THEN <<[channel |-> k, revision |-> r]>> ELSE <<>>
  <1>1. \A k \in StreamKinds : [channel |-> k, revision |-> r] \in Messages
    BY DEF Messages
  <1>2. \A k \in StreamKinds : Passed(k) \in Seq(Messages)
    BY <1>1
  <1>3. Passed("order") \in Seq(Messages) /\ Passed("orders") \in Seq(Messages)
        /\ Passed("admin") \in Seq(Messages)
    BY <1>2 DEF StreamKinds
  <1>4. Relay(r, lost) = relayed \o Passed("order") \o Passed("admin") \o Passed("orders")
    BY DEF Relay
  <1> HIDE DEF Passed
  <1>5. relayed \o Passed("order") \in Seq(Messages)
    BY <1>3, ConcatProperties DEF StreamsTypeOK
  <1>6. relayed \o Passed("order") \o Passed("admin") \in Seq(Messages)
    BY <1>3, <1>5, ConcatProperties
  <1> QED
    BY <1>3, <1>4, <1>6, ConcatProperties

LEMMA RelayedStep ==
    ASSUME StreamsTypeOK, StreamsNext
    PROVE  relayed' \in Seq(Messages)
  <1>1. CASE Dispatch
    <2>1. relayed \in Seq(Messages) /\ relayed # <<>> /\ relayed' = Tail(relayed)
      BY <1>1 DEF Dispatch, StreamsTypeOK
    <2> QED
      BY <2>1, HeadTailProperties
  <1>2. ASSUME NEW r \in Revisions, PublishOrderEvent(r)
        PROVE  relayed' \in Seq(Messages)
    BY <1>2, RelayShape DEF PublishOrderEvent, StreamsTypeOK
  <1> QED
    BY <1>1, <1>2
       DEF StreamsTypeOK, StreamsNext, BusStep, StreamStep, SaveOrderRevision, RedisServes,
           AdmitStream, JoinBus, Connected, AddHandler, PollOrders, RefreshSnapshot, FallBack,
           ListOrders, ShowOrders, FetchForStream, PollFails, LeaveStream, busVars

LEMMA SourceStep ==
    ASSUME StreamsTypeOK, StreamsNext
    PROVE  /\ kind' \in KindsOfStreams /\ eventBus' \in EventBuses
           /\ revision' \in Revisions /\ unpublished' \subseteq Revisions
  <1>1. CASE SaveOrderRevision
    <2>1. revision' \in Revisions
      BY <1>1, StreamsOK DEF SaveOrderRevision, StreamsTypeOK, Revisions
    <2> QED
      BY <1>1, <2>1 DEF SaveOrderRevision, StreamsTypeOK
  <1>2. ASSUME NEW r \in Revisions, PublishOrderEvent(r)
        PROVE  /\ kind' \in KindsOfStreams /\ eventBus' \in EventBuses
               /\ revision' \in Revisions /\ unpublished' \subseteq Revisions
    BY <1>2 DEF PublishOrderEvent, StreamsTypeOK
  <1>3. CASE UNCHANGED sourceVars
    BY <1>3 DEF sourceVars, StreamsTypeOK
  <1> QED
    BY <1>1, <1>2, <1>3
       DEF StreamsNext, BusStep, StreamStep, RedisServes, Dispatch, AdmitStream, JoinBus,
           Connected, AddHandler, PollOrders, RefreshSnapshot, FallBack, ListOrders,
           ShowOrders, FetchForStream, PollFails, LeaveStream, sourceVars

LEMMA BusStepTypes ==
    ASSUME StreamsTypeOK, StreamsNext
    PROVE  /\ connection' \in {"new", "connecting", "started"}
           /\ channels' \subseteq StreamKinds
           /\ streamFaults' \in 0..MaxStreamFaults
  <1>1. CASE RedisServes
    <2>1. commands \in Seq(BusCommands) /\ commands # <<>>
      BY <1>1 DEF RedisServes, StreamsTypeOK
    <2>2. Head(commands) \in BusCommands
      BY <2>1, HeadTailProperties
    <2> DEFINE k == Head(commands).channel
    <2>3. k \in StreamKinds
      BY <2>2 DEF BusCommands
    <2>4. channels' \in {channels, channels \ {k}, channels \cup {k}}
      BY <1>1 DEF RedisServes
    <2>5. UNCHANGED connection /\ (StreamFault \/ NoFault)
      BY <1>1 DEF RedisServes
    <2> HIDE DEF k
    <2> QED
      BY <2>3, <2>4, <2>5, FaultsCount DEF StreamsTypeOK
  <1>2. ASSUME NEW s \in Streams, JoinBus(s) \/ Connected(s)
        PROVE  /\ connection' \in {"new", "connecting", "started"}
               /\ channels' \subseteq StreamKinds
               /\ streamFaults' \in 0..MaxStreamFaults
    <2>1. UNCHANGED channels /\ (StreamFault \/ NoFault)
      BY <1>2 DEF JoinBus, Connected, NoFault
    <2>2. connection' \in {"new", "connecting", "started"}
      BY <1>2 DEF JoinBus, Connected, StreamsTypeOK
    <2> QED
      BY <2>1, <2>2, FaultsCount DEF StreamsTypeOK
  <1>3. CASE UNCHANGED <<connection, channels>> /\ (StreamFault \/ NoFault)
    BY <1>3, FaultsCount DEF StreamsTypeOK
  <1> QED
    BY <1>1, <1>2, <1>3
       DEF StreamsNext, BusStep, StreamStep, SaveOrderRevision, PublishOrderEvent, Dispatch,
           AdmitStream, AddHandler, PollOrders, RefreshSnapshot, FallBack, ListOrders,
           ShowOrders, FetchForStream, PollFails, LeaveStream, busVars, NoFault

LEMMA StreamsIStep == StreamsIInv /\ [StreamsNext]_streamVars => StreamsIInv'
  <1> SUFFICES ASSUME StreamsIInv, [StreamsNext]_streamVars PROVE StreamsIInv'
    OBVIOUS
  <1>1. CASE StreamsNext
    BY <1>1, LeasesStep, RelayedStep, SourceStep, BusStepTypes
       DEF StreamsIInv, StreamsTypeOK, LeasesKept
  <1>2. CASE UNCHANGED streamVars
    BY <1>2 DEF streamVars, sourceVars, busVars, StreamsIInv, StreamsTypeOK, Leases, OpenOnes
  <1> QED
    BY <1>1, <1>2

LEMMA StreamsIInit == StreamsInit => StreamsIInv
  <1> SUFFICES ASSUME StreamsInit PROVE StreamsIInv
    OBVIOUS
  <1> USE StreamsOK DEF StreamsInit
  <1>1. stream \in [Streams -> StreamRecords]
    BY StreamNames DEF NewStream, StreamRecords
  <1>2. StreamsTypeOK
    <2>1. current \in [StreamKinds -> Streams \cup {Nobody}]
      OBVIOUS
    <2>2. commands \in Seq(BusCommands) /\ relayed \in Seq(Messages)
      OBVIOUS
    <2> QED
      BY <1>1, <2>1, <2>2, StreamNames DEF StreamsTypeOK
  <1>3. OpenOnes = {}
    BY DEF OpenOnes, NewStream
  <1>4. Leases
    BY <1>3, FS_EmptySet DEF Leases, NewStream
  <1> QED
    BY <1>2, <1>4 DEF StreamsIInv

(* The invariant of the streams: a lease for each that is open. *)
THEOREM StreamsInductive == StreamsSpec => []StreamsIInv
  BY StreamsIInit, StreamsIStep, PTL DEF StreamsSpec

(* Type correctness of the streams, the Sets of handlers, the commands and  *)
(* the messages.                                                            *)
THEOREM StreamsTypeCorrect == StreamsSpec => []StreamsTypeOK
  <1>1. StreamsIInv => StreamsTypeOK
    BY DEF StreamsIInv
  <1> QED
    BY <1>1, StreamsInductive, PTL

(* The gateway's counter is the number of open streams, within the cap,     *)
(* however many requests there are and however often one is cleaned up      *)
(* (OrderStreamCapacityTracker).                                            *)
THEOREM CapacityAlwaysHonoured == StreamsSpec => []CapacityHonoured
  <1>1. StreamsIInv => CapacityHonoured
    BY StreamsOK DEF StreamsIInv, StreamsTypeOK, Leases, OpenOnes, CapacityHonoured
  <1> QED
    BY <1>1, StreamsInductive, PTL

-----------------------------------------------------------------------------
(* An open stream keeps its polls. What a stream with the record st, whose  *)
(* subscription is on its way or not, owes to its app:                      *)
OnItsWay(s) == \E i \in DOMAIN commands : commands[i].by = s

Polled(s, st, coming) ==
    st.phase = "open" =>
        /\ kind[s] = "admin" \/ ~eventBus => st.poll # "off"
        /\ kind[s] = "orders" =>
             \/ st.poll # "off" \/ st.joining \in {"connect", "connecting", "replied"}
             \/ st.joining = "subscribing" /\ coming
        /\ st.app = "stream" /\ st.seen = LastRevision => st.told

LEMMA PolledIsKept == KeepsPolling <=> \A s \in Streams : Polled(s, stream[s], OnItsWay(s))
  BY DEF KeepsPolling, Polled, Subscribing, OnItsWay

LEMMA PolledIsKeptNext ==
    ASSUME UNCHANGED <<kind, eventBus>>
    PROVE  KeepsPolling' <=> \A s \in Streams : Polled(s, stream'[s], OnItsWay(s)')
  BY DEF KeepsPolling, Polled, Subscribing, OnItsWay

LEMMA SourceRests ==
    ASSUME StreamsNext
    PROVE  UNCHANGED <<kind, eventBus>>
  BY DEF StreamsNext, BusStep, StreamStep, SaveOrderRevision, PublishOrderEvent, RedisServes,
         Dispatch, AdmitStream, JoinBus, Connected, AddHandler, PollOrders, RefreshSnapshot,
         FallBack, ListOrders, ShowOrders, FetchForStream, PollFails, LeaveStream, sourceVars

(* A command that is added leaves the others; one that is served, too. *)
LEMMA CommandAdded ==
    ASSUME StreamsTypeOK, NEW c \in BusCommands, commands' = Append(commands, c)
    PROVE  /\ \A s : OnItsWay(s) => OnItsWay(s)'
           /\ OnItsWay(c.by)'
  <1>1. /\ Len(commands) \in Nat /\ DOMAIN commands = 1..Len(commands)
        /\ Len(commands') = Len(commands) + 1
        /\ DOMAIN commands' = 1..(Len(commands) + 1)
        /\ \A i \in 1..Len(commands) : commands'[i] = commands[i]
        /\ commands'[Len(commands) + 1] = c
    BY AppendProperties, LenProperties DEF StreamsTypeOK
  <1> QED
    BY <1>1 DEF OnItsWay

LEMMA CommandServed ==
    ASSUME StreamsTypeOK, commands # <<>>, commands' = Tail(commands)
    PROVE  \A s : s # Head(commands).by /\ OnItsWay(s) => OnItsWay(s)'
  <1> SUFFICES ASSUME NEW s, s # Head(commands).by, OnItsWay(s)
               PROVE  OnItsWay(s)'
    OBVIOUS
  <1>1. /\ Len(commands) \in Nat /\ DOMAIN commands = 1..Len(commands)
        /\ Len(commands') = Len(commands) - 1
        /\ DOMAIN commands' = 1..(Len(commands) - 1)
        /\ \A i \in 1..(Len(commands) - 1) : commands'[i] = commands[i + 1]
        /\ Head(commands) = commands[1]
    BY HeadTailProperties, LenProperties DEF StreamsTypeOK
  <1>2. PICK i \in DOMAIN commands : commands[i].by = s
    BY DEF OnItsWay
  <1>3. i # 1
    BY <1>1, <1>2
  <1>4. i - 1 \in DOMAIN commands' /\ commands'[i - 1] = commands[i]
    BY <1>1, <1>2, <1>3
  <1> QED
    BY <1>2, <1>4 DEF OnItsWay

(* One stream's step. *)
LEMMA OnePolled ==
    ASSUME StreamsTypeOK, KeepsPolling, UNCHANGED <<kind, eventBus>>,
           NEW s \in Streams, NEW st, stream' = Update(s, st),
           \A t \in Streams \ {s} : OnItsWay(t) => OnItsWay(t)',
           Polled(s, st, OnItsWay(s)')
    PROVE  KeepsPolling'
  <1>1. stream'[s] = st /\ \A t \in Streams \ {s} : stream'[t] = stream[t]
    BY DEF Update, StreamsTypeOK
  <1>2. \A t \in Streams \ {s} : Polled(t, stream[t], OnItsWay(t)')
    BY PolledIsKept DEF Polled
  <1> QED
    BY <1>1, <1>2, PolledIsKeptNext

LEMMA CommandsRest ==
    ASSUME UNCHANGED commands
    PROVE  \A s : OnItsWay(s)' = OnItsWay(s)
  BY DEF OnItsWay

(* Streams that move, and some that are cleaned up besides. *)
LEMMA SettledPolled ==
    ASSUME StreamsTypeOK, UNCHANGED <<kind, eventBus>>,
           NEW next, NEW gone \in SUBSET Streams, Settle(next, gone),
           next \in [Streams -> StreamRecords],
           \A s \in Streams \ gone : Polled(s, next[s], OnItsWay(s))
    PROVE  KeepsPolling'
  <1>1. \A s \in Streams : OnItsWay(s) => OnItsWay(s)'
    <2>1. CASE Emptied(gone) = {}
      BY <2>1, CommandsRest DEF Settle, LeaveBus
    <2>2. CASE Emptied(gone) # {}
      <3> DEFINE k == CHOOSE c \in Emptied(gone) : TRUE
      <3>1. k \in StreamKinds
        BY <2>2 DEF Emptied
      <3>2. Unsubscribe(k) \in BusCommands
        BY <3>1 DEF Unsubscribe, BusCommands
      <3>3. commands' = Append(commands, Unsubscribe(k))
        BY <2>2 DEF Settle, LeaveBus
      <3> HIDE DEF k
      <3> QED
        BY <3>2, <3>3, CommandAdded
    <2> QED
      BY <2>1, <2>2
  <1>2. \A s \in Streams : Polled(s, stream'[s], OnItsWay(s)')
    <2> SUFFICES ASSUME NEW s \in Streams
                 PROVE  Polled(s, stream'[s], OnItsWay(s)')
      OBVIOUS
    <2>1. CASE s \in gone
      <3>1. stream'[s] = Closed(next[s])
        BY <2>1 DEF Settle
      <3>2. stream'[s].phase = "closed"
        BY <3>1, ClosedShape
      <3> QED
        BY <3>2 DEF Polled
    <2>2. CASE s \notin gone
      <3>1. stream'[s] = next[s]
        BY <2>2 DEF Settle
      <3>2. Polled(s, stream'[s], OnItsWay(s)) /\ (OnItsWay(s) => OnItsWay(s)')
        BY <1>1, <2>2, <3>1
      <3>3. OnItsWay(s) \in BOOLEAN /\ OnItsWay(s)' \in BOOLEAN
        BY DEF OnItsWay
      <3> QED
        BY <3>2, <3>3 DEF Polled
    <2> QED
      BY <2>1, <2>2
  <1> QED
    BY <1>2, PolledIsKeptNext

(* What is sent is shown by an app that reads the stream. *)
LEMMA SentIsShown ==
    ASSUME NEW st \in StreamRecords, NEW r \in Revisions
    PROVE  /\ Send(st, r).app = st.app /\ Send(st, r).phase = st.phase
           /\ Send(st, r).poll = st.poll /\ Send(st, r).joining = st.joining
           /\ Send(st, r).seen = st.seen
           /\ st.told => Send(st, r).told
           /\ st.app = "stream" /\ r = LastRevision => Send(st, r).told
  BY DEF Send, Show, Terminal, StreamRecords

(* The steps that only change fields of one stream. *)
LEMMA FieldsPolled ==
    ASSUME NEW s \in Streams, NEW st \in StreamRecords, NEW coming \in BOOLEAN,
           Polled(s, st, coming)
    PROVE  /\ \A r \in Revisions : Polled(s, [st EXCEPT !.poll = "asked", !.got = r], coming)
           /\ \A app \in Apps \ {"stream"} :
                 /\ Polled(s, [st EXCEPT !.app = app], coming)
                 /\ \A r \in Revisions : Polled(s, [st EXCEPT !.app = app, !.got = r], coming)
                 /\ \A r \in Revisions, told \in BOOLEAN :
                      Polled(s, [st EXCEPT !.app = app, !.got = r, !.told = told], coming)
           /\ \A joining \in {"connecting", "replied"}, any \in BOOLEAN :
                 Polled(s, [st EXCEPT !.joining = joining], any)
           /\ Polled(s, [st EXCEPT !.joining = "subscribing"], TRUE)
  <1> USE DEF Polled, StreamRecords
  <1>1. \A r \in Revisions : Polled(s, [st EXCEPT !.poll = "asked", !.got = r], coming)
    OBVIOUS
  <1>2. ASSUME NEW app \in Apps \ {"stream"}
        PROVE  /\ Polled(s, [st EXCEPT !.app = app], coming)
               /\ \A r \in Revisions : Polled(s, [st EXCEPT !.app = app, !.got = r], coming)
               /\ \A r \in Revisions, told \in BOOLEAN :
                    Polled(s, [st EXCEPT !.app = app, !.got = r, !.told = told], coming)
    OBVIOUS
  <1>3. ASSUME NEW joining \in {"connecting", "replied"}, NEW any \in BOOLEAN
        PROVE  Polled(s, [st EXCEPT !.joining = joining], any)
    OBVIOUS
  <1>4. Polled(s, [st EXCEPT !.joining = "subscribing"], TRUE)
    OBVIOUS
  <1> QED
    BY <1>1, <1>2, <1>3, <1>4

LEMMA AppPolled ==
    ASSUME StreamsTypeOK, KeepsPolling, StreamsNext, NEW s \in Streams,
           \/ FetchForStream(s) \/ PollOrders(s) \/ FallBack(s) \/ ListOrders(s)
           \/ ShowOrders(s)
    PROVE  KeepsPolling'
  <1> USE StreamRows, SourceRests
  <1>1. UNCHANGED commands
    BY DEF FetchForStream, PollOrders, FallBack, ListOrders, ShowOrders, busVars
  <1>2. Polled(s, stream[s], OnItsWay(s)) /\ OnItsWay(s) \in BOOLEAN
    BY PolledIsKept DEF OnItsWay
  <1>3. \A t \in Streams : OnItsWay(t)' = OnItsWay(t)
    BY <1>1, CommandsRest
  <1>4. ASSUME NEW st, stream' = Update(s, st), Polled(s, st, OnItsWay(s))
        PROVE  KeepsPolling'
    BY <1>3, <1>4, OnePolled
  <1>5. CASE FetchForStream(s)
    <2>1. PICK st : /\ stream' = Update(s, st)
                    /\ \/ st = [stream[s] EXCEPT !.phase = "asked", !.got = revision]
                       \/ st = [stream[s] EXCEPT !.phase = "refused"]
      BY <1>5 DEF FetchForStream
    <2>2. st.phase # "open"
      BY <2>1 DEF StreamRecords
    <2> QED
      BY <1>4, <2>1, <2>2 DEF Polled
  <1>6. CASE PollOrders(s)
    BY <1>2, <1>4, <1>6, FieldsPolled DEF PollOrders
  <1>7. CASE FallBack(s)
    <2> DEFINE app == IF kind[s] = "order" THEN "over" ELSE "poll"
    <2>1. stream' = Update(s, [stream[s] EXCEPT !.app = app])
      BY <1>7 DEF FallBack
    <2>2. app \in Apps \ {"stream"}
      BY DEF Apps
    <2> HIDE DEF app
    <2> QED
      BY <1>2, <1>4, <2>1, <2>2, FieldsPolled
  <1>8. CASE ListOrders(s)
    <2>1. stream' = Update(s, [stream[s] EXCEPT !.app = "asked", !.got = revision])
      BY <1>8 DEF ListOrders
    <2>2. "asked" \in Apps \ {"stream"}
      BY DEF Apps
    <2> QED
      BY <1>2, <1>4, <2>1, <2>2, FieldsPolled
  <1>9. CASE ShowOrders(s)
    <2> DEFINE told == stream[s].told \/ Terminal(stream[s].got)
    <2>1. stream' = Update(s, [stream[s] EXCEPT !.app = "poll", !.got = 0, !.told = told])
      BY <1>9 DEF ShowOrders
    <2>2. told \in BOOLEAN /\ "poll" \in Apps \ {"stream"}
      BY DEF Apps
    <2> HIDE DEF told
    <2>3. Polled(s, [stream[s] EXCEPT !.app = "poll", !.got = 0, !.told = told], OnItsWay(s))
      BY <1>2, <2>2, FieldsPolled, StreamNames
    <2> QED
      BY <1>4, <2>1, <2>3
  <1> QED
    BY <1>5, <1>6, <1>7, <1>8, <1>9

(* A subscription that failed, and one that succeeded, leave a list its     *)
(* timer.                                                                   *)
LEMMA JoinedPolled ==
    ASSUME StreamsTypeOK, NEW s \in Streams, NEW coming \in BOOLEAN,
           Polled(s, stream[s], coming)
    PROVE  /\ \E st : JoinFailed(s) = Update(s, st) /\ \A any \in BOOLEAN : Polled(s, st, any)
           /\ \A maker \in Streams \cup {Nobody} :
                \E st : Joined(s, maker) = Update(s, st) /\ \A any \in BOOLEAN : Polled(s, st, any)
  <1> USE StreamRows
  <1> DEFINE late == Timer(stream[s])
  <1>1. late \in Polls /\ (stream[s].phase = "open" => late # "off")
    BY DEF Timer, Polls
  <1>2. /\ late = stream[s].poll \/ stream[s].poll = "off"
        /\ JoinFailed(s) = Update(s, [stream[s] EXCEPT !.joining = "no", !.set = Nobody,
                                                       !.poll = late])
    BY DEF JoinFailed, Timer
  <1> HIDE DEF late
  <1>3. \A any \in BOOLEAN :
           Polled(s, [stream[s] EXCEPT !.joining = "no", !.set = Nobody, !.poll = late], any)
    BY <1>1, <1>2 DEF Polled, StreamRecords
  <1>4. ASSUME NEW maker \in Streams \cup {Nobody}
        PROVE  \E st : Joined(s, maker) = Update(s, st) /\ \A any \in BOOLEAN : Polled(s, st, any)
    <2> DEFINE poll == IF kind[s] = "orders" THEN late ELSE stream[s].poll
               st == [stream[s] EXCEPT !.joining = "joined", !.set = maker, !.poll = poll]
    <2>1. Joined(s, maker) = Update(s, st)
      BY DEF Joined, late
    <2>2. /\ poll \in Polls
          /\ kind[s] = "orders" /\ stream[s].phase = "open" => poll # "off"
          /\ stream[s].poll # "off" => poll # "off"
      BY <1>1, <1>2
    <2> HIDE DEF poll
    <2>3. \A any \in BOOLEAN : Polled(s, st, any)
      BY <2>2 DEF Polled, StreamRecords
    <2> QED
      BY <2>1, <2>3
  <1> QED
    BY <1>2, <1>3, <1>4

LEMMA FindingPolled ==
    ASSUME StreamsTypeOK, KeepsPolling, UNCHANGED <<kind, eventBus>>,
           NEW s \in Streams, FindHandlerSet(s)
    PROVE  KeepsPolling'
  <1> DEFINE k == kind[s]
  <1>1. k \in StreamKinds
    BY StreamRows
  <1>2. Polled(s, stream[s], OnItsWay(s)) /\ OnItsWay(s) \in BOOLEAN
    BY PolledIsKept DEF OnItsWay
  <1>3. CASE current[k] = Nobody
    <2>1. /\ commands' = Append(commands, [channel |-> k, by |-> s])
          /\ stream' = Update(s, [stream[s] EXCEPT !.joining = "subscribing"])
      BY <1>3 DEF FindHandlerSet
    <2>2. [channel |-> k, by |-> s] \in BusCommands
      BY <1>1 DEF BusCommands
    <2>3. (\A t : OnItsWay(t) => OnItsWay(t)') /\ OnItsWay(s)'
      BY <2>1, <2>2, CommandAdded
    <2>4. Polled(s, [stream[s] EXCEPT !.joining = "subscribing"], TRUE)
      BY <1>2, StreamRows, FieldsPolled
    <2>5. Polled(s, [stream[s] EXCEPT !.joining = "subscribing"], OnItsWay(s)')
      BY <2>3, <2>4 DEF Polled
    <2> QED
      BY <2>1, <2>3, <2>5, OnePolled
  <1>4. CASE current[k] # Nobody
    <2>1. stream' = Joined(s, current[k]) /\ UNCHANGED commands
      BY <1>4 DEF FindHandlerSet
    <2>2. current[k] \in Streams \cup {Nobody}
      BY <1>1, StreamRows
    <2>3. PICK st : stream' = Update(s, st) /\ \A any \in BOOLEAN : Polled(s, st, any)
      BY <1>2, <2>1, <2>2, JoinedPolled
    <2>4. OnItsWay(s)' \in BOOLEAN /\ \A t : OnItsWay(t)' = OnItsWay(t)
      BY <2>1, CommandsRest DEF OnItsWay
    <2> QED
      BY <2>3, <2>4, OnePolled
  <1> QED
    BY <1>3, <1>4

LEMMA JoiningPolled ==
    ASSUME StreamsTypeOK, KeepsPolling, StreamsNext, NEW s \in Streams,
           JoinBus(s) \/ Connected(s) \/ AddHandler(s)
    PROVE  KeepsPolling'
  <1> USE StreamRows, SourceRests
  <1>1. Polled(s, stream[s], OnItsWay(s)) /\ OnItsWay(s) \in BOOLEAN
    BY PolledIsKept DEF OnItsWay
  <1>2. ASSUME NEW st, stream' = Update(s, st), \A any \in BOOLEAN : Polled(s, st, any),
               UNCHANGED commands
        PROVE  KeepsPolling'
    <2>1. OnItsWay(s)' \in BOOLEAN /\ \A t : OnItsWay(t)' = OnItsWay(t)
      BY <1>2, CommandsRest DEF OnItsWay
    <2> QED
      BY <1>2, <2>1, OnePolled
  <1>3. CASE FindHandlerSet(s)
    BY <1>3, FindingPolled
  <1>4. CASE stream' = JoinFailed(s) /\ UNCHANGED commands
    BY <1>1, <1>2, <1>4, JoinedPolled
  <1>5. CASE AddHandler(s)
    <2>1. stream' = Joined(s, s) /\ UNCHANGED commands
      BY <1>5 DEF AddHandler, busVars
    <2> QED
      BY <1>1, <1>2, <2>1, JoinedPolled
  <1>6. CASE /\ stream' = Update(s, [stream[s] EXCEPT !.joining = "connecting"])
             /\ UNCHANGED commands
    BY <1>1, <1>2, <1>6, FieldsPolled
  <1>7. CASE JoinBus(s)
    BY <1>3, <1>4, <1>6, <1>7 DEF JoinBus
  <1>8. CASE Connected(s)
    BY <1>3, <1>4, <1>8 DEF Connected
  <1> QED
    BY <1>5, <1>7, <1>8

(* Redis answers the stream whose command it took. *)
LEMMA ServedPolled ==
    ASSUME StreamsTypeOK, KeepsPolling, StreamsNext, RedisServes
    PROVE  KeepsPolling'
  <1> USE StreamRows, SourceRests
  <1> SUFFICES ASSUME NEW s, s = Head(commands).by
               PROVE  KeepsPolling'
    OBVIOUS
  <1>1. Head(commands) \in BusCommands
    BY HeadTailProperties DEF RedisServes
  <1>2. \A t : t # s /\ OnItsWay(t) => OnItsWay(t)'
    BY CommandServed DEF RedisServes
  <1>3. CASE s = Nobody
    <2>1. UNCHANGED stream
      BY <1>3 DEF RedisServes
    <2>2. \A t \in Streams : OnItsWay(t) => OnItsWay(t)'
      BY <1>2, <1>3, StreamsOK
    <2>3. \A t \in Streams : Polled(t, stream'[t], OnItsWay(t)')
      BY <2>1, <2>2, PolledIsKept DEF Polled
    <2> QED
      BY <2>3, PolledIsKeptNext
  <1>4. CASE s # Nobody
    <2>1. s \in Streams
      BY <1>1, <1>4 DEF BusCommands
    <2>2. Polled(s, stream[s], OnItsWay(s)) /\ OnItsWay(s) \in BOOLEAN /\ OnItsWay(s)' \in BOOLEAN
      BY <2>1, PolledIsKept DEF OnItsWay
    <2>3. ASSUME NEW st, stream' = Update(s, st), \A any \in BOOLEAN : Polled(s, st, any)
          PROVE  KeepsPolling'
      BY <1>2, <2>1, <2>2, <2>3, OnePolled
    <2>4. CASE stream' = JoinFailed(s)
      BY <2>1, <2>2, <2>3, <2>4, JoinedPolled
    <2>5. CASE stream' = Update(s, [stream[s] EXCEPT !.joining = "replied"])
      BY <2>1, <2>2, <2>3, <2>5, FieldsPolled
    <2> QED
      BY <1>4, <2>4, <2>5 DEF RedisServes
  <1> QED
    BY <1>3, <1>4

LEMMA AdmittedPolled ==
    ASSUME StreamsTypeOK, KeepsPolling, StreamsNext, NEW s \in Streams, AdmitStream(s)
    PROVE  KeepsPolling'
  <1> USE StreamRows, SourceRests
  <1>1. UNCHANGED commands
    BY DEF AdmitStream, busVars
  <1>2. OnItsWay(s) \in BOOLEAN /\ \A t : OnItsWay(t)' = OnItsWay(t)
    BY <1>1, CommandsRest DEF OnItsWay
  <1>3. ASSUME NEW st, stream' = Update(s, st), Polled(s, st, OnItsWay(s))
        PROVE  KeepsPolling'
    BY <1>2, <1>3, OnePolled
  <1>4. CASE stream' = Update(s, [stream[s] EXCEPT !.phase = "refused", !.got = 0])
    <2>1. [stream[s] EXCEPT !.phase = "refused", !.got = 0].phase # "open"
      BY DEF StreamRecords
    <2> QED
      BY <1>3, <1>4, <2>1 DEF Polled
  <1>5. CASE stream' = Update(s, [Closed(Admitted(s)) EXCEPT !.joining = "no"])
    <2>1. [Closed(Admitted(s)) EXCEPT !.joining = "no"].phase # "open"
      <3>1. Admitted(s) \in StreamRecords
        BY AdmittedShape
      <3>2. Closed(Admitted(s)) \in StreamRecords /\ Closed(Admitted(s)).phase = "closed"
        BY <3>1, ClosedShape
      <3> QED
        BY <3>2 DEF StreamRecords
    <2> QED
      BY <1>3, <1>5, <2>1 DEF Polled
  <1>6. CASE stream' = Update(s, Admitted(s))
    <2> DEFINE sent == Send(stream[s], stream[s].got)
               joining == IF eventBus THEN "connect" ELSE "no"
               poll == IF kind[s] = "admin" \/ ~eventBus THEN "timer" ELSE "off"
    <2>1. /\ sent \in StreamRecords
          /\ sent.app = stream[s].app
          /\ sent.app = "stream" /\ stream[s].got = LastRevision => sent.told
      BY SendShapes, SentIsShown
    <2>2. Admitted(s) = [sent EXCEPT !.phase = "open", !.leased = TRUE, !.got = 0,
                             !.seen = stream[s].got, !.joining = joining, !.poll = poll]
      BY DEF Admitted
    <2>3. /\ kind[s] = "admin" \/ ~eventBus => poll # "off"
          /\ poll = "off" => joining = "connect"
      OBVIOUS
    <2> HIDE DEF sent, joining, poll
    <2>4. Polled(s, Admitted(s), OnItsWay(s))
      BY <2>1, <2>2, <2>3 DEF Polled, StreamRecords
    <2> QED
      BY <1>3, <1>6, <2>4
  <1> QED
    BY <1>4, <1>5, <1>6 DEF AdmitStream

LEMMA RefreshPolled ==
    ASSUME StreamsTypeOK, NEW s \in Streams, NEW coming \in BOOLEAN,
           Polled(s, stream[s], coming)
    PROVE  Polled(s, Refresh(s), coming)
  <1> USE StreamRows
  <1> DEFINE st == stream[s]
             shown == IF st.got # st.seen THEN Send(st, st.got) ELSE st
  <1>1. CASE st.phase # "open"
    BY <1>1, RefreshShape DEF Polled, SameLease
  <1>2. CASE st.phase = "open"
    <2>1. shown \in StreamRecords /\ shown.app = st.app
      BY SendShapes, SentIsShown
    <2>2. shown.app = "stream" /\ st.got = LastRevision => shown.told
      BY <1>2, SentIsShown DEF Polled
    <2>3. Refresh(s) = [shown EXCEPT !.poll = "timer", !.got = 0, !.seen = st.got]
      BY <1>2 DEF Refresh
    <2> HIDE DEF st, shown
    <2> QED
      BY <2>1, <2>2, <2>3 DEF Polled, StreamRecords, st
  <1> QED
    BY <1>1, <1>2

(* A stream's own step that may close it. *)
LEMMA OneSettledPolled ==
    ASSUME StreamsTypeOK, KeepsPolling, UNCHANGED <<kind, eventBus>>, NEW s \in Streams,
           NEW st \in StreamRecords, NEW gone \in SUBSET {s}, Settle(Update(s, st), gone),
           s \notin gone => Polled(s, st, OnItsWay(s))
    PROVE  KeepsPolling'
  <1>1. /\ Update(s, st) \in [Streams -> StreamRecords]
        /\ \A t \in Streams \ gone : Polled(t, Update(s, st)[t], OnItsWay(t))
    BY PolledIsKept DEF Update, StreamsTypeOK
  <1> QED
    BY <1>1, SettledPolled

LEMMA ClosingPolled ==
    ASSUME StreamsTypeOK, KeepsPolling, StreamsNext, NEW s \in Streams,
           RefreshSnapshot(s) \/ PollFails(s) \/ LeaveStream(s)
    PROVE  KeepsPolling'
  <1> USE StreamRows, SourceRests
  <1>1. Polled(s, stream[s], OnItsWay(s)) /\ OnItsWay(s) \in BOOLEAN
    BY PolledIsKept DEF OnItsWay
  <1>2. CASE RefreshSnapshot(s)
    <2> DEFINE gone == IF kind[s] = "order" /\ Terminal(stream[s].got) THEN {s} ELSE {}
    <2>1. Settle(Update(s, Refresh(s)), gone) /\ gone \in SUBSET {s}
      BY <1>2 DEF RefreshSnapshot
    <2>2. Refresh(s) \in StreamRecords /\ Polled(s, Refresh(s), OnItsWay(s))
      BY <1>1, RefreshShape, RefreshPolled
    <2> HIDE DEF gone
    <2> QED
      BY <2>1, <2>2, OneSettledPolled
  <1>3. CASE PollFails(s)
    <2> DEFINE gone == IF kind[s] = "admin" THEN {} ELSE {s}
               poll == IF kind[s] = "admin" /\ stream[s].phase = "open" THEN "timer" ELSE "off"
               st == [stream[s] EXCEPT !.got = 0, !.poll = poll]
    <2>1. Settle(Update(s, st), gone) /\ gone \in SUBSET {s}
      BY <1>3 DEF PollFails
    <2>2. /\ poll \in Polls
          /\ s \notin gone /\ stream[s].phase = "open" => poll = "timer"
      BY DEF Polls
    <2> HIDE DEF poll, gone
    <2>3. st \in StreamRecords
      BY <2>2, StreamNames, FieldShapes
    <2>4. s \notin gone => Polled(s, st, OnItsWay(s))
      BY <1>1, <2>2 DEF Polled, StreamRecords
    <2> HIDE DEF st
    <2> QED
      BY <2>1, <2>3, <2>4, OneSettledPolled
  <1>4. CASE LeaveStream(s)
    <2> DEFINE gone == IF stream[s].phase = "open" THEN {s} ELSE {}
               st == [stream[s] EXCEPT !.app = "over"]
    <2>1. Settle(Update(s, st), gone) /\ gone \in SUBSET {s}
      BY <1>4 DEF LeaveStream
    <2>2. "over" \in Apps \ {"stream"}
      BY DEF Apps
    <2>3. st \in StreamRecords /\ Polled(s, st, OnItsWay(s))
      BY <1>1, <2>2, FieldShapes, FieldsPolled
    <2> HIDE DEF gone, st
    <2> QED
      BY <2>1, <2>3, OneSettledPolled
  <1> QED
    BY <1>2, <1>3, <1>4

(* An event reaches the handlers of its channel. *)
LEMMA DispatchPolled ==
    ASSUME StreamsTypeOK, KeepsPolling, StreamsNext, Dispatch
    PROVE  KeepsPolling'
  <1> USE StreamRows, SourceRests
  <1> DEFINE k == Head(relayed).channel
             r == Head(relayed).revision
             To == IF current[k] = Nobody THEN {}
                   ELSE {s \in HandlersIn(current[k]) : stream[s].phase = "open"}
             Told(s) == [Send(stream[s], r) EXCEPT
                            !.seen = IF k = "order" THEN r ELSE Send(stream[s], r).seen]
             next == [s \in Streams |-> IF s \notin To THEN stream[s] ELSE Told(s)]
             gone == IF k = "order" /\ Terminal(r) THEN To ELSE {}
  <1>1. r \in Revisions
    <2>1. relayed \in Seq(Messages) /\ relayed # <<>>
      BY DEF Dispatch, StreamsTypeOK
    <2>2. Head(relayed) \in Messages
      BY <2>1, HeadTailProperties
    <2> QED
      BY <2>2 DEF Messages
  <1>2. To \in SUBSET Streams /\ gone \in SUBSET Streams
    BY DEF HandlersIn
  <1>3. Settle(next, gone)
    BY DEF Dispatch
  <1>4. \A s \in Streams : Told(s) \in StreamRecords /\ Polled(s, Told(s), OnItsWay(s))
    <2> SUFFICES ASSUME NEW s \in Streams
                 PROVE  Told(s) \in StreamRecords /\ Polled(s, Told(s), OnItsWay(s))
      OBVIOUS
    <2> DEFINE sent == Send(stream[s], r)
               seen == IF k = "order" THEN r ELSE sent.seen
    <2>1. /\ sent \in StreamRecords
          /\ sent.app = stream[s].app /\ sent.phase = stream[s].phase
          /\ sent.poll = stream[s].poll /\ sent.joining = stream[s].joining
          /\ sent.seen = stream[s].seen
          /\ stream[s].told => sent.told
          /\ stream[s].app = "stream" /\ r = LastRevision => sent.told
      BY <1>1, SendShapes, SentIsShown
    <2>2. seen \in Revisions /\ seen \in {r, stream[s].seen}
      BY <1>1, <2>1 DEF StreamRecords
    <2>3. Told(s) = [sent EXCEPT !.seen = seen]
      OBVIOUS
    <2>4. Polled(s, stream[s], OnItsWay(s))
      BY PolledIsKept
    <2> HIDE DEF sent, seen
    <2>5. Polled(s, [sent EXCEPT !.seen = seen], OnItsWay(s))
      BY <2>1, <2>2, <2>4 DEF Polled, StreamRecords
    <2>6. [sent EXCEPT !.seen = seen] \in StreamRecords
      BY <2>1, <2>2, FieldShapes
    <2> QED
      BY <2>3, <2>5, <2>6
  <1>5. \A s \in Streams : Polled(s, stream[s], OnItsWay(s))
    BY PolledIsKept
  <1> HIDE DEF Told, To, gone
  <1>6. /\ next \in [Streams -> StreamRecords]
        /\ \A s \in Streams : Polled(s, next[s], OnItsWay(s))
    BY <1>4, <1>5
  <1> HIDE DEF next
  <1> QED
    BY <1>2, <1>3, <1>6, SettledPolled

LEMMA PolledStep == StreamsTypeOK /\ KeepsPolling /\ [StreamsNext]_streamVars => KeepsPolling'
  <1> SUFFICES ASSUME StreamsTypeOK, KeepsPolling, [StreamsNext]_streamVars
               PROVE  KeepsPolling'
    OBVIOUS
  <1>1. CASE UNCHANGED streamVars
    BY <1>1 DEF streamVars, sourceVars, busVars, KeepsPolling, Subscribing
  <1>2. CASE StreamsNext
    <2>1. CASE SaveOrderRevision \/ \E r \in Revisions : PublishOrderEvent(r)
      <3>1. UNCHANGED <<kind, eventBus, stream, commands>>
        BY <1>2, <2>1, SourceRests DEF SaveOrderRevision, PublishOrderEvent, busVars
      <3> QED
        BY <3>1 DEF KeepsPolling, Subscribing
    <2> QED
      BY <1>2, <2>1, ServedPolled, DispatchPolled, AdmittedPolled, JoiningPolled, AppPolled,
         ClosingPolled DEF StreamsNext, BusStep, StreamStep
  <1> QED
    BY <1>1, <1>2

(* An open list, or a single order without an event bus, keeps its polls,   *)
(* whatever becomes of its subscription, for any number of streams, events, *)
(* failures and disconnects; and what was sent last its app has shown.      *)
THEOREM AlwaysKeepsPolling == StreamsSpec => []KeepsPolling
  <1>1. StreamsInit => KeepsPolling
    BY DEF StreamsInit, KeepsPolling, NewStream
  <1>2. StreamsIInv => StreamsTypeOK
    BY DEF StreamsIInv
  <1> QED
    BY <1>1, <1>2, PolledStep, StreamsInductive, PTL DEF StreamsSpec

-----------------------------------------------------------------------------
(***************************************************************************)
(* Menus: MenuImports.                                                     *)
(***************************************************************************)

Replacing(s) == imports[s].step \in {"insert", "commit"}

(* No category is there twice, and every item is in one. *)
MenuIsWhole ==
    /\ \A c, d \in categories : c.category = d.category => c = d
    /\ \A i \in items : \E c \in categories : c.category = i.category

(* What an import has deleted is there until it commits, locked; and no two *)
(* have deleted the same.                                                   *)
DeletedIsLocked ==
    \A s \in ImportSlots :
        /\ imports[s].deleted \subseteq categories \cup items
        /\ imports[s].step \in {"idle", "items", "scanned"} => imports[s].deleted = {}
        /\ imports[s].step = "categories" => imports[s].deleted \subseteq items
        /\ \A t \in ImportSlots \ {s} : imports[s].deleted \cap imports[t].deleted = {}

(* With a category it deletes the items that are in it; and what it is to   *)
(* commit has room.                                                         *)
CascadeIsComplete ==
    \A s \in ImportSlots :
        Replacing(s) =>
            /\ \A c \in categories \cap imports[s].deleted, i \in items :
                  i.category = c.category => i \in imports[s].deleted
            /\ imports[s].step = "commit" =>
                  /\ \A c \in categories \ imports[s].deleted :
                        c.category \notin CategoriesOf(imports[s].menu)
                  /\ \A t \in ImportSlots \ {s} : imports[t].step = "commit" =>
                        CategoriesOf(imports[s].menu) \cap CategoriesOf(imports[t].menu) = {}

(* Until imports overlap with nothing to lock: who replaces the menu has    *)
(* deleted all of it, and is alone; who is still to delete categories has   *)
(* seen those that are there, and if others are with it, each holds items.  *)
OneReplaces ==
    \A s \in ImportSlots :
        /\ Replacing(s) =>
              /\ categories \cup items \subseteq imports[s].deleted
              /\ \A t \in ImportSlots \ {s} :
                    ~Replacing(t) /\ imports[t].step # "categories"
        /\ imports[s].step = "categories" =>
              /\ imports[s].saw = categories
              /\ \A t \in ImportSlots \ {s} :
                    imports[t].step = "categories" => imports[s].deleted # {}

EmptyIsNoted ==
    \A s \in ImportSlots : imports[s].step = "categories" =>
        (imports[s].empty <=> imports[s].deleted = {})

OfOneImport ==
    \A c \in categories, r \in categories \cup items : r.menu \in {c.menu, Staff}

MenuIInv ==
    /\ MenuTypeOK /\ MenuIsWhole /\ DeletedIsLocked /\ CascadeIsComplete /\ EmptyIsNoted
    /\ ~scanty => OneReplaces /\ OfOneImport

LEMMA CategoryRowsKnown ==
    ASSUME NEW menu \in Menus \cup {{}}
    PROVE  /\ CategoryRows(menu) \subseteq StoredCategories
           /\ \A c \in CategoryRows(menu) : c.menu = menu /\ c.category \in CategoriesOf(menu)
           /\ \A c, d \in CategoryRows(menu) : c.category = d.category => c = d
           /\ \A k \in CategoriesOf(menu) : \E c \in CategoryRows(menu) : c.category = k
  <1>1. CategoryRows(menu) \subseteq StoredCategories
    <2>1. CASE menu \in Menus
      BY <2>1 DEF StoredCategories
    <2>2. CASE menu = {}
      <3>1. CategoriesOf(menu) = {}
        BY <2>2 DEF CategoriesOf
      <3> QED
        BY <3>1 DEF CategoryRows
    <2> QED
      BY <2>1, <2>2
  <1>2. \A c \in CategoryRows(menu) : \E k \in CategoriesOf(menu) :
           c = [category |-> k, menu |-> menu]
    BY DEF CategoryRows
  <1>3. \A c \in CategoryRows(menu) : c.menu = menu /\ c.category \in CategoriesOf(menu)
    BY <1>2
  <1>4. \A c, d \in CategoryRows(menu) : c.category = d.category => c = d
    <2> SUFFICES ASSUME NEW c \in CategoryRows(menu), NEW d \in CategoryRows(menu),
                        c.category = d.category
                 PROVE  c = d
      OBVIOUS
    <2>1. PICK k : c = [category |-> k, menu |-> menu]
      BY <1>2
    <2>2. PICK l : d = [category |-> l, menu |-> menu]
      BY <1>2
    <2>3. k = l
      BY <2>1, <2>2
    <2> QED
      BY <2>1, <2>2, <2>3
  <1>5. ASSUME NEW k \in CategoriesOf(menu)
        PROVE  \E c \in CategoryRows(menu) : c.category = k
    <2>1. [category |-> k, menu |-> menu] \in CategoryRows(menu)
      BY DEF CategoryRows
    <2>2. [category |-> k, menu |-> menu].category = k
      OBVIOUS
    <2> QED
      BY <2>1, <2>2
  <1> QED
    BY <1>1, <1>3, <1>4, <1>5

LEMMA ItemIsOfMenuOrStaff ==
    \A i : i \in StoredItems <=> (i \in StaffItems \/ \E menu \in Menus : i \in ItemRows(menu))
  <1>1. \A i : i \in ImportedItems <=> \E menu \in Menus : i \in ItemRows(menu)
    BY DEF ImportedItems
  <1> QED
    BY <1>1 DEF StoredItems

LEMMA ItemRowsKnown ==
    ASSUME NEW menu \in Menus \cup {{}}
    PROVE  /\ ItemRows(menu) \subseteq StoredItems
           /\ \A i \in ItemRows(menu) : i.menu = menu /\ i.category \in CategoriesOf(menu)
  <1>1. ItemRows(menu) \subseteq StoredItems
    <2>1. CASE menu \in Menus
      BY <2>1, ItemIsOfMenuOrStaff
    <2>2. CASE menu = {}
      BY <2>2 DEF ItemRows
    <2> QED
      BY <2>1, <2>2
  <1>2. \A i \in ItemRows(menu) : i.menu = menu /\ i.category \in CategoriesOf(menu)
    BY DEF ItemRows, CategoriesOf
  <1> QED
    BY <1>1, <1>2

LEMMA StaffItemKnown ==
    ASSUME NEW row \in StoredCategories, NEW i,
           i = [item |-> Special, category |-> row.category, menu |-> Staff]
    PROVE  i \in StoredItems /\ i.category = row.category /\ i.menu = Staff
  <1>1. row.category \in UNION {CategoriesOf(menu) : menu \in Menus}
    BY DEF StoredCategories, CategoryRows
  <1>2. i \in StaffItems
    BY <1>1 DEF StaffItems
  <1> QED
    BY <1>2, ItemIsOfMenuOrStaff

LEMMA ItemsAreNoCategories == StoredCategories \cap StoredItems = {}
  <1>1. \A c \in StoredCategories : "item" \notin DOMAIN c
    BY DEF StoredCategories, CategoryRows
  <1>2. ASSUME NEW i \in StoredItems
        PROVE  "item" \in DOMAIN i
    <2>1. CASE \E menu \in Menus : i \in ItemRows(menu)
      BY <2>1 DEF ItemRows
    <2>2. CASE i \in StaffItems
      BY <2>2 DEF StaffItems
    <2> QED
      BY <2>1, <2>2, ItemIsOfMenuOrStaff
  <1> QED
    BY <1>1, <1>2

(* Imports. *)
LEMMA ImportShape ==
    ASSUME NEW x \in Imports
    PROVE  /\ x.step \in {"idle", "items", "scanned", "categories", "insert", "commit"}
           /\ x.menu \in Menus \cup {{}} /\ x.saw \subseteq MenuRows /\ x.deleted \subseteq MenuRows
           /\ x.empty \in BOOLEAN
  BY DEF Imports

LEMMA NoImportShape ==
    /\ NoImport \in Imports /\ NoImport.step = "idle" /\ NoImport.deleted = {}
    /\ \A menu \in Menus \cup {{}} :
          /\ [NoImport EXCEPT !.step = "items", !.menu = menu] \in Imports
          /\ [NoImport EXCEPT !.step = "items", !.menu = menu].step = "items"
          /\ [NoImport EXCEPT !.step = "items", !.menu = menu].deleted = {}
  BY DEF NoImport, Imports

(* The import goes on to another step, with what it has seen and deleted. *)
MovesTo(s, p, saw, rows, e) ==
    /\ imports' \in [ImportSlots -> Imports]
    /\ imports'[s].step = p /\ imports'[s].menu = imports[s].menu
    /\ imports'[s].saw = saw /\ imports'[s].deleted = rows /\ imports'[s].empty = e
    /\ \A t \in ImportSlots \ {s} : imports'[t] = imports[t]

LEMMA ImportMoves ==
    ASSUME MenuTypeOK, NEW s \in ImportSlots,
           NEW p \in {"idle", "items", "scanned", "categories", "insert", "commit"},
           NEW saw \in SUBSET MenuRows, NEW rows \in SUBSET MenuRows, NEW e \in BOOLEAN,
           imports' = [imports EXCEPT ![s] =
               [imports[s] EXCEPT !.step = p, !.saw = saw, !.deleted = rows, !.empty = e]]
    PROVE  MovesTo(s, p, saw, rows, e)
  <1>1. imports \in [ImportSlots -> Imports] /\ imports[s] \in Imports
    BY DEF MenuTypeOK
  <1>2. PICK y : y = [imports[s] EXCEPT !.step = p, !.saw = saw, !.deleted = rows, !.empty = e]
    OBVIOUS
  <1>3. /\ y \in Imports /\ y.step = p /\ y.menu = imports[s].menu /\ y.saw = saw
        /\ y.deleted = rows /\ y.empty = e
    BY <1>1, <1>2 DEF Imports
  <1>4. imports' = [imports EXCEPT ![s] = y]
    BY <1>2
  <1>5. /\ imports' \in [ImportSlots -> Imports] /\ imports'[s] = y
        /\ \A t \in ImportSlots \ {s} : imports'[t] = imports[t]
    BY <1>1, <1>3, <1>4
  <1> QED
    BY <1>3, <1>5 DEF MovesTo

(* What a record of which some fields change is, all fields told. *)
LEMMA FieldsKept ==
    ASSUME NEW x \in Imports, NEW p, NEW saw, NEW rows
    PROVE  /\ [x EXCEPT !.step = p] =
                 [x EXCEPT !.step = p, !.saw = x.saw, !.deleted = x.deleted, !.empty = x.empty]
           /\ [[x EXCEPT !.step = p] EXCEPT !.saw = saw] =
                 [x EXCEPT !.step = p, !.saw = saw, !.deleted = x.deleted, !.empty = x.empty]
           /\ [[[x EXCEPT !.step = p] EXCEPT !.saw = saw] EXCEPT !.deleted = rows] =
                 [x EXCEPT !.step = p, !.saw = saw, !.deleted = rows, !.empty = x.empty]
  BY DEF Imports

LEMMA ImportSteps ==
    ASSUME MenuTypeOK, NEW s \in ImportSlots
    PROVE  /\ ScanItems(s) =>
                 MovesTo(s, "scanned", items, imports[s].deleted, imports[s].empty)
           /\ DeleteItems(s) =>
                 MovesTo(s, "categories", categories, imports[s].saw \cap items,
                         imports[s].saw \cap items = {})
           /\ DeleteCategories(s) =>
                 MovesTo(s, "insert", {}, imports[s].deleted \cup Cascade(s), imports[s].empty)
           /\ InsertMenu(s) =>
                 MovesTo(s, "commit", imports[s].saw, imports[s].deleted, imports[s].empty)
  <1>1. PICK x \in Imports : x = imports[s]
    BY DEF MenuTypeOK
  <1>2. /\ x.saw \subseteq MenuRows /\ x.deleted \subseteq MenuRows /\ x.empty \in BOOLEAN
        /\ categories \subseteq MenuRows /\ items \subseteq MenuRows
    BY ImportShape DEF MenuTypeOK, MenuRows
  <1>3. ASSUME ScanItems(s)
        PROVE  MovesTo(s, "scanned", items, x.deleted, x.empty)
    <2>1. imports' = [imports EXCEPT ![s] = [[imports[s] EXCEPT !.step = "scanned"]
                                                 EXCEPT !.saw = items]]
      BY <1>3 DEF ScanItems
    <2>2. [[x EXCEPT !.step = "scanned"] EXCEPT !.saw = items] =
             [x EXCEPT !.step = "scanned", !.saw = items, !.deleted = x.deleted, !.empty = x.empty]
      BY FieldsKept
    <2>3. imports' = [imports EXCEPT ![s] =
             [x EXCEPT !.step = "scanned", !.saw = items, !.deleted = x.deleted, !.empty = x.empty]]
      BY <1>1, <2>1, <2>2
    <2> QED
      BY <1>1, <1>2, <2>3, ImportMoves
  <1>4. ASSUME DeleteItems(s)
        PROVE  MovesTo(s, "categories", categories, x.saw \cap items, x.saw \cap items = {})
    <2>1. imports' = [imports EXCEPT ![s] =
             [x EXCEPT !.step = "categories", !.saw = categories, !.deleted = x.saw \cap items,
                       !.empty = (x.saw \cap items = {})]]
      BY <1>1, <1>4 DEF DeleteItems
    <2>2. x.saw \cap items \in SUBSET MenuRows /\ (x.saw \cap items = {}) \in BOOLEAN
      BY <1>2
    <2> QED
      BY <1>1, <1>2, <2>1, <2>2, ImportMoves
  <1>5. ASSUME DeleteCategories(s)
        PROVE  MovesTo(s, "insert", {}, x.deleted \cup Cascade(s), x.empty)
    <2>1. PICK rows : rows = x.deleted \cup Cascade(s)
      OBVIOUS
    <2>2. rows \in SUBSET MenuRows
      BY <1>2, <2>1 DEF Cascade
    <2>3. imports' = [imports EXCEPT ![s] =
             [[[imports[s] EXCEPT !.step = "insert"] EXCEPT !.saw = {}] EXCEPT !.deleted = rows]]
      BY <1>1, <1>5, <2>1 DEF DeleteCategories
    <2>4. [[[x EXCEPT !.step = "insert"] EXCEPT !.saw = {}] EXCEPT !.deleted = rows] =
             [x EXCEPT !.step = "insert", !.saw = {}, !.deleted = rows, !.empty = x.empty]
      BY FieldsKept
    <2>5. imports' = [imports EXCEPT ![s] =
             [x EXCEPT !.step = "insert", !.saw = {}, !.deleted = rows, !.empty = x.empty]]
      BY <1>1, <2>3, <2>4
    <2>6. {} \in SUBSET MenuRows
      OBVIOUS
    <2>7. MovesTo(s, "insert", {}, rows, x.empty)
      BY <1>1, <1>2, <2>2, <2>5, <2>6, ImportMoves
    <2> QED
      BY <2>1, <2>7
  <1>6. ASSUME InsertMenu(s)
        PROVE  MovesTo(s, "commit", x.saw, x.deleted, x.empty)
    <2>1. imports' = [imports EXCEPT ![s] = [imports[s] EXCEPT !.step = "commit"]]
      BY <1>6 DEF InsertMenu
    <2>2. [x EXCEPT !.step = "commit"] =
             [x EXCEPT !.step = "commit", !.saw = x.saw, !.deleted = x.deleted, !.empty = x.empty]
      BY FieldsKept
    <2>3. imports' = [imports EXCEPT ![s] =
             [x EXCEPT !.step = "commit", !.saw = x.saw, !.deleted = x.deleted, !.empty = x.empty]]
      BY <1>1, <2>1, <2>2
    <2> QED
      BY <1>1, <1>2, <2>3, ImportMoves
  <1> QED
    BY <1>1, <1>3, <1>4, <1>5, <1>6

(* The steps between imports; and the numbers that only count. *)
LEMMA CountsOK ==
    ASSUME MenuTypeOK, MenuNext
    PROVE  /\ source' \in Menus /\ sourceEdits' \in 0..MaxSourceEdits
           /\ importFaults' \in 0..MaxImportFaults
           /\ scanty' \in BOOLEAN /\ (~scanty' => ~scanty)
  <1>1. source' \in Menus /\ sourceEdits' \in 0..MaxSourceEdits
    <2>1. CASE UNCHANGED <<source, sourceEdits>>
      BY <2>1 DEF MenuTypeOK
    <2>2. CASE \E menu \in Menus : SourceChanges(menu)
      BY <2>2, ImportsOK DEF MenuTypeOK, SourceChanges
    <2> QED
      BY <2>1, <2>2 DEF MenuNext, SyncStep, StartCycle, FetchMenu, PutMenu, LoseAnswer,
         ImportStep, ScanItems, DeleteItems, DeleteCategories, InsertMenu, CommitMenu,
         ImportFails, CreateItem, DeleteItem, StaffEdit
  <1>2. importFaults' \in 0..MaxImportFaults
    <2>1. UNCHANGED importFaults \/ ImportFault
      BY DEF MenuNext, SyncStep, StartCycle, FetchMenu, PutMenu, LoseAnswer,
         ImportStep, ScanItems, DeleteItems, DeleteCategories, InsertMenu, CommitMenu,
         ImportFails, CreateItem, DeleteItem, StaffEdit, SourceChanges, AttemptFailed
    <2> QED
      BY <2>1, ImportsOK DEF MenuTypeOK, ImportFault
  <1>3. scanty' \in BOOLEAN /\ (~scanty' => ~scanty)
    BY DEF MenuTypeOK, MenuNext, SyncStep, StartCycle, FetchMenu, PutMenu, LoseAnswer,
       ImportStep, ScanItems, DeleteItems, DeleteCategories, InsertMenu, CommitMenu,
       ImportFails, CreateItem, DeleteItem, StaffEdit, SourceChanges
  <1> QED
    BY <1>1, <1>2, <1>3

LEMMA CycleShape ==
    ASSUME NEW x \in Cycles
    PROVE  /\ x.attempt \in 0..MaxRetries + 1
           /\ [x EXCEPT !.at = "put", !.menu = source] \in Cycles \/ source \notin Menus
           /\ \A s \in ImportSlots : [x EXCEPT !.at = "waiting", !.slot = s] \in Cycles
           /\ \A n \in 0..MaxRetries + 1 : [Resting EXCEPT !.at = "fetch", !.attempt = n] \in Cycles
           /\ Resting \in Cycles /\ x.menu \in Menus \cup {{}}
  <1>1. MaxRetries \in Nat
    BY ImportsOK
  <1>2. Resting \in Cycles
    BY <1>1 DEF Cycles, Resting
  <1>3. x.attempt \in 0..MaxRetries + 1 /\ x.menu \in Menus \cup {{}}
    BY DEF Cycles
  <1>4. source \in Menus => [x EXCEPT !.at = "put", !.menu = source] \in Cycles
    BY DEF Cycles
  <1>5. \A s \in ImportSlots : [x EXCEPT !.at = "waiting", !.slot = s] \in Cycles
    BY DEF Cycles
  <1>6. \A n \in 0..MaxRetries + 1 : [Resting EXCEPT !.at = "fetch", !.attempt = n] \in Cycles
    BY DEF Cycles, Resting
  <1> QED
    BY <1>2, <1>3, <1>4, <1>5, <1>6

LEMMA WorkerOK ==
    ASSUME MenuTypeOK, MenuNext
    PROVE  sync' \in Cycles
  <1>1. sync \in Cycles /\ source \in Menus /\ MaxRetries \in Nat
    BY ImportsOK DEF MenuTypeOK
  <1>2. Resting \in Cycles
    BY <1>1, CycleShape
  <1>3. ASSUME NEW fault \in BOOLEAN, AttemptFailed(fault)
        PROVE  sync' \in Cycles
    <2>1. CASE sync.attempt <= MaxRetries
      <3>1. PICK n : n = sync.attempt + 1
        OBVIOUS
      <3>2. n \in 0..MaxRetries + 1
        <4>1. sync.attempt \in 0..MaxRetries + 1
          BY <1>1, CycleShape
        <4> QED
          BY <1>1, <2>1, <3>1, <4>1
      <3>3. sync' = [Resting EXCEPT !.at = "fetch", !.attempt = n]
        BY <1>3, <2>1, <3>1 DEF AttemptFailed
      <3> QED
        BY <1>1, <3>2, <3>3, CycleShape
    <2>2. CASE ~(sync.attempt <= MaxRetries)
      BY <1>2, <1>3, <2>2 DEF AttemptFailed
    <2> QED
      BY <2>1, <2>2
  <1>4. CASE SyncStep
    <2>1. CASE StartCycle
      <3>1. 1 \in 0..MaxRetries + 1
        BY <1>1
      <3>2. sync' = [Resting EXCEPT !.at = "fetch", !.attempt = 1]
        BY <2>1 DEF StartCycle
      <3> QED
        BY <1>1, <3>1, <3>2, CycleShape
    <2>2. CASE FetchMenu
      BY <1>1, <1>3, <2>2, CycleShape DEF FetchMenu
    <2>3. CASE \E s \in ImportSlots : PutMenu(s)
      BY <1>1, <2>3, CycleShape DEF PutMenu
    <2> QED
      BY <1>4, <2>1, <2>2, <2>3 DEF SyncStep
  <1>5. CASE LoseAnswer
    BY <1>3, <1>5 DEF LoseAnswer
  <1>6. ASSUME NEW s \in ImportSlots, ImportStep(s) \/ ImportFails(s)
        PROVE  sync' \in Cycles
    <2>1. UNCHANGED sync \/ sync' = Resting \/ \E fault \in BOOLEAN : AttemptFailed(fault)
      <3>1. CASE ImportFails(s)
        <4>1. (~ImportRefused(s)) \in BOOLEAN
          OBVIOUS
        <4> QED
          BY <3>1, <4>1 DEF ImportFails
      <3>2. CASE CommitMenu(s)
        BY <3>2 DEF CommitMenu, ImportEnds
      <3> QED
        BY <1>6, <3>1, <3>2 DEF ImportStep, ScanItems, DeleteItems, DeleteCategories, InsertMenu
    <2> QED
      BY <1>1, <1>2, <1>3, <2>1
  <1>7. CASE \/ \E row \in categories : CreateItem(row)
             \/ \E i \in items : DeleteItem(i)
             \/ \E menu \in Menus : SourceChanges(menu)
    BY <1>1, <1>7 DEF CreateItem, DeleteItem, SourceChanges, StaffEdit
  <1> QED
    BY <1>4, <1>5, <1>6, <1>7 DEF MenuNext

LEMMA MenuIInit == MenuInit => MenuIInv
  <1> SUFFICES ASSUME MenuInit PROVE MenuIInv
    OBVIOUS
  <1> USE DEF MenuInit
  <1>1. /\ imports \in [ImportSlots -> Imports]
        /\ \A s \in ImportSlots : imports[s].step = "idle" /\ imports[s].deleted = {}
    BY NoImportShape
  <1>2. sync \in Cycles
    <2>1. 0 \in 0..MaxRetries + 1
      BY ImportsOK
    <2> QED
      BY <2>1 DEF Cycles, Resting
  <1>3. MenuTypeOK
    <2>1. sourceEdits \in 0..MaxSourceEdits /\ importFaults \in 0..MaxImportFaults
      BY ImportsOK
    <2>2. scanty \in BOOLEAN
      BY Zenon
    <2>3. source \in Menus /\ categories \subseteq StoredCategories /\ items \subseteq StoredItems
      OBVIOUS
    <2> QED
      BY <1>1, <1>2, <2>1, <2>2, <2>3 DEF MenuTypeOK
  <1>4. MenuIsWhole /\ DeletedIsLocked /\ CascadeIsComplete /\ EmptyIsNoted
    BY <1>1 DEF MenuIsWhole, DeletedIsLocked, CascadeIsComplete, EmptyIsNoted, Replacing
  <1>5. OneReplaces /\ OfOneImport
    BY <1>1 DEF OneReplaces, OfOneImport, Replacing
  <1> QED
    BY <1>3, <1>4, <1>5 DEF MenuIInv

(* What is locked: what others have deleted, and nobody else. *)
LEMMA WhatIsLocked ==
    ASSUME DeletedIsLocked, NEW s \in ImportSlots, NEW t \in ImportSlots
    PROVE  /\ imports[t].deleted \subseteq LockedRows
           /\ s # t => imports[t].deleted \subseteq LockedFor(s)
  <1>1. CASE imports[t].step = "idle"
    BY <1>1 DEF DeletedIsLocked
  <1>2. CASE imports[t].step # "idle"
    BY <1>2 DEF LockedRows, LockedFor, InFlight, ImportAt
  <1> QED
    BY <1>1, <1>2

(* An import that begins, reads, or is rolled back leaves the menu alone.    *)
LEMMA StandsBack ==
    ASSUME MenuIInv, MenuNext, NEW s \in ImportSlots,
           imports' \in [ImportSlots -> Imports],
           imports'[s].step \in {"idle", "items", "scanned"}, imports'[s].deleted = {},
           \A t \in ImportSlots \ {s} : imports'[t] = imports[t],
           UNCHANGED <<categories, items>>
    PROVE  MenuIInv'
  <1>1. MenuTypeOK'
    BY CountsOK, WorkerOK DEF MenuIInv, MenuTypeOK
  <1>2. MenuIsWhole'
    BY DEF MenuIInv, MenuIsWhole
  <1>3. DeletedIsLocked'
    BY DEF MenuIInv, DeletedIsLocked
  <1>4. CascadeIsComplete'
    BY DEF MenuIInv, CascadeIsComplete, Replacing
  <1>5. EmptyIsNoted'
    BY DEF MenuIInv, EmptyIsNoted
  <1>6. ASSUME ~scanty'
        PROVE  OneReplaces' /\ OfOneImport'
    <2>1. OneReplaces /\ OfOneImport
      BY <1>6, CountsOK DEF MenuIInv
    <2>2. OneReplaces'
      BY <2>1 DEF OneReplaces, Replacing
    <2>3. OfOneImport'
      BY <2>1 DEF OfOneImport
    <2> QED
      BY <2>2, <2>3
  <1> QED
    BY <1>1, <1>2, <1>3, <1>4, <1>5, <1>6 DEF MenuIInv

LEMMA DeleteItemsStep ==
    ASSUME MenuIInv, MenuNext, NEW s \in ImportSlots, DeleteItems(s)
    PROVE  MenuIInv'
  <1> DEFINE rows == imports[s].saw \cap items
  <1>1. /\ imports[s].step = "scanned" /\ imports[s].saw \cap LockedFor(s) = {}
        /\ UNCHANGED <<categories, items>>
    BY DEF DeleteItems, ImportAt
  <1>2. MovesTo(s, "categories", categories, rows, rows = {})
    BY ImportSteps DEF MenuIInv
  <1>3. ASSUME ~scanty', NEW t \in ImportSlots \ {s},
               imports[t].step \in {"categories", "insert", "commit"}
        PROVE  rows # {} /\ ~imports[t].empty
    BY <1>3 DEF DeleteItems, InFlight, ImportAt
  <1> HIDE DEF rows
  <1>4. /\ imports' \in [ImportSlots -> Imports]
        /\ imports'[s].step = "categories" /\ imports'[s].saw = categories
        /\ imports'[s].deleted = rows /\ (imports'[s].empty <=> rows = {})
        /\ \A t \in ImportSlots \ {s} : imports'[t] = imports[t]
    BY <1>2 DEF MovesTo
  <1>5. rows \subseteq items /\ \A t \in ImportSlots \ {s} : rows \cap imports[t].deleted = {}
    <2>1. rows \subseteq items /\ rows \cap LockedFor(s) = {}
      BY <1>1 DEF rows
    <2>2. \A t \in ImportSlots \ {s} : imports[t].deleted \subseteq LockedFor(s)
      BY WhatIsLocked DEF MenuIInv
    <2> QED
      BY <2>1, <2>2
  <1>6. MenuTypeOK'
    BY <1>1, <1>4, CountsOK, WorkerOK DEF MenuIInv, MenuTypeOK
  <1>7. MenuIsWhole'
    BY <1>1 DEF MenuIInv, MenuIsWhole
  <1>8. DeletedIsLocked'
    BY <1>1, <1>4, <1>5 DEF MenuIInv, DeletedIsLocked
  <1>9. CascadeIsComplete'
    BY <1>1, <1>4 DEF MenuIInv, CascadeIsComplete, Replacing
  <1>10. EmptyIsNoted'
    BY <1>4 DEF MenuIInv, EmptyIsNoted
  (* Who replaces the menu has locked all of it: to come now is to find       *)
  (* nothing to delete.                                                       *)
  <1>11. ASSUME ~scanty'
         PROVE  OneReplaces' /\ OfOneImport'
    <2>1. OneReplaces /\ OfOneImport
      BY <1>11, CountsOK DEF MenuIInv
    <2>2. \A t \in ImportSlots \ {s} : ~Replacing(t)
      <3> SUFFICES ASSUME NEW t \in ImportSlots \ {s}, Replacing(t)
                   PROVE  FALSE
        OBVIOUS
      <3>1. rows \subseteq imports[t].deleted
        BY <1>5, <2>1 DEF OneReplaces
      <3>2. rows = {}
        BY <1>5, <3>1
      <3> QED
        BY <1>3, <1>11, <3>2 DEF Replacing
    <2>3. \A t \in ImportSlots \ {s} : imports[t].step = "categories" =>
             rows # {} /\ imports[t].deleted # {}
      BY <1>3, <1>11 DEF MenuIInv, EmptyIsNoted
    <2>4. OneReplaces'
      BY <1>1, <1>4, <2>1, <2>2, <2>3 DEF OneReplaces, Replacing
    <2>5. OfOneImport'
      BY <1>1, <2>1 DEF OfOneImport
    <2> QED
      BY <2>4, <2>5
  <1> QED
    BY <1>6, <1>7, <1>8, <1>9, <1>10, <1>11 DEF MenuIInv

LEMMA DeleteCategoriesStep ==
    ASSUME MenuIInv, MenuNext, NEW s \in ImportSlots, DeleteCategories(s)
    PROVE  MenuIInv'
  <1> DEFINE seen == imports[s].saw \cap categories
             rows == imports[s].deleted \cup Cascade(s)
  <1>1. /\ imports[s].step = "categories" /\ Cascade(s) \cap LockedFor(s) = {}
        /\ UNCHANGED <<categories, items, scanty>>
    BY DEF DeleteCategories, Waits, ImportAt
  <1>2. MovesTo(s, "insert", {}, rows, imports[s].empty)
    BY ImportSteps DEF MenuIInv
  <1>3. /\ Cascade(s) \subseteq categories \cup items /\ seen \subseteq Cascade(s)
        /\ Cascade(s) \cap categories = seen
        /\ \A c \in seen, i \in items : i.category = c.category => i \in Cascade(s)
    <2>1. Cascade(s) = seen \cup {i \in items : \E c \in seen : c.category = i.category}
      BY DEF Cascade
    <2>2. categories \cap items = {}
      BY ItemsAreNoCategories DEF MenuIInv, MenuTypeOK
    <2> QED
      BY <2>1, <2>2
  <1> HIDE DEF seen, rows
  <1>4. /\ imports' \in [ImportSlots -> Imports]
        /\ imports'[s].step = "insert" /\ imports'[s].deleted = rows
        /\ \A t \in ImportSlots \ {s} : imports'[t] = imports[t]
    BY <1>2 DEF MovesTo
  <1>5. \A t \in ImportSlots \ {s} : rows \cap imports[t].deleted = {}
    <2>1. \A t \in ImportSlots \ {s} : imports[t].deleted \subseteq LockedFor(s)
      BY WhatIsLocked DEF MenuIInv
    <2>2. \A t \in ImportSlots \ {s} : imports[s].deleted \cap imports[t].deleted = {}
      BY DEF MenuIInv, DeletedIsLocked
    <2> QED
      BY <1>1, <2>1, <2>2 DEF rows
  <1>6. rows \subseteq categories \cup items
    BY <1>3 DEF rows, MenuIInv, DeletedIsLocked
  <1>7. \A c \in categories \cap rows, i \in items : i.category = c.category => i \in rows
    <2>1. imports[s].deleted \cap categories = {}
      BY <1>1, ItemsAreNoCategories DEF MenuIInv, DeletedIsLocked, MenuTypeOK
    <2> QED
      BY <1>3, <2>1 DEF rows
  <1>8. MenuTypeOK'
    BY <1>1, <1>4, CountsOK, WorkerOK DEF MenuIInv, MenuTypeOK
  <1>9. MenuIsWhole'
    BY <1>1 DEF MenuIInv, MenuIsWhole
  <1>10. DeletedIsLocked'
    BY <1>1, <1>4, <1>5, <1>6 DEF MenuIInv, DeletedIsLocked
  <1>11. CascadeIsComplete'
    BY <1>1, <1>4, <1>7 DEF MenuIInv, CascadeIsComplete, Replacing
  <1>12. EmptyIsNoted'
    BY <1>4 DEF MenuIInv, EmptyIsNoted
  (* What it saw is the whole menu, which nobody else has a part of locked.   *)
  <1>13. ASSUME ~scanty'
         PROVE  OneReplaces' /\ OfOneImport'
    <2>1. OneReplaces /\ OfOneImport
      BY <1>13, CountsOK DEF MenuIInv
    <2>2. seen = categories
      BY <1>1, <2>1 DEF OneReplaces, seen
    <2>3. categories \cup items \subseteq Cascade(s)
      <3>1. \A i \in items : \E c \in categories : c.category = i.category
        BY DEF MenuIInv, MenuIsWhole
      <3> QED
        BY <1>3, <2>2, <3>1
    <2>4. categories \cup items \subseteq rows
      BY <2>3 DEF rows
    <2>5. \A t \in ImportSlots \ {s} : ~Replacing(t)
      BY <1>1, <2>1 DEF OneReplaces
    <2>6. \A t \in ImportSlots \ {s} : imports[t].step # "categories"
      <3> SUFFICES ASSUME NEW t \in ImportSlots \ {s}, imports[t].step = "categories"
                   PROVE  FALSE
        OBVIOUS
      <3>1. imports[t].deleted # {}
        BY <1>1, <2>1 DEF OneReplaces
      <3>2. imports[t].deleted \subseteq categories \cup items
        BY DEF MenuIInv, DeletedIsLocked
      <3>3. imports[t].deleted \subseteq LockedFor(s)
        BY WhatIsLocked DEF MenuIInv
      <3> QED
        BY <1>1, <2>3, <3>1, <3>2, <3>3
    <2>7. OneReplaces'
      BY <1>1, <1>4, <2>1, <2>4, <2>5, <2>6 DEF OneReplaces, Replacing
    <2>8. OfOneImport'
      BY <1>1, <2>1 DEF OfOneImport
    <2> QED
      BY <2>7, <2>8
  <1> QED
    BY <1>8, <1>9, <1>10, <1>11, <1>12, <1>13 DEF MenuIInv

LEMMA InsertMenuStep ==
    ASSUME MenuIInv, MenuNext, NEW s \in ImportSlots, InsertMenu(s)
    PROVE  MenuIInv'
  <1>1. imports[s].step = "insert" /\ UNCHANGED <<categories, items, scanty>>
    BY DEF InsertMenu, ImportAt
  <1>2. ~KeyPending(s) /\ ~KeyTaken(s)
    BY DEF InsertMenu, ImportRefused
  <1>3. MovesTo(s, "commit", imports[s].saw, imports[s].deleted, imports[s].empty)
    BY ImportSteps DEF MenuIInv
  <1>4. /\ imports' \in [ImportSlots -> Imports]
        /\ imports'[s].step = "commit" /\ imports'[s].deleted = imports[s].deleted
        /\ imports'[s].menu = imports[s].menu
        /\ \A t \in ImportSlots \ {s} : imports'[t] = imports[t]
    BY <1>3 DEF MovesTo
  <1>5. \A c \in categories \ imports[s].deleted : c.category \notin CategoriesOf(imports[s].menu)
    BY <1>2 DEF KeyTaken
  <1>6. \A t \in ImportSlots \ {s} : imports[t].step = "commit" =>
           CategoriesOf(imports[s].menu) \cap CategoriesOf(imports[t].menu) = {}
    BY <1>2 DEF KeyPending, Keys, InFlight, ImportAt
  <1>7. MenuTypeOK'
    BY <1>1, <1>4, CountsOK, WorkerOK DEF MenuIInv, MenuTypeOK
  <1>8. MenuIsWhole'
    BY <1>1 DEF MenuIInv, MenuIsWhole
  <1>9. DeletedIsLocked'
    BY <1>1, <1>4 DEF MenuIInv, DeletedIsLocked
  <1>10. CascadeIsComplete'
    <2> SUFFICES ASSUME NEW t \in ImportSlots, Replacing(t)'
                 PROVE  /\ \A c \in categories \cap imports'[t].deleted, i \in items :
                              i.category = c.category => i \in imports'[t].deleted
                        /\ imports'[t].step = "commit" =>
                             /\ \A c \in categories \ imports'[t].deleted :
                                   c.category \notin CategoriesOf(imports'[t].menu)
                             /\ \A u \in ImportSlots \ {t} : imports'[u].step = "commit" =>
                                      CategoriesOf(imports'[t].menu)
                                        \cap CategoriesOf(imports'[u].menu) = {}
      BY <1>1 DEF CascadeIsComplete
    <2>1. Replacing(t)
      BY <1>1, <1>4 DEF Replacing
    <2>2. CASE t = s
      BY <1>4, <1>5, <1>6, <2>1, <2>2 DEF MenuIInv, CascadeIsComplete
    <2>3. CASE t # s
      BY <1>4, <1>6, <2>1, <2>3 DEF MenuIInv, CascadeIsComplete
    <2> QED
      BY <2>2, <2>3
  <1>11. EmptyIsNoted'
    BY <1>4 DEF MenuIInv, EmptyIsNoted
  <1>12. ASSUME ~scanty'
         PROVE  OneReplaces' /\ OfOneImport'
    <2>1. OneReplaces /\ OfOneImport
      BY <1>12, CountsOK DEF MenuIInv
    <2>2. OneReplaces'
      BY <1>1, <1>4, <2>1 DEF OneReplaces, Replacing
    <2>3. OfOneImport'
      BY <1>1, <2>1 DEF OfOneImport
    <2> QED
      BY <2>2, <2>3
  <1> QED
    BY <1>7, <1>8, <1>9, <1>10, <1>11, <1>12 DEF MenuIInv

LEMMA CommitMenuStep ==
    ASSUME MenuIInv, MenuNext, NEW s \in ImportSlots, CommitMenu(s)
    PROVE  MenuIInv'
  <1>1. PICK gone : gone = imports[s].deleted
    OBVIOUS
  <1>2. PICK menu \in Menus \cup {{}} : menu = imports[s].menu
    BY ImportShape DEF MenuIInv, MenuTypeOK
  <1>3. PICK old, kept : old = categories \ gone /\ kept = items \ gone
    OBVIOUS
  <1>4. /\ imports[s].step = "commit" /\ UNCHANGED scanty
        /\ categories' = old \cup CategoryRows(menu)
        /\ items' = kept \cup ItemRows(menu)
    BY <1>1, <1>2, <1>3 DEF CommitMenu, ImportAt
  <1>5. /\ imports' \in [ImportSlots -> Imports]
        /\ imports'[s].step = "idle" /\ imports'[s].deleted = {}
        /\ \A t \in ImportSlots \ {s} : imports'[t] = imports[t]
    BY NoImportShape DEF CommitMenu, ImportEnds, MenuIInv, MenuTypeOK
  <1>6. /\ \A c \in categories \cap gone, i \in items : i.category = c.category => i \in gone
        /\ \A c \in old : c.category \notin CategoriesOf(menu)
        /\ \A t \in ImportSlots \ {s} : imports[t].step = "commit" =>
              CategoriesOf(menu) \cap CategoriesOf(imports[t].menu) = {}
    BY <1>1, <1>2, <1>3, <1>4 DEF MenuIInv, CascadeIsComplete, Replacing
  <1>7. /\ \A c, d \in categories : c.category = d.category => c = d
        /\ \A i \in items : \E c \in categories : c.category = i.category
        /\ categories \cap items = {}
        /\ categories \subseteq StoredCategories /\ items \subseteq StoredItems
    BY ItemsAreNoCategories DEF MenuIInv, MenuIsWhole, MenuTypeOK
  <1>8. \A t \in ImportSlots \ {s} :
           imports[t].deleted \cap gone = {} /\ imports[t].deleted \subseteq categories \cup items
    BY <1>1 DEF MenuIInv, DeletedIsLocked
  <1>9. MenuTypeOK'
    BY <1>3, <1>4, <1>5, <1>7, CategoryRowsKnown, ItemRowsKnown, CountsOK, WorkerOK
       DEF MenuIInv, MenuTypeOK
  <1>10. MenuIsWhole'
    <2>1. \A c, d \in categories' : c.category = d.category => c = d
      BY <1>3, <1>4, <1>6, <1>7, CategoryRowsKnown
    <2>2. ASSUME NEW i \in kept
          PROVE  \E c \in old : c.category = i.category
      <3>1. PICK c \in categories : c.category = i.category
        BY <1>3, <1>7
      <3>2. c \notin gone
        BY <1>3, <1>6, <3>1
      <3> QED
        BY <1>3, <3>1, <3>2
    <2>3. \A i \in ItemRows(menu) : \E c \in CategoryRows(menu) : c.category = i.category
      BY CategoryRowsKnown, ItemRowsKnown
    <2>4. \A i \in items' : \E c \in categories' : c.category = i.category
      BY <1>4, <2>2, <2>3
    <2> QED
      BY <2>1, <2>4 DEF MenuIsWhole
  <1>11. DeletedIsLocked'
    <2> SUFFICES ASSUME NEW t \in ImportSlots
                 PROVE  /\ imports'[t].deleted \subseteq categories' \cup items'
                        /\ imports'[t].step \in {"idle", "items", "scanned"} =>
                              imports'[t].deleted = {}
                        /\ imports'[t].step = "categories" => imports'[t].deleted \subseteq items'
                        /\ \A u \in ImportSlots \ {t} :
                              imports'[t].deleted \cap imports'[u].deleted = {}
      BY DEF DeletedIsLocked
    <2>1. CASE t = s
      BY <1>5, <2>1
    <2>2. CASE t # s
      <3>1. imports'[t] = imports[t]
        BY <1>5, <2>2
      <3>2. imports[t].deleted \subseteq categories' \cup items'
        BY <1>3, <1>4, <1>8, <2>2
      <3>3. imports[t].step = "categories" => imports[t].deleted \subseteq items'
        BY <1>3, <1>4, <1>8, <2>2 DEF MenuIInv, DeletedIsLocked
      <3>4. \A u \in ImportSlots \ {t} : imports[t].deleted \cap imports'[u].deleted = {}
        BY <1>5 DEF MenuIInv, DeletedIsLocked
      <3>5. imports[t].step \in {"idle", "items", "scanned"} => imports[t].deleted = {}
        BY DEF MenuIInv, DeletedIsLocked
      <3> QED
        BY <3>1, <3>2, <3>3, <3>4, <3>5
    <2> QED
      BY <2>1, <2>2
  (* What others hold is not of the categories of this menu. *)
  <1>12. ASSUME NEW t \in ImportSlots \ {s}, NEW c \in imports[t].deleted, c \in categories'
         PROVE  c \in old /\ c.category \notin CategoriesOf(menu)
    <2>1. c \notin gone /\ (c \in categories \/ c \in items)
      BY <1>8
    <2>2. CASE c \in categories
      BY <1>3, <1>6, <2>1, <2>2
    <2>3. CASE c \in items
      <3>1. c \in old \/ c \in CategoryRows(menu)
        BY <1>4, <1>12
      <3>2. CategoryRows(menu) \subseteq StoredCategories
        BY CategoryRowsKnown
      <3>3. c \in StoredCategories /\ c \in StoredItems
        BY <1>3, <1>7, <2>3, <3>1, <3>2
      <3> QED
        BY <3>3, ItemsAreNoCategories
    <2> QED
      BY <2>1, <2>2, <2>3
  <1>13. CascadeIsComplete'
    <2> SUFFICES ASSUME NEW t \in ImportSlots, Replacing(t)'
                 PROVE  /\ \A c \in categories' \cap imports'[t].deleted, i \in items' :
                              i.category = c.category => i \in imports'[t].deleted
                        /\ imports'[t].step = "commit" =>
                             /\ \A c \in categories' \ imports'[t].deleted :
                                   c.category \notin CategoriesOf(imports'[t].menu)
                             /\ \A u \in ImportSlots \ {t} : imports'[u].step = "commit" =>
                                      CategoriesOf(imports'[t].menu)
                                        \cap CategoriesOf(imports'[u].menu) = {}
      BY DEF CascadeIsComplete
    <2>1. t # s /\ imports'[t] = imports[t] /\ Replacing(t)
      BY <1>5 DEF Replacing
    <2>2. ASSUME NEW c \in categories' \cap imports[t].deleted, NEW i \in items',
                 i.category = c.category
          PROVE  i \in imports[t].deleted
      <3>1. c \in old /\ c.category \notin CategoriesOf(menu)
        BY <1>12, <2>1
      <3>2. i \in items
        BY <1>3, <1>4, <2>2, <3>1, ItemRowsKnown
      <3> QED
        BY <1>3, <2>1, <2>2, <3>1, <3>2 DEF MenuIInv, CascadeIsComplete
    <2>3. ASSUME imports[t].step = "commit", NEW c \in categories' \ imports[t].deleted
          PROVE  c.category \notin CategoriesOf(imports[t].menu)
      <3>1. CASE c \in old
        BY <1>3, <2>1, <2>3, <3>1 DEF MenuIInv, CascadeIsComplete
      <3>2. CASE c \in CategoryRows(menu)
        BY <1>6, <2>1, <2>3, <3>2, CategoryRowsKnown
      <3> QED
        BY <1>4, <2>3, <3>1, <3>2
    <2>4. ASSUME imports[t].step = "commit", NEW u \in ImportSlots \ {t},
                 imports'[u].step = "commit"
          PROVE  CategoriesOf(imports[t].menu) \cap CategoriesOf(imports'[u].menu) = {}
      <3>1. u # s /\ imports'[u] = imports[u]
        BY <1>5, <2>4
      <3> QED
        BY <2>1, <2>4, <3>1 DEF MenuIInv, CascadeIsComplete
    <2> QED
      BY <2>1, <2>2, <2>3, <2>4
  <1>14. EmptyIsNoted'
    BY <1>5 DEF MenuIInv, EmptyIsNoted
  <1>15. ASSUME ~scanty'
         PROVE  OneReplaces' /\ OfOneImport'
    <2>1. OneReplaces
      BY <1>15, CountsOK DEF MenuIInv
    <2>2. old = {} /\ kept = {}
      BY <1>1, <1>3, <1>4, <2>1 DEF OneReplaces, Replacing
    <2>3. \A t \in ImportSlots \ {s} : ~Replacing(t) /\ imports[t].step # "categories"
      BY <1>4, <2>1 DEF OneReplaces, Replacing
    <2>4. OneReplaces'
      BY <1>5, <2>3 DEF OneReplaces, Replacing
    <2>5. \A r \in categories' \cup items' : r.menu = menu
      BY <1>4, <2>2, CategoryRowsKnown, ItemRowsKnown
    <2>6. OfOneImport'
      BY <2>5 DEF OfOneImport
    <2> QED
      BY <2>4, <2>6
  <1> QED
    BY <1>9, <1>10, <1>11, <1>13, <1>14, <1>15 DEF MenuIInv

LEMMA StaffSteps ==
    ASSUME MenuIInv, MenuNext,
           (\E row \in categories : CreateItem(row)) \/ (\E i \in items : DeleteItem(i))
    PROVE  MenuIInv'
  <1>1. UNCHANGED <<categories, imports, scanty>>
    BY DEF CreateItem, DeleteItem, StaffEdit
  <1>2. \A t \in ImportSlots : imports[t].deleted \subseteq LockedRows
    BY WhatIsLocked DEF MenuIInv
  <1>3. CASE \E row \in categories : CreateItem(row)
    <2>1. PICK row \in categories : CreateItem(row)
      BY <1>3
    <2>2. PICK new : new = [item |-> Special, category |-> row.category, menu |-> Staff]
      OBVIOUS
    <2>3. row \notin LockedRows /\ items' = items \cup {new}
      BY <2>1, <2>2 DEF CreateItem
    <2>4. new \in StoredItems /\ new.category = row.category /\ new.menu = Staff
      BY <2>2, StaffItemKnown DEF MenuIInv, MenuTypeOK
    <2>5. \A t \in ImportSlots : row \notin imports[t].deleted
      BY <1>2, <2>3
    <2>6. MenuTypeOK'
      BY <1>1, <2>3, <2>4, CountsOK, WorkerOK DEF MenuIInv, MenuTypeOK
    <2>7. MenuIsWhole'
      BY <1>1, <2>3, <2>4 DEF MenuIInv, MenuIsWhole
    <2>8. DeletedIsLocked'
      BY <1>1, <2>3 DEF MenuIInv, DeletedIsLocked
    <2>9. CascadeIsComplete'
      <3>1. ASSUME NEW t \in ImportSlots, Replacing(t),
                   NEW c \in categories \cap imports[t].deleted, NEW i \in items',
                   i.category = c.category
            PROVE  i \in imports[t].deleted
        <4>1. CASE i \in items
          BY <3>1, <4>1 DEF MenuIInv, CascadeIsComplete
        <4>2. CASE i = new
          BY <2>4, <2>5, <3>1, <4>2 DEF MenuIInv, MenuIsWhole
        <4> QED
          BY <2>3, <4>1, <4>2
      <3> QED
        BY <1>1, <3>1 DEF MenuIInv, CascadeIsComplete, Replacing
    <2>10. EmptyIsNoted'
      BY <1>1 DEF MenuIInv, EmptyIsNoted
    <2>11. ASSUME ~scanty'
           PROVE  OneReplaces' /\ OfOneImport'
      <3>1. OneReplaces /\ OfOneImport
        BY <2>11, CountsOK DEF MenuIInv
      <3>2. \A t \in ImportSlots : ~Replacing(t)
        BY <2>5, <3>1 DEF OneReplaces
      <3>3. OneReplaces'
        BY <1>1, <3>1, <3>2 DEF OneReplaces, Replacing
      <3>4. OfOneImport'
        BY <1>1, <2>3, <2>4, <3>1 DEF OfOneImport
      <3> QED
        BY <3>3, <3>4
    <2> QED
      BY <2>6, <2>7, <2>8, <2>9, <2>10, <2>11 DEF MenuIInv
  <1>4. CASE \E i \in items : DeleteItem(i)
    <2>1. PICK i \in items : DeleteItem(i)
      BY <1>4
    <2>2. i \notin LockedRows /\ items' = items \ {i}
      BY <2>1 DEF DeleteItem
    <2>3. \A t \in ImportSlots : i \notin imports[t].deleted
      BY <1>2, <2>2
    <2>4. MenuTypeOK'
      BY <1>1, <2>2, CountsOK, WorkerOK DEF MenuIInv, MenuTypeOK
    <2>5. MenuIsWhole'
      BY <1>1, <2>2 DEF MenuIInv, MenuIsWhole
    <2>6. DeletedIsLocked'
      BY <1>1, <2>2, <2>3 DEF MenuIInv, DeletedIsLocked
    <2>7. CascadeIsComplete'
      BY <1>1, <2>2 DEF MenuIInv, CascadeIsComplete, Replacing
    <2>8. EmptyIsNoted'
      BY <1>1 DEF MenuIInv, EmptyIsNoted
    <2>9. ASSUME ~scanty'
          PROVE  OneReplaces' /\ OfOneImport'
      <3>1. OneReplaces /\ OfOneImport
        BY <2>9, CountsOK DEF MenuIInv
      <3>2. OneReplaces'
        BY <1>1, <2>2, <3>1 DEF OneReplaces, Replacing
      <3>3. OfOneImport'
        BY <1>1, <2>2, <3>1 DEF OfOneImport
      <3> QED
        BY <3>2, <3>3
    <2> QED
      BY <2>4, <2>5, <2>6, <2>7, <2>8, <2>9 DEF MenuIInv
  <1> QED
    BY <1>3, <1>4

LEMMA MenuIStep == MenuIInv /\ [MenuNext]_menuVars => MenuIInv'
  <1> SUFFICES ASSUME MenuIInv, [MenuNext]_menuVars
               PROVE  MenuIInv'
    OBVIOUS
  <1>1. ASSUME UNCHANGED <<categories, items, imports, scanty>>, MenuTypeOK'
        PROVE  MenuIInv'
    <2>1. MenuIsWhole'
      BY <1>1 DEF MenuIInv, MenuIsWhole
    <2>2. DeletedIsLocked'
      BY <1>1 DEF MenuIInv, DeletedIsLocked
    <2>3. CascadeIsComplete'
      BY <1>1 DEF MenuIInv, CascadeIsComplete, Replacing
    <2>4. EmptyIsNoted'
      BY <1>1 DEF MenuIInv, EmptyIsNoted
    <2>5. ~scanty' => OneReplaces' /\ OfOneImport'
      BY <1>1 DEF MenuIInv, OneReplaces, OfOneImport, Replacing
    <2> QED
      BY <1>1, <2>1, <2>2, <2>3, <2>4, <2>5 DEF MenuIInv
  <1>2. CASE UNCHANGED menuVars
    BY <1>1, <1>2 DEF menuVars, MenuIInv, MenuTypeOK
  <1>3. CASE MenuNext
    <2>1. CASE StartCycle \/ FetchMenu \/ LoseAnswer \/ \E menu \in Menus : SourceChanges(menu)
      <3>1. UNCHANGED <<categories, items, imports, scanty>>
        BY <2>1 DEF StartCycle, FetchMenu, LoseAnswer, SourceChanges
      <3>2. MenuTypeOK'
        BY <1>3, <3>1, CountsOK, WorkerOK DEF MenuIInv, MenuTypeOK
      <3> QED
        BY <1>1, <3>1, <3>2
    <2>2. ASSUME NEW s \in ImportSlots, PutMenu(s)
          PROVE  MenuIInv'
      <3>1. sync.menu \in Menus \cup {{}} /\ imports \in [ImportSlots -> Imports]
        BY CycleShape DEF MenuIInv, MenuTypeOK
      <3>2. PICK x \in Imports : /\ x = [NoImport EXCEPT !.step = "items", !.menu = sync.menu]
                                 /\ x.step = "items" /\ x.deleted = {}
        BY <3>1, NoImportShape
      <3>3. imports' = [imports EXCEPT ![s] = x] /\ UNCHANGED <<categories, items>>
        BY <2>2, <3>2 DEF PutMenu
      <3>4. /\ imports' \in [ImportSlots -> Imports] /\ imports'[s] = x
            /\ \A t \in ImportSlots \ {s} : imports'[t] = imports[t]
        BY <3>1, <3>3
      <3> QED
        BY <1>3, <3>2, <3>3, <3>4, StandsBack
    <2>3. ASSUME NEW s \in ImportSlots, ScanItems(s)
          PROVE  MenuIInv'
      <3>1. MovesTo(s, "scanned", items, imports[s].deleted, imports[s].empty)
        BY <2>3, ImportSteps DEF MenuIInv
      <3>2. imports[s].deleted = {} /\ UNCHANGED <<categories, items>>
        BY <2>3 DEF ScanItems, ImportAt, MenuIInv, DeletedIsLocked
      <3> QED
        BY <1>3, <3>1, <3>2, StandsBack DEF MovesTo
    <2>4. ASSUME NEW s \in ImportSlots, ImportFails(s)
          PROVE  MenuIInv'
      <3>1. imports' = [imports EXCEPT ![s] = NoImport] /\ UNCHANGED <<categories, items>>
        BY <2>4 DEF ImportFails
      <3>2. /\ imports' \in [ImportSlots -> Imports] /\ imports'[s] = NoImport
            /\ \A t \in ImportSlots \ {s} : imports'[t] = imports[t]
        BY <3>1, NoImportShape DEF MenuIInv, MenuTypeOK
      <3> QED
        BY <1>3, <3>1, <3>2, NoImportShape, StandsBack
    <2>5. ASSUME NEW s \in ImportSlots, ImportStep(s)
          PROVE  MenuIInv'
      BY <1>3, <2>3, <2>4, <2>5, DeleteItemsStep, DeleteCategoriesStep, InsertMenuStep,
         CommitMenuStep DEF ImportStep
    <2> QED
      BY <1>3, <2>1, <2>2, <2>4, <2>5, StaffSteps DEF MenuNext, SyncStep
  <1> QED
    BY <1>2, <1>3

(* The invariant of a location's menu: what an import has deleted stays      *)
(* locked until it commits, with each category goes every item that is in    *)
(* it, and, until imports overlap with nothing to lock, one at a time        *)
(* replaces all of the menu.                                                 *)
THEOREM MenuInductive == MenuSpec => []MenuIInv
  BY MenuIInit, MenuIStep, PTL DEF MenuSpec

(* Rows, imports and the worker's cycle are what the code may keep.         *)
THEOREM MenuTypeCorrect == MenuSpec => []MenuTypeOK
  <1>1. MenuIInv => MenuTypeOK
    BY DEF MenuIInv
  <1> QED
    BY <1>1, MenuInductive, PTL

(* A stored menu is one import's, plus what staff have added, and every item *)
(* is in a category that is there, for any number of imports at work         *)
(* (replaceInternalLocationMenu).                                            *)
THEOREM MenuIsAlwaysOneImport == MenuSpec => []MenuIsOneImport
  <1>1. MenuIInv => MenuIsOneImport
    BY DEF MenuIInv, MenuIsWhole, OfOneImport, MenuIsOneImport
  <1> QED
    BY <1>1, MenuInductive, PTL

(* An import that waits does so for one that has deleted, which is at its   *)
(* categories or past them; and two that wait there are refused.            *)
LEMMA LockedByWhom ==
    ASSUME MenuIInv, NEW s \in ImportSlots, LockedFor(s) # {}
    PROVE  \E t \in InFlight \ {s} : imports[t].step \in {"categories", "insert", "commit"}
  <1>1. PICK t \in InFlight \ {s} : imports[t].deleted # {}
    BY DEF LockedFor
  <1>2. t \in ImportSlots
    BY <1>1 DEF InFlight
  <1>3. imports[t].step \notin {"idle", "items", "scanned"}
    BY <1>1, <1>2 DEF MenuIInv, DeletedIsLocked
  <1>4. imports[t].step \in {"idle", "items", "scanned", "categories", "insert", "commit"}
    BY <1>2 DEF MenuIInv, MenuTypeOK, Imports
  <1> QED
    BY <1>1, <1>3, <1>4

(* Imports never all wait for each other (PostgreSQL's row and key locks in *)
(* replaceInternalLocationMenu), for any number of them.                    *)
THEOREM SomeImportAlwaysGoesOn == MenuSpec => []SomeImportGoesOn
  <1>1. MenuIInv => SomeImportGoesOn
    <2> SUFFICES ASSUME MenuIInv, NEW s \in InFlight,
                        \A t \in InFlight : ~GoesOn(t)
                 PROVE  FALSE
      BY DEF SomeImportGoesOn
    <2>1. InFlight \subseteq ImportSlots
      BY DEF InFlight
    <2>2. \A t \in InFlight : imports[t].step \notin {"idle", "items", "commit"}
      BY DEF GoesOn, InFlight, ImportAt
    <2>3. \A t \in InFlight : imports[t].step # "insert"
      BY <2>2 DEF GoesOn, ImportAt, KeyPending
    <2>4. \A t \in InFlight : imports[t].step \in {"scanned", "categories"}
      BY <2>1, <2>2, <2>3 DEF MenuIInv, MenuTypeOK, Imports
    <2>5. ASSUME NEW t \in InFlight
          PROVE  \E u \in InFlight \ {t} : Waits(u)
      <3>1. LockedFor(t) # {}
        BY <2>4 DEF GoesOn, ImportAt, Waits
      <3>2. PICK u \in InFlight \ {t} : imports[u].step = "categories"
        BY <2>1, <2>4, <3>1, LockedByWhom
      <3> QED
        BY <3>2 DEF GoesOn, ImportAt
    <2>6. PICK t \in InFlight : Waits(t)
      BY <2>5
    <2>7. PICK u \in InFlight \ {t} : Waits(u)
      BY <2>5
    <2>8. ImportRefused(t)
      BY <2>6, <2>7 DEF ImportRefused
    <2> QED
      BY <2>8 DEF GoesOn
  <1> QED
    BY <1>1, MenuInductive, PTL

-----------------------------------------------------------------------------
(***************************************************************************)
(* Side by side: MCDelivery.                                               *)
(***************************************************************************)

(* The proofs about checkouts, for the one of MCDelivery. *)
P == INSTANCE CheckoutProofs WITH
         Checkouts <- {c1}, Quotes <- {latte}, QuoteOf <- [c \in {c1} |-> latte],
         Handlers <- {h1, h2}, RedeemsPoints <- TRUE, Discounted <- TRUE,
         MaxFailures <- 1

(* The two instances of Checkout are one: the first states and the steps.   *)
LEMMA OneCheckout ==
    /\ C!Init => P!Init
    /\ [C!Next]_checkoutVars => [P!Next]_(P!vars)
  <1>1. C!Init => P!Init
    BY Zenon DEF C!Init, P!Init, C!NoJob, P!NoJob
  <1>2. C!Next => P!Next
    BY Zenon DEF C!Idle, P!Idle, C!Target, P!Target, C!Serve, P!Serve, C!Goto, P!Goto,
         C!Done, P!Done, C!FailRequest, P!FailRequest, C!Lapse, P!Lapse,
         C!PaymentSucceeds, P!PaymentSucceeds, C!EndOrder, P!EndOrder,
         C!CreateCheckout, P!CreateCheckout, C!CheckActiveOrder, P!CheckActiveOrder,
         C!ListOpenDrafts, P!ListOpenDrafts, C!NextStale, P!NextStale,
         C!InsertDraft, P!InsertDraft, C!OutOfIds, P!OutOfIds, C!FindReservation,
         P!FindReservation, C!ReserveDiscount, P!ReserveDiscount, C!RefuseDiscount,
         P!RefuseDiscount, C!Expired, P!Expired, C!ExpireRefused, P!ExpireRefused,
         C!ExpireDraft, P!ExpireDraft, C!ReleaseDiscount, P!ReleaseDiscount,
         C!HasLapsed, P!HasLapsed, C!OpenSession, P!OpenSession, C!CreateIntent,
         P!CreateIntent, C!SaveIntent, P!SaveIntent, C!FinalizeCheckout,
         P!FinalizeCheckout, C!ChargeWebhook, P!ChargeWebhook, C!ReconcilerRecovers,
         P!ReconcilerRecovers, C!ReconcilerGivesUp, P!ReconcilerGivesUp,
         C!ExpireCall, P!ExpireCall, C!FindOrder, P!FindOrder, C!RedeemPoints,
         P!RedeemPoints, C!EarnPoints, P!EarnPoints, C!RedeemDiscount,
         P!RedeemDiscount, C!PromoteDraft, P!PromoteDraft, C!RecordPayment,
         P!RecordPayment, C!Respond, P!Respond, C!Step, P!Step, C!Request,
         P!Request, C!Next, P!Next, C!tables, P!tables, C!others, P!others, C!slots,
         P!slots, C!NoJob, P!NoJob
  <1>3. UNCHANGED checkoutVars => UNCHANGED P!vars
    BY DEF checkoutVars, P!vars, P!tables, P!others, P!slots
  <1> QED
    BY <1>1, <1>2, <1>3

(* A step of one part is none of the others. *)
LEMMA OnePartSteps ==
    ASSUME [Next]_deliveryVars
    PROVE  /\ UNCHANGED part
           /\ [OutboxNext]_outboxVars
           /\ [StreamsNext]_streamVars
           /\ [MenuNext]_menuVars
           /\ [C!Next]_checkoutVars
  BY DEF Next, deliveryVars

LEMMA CheckoutTypeCorrect == P!Spec => []C!TypeOK
  <1>1. [c \in {c1} |-> latte] \in [{c1} -> {latte}]
    OBVIOUS
  <1>2. P!Spec => []P!TypeOK
    BY <1>1, DeliveryOK, P!TypeCorrect
  <1>3. P!TypeOK => C!TypeOK
    BY DEF C!TypeOK, P!TypeOK, C!Steps, P!Steps, C!Jobs, P!Jobs, C!Kinds, P!Kinds
  <1> QED
    BY <1>2, <1>3, PTL

(* Side by side, each part is what it is alone, and its invariant holds; of *)
(* the menus the invariant only, because their worker, which is never at    *)
(* rest, is fair in its own part only (MenuGoesOn).                         *)
THEOREM EachDeliveryAlone ==
    Spec => /\ []OutboxIInv /\ []StreamsIInv /\ []MenuIInv /\ P!Spec
            /\ OutboxSpec /\ StreamsSpec
  <1>1. Init => OutboxInit /\ StreamsInit /\ MenuInit /\ P!Init
    BY OneCheckout DEF Init
  <1>2. [Next]_deliveryVars =>
            /\ [OutboxNext]_outboxVars
            /\ [StreamsNext]_streamVars
            /\ [MenuNext]_menuVars
            /\ [P!Next]_(P!vars)
    BY OnePartSteps, OneCheckout
  <1> QED
    BY <1>1, <1>2, OutboxIInit, OutboxIStep, StreamsIInit, StreamsIStep, MenuIInit,
       MenuIStep, PTL DEF Spec, OutboxSpec, StreamsSpec, P!Spec

(* Side by side too, the state of the part that acts is of its types. *)
THEOREM DeliveryTypeCorrect == Spec => []TypesOK
  <1>1. Spec => [](part \in Parts)
    <2>1. Init => part \in Parts
      BY DEF Init
    <2>2. part \in Parts /\ [Next]_deliveryVars => (part \in Parts)'
      BY OnePartSteps
    <2> QED
      BY <2>1, <2>2, PTL DEF Spec
  <1>2. part \in Parts /\ OutboxIInv /\ StreamsIInv /\ MenuIInv /\ C!TypeOK => TypesOK
    <2>1. OutboxIInv /\ StreamsIInv /\ MenuIInv
             => OutboxTypeOK /\ StreamsTypeOK /\ MenuTypeOK
      BY DEF OutboxIInv, StreamsIInv, MenuIInv
    <2>2. part \in Parts => part \in {"outbox", "streams", "menus", "checkout"}
      BY DeliveryOK
    <2>3. /\ part \in {"outbox", "streams", "menus", "checkout"}
          /\ OutboxTypeOK /\ StreamsTypeOK /\ MenuTypeOK /\ C!TypeOK
          => TypesOK
      BY Zenon DEF TypesOK
    <2> QED
      BY <2>1, <2>2, <2>3
  <1> QED
    BY <1>1, <1>2, EachDeliveryAlone, CheckoutTypeCorrect, PTL
=============================================================================
