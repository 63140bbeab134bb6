-------------------------- MODULE NotificationOutbox --------------------------
(***************************************************************************)
(* The push notifications of one order (services/notifications): status     *)
(* changes come over HTTP and over the event bus, are deduplicated by       *)
(* status, become one outbox row per device of the customer, and are sent   *)
(* by batches that the notifications-dispatch worker asks for.              *)
(*                                                                         *)
(* Neither enqueueing nor a batch is a transaction, and a batch claims      *)
(* nothing: the worker waits for the answer before it asks again, but a     *)
(* request it gave up on, or a second worker, may still be running.         *)
(***************************************************************************)
EXTENDS Naturals, Sequences, FiniteSets

CONSTANTS
    PushStatuses,   \* statuses of the order that are announced
    Devices,        \* devices the customer may register
    Publishers,     \* handlers of status changes
    Batches,        \* outbox/process requests
    BatchSize,
    MaxPushFaults   \* bound: deaths of handlers and answers lost

ASSUME OutboxOK ==
    /\ BatchSize \in Nat \ {0}
    /\ MaxPushFaults \in Nat
    /\ PushStatuses # {}

VARIABLES
    devices,    \* notifications_push_tokens of the customer
    marked,     \* notifications_order_state_dispatches: statuses marked
    outbox,     \* notifications_outbox, oldest row first
    pushed,     \* Expo: how often it delivered each <<status, device>>
    publisher,  \* per handler: the next effect, its status, its recipients
    batch,      \* per request: the next effect, the rows still to send, ...
    faults,     \* faults so far
    owed,       \* history: <<status, device>> registered when it was marked
    overlapped  \* history: a batch was listed while another was in progress

outboxVars == <<devices, marked, outbox, pushed, publisher, batch, faults,
                owed, overlapped>>

outboxMaxAttempts == 3

shouldSuppressOrderPushStatus(status) == status \in {"PENDING_PAYMENT", "CANCELED"}

Announced == {status \in PushStatuses : ~shouldSuppressOrderPushStatus(status)}

Pushes == Announced \X Devices

NoPublisher == [step |-> "idle", status |-> CHOOSE s \in PushStatuses : TRUE,
                recipients |-> {}]
NoBatch == [step |-> "idle", todo |-> {}, becomes |-> "PENDING", attempts |-> 0]

OutboxInit ==
    /\ devices = {}
    /\ marked = {}
    /\ outbox = <<>>
    /\ pushed = [p \in Pushes |-> 0]
    /\ publisher = [p \in Publishers |-> NoPublisher]
    /\ batch = [b \in Batches |-> NoBatch]
    /\ faults = 0
    /\ owed = {}
    /\ overlapped = FALSE

unqueued == <<devices, marked, publisher, owed>>
unsent == <<pushed, batch, overlapped>>

-----------------------------------------------------------------------------
(* Devices and status changes.                                              *)

(* upsertPushToken: the token of a device replaces the one it had. *)
UpsertPushToken(d) ==
    /\ d \notin devices
    /\ devices' = devices \cup {d}
    /\ UNCHANGED <<marked, outbox, publisher, faults, owed, unsent>>

ReceiveStatus(p, status) ==
    /\ publisher[p].step = "idle"
    /\ ~shouldSuppressOrderPushStatus(status)
    /\ publisher' = [publisher EXCEPT ![p].step = "mark", ![p].status = status]
    /\ UNCHANGED <<devices, marked, outbox, faults, owed, unsent>>

(* Mutant: the dispatch is not marked. *)
MarkDispatchNever(p) ==
    /\ publisher[p].step = "mark"
    /\ owed' = owed \cup ({publisher[p].status} \X devices)
    /\ publisher' = [publisher EXCEPT ![p].step = "list"]
    /\ UNCHANGED <<devices, marked, outbox, faults, unsent>>

(* markOrderStateDispatchIfNew: the insert fails when the row exists. *)
MarkDispatch(p) ==
    /\ publisher[p].step = "mark"
    /\ IF publisher[p].status \in marked
       THEN /\ publisher' = [publisher EXCEPT ![p] = NoPublisher]
            /\ UNCHANGED <<marked, owed>>
       ELSE /\ publisher' = [publisher EXCEPT ![p].step = "list"]
            /\ marked' = marked \cup {publisher[p].status}
            /\ owed' = owed \cup ({publisher[p].status} \X devices)
    /\ UNCHANGED <<devices, outbox, faults, unsent>>

ListRecipients(p) ==
    /\ publisher[p].step = "list"
    /\ publisher' = [publisher EXCEPT
           ![p] = IF devices = {} THEN NoPublisher
                  ELSE [@ EXCEPT !.step = "insert", !.recipients = devices]]
    /\ UNCHANGED <<devices, marked, outbox, faults, owed, unsent>>

(* One INSERT per device, each on its own. *)
EnqueueRow(p) ==
    /\ publisher[p].step = "insert"
    /\ \E d \in publisher[p].recipients :
          /\ outbox' = Append(outbox, [push |-> <<publisher[p].status, d>>,
                  status |-> "PENDING", attempts |-> 0, due |-> TRUE])
          /\ publisher' = [publisher EXCEPT
                 ![p] = IF publisher[p].recipients = {d} THEN NoPublisher
                        ELSE [publisher[p] EXCEPT !.recipients = @ \ {d}]]
    /\ UNCHANGED <<devices, marked, faults, owed, unsent>>

(* The handler dies. Any error of markOrderStateDispatchIfNew is taken for  *)
(* a duplicate, and nobody sends the status change again.                   *)
PublisherDies(p) ==
    /\ publisher[p].step # "idle"
    /\ faults < MaxPushFaults
    /\ faults' = faults + 1
    /\ publisher' = [publisher EXCEPT ![p] = NoPublisher]
    /\ UNCHANGED <<devices, marked, outbox, owed, unsent>>

-----------------------------------------------------------------------------
(* POST /v1/notifications/internal/outbox/process.                          *)

Due(row) == row.status = "PENDING" /\ row.due

(* listPendingOutbox: the oldest rows that are due, with their attempts. A  *)
(* row is known by its id, its place in the outbox, and no row is deleted.  *)
ListPending(b) ==
    LET due == {i \in DOMAIN outbox : Due(outbox[i])}
        oldest == {i \in due : Cardinality({j \in due : j < i}) < BatchSize}
    IN  /\ batch[b].step = "idle"
        /\ due # {}
        /\ batch' = [batch EXCEPT ![b].step = "send",
               ![b].todo = {[row |-> i, attempts |-> outbox[i].attempts] : i \in oldest}]
        /\ overlapped' = (overlapped \/ \E c \in Batches : batch[c].step # "idle")
        /\ UNCHANGED <<unqueued, outbox, pushed, faults>>

(* The entry a batch is at, the oldest left, and what it pushes. *)
Entry(b) == CHOOSE e \in batch[b].todo : \A f \in batch[b].todo : e.row <= f.row
Pushing(b) == outbox[Entry(b).row].push

(* What a push that failed makes of its row. *)
Refused(b) ==
    IF Entry(b).attempts + 1 >= outboxMaxAttempts THEN "FAILED" ELSE "PENDING"

Outcome(b, status) == batch' = [batch EXCEPT ![b].step = "count", ![b].becomes = status]

PushDelivered(b) ==
    /\ batch[b].step = "send"
    /\ pushed' = [pushed EXCEPT ![Pushing(b)] = @ + 1]
    /\ Outcome(b, "DISPATCHED")
    /\ UNCHANGED <<unqueued, outbox, faults, overlapped>>

PushRefused(b) ==
    /\ batch[b].step = "send"
    /\ Outcome(b, Refused(b))
    /\ UNCHANGED <<unqueued, outbox, pushed, faults, overlapped>>

(* Expo delivers and its answer is lost, or the row cannot be marked then:  *)
(* the loop catches either and takes the push for a failed one.             *)
PushAnswerLost(b) ==
    /\ batch[b].step = "send"
    /\ faults < MaxPushFaults
    /\ faults' = faults + 1
    /\ pushed' = [pushed EXCEPT ![Pushing(b)] = @ + 1]
    /\ Outcome(b, Refused(b))
    /\ UNCHANGED <<unqueued, outbox, overlapped>>

(* getAttempts: the attempts are read again before the row is written. *)
CountAttempt(b) ==
    /\ batch[b].step = "count"
    /\ batch' = [batch EXCEPT ![b].step = "write",
                     ![b].attempts = outbox[Entry(b).row].attempts + 1]
    /\ UNCHANGED <<unqueued, outbox, pushed, faults, overlapped>>

(* Mutant: a retry keeps the attempts as they were. *)
WriteRowUncounted(b) ==
    /\ batch[b].step = "write"
    /\ LET i == Entry(b).row
       IN  outbox' = [outbox EXCEPT ![i].status = batch[b].becomes,
                        ![i].due = (batch[b].becomes # "PENDING")]
    /\ batch' = [batch EXCEPT ![b] = IF @.todo = {Entry(b)} THEN NoBatch
                    ELSE [NoBatch EXCEPT !.step = "send",
                                         !.todo = batch[b].todo \ {Entry(b)}]]
    /\ UNCHANGED <<unqueued, pushed, faults, overlapped>>

(* markOutboxDispatched, markOutboxRetry, markOutboxFailed: the row becomes *)
(* what this batch saw, whatever it is by now. A retry waits for its time.  *)
WriteRow(b) ==
    /\ batch[b].step = "write"
    /\ LET i == Entry(b).row
       IN  outbox' = [outbox EXCEPT ![i].status = batch[b].becomes,
                        ![i].attempts = batch[b].attempts,
                        ![i].due = (batch[b].becomes # "PENDING")]
    /\ batch' = [batch EXCEPT ![b] = IF @.todo = {Entry(b)} THEN NoBatch
                    ELSE [NoBatch EXCEPT !.step = "send",
                                         !.todo = batch[b].todo \ {Entry(b)}]]
    /\ UNCHANGED <<unqueued, pushed, faults, overlapped>>

BatchDies(b) ==
    /\ batch[b].step # "idle"
    /\ faults < MaxPushFaults
    /\ faults' = faults + 1
    /\ batch' = [batch EXCEPT ![b] = NoBatch]
    /\ UNCHANGED <<unqueued, outbox, pushed, overlapped>>

(* computeRetryDelayMs after the attempt, the row is due again. *)
RetryFallsDue(i) ==
    /\ i \in DOMAIN outbox
    /\ ~outbox[i].due
    /\ outbox' = [outbox EXCEPT ![i].due = TRUE]
    /\ UNCHANGED <<unqueued, unsent, faults>>

-----------------------------------------------------------------------------
PublisherStep(p) == MarkDispatch(p) \/ ListRecipients(p) \/ EnqueueRow(p)

BatchStep(b) ==
    \/ PushDelivered(b) \/ PushRefused(b) \/ PushAnswerLost(b)
    \/ CountAttempt(b) \/ WriteRow(b)

Rows == 1..Cardinality(Pushes)

OutboxNext ==
    \/ \E d \in Devices : UpsertPushToken(d)
    \/ \E p \in Publishers :
          \/ PublisherStep(p) \/ PublisherDies(p)
          \/ \E status \in PushStatuses : ReceiveStatus(p, status)
    \/ \E b \in Batches : ListPending(b) \/ BatchStep(b) \/ BatchDies(b)
    \/ \E i \in Rows : RetryFallsDue(i)

(* The worker asks again after every answer, time passes, and a request     *)
(* that is not killed goes on. Status changes need not come.                *)
OutboxFairness ==
    /\ \A b \in Batches : WF_outboxVars(BatchStep(b)) /\ WF_outboxVars(ListPending(b))
    /\ \A i \in Rows : WF_outboxVars(RetryFallsDue(i))

OutboxSpec == OutboxInit /\ [][OutboxNext]_outboxVars /\ OutboxFairness

-----------------------------------------------------------------------------
(* Properties.                                                              *)

OutboxRows ==
    [push : Pushes, status : {"PENDING", "DISPATCHED", "FAILED"}, attempts : Nat,
     due : BOOLEAN]
StatusHandlers ==
    [step : {"idle", "mark", "list", "insert"}, status : PushStatuses,
     recipients : SUBSET Devices]
OutboxRequests ==
    [step : {"idle", "send", "count", "write"}, todo : SUBSET [row : Nat, attempts : Nat],
     becomes : {"PENDING", "DISPATCHED", "FAILED"}, attempts : Nat]

OutboxTypeOK ==
    /\ devices \subseteq Devices
    /\ marked \subseteq Announced
    /\ outbox \in Seq(OutboxRows)
    /\ pushed \in [Pushes -> Nat]
    /\ publisher \in [Publishers -> StatusHandlers]
    /\ batch \in [Batches -> OutboxRequests]
    /\ \A b \in Batches : batch[b].todo = {} <=> batch[b].step = "idle"
    /\ faults \in 0..MaxPushFaults
    /\ owed \subseteq Pushes
    /\ overlapped \in BOOLEAN

(* A status change that comes twice, over HTTP and over the bus, is queued  *)
(* once for each device; and every device the customer had when it was      *)
(* accepted gets its row, unless the handler died after it marked it.       *)
QueuedOnce ==
    /\ \A i, j \in DOMAIN outbox : outbox[i].push = outbox[j].push => i = j
    /\ faults = 0 /\ (\A p \in Publishers : publisher[p].step = "idle")
          => owed \subseteq {outbox[i].push : i \in DOMAIN outbox}

(* While batches do not overlap, a row is tried at most outboxMaxAttempts   *)
(* times, given up exactly then, and delivered more than once only when an  *)
(* answer was lost: DISPATCHED is final, and means the push was made.       *)
TriedAndDelivered ==
    ~overlapped => \A i \in DOMAIN outbox :
        /\ outbox[i].status = "PENDING" => outbox[i].attempts < outboxMaxAttempts
        /\ outbox[i].status = "FAILED" => outbox[i].attempts = outboxMaxAttempts
        /\ outbox[i].status = "DISPATCHED" => pushed[outbox[i].push] > 0
        /\ pushed[outbox[i].push] <= faults + 1

Waiting(i) == i \in DOMAIN outbox /\ outbox[i].status = "PENDING"

(* Whatever the batches do to each other, no row waits for ever: the queue  *)
(* drains.                                                                  *)
OutboxDrains == \A i \in Rows : Waiting(i) ~> ~Waiting(i)

(* One row for each status and device, and no more pushes of it than faults *)
(* call for.                                                                *)
NotifiedOnce == QueuedOnce /\ TriedAndDelivered
=============================================================================
