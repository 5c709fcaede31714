------------------------ MODULE NotificationDelivery ------------------------
(***************************************************************************)
(* The notification_deliveries table and everything that writes it:        *)
(*   - process_event inserts one row per recipient of an outbox event;     *)
(*   - the notification workers claim a row under a lease, call Telegram   *)
(*     outside any transaction and record the result behind a fence        *)
(*     (claim_delivery, deliver_one, _send_telegram, finish_delivery);     *)
(*   - an administrator sends a dead row round again (retry_notification). *)
(* Clients move their Telegram binding, workers crash and time passes at   *)
(* any point between these steps.  Each database transaction is one        *)
(* action; everything deliver_one does between two transactions is not.    *)
(*                                                                         *)
(* A definition named Wrong... is no part of the model: it is a plausible  *)
(* bug, put in the place of the definition below it to show that the       *)
(* properties notice.                                                      *)
(***************************************************************************)
EXTENDS Integers, FiniteSets

CONSTANTS
    Events,         \* ids of the outbox events that reach process_event
    Clients,        \* users who own tickets
    Chats,          \* Telegram chat ids
    NoChat,         \* absent chat id (None or "") or a binding not to be used
    Payload,        \* the outbox row of an event, see PayloadType
    Legacy,         \* rows kept from the first schema, in state "failed"
    Workers,        \* notification-worker processes
    Reliable,       \* the workers that keep running (fairness only)
    Null,           \* SQL NULL
    MaxAttempts,    \* MAX_ATTEMPTS
    LeaseSeconds,   \* LEASE_SECONDS
    BackoffCap,     \* the 300 of min(300, 2 ** attempt)
    RetryAfterCap,  \* the 86400 that retry_after is clamped to
    RetryAfters,    \* values of retry_after that Telegram may answer with
    MaxReplays      \* bound: retries the administrators ask for, per row

-----------------------------------------------------------------------------
(* Recipients of an event: the primary data of a row. *)

EventTypes == {"ticket.created", "ticket.assigned", "ticket.status_changed",
               "ticket.comment_added"}

PayloadRecord ==
    [type : EventTypes, internal : BOOLEAN, client : Clients,
     client_chat : Chats \cup {NoChat}, operator_chat : Chats \cup {NoChat}]

Candidates(p) ==
    IF p.type = "ticket.created" \/ p.internal
    THEN {p.operator_chat}
    ELSE IF p.type \in {"ticket.assigned", "ticket.status_changed"}
         THEN {p.client_chat}
         ELSE {p.client_chat, p.operator_chat}

\* `recipients or [""]`: an event nobody is to hear of still gets one row.
RecipientsOf(e) ==
    LET chats == Candidates(Payload[e]) \ {NoChat}
    IN  IF chats = {} THEN {NoChat} ELSE chats

\* A row is identified by uq_delivery_recipient: (event_id, recipient).
Deliveries ==
    {d \in Events \X (Chats \cup {NoChat}) : d[2] \in RecipientsOf(d[1])}

\* deliver_one re-checks the binding when recipient == payload["client_chat_id"].
ClientAddressed(d) == d[2] = Payload[d[1]].client_chat
ClientOf(d) == Payload[d[1]].client

Min2(a, b) == IF a < b THEN a ELSE b
Max2(a, b) == IF a > b THEN a ELSE b

Backoff(attempt) == Min2(BackoffCap, 2 ^ attempt)

ASSUME PayloadAssumption == Payload \in [Events -> PayloadRecord]
ASSUME ChatAssumption == NoChat \notin Chats
ASSUME LegacyAssumption == Legacy \subseteq Deliveries
ASSUME NullAssumption == Null \notin Int /\ Null \notin Deliveries
ASSUME ReliableAssumption == Reliable \subseteq Workers
ASSUME NumberAssumption ==
    /\ MaxAttempts \in Nat \ {0}
    /\ LeaseSeconds \in Nat \ {0}
    /\ BackoffCap \in Nat /\ RetryAfterCap \in Nat
    /\ RetryAfters \subseteq Int
    /\ MaxReplays \in Nat
\* 2 ** attempt is a natural number: stated so that no proof has to unfold ^.
ASSUME BackoffAssumption == \A attempt \in 1..MaxAttempts : Backoff(attempt) \in Nat

-----------------------------------------------------------------------------
VARIABLES
    delivery,   \* the table: a row per element of Deliveries
    worker,     \* what each worker process holds between its transactions
    chat,       \* chat[c]: the verified chat of an active client, or NoChat
    now,        \* datetime.now(UTC), one clock for every process
    replays,    \* replays[d]: rows of delivery_replays for d
    (* History, read by the properties only: *)
    claims,     \* claims[d]: how many times d was claimed; numbers the claims
    accepted,   \* accepted[d]: the claims of d whose message Telegram accepted
    uncertain   \* uncertain[d]: the claims of d whose result never became known

vars == <<delivery, worker, chat, now, replays, claims, accepted, uncertain>>
history == <<claims, accepted, uncertain>>

Statuses == {"absent", "pending", "sending", "retry", "dead", "sent", "skipped", "failed"}
Settled == {"dead", "sent", "skipped", "failed"}
Errors == {"none", "recipient_not_configured", "recipient_changed",
           "attempts_exhausted", "rejected", "transient"}

Row == [status : Statuses, error : Errors, attempts : Nat, next_attempt_at : Nat,
        lease_until : Nat \cup {Null}, lease_token : Nat \cup {Null}]

Result == [state : {"sent", "retry", "dead"}, error : Errors, delay : Nat]

\* until and linked are history: the lease_until of this worker's claim, and
\* whether the recipient was the client's chat at some moment since that claim.
WorkerState ==
    [phase : {"idle", "claimed", "cleared", "answered"},
     job : Deliveries \cup {Null}, token : Nat \cup {Null}, attempt : Nat,
     result : Result \cup {Null}, until : Nat, linked : BOOLEAN]

Idle == [phase |-> "idle", job |-> Null, token |-> Null, attempt |-> 0,
         result |-> Null, until |-> 0, linked |-> FALSE]

TypeOK ==
    /\ delivery \in [Deliveries -> Row]
    /\ worker \in [Workers -> WorkerState]
    /\ chat \in [Clients -> Chats \cup {NoChat}]
    /\ now \in Nat
    /\ replays \in [Deliveries -> Nat]
    /\ claims \in [Deliveries -> Nat]
    /\ accepted \in [Deliveries -> SUBSET Nat]
    /\ uncertain \in [Deliveries -> SUBSET Nat]

EmptyRow == [status |-> "absent", error |-> "none", attempts |-> 0,
             next_attempt_at |-> 0, lease_until |-> Null, lease_token |-> Null]

Init ==
    /\ delivery = [d \in Deliveries |->
            IF d \in Legacy THEN [EmptyRow EXCEPT !.status = "failed"] ELSE EmptyRow]
    /\ worker = [w \in Workers |-> Idle]
    /\ chat \in [Clients -> Chats \cup {NoChat}]
    /\ now = 0
    /\ replays = [d \in Deliveries |-> 0]
    /\ claims = [d \in Deliveries |-> 0]
    /\ accepted = [d \in Deliveries |-> {}]
    /\ uncertain = [d \in Deliveries |-> {}]

-----------------------------------------------------------------------------
(* process_event: all rows of an event in one transaction.  A row of the   *)
(* event already there, of either schema, makes the call return early.     *)

WrongReceived(e) ==    \* legacy rows do not count as received
    \E d \in Deliveries : d[1] = e /\ delivery[d].status \notin {"absent", "failed"}
Received(e) == \E d \in Deliveries : d[1] = e /\ delivery[d].status # "absent"

NewRow(d) ==
    IF d[2] = NoChat
    THEN [EmptyRow EXCEPT !.status = "skipped", !.error = "recipient_not_configured",
                          !.next_attempt_at = now]
    ELSE [EmptyRow EXCEPT !.status = "pending", !.next_attempt_at = now]

ProcessEvent(e) ==
    /\ ~Received(e)
    /\ delivery' = [d \in Deliveries |-> IF d[1] = e THEN NewRow(d) ELSE delivery[d]]
    /\ UNCHANGED <<worker, chat, now, replays, history>>

-----------------------------------------------------------------------------
(* claim_delivery *)

WrongLeaseLapsed(d) == delivery[d].status = "sending"    \* takes live leases too
LeaseLapsed(d) ==
    /\ delivery[d].status = "sending"
    /\ delivery[d].lease_until <= now

WrongDue(d) ==    \* nobody takes over a lapsed lease
    delivery[d].status \in {"pending", "retry"} /\ delivery[d].next_attempt_at <= now
Due(d) ==
    \/ /\ delivery[d].status \in {"pending", "retry"}
       /\ delivery[d].next_attempt_at <= now
    \/ LeaseLapsed(d)

\* ORDER BY next_attempt_at, id LIMIT 1 with SKIP LOCKED.  An id is a random
\* uuid, so a tie may go either way; each other worker's own transaction can
\* hold the lock of at most one row, which is then passed over.
Claimable ==
    {d \in Deliveries :
        /\ Due(d)
        /\ Cardinality({c \in Deliveries :
                /\ Due(c)
                /\ delivery[c].next_attempt_at < delivery[d].next_attempt_at})
           < Cardinality(Workers)}

WrongExhausted(d) == delivery[d].attempts > MaxAttempts
Exhausted(d) == delivery[d].attempts >= MaxAttempts

\* A lease that lapses leaves its claim without a known result.
Lapse(d) ==
    uncertain' = [uncertain EXCEPT ![d] =
        IF LeaseLapsed(d) THEN @ \cup {delivery[d].lease_token} ELSE @]

ClaimDelivery(w, d) ==
    /\ worker[w].phase = "idle"
    /\ d \in Claimable
    /\ ~Exhausted(d)
    /\ claims' = [claims EXCEPT ![d] = @ + 1]
    /\ delivery' = [delivery EXCEPT ![d] =
            [@ EXCEPT !.status = "sending", !.attempts = delivery[d].attempts + 1,
                      !.lease_token = claims[d] + 1,
                      !.lease_until = now + LeaseSeconds]]
    /\ worker' = [worker EXCEPT ![w] =
            [Idle EXCEPT !.phase = "claimed", !.job = d, !.token = claims[d] + 1,
                         !.attempt = delivery[d].attempts + 1,
                         !.until = now + LeaseSeconds,
                         !.linked = (chat[ClientOf(d)] = d[2])]]
    /\ Lapse(d)
    /\ UNCHANGED <<chat, now, replays, accepted>>

\* The lease of the last attempt lapsed: the row is given up, not sent again.
GiveUpDelivery(w, d) ==
    /\ worker[w].phase = "idle"
    /\ d \in Claimable
    /\ Exhausted(d)
    /\ delivery' = [delivery EXCEPT ![d] =
            [@ EXCEPT !.status = "dead", !.error = "attempts_exhausted",
                      !.lease_until = Null, !.lease_token = Null]]
    /\ Lapse(d)
    /\ UNCHANGED <<worker, chat, now, replays, claims, accepted>>

-----------------------------------------------------------------------------
(* deliver_one: the part between the two transactions.                     *)

WrongFailureState(attempt, permanent, error, delay) ==    \* the first schema's state
    [state |-> IF permanent \/ attempt >= MaxAttempts THEN "failed" ELSE "retry",
     error |-> error, delay |-> delay]
WrongFailureCount(attempt, permanent, error, delay) ==    \* one attempt too few
    [state |-> IF permanent \/ attempt + 1 >= MaxAttempts THEN "dead" ELSE "retry",
     error |-> error, delay |-> delay]
Failure(attempt, permanent, error, delay) ==
    [state |-> IF permanent \/ attempt >= MaxAttempts THEN "dead" ELSE "retry",
     error |-> error, delay |-> delay]

\* random.uniform(0, 1) is rounded down or up.
JitteredDelays(attempt, retry_after) ==
    {Max2(retry_after, Backoff(attempt) + jitter) : jitter \in 0..1}

WrongClampedRetryAfter(retry_after) == Max2(0, retry_after)
ClampedRetryAfter(retry_after) == Max2(0, Min2(retry_after, RetryAfterCap))

Success == [state |-> "sent", error |-> "none", delay |-> 0]

Answer(w, result) ==
    worker' = [worker EXCEPT ![w] = [@ EXCEPT !.phase = "answered", !.result = result]]

WrongBindingHolds(d) == ClientAddressed(d) => chat[ClientOf(d)] # NoChat
BindingHolds(d) == ClientAddressed(d) => chat[ClientOf(d)] = d[2]

\* The binding still stands, or the row is not addressed to the client's chat.
CheckRecipientOk(w) ==
    /\ worker[w].phase = "claimed"
    /\ BindingHolds(worker[w].job)
    /\ worker' = [worker EXCEPT ![w].phase = "cleared"]
    /\ UNCHANGED <<delivery, chat, now, replays, history>>

\* DeliveryError("recipient_changed", permanent=True)
CheckRecipientChanged(w) ==
    /\ worker[w].phase = "claimed"
    /\ ~BindingHolds(worker[w].job)
    /\ \E delay \in JitteredDelays(worker[w].attempt, 0) :
           Answer(w, Failure(worker[w].attempt, TRUE, "recipient_changed", delay))
    /\ UNCHANGED <<delivery, chat, now, replays, history>>

\* The lookup of the client failed: the generic handler, without jitter.
LookupFailed(w) ==
    /\ worker[w].phase = "claimed"
    /\ ClientAddressed(worker[w].job)
    /\ Answer(w, Failure(worker[w].attempt, FALSE, "transient", Backoff(worker[w].attempt)))
    /\ UNCHANGED <<delivery, chat, now, replays, history>>

Accept(w) ==
    accepted' = [accepted EXCEPT ![worker[w].job] = @ \cup {worker[w].token}]

\* {"ok": true, "result": {...}} came back.
SendConfirmed(w) ==
    /\ worker[w].phase = "cleared"
    /\ Answer(w, Success)
    /\ Accept(w)
    /\ UNCHANGED <<delivery, chat, now, replays, claims, uncertain>>

\* Telegram accepted the message but its answer was lost, cut or malformed:
\* transport_error, invalid_response, or an exception of http.client that the
\* generic handler takes (its delay is the one without jitter).
SendUnconfirmed(w) ==
    /\ worker[w].phase = "cleared"
    /\ \E delay \in JitteredDelays(worker[w].attempt, 0) :
           Answer(w, Failure(worker[w].attempt, FALSE, "transient", delay))
    /\ Accept(w)
    /\ uncertain' = [uncertain EXCEPT ![worker[w].job] = @ \cup {worker[w].token}]
    /\ UNCHANGED <<delivery, chat, now, replays, claims>>

\* Nothing was delivered: bot_not_configured, transport_error, 429, 5xx ...
SendFailed(w) ==
    /\ worker[w].phase = "cleared"
    /\ \E retry_after \in RetryAfters :
           \E delay \in JitteredDelays(worker[w].attempt, ClampedRetryAfter(retry_after)) :
               Answer(w, Failure(worker[w].attempt, FALSE, "transient", delay))
    /\ UNCHANGED <<delivery, chat, now, replays, history>>

\* 400, 403 or 404.
SendRejected(w) ==
    /\ worker[w].phase = "cleared"
    /\ \E retry_after \in RetryAfters :
           \E delay \in JitteredDelays(worker[w].attempt, ClampedRetryAfter(retry_after)) :
               Answer(w, Failure(worker[w].attempt, TRUE, "rejected", delay))
    /\ UNCHANGED <<delivery, chat, now, replays, history>>

-----------------------------------------------------------------------------
(* finish_delivery: an UPDATE guarded by the token and the state.          *)

WrongHoldsRow(w) == delivery[worker[w].job].status = "sending"    \* no fence
HoldsRow(w) ==
    /\ delivery[worker[w].job].status = "sending"
    /\ delivery[worker[w].job].lease_token = worker[w].token

Recorded(row, result) ==
    [row EXCEPT !.status = result.state, !.error = result.error,
                !.lease_token = Null, !.lease_until = Null,
                !.next_attempt_at = now + result.delay]

FinishDelivery(w) ==
    /\ worker[w].phase = "answered"
    /\ delivery' = [delivery EXCEPT ![worker[w].job] =
            IF HoldsRow(w) THEN Recorded(@, worker[w].result) ELSE @]
    /\ worker' = [worker EXCEPT ![w] = Idle]
    /\ UNCHANGED <<chat, now, replays, history>>

\* The process dies, or its finish_delivery raises: run() starts afresh.
WorkerCrash(w) ==
    /\ worker[w].phase # "idle"
    /\ worker' = [worker EXCEPT ![w] = Idle]
    /\ UNCHANGED <<delivery, chat, now, replays, history>>

-----------------------------------------------------------------------------
(* retry_notification, and the environment.                                *)

\* A legacy row has an empty payload and is never "dead": both guards refuse it.
RetryNotification(d) ==
    /\ delivery[d].status = "dead"
    /\ d \notin Legacy
    /\ replays[d] < MaxReplays
    /\ delivery' = [delivery EXCEPT ![d] =
            [@ EXCEPT !.status = "retry", !.attempts = 0, !.error = "none",
                      !.next_attempt_at = now]]
    /\ replays' = [replays EXCEPT ![d] = @ + 1]
    /\ UNCHANGED <<worker, chat, now, history>>

\* The client confirms another chat, or the account is deactivated.
RebindChat(c, k) ==
    /\ chat[c] # k
    /\ chat' = [chat EXCEPT ![c] = k]
    /\ worker' = [w \in Workers |->
            IF worker[w].job # Null /\ ClientOf(worker[w].job) = c /\ worker[w].job[2] = k
            THEN [worker[w] EXCEPT !.linked = TRUE] ELSE worker[w]]
    /\ UNCHANGED <<delivery, now, replays, history>>

\* Time only matters while something in the table waits for it.
Waiting(d) ==
    \/ delivery[d].status \in {"pending", "retry"} /\ delivery[d].next_attempt_at > now
    \/ delivery[d].status = "sending" /\ delivery[d].lease_until > now

Tick ==
    /\ \E d \in Deliveries : Waiting(d)
    /\ now' = now + 1
    /\ UNCHANGED <<delivery, worker, chat, replays, history>>

-----------------------------------------------------------------------------
Claim(w) == \E d \in Deliveries : ClaimDelivery(w, d) \/ GiveUpDelivery(w, d)

Attempt(w) ==
    \/ CheckRecipientOk(w) \/ CheckRecipientChanged(w) \/ LookupFailed(w)
    \/ SendConfirmed(w) \/ SendUnconfirmed(w) \/ SendFailed(w) \/ SendRejected(w)
    \/ FinishDelivery(w)

Next ==
    \/ \E e \in Events : ProcessEvent(e)
    \/ \E w \in Workers : Claim(w) \/ Attempt(w) \/ WorkerCrash(w)
    \/ \E d \in Deliveries : RetryNotification(d)
    \/ \E c \in Clients, k \in Chats \cup {NoChat} : RebindChat(c, k)
    \/ Tick

Spec == Init /\ [][Next]_vars

\* run() calls deliver_one again and again, catches what it raises, and every
\* call it makes has a timeout.  One reliable worker is enough; the others may
\* hang or stay down for good, and crashes are never ruled out.
FairSpec ==
    /\ Spec
    /\ WF_vars(Tick)
    /\ \A w \in Reliable : WF_vars(Claim(w)) /\ WF_vars(Attempt(w))

-----------------------------------------------------------------------------
(* Properties *)

\* The lease columns are set exactly while a row is being sent: no exit from
\* "sending" (result, giving up, replay) leaves a token behind that a worker
\* from before the exit could still present.
LeaseColumnsAgree ==
    \A d \in Deliveries :
        /\ delivery[d].status = "sending" <=> delivery[d].lease_token # Null
        /\ delivery[d].status = "sending" <=> delivery[d].lease_until # Null

\* Two workers never hold unexpired leases on the same row, whatever crashes,
\* results and replays lie between their claims.
OneLiveLease ==
    \A v, w \in Workers :
        /\ v # w
        /\ worker[v].phase # "idle" /\ worker[w].phase # "idle"
        /\ worker[v].job = worker[w].job
        => worker[v].until <= now \/ worker[w].until <= now

\* Claims are paid for: a row is claimed at most MAX_ATTEMPTS times for its
\* first cycle and for each replay, across takeovers and crashes.
ClaimBudget ==
    \A d \in Deliveries : claims[d] <= MaxAttempts * (1 + replays[d])

\* "sent" is Telegram's word for the newest claim, never the word of a worker
\* that lost its lease nor an answer that was not a confirmation.
SentOnlyIfAccepted ==
    \A d \in Deliveries :
        delivery[d].status = "sent" => claims[d] \in accepted[d]

\* At least once, and the exact price of it: of all messages Telegram accepted
\* for a row, at most one belongs to a claim whose result was not lost (its
\* lease lapsed, or the answer to its request never arrived).
DuplicatesNeedALostResult ==
    \A d \in Deliveries :
        \A m, n \in accepted[d] \ uncertain[d] : m = n

\* A row is given up for a permanent error, or after all its attempts.
DeadForAReason ==
    \A d \in Deliveries :
        delivery[d].status = "dead" =>
            \/ delivery[d].error \in {"recipient_changed", "rejected"}
            \/ /\ delivery[d].error \in {"attempts_exhausted", "transient"}
               /\ delivery[d].attempts = MaxAttempts

\* A worker about to call Telegram for the client's chat has that chat from
\* the client: it was the verified chat at some moment since the claim.
NoStaleChat ==
    \A w \in Workers :
        worker[w].phase = "cleared" /\ ClientAddressed(worker[w].job)
            => worker[w].linked

\* No answer of Telegram parks a row for longer than the clamp allows.
RetryWithinHorizon ==
    \A d \in Deliveries :
        delivery[d].status = "retry" =>
            delivery[d].next_attempt_at <= now + Max2(RetryAfterCap, BackoffCap + 1)

\* A result enters the table only from the newest claim of the row; the only
\* other way out of "sending" is giving up a lapsed lease.
OnlyLatestClaimDecides ==
    [][\A d \in Deliveries :
        delivery[d].status = "sending" /\ delivery'[d].status # "sending" =>
            \/ \E w \in Workers :
                  /\ worker[w].phase = "answered" /\ worker[w].job = d
                  /\ worker[w].token = claims[d]
                  /\ delivery'[d].status = worker[w].result.state
            \/ LeaseLapsed(d) /\ delivery'[d].status = "dead"]_vars

\* sent, skipped and legacy failed rows never change again, whoever is still
\* holding them; a dead row moves only by an audited replay.
SettledStaysSettled ==
    [][\A d \in Deliveries :
        /\ delivery[d].status \in {"sent", "skipped", "failed"} => delivery'[d] = delivery[d]
        /\ delivery[d].status = "dead" =>
              delivery'[d] = delivery[d] \/ replays'[d] = replays[d] + 1]_vars
=============================================================================
