------------------------------ MODULE Telegram ------------------------------
(* The Telegram adapter: polling for commands, the two-step confirmation of  *)
(* an emergency, read-only queries and the notification of audit events.     *)
(* One poll answers the updates of a batch in order; the first reply that    *)
(* cannot be sent ends it, and the caller keeps its cursor. Challenges live  *)
(* in the memory of the process.                                             *)
EXTENDS Integers, Sequences, FiniteSets

CONSTANTS
    Chats, Users,        \* chats and senders known to Telegram
    AllowedChats,        \* the chat allowlist of the configuration
    Operators,           \* the users that may authorise an emergency
    Inputs,              \* who writes what: <<chat, user, text>>
    BatchLimit,          \* MAX_TELEGRAM_UPDATES_PER_POLL
    MaxPending,          \* MAX_TELEGRAM_PENDING_EMERGENCIES
    ConfirmationTtl,     \* how long a challenge may be confirmed
    MaxUpdates, MaxClock, MaxRestarts, MaxEvents, MaxChallenges,   \* bounds of the model
    NotifyLimit          \* events per notification batch

\* A query stands for every command that is answered with words, malformed ones included.
Texts == {"begin", "confirm", "query", "chatter"}
Senders == {<<i[1], i[2]>> : i \in Inputs}

\* An empty allowlist, or one that names an unknown chat, is no configuration.
ASSUME ConfigAssumption ==
    /\ AllowedChats # {} /\ AllowedChats \subseteq Chats
    /\ Operators # {} /\ Operators \subseteq Users
    /\ Inputs \subseteq Chats \X Users \X Texts

ASSUME LimitsAssumption == BatchLimit \in Nat /\ NotifyLimit \in Nat /\ ConfirmationTtl \in Nat

VARIABLES
    clock,      \* wall clock of caller and server
    updates,    \* what Telegram received, in the order of the update ids
    cursor,     \* the updates the caller's saved offset has passed; Telegram forgets them
    poll,       \* the running poll_once_with_emergency, or NoPoll
    report,     \* what the last poll returned and the caller has not saved
    pending,    \* TelegramEmergencySession.pending
    begun,      \* history: every challenge issued
    known,      \* history: <<challenge, chat>>: the nonce reached the chat
    returned,   \* history: the commands the polls returned, in order
    accepted,   \* history: acceptances that were sent without an error, with their process
    answered,   \* history: updates whose turn ended without an error
    restarts,
    audit,      \* number of committed audit events
    batch,      \* the running notify_confirmed_events, or NoBatch
    saved,      \* the audit sequence the caller has saved
    notified    \* history: <<event, chat>> messages that were accepted

polling == <<clock, updates, cursor, poll, report, pending, begun, known,
             returned, accepted, answered, restarts>>
notifying == <<audit, batch, saved, notified>>
vars == <<polling, notifying>>

WrongNonce == 0
NoPoll == [phase |-> "none"]
NoReport == 0
NoChallenge == [id |-> 0, expires |-> 0]
NoBatch == [phase |-> "none"]

\* What a reply carries: a nonce, the acceptance of a challenge, or only words.
Words == [kind |-> "words", id |-> 0]

Init ==
    /\ clock = 1 /\ updates = <<>> /\ cursor = 0
    /\ poll = NoPoll /\ report = NoReport
    /\ pending = [k \in Senders |-> NoChallenge]
    /\ begun = <<>> /\ known = {} /\ returned = <<>> /\ accepted = {} /\ answered = {}
    /\ restarts = 0
    /\ audit = 0 /\ batch = NoBatch /\ saved = 0 /\ notified = {}

\* The clock is read where a poll starts: only there does it matter when it moves.
Tick ==
    /\ clock < MaxClock /\ poll = NoPoll
    /\ clock' = clock + 1
    /\ UNCHANGED <<updates, cursor, poll, report, pending, begun, known, returned,
                   accepted, answered, restarts, notifying>>

\* Somebody writes to the bot. Users repeat a nonce that one of their chats shows, or a wrong one.
\* Messages are read where a long poll ends: they arrive while it is held. The loops of
\* commands and of notifications share nothing: a behaviour follows one of them.
UserSends(k, text, nonce) ==
    /\ <<k[1], k[2], text>> \in Inputs
    /\ Len(updates) < MaxUpdates
    /\ poll.phase = "fetch" /\ audit = 0
    /\ \/ nonce = WrongNonce
       \/ text = "confirm" /\ \E chat \in Chats : <<chat, k[2]>> \in Senders /\ <<nonce, chat>> \in known
    /\ updates' = Append(updates, [from |-> k, text |-> text, nonce |-> nonce])
    /\ UNCHANGED <<clock, cursor, poll, report, pending, begun, known, returned,
                   accepted, answered, restarts, notifying>>

-----------------------------------------------------------------------------
(* poll_once_with_emergency *)

\* The caller reads its clock before the long poll and passes its cursor.
StartPoll ==
    /\ poll = NoPoll /\ report = NoReport /\ audit = 0
    /\ poll' = [phase |-> "fetch", now |-> clock]
    /\ UNCHANGED <<clock, updates, cursor, report, pending, begun, known, returned,
                   accepted, answered, restarts, notifying>>

\* The server forgets what lies before the offset and answers the next updates: those that
\* have arrived when the long poll ends.
FetchUpdates ==
    /\ poll.phase = "fetch"
    /\ LET available == Len(updates) - cursor
           size == IF available > BatchLimit THEN BatchLimit ELSE available
       IN poll' = [phase |-> "next", now |-> poll.now, at |-> cursor + 1,
                   last |-> cursor + size, reply |-> Words, commands |-> <<>>]
    /\ UNCHANGED <<clock, updates, cursor, report, pending, begun, known, returned, accepted,
                   answered, restarts, notifying>>

\* A transport error, a timeout or a malformed answer.
FetchFails ==
    /\ poll.phase = "fetch"
    /\ poll' = NoPoll
    /\ UNCHANGED <<clock, updates, cursor, report, pending, begun, known, returned, accepted,
                   answered, restarts, notifying>>

Turn == poll.phase = "next" /\ poll.at <= poll.last
Update == updates[poll.at]
Authorized(k) == k[2] \in Operators

\* Messages of other chats and ordinary text are passed over.
Silent(u) == u.from[1] \notin AllowedChats \/ u.text = "chatter"

Skip ==
    /\ Turn /\ Silent(Update)
    /\ poll' = [poll EXCEPT !.at = @ + 1]
    /\ answered' = answered \cup {poll.at}
    /\ UNCHANGED <<clock, updates, cursor, report, pending, begun, known, returned,
                   accepted, restarts, notifying>>

\* handle: first the challenges that ran out are dropped, by the time of the poll.
Live == [k \in Senders |-> IF pending[k].expires > poll.now THEN pending[k] ELSE NoChallenge]
LiveKeys == {k \in Senders : Live[k] # NoChallenge}
Key == Update.from

Replying(reply) == poll' = [poll EXCEPT !.phase = "reply", !.reply = reply]
Unhandled ==
    UNCHANGED <<clock, updates, cursor, report, known, returned, accepted, answered,
                restarts, notifying>>

Emergency(text) ==
    Turn /\ ~Silent(Update) /\ Update.text = text /\ Authorized(Update.from)

\* A second request of a key replaces its challenge.
Begin ==
    /\ Emergency("begin")
    /\ Len(begun) < MaxChallenges
    /\ Cardinality(LiveKeys) < MaxPending \/ Key \in LiveKeys
    /\ begun' = Append(begun, [key |-> Update.from, update |-> poll.at, run |-> restarts,
                               expires |-> poll.now + ConfirmationTtl])
    /\ pending' = [Live EXCEPT ![Key] = [id |-> Len(begun'),
                                         expires |-> poll.now + ConfirmationTtl]]
    /\ Replying([kind |-> "nonce", id |-> Len(begun')])
    /\ Unhandled

\* At the capacity the whole poll fails, and with it every later update of the batch.
CapacityExceeded ==
    /\ Emergency("begin")
    /\ Cardinality(LiveKeys) >= MaxPending /\ Key \notin LiveKeys
    /\ pending' = Live
    /\ poll' = NoPoll
    /\ UNCHANGED begun /\ Unhandled

MutantTaken == IF Live[Key].id = Update.nonce THEN Live ELSE [Live EXCEPT ![Key] = NoChallenge]
\* The first attempt takes the challenge away, whatever its nonce.
Taken == [Live EXCEPT ![Key] = NoChallenge]

MutantValid(challenge) == challenge # NoChallenge
Valid(challenge) == challenge # NoChallenge /\ challenge.id = Update.nonce

Confirm ==
    /\ Emergency("confirm")
    /\ pending' = Taken
    /\ Replying(IF Valid(Live[Key]) THEN [kind |-> "accepted", id |-> Live[Key].id] ELSE Words)
    /\ UNCHANGED begun /\ Unhandled

\* A query, a malformed command, or an emergency from somebody who is no operator.
Answer ==
    /\ Turn /\ ~Silent(Update)
    /\ Update.text = "query" \/ ~Authorized(Update.from)
    /\ Replying(Words)
    /\ UNCHANGED <<pending, begun>> /\ Unhandled

\* The rows behind a query cannot be read: the error ends the poll.
QueryFails ==
    /\ Turn /\ ~Silent(Update) /\ Update.text = "query"
    /\ poll' = NoPoll
    /\ UNCHANGED <<pending, begun>> /\ Unhandled

\* send_message: the text reaches the chat, or does not, and the call succeeds only if it does.
Delivered ==
    known' = IF poll.reply.kind = "nonce" THEN known \cup {<<poll.reply.id, Update.from[1]>>}
                                          ELSE known

Accepts == poll.reply.kind = "accepted"

\* The command joins those of the poll once its acceptance is sent.  Its run is history: the
\* process in which it was confirmed, since a poll does not outlive its process.
ReplySent ==
    /\ poll.phase = "reply"
    /\ Delivered
    /\ accepted' = IF Accepts THEN accepted \cup {[id |-> poll.reply.id, run |-> restarts]}
                              ELSE accepted
    /\ poll' = [poll EXCEPT !.phase = "next", !.at = @ + 1, !.reply = Words,
                            !.commands = IF Accepts
                                           THEN Append(@, [id |-> poll.reply.id, confirm |-> poll.at,
                                                           by |-> Update.from, at |-> poll.now,
                                                           run |-> restarts])
                                           ELSE @]
    /\ answered' = answered \cup {poll.at}
    /\ UNCHANGED <<clock, updates, cursor, report, pending, begun, returned, restarts,
                   notifying>>

ReplyFails ==
    /\ poll.phase = "reply"
    /\ Delivered \/ UNCHANGED known
    /\ poll' = NoPoll
    /\ UNCHANGED <<clock, updates, cursor, report, pending, begun, returned, accepted,
                   answered, restarts, notifying>>

MutantNextOffset == poll.last + 1
\* The cursor the poll reports: behind its last update.
NextOffset == poll.last

FinishPoll ==
    /\ poll.phase = "next" /\ poll.at > poll.last
    /\ returned' = returned \o poll.commands
    /\ report' = IF poll.last > cursor THEN NextOffset ELSE NoReport
    /\ poll' = NoPoll
    /\ UNCHANGED <<clock, updates, cursor, pending, begun, known, accepted, answered,
                   restarts, notifying>>

\* The caller has handed the commands over and saves the cursor.
SaveCursor ==
    /\ report # NoReport
    /\ cursor' = report /\ report' = NoReport
    /\ UNCHANGED <<clock, updates, poll, pending, begun, known, returned, accepted,
                   answered, restarts, notifying>>

\* mutant: the challenges are stored and outlive their process
MutantForgotten == pending
Forgotten == [k \in Senders |-> NoChallenge]

\* A new process starts without challenges and with the cursor that was saved.
Restart ==
    /\ restarts < MaxRestarts
    /\ restarts' = restarts + 1
    /\ poll' = NoPoll /\ report' = NoReport
    /\ pending' = Forgotten
    /\ batch' = NoBatch
    /\ UNCHANGED <<clock, updates, cursor, begun, known, returned, accepted, answered,
                   audit, saved, notified>>

-----------------------------------------------------------------------------
(* notify_confirmed_events *)

AuditCommit ==
    /\ audit < MaxEvents /\ updates = <<>> /\ poll = NoPoll
    /\ audit' = audit + 1
    /\ UNCHANGED <<polling, batch, saved, notified>>

\* The rows behind the caller's sequence, at most NotifyLimit of them.
StartBatch ==
    /\ batch = NoBatch
    /\ audit > saved
    /\ batch' = [phase |-> "send", at |-> saved + 1, todo |-> AllowedChats,
                 last |-> IF audit - saved > NotifyLimit THEN saved + NotifyLimit ELSE audit]
    /\ UNCHANGED <<polling, audit, saved, notified>>

AfterSend(c) ==
    IF batch.todo # {c} THEN [batch EXCEPT !.todo = @ \ {c}]
                        ELSE [batch EXCEPT !.at = @ + 1, !.todo = AllowedChats]

\* One event goes to every chat before the next event.
Notify(c) ==
    /\ batch.phase = "send" /\ batch.at <= batch.last /\ c \in batch.todo
    /\ notified' = notified \cup {<<batch.at, c>>}
    /\ batch' = AfterSend(c)
    /\ UNCHANGED <<polling, audit, saved>>

\* A failed send ends the batch: what was sent will be sent again.
NotifyFails(c) ==
    /\ batch.phase = "send" /\ batch.at <= batch.last /\ c \in batch.todo
    /\ notified' \in {notified, notified \cup {<<batch.at, c>>}}
    /\ batch' = NoBatch
    /\ UNCHANGED <<polling, audit, saved>>

FinishBatch ==
    /\ batch.phase = "send" /\ batch.at > batch.last
    /\ saved' = batch.last
    /\ batch' = NoBatch
    /\ UNCHANGED <<polling, audit, notified>>

Next ==
    \/ Tick
    \/ \E k \in Senders, text \in Texts, nonce \in 0..Len(begun) : UserSends(k, text, nonce)
    \/ StartPoll \/ FetchUpdates \/ FetchFails
    \/ Skip \/ Begin \/ CapacityExceeded \/ Confirm \/ Answer \/ QueryFails
    \/ ReplySent \/ ReplyFails \/ FinishPoll \/ SaveCursor \/ Restart
    \/ AuditCommit \/ StartBatch \/ FinishBatch
    \/ \E c \in AllowedChats : Notify(c) \/ NotifyFails(c)

Spec == Init /\ [][Next]_vars

-----------------------------------------------------------------------------
\* A challenge authorises at most one close, although confirmations are repeated by users and,
\* when a poll fails or its cursor is not saved, by Telegram.
ChallengeAuthorizesOnce ==
    \A i, j \in DOMAIN returned : returned[i].id = returned[j].id => i = j

\* A command was confirmed by the chat and the operator that asked for it, with a later message,
\* in the process that issued its challenge ("a service restart invalidates every unconfirmed
\* challenge", docs/TELEGRAM_EMERGENCY_V1.md:36) and before it ran out by the poll's clock.
CommandsAreEntitled ==
    \A i \in DOMAIN returned :
        LET m == returned[i]
            c == begun[m.id]
        IN /\ m.by = c.key /\ m.by[1] \in AllowedChats /\ m.by[2] \in Operators
           /\ updates[m.confirm].nonce = m.id
           /\ c.update < m.confirm
           /\ m.at < c.expires
           /\ m.run = c.run

\* Nothing is skipped by a cursor: an update that Telegram has forgotten was answered, and an
\* audit event before the saved sequence has reached every chat.
CursorsCoverWork ==
    /\ \A i \in 1..cursor : i \in answered
    /\ \A e \in 1..saved, c \in AllowedChats : <<e, c>> \in notified

\* "Emergency confirmation accepted. The authorized command is ready for the Emergency Core":
\* once this was sent without an error, the poll of that process returns the command, whatever
\* becomes of the later updates of its batch.  A restart may lose it: only the acceptances of
\* the running process count.
AcceptedCommandReturns ==
    poll = NoPoll =>
        \A a \in accepted : a.run = restarts => \E i \in DOMAIN returned : returned[i].id = a.id
=============================================================================
