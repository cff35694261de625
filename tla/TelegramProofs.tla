--------------------------- MODULE TelegramProofs ---------------------------
(***************************************************************************)
(* For any users, chats and limits: no cursor passes what was not done, a  *)
(* challenge authorises one emergency at most, and the command it leads to *)
(* is entitled by the operator and the chat that asked for it.             *)
(***************************************************************************)
EXTENDS Telegram, TLAPS

Updates == [from : Senders, text : Texts, nonce : Nat]
Replies == [kind : {"words", "nonce", "accepted"}, id : Nat]
Commands == [id : Nat, confirm : Nat, by : Senders, at : Nat, run : Nat]
FetchPolls == [phase : {"fetch"}, now : Nat]
WorkPolls == [phase : {"next", "reply"}, now : Nat, at : Nat, last : Nat, reply : Replies,
              commands : Seq(Commands)]
Batches == [phase : {"send"}, at : Nat, todo : SUBSET AllowedChats, last : Nat]

Working == poll.phase \in {"next", "reply"}
Sending == batch.phase = "send"

PollTypes ==
    /\ clock \in Nat /\ cursor \in Nat /\ report \in Nat
    /\ updates \in Seq(Updates)
    /\ poll = NoPoll \/ poll \in FetchPolls \/ poll \in WorkPolls
    /\ pending \in [Senders -> [id : Nat, expires : Nat]]

(***************************************************************************)
(* The cursors.  Everything behind the place of a running poll or batch is *)
(* done, and a report waits to be saved only while no poll runs.           *)
(***************************************************************************)
CursorInv ==
    /\ PollTypes
    /\ cursor <= Len(updates) /\ report <= Len(updates)
    /\ poll # NoPoll => report = NoReport
    /\ \A i \in 1..cursor : i \in answered
    /\ \A i \in 1..report : i \in answered
    /\ Working =>
        /\ poll.at > cursor /\ poll.at <= poll.last + 1 /\ poll.last <= Len(updates)
        /\ poll.phase = "reply" => poll.at <= poll.last
        /\ \A i \in Nat : 0 < i /\ i < poll.at => i \in answered

BatchInv ==
    /\ audit \in Nat /\ saved \in Nat
    /\ batch = NoBatch \/ batch \in Batches
    /\ \A e \in 1..saved, c \in AllowedChats : <<e, c>> \in notified
    /\ Sending =>
        /\ \A e \in Nat, c \in AllowedChats : 0 < e /\ e < batch.at => <<e, c>> \in notified
        /\ \A c \in AllowedChats \ batch.todo : <<batch.at, c>> \in notified
        /\ batch.at <= batch.last + 1

LEMMA InitCursors == Init => CursorInv /\ BatchInv
<1> SUFFICES ASSUME Init PROVE CursorInv /\ BatchInv
  OBVIOUS
<1>1. PollTypes
  <2>1. \A k \in Senders : pending[k] \in [id : Nat, expires : Nat]
    BY DEF Init, NoChallenge
  <2> QED
    BY <2>1 DEF Init, PollTypes, NoReport
<1>2. ~Working /\ ~Sending
  BY DEF Init, NoPoll, NoBatch, Working, Sending
<1>3. updates \in Seq(Updates) /\ Len(updates) = 0
  BY DEF Init
<1> QED
  BY <1>1, <1>2, <1>3 DEF Init, CursorInv, BatchInv, NoReport

-----------------------------------------------------------------------------
(* The batch of notifications.                                             *)

LEMMA BatchKeeps == BatchInv /\ [Next]_vars => BatchInv'
<1> SUFFICES ASSUME BatchInv, [Next]_vars PROVE BatchInv'
  OBVIOUS
<1>1. CASE UNCHANGED notifying
  BY <1>1 DEF BatchInv, notifying, Sending
<1>2. CASE AuditCommit
  BY <1>2 DEF AuditCommit, BatchInv, Sending
<1>3. CASE Restart
  <2>1. batch' = NoBatch /\ ~Sending'
    BY <1>3 DEF Restart, Sending, NoBatch
  <2> QED
    BY <1>3, <2>1 DEF Restart, BatchInv
<1>4. CASE StartBatch
  <2> DEFINE end == IF audit - saved > NotifyLimit THEN saved + NotifyLimit ELSE audit
  <2>1. /\ batch' = [phase |-> "send", at |-> saved + 1, todo |-> AllowedChats, last |-> end]
        /\ audit > saved /\ UNCHANGED <<audit, saved, notified>>
    BY <1>4 DEF StartBatch
  <2>2. end \in Nat /\ saved + 1 <= end + 1
    <3>1. audit \in Nat /\ saved \in Nat /\ NotifyLimit \in Nat /\ audit > saved
      BY <2>1, LimitsAssumption DEF BatchInv
    <3> QED
      BY <3>1
  <2> HIDE DEF end
  <2>3. batch' \in Batches /\ batch'.at = saved + 1 /\ batch'.last = end
        /\ batch'.todo = AllowedChats
    BY <2>1, <2>2 DEF BatchInv, Batches
  <2> QED
    BY <2>1, <2>2, <2>3 DEF BatchInv
<1>5. ASSUME NEW c \in AllowedChats, Notify(c) PROVE BatchInv'
  <2>1. /\ batch \in Batches /\ batch.at <= batch.last /\ c \in batch.todo
        /\ notified' = notified \cup {<<batch.at, c>>} /\ UNCHANGED <<audit, saved>>
    BY <1>5 DEF Notify, BatchInv, NoBatch
  <2>2. CASE batch.todo # {c}
    <3>1. /\ batch' \in Batches /\ batch'.at = batch.at /\ batch'.last = batch.last
          /\ batch'.todo = batch.todo \ {c}
      BY <1>5, <2>1, <2>2 DEF Notify, AfterSend, Batches
    <3> QED
      BY <1>5, <2>1, <3>1 DEF BatchInv, Sending, Notify
  <2>3. CASE batch.todo = {c}
    <3>1. /\ batch' \in Batches /\ batch'.at = batch.at + 1 /\ batch'.last = batch.last
          /\ batch'.todo = AllowedChats
      <4>1. batch' = [batch EXCEPT !.at = @ + 1, !.todo = AllowedChats]
        BY <1>5, <2>3 DEF Notify, AfterSend
      <4>2. batch' = [phase |-> "send", at |-> batch.at + 1, todo |-> AllowedChats,
                      last |-> batch.last]
        BY <2>1, <4>1 DEF Batches
      <4> QED
        BY <2>1, <4>2 DEF Batches
    <3>2. \A d \in AllowedChats : <<batch.at, d>> \in notified'
      BY <1>5, <2>1, <2>3 DEF BatchInv, Sending, Notify
    <3>3. \A e \in Nat, d \in AllowedChats : 0 < e /\ e < batch'.at => <<e, d>> \in notified'
      BY <1>5, <2>1, <3>1, <3>2 DEF BatchInv, Sending, Notify, Batches
    <3> QED
      BY <2>1, <3>1, <3>3 DEF BatchInv, Batches
  <2> QED
    BY <2>2, <2>3
<1>6. ASSUME NEW c \in AllowedChats, NotifyFails(c) PROVE BatchInv'
  <2>1. ~Sending' /\ batch' = NoBatch /\ notified \subseteq notified' /\ UNCHANGED <<audit, saved>>
    BY <1>6 DEF NotifyFails, Sending, NoBatch
  <2> QED
    BY <2>1 DEF BatchInv
<1>7. CASE FinishBatch
  <2>1. /\ batch \in Batches /\ batch.at > batch.last /\ saved' = batch.last
        /\ batch' = NoBatch /\ ~Sending' /\ UNCHANGED <<audit, notified>>
    BY <1>7 DEF FinishBatch, BatchInv, NoBatch, Sending
  <2>2. \A e \in 1..saved', c \in AllowedChats : <<e, c>> \in notified'
    <3>1. batch.last \in Nat /\ batch.at \in Nat
      BY <2>1 DEF Batches
    <3>2. \A e \in Nat, c \in AllowedChats : 0 < e /\ e < batch.at => <<e, c>> \in notified
      BY <1>7 DEF BatchInv, FinishBatch, Sending
    <3>3. \A e \in 1..batch.last : e \in Nat /\ 0 < e /\ e < batch.at
      BY <2>1, <3>1
    <3> QED
      BY <2>1, <3>2, <3>3
  <2> QED
    BY <2>1, <2>2 DEF BatchInv, Batches
<1> QED
  BY <1>1, <1>2, <1>3, <1>4, <1>5, <1>6, <1>7
     DEF Next, vars, Tick, UserSends, StartPoll, FetchUpdates, FetchFails, Skip, Begin,
         CapacityExceeded, Confirm, Answer, QueryFails, ReplySent, ReplyFails, FinishPoll,
         SaveCursor, Unhandled

-----------------------------------------------------------------------------
(* The polls.                                                              *)

PendingTypes == pending \in [Senders -> [id : Nat, expires : Nat]]

LEMMA NoPollPhases ==
    /\ NoPoll.phase = "none"
    /\ \A p \in FetchPolls : p.phase = "fetch" /\ p # NoPoll
    /\ \A p \in WorkPolls : p.phase \in {"next", "reply"} /\ p # NoPoll
BY DEF NoPoll, FetchPolls, WorkPolls

LEMMA WorkingType ==
    ASSUME PollTypes, Working
    PROVE  poll \in WorkPolls /\ poll.at \in Nat /\ poll.last \in Nat
BY NoPollPhases DEF PollTypes, Working, WorkPolls

LEMMA UpdateType ==
    ASSUME CursorInv, Working, poll.at <= poll.last
    PROVE  poll.at \in 1..Len(updates) /\ Update \in Updates /\ Update.from \in Senders
           /\ Update.nonce \in Nat
<1>1. poll.at \in Nat /\ poll.last \in Nat /\ updates \in Seq(Updates)
  BY WorkingType DEF CursorInv, PollTypes
<1>2. poll.at \in 1..Len(updates)
  BY <1>1 DEF CursorInv, PollTypes
<1>3. Update \in Updates
  BY <1>1, <1>2 DEF Update
<1> QED
  BY <1>2, <1>3 DEF Updates

\* A poll that ends reports nothing new, or a place behind which all is answered.
LEMMA PollEnds ==
    ASSUME CursorInv, poll' = NoPoll, UNCHANGED <<clock, updates, cursor>>, PendingTypes',
           answered' = answered,
           report' = report \/ report' = NoReport \/ (Working /\ poll.at > poll.last
                                                      /\ report' = poll.last)
    PROVE  CursorInv'
<1>1. ~Working'
  BY NoPollPhases DEF Working
<1>2. report' \in Nat /\ report' <= Len(updates) /\ \A i \in 1..report' : i \in answered
  <2>1. CASE report' = report
    BY <2>1 DEF CursorInv, PollTypes
  <2>2. CASE report' = NoReport
    BY <2>2 DEF CursorInv, PollTypes, NoReport
  <2>3. CASE Working /\ poll.at > poll.last /\ report' = poll.last
    <3>1. poll.at \in Nat /\ poll.last \in Nat
      BY <2>3, WorkingType DEF CursorInv
    <3>2. poll.last <= Len(updates)
          /\ \A i \in Nat : 0 < i /\ i < poll.at => i \in answered
      BY <2>3 DEF CursorInv
    <3> QED
      BY <2>3, <3>1, <3>2
  <2> QED
    BY <2>1, <2>2, <2>3
<1>3. PollTypes'
  BY <1>2 DEF CursorInv, PollTypes, PendingTypes
<1> QED
  BY <1>1, <1>2, <1>3 DEF CursorInv

LEMMA PollReplies ==
    ASSUME CursorInv, Turn, NEW reply \in Replies, Replying(reply),
           UNCHANGED <<clock, updates, cursor, report, answered>>, PendingTypes'
    PROVE  /\ CursorInv' /\ Working' /\ poll'.phase = "reply" /\ poll'.reply = reply
           /\ poll'.commands = poll.commands /\ poll'.at = poll.at /\ poll'.now = poll.now
<1>1. Working /\ poll \in WorkPolls /\ poll.phase = "next" /\ poll.at <= poll.last
  BY WorkingType DEF Turn, Working, CursorInv
<1>2. poll' = [poll EXCEPT !.phase = "reply", !.reply = reply]
  BY DEF Replying
<1>3. /\ poll' \in WorkPolls /\ poll'.phase = "reply" /\ poll'.reply = reply
      /\ poll'.at = poll.at /\ poll'.last = poll.last /\ poll'.commands = poll.commands
      /\ poll'.now = poll.now
  BY <1>1, <1>2 DEF WorkPolls
<1>4. PollTypes'
  BY <1>3 DEF CursorInv, PollTypes, PendingTypes
<1>5. Working' /\ poll # NoPoll
  BY <1>1, <1>3, NoPollPhases DEF Working
<1> QED
  BY <1>1, <1>3, <1>4, <1>5 DEF CursorInv

LEMMA PollSkips ==
    ASSUME CursorInv, Skip
    PROVE  CursorInv' /\ Working' /\ poll'.phase = "next" /\ poll'.commands = poll.commands
           /\ poll'.now = poll.now
<1>1. Working /\ poll \in WorkPolls /\ poll.phase = "next" /\ poll.at <= poll.last
  BY WorkingType DEF Skip, Turn, Working, CursorInv
<1>2. /\ poll' = [poll EXCEPT !.at = @ + 1] /\ answered' = answered \cup {poll.at}
      /\ UNCHANGED <<clock, updates, cursor, report, pending>>
  BY DEF Skip
<1>3. /\ poll' \in WorkPolls /\ poll'.phase = "next" /\ poll'.commands = poll.commands
      /\ poll'.at = poll.at + 1 /\ poll'.last = poll.last /\ poll'.now = poll.now
      /\ poll.at \in Nat /\ poll.last \in Nat
  BY <1>1, <1>2 DEF WorkPolls
<1>4. PollTypes' /\ Working' /\ poll # NoPoll
  BY <1>1, <1>2, <1>3, NoPollPhases DEF CursorInv, PollTypes, Working
<1>5. \A i \in Nat : 0 < i /\ i < poll'.at => i \in answered'
  BY <1>1, <1>2, <1>3 DEF CursorInv
<1> QED
  BY <1>1, <1>2, <1>3, <1>4, <1>5 DEF CursorInv, PollTypes

Command == [id |-> poll.reply.id, confirm |-> poll.at, by |-> Update.from, at |-> poll.now,
            run |-> restarts]

LEMMA PollAnswers ==
    ASSUME CursorInv, ReplySent, restarts \in Nat
    PROVE  /\ CursorInv' /\ Working' /\ poll'.phase = "next"
           /\ Command \in Commands
           /\ poll'.commands = IF poll.reply.kind = "accepted"
                               THEN Append(poll.commands, Command) ELSE poll.commands
<1>1. Working /\ poll \in WorkPolls /\ poll.phase = "reply" /\ poll.at <= poll.last
  BY WorkingType DEF ReplySent, Working, CursorInv
<1>2. Update.from \in Senders
  BY <1>1, UpdateType
<1> DEFINE commands == IF poll.reply.kind = "accepted"
                       THEN Append(poll.commands, Command) ELSE poll.commands
<1>3. /\ poll' = [poll EXCEPT !.phase = "next", !.at = @ + 1, !.reply = Words,
                              !.commands = commands]
      /\ answered' = answered \cup {poll.at}
      /\ UNCHANGED <<clock, updates, cursor, report, pending>>
  BY DEF ReplySent, Accepts, Command
<1>4. Command \in Commands
  BY <1>1, <1>2 DEF Command, Commands, WorkPolls, Replies
<1>5. commands \in Seq(Commands) /\ Words \in Replies
  BY <1>1, <1>4 DEF WorkPolls, Words, Replies
<1> HIDE DEF commands
<1>6. poll' = [phase |-> "next", now |-> poll.now, at |-> poll.at + 1, last |-> poll.last,
               reply |-> Words, commands |-> commands]
  BY <1>1, <1>3 DEF WorkPolls
<1>7. /\ poll' \in WorkPolls /\ poll'.phase = "next" /\ poll'.commands = commands
      /\ poll'.at = poll.at + 1 /\ poll'.last = poll.last
      /\ poll.at \in Nat /\ poll.last \in Nat
  BY <1>1, <1>5, <1>6 DEF WorkPolls
<1>8. PollTypes' /\ Working' /\ poll # NoPoll
  BY <1>1, <1>3, <1>7, NoPollPhases DEF CursorInv, PollTypes, Working
<1>9. \A i \in Nat : 0 < i /\ i < poll'.at => i \in answered'
  BY <1>1, <1>3, <1>7 DEF CursorInv
<1>10. CursorInv'
  BY <1>1, <1>3, <1>7, <1>8, <1>9 DEF CursorInv, PollTypes
<1> QED
  BY <1>4, <1>7, <1>8, <1>10 DEF commands

LEMMA PollFetches ==
    ASSUME CursorInv, FetchUpdates
    PROVE  CursorInv' /\ Working' /\ poll'.phase = "next" /\ poll'.commands = <<>>
<1> DEFINE available == Len(updates) - cursor
           size == IF available > BatchLimit THEN BatchLimit ELSE available
<1>1. /\ poll.phase = "fetch" /\ poll \in FetchPolls
      /\ poll' = [phase |-> "next", now |-> poll.now, at |-> cursor + 1,
                  last |-> cursor + size, reply |-> Words, commands |-> <<>>]
      /\ UNCHANGED <<clock, updates, cursor, report, pending, answered>>
  BY NoPollPhases DEF FetchUpdates, CursorInv, PollTypes
<1>2. cursor \in Nat /\ Len(updates) \in Nat /\ cursor <= Len(updates) /\ BatchLimit \in Nat
  BY LimitsAssumption DEF CursorInv, PollTypes
<1>3. size \in Nat /\ cursor + size <= Len(updates)
  BY <1>2
<1>4. Words \in Replies /\ poll.now \in Nat
  BY <1>1 DEF Words, Replies, FetchPolls
<1> HIDE DEF size
<1>5. /\ poll' \in WorkPolls /\ poll'.phase = "next" /\ poll'.commands = <<>>
      /\ poll'.at = cursor + 1 /\ poll'.last = cursor + size
  BY <1>1, <1>2, <1>3, <1>4 DEF WorkPolls
<1>6. PollTypes' /\ Working' /\ poll # NoPoll
  BY <1>1, <1>5, NoPollPhases DEF CursorInv, PollTypes, Working
<1>7. \A i \in Nat : 0 < i /\ i < poll'.at => i \in answered'
  BY <1>1, <1>2, <1>5 DEF CursorInv
<1> QED
  BY <1>1, <1>2, <1>3, <1>5, <1>6, <1>7 DEF CursorInv, PollTypes

-----------------------------------------------------------------------------
(***************************************************************************)
(* The challenges.  One is offered by its key, then perhaps being          *)
(* accepted, then a command of the running poll, then returned: at most    *)
(* one of these at a time, and the two lists hold it once.                 *)
(***************************************************************************)
Challenges == [key : Senders, update : Nat, run : Nat, expires : Nat]

Distinct(commands) ==
    \A i, j \in DOMAIN commands : commands[i].id = commands[j].id => i = j
Has(commands, id) == \E i \in DOMAIN commands : commands[i].id = id

Returned(id) == Has(returned, id)
Collected(id) == Working /\ Has(poll.commands, id)
Accepting(id) == poll.phase = "reply" /\ poll.reply.kind = "accepted" /\ poll.reply.id = id
Spent(id) == Returned(id) \/ Collected(id) \/ Accepting(id)
Offers(k) == pending[k] # NoChallenge

ChallengeInv ==
    /\ begun \in Seq(Challenges) /\ restarts \in Nat /\ returned \in Seq(Commands)
    /\ \A id \in Nat : Spent(id) => id \in 1..Len(begun)
    /\ \A k \in Senders : Offers(k) => pending[k].id \in 1..Len(begun) /\ ~Spent(pending[k].id)
    /\ \A k, l \in Senders : Offers(k) /\ Offers(l) /\ pending[k].id = pending[l].id => k = l
    /\ Distinct(returned)
    /\ Working => Distinct(poll.commands)
    /\ \A id \in Nat : /\ ~(Returned(id) /\ Collected(id))
                       /\ ~(Returned(id) /\ Accepting(id))
                       /\ ~(Collected(id) /\ Accepting(id))

LEMMA InitChallenges == Init => ChallengeInv
<1> SUFFICES ASSUME Init PROVE ChallengeInv
  OBVIOUS
<1>1. poll.phase = "none" /\ ~Working
  BY DEF Init, NoPoll, Working
<1>2. \A id : ~Spent(id)
  BY <1>1 DEF Init, Spent, Returned, Has, Collected, Accepting
<1>3. \A k \in Senders : ~Offers(k)
  BY DEF Init, Offers
<1> QED
  BY <1>1, <1>2, <1>3 DEF Init, ChallengeInv, Spent, Distinct

\* A step that spends no challenge and offers none.
LEMMA ChallengesKept ==
    ASSUME CursorInv, ChallengeInv, UNCHANGED <<returned, begun>>, restarts' \in Nat,
           \A k \in Senders : pending'[k] = pending[k] \/ pending'[k] = NoChallenge,
           \/ ~Working'
           \/ Working' /\ poll'.commands = <<>>
           \/ Working' /\ Working /\ poll'.commands = poll.commands,
           \A id \in Nat : Accepting(id)' => Accepting(id)
    PROVE  ChallengeInv'
<1>1. \A id \in Nat : /\ Returned(id)' = Returned(id)
                      /\ Collected(id)' => Collected(id)
                      /\ Spent(id)' => Spent(id)
  BY DEF Returned, Collected, Has, Spent
<1>2. Distinct(returned)' /\ (Working' => Distinct(poll.commands)')
  BY DEF ChallengeInv, Distinct
<1>3. \A k \in Senders : Offers(k)' => Offers(k) /\ pending'[k] = pending[k]
  BY DEF Offers
<1>4. \A k \in Senders : pending[k].id \in Nat
  BY DEF CursorInv, PollTypes
<1>5. \A k \in Senders :
          (Offers(k) => pending[k].id \in 1..Len(begun) /\ ~Spent(pending[k].id))'
  <2> SUFFICES ASSUME NEW k \in Senders, Offers(k)'
               PROVE  (pending[k].id \in 1..Len(begun) /\ ~Spent(pending[k].id))'
    OBVIOUS
  <2> PICK id \in Nat : id = pending[k].id
    BY <1>4
  <2>1. pending'[k].id = id /\ Offers(k)
    BY <1>3
  <2>2. id \in 1..Len(begun) /\ ~Spent(id)
    BY <2>1 DEF ChallengeInv
  <2>3. ~Spent(id)'
    BY <1>1, <2>2
  <2> QED
    BY <2>1, <2>2, <2>3 DEF Spent, Returned, Collected, Accepting
<1>6. \A k, l \in Senders :
          Offers(k)' /\ Offers(l)' /\ pending'[k].id = pending'[l].id => k = l
  BY <1>3 DEF ChallengeInv
<1>7. \A id \in Nat : (/\ ~(Returned(id) /\ Collected(id))
                       /\ ~(Returned(id) /\ Accepting(id))
                       /\ ~(Collected(id) /\ Accepting(id)))'
  BY <1>1 DEF ChallengeInv
<1>8. \A id \in Nat : Spent(id)' => id \in 1..Len(begun')
  BY <1>1 DEF ChallengeInv
<1> QED
  BY <1>2, <1>5, <1>6, <1>7, <1>8 DEF ChallengeInv

LEMMA AppendHas ==
    ASSUME NEW s \in Seq(Commands), NEW c \in Commands
    PROVE  /\ Append(s, c) \in Seq(Commands)
           /\ \A id : Has(Append(s, c), id) <=> Has(s, id) \/ id = c.id
           /\ Distinct(s) /\ ~Has(s, c.id) => Distinct(Append(s, c))
<1>1. /\ DOMAIN s = 1..Len(s) /\ Len(s) \in Nat
      /\ DOMAIN Append(s, c) = 1..(Len(s) + 1)
      /\ \A i \in 1..Len(s) : Append(s, c)[i] = s[i]
      /\ Append(s, c)[Len(s) + 1] = c
  OBVIOUS
<1>2. \A i \in 1..(Len(s) + 1) : i \in 1..Len(s) \/ i = Len(s) + 1
  BY <1>1
<1>3. \A id : Has(Append(s, c), id) <=> Has(s, id) \/ id = c.id
  <2>1. Len(s) + 1 \in 1..(Len(s) + 1) /\ 1..Len(s) \subseteq 1..(Len(s) + 1)
    BY <1>1
  <2> QED
    BY <1>1, <1>2, <2>1 DEF Has
<1>4. Distinct(s) /\ ~Has(s, c.id) => Distinct(Append(s, c))
  BY <1>1, <1>2 DEF Has, Distinct
<1> QED
  BY <1>3, <1>4

LEMMA ConcatHas ==
    ASSUME NEW s \in Seq(Commands), NEW t \in Seq(Commands)
    PROVE  /\ s \o t \in Seq(Commands)
           /\ \A id : Has(s \o t, id) <=> Has(s, id) \/ Has(t, id)
           /\ Distinct(s) /\ Distinct(t) /\ (\A id \in Nat : ~(Has(s, id) /\ Has(t, id)))
                  => Distinct(s \o t)
<1> DEFINE n == Len(s)
           m == Len(t)
           st == s \o t
<1>1. /\ DOMAIN s = 1..n /\ n \in Nat /\ DOMAIN t = 1..m /\ m \in Nat
      /\ st \in Seq(Commands) /\ DOMAIN st = 1..(n + m)
      /\ \A i \in 1..n : st[i] = s[i]
      /\ \A i \in 1..m : st[n + i] = t[i]
      /\ \A i \in 1..n : s[i] \in Commands
  OBVIOUS
<1> HIDE DEF n, m, st
<1>2. \A i \in 1..n : s[i].id \in Nat
  BY <1>1 DEF Commands
<1>3. /\ \A i \in 1..(n + m) : i \in 1..n \/ (\E j \in 1..m : i = n + j)
      /\ 1..n \subseteq 1..(n + m) /\ \A j \in 1..m : n + j \in 1..(n + m)
  <2>1. ASSUME NEW i \in 1..(n + m), i \notin 1..n PROVE \E j \in 1..m : i = n + j
    <3>1. i - n \in 1..m /\ i = n + (i - n)
      BY <1>1, <2>1
    <3> QED
      BY <3>1
  <2> QED
    BY <1>1, <2>1
<1>4. \A id : Has(st, id) <=> Has(s, id) \/ Has(t, id)
  <2> SUFFICES ASSUME NEW id PROVE Has(st, id) <=> Has(s, id) \/ Has(t, id)
    OBVIOUS
  <2>1. ASSUME Has(st, id) PROVE Has(s, id) \/ Has(t, id)
    <3>1. PICK i \in 1..(n + m) : st[i].id = id
      BY <1>1, <2>1 DEF Has
    <3>2. CASE i \in 1..n
      BY <1>1, <3>1, <3>2 DEF Has
    <3>3. CASE \E j \in 1..m : i = n + j
      <4>1. PICK j \in 1..m : i = n + j
        BY <3>3
      <4>2. t[j].id = id
        BY <1>1, <3>1, <4>1
      <4> QED
        BY <1>1, <4>2 DEF Has
    <3> QED
      BY <1>3, <3>2, <3>3
  <2>2. Has(s, id) => Has(st, id)
    BY <1>1, <1>3 DEF Has
  <2>3. Has(t, id) => Has(st, id)
    BY <1>1, <1>3 DEF Has
  <2> QED
    BY <2>1, <2>2, <2>3
<1>5. ASSUME Distinct(s), Distinct(t), \A id \in Nat : ~(Has(s, id) /\ Has(t, id))
      PROVE  Distinct(st)
  <2>1. \A i \in 1..n, j \in 1..m : s[i].id # t[j].id
    BY <1>1, <1>2, <1>5 DEF Has
  <2> SUFFICES ASSUME NEW i \in 1..(n + m), NEW j \in 1..(n + m), st[i].id = st[j].id
               PROVE  i = j
    BY <1>1 DEF Distinct
  <2>2. CASE i \in 1..n /\ j \in 1..n
    BY <1>1, <1>5, <2>2 DEF Distinct
  <2>3. CASE i \in 1..n /\ \E k \in 1..m : j = n + k
    <3>1. PICK k \in 1..m : j = n + k
      BY <2>3
    <3>2. st[i] = s[i] /\ st[j] = t[k]
      BY <1>1, <2>3, <3>1
    <3> QED
      BY <2>1, <2>3, <3>2
  <2>4. CASE j \in 1..n /\ \E k \in 1..m : i = n + k
    <3>1. PICK k \in 1..m : i = n + k
      BY <2>4
    <3>2. st[j] = s[j] /\ st[i] = t[k]
      BY <1>1, <2>4, <3>1
    <3> QED
      BY <2>1, <2>4, <3>2
  <2>5. CASE (\E k \in 1..m : i = n + k) /\ (\E k \in 1..m : j = n + k)
    <3>1. PICK k \in 1..m, l \in 1..m : i = n + k /\ j = n + l
      BY <2>5
    <3>2. t[k].id = t[l].id
      BY <1>1, <3>1
    <3> QED
      BY <1>1, <1>5, <3>1, <3>2 DEF Distinct
  <2> QED
    BY <1>3, <2>2, <2>3, <2>4, <2>5
<1> QED
  BY <1>1, <1>4, <1>5 DEF st

LEMMA LiveTypes ==
    ASSUME CursorInv
    PROVE  /\ Live \in [Senders -> [id : Nat, expires : Nat]]
           /\ \A k \in Senders : Live[k] = pending[k] \/ Live[k] = NoChallenge
BY DEF Live, NoChallenge, CursorInv, PollTypes

-----------------------------------------------------------------------------
(* The steps that move a challenge.                                        *)

LEMMA BeginStep ==
    ASSUME CursorInv, ChallengeInv, Begin
    PROVE  CursorInv' /\ ChallengeInv'
<1>1. Turn /\ Working /\ poll \in WorkPolls /\ poll.at <= poll.last /\ Len(begun) \in Nat
  BY WorkingType DEF Begin, Emergency, Turn, Working, CursorInv, ChallengeInv
<1> PICK key \in Senders : key = Update.from /\ key = Key
  BY <1>1, UpdateType DEF Key
<1> PICK n \in Nat : n = Len(begun) + 1
  BY <1>1
<1> DEFINE issued == [key |-> key, update |-> poll.at, run |-> restarts,
                      expires |-> poll.now + ConfirmationTtl]
           reply == [kind |-> "nonce", id |-> n]
           offer == [id |-> n, expires |-> poll.now + ConfirmationTtl]
<1>2. issued \in Challenges /\ reply \in Replies /\ offer \in [id : Nat, expires : Nat]
  <2>1. poll.at \in Nat /\ poll.now \in Nat /\ restarts \in Nat /\ ConfirmationTtl \in Nat
        /\ poll.now + ConfirmationTtl \in Nat
    BY <1>1, LimitsAssumption DEF WorkPolls, ChallengeInv
  <2> QED
    BY <1>1, <2>1 DEF Challenges, Replies
<1>3. begun' = Append(begun, issued)
  BY DEF Begin
<1>4. begun' \in Seq(Challenges) /\ Len(begun') = n
  <2> HIDE DEF issued
  <2> QED
    BY <1>2, <1>3 DEF ChallengeInv
<1>5. /\ pending' = [Live EXCEPT ![key] = offer] /\ Replying(reply)
      /\ UNCHANGED <<clock, updates, cursor, report, returned, answered, restarts>>
  BY <1>4 DEF Begin, Unhandled
<1>6. /\ PendingTypes' /\ pending'[key] = offer
      /\ \A k \in Senders \ {key} : pending'[k] = pending[k] \/ pending'[k] = NoChallenge
  <2> HIDE DEF offer
  <2> QED
    BY <1>2, <1>5, LiveTypes DEF PendingTypes
<1>7. /\ CursorInv' /\ Working' /\ poll'.phase = "reply" /\ poll'.reply = reply
      /\ poll'.commands = poll.commands
  <2> HIDE DEF reply
  <2> QED
    BY <1>1, <1>2, <1>5, <1>6, PollReplies
<1>8. \A id \in Nat : /\ Returned(id)' = Returned(id) /\ ~Accepting(id)'
                      /\ Collected(id)' => Collected(id)
                      /\ Spent(id)' => Spent(id)
  BY <1>1, <1>5, <1>7 DEF Returned, Collected, Accepting, Has, Spent
<1>9. n \in 1..Len(begun') /\ ~Spent(n)' /\ n \in Nat
      /\ \A i \in 1..Len(begun) : i \in 1..Len(begun') /\ i # n
  <2>1. n \in Nat /\ n \notin 1..Len(begun)
    BY <1>1
  <2>2. ~Spent(n)
    BY <2>1 DEF ChallengeInv
  <2> QED
    BY <1>1, <1>4, <1>8, <2>1, <2>2
<1>10. \A k \in Senders \ {key} : Offers(k)' => Offers(k) /\ pending'[k] = pending[k]
  BY <1>6 DEF Offers
<1>11. ASSUME NEW k \in Senders, Offers(k)'
       PROVE  (pending[k].id \in 1..Len(begun) /\ ~Spent(pending[k].id))'
  <2>1. CASE k = key
    <3>1. pending'[k].id = n /\ ~Spent(n)' /\ n \in 1..Len(begun')
      BY <1>6, <1>9, <2>1
    <3> QED
      BY <3>1 DEF Spent, Returned, Collected, Accepting
  <2>2. CASE k # key
    <3> PICK id \in Nat : id = pending[k].id
      BY DEF CursorInv, PollTypes
    <3>1. pending'[k].id = id /\ Offers(k)
      BY <1>10, <1>11, <2>2
    <3>2. id \in 1..Len(begun) /\ ~Spent(id)
      BY <3>1 DEF ChallengeInv
    <3>3. id \in 1..Len(begun') /\ ~Spent(id)'
      BY <1>8, <1>9, <3>2
    <3> QED
      BY <3>1, <3>3 DEF Spent, Returned, Collected, Accepting
  <2> QED
    BY <2>1, <2>2
<1>12. ASSUME NEW k \in Senders \ {key}, Offers(k)' PROVE pending'[k].id # n
  BY <1>9, <1>10, <1>12 DEF ChallengeInv
<1>13. \A k, l \in Senders :
           Offers(k)' /\ Offers(l)' /\ pending'[k].id = pending'[l].id => k = l
  BY <1>6, <1>10, <1>12 DEF ChallengeInv
<1>14. \A id \in Nat : Spent(id)' => id \in 1..Len(begun')
  BY <1>8, <1>9 DEF ChallengeInv
<1>15. Distinct(returned)' /\ Distinct(poll.commands)'
  BY <1>1, <1>5, <1>7 DEF ChallengeInv, Distinct
<1> QED
  BY <1>4, <1>5, <1>7, <1>8, <1>11, <1>13, <1>14, <1>15 DEF ChallengeInv

LEMMA ConfirmStep ==
    ASSUME CursorInv, ChallengeInv, Confirm
    PROVE  CursorInv' /\ ChallengeInv'
<1>1. Turn /\ Working /\ poll \in WorkPolls /\ poll.at <= poll.last
  BY WorkingType DEF Confirm, Emergency, Turn, Working, CursorInv
<1> PICK key \in Senders : key = Update.from /\ key = Key
  BY <1>1, UpdateType DEF Key
<1>2. /\ pending' = [Live EXCEPT ![key] = NoChallenge]
      /\ UNCHANGED <<clock, updates, cursor, report, returned, answered, restarts, begun>>
  BY DEF Confirm, Unhandled, Taken
<1>3. /\ PendingTypes' /\ pending'[key] = NoChallenge
      /\ \A k \in Senders : pending'[k] = pending[k] \/ pending'[k] = NoChallenge
  BY <1>2, LiveTypes DEF PendingTypes, NoChallenge
<1>4. CASE ~Valid(Live[key])
  <2>1. Replying(Words) /\ Words \in Replies /\ Words.kind = "words"
    BY <1>4 DEF Confirm, Words, Replies
  <2>2. /\ CursorInv' /\ Working' /\ poll'.reply = Words /\ poll'.commands = poll.commands
    BY <1>1, <1>2, <1>3, <2>1, PollReplies
  <2>3. \A id \in Nat : ~Accepting(id)'
    BY <2>1, <2>2 DEF Accepting
  <2> QED
    BY <1>1, <1>2, <1>3, <2>2, <2>3, ChallengesKept DEF ChallengeInv
<1>5. CASE Valid(Live[key])
  <2> PICK taken \in Nat : taken = Live[key].id
    BY LiveTypes
  <2> DEFINE reply == [kind |-> "accepted", id |-> taken]
  <2>1. Replying(reply) /\ reply \in Replies
    BY <1>5 DEF Confirm, Replies
  <2>2. Offers(key) /\ taken = pending[key].id
    BY <1>5, LiveTypes DEF Valid, Offers
  <2>3. taken \in 1..Len(begun) /\ ~Spent(taken)
    BY <2>2 DEF ChallengeInv
  <2>4. /\ CursorInv' /\ Working' /\ poll'.phase = "reply" /\ poll'.reply = reply
        /\ poll'.commands = poll.commands
    <3> HIDE DEF reply
    <3> QED
      BY <1>1, <1>2, <1>3, <2>1, PollReplies
  <2>5. \A id \in Nat : /\ Returned(id)' = Returned(id) /\ Collected(id)' = Collected(id)
                        /\ Accepting(id)' <=> id = taken
                        /\ Spent(id)' => Spent(id) \/ id = taken
    BY <1>1, <1>2, <2>4 DEF Returned, Collected, Accepting, Has, Spent
  <2>6. \A k \in Senders : Offers(k)' => Offers(k) /\ pending'[k] = pending[k] /\ k # key
    BY <1>3 DEF Offers
  <2>7. ASSUME NEW k \in Senders, Offers(k)'
        PROVE  (pending[k].id \in 1..Len(begun) /\ ~Spent(pending[k].id))'
    <3> PICK id \in Nat : id = pending[k].id
      BY DEF CursorInv, PollTypes
    <3>1. pending'[k].id = id /\ Offers(k) /\ k # key
      BY <2>6, <2>7
    <3>2. id \in 1..Len(begun) /\ ~Spent(id) /\ id # taken
      BY <2>2, <3>1 DEF ChallengeInv
    <3>3. id \in 1..Len(begun') /\ ~Spent(id)'
      BY <1>2, <2>5, <3>2
    <3> QED
      BY <3>1, <3>3 DEF Spent, Returned, Collected, Accepting
  <2>8. \A k, l \in Senders :
            Offers(k)' /\ Offers(l)' /\ pending'[k].id = pending'[l].id => k = l
    BY <2>6 DEF ChallengeInv
  <2>9. \A id \in Nat : Spent(id)' => id \in 1..Len(begun')
    BY <1>2, <2>3, <2>5 DEF ChallengeInv
  <2>10. Distinct(returned)' /\ Distinct(poll.commands)'
    BY <1>1, <1>2, <2>4 DEF ChallengeInv, Distinct
  <2>11. ASSUME NEW id \in Nat
         PROVE  (/\ ~(Returned(id) /\ Collected(id))
                 /\ ~(Returned(id) /\ Accepting(id))
                 /\ ~(Collected(id) /\ Accepting(id)))'
    BY <2>3, <2>5 DEF ChallengeInv, Spent
  <2> QED
    BY <1>2, <2>4, <2>7, <2>8, <2>9, <2>10, <2>11 DEF ChallengeInv
<1> QED
  BY <1>4, <1>5

LEMMA ReplySentStep ==
    ASSUME CursorInv, ChallengeInv, ReplySent
    PROVE  CursorInv' /\ ChallengeInv'
<1>1. Working /\ poll \in WorkPolls /\ poll.phase = "reply" /\ poll.commands \in Seq(Commands)
  BY WorkingType DEF ReplySent, Working, CursorInv, WorkPolls
<1>2. UNCHANGED <<pending, begun, returned, restarts>>
  BY DEF ReplySent
<1>3. /\ CursorInv' /\ Working' /\ poll'.phase = "next" /\ Command \in Commands
      /\ poll'.commands = IF poll.reply.kind = "accepted"
                          THEN Append(poll.commands, Command) ELSE poll.commands
  BY PollAnswers DEF ChallengeInv
<1>4. \A id \in Nat : ~Accepting(id)'
  BY <1>3 DEF Accepting
<1>5. CASE poll.reply.kind # "accepted"
  BY <1>1, <1>2, <1>3, <1>4, <1>5, ChallengesKept DEF ChallengeInv
<1>6. CASE poll.reply.kind = "accepted"
  <2> PICK told \in Nat : told = Command.id
    BY <1>3 DEF Commands
  <2>1. Accepting(told) /\ told = poll.reply.id
    BY <1>1, <1>6 DEF Accepting, Command
  <2>2. ~Returned(told) /\ ~Collected(told) /\ ~Has(poll.commands, told)
    BY <1>1, <2>1 DEF ChallengeInv, Collected
  <2>3. /\ \A id : Has(poll.commands, id)' <=> Has(poll.commands, id) \/ id = told
        /\ Distinct(poll.commands)'
    <3> DEFINE longer == Append(poll.commands, Command)
    <3>1. /\ \A id : Has(longer, id) <=> Has(poll.commands, id) \/ id = told
          /\ Distinct(longer)
      BY <1>1, <1>3, <2>2, AppendHas DEF ChallengeInv
    <3>2. poll'.commands = longer
      BY <1>3, <1>6
    <3> HIDE DEF longer
    <3> QED
      BY <3>1, <3>2 DEF Has, Distinct
  <2>4. \A id \in Nat : /\ Returned(id)' = Returned(id)
                        /\ Collected(id)' <=> Collected(id) \/ id = told
                        /\ Spent(id)' => Spent(id)
    BY <1>1, <1>2, <1>3, <1>4, <2>1, <2>3 DEF Returned, Collected, Has, Spent
  <2>5. ASSUME NEW k \in Senders, Offers(k)'
        PROVE  (pending[k].id \in 1..Len(begun) /\ ~Spent(pending[k].id))'
    <3> PICK id \in Nat : id = pending[k].id
      BY DEF CursorInv, PollTypes
    <3>1. pending'[k].id = id /\ Offers(k)
      BY <1>2, <2>5 DEF Offers
    <3>2. id \in 1..Len(begun) /\ ~Spent(id)
      BY <3>1 DEF ChallengeInv
    <3>3. id \in 1..Len(begun') /\ ~Spent(id)'
      BY <1>2, <2>4, <3>2
    <3> QED
      BY <3>1, <3>3 DEF Spent, Returned, Collected, Accepting
  <2>6. \A k, l \in Senders :
            Offers(k)' /\ Offers(l)' /\ pending'[k].id = pending'[l].id => k = l
    BY <1>2 DEF ChallengeInv, Offers
  <2>7. \A id \in Nat : Spent(id)' => id \in 1..Len(begun')
    BY <1>2, <2>4 DEF ChallengeInv
  <2>8. ASSUME NEW id \in Nat
        PROVE  (/\ ~(Returned(id) /\ Collected(id))
                /\ ~(Returned(id) /\ Accepting(id))
                /\ ~(Collected(id) /\ Accepting(id)))'
    BY <1>4, <2>2, <2>4 DEF ChallengeInv
  <2>9. Distinct(returned)'
    BY <1>2 DEF ChallengeInv, Distinct
  <2> QED
    BY <1>2, <1>3, <2>3, <2>5, <2>6, <2>7, <2>8, <2>9 DEF ChallengeInv
<1> QED
  BY <1>5, <1>6

LEMMA FinishStep ==
    ASSUME CursorInv, ChallengeInv, FinishPoll
    PROVE  CursorInv' /\ ChallengeInv'
<1>1. Working /\ poll \in WorkPolls /\ poll.phase = "next" /\ poll.commands \in Seq(Commands)
      /\ poll.at > poll.last
  BY WorkingType DEF FinishPoll, Working, CursorInv, WorkPolls
<1>2. /\ UNCHANGED <<clock, updates, cursor, pending, begun, restarts, answered>>
      /\ poll' = NoPoll /\ returned' = returned \o poll.commands
      /\ report' = poll.last \/ report' = NoReport
  BY DEF FinishPoll, NextOffset
<1>3. CursorInv'
  <2>1. PendingTypes'
    BY <1>2 DEF CursorInv, PollTypes, PendingTypes
  <2> QED
    BY <1>1, <1>2, <2>1, PollEnds
<1>4. ~Working' /\ poll'.phase = "none"
  BY <1>2, NoPollPhases DEF Working
<1>5. /\ returned' \in Seq(Commands) /\ Distinct(returned)'
      /\ \A id : Returned(id)' <=> Returned(id) \/ Has(poll.commands, id)
  <2>1. \A id \in Nat : ~(Has(returned, id) /\ Has(poll.commands, id))
    BY <1>1 DEF ChallengeInv, Returned, Collected
  <2> DEFINE longer == returned \o poll.commands
  <2>2. /\ longer \in Seq(Commands) /\ Distinct(longer)
        /\ \A id : Has(longer, id) <=> Has(returned, id) \/ Has(poll.commands, id)
    BY <1>1, <2>1, ConcatHas DEF ChallengeInv
  <2>3. returned' = longer
    BY <1>2
  <2> HIDE DEF longer
  <2> QED
    BY <2>2, <2>3 DEF Returned, Has, Distinct
<1>6. \A id \in Nat : ~Collected(id)' /\ ~Accepting(id)' /\ (Spent(id)' => Spent(id))
  BY <1>1, <1>4, <1>5 DEF Collected, Accepting, Spent
<1>7. ASSUME NEW k \in Senders, Offers(k)'
      PROVE  (pending[k].id \in 1..Len(begun) /\ ~Spent(pending[k].id))'
  <2> PICK id \in Nat : id = pending[k].id
    BY DEF CursorInv, PollTypes
  <2>1. pending'[k].id = id /\ Offers(k)
    BY <1>2, <1>7 DEF Offers
  <2>2. id \in 1..Len(begun) /\ ~Spent(id)
    BY <2>1 DEF ChallengeInv
  <2>3. id \in 1..Len(begun') /\ ~Spent(id)'
    BY <1>2, <1>6, <2>2
  <2> QED
    BY <2>1, <2>3 DEF Spent, Returned, Collected, Accepting
<1>8. \A k, l \in Senders :
          Offers(k)' /\ Offers(l)' /\ pending'[k].id = pending'[l].id => k = l
  BY <1>2 DEF ChallengeInv, Offers
<1>9. \A id \in Nat : Spent(id)' => id \in 1..Len(begun')
  BY <1>2, <1>6 DEF ChallengeInv
<1> QED
  BY <1>2, <1>3, <1>4, <1>5, <1>6, <1>7, <1>8, <1>9 DEF ChallengeInv

-----------------------------------------------------------------------------
(* Every step, and the theorems.                                           *)

\* A poll that ends without a result, whatever became of its last message.
LEMMA AbandonStep ==
    ASSUME CursorInv, ChallengeInv, poll' = NoPoll,
           UNCHANGED <<clock, updates, cursor, answered, returned, begun>>, restarts' \in Nat,
           report' = report \/ report' = NoReport,
           \/ pending' = pending \/ pending' = Live
           \/ pending' = [k \in Senders |-> NoChallenge]
    PROVE  CursorInv' /\ ChallengeInv'
<1>1. /\ PendingTypes'
      /\ \A k \in Senders : pending'[k] = pending[k] \/ pending'[k] = NoChallenge
  <2>1. CASE pending' = pending \/ pending' = Live
    BY <2>1, LiveTypes DEF PendingTypes, CursorInv, PollTypes
  <2>2. CASE pending' = [k \in Senders |-> NoChallenge]
    BY <2>2 DEF PendingTypes, NoChallenge
  <2> QED
    BY <2>1, <2>2
<1>2. ~Working' /\ \A id \in Nat : ~Accepting(id)'
  BY NoPollPhases DEF Working, Accepting
<1> QED
  BY <1>1, <1>2, PollEnds, ChallengesKept

LEMMA NextStep ==
    ASSUME CursorInv, ChallengeInv, [Next]_vars
    PROVE  CursorInv' /\ ChallengeInv'
<1>0. restarts \in Nat /\ \A id \in Nat : poll.phase # "reply" => ~Accepting(id)
  BY DEF ChallengeInv, Accepting
<1>1. CASE UNCHANGED polling
  <2>1. UNCHANGED <<clock, updates, cursor, poll, report, pending, begun, returned, answered,
                    restarts>>
    BY <1>1 DEF polling
  <2>2. CursorInv'
    BY <2>1 DEF CursorInv, PollTypes, Working
  <2>3. \A id \in Nat : Accepting(id)' => Accepting(id)
    BY <2>1 DEF Accepting
  <2> QED
    BY <1>0, <2>1, <2>2, <2>3, ChallengesKept DEF Working
<1>2. CASE Tick
  <2>1. /\ UNCHANGED <<updates, cursor, poll, report, pending, begun, returned, answered,
                       restarts>>
        /\ clock' = clock + 1
    BY <1>2 DEF Tick
  <2>2. CursorInv'
    BY <2>1 DEF CursorInv, PollTypes, Working
  <2>3. \A id \in Nat : Accepting(id)' => Accepting(id)
    BY <2>1 DEF Accepting
  <2> QED
    BY <1>0, <2>1, <2>2, <2>3, ChallengesKept DEF Working
<1>3. ASSUME NEW k \in Senders, NEW text \in Texts, NEW nonce \in 0..Len(begun),
             UserSends(k, text, nonce)
      PROVE  CursorInv' /\ ChallengeInv'
  <2> DEFINE u == [from |-> k, text |-> text, nonce |-> nonce]
  <2>1. /\ UNCHANGED <<clock, cursor, poll, report, pending, begun, returned, answered,
                       restarts>>
        /\ updates' = Append(updates, u) /\ poll.phase = "fetch"
    BY <1>3 DEF UserSends
  <2>2. u \in Updates
    <3>1. nonce \in Nat
      BY <1>3 DEF ChallengeInv
    <3> QED
      BY <3>1 DEF Updates
  <2> HIDE DEF u
  <2>3. updates' \in Seq(Updates) /\ Len(updates') = Len(updates) + 1 /\ Len(updates) \in Nat
    BY <2>1, <2>2 DEF CursorInv, PollTypes
  <2>4. ~Working' /\ ~Working
    BY <2>1 DEF Working
  <2>5. CursorInv'
    BY <2>1, <2>3, <2>4 DEF CursorInv, PollTypes
  <2>6. \A id \in Nat : Accepting(id)' => Accepting(id)
    BY <2>1 DEF Accepting
  <2> QED
    BY <1>0, <2>1, <2>4, <2>5, <2>6, ChallengesKept
<1>4. CASE StartPoll
  <2>1. /\ UNCHANGED <<clock, updates, cursor, report, pending, begun, returned, answered,
                       restarts>>
        /\ poll' = [phase |-> "fetch", now |-> clock] /\ report = NoReport
    BY <1>4 DEF StartPoll
  <2>2. poll' \in FetchPolls /\ poll'.phase = "fetch" /\ ~Working'
    BY <2>1 DEF FetchPolls, CursorInv, PollTypes, Working
  <2>3. CursorInv'
    BY <2>1, <2>2 DEF CursorInv, PollTypes
  <2>4. \A id \in Nat : ~Accepting(id)'
    BY <2>2 DEF Accepting
  <2> QED
    BY <1>0, <2>1, <2>2, <2>3, <2>4, ChallengesKept
<1>5. CASE FetchUpdates
  <2>1. UNCHANGED <<pending, begun, returned, restarts>>
    BY <1>5 DEF FetchUpdates
  <2>2. CursorInv' /\ Working' /\ poll'.phase = "next" /\ poll'.commands = <<>>
    BY <1>5, PollFetches
  <2>3. \A id \in Nat : ~Accepting(id)'
    BY <2>2 DEF Accepting
  <2> QED
    BY <1>0, <2>1, <2>2, <2>3, ChallengesKept
<1>6. CASE FetchFails \/ ReplyFails \/ CapacityExceeded \/ QueryFails
  <2>1. /\ UNCHANGED <<clock, updates, cursor, report, begun, returned, answered, restarts>>
        /\ poll' = NoPoll /\ (pending' = pending \/ pending' = Live)
    BY <1>6 DEF FetchFails, ReplyFails, CapacityExceeded, QueryFails, Unhandled
  <2> QED
    BY <1>0, <2>1, AbandonStep
<1>7. CASE Skip
  <2>1. UNCHANGED <<pending, begun, returned, restarts>> /\ Working
    BY <1>7 DEF Skip, Turn, Working
  <2>2. CursorInv' /\ Working' /\ poll'.phase = "next" /\ poll'.commands = poll.commands
    BY <1>7, PollSkips
  <2>3. \A id \in Nat : ~Accepting(id)'
    BY <2>2 DEF Accepting
  <2> QED
    BY <1>0, <2>1, <2>2, <2>3, ChallengesKept
<1>8. CASE Begin
  BY <1>8, BeginStep
<1>9. CASE Confirm
  BY <1>9, ConfirmStep
<1>10. CASE Answer
  <2>1. /\ UNCHANGED <<clock, updates, cursor, report, pending, begun, returned, answered,
                       restarts>>
        /\ Turn /\ Working /\ Replying(Words) /\ PendingTypes'
    BY <1>10 DEF Answer, Unhandled, Turn, Working, PendingTypes, CursorInv, PollTypes
  <2>2. Words \in Replies /\ Words.kind = "words"
    BY DEF Words, Replies
  <2>3. CursorInv' /\ Working' /\ poll'.reply = Words /\ poll'.commands = poll.commands
    BY <2>1, <2>2, PollReplies
  <2>4. \A id \in Nat : ~Accepting(id)'
    BY <2>2, <2>3 DEF Accepting
  <2> QED
    BY <1>0, <2>1, <2>3, <2>4, ChallengesKept
<1>11. CASE ReplySent
  BY <1>11, ReplySentStep
<1>12. CASE FinishPoll
  BY <1>12, FinishStep
<1>13. CASE SaveCursor
  <2>1. /\ UNCHANGED <<clock, updates, poll, pending, begun, returned, answered, restarts>>
        /\ cursor' = report /\ report' = NoReport /\ poll = NoPoll
    BY <1>13 DEF SaveCursor, CursorInv
  <2>2. ~Working'
    BY <2>1, NoPollPhases DEF Working
  <2>3. CursorInv'
    BY <2>1, <2>2 DEF CursorInv, PollTypes, NoReport
  <2>4. \A id \in Nat : Accepting(id)' => Accepting(id)
    BY <2>1 DEF Accepting
  <2> QED
    BY <1>0, <2>1, <2>2, <2>3, <2>4, ChallengesKept
<1>14. CASE Restart
  <2>1. /\ UNCHANGED <<clock, updates, cursor, begun, returned, answered>>
        /\ poll' = NoPoll /\ report' = NoReport /\ restarts' = restarts + 1
        /\ pending' = [k \in Senders |-> NoChallenge]
    BY <1>14 DEF Restart, Forgotten
  <2> QED
    BY <1>0, <2>1, AbandonStep
<1>15. CASE AuditCommit \/ StartBatch \/ FinishBatch
            \/ \E c \in AllowedChats : Notify(c) \/ NotifyFails(c)
  BY <1>1, <1>15 DEF AuditCommit, StartBatch, FinishBatch, Notify, NotifyFails
<1> QED
  BY <1>1, <1>2, <1>3, <1>4, <1>5, <1>6, <1>7, <1>8, <1>9, <1>10, <1>11, <1>12, <1>13, <1>14,
     <1>15 DEF Next, vars

\* The places of the polls and of their reports never pass an update that was not dealt with,
\* and every challenge is at one stage of its life.
THEOREM PollInvariant == Spec => [](CursorInv /\ ChallengeInv)
<1>1. Init => CursorInv /\ ChallengeInv
  BY InitCursors, InitChallenges
<1>2. CursorInv /\ ChallengeInv /\ [Next]_vars => CursorInv' /\ ChallengeInv'
  BY NextStep
<1> QED
  BY <1>1, <1>2, PTL DEF Spec

\* Repeated confirmations, failed polls, lost cursors and restarts notwithstanding, a challenge
\* closes the positions at most once.
THEOREM OneCommandPerChallenge == Spec => []ChallengeAuthorizesOnce
<1>1. ChallengeInv => ChallengeAuthorizesOnce
  BY DEF ChallengeInv, Distinct, ChallengeAuthorizesOnce
<1> QED
  BY <1>1, PollInvariant, PTL

\* The saved cursor and the saved audit sequence pass only what was answered and notified.
THEOREM NothingIsSkipped == Spec => []CursorsCoverWork
<1>1. Init => BatchInv
  BY InitCursors
<1>2. BatchInv /\ [Next]_vars => BatchInv'
  BY BatchKeeps
<1>3. CursorInv /\ BatchInv => CursorsCoverWork
  BY DEF CursorInv, BatchInv, CursorsCoverWork
<1> QED
  BY <1>1, <1>2, <1>3, PollInvariant, PTL DEF Spec


-----------------------------------------------------------------------------
(***************************************************************************)
(* What a command is entitled by.  A challenge that is offered is the one  *)
(* its key was given in this process, and only messages later than the     *)
(* request can carry its nonce.                                            *)
(***************************************************************************)
Allowed(k) == k[1] \in AllowedChats /\ k[2] \in Operators

Entitled(m) ==
    /\ m.id \in 1..Len(begun) /\ m.confirm \in 1..Len(updates)
    /\ m.by = begun[m.id].key /\ Allowed(m.by)
    /\ updates[m.confirm].nonce = m.id
    /\ begun[m.id].update < m.confirm
    /\ m.at < begun[m.id].expires
    /\ m.run = begun[m.id].run

ReturnedOK == \A i \in DOMAIN returned : Entitled(returned[i])
CollectedOK == Working => \A i \in DOMAIN poll.commands : Entitled(poll.commands[i])
AcceptingOK == poll.phase = "reply" /\ poll.reply.kind = "accepted" => Entitled(Command)

\* A pending challenge was issued by the running process: a new one starts without any.
OffersOK ==
    \A k \in Senders : Offers(k) =>
        LET c == begun[pending[k].id] IN
        c.key = k /\ Allowed(k) /\ c.expires = pending[k].expires /\ c.run = restarts

\* A nonce is known only after the message that asked for it.
MessagesOK ==
    /\ \A i \in 1..Len(updates) :
           LET nonce == updates[i].nonce IN
           nonce # WrongNonce => nonce \in 1..Len(begun) /\ begun[nonce].update < i
    /\ \A i \in 1..Len(begun) : begun[i].update <= Len(updates)

EntitledInv == ReturnedOK /\ CollectedOK /\ AcceptingOK /\ OffersOK /\ MessagesOK

LEMMA InitEntitled == Init => EntitledInv
<1> SUFFICES ASSUME Init PROVE EntitledInv
  OBVIOUS
<1>1. poll.phase = "none" /\ ~Working
  BY DEF Init, NoPoll, Working
<1>2. \A k \in Senders : ~Offers(k)
  BY DEF Init, Offers
<1>3. returned = <<>> /\ updates = <<>> /\ begun = <<>>
  BY DEF Init
<1> QED
  BY <1>1, <1>2, <1>3 DEF EntitledInv, ReturnedOK, CollectedOK, AcceptingOK, OffersOK, MessagesOK

\* Challenges and messages are only ever added.
Grows ==
    /\ Len(begun) <= Len(begun') /\ \A i \in 1..Len(begun) : begun'[i] = begun[i]
    /\ Len(updates) <= Len(updates') /\ \A i \in 1..Len(updates) : updates'[i] = updates[i]

LEMMA LengthTypes ==
    ASSUME CursorInv, ChallengeInv
    PROVE  /\ Len(begun) \in Nat /\ Len(updates) \in Nat /\ restarts \in Nat
           /\ \A i \in 1..Len(begun) : begun[i] \in Challenges /\ begun[i].run \in Nat
                                       /\ begun[i].update \in Nat /\ begun[i].expires \in Nat
           /\ \A i \in 1..Len(updates) : updates[i] \in Updates /\ updates[i].nonce \in Nat
<1>1. begun \in Seq(Challenges) /\ updates \in Seq(Updates) /\ restarts \in Nat
  BY DEF CursorInv, ChallengeInv, PollTypes
<1>2. \A i \in 1..Len(begun) : begun[i] \in Challenges
  BY <1>1
<1>3. \A i \in 1..Len(updates) : updates[i] \in Updates
  BY <1>1
<1> QED
  BY <1>1, <1>2, <1>3 DEF Challenges, Updates

LEMMA StaysEntitled ==
    ASSUME CursorInv, ChallengeInv, Grows, Len(begun') \in Nat, Len(updates') \in Nat
    PROVE  \A m : Entitled(m) =>
               /\ begun'[m.id] = begun[m.id] /\ updates'[m.confirm] = updates[m.confirm]
               /\ m.id \in 1..Len(begun') /\ m.confirm \in 1..Len(updates')
<1> SUFFICES ASSUME NEW m, Entitled(m)
             PROVE  /\ begun'[m.id] = begun[m.id] /\ updates'[m.confirm] = updates[m.confirm]
                    /\ m.id \in 1..Len(begun') /\ m.confirm \in 1..Len(updates')
  OBVIOUS
<1>1. m.id \in 1..Len(begun) /\ m.confirm \in 1..Len(updates)
  BY DEF Entitled
<1> QED
  BY <1>1, LengthTypes DEF Grows

\* The commands that were returned stay entitled.
LEMMA ReturnedStays ==
    ASSUME CursorInv, ChallengeInv, EntitledInv, Grows, ChallengeInv', CursorInv',
           returned' = returned
    PROVE  ReturnedOK'
<1>1. Len(begun') \in Nat /\ Len(updates') \in Nat
  BY DEF ChallengeInv, CursorInv, PollTypes
<1>2. ASSUME NEW i \in DOMAIN returned PROVE Entitled(returned[i])'
  <2> DEFINE m == returned[i]
  <2>1. Entitled(m)
    BY DEF EntitledInv, ReturnedOK
  <2>2. m' = m
    OBVIOUS
  <2>3. /\ begun'[m.id] = begun[m.id] /\ updates'[m.confirm] = updates[m.confirm]
        /\ m.id \in 1..Len(begun') /\ m.confirm \in 1..Len(updates')
    BY <1>1, <2>1, StaysEntitled
  <2> QED
    BY <2>1, <2>2, <2>3 DEF Entitled
<1> QED
  BY <1>2 DEF ReturnedOK

LEMMA CollectedStays ==
    ASSUME CursorInv, ChallengeInv, EntitledInv, Grows, ChallengeInv', CursorInv',
           \/ ~Working'
           \/ Working' /\ poll'.commands = <<>>
           \/ Working' /\ Working /\ poll'.commands = poll.commands
    PROVE  CollectedOK'
<1>1. Len(begun') \in Nat /\ Len(updates') \in Nat
  BY DEF ChallengeInv, CursorInv, PollTypes
<1>2. CASE ~Working' \/ poll'.commands = <<>>
  BY <1>2 DEF CollectedOK
<1>3. CASE Working' /\ Working /\ poll'.commands = poll.commands
  <2> SUFFICES ASSUME NEW i \in DOMAIN poll.commands PROVE Entitled(poll.commands[i])'
    BY <1>3 DEF CollectedOK
  <2> DEFINE m == poll.commands[i]
  <2>1. Entitled(m)
    BY <1>3 DEF EntitledInv, CollectedOK
  <2>2. m' = m
    BY <1>3
  <2>3. /\ begun'[m.id] = begun[m.id] /\ updates'[m.confirm] = updates[m.confirm]
        /\ m.id \in 1..Len(begun') /\ m.confirm \in 1..Len(updates')
    BY <1>1, <2>1, StaysEntitled
  <2> QED
    BY <2>1, <2>2, <2>3 DEF Entitled
<1> QED
  BY <1>2, <1>3

\* A step that neither issues nor accepts nor returns.
LEMMA EntitledKept ==
    ASSUME CursorInv, ChallengeInv, EntitledInv, ChallengeInv', CursorInv',
           UNCHANGED <<returned, begun, updates>>,
           \A k \in Senders : pending'[k] = pending[k] \/ pending'[k] = NoChallenge,
           \/ restarts' = restarts
           \/ ~Working' /\ \A k \in Senders : pending'[k] = NoChallenge,
           \/ ~Working'
           \/ Working' /\ poll'.commands = <<>>
           \/ Working' /\ Working /\ poll'.commands = poll.commands,
           \/ poll'.phase # "reply" \/ poll'.reply.kind # "accepted"
           \/ poll' = poll /\ restarts' = restarts
    PROVE  EntitledInv'
<1>1. Grows
  BY DEF Grows, CursorInv, ChallengeInv, PollTypes
<1>2. ReturnedOK'
  BY <1>1, ReturnedStays
<1>3. CollectedOK'
  BY <1>1, CollectedStays
<1>4. AcceptingOK'
  <2>1. CASE poll'.phase # "reply" \/ poll'.reply.kind # "accepted"
    BY <2>1 DEF AcceptingOK
  <2>2. CASE poll' = poll /\ restarts' = restarts
    BY <2>2 DEF EntitledInv, AcceptingOK, Entitled, Command, Update
  <2> QED
    BY <2>1, <2>2
<1>5. OffersOK'
  BY DEF EntitledInv, OffersOK, Offers
<1>6. MessagesOK'
  BY DEF EntitledInv, MessagesOK
<1> QED
  BY <1>2, <1>3, <1>4, <1>5, <1>6 DEF EntitledInv

LEMMA UserSendsEntitled ==
    ASSUME CursorInv, ChallengeInv, EntitledInv, ChallengeInv', CursorInv',
           NEW k \in Senders, NEW text \in Texts, NEW nonce \in 0..Len(begun),
           UserSends(k, text, nonce)
    PROVE  EntitledInv'
<1> DEFINE u == [from |-> k, text |-> text, nonce |-> nonce]
           n == Len(updates)
<1>1. /\ UNCHANGED <<poll, pending, begun, returned, restarts>>
      /\ updates' = Append(updates, u) /\ poll.phase = "fetch"
  BY DEF UserSends
<1>2. updates \in Seq(Updates) /\ n \in Nat /\ Len(begun) \in Nat /\ restarts \in Nat
  BY LengthTypes DEF CursorInv, PollTypes
<1>3. Len(updates') = n + 1 /\ updates'[n + 1] = u /\ \A i \in 1..n : updates'[i] = updates[i]
  BY <1>1, <1>2
<1>4. Grows
  BY <1>1, <1>2, <1>3 DEF Grows
<1>5. ~Working'
  BY <1>1 DEF Working
<1>6. ReturnedOK' /\ CollectedOK'
  BY <1>1, <1>2, <1>4, <1>5, ReturnedStays, CollectedStays
<1>7. AcceptingOK' /\ OffersOK'
  BY <1>1 DEF EntitledInv, AcceptingOK, OffersOK, Offers
<1>8. MessagesOK'
  <2>1. \A i \in 1..Len(begun) : begun[i].update <= n /\ begun[i].update \in Nat
    BY LengthTypes DEF EntitledInv, MessagesOK
  <2>2. u.nonce = nonce /\ (nonce # WrongNonce => nonce \in 1..Len(begun))
    BY <1>2 DEF WrongNonce
  <2> HIDE DEF u, n
  <2>3. ASSUME NEW i \in 1..n, updates'[i].nonce # WrongNonce
        PROVE  updates'[i].nonce \in 1..Len(begun) /\ begun[updates'[i].nonce].update < i
    BY <1>3, <2>3 DEF EntitledInv, MessagesOK, n
  <2>4. ASSUME u.nonce # WrongNonce PROVE u.nonce \in 1..Len(begun) /\ begun[u.nonce].update < n + 1
    BY <1>2, <2>1, <2>2, <2>4
  <2>5. \A i \in 1..(n + 1) : i \in 1..n \/ i = n + 1
    BY <1>2
  <2>6. \A i \in 1..(n + 1) : updates'[i].nonce # WrongNonce =>
            updates'[i].nonce \in 1..Len(begun) /\ begun[updates'[i].nonce].update < i
    BY <1>3, <2>3, <2>4, <2>5
  <2>7. \A i \in 1..Len(begun) : begun[i].update <= n + 1
    BY <1>2, <2>1
  <2> QED
    BY <1>1, <1>3, <2>6, <2>7 DEF MessagesOK
<1> QED
  BY <1>6, <1>7, <1>8 DEF EntitledInv

\* An offer carries the key, the run and the end of the challenge that is issued.
LEMMA BeginEntitled ==
    ASSUME CursorInv, ChallengeInv, EntitledInv, ChallengeInv', CursorInv', Begin
    PROVE  EntitledInv'
<1>1. /\ Turn /\ Working /\ poll \in WorkPolls /\ poll.at <= poll.last /\ Len(begun) \in Nat
      /\ Authorized(Update.from) /\ ~Silent(Update)
  BY WorkingType DEF Begin, Emergency, Turn, Working, CursorInv, ChallengeInv
<1> PICK key \in Senders : key = Update.from /\ key = Key
  BY <1>1, UpdateType DEF Key
<1> PICK n \in Nat : n = Len(begun) + 1
  BY <1>1
<1> DEFINE issued == [key |-> key, update |-> poll.at, run |-> restarts,
                      expires |-> poll.now + ConfirmationTtl]
           offer == [id |-> n, expires |-> poll.now + ConfirmationTtl]
<1>2. Allowed(key) /\ poll.at \in 1..Len(updates)
  BY <1>1, UpdateType DEF Allowed, Authorized, Silent
<1>3. begun' = Append(begun, issued) /\ begun \in Seq(Challenges)
  BY DEF Begin, ChallengeInv
<1>4. /\ Len(begun') = n /\ begun'[n] = issued
      /\ \A i \in 1..Len(begun) : begun'[i] = begun[i]
  BY <1>3
<1>5. /\ pending' = [Live EXCEPT ![key] = offer]
      /\ poll' = [poll EXCEPT !.phase = "reply", !.reply = [kind |-> "nonce", id |-> n]]
      /\ UNCHANGED <<updates, returned, restarts>>
  BY <1>4 DEF Begin, Unhandled, Replying
<1>6. /\ pending'[key] = offer
      /\ \A k \in Senders \ {key} : pending'[k] = pending[k] \/ pending'[k] = NoChallenge
  <2> HIDE DEF offer
  <2> QED
    BY <1>5, LiveTypes
<1>7. /\ poll'.phase = "reply" /\ poll'.reply.kind = "nonce" /\ poll'.commands = poll.commands
      /\ Working'
  BY <1>1, <1>5 DEF WorkPolls, Working
<1>8. Grows /\ restarts \in Nat
  BY <1>1, <1>4, <1>5, LengthTypes DEF Grows
<1>9. ReturnedOK' /\ CollectedOK'
  BY <1>1, <1>5, <1>7, <1>8, ReturnedStays, CollectedStays
<1>10. AcceptingOK'
  BY <1>7 DEF AcceptingOK
<1>11. OffersOK'
  <2> SUFFICES ASSUME NEW k \in Senders, Offers(k)'
               PROVE  /\ begun'[pending'[k].id].key = k /\ Allowed(k)
                      /\ begun'[pending'[k].id].expires = pending'[k].expires
                      /\ begun'[pending'[k].id].run = restarts'
    BY DEF OffersOK, Allowed
  <2>1. CASE k = key
    BY <1>2, <1>4, <1>5, <1>6, <2>1
  <2>2. CASE k # key
    <3>1. pending'[k] = pending[k] /\ Offers(k)
      BY <1>6, <2>2 DEF Offers
    <3>2. pending[k].id \in 1..Len(begun)
      BY <3>1 DEF ChallengeInv
    <3> QED
      BY <1>4, <1>5, <3>1, <3>2 DEF EntitledInv, OffersOK
  <2> QED
    BY <2>1, <2>2
<1>12. MessagesOK'
  <2>1. \A i \in 1..Len(begun) : i \in 1..n
    BY <1>1
  <2>2. \A i \in 1..n : i \in 1..Len(begun) \/ i = n
    BY <1>1
  <2>3. begun'[n].update <= Len(updates)
    BY <1>2, <1>4
  <2> QED
    BY <1>4, <1>5, <2>1, <2>2, <2>3 DEF EntitledInv, MessagesOK
<1> QED
  BY <1>9, <1>10, <1>11, <1>12 DEF EntitledInv

LEMMA ConfirmEntitled ==
    ASSUME CursorInv, ChallengeInv, EntitledInv, ChallengeInv', CursorInv', Confirm
    PROVE  EntitledInv'
<1>1. /\ Turn /\ Working /\ poll \in WorkPolls /\ poll.at <= poll.last
      /\ Authorized(Update.from) /\ ~Silent(Update)
  BY WorkingType DEF Confirm, Emergency, Turn, Working, CursorInv
<1> PICK key \in Senders : key = Update.from /\ key = Key
  BY <1>1, UpdateType DEF Key
<1> PICK c \in [id : Nat, expires : Nat] : c = Live[key]
  BY LiveTypes
<1> DEFINE reply == IF Valid(c) THEN [kind |-> "accepted", id |-> c.id] ELSE Words
<1>2. /\ pending' = [Live EXCEPT ![key] = NoChallenge] /\ Replying(reply)
      /\ UNCHANGED <<clock, updates, cursor, report, begun, returned, restarts>>
  BY DEF Confirm, Taken, Unhandled
<1>3. /\ poll'.phase = "reply" /\ poll'.reply = reply /\ poll'.commands = poll.commands
      /\ poll'.at = poll.at /\ poll'.now = poll.now /\ Working'
  BY <1>1, <1>2 DEF Replying, WorkPolls, Working
<1>4. \A k \in Senders : pending'[k] = pending[k] \/ pending'[k] = NoChallenge
  BY <1>2, LiveTypes
<1>5. Grows /\ restarts \in Nat
  BY <1>2, LengthTypes DEF Grows
<1>6. ReturnedOK' /\ CollectedOK'
  BY <1>1, <1>2, <1>3, <1>5, ReturnedStays, CollectedStays
<1>7. OffersOK' /\ MessagesOK'
  BY <1>2, <1>4 DEF EntitledInv, OffersOK, MessagesOK, Offers
<1>8. AcceptingOK'
  <2> SUFFICES ASSUME reply.kind = "accepted" PROVE Entitled(Command)'
    BY <1>3 DEF AcceptingOK
  <2>1. Valid(c) /\ reply.id = c.id
    BY DEF Words
  <2>2. c # NoChallenge /\ c.id = Update.nonce
    BY <2>1 DEF Valid
  <2>3. c = pending[key] /\ Offers(key) /\ c.expires > poll.now
    BY <2>2 DEF Live, Offers
  <2>4. /\ begun[c.id].key = key /\ Allowed(key) /\ begun[c.id].expires = c.expires
        /\ begun[c.id].run = restarts /\ c.id \in 1..Len(begun)
    BY <2>3 DEF EntitledInv, OffersOK, ChallengeInv
  <2>5. poll.at \in 1..Len(updates) /\ updates[poll.at] = Update
    BY <1>1, UpdateType DEF Update
  <2>6. begun[c.id].update < poll.at
    <3>1. c.id # WrongNonce
      BY <2>4 DEF WrongNonce
    <3> QED
      BY <2>2, <2>5, <3>1 DEF EntitledInv, MessagesOK
  <2> DEFINE m == [id |-> c.id, confirm |-> poll.at, by |-> key, at |-> poll.now,
                 run |-> restarts]
  <2>7. Command' = m
    BY <1>2, <1>3, <2>1 DEF Command, Update
  <2>8. begun[c.id].expires > poll.now
    BY <2>3, <2>4
  <2>9. /\ m.id = c.id /\ m.confirm = poll.at /\ m.by = key /\ m.at = poll.now
        /\ m.run = restarts
    OBVIOUS
  <2> HIDE DEF m
  <2>10. poll.now \in Nat /\ c.expires \in Nat
    BY <1>1 DEF WorkPolls
  <2> QED
    BY <1>2, <2>2, <2>3, <2>4, <2>5, <2>6, <2>7, <2>8, <2>9, <2>10 DEF Entitled, Allowed
<1> QED
  BY <1>6, <1>7, <1>8 DEF EntitledInv

\* A command joins those of its poll when its acceptance was told.
LEMMA ReplySentEntitled ==
    ASSUME CursorInv, ChallengeInv, EntitledInv, ChallengeInv', CursorInv', ReplySent
    PROVE  EntitledInv'
<1>1. /\ Working /\ poll \in WorkPolls /\ poll.phase = "reply" /\ poll.commands \in Seq(Commands)
      /\ UNCHANGED <<pending, begun, updates, returned, restarts>>
  BY WorkingType DEF ReplySent, Working, CursorInv, WorkPolls
<1>2. /\ Working' /\ poll'.phase = "next" /\ Command \in Commands
      /\ poll'.commands = IF poll.reply.kind = "accepted"
                          THEN Append(poll.commands, Command) ELSE poll.commands
  BY PollAnswers DEF ChallengeInv
<1>4. CASE poll.reply.kind # "accepted"
  BY <1>1, <1>2, <1>4, EntitledKept
<1>5. CASE poll.reply.kind = "accepted"
  <2>1. Grows
    BY <1>1, LengthTypes DEF Grows
  <2>2. ReturnedOK'
    BY <1>1, <2>1, ReturnedStays
  <2>3. AcceptingOK' /\ OffersOK' /\ MessagesOK'
    BY <1>1, <1>2 DEF EntitledInv, AcceptingOK, OffersOK, MessagesOK, Offers
  <2>4. CollectedOK'
    <3> DEFINE longer == Append(poll.commands, Command)
               n == Len(poll.commands)
    <3>1. /\ n \in Nat /\ DOMAIN poll.commands = 1..n /\ DOMAIN longer = 1..(n + 1)
          /\ longer[n + 1] = Command /\ \A i \in 1..n : longer[i] = poll.commands[i]
          /\ \A i \in 1..(n + 1) : i \in 1..n \/ i = n + 1
      BY <1>1, <1>2
    <3>2. \A i \in 1..n : Entitled(poll.commands[i])
      BY <1>1, <3>1 DEF EntitledInv, CollectedOK
    <3>3. Entitled(Command)
      BY <1>1, <1>5 DEF EntitledInv, AcceptingOK
    <3>4. poll'.commands = longer
      BY <1>2, <1>5
    <3> HIDE DEF longer, n
    <3>5. \A i \in DOMAIN longer : Entitled(longer[i])
      BY <3>1, <3>2, <3>3
    <3> QED
      BY <1>1, <3>4, <3>5 DEF CollectedOK, Entitled
  <2> QED
    BY <2>2, <2>3, <2>4 DEF EntitledInv
<1> QED
  BY <1>4, <1>5

\* The commands of a poll join those that were returned before.
LEMMA FinishEntitled ==
    ASSUME CursorInv, ChallengeInv, EntitledInv, ChallengeInv', CursorInv', FinishPoll
    PROVE  EntitledInv'
<1>1. Working /\ poll \in WorkPolls /\ poll.commands \in Seq(Commands) /\ returned \in Seq(Commands)
  BY WorkingType DEF FinishPoll, Working, CursorInv, ChallengeInv, WorkPolls
<1>2. /\ UNCHANGED <<updates, pending, begun, restarts>>
      /\ poll' = NoPoll /\ returned' = returned \o poll.commands
  BY DEF FinishPoll
<1>3. poll'.phase = "none" /\ ~Working'
  BY <1>2, NoPollPhases DEF Working
<1>4. CollectedOK' /\ AcceptingOK' /\ OffersOK' /\ MessagesOK'
  BY <1>2, <1>3 DEF EntitledInv, CollectedOK, AcceptingOK, OffersOK, MessagesOK, Offers
<1>5. ReturnedOK'
  <2> DEFINE longer == returned \o poll.commands
             n == Len(returned)
             m == Len(poll.commands)
  <2>1. /\ n \in Nat /\ m \in Nat /\ DOMAIN returned = 1..n /\ DOMAIN poll.commands = 1..m
        /\ DOMAIN longer = 1..(n + m)
        /\ \A i \in 1..n : longer[i] = returned[i]
        /\ \A i \in 1..(n + m) : i \notin 1..n =>
               i - n \in 1..m /\ longer[i] = poll.commands[i - n]
    BY <1>1
  <2>2. \A i \in 1..n : Entitled(returned[i])
    BY <2>1 DEF EntitledInv, ReturnedOK
  <2>3. \A i \in 1..m : Entitled(poll.commands[i])
    BY <1>1, <2>1 DEF EntitledInv, CollectedOK
  <2>4. returned' = longer
    BY <1>2
  <2> HIDE DEF longer, n, m
  <2>5. \A i \in DOMAIN longer : Entitled(longer[i])
    BY <2>1, <2>2, <2>3
  <2> QED
    BY <1>2, <2>4, <2>5 DEF ReturnedOK, Entitled
<1> QED
  BY <1>4, <1>5 DEF EntitledInv

\* A poll that ends without a result leaves no challenge of it behind.
LEMMA AbandonEntitled ==
    ASSUME CursorInv, ChallengeInv, EntitledInv, ChallengeInv', CursorInv', poll' = NoPoll,
           UNCHANGED <<updates, returned, begun>>,
           \/ (pending' = pending \/ pending' = Live) /\ restarts' = restarts
           \/ pending' = [k \in Senders |-> NoChallenge] /\ restarts' = restarts + 1
    PROVE  EntitledInv'
<1>1. poll'.phase = "none" /\ ~Working'
  BY NoPollPhases DEF Working
<1>2. \A k \in Senders : pending'[k] = pending[k] \/ pending'[k] = NoChallenge
  BY LiveTypes
<1> QED
  BY <1>1, <1>2, EntitledKept

LEMMA NextEntitled ==
    ASSUME CursorInv, ChallengeInv, EntitledInv, [Next]_vars
    PROVE  EntitledInv'
<1>1. CursorInv' /\ ChallengeInv'
  BY NextStep
<1>2. CASE UNCHANGED <<updates, poll, pending, begun, returned, restarts>>
  <2>1. Working' = Working
    BY <1>2 DEF Working
  <2> QED
    BY <1>1, <1>2, <2>1, EntitledKept
<1>3. CASE \E k \in Senders, text \in Texts, nonce \in 0..Len(begun) : UserSends(k, text, nonce)
  BY <1>1, <1>3, UserSendsEntitled
<1>4. CASE StartPoll \/ FetchUpdates \/ Skip \/ Answer
  <2>1. UNCHANGED <<updates, pending, begun, returned, restarts>>
    BY <1>4 DEF StartPoll, FetchUpdates, Skip, Answer, Unhandled
  <2>2. CASE StartPoll
    <3>1. poll'.phase = "fetch" /\ ~Working'
      BY <2>2 DEF StartPoll, Working
    <3> QED
      BY <1>1, <2>1, <3>1, EntitledKept
  <2>3. CASE FetchUpdates
    <3>1. Working' /\ poll'.phase = "next" /\ poll'.commands = <<>>
      BY <2>3, PollFetches
    <3> QED
      BY <1>1, <2>1, <3>1, EntitledKept
  <2>4. CASE Skip
    <3>1. Working' /\ Working /\ poll'.phase = "next" /\ poll'.commands = poll.commands
      BY <2>4, PollSkips DEF Skip, Turn, Working
    <3> QED
      BY <1>1, <2>1, <3>1, EntitledKept
  <2>5. CASE Answer
    <3>1. Turn /\ Working /\ poll \in WorkPolls /\ Replying(Words)
      BY <2>5, WorkingType DEF Answer, Turn, Working, CursorInv
    <3>2. /\ Working' /\ poll'.reply.kind = "words" /\ poll'.commands = poll.commands
      BY <3>1 DEF Replying, WorkPolls, Words, Working
    <3> QED
      BY <1>1, <2>1, <3>1, <3>2, EntitledKept
  <2> QED
    BY <1>4, <2>2, <2>3, <2>4, <2>5
<1>5. CASE FetchFails \/ ReplyFails \/ CapacityExceeded \/ QueryFails \/ Restart
  <2>1. /\ UNCHANGED <<updates, returned, begun>> /\ poll' = NoPoll
        /\ \/ (pending' = pending \/ pending' = Live) /\ restarts' = restarts
           \/ pending' = [k \in Senders |-> NoChallenge] /\ restarts' = restarts + 1
    BY <1>5 DEF FetchFails, ReplyFails, CapacityExceeded, QueryFails, Unhandled, Restart, Forgotten
  <2> QED
    BY <1>1, <2>1, AbandonEntitled
<1>6. CASE Begin \/ Confirm \/ ReplySent \/ FinishPoll
  BY <1>1, <1>6, BeginEntitled, ConfirmEntitled, ReplySentEntitled, FinishEntitled
<1>7. CASE \/ Tick \/ SaveCursor \/ AuditCommit \/ StartBatch \/ FinishBatch
           \/ \E c \in AllowedChats : Notify(c) \/ NotifyFails(c)
  BY <1>2, <1>7 DEF Tick, SaveCursor, AuditCommit, StartBatch, FinishBatch, Notify, NotifyFails,
                    polling
<1> QED
  BY <1>2, <1>3, <1>4, <1>5, <1>6, <1>7 DEF Next, vars, polling

\* A command that a poll returns was asked for and confirmed, later and in time, by the same
\* operator in the same allowed chat, and confirmed in the process that issued its challenge:
\* polls that fail and are repeated, challenges that are replaced and restarts in between do
\* not help a message of anybody else or of an earlier process.
THEOREM EntitledOnly == Spec => []CommandsAreEntitled
<1>1. Init => EntitledInv
  BY InitEntitled
<1>2. CursorInv /\ ChallengeInv /\ EntitledInv /\ [Next]_vars => EntitledInv'
  BY NextEntitled
<1>3. ChallengeInv /\ EntitledInv => CommandsAreEntitled
  <2> SUFFICES ASSUME ChallengeInv, EntitledInv PROVE CommandsAreEntitled
    OBVIOUS
  <2> SUFFICES ASSUME NEW i \in DOMAIN returned
               PROVE  LET m == returned[i]
                          c == begun[m.id]
                      IN /\ m.by = c.key /\ m.by[1] \in AllowedChats /\ m.by[2] \in Operators
                         /\ updates[m.confirm].nonce = m.id
                         /\ c.update < m.confirm
                         /\ m.at < c.expires
                         /\ m.run = c.run
    BY DEF CommandsAreEntitled
  <2>1. Entitled(returned[i])
    BY DEF EntitledInv, ReturnedOK
  <2> QED
    BY <2>1 DEF Entitled, Allowed
<1> QED
  BY <1>1, <1>2, <1>3, PollInvariant, PTL DEF Spec
=============================================================================
