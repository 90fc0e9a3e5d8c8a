# A formal model of euphoria-api

euphoria-api is the backend of a matching and chat application: an Elysia
server over PostgreSQL, with services in `src/src/services`, tables and triggers
in `src/drizzle`, and decisions in `src/docs/adr` and
`src/docs/backend-v2/PLAN.md`. Most of what can go wrong in it goes wrong
between two transactions. This directory models those transactions in TLA+,
checks them with TLC and proves some of the results with TLAPS.

## 1. The system

| Component | State | Operations | Modules |
|---|---|---|---|
| Delivery jobs (`delivery-job-service.ts`) | `delivery_job`, `delivery_job_attempt`, `delivery_job_manual_requeue` | enqueue, claim, complete, retry, dead-letter, manual requeue, cleanup | `DeliveryJobs` |
| Transactional chat (`chat-service.ts`) | likes, conversations, messages, read positions, emoji reactions, notifications, and the events of three kinds of scope | like and unlike, send, mark read, react, notify of a match; as far as they change the unread count, read and archive notifications | `Chat` |
| Command idempotency (`command-idempotency-service.ts`) | `command_idempotency` | run a command once, replay it, clean up | `IdempotentCommands`, `ExactlyOnce` |
| Durable events (`durable-event-service.ts`) | `durable_event_scope`, `durable_event` | append, validate a checkpoint, prune | `DurableEvents` |
| Profile membership (`profile-membership-service.ts`, profile PATCH) | `profile`, `profile_user` | create, add, remove, change role, change type, delete, reactivate | `ProfileMembership` |
| Chat sockets (`chat-sockets.ts`, the socket of `routes/chat.ts`, broadcasts of `chat-service.ts`) | in-process connections, presence, subscriptions | open, close, subscribe, unsubscribe, typing, broadcast | `ChatSockets` |
| Notifications (`notification-service.ts`, `notification-sockets.ts`, `services/push`) | `notification`, `notification_delivery_attempt`, in-process connections | create, read, archive, tell counts, dispatch to APNs and Expo, record answers | `Notifications`, `PushProviders` |
| Push tokens (`push-token-registration.ts`) | `user_push_token` | register, rotate, disable | `PushTokens` |
| Cursor pagination (`lib/cursor.ts` and four lists) | none; opaque cursors | encode, decode, first page, next page | `CursorPagination` |
| Feed (`feed-service.ts`) | none of its own | list | its paging in `CursorPagination` |
| Authentication, routes, documents, photo storage | none of their own | translation and I/O | not modelled |

How they interact. A send is one PostgreSQL transaction:
`runIdempotentCommand` claims the command, `lockProfilePairInTransaction` takes
the advisory lock of the profile pair, the message, the sender's read position,
notifications and push jobs are written, `appendDurableEventsInTransaction`
appends events to the conversation, then to both profiles, then to the notified
users, and the command's outcome is stored. Sockets are told after the
commit, by handlers that await rows on the way. A match makes
notifications of its own, whose deliveries are sent at once: to the sockets of
the recipient, then to the providers of the registered tokens. The pushes of
messages are jobs, claimed by workers that are not in the repository yet.
Membership decides who may act for a profile and who is notified.

What is hard. Transactions are READ COMMITTED, so every statement sees
a later snapshot than the one before. `created_at` is the time of BEGIN and
not of the lock. Leases run out while their workers still work. Clients repeat
commands whose answers they lost. Cleanups delete what somebody is about to
read. Triggers check at COMMIT what they can see then. Handlers overtake each
other at their awaits, and their sockets close meanwhile. Tokens move between
phones while a push to them is under way. Lists change under a client that
pages through them. `PROJECT.json` lists each of these hazards at its line, with
the properties aimed at it.

## 2. Modules and code

In all modules of transactions, one that is READ COMMITTED is as many actions
as there are points where another transaction can be noticed, uncommitted
changes are kept apart from the committed rows, and a transaction may fail
anywhere and then leaves nothing. In the modules of the server process, a
handler runs without interruption up to its next `await`, and is a *task* while
it awaits rows. `map` in `PROJECT.json` names the lines of each definition.

**DeliveryJobs.** Each operation locks the job's row with its first statement
and works only on that job, so it is one action. Timestamps are
offsets from the database clock (`clock_timestamp()` is 0) and `Tick` ages them.
A worker is anybody who calls with a lease it was once granted: late, repeated,
under another owner's name. The claim first dead-letters final leases that ran
out and then leases a batch; `FOR UPDATE SKIP LOCKED` is the choice of the rows
that other transactions hold (`locked`). `told` keeps what the service
has answered, so that answers can be compared with the ledger.

**Chat.** A transaction is Begin (its time), Lock (the pair lock, and the unread
counts before the change), Prepare (the checks, and the counts and projections
that the events will carry) and Commit. Rows of a pair change only under its
lock, but counts over all conversations of a profile, and over all notifications
of a user, see other pairs' commits and not their uncommitted rows. `log` is the
sequence of committed durable events of each scope. Messages are named by their
time. Any of the pairs may be matched already when a behaviour begins.

A like decides in its transaction whether it has made a match
(`AnnouncesMatch`). If so its handler goes on after the commit, without lock or
transaction of its own, and creates one notification for each member of both
profiles, the liker's side first (`NotifyMatch`); a failure loses those that are
left. Users read and archive their notifications at any time (`See`, `SeeAll`).
None of these appends a durable event, and `notices` keeps the rows they write
apart from those of the transactions: `UnreadNotifications` counts both, as
`getUnreadNotificationCount` does.

**IdempotentCommands** refines **ExactlyOnce**. `writer` is the uncommitted
claim that makes a second INSERT wait; `sweeping` are the rows a cleanup has
locked, `Wait` the SELECT FOR UPDATE that is behind such a cleanup. A caller may
be lost at any step (`Lose`). The refinement maps a row to the
command it records: `done[k]` is the row's command and is set in one step
together with its effects. A run number on each call tells a replay from a second
execution.

**DurableEvents.** An append takes the scope row's lock until the
transaction ends. The cleanup is Select, Delete (with the snapshot of the
trigger's UPDATE), Raise for each touched scope, and Prune. The trigger's floor
comes from that old snapshot, its high water from the row after the wait, and
its contiguity check from a new snapshot. Checkpoint validation is an operator,
for it reads one row.

**ProfileMembership.** A transaction is the service's profile lock,
authorisation, the write with its BEFORE trigger, the deferred checks at
COMMIT, and the commit. `View` is what a statement sees: the committed rows with
the transaction's own write. The reactivation trigger lists the members once and
then locks and checks them one by one, least user first, as
`ORDER BY` in the migration says.

**ChatSockets.** `hub` is the hub with its four maps, `rows` the version of each
conversation. A task is the opening of a socket, a subscription, a presence
announcement, or a conversation upsert, which awaits rows once for each
participant. `Read` is the moment PostgreSQL answers, `Register`,
`AnswerSubscribe`, `AnnouncePresence` and `Upsert` are what the handler then
does. A client may vanish at any time, the close is handled later. `told`,
`view` and `shown` are what a client has been told of its subscriptions, of its
peers and of conversations. `env` is fixed at the start: whether tasks are
served one by one, and whether a send on a lost connection throws, in which case
the hub forgets the socket in the middle of the broadcast.

**PushTokens.** A session is one registration: `Begin` (normalisation),
the advisory lock of the installation, `disableRotatedApnsTokens`, the upsert,
the commit. `written` are its uncommitted rows, which lock those rows for the
others. `Rivals` is the partial unique index: the rows that would share the
place of the upserted one, were everything open committed or rolled back. A
registration that the index refuses ends "rejected".

**PushProviders** is computation only: how an answer of APNs is classified, how
the alert is cut to the payload limit by binary search, body first, and how a
ticket of Expo is read. A text is the sequence of the byte widths of its
characters.

**Notifications** composes the two with the notifications themselves. The unread
count is told by tasks. `sending` is how far the asking of the providers is:
waiting for the in-app delivery, due, asked, with the APNs devices awaited, the
Expo queue, how much of it was cut into chunks and the position from which
targets are found, and the attempts to be recorded when everybody has answered.
`said` is what a provider has said of a token, against which the
recorded statuses are compared. `Crash` ends the process; its transactions roll
back, its sockets are gone, and asking is lost.

**CursorPagination.** One client walks through one of the four lists, page by
page, while rows appear, move and go, and the secrets are reconfigured. An HMAC
is the secret together with what it covers. `steady` are the rows that
have been there since the walk began and that nobody touched.

The modules meet at the shapes they share: `Chat` appends whole event batches
at commit, and `DurableEvents` shows why that is what a reader of a scope sees;
`Chat` produces push jobs, and `DeliveryJobs` starts where they are
enqueued; `IdempotentCommands` has one `Execute` where `Chat` has its
transaction; `ChatSockets` starts with `Mutate`, where a transaction of `Chat`
has committed; `Notifications` takes a match as `CreateNotification` and a
message as `CreateMessage`.

## 3. Runs

| Run | Instance | Shows |
|---|---|---|
| `delivery_jobs` | 2 jobs, 2 workers, 3 leases, budgets up to 3 | one holder; a consistent ledger (no gap in the attempts, and the last one explains the job's state); budget left while pending; audits explain the budget; answers agree with the ledger; fencing; history kept |
| `delivery_jobs_live` | 2 jobs, 1 worker, 4 leases | every enqueued job is completed or dead-lettered |
| `chat` | 3 profiles, 2 pairs that share one, 2 transactions at a time, 3 in all | events tell the conversation; list projections are current; counts converge for one conversation and, of notifications, until a match or a read; notified once; late calls do no harm; a match is announced once, to everybody |
| `chat_unread_aggregate` | the same, 2 transactions | violated: the unread aggregate converges |
| `chat_sender_position` | 2 profiles, 2 transactions | violated: the sender's read position always advances |
| `idempotent_commands` | 2 keys, 2 bodies, 2 callers, 3 calls | implements `ExactlyOnce`; every command ends |
| `durable_events` | 2 scopes, 2 writers, 3 events per scope | the retained range is exactly what the row announces; checkpoints; no deadlock among writers; sequences continue; only expired events go |
| `profile_membership` | 2 profiles, 2 users, 2 transactions, all operations but reactivation | one active profile per user; an owner in every active profile |
| `profile_membership_reactivated` | with reactivation | violated: one active profile per user |
| `chat_sockets` | 2 profiles, 3 sockets, 1 conversation with 2 versions, 2 tasks | the hub's maps agree; what clients were told is true once nothing is under way, if tasks do not overtake each other |
| `cursor_pagination` | 4 lists and one that differs from each, 3 rows with 2 keys, limits of 0, 2 and none, 5 configurations of secrets | cursors bind their list and live as long as their secret; untouched rows are not skipped; pages follow each other |
| `notifications` | four worlds, below | counts settle; the ledger tells the providers' answers; one token per installation; payloads fit and say as much as fits |

Distinct states: 696,038 for `chat`, about 2.3 million for `chat_sockets`,
285,760 for `cursor_pagination` and 575,957 for `notifications`, which takes the
longest, two minutes with two workers.

Bounds, and why they are enough.

- *Two actors at a time.* Every race listed as a hazard is between two
  transactions or handlers, or one of them and a cleanup.
- *Three leases over two jobs, budgets up to 3* reach a reclaim, a late answer
  after it, exhaustion at the boundary and two manual requeues of one job. The
  liveness run has as many leases as two jobs with budgets of 2 can use;
  a fencing token is a fresh UUID, so running out of tokens is an artefact to
  avoid. `Horizon` bounds how overdue a timestamp may be told to be: the
  code compares timestamps with now only, so all overdue ones are alike, up to
  their order in the queue.
- *Three chat transactions over pairs that may be matched from the start*
  reach two messages acknowledged out of order, a like, an unlike and a send,
  two likes of one pair at once, and two pairs that change one profile's counts
  at once. `MaxClock` bounds the number of transactions begun, and `Readers` the
  users that read or archive: one, who is notified of messages and of matches.
- *Three calls* reach an execution, its loss or expiry, a second execution with
  the key and a replay.
- *Three events per scope, batches of two* reach a floor in the middle of a
  batch, an emptied scope and an append while the cleanup waits.
- *Three sockets of two profiles* reach a profile that stays online with its
  second socket, a socket refused as no member's, and one that closes while it
  is being opened. TLC runs the two weathers where something could differ: all
  goes well, or handlers overtake each other and sends throw. The proofs
  cover all four.
- *Three rows with two keys* reach a page boundary between equal keys and a row
  that moves over it in either direction; *limits* of nothing, zero and two
  reach all cases of the clamp.
- *The worlds of `notifications`* each hold what one hazard needs and leave the
  rest out, since their parts do not touch: two sockets with a match and a
  message (counts), two phones whose tokens change places while a match is
  pushed to them, with two registrations at a time (tokens), three Expo tokens,
  one of them malformed, cut into chunks of any size while one is taken over
  (tickets), and all texts of up to two characters of one or three bytes with
  0 to 7 bytes of data under a limit of 9, of which 4 are fixed (payloads).

Deadlock is checked for the jobs and the memberships, which never stop. The
other runs end where a bound is reached, and their configurations say so.

Symmetry is used for sets whose members are only compared, and never where
a liveness property is checked.

`delivery_jobs_live` runs `LiveSpec` of its MC module: the fair specification
without calls that change no row, which makes the state space smaller and takes
away no step that the property looks at.

Each property has a mutant, an operator with the plausible bug beside the
definition it changes; TLC finds the property violated with it.

## 4. Fairness

- `DeliveryJobs`: weak fairness of `Tick` (time passes) and of a claim that no
  other transaction contends with (some worker polls). Nothing is assumed
  of a worker that holds a lease: it may die each time.
- `IdempotentCommands`: strong fairness of a caller's steps, since PostgreSQL
  grants a lock in the order of its queue (an INSERT waits for the other claim,
  a SELECT FOR UPDATE for a row), and weak fairness of a cleanup's end, by its
  commit or its rollback.

The other modules state none. What `ViewsSettle` and `UnreadSettles` say of the
end of a burst is stated of the states in which nothing is under way, which needs
no fairness.

## 5. Proofs

`DeliveryJobsProofs`, for any jobs, tokens, workers, leases, delays, limits and
retention: `TypeCorrect`, `HolderUnique`, `BudgetKept` and `Fencing`
(`Spec => []TypeOK`, `[]OneHolder`, `[]BudgetLeft`, `FencedRelease`). The
inductive invariant is

    IInv == TypeOK /\ OneHolder /\ BudgetLeft /\ AttemptsOfLiveJobs

`AttemptsOfLiveJobs` says that a token has a job exactly since its claim and
that its attempt row does not outlive the job's row. Without it the cleanup
could, as far as the other conjuncts know, delete a job and leave an attempt
open. There is a lemma per kind of row (what an update of a well-typed row
gives), one per operation, and `NextKeeps` collects them. `ClaimKeeps` is
the long one: a claim changes two sets of jobs and closes, ends and opens
attempts at once. `Fencing` follows from the same invariant, step by
step. Four more theorems build on it, so that every safety property of the module
is proved:

- `HistoryStands` (`Spec => HistoryKept`): an operation finds its attempt through
  the lease of the job, and `OneHolder` says that this one is open; only the
  cleanup touches closed attempts.
- `AnswersTrue` (`[]AnswersMatchLedger`): an answer is given by the step that
  writes the ledger or is read off it, and from then on `HistoryStands` holds.
- `LedgerWhole` (`[]LedgerConsistent`): `Ledger(row, att, j)` is what the property
  says of one job; it depends on the job's row and on the attempts of that job
  only. Jobs that a step leaves alone keep theirs (`LedgerSame`); a settled
  or a claimed job gets a new one (`LedgerSettled`, `LedgerTaken`).
- `AuditsExplain` (`[]AuditsExplainBudget`): the property is not inductive, since
  it does not say where the job stands since its last requeue. `AuditsExplained`
  adds that the job has been claimed as often as its last audit says, and more
  often once it has left `pending`, which only a claim makes it do (`Moves`).

Assumptions: the null values are no members of their sets, durations are
positive, limits and retention are positive.

`DurableEventsProofs`, for any scopes, writers, batches and bounds: `LogTyped`
(`[]TypeOK`), `RangesRetained` (`[]RetainedRange`), `CheckpointsHold`
(`[]CheckpointsReplayable`), `SequencesContinued` (`Spec => SequencesContinue`),
`ExpiredOnly` (`Spec => OnlyExpiredPruned`) and, for finitely many writers,
`WritersProceed` (`[]WritersNeverDeadlock`). `RetainedRange` is not
inductive: what keeps it is what open transactions have seen. The invariant adds
that a draft continues the scope exactly (`DraftsContinue`), that the rest of a
batch is sorted and begins no earlier than what is locked (`TodoSorted`), that
the cleanup picked only expired events (`PicksExpired`), that what its trigger has
not seen came after what it has (`SeenFirst`), and that a floor it has computed
is still the right one, since it holds the row (`RaisedFloors`). `PrunedRange` is
the heart: the trigger compares the number of remaining events with the
length of the announced range, and a set within a range that has as many
members as the range is the range (`FullRange`). This check matters: a scope
that was committed to after the snapshot in which it was empty gets a wrong floor,
and only the comparison aborts the cleanup then. `WritersProceed` takes of
the writers that wait in a supposed circle one with the fewest ahead of it; the one it
waits for stands at a later scope (`WaitsForLater`) and has fewer still.

`IdempotentCommandsProofs`, for any keys, bodies, callers and number of calls:
`TypeCorrect`, `ClaimsCommitCompleted` (`[]NeverInProgress`: no command is ever
seen in progress, since a claim commits with its outcome) and `Refinement`
(`Spec => ExactlyOnceSpec`). The invariant adds to the types that committed rows
are complete and about their key (`RowsComplete`), that a transaction between
its INSERT and its end, and it alone, holds the claim of its key (`ClaimsHeld`,
`HoldersClaim`), that what is about to be answered has been committed
(`AnswersCommitted`), and that runs name calls (`RunsOfCalls`), which is what
the abstract "a performed command is a new one" needs. `Commit` maps to
`Perform`, `Answer` to `Tell`, `Expire` and `Delete` to `Expire` and `Forget`;
everything else, `Lose` included, is a stutter.

`ChatProofs`, for any finite set of profiles (they are rows of a table), any
users, memberships and number of transactions at a time: `ChatTyped`
(`[]TypeOK`), `StreamTellsConversation` (`[]LogTellsConversation`),
`ConversationListsCurrent` (`[]ProjectionsCurrent`), `CountsTrue`
(`[]CountsConverge`), `MembersNotifiedOnce` (`[]NotifiedOnce`),
`LateCallsDoNoHarm` (`Spec => LateCallsHarmless`) and `MatchAnnounced`
(`Spec => MatchAnnouncedOnce`), which is every property of the run `chat`. None of them is inductive, for what a commit appends was made ready
by an earlier step, from rows that have changed since. The invariant is

    IInv == /\ WellTyped /\ Locked /\ Timed
            /\ \A r \in Requests : RequestSound(req[r], db, notices, clock)
            /\ StreamsSound(log, db, notices)

`Locked` ties a transaction past the lock to its pair, `Timed` gives every open
transaction a time that no message has yet. `RequestSound` is what a transaction
knows: what it is about still exists; once it holds the lock, its counts before
the change are right (`CountedBefore`); once it is prepared, its events are those
of the effect it would have on the rows *as they are now* (`Foretold`), the match
it checked still stands and the sender's position still advances, and it is to
announce a match just when its effect would still make one (`Announced`).
`StreamsSound` is what the streams say, of each conversation (`Tells`, which adds
to the property that only messages that exist are reacted to), of each profile
(`Listed`, `Counted`) and of each user (`Notified`, `NoticesCounted`). Three
groups of lemmas carry the steps:

- What a call does to the rows: `EffectOutcome` says it field by field, once for
  all six kinds of call; `EffectSound` keeps the rows sound; `EffectApart` says
  that it leaves every other pair's rows alone.
- What others do meanwhile: `ForetoldKept` moves `Foretold` over somebody else's
  commit, which is always to another pair (`HoldersApart`). The unread counts are
  the exception that section 6 is about: they are over all
  conversations of a profile, so `CountedBefore` and `Foretold` speak of them only
  where the pair's conversation is the only one (`Only`, `OnlyUser`). Match
  notifications and reads come at any time and under no lock, so of the
  notification count both say nothing once a user has had one (`OnlyMessaged`);
  that this only ever ends is what `SoundLater` and `AsideStep` rest on.
- What an append does to a stream: `Growing` says how the positions of one type
  and the last of them change; `TellsOutcome`, `ProfileEffect` and `UserEffect`
  put it together with the effect.

`ChatSocketsProofs`, for any profiles, sockets, conversations and bounds, and in
every weather: `SocketsTyped` (`[]TypeOK`) and `HubIndexesAgree`
(`[]IndexesAgree`). A lemma per operation of the hub says that it keeps its types
and the agreement of the maps. The argument turns on `RemoveKeeps`: a removal
finds the subscriptions of a socket through the map of the socket, so it leaves
none behind only because that map and the map of the conversations agree, and
only because sockets that are not registered subscribe to nothing.

In calm weather (handlers one by one, no send throws) also `ClientsSettle`
(`[]ViewsSettle`): what clients know is right once nothing is under way. That
says nothing of the states in between, so the invariant is

    ViewInv == Typed /\ Agree(hub) /\ (Calm => Settling)

and `Settling` says what the handlers that are left will yet do. Only the first
of them has read anything (`OnlyFirst`), so only its rows can be stale, and an
upsert behind it tells the newer version (`StaleFollowed`). The last handler that
tells a socket of a profile's presence announces what is so (`PresenceLast`). An
open socket that is not registered has its open handler waiting (`Openings`), and
subscribes behind it (`SubscribeAfter`). So each open socket knows the presence
and the version there is, or a handler is left that will tell it
(`PresenceKnown`, `VersionKnown`).

`CursorPaginationProofs`, for any finite set of row ids, any keys, limits,
requests and configurations of secrets: `PaginationTyped`, `NoRowTwice`
(`[]PagesFollow`), `NoRowSkipped` (`[]SteadyRowsReturned`) and `CursorsBound`
(`[]CursorsBind`). The invariant is `Inv == Walk /\ PagesFollow /\
SteadyRowsReturned`; `Walk` adds to the types that the cursor is the token of
the walk's own list and of the last row of the latest page, that no row returned
lies behind it, and that untouched rows are still present. `BeforeOrders` (the
sort is a strict total order on rows, because ids break ties) and `FirstClosed`
(a page is closed downwards) carry the steps. `CursorsBound` rests on
`AcceptedOnlyForOwn`: equal fingerprints have equal contexts, and the context of
each list determines what its query selects.

`NotificationsProofs` begins with the registrations alone, for any sessions,
requests, tokens and installations: `RegistrationsHold`
(`TokenSpec => []InstallationsHoldOneToken`). The invariant `TokenInv` says, besides the types: of two sessions of one installation only one
is past the lock (`LockExclusive`); what a session has written is disabled, but
for the row it brings (`EnabledIsOwn`); from its rotation on it sees no other
enabled row of its installation (`SeesNoOther`); a row is written by one
session at a time (`RowLocksExclusive`). `NoRivals` puts them together: when a
session reaches its upsert the index has nothing to refuse.

It goes on with all of `Notifications`, for any users, sessions, registrations,
contents and channels and any finite sets of notifications, sockets and tokens (the queue of
Expo is a sequence made of a set of tokens, counts are cardinalities):
`InstallationsHold` (`[]InstallationsHoldOneToken`), where recorded rejections
disable tokens and the process may crash in the middle of a registration,
`NotificationsTyped` (`[]TypeOK`) and `AnswersRecorded` (`[]LedgerTellsAnswers`).
The first cites the lemmas on registrations and adds one for each of these
two kinds of step. The last rests on `LedgerInv`, which has three parts:

- `PushesKept`, of each notification: a pending delivery that is asked for waits
  for exactly one thing, an answer (its APNs request, or its place in Expo's
  queue) or the record of one; Expo's queue names a token once; and `chunkStart`
  is where the messages of the chunk are, which is what keeps the answers with
  their tokens. `ApnsKept`, `ExpoKept` and `RecordKept` move one delivery, or
  one chunk of them, from the first to the second and out.
- `TasksSound`, of the handlers under way: at most one is about a notification;
  until it settles the delivery in the application that delivery is pending; and
  what it remembers of its sends says whether a client was told. `SendTold` is
  where a send that may throw, or be lost in silence, enters.
- `NoneAsked`: the askings of a notification that does not exist have not begun,
  so that creating it starts from nothing.

`CountsSettle` (`[]UnreadSettles`) is proved in the same way: of the handlers that
will tell a socket, the last tells the number there is, if it has read it already,
and when none is left the socket has heard it (`WillHear`); the hub holds every open
socket. It assumes `ToldInApp`: a notification with any channel has in_app among
them. Both callers of `createNotification` (`chat-service.ts:1234`,
`test-notification-service.ts:97`) leave the channels to the default, in_app and
push (`notification-service.ts:47`, `304`), and the instance of the run satisfies it.
Without it a push-only notification would change the count and tell nobody.

`PayloadsBest` (`[]PayloadsFit`) is for every limit, text and data, provided that
the fixed part and the mark of dropped data fit by themselves (`LimitAssumption`:
an id, one of a few types and some punctuation, of 4096 bytes). A recursive
function is not known to exist to the prover. `PrefixWorks` and `SearchWorks` show
it of the count of bytes and of the binary search: were there a number of
characters, or a width of the range, up to which no such function exists, there
would be a least one (`LeastNatural`), and the function below it extends to it.
`SearchEnds` shows in the same way that the search returns a beginning that fits,
or none, and that one character more does not fit; since the bytes of a beginning
grow with it (`TextBytes`), `FitWorks` and `BuildWorks` get the rest by arithmetic:
the body is cut before the title, and the data goes exactly when it leaves no room
for any text. The payload is built in one step from a content that never
changes, so the invariant is only `PayloadInv`.

`ProfileMembershipProofs`, for any profiles, users, transactions and kinds of
transaction without reactivation: `MembershipTyped` (`[]TypeOK`),
`OneProfileEach` (`[]OneActiveProfile`) and `OwnersRemain` (`[]OwnerRetained`).
The database's own constraints give neither of the last two by themselves. The
invariant `Inv` says of every transaction under way that it is `Sound`: it holds
the locks it took, the profile it creates is nobody else's, the membership it is
about to add is still missing, and what it has checked of its user and its
profile is still so. The last part is the argument: nobody else may change the
memberships of a locked user or profile before the commit (`OthersStaySound`),
so a check made under the lock is as good as one made at the write
(`NewlyBelongs`, `FewerBelong`, `OwnerStays`). Reactivation is plain SQL that
takes no user lock and breaks it, as section 6 shows.

Only model-checked: the two liveness properties, `EverySettles` of
`DeliveryJobs` and `EveryCommandEnds` of `IdempotentCommands`, since liveness under
fairness is beyond the prover; and, since they are violated, the three properties of
section 6 that a run finds violated. Every other property of a run is a theorem.

## 6. Where code and documents disagree

Found by a run:

1. *Sender read position* (`SenderReadAdvances`). A message's time is that of
   BEGIN, but the read position is compared under the lock. Of two sends of one
   profile the one that began first may get the lock second, and then throws
   "Sender read position did not advance to new message". The same cause lets
   `lastMessageAt` go back and lets a message be committed behind
   the recipient's read position, so that it is never unread; no document speaks
   of these two.
2. *Unread aggregate* (`UnreadConverges`). It spans all conversations of a
   profile and is read under the lock of one pair; two pairs at once leave both
   devices with a number that is not the database's. The notification count in
   `notification.created` is read in the same way (`chat-service.ts:624`) and
   misses a notification of another pair that is not committed yet.
   `CountsConverge` says what does hold: the aggregate of a profile with at most
   one conversation, and the notification count of a user whose profiles have no
   other, as long as messages are all he was notified of and he has read and
   archived nothing.
3. *Reactivation* (`OneActiveProfile`). Its trigger locks the members it can
   see. A member who was authorised before the deletion and commits after the
   listing is checked by neither side. A demotion of the only owner that is
   checked while the profile is deleted, and commits after the reactivation has
   checked the profile, likewise leaves an active profile without an owner.

Stated in the modules, with no run of their own:

4. *Vanished row* (`ConflictRowStays` in `IdempotentCommands`). INSERT ... ON
   CONFLICT DO NOTHING does not lock the row it meets. A caller meets the row of
   an expired command, the cleanup deletes it and commits, and the caller's
   SELECT FOR UPDATE finds nothing: the assertion there fails.
5. *Solo* (`SoloStaysSingle` in `ProfileMembership`). The PATCH takes no
   membership lock. When its check at COMMIT runs beside that of an addition,
   each sees what was there before the other: one member, and a shared profile.
6. *Notification count* (`NotificationCountsConverge` in `Chat`). ADR 0004:27 has every
   notification mutation emit an event with the authoritative unread count, and
   ADR 0004:15 wants a notification and its event created with the mutation that
   deserves it. Only messages do so. Reading, reading all and archiving
   (`notification-service.ts:239-301`) and the notifications of a match
   (`chat-service.ts:1394`, `1234`) change the count and tell it only to the
   sockets of one process, and a match's notifications may be lost after the
   commit. So even with one conversation the last count on the durable stream is
   not the table's after any of them: a send and a read by its recipient suffice.
   PLAN.md:54 and 375-386 leave the missing events to milestone F5.

Observed while modelling; no document says otherwise:

- A rejection disables the row of a token, though the token may have been
  registered again meanwhile, even for another user
  (`notification-service.ts:135`).
- Attempts are recorded when all providers have answered, so one stuck APNs
  request holds back Expo's records (`push/dispatcher.ts:18`).
- A delivery that is to be retried is not, and one that is pending when the
  process ends is not taken up: ADR 0004 leaves both to a later phase.
- A chunk whose request to Expo fails is recorded as failed, though Expo may have
  taken it.
- When the data alone is just under the limit, the alert's texts are cut, to
  nothing if need be, and the data kept.
- What clients are told of presence, conversations and counts may stay wrong when
  handlers overtake each other at an await; a client that is told it
  subscribed may not be, when its socket was forgotten meanwhile.

## 7. What is left out

- In `Chat`: who belongs to a profile does not change; profiles are not deleted;
  summaries of replied messages; how a match's notification is delivered (a
  `CreateNotification` of `Notifications`); the notifications that a test route
  creates for the caller himself (`test-notification-service.ts:97`), which have
  no durable event either and would only be one more thing that ends
  `OnlyMessaged`.
- In `DeliveryJobs`: kinds, payloads and versions of jobs, and the read-only
  list of dead letters.
- In `DurableEvents`: creation of scope rows (they exist from the start),
  payloads, and who may read a scope. A reader of the log does not exist yet.
- In `ProfileMembership`: couple and group profiles differ in nothing that the
  triggers look at; deletion of a user's account and its cascades.
- In `ChatSockets`: messages and typing as such (they reach the subscribers and
  leave nothing behind), the codes of errors, and `getActiveUserIds`, which reads.
- In `Notifications`: the HTTP/2 session and the signed token of APNs, the Expo
  SDK (both stand for any answer), and the rows a list of notifications returns.
- In `CursorPagination`: the bytes of a cursor and the shape checks that refuse
  malformed ones as the modelled checks refuse altered ones; HMACs are taken to
  be unforgeable; a server without any secret refuses here and answers with an
  internal error in the code; which profiles the filters of the feed select, one SQL query,
  stands for rows that appear, move and go.
- Authentication configures a library, the routes and documents translate, photo
  storage signs URLs: none keeps state of its own.
- External, modelled from how the code uses them: PostgreSQL's locks and
  rollback, the clock, the workers, the connections of clients and the providers.

## 8. What would come next

1. A composition of one send with its idempotent command and its event scopes,
   with the circle of waiting in which a send and the event cleanup can end
   (`migration.sql:344`; PostgreSQL aborts one, and `DurableEvents` lets either
   abort).
2. The PATCH of a profile's type beside the membership checks at COMMIT
   (`SoloStaysSingle`), as a run of its own.
