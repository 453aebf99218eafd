# Verification of outbound-sdr

Outbound-sdr calls a prospect on the phone and puts a Lyzr voice agent on the
line. This directory holds TLA+ models of it, the TLC runs that check them on
small instances, and proofs, checked by TLAPS, that some of the properties hold
for every instance. Paths below are relative to the root of the repository; the
code is in `src/`.

To parse a module, check a run and check a proof:

    tlasany Placement.tla
    tlc -workers 2 -config MCService.cfg MCService.tla
    tlapm PlacementProofs.tla

`PROJECT.json` lists runs, properties, theorems and hazards, and maps every
definition to the lines it models. For every property it also names a mutant: an
operator of the models, marked "Mutant", that changes one definition the way a
plausible bug would, and with which TLC finds the property violated.

## 1. The system

One Node process (Fastify and `ws`) and one SQL database, Postgres or SQLite. The
process is single-threaded: a handler runs undisturbed from one `await` to the
next, and everything that can happen, happens at an `await`. No row is ever
locked and no transaction spans two statements, so what orders two tasks is only
the single statement. Nothing in memory survives a restart, and nothing is
resumed after one.

### Components

| Component | State | Operations | Talks to |
|---|---|---|---|
| Call placement, `calls/service.ts`, `routes/calls.ts` | none of its own; one task per request | `placeCall`: replay of an Idempotency-Key, contact cap and gap, suppression and demo guard, row, agent, dial | call table, agent preparation, Twilio, demo check |
| Call status, `calls/service.ts`, `calls/stateMachine.ts`, `routes/twilioStatus.ts` | the column `status` and its timestamps | `applyTwilioStatus`, `markStreamStatus`, `recordBridgeFailure`, `onTerminal` | call table, callback |
| Call table, `db/repository.ts`, `db/schema.ts` | `calls`, `callback_attempts` | one function per statement; `update` is an UPDATE and then a SELECT | every component |
| SuperFlow callback, `callback/superflow.ts`, `utils/retry.ts` | `post_call_callback_sent_at` | claim, POST with retries, record of the attempt | call table, SuperFlow |
| Voice session client, `lyzr/client.ts` | none | `startVoiceSession` with retries, `endVoiceSession`, `deleteAgent` | Lyzr |
| Media session, `websocket/twilioMedia.ts` | `closing`, the session id, the bridge and the room | `onStart` (a chain of awaits), `close`, frames from Twilio | Twilio's media socket, Lyzr, room, call status |
| LiveKit room, `livekit/roomBridge.ts` | room, audio source, frame queue, the track bridged | `connect`, `onTrackSubscribed`, `pushFrame`, the pump, `close` | LiveKit, media session, audio bridge |
| Audio bridge, `audio/bridge.ts` | held-back chunks, two resamplers, outbound remainder, sequence numbers | `handleTwilioAudio`, `markAgentReady`, `handleAgentAudio`, `close` | media session, room |
| Audio conversion, `audio/resampler.ts`, `audio/mulaw.ts` | filter history and phase | 8 kHz mu-law to 24 kHz PCM and back | audio bridge |
| Scheduler, `calls/scheduler.ts` | `running`, a timer | `sweep`: list events, `syncOwner`, `place` | Google Calendar, HubSpot, call placement |
| Demo calendar and booking, `google/calendar.ts`, `google/booking.ts` | access tokens, exchanges under way | `check`, `availableSlots`, `book`, `addAttendee`, `getAccessToken` | Google Calendar |
| Agent preparation, `lyzr/contextStrategy.ts`, `lyzr/client.ts` | none | verify the calendar tools, create a clone | Lyzr |
| Clone clean-up, `lyzr/cleanup.ts` | a timer | `sweep`: delete clones whose call is long over | call table, Lyzr |
| HubSpot, `hubspot/client.ts` | owner cache | `ownerForLead`, `waitForOwner` | HubSpot |
| Lead intake, Twilio adapters, infrastructure, mocks | configuration | validation, TwiML, signatures, wiring, logging | |

A form submission becomes a request to `placeCall`; the dial makes Twilio send
status webhooks and open the media stream; the media session joins a LiveKit
room with the agent; the status the call ends in is announced through
`onTerminal` to the callback. The scheduler submits requests of its own. The
call row is written by four tasks that know nothing of each other: the request,
the webhook handlers, the media session, and the callback.

### What is hard about it

* Read, decide, write, with an await in between: the cap (`service.ts:131` and
  82), the status (236, 255), the guests of an event (`booking.ts:287-337`), the
  free time of an AE (398, 430).
* Webhooks come late, twice, in any order, and before `placeCall` has stored the
  sid they are looked up by.
* Requests to Twilio, Lyzr, Google and SuperFlow may be carried out although
  their answer is lost.
* A crash, or one failing statement, at any step.
* Set-up and tear-down of a conversation run at the same time, and room and
  session end each other.
* Two streams of audio with two framings, a bounded queue, and a consumer with a
  pace of its own.
* Two processes with a scheduler and a clean-up each, while one replaces the
  other; and a clean-up that overlaps with itself.
* Access tokens and exchanges shared by callers whose timeouts differ.
* Local days in zones whose clocks change; a filter whose phases depend on where in
  the stream it is.

`PROJECT.json` lists each under "hazards", with its line and the properties that
would notice it going wrong, or why there are none.

### What makes each component correct

* Placement: one phone per Idempotency-Key; all callers of a key are told of one
  call; nothing is dialled unprepared; the cap and the gap hold, except as far as
  requests overlap; no row stays in preparation.
* Status: legal transitions, terminal states final, except as far as updates
  overlap; timestamps agree with the status; the end at Twilio reaches the row.
* Callback: one claim; the report says what the row says; a second POST only after
  a lost answer; an ended call is reported.
* Media session and room: the end of either side ends both and lets go of all that
  was there; audio has a path before it is let through; speech wins.
* Audio: in order, whole, bounded; what is dropped is old; resampled as if in one
  piece; the codec loses half a step at most.
* Clean-up: a clone is forgotten only when it is gone, and it goes in the end.
* Booking: no second demo, no double booking; the slots offered are the ones the
  wall clock and the calendars allow; a token serves whoever was given it.
* HubSpot: an owner who is assigned in time is found, by the deadline and one lookup.
* Scheduler: the phone rings once per meeting and kind, no guest is removed but by a
  race, the reminder goes out, and in time.

## 2. The modules

| Module | Models | Extends |
|---|---|---|
| `CallStatus` | the statuses and the transition table of `calls/stateMachine.ts` | |
| `CallTable` | the rows of `calls`, the queries, the UNIQUE key, `onTerminal`, faults | `CallStatus` |
| `Placement` | `placeCall`, one action per await | `CallTable` |
| `StatusFlow` | webhook handlers and the status writes of the media stream; Twilio as an external carrier | `CallTable` |
| `SuperflowCallback` | claim, POST, retries, record | `CallTable` |
| `CloneCleanup` | the sweeps of `ClonedAgentCleanup`, overlapping | `Placement`, `StatusFlow`, `SuperflowCallback` |
| `CallLifecycle` | the composition of these four over one table | `CloneCleanup` |
| `IdempotentDial` | abstract: what an Idempotency-Key promises | |
| `CallReport` | abstract: open, ended, claimed | |
| `MediaSession` | one conversation: `onStart`, both `close` functions, the agent's tracks | |
| `Resampler` | `PolyphaseResampler` and the identity, as records and functions | |
| `AudioPath` | the sound of one conversation, both ways | `Resampler` |
| `MuLaw` | the codec, over every 16-bit sample | |
| `DemoBooking` | the calendars; `check`, `freeBusy`, `book` | |
| `TokenCache` | `getAccessToken`: cached tokens, shared exchanges | |
| `OwnerWait` | `waitForOwner`, `ownerForLead`, `getOwner` and the owner cache | |
| `DemoSlots` | `computeFreeSlots`, `availableSlots`, and what a slot is by the wall clock | |
| `Scheduler` | `sweep`, `syncOwner`, `addAttendee`, `place`, beside the bookings | `DemoBooking` |
| `PlacementProofs`, `MediaProofs` | theorems | `Placement`, `MediaSession` |
| `LifecycleProofs` | theorems | `CallLifecycle`, `PlacementProofs` |
| `ResamplerProofs` | theorems; induction over numbers and sequences | `Resampler` |
| `AudioProofs` | theorems | `AudioPath`, `MuLaw`, `ResamplerProofs` |
| `DemoProofs` | theorems | `TokenCache`, `OwnerWait`, `DemoSlots` |
| `BookingProofs` | theorems | `DemoBooking` |
| `SchedulerProofs` | theorems | `Scheduler`, `BookingProofs` |

`MC*` modules give the constants their values. `MCConversation` puts `MediaSession`,
`AudioPath` and `MuLaw` into one run, `MCDemo` does so with `DemoBooking`,
`TokenCache`, `DemoSlots` and `OwnerWait`: a variable `subject` says which of them moves,
since they share no variable and each allows whatever the other may do to it.
`MCService` has two subjects of another kind: several requests, which only `Placement`
moves, or one call with everything `CallLifecycle` does to it. `MCSlots` has the queries
and calendars, for `MCDemo` and for a run of its own.

How state and actions correspond to the code:

* **Placement.** `pc[r]` is the await a request is at: "lookup", "count", "gap",
  "screen", "insert", "prepare", "agent", "record", "dial", "queue". `Written(r)`
  is the row as the statement at that point leaves it. A request and the row it
  may insert have one name. A dial, and the creation of a clone, may succeed while
  the answer is lost; `DatabaseFault` makes a statement fail before or after it
  took effect (the SELECT inside `update` fails after the UPDATE).
* **CallTable.** A row keeps the columns other statements read: status, creation
  time, which timestamps are set, whether sid and clone are on record.
* **StatusFlow.** A handler reads the row and decides (`findByTwilioSid`,
  `resolveTransition`), later updates it, later reads it back and announces it.
  `mail` is the set of webhooks under way; a duplicated one stays in it. `missed`
  records the calls whose last webhook came when the row could not use it.
* **SuperflowCallback.** Per call: claimed, posting, recording, done. The callback
  is taken to be configured. It is awaited by nobody, hence a task of its own.
* **MediaSession.** `setup` is the await of `onStart`, `teardown` and `leaving`
  those of the two `close` functions. The agent publishes its tracks at any time
  after the session exists, before or after we join.
  A track may end (TrackUnsubscribed) and be published again; `usingMicrophoneTrack`
  stays. The start of the voice session may be repeated after an answer that was
  lost; `strays` counts the sessions nobody has the id of.
* **Resampler.** A sample that comes out is its place in the output and its terms,
  pairs of a tap and the input sample it is put on; what the taps are worth is left
  out. `Render` is `render`: history, `inBase`, `outIndex`, the trimming.
* **AudioPath.** Input samples are numbered as they arrive; output samples are those
  of `Resampler`. A handler is one step; `capturing` is the frame whose
  `captureFrame` is pending. The agent's rate may change between two chunks.
* **MuLaw.** The tables of the code, as functions; `sample` is any sample.
* **CloneCleanup.** A sweep is the list it began with and the row whose clone it has
  just deleted; a deletion may fail before or after it happened. The period
  of retention is counted in hours, so the model lets it end at any time once the call
  has a completion time and nothing of it is going on (`RetentionOver`); the code
  looks at the completion time and the clock alone.
* **DemoBooking.** An event is on the shared calendar or on an AE's own. The
  check reads one calendar per step; the free/busy query and the insert are steps.
* **TokenCache.** `token` and `exchange` are the two maps of the class, by user; an
  entry remembers when the signal it was begun with fires. A caller waits, has a
  token until its own time is up, or was told of a failure. Google counts a token's
  life from when it issued it, the service from when it was told.
* **DemoSlots.** Instants are integers, a zone an offset that changes once. The
  definitions are those of `computeFreeSlots`, with `asked` any query.
* **OwnerWait.** A wait searches, fetches the owner, sleeps or is over. `assigned` and
  `profile` say what HubSpot knows at each moment; an answer is what was so at some
  moment since the request was sent.
* **Scheduler.** Each process has the list its sweep began with and the event it
  is at. Of `placeCall` there is what a sweep can tell: the lookup of the key and
  what may refuse the call (`LookUp`), the INSERT (`Insert`), and the dial (`Dial`), each
  of which may fail, lose its answer, or be the last thing a process does. A row
  stays; that the phone rang is counted apart (`rung`). A PATCH writes back the guests
  and the prospect's answer as they were read. Nothing makes a sweep end in time:
  `late` says that one did not, and from then on nothing is timed.

History variables (`raced`, `overlapped`, `missed`, `answerLost`, `closedAt`,
`refused`, `cut`, `unseen`, `undone`, `late`, `captured`, `lost`, `sent`) are read by
properties only; once `late` is set the clocks of the sweeps, which only properties
read as well, stand at zero.

## 3. The runs

| Run | Question | Instance | States |
|---|---|---|---|
| `calls` | do key, contact rules and preconditions survive concurrent requests, and row, timestamps, report and clone whatever order the tasks write in | three requests about one lead, two with one key, one a follow-up; cap 1 in a window of 1, gap 2, three ticks; or one call, two webhook handlers, stream, callback, two sweeps; one fault, crash or duplicate | 2.2 million, by symmetry |
| `contact_cap` | does the cap of the README hold as stated | three requests as above, nothing fails | violated |
| `lifecycle_progress` | does every call get out of preparation, end, get reported and lose its clone | one call as above with fairness, one sweep, and one webhook delivered twice or one crash | 460,000 |
| `terminal_final` | are terminal states final, as the README says | nothing fails | violated |
| `callback_twice` | does SuperFlow get each call at most once, as the comment says | nothing fails but an answer is lost | violated |
| `conversation` | is everything let go of, does audio find its path, does speech win, do both sides end; is sound whole, ordered, bounded; is the codec faithful | one ambience and two speech tracks, every await may be rejected, three attempts to start the session; chunks of 1 and 3 samples, frames of 4 and 2, 9 samples from the caller at 1:3, 7 from the agent at 3:1 and 3:2; 65,536 samples | 630,000 |
| `resampler_phase` | is the output the zero-stuffed signal, filtered, as the module promises | the same sound, two samples are enough | violated |
| `media_leak` | does `close` tear both sides down, as its comment says | nothing is rejected | violated |
| `booking` | no second demo, no double booking; are shared tokens good and failures fresh; are the slots right; is the owner found in time | two bookings for one prospect, a second lead, one AE, one failure; two callers with a timeout of 2, one sweep, two users, tokens that live 4 with a margin of 3; 9,216 queries in three zones; two waits of 4 that look every 2, requests of 1, a cache of 2, one lead, two owners | 4.6 million, by symmetry |
| `rebook` | does re-booking create nothing, as the README says | bookings one after the other | violated |
| `slots_free` | are the slots free, as the API says | the queries of `booking` | violated |
| `scheduler` | does the phone ring once per kind, are guests kept, do reminders go out and in time | two processes, a demo that stands and one that was declined; one failure or crash | 4 million, by symmetry |

### What the passing runs show, and under which provisos

* `OneDialPerKey`, `AnswersAgree`, `AnswerMatchesEffect`, `DialPreconditions`
  hold without exception. `Placement` implements `IdempotentDial`.
* `ContactCap` and `FollowUpGap` hold for leads none of whose requests overlapped
  between the check and the INSERT (`raced`).
* `LegalUnlessOverlapped` and `ReportMatchesRow` hold for calls no two updates of
  which overlapped (`overlapped`); `TimestampsFollowStatus` and
  `RepeatOnlyAfterLostAnswer` hold always. The row and its claim implement
  `CallReport`: a call is claimed at most once, and only after it has ended.
* `NoRowLeftInPreparation`, `CarrierEndReachesRow`, `EndIsReported` hold when no
  statement fails and nothing crashes. With either, nothing in the code picks a
  call up again, and the properties say so. `CarrierEndReachesRow` also excuses a
  last webhook that came before the row had the sid and "queued" (`missed`):
  the service acknowledges and forgets it.
* `ForgottenOnlyWhenGone` holds always, of the clones a prospect was called with:
  the id is on record until the clone is gone. It says nothing of a clone whose
  creation was answered too late, or whose record failed: no trace of it is kept.
  `ClonesGo` excuses clones whose call never
  got a completion time, since the query for expired clones asks for one: rows that
  a crash or a fault left behind, and missed webhooks, keep their clone for ever.
* `ReleasedUnlessOvertaken` names what a tear-down may leave behind: what the
  set-up, which does not stop for it, takes afterwards. `ReadyMeansPath`,
  `SpeechWins` and `EitherSideEndsBoth` need no proviso. `SpeechWins` allows for a
  speech track that has ended still being the one bridged: when the agent publishes
  another, nobody listens to it. `SessionsBounded` is what can be said of sessions
  that a repeated start leaves behind: one per attempt at most.
* The audio properties hold as long as the conversation lasts; closing drops what
  waits. `OpeningKept` says that the flush puts the latest audio on its way.
  `SpokenInOrder` compares what Twilio was sent with the agent's sound resampled in
  one piece, one stretch per rate: a change of rate starts a new resampler, as in
  the code, and drops the few samples the old one still held.
* `CallersServed` needs the timeout of a caller and the delay of Google's answer
  together to stay within the margin, `TokenAssumption`. With the defaults (10 s and
  60 s) they do; `DEMO_CHECK_TIMEOUT_MS` has no upper limit in the configuration.
  It does not say that a caller is served as if it were alone. One that joins the
  exchange of another fails when the *first* caller's signal aborts
  (`calendar.ts:127`), however much time it has itself. And `getAccessToken` waits
  for a shared exchange whatever the caller's own signal says: a check at its second
  calendar may wait up to twice its timeout, and one that joined an exchange of the
  scheduler, which has no timeout at all, as long as that takes. The property allows
  all three; what it rules out is a token that dies in a caller's hands, a failure
  kept from an earlier exchange, and a wait for an exchange that has gone.
* `OwnerFound` relates the answer to what HubSpot knew. An owner that is returned was
  the lead's while one waited. If nobody is returned, the last lookup failed, or
  nobody was assigned at some time after the deadline less the time of one lookup; or
  that owner was not there, or had no email, `OWNER_TTL_MS` and a request before the end
  at most, which the cache remembers as well. A wait may take a lookup (twice the
  timeout of a request) more than `HUBSPOT_OWNER_WAIT_MS`: with the defaults, 28
  seconds. TLC finds each of these bounds reached.
* `SlotsAgree` is about slots from the instant that was asked for on, and does not
  restrict what is offered from before it. There `OfferedAreFree`, what the docs
  promise, fails (run `slots_free`): `computeFreeSlots` begins with the hours of
  `from`'s local day (`booking.ts:197`), only the notice keeps early ones out
  (`booking.ts:205`), and free/busy was asked from `from` on (`booking.ts:345`-351).
  The day is that of the demo calendar's zone, so a prospect's midnight, which the
  API asks the agent to send, lies in the middle of it. The booking itself asks
  again and refuses. The zones of the
  run change their clocks in the night before a day that is not worked. On a day
  that is, in a zone behind UTC, the one correction of `zonedTimeToUtc` takes the
  offset of the night before, and the whole day is an hour off.
* `NoSecondDemo` and `NoDoubleBooking` hold for bookings during which nobody else
  changed the calendars (`raced`), whatever fails: a calendar that cannot be read
  refuses the booking.
* `OneCallPerMeeting` holds because of the UNIQUE key, not because of the queries
  before it: two sweeps may both find no row. It says that the phone does not ring
  twice, not that it rings.
* `GuestsKept` says whom a PATCH removes: those who came while a sweep was between
  its GET and its PATCH (`unseen`), and nobody else. That these are removed is
  against the README (line 507) and `booking.ts:293`, "Nobody is ever removed".
* `ReminderGoesOut` is about demos made in time, with a known phone number, and a
  scheduler for which lead time and grace leave room for a sweep for each failure and
  one more (section 4). Until a call has its row, no look-up, invitation, sweep or
  process that fails costs it. After the INSERT each of them does (`cut`): the next
  sweep asks only whether there is a row (`scheduler.ts:192`-193), whatever became of
  the call. It excuses refusals, demos whose refusal was written over by a PATCH
  (`undone`), and everything after a sweep was late: a process that is down for longer
  than the lead time allows costs reminders. `ReminderBeforeDemo` is about the clock
  only; a demo that is cancelled while its sweep goes on is called about all the same.

### What the violated ones show

Seven statements of the documentation are stronger than the code: the cap
(README 517-518), terminal states (README 669-670), at most once
(`superflow.ts:69-70`), both sides torn down (`twilioMedia.ts:219`),
re-booking (README 452-453, `booking.ts:368-369`), free slots
(`docs/lyzr-booking-tool.openapi.json:19`, README 427-428, `booking.ts:340`) and the
polyphase filter (`resampler.ts:5-8`). The last two are plain bugs. A prospect
east of the demo calendar's zone, or one whose zone is not given, who asks for a day is
offered times of the working day before, free or not. And with three phases, which
is what 8 kHz to 24 kHz has, the second and the third are exchanged, and what the agent
hears is distorted. "findings" in `PROJECT.json`
quotes each. None of these runs has a fault or a crash in it: an overlap, a lost
answer, an early hang-up or a late date is enough.

### Bounds, and why they are enough

* Three requests are the least with a key shared by two and a competitor without
  one; a fourth adds no new pair. The proofs cover any number.
* The clock counts the smallest interval the rules tell apart. Three ticks suffice
  to be refused, to wait out the gap and to wait out the window.
* One fault, one crash, one duplicated webhook (`MaxDisturbances`), in any step.
  Remote calls fail as often as they like on top of that, so a task can be in its
  error path, for a remote call that failed, when the fault hits.
* Two handlers give every overlap of two updates, together with the request and
  the stream. `MaxAttempts` 2 has a first, a repeated and a last attempt (the
  callback has 4). The clock stands still in the lifecycle.
* Tracks: speech first, ambience first, a second speech track.
* Sound: chunks of 1 and 3 samples align with frames of 4 (for the
  room) and 2 (for Twilio) only by chance. The code holds back 1000 ms (50 chunks),
  keeps 200 ms of it (10), and lets 300 ms wait for the room (15 frames): here 3, 2
  and 4 frames' worth. The samples suffice to overflow each bound with sound before,
  during and after. The filter looks back 2 samples (`Lag`; 15 in the code),
  so that a window spans chunks; 1:3, 3:1 and 3:2 are the ratios with a phase order
  and with a step of more than one.
* Tokens: a life of 4, a margin of 3, a timeout of 2 and a delay of 1 are the least
  that satisfy `TokenAssumption` with a timeout that can pass while one waits; the
  clock goes far enough for a second token.
* Owners: the wait is as long as two lookups can be that each take the time of both
  requests, so the last may begin before the deadline or at it; a lead is
  assigned before, during or after the wait, once, and to somebody else in the end; an
  owner gets an email, or loses it, once. The cache forgets twice in a wait, and the
  time goes on for a second wait.
* Slots: twelve hours and four days keep the order of night, working hours and the
  changes of the clock that a real week has; queries begin in and out of hours,
  before and after the change, for one day and for four.
* Two sweeps of the clean-up give every overlap of a list, a deletion and an update.
* Booking: the window of the check is 4 units (90 days in the code), the notice 1
  (60 minutes). `rebook` shrinks the window to 2 so that a date lies beyond it.
* Scheduler: lead time 3 and grace 1 (45 and 15 minutes), a sweep every unit (120
  seconds). A sweep may take as long as it likes; one that takes longer than `MaxSweep`,
  or ends when the last began longer ago, is late, and the reminders after it are
  promised by nothing in the code. `ByHand` names the event people invite
  each other to.
* Symmetry exchanges processes and AEs in `scheduler`, handlers and sweeps in `calls`,
  callers with a timeout, users and waits in `booking`; no definition tells them
  apart, and no liveness property is checked in these runs.

### Fairness

* `lifecycle_progress`: weak fairness of `Working`, the disjunction of everything
  under way (requests, calls at Twilio, media sessions, callbacks, webhooks that are
  delivered for the last time): the event loop goes on as long as there is
  something to go on with, and each remote request has a timeout
  (`utils/timeout.ts`). It does not say which task goes first; every task ends, so
  none needs fairness of its own. Weak fairness of the sweeps, which the interval
  starts again and again; strong fairness of a deletion that succeeds: Lyzr does
  not fail for ever. Requests, streams, repetitions and faults are not fair.
* `conversation`: weak fairness of `SetupStep` (every await of the set-up is
  settled, for the same reason) and of `FinishLeave` (closing a room returns).
  Neither Twilio nor the agent has to end the conversation.

## 4. What is proved

TLAPS proves these for every value of the constants. What it takes for granted of
them is in the modules' assumptions, which TLC evaluates in every run:
`CallsAssumption`, `PlacementAssumption`, `MediaAssumption`, `CallbackAssumption`,
`SchedulerAssumption`, `ResamplerAssumption`, `SlotsAssumption`, `OwnerAssumption` and most of
`BookingAssumption` and `AudioAssumption` give them their types;
`HandlersAssumption` says that the handlers that run at once are finitely many;
`ExchangeAssumption`, `CacheAssumption` and a conjunct of `BookingAssumption` say that the model value
for "none" is not one of the things it is the absence of. Two say something of the
configuration. `TokenAssumption`: `DEMO_CHECK_TIMEOUT_MS` and the delay of an answer
are together within the margin, which the defaults keep. `AudioAssumption` asks each
ratio to be `Followed`: an output advances the input by no more than a filter looks
at, `Lag + 1` = 16 samples, which the rates of the code keep by far (48 kHz to 8 kHz
advances it by 6).

| Module | Theorem | Property |
|---|---|---|
| `PlacementProofs`, any requests, keys, leads, faults and crashes | `TypeCorrect` | `TypeOK` |
| | `OneDial` | `OneDialPerKey` |
| | `Agreement` | `AnswersAgree` |
| | `Truthful` | `AnswerMatchesEffect` |
| | `DialsPrepared` | `DialPreconditions` |
| | `GapRespected` | `FollowUpGap` |
| | `CapRespected` | `ContactCap` |
| | `Refinement` | `ImplementsIdempotentDial` |
| `LifecycleProofs`, any calls, handlers and sweeps, any faults, crashes and repetitions | `OneDialInLife` | `OneDialPerKey` |
| | `AgreementInLife` | `AnswersAgree` |
| | `TimesFollow` | `TimestampsFollowStatus` |
| | `LegalMoves` | `LegalUnlessOverlapped` |
| | `ReportMatches` | `ReportMatchesRow` |
| | `RepeatsExplained` | `RepeatOnlyAfterLostAnswer` |
| | `ClonesOnRecord` | `ForgottenOnlyWhenGone` |
| | `ReportRefinement` | `ImplementsCallReport` |
| | `DialRefinementInLife` | `ImplementsIdempotentDial` |
| `MediaProofs`, any tracks, any awaits that may be rejected | `MediaTypeCorrect` | `MediaTypeOK` |
| | `TearDownReleases` | `ReleasedUnlessOvertaken` |
| | `ReadyHasPath` | `ReadyMeansPath` |
| | `SpeechIsBridged` | `SpeechWins` |
| | `SessionsAreBounded` | `SessionsBounded` |
| `ResamplerProofs`, any ratio that is followed | `Processed` | |
| | `PhasesRight` | |
| `AudioProofs`, any ratios, frames, chunks and bounds | `HeardInOrderTheorem` | `HeardInOrder` |
| | `OnlyThePastIsLostTheorem` | `OnlyThePastIsLost` |
| | `BacklogDrainsTheorem` | `BacklogDrains` |
| | `HistoryKeptTheorem` | `HistoryKept` |
| | `SpokenInOrderTheorem` | `SpokenInOrder` |
| `AudioProofs`, where the flush fits the queue | `OpeningKeptTheorem` | `OpeningKept` |
| `AudioProofs`, every 16-bit sample and every byte | `CodecTheorem` | `CodecFaithful` |
| `DemoProofs`, any users, callers and times | `Served` | `CallersServed` |
| `DemoProofs`, any waits, times and changes at HubSpot | `OwnersFound` | `OwnerFound` |
| `DemoProofs`, any hours, calendars and queries, regular clocks | `SlotsAlwaysAgree` | `SlotsAgree` |
| `BookingProofs`, any bookings, leads, AEs and failures | `NoSecond` | `NoSecondDemo` |
| | `NoDouble` | `NoDoubleBooking` |
| `SchedulerProofs`, any processes, meetings, times and failures | `SchedulerTypes` | |
| | `OneCall` | `OneCallPerMeeting` |
| | `NobodyLost` | `GuestsKept` |
| | `NoSecondWhileSweeping` | `NoSecondDemo` |
| | `NoDoubleWhileSweeping` | `NoDoubleBooking` |
| | `ReminderInTime` | `ReminderBeforeDemo` |
| | `ReminderOut` | `ReminderGoesOut` |

**Placement.** None of the properties is inductive: that two rows with one key cannot
both be dialled says nothing of a request that is about to dial. `RequestInv` adds
what the program counter implies: which requests have a row and which have had no
effect (`RowsFollowPC`), that the key column is unique (`KeysUnique`), whom a reply
speaks of (`RepliesOwned`). It leaves out what later tasks change; with the
preconditions of the dial (`DialPrepared`) it is `IInv`. There is one lemma per part,
with a step for every action that can disturb it. `FollowUpGap` needs `GapInv`: no
row is from the future; two requests for one lead between the count and the INSERT
are on record in `raced`; what a follow-up found at the gap check stays true until
its INSERT, unless its lead is in `raced`. `ContactCap` needs `CapInv`: finitely many
rows exist, a failed one never counts again, and a request past the count still has
room (`RoomIsKept`). Only an INSERT adds to the calls that count, and only one, since
the window only moves on; if another request for the lead stood between the count and
its own INSERT, the lead is in `raced`. For the refinement, `Owner(k)` is the one row
with key k; that it never changes follows from `KeysUnique` and from rows never being
deleted.

**Lifecycle.** `LifeInv` keeps `RequestInv` through everything the other tasks write,
so the promise of the key need not be proved twice. What it adds is about the time
between the statement that reads a row and the one that writes it. `EndsDated`: who is
told of an end is told of one with a completion time. `Counted`: an attempt that is
not the first has an answer to be lost. `ClearsDeleted`: a sweep clears only the id
of a clone that is gone, though it asked another sweep's time ago; `Recorded`: a call
that was dialled, or is about to be, has the id of its clone until the clone is gone.
`InOrder` is for
calls whose updates never overlapped: at most one task is about to write (`Alone`),
what it read is still so (`StillLegal`), and whoever knows of the end knows the same
one (`EndAgreed`). A call has overlapped as soon as two writes are pending
(`PendingWrites`, a cardinality, hence `HandlersAssumption`); `OneWriter` turns the
number into "no other". For `ImplementsCallReport`, `StepKinds` shows that a step
changes one row, and how.

**Media session.** `ReleasedUnlessOvertaken` is about the end of a conversation;
`IInv` says what leads there. The set-up never moves back and stands no earlier than
where it was when the tear-down began (`SetupMovesOn`); nothing exists before its
step (`MadeInOrder`); what is open is still to be closed or came later (`BridgeHeld`,
`VoiceHeld`, `RoomHeld`); the source outlives `ready` unless the room is left
(`ReadyHeld`); the kind of the track is remembered correctly (`SpeechHeld`). There
is one lemma per action, with a step per part. The actions that show tracks share
the lemma `TracksSeen`, which splits on whether any of the tracks is wanted.
`SessionsBounded` has an invariant of its own, `SessionsHeld`: at most one
session is lost with each attempt before the present one, and an id that is stored
is that of a session that was started.

**Resampler.** `Follows(r, ratio, signal)` says what a resampler `r` is after it has
been given `signal`, in whatever chunks: it has put out as many samples as have their
newest input (`Reach`), and holds the inputs the next one looks back on. `Processed` is
the step: after one more chunk it follows the longer signal, and what it put out is
what the longer signal resampled in one piece has more than the shorter. The arithmetic
is that of `InputIndex`, a quotient that never goes back and advances by `Lag + 1` at
most; the loop of `render`, which stops at the first output without its window, is shown
to stop where `Reach` says. The provers here cannot hand an operator to a theorem, so
the library's induction is out of reach; `Induction` states it for sets instead, of
numbers and, in `AudioProofs`, of sequences (`SequenceInduction`), and the folds and
`FlattenSeq` are expanded one element at a time (`FoldingEnqueue`, `FlattenAppend`).

`PhasesRight` says where the defect that `resampler_phase` finds is heard: output `i` is
that of the zero-stuffed signal exactly when twice its place `At(ratio, i - 1)` is a
multiple of the number of phases. So the code is right for one and for two phases,
and with three at every third output only: of what the agent hears, two samples in
three are filtered with each other's phase. The proof compares the coefficients: both
take every `up`-th of the prototype, the code from `(up - t % up) % up` on (`PartsAre`) and
the zero-stuffed signal from `t % up` (`StuffedIs`), and these are the same when the
remainder is its own complement.

**Audio.** None of the properties is inductive. `AgentInv` says of the way to the agent
what each frame keeps: what the room took, what is being captured and what is queued is
a beginning `whole` of the resampled sound without what was lost, and with the pending
samples, all of it (`Framed`, `Carries`). One frame keeps that (`EnqueueKeeps`, where
the oldest frame may be dropped: its samples go to `lost`, and since samples are numbered
in the order they come out, they are before all that wait); hence a chunk, which is its
frames and what is left over (`CaptureKeeps`, `Frames`); hence the flush, which forwards
chunks (`FlushKeeps`). After the room has closed, what was taken is a beginning.
`Recent` is about the other end: what was forwarded and what is held are the samples
that arrived last. `CallerInv` says the same of the way to the caller: what was sent, in
whole frames, and the remainder are `Meant(said)`, the stretches resampled one by one, and
the resampler follows the last one (`SayingMeans`).

`OpeningKept` is about one step, but the step is a whole flush, in which the queue
drops what does not fit. That none of the opening is dropped is not true of every value
of the constants; `OpeningFits` is what it takes. The room's rate is not below
Twilio's, so that no sample falls between the windows of two outputs (`NoneSkipped`), and
what `FlushKeep` chunks of any size make fits into the `Backlog` frames that wait and
the one being captured. The code keeps it: ten chunks of 160 samples at 1:3 are
4800, and there is room for sixteen frames of 480. TLC evaluates it for what the run
asks (`FlushFitsQueue`). The proof counts: before `ready` nothing was on the way
(`OpeningInv`), all that the flush puts out is bounded (`ReachBound`, `FlushBound`), and
as long as what was put out is within the bound, no frame is dropped (`Fits`), chunk
after chunk (`ForwardFits`, `FlushFits`). Each held sample then is in the window of an
output that waits (`AllHeard`).

What the other audio properties rest on, the mutants show:
with a chunk resampled on its own `Follows` is lost, with the newest frame refused the
order of `lost`, with a pump that stops after a frame the last conjunct of `Framed`.

**Codec.** The biased magnitude of a sample lies in one of eight segments `e` and one of
sixteen steps `q` of it (`Lies`, `SomeStep`). The encoder finds the two (`Encoded`), the
decoder returns the middle of that step (`Decoded`, `Level`), hence the half step of
`Close`. `LevelsGrow` compares two steps of any segments; the order of samples
follows (`OrderKept`). That every byte comes back, but for the second zero, is
`ByteKept`: the level of a byte lies in the byte's own step.

**Tokens.** `CallersServed` relates the clock to the death of a token, and what relates
them are times the service never compares. `TokensLast`: Google's clock for a token
started no longer before the service's than an answer takes. `ExchangesTimely`: an
exchange is aborted in time by whoever began it. `ReadyInTime`: who was given a token
began so late that the token outlives its timeout; this is where the margin is
needed. `WaitersInTime`: who waits joined an exchange with a whole timeout to go at
most, so it waits no longer than twice its own.

**Owners.** What HubSpot knows is a function of time that the model chooses in the
beginning and the code never sees; the invariant has a witness for each thing the code
was told. `CacheRecent`: what is remembered of an owner was so, a request before at
most. `FetchTimely`: the owner that is asked for was the lead's while the search was
under way. `SearchTimely` and `SleepTimely` keep every lookup on this side of the
deadline and within the wait. `MissedRight` is the step that matters, the one that
decides between the end and another sleep.

**Booking.** What a booking has read, it must still be able to rely on at its INSERT.
`ReadClear` and `FreeClear` say so of the bookings that are not in `raced`, `AllRead`
that the check was complete, and `RivalsRaced` that two bookings in each other's way
are both in `raced` while they are under way. `StaysClear` is the lemma all steps of
the calendar share: an event that is new, or newly stands, has put all its rivals into
`raced`.

**Slots.** `SlotsAlwaysAgree` is about one query, whatever it is. The code walks over
days, looks up on the clock when each begins and ends, and adds steps in absolute time
from there; the property looks at each instant's wall clock. That both find the same is
not true of every zone; the hypothesis, `QueriesRegular`, is what it takes of the days
that are asked about. On the clock no day comes twice (`DaysAdvance`). The clocks do not change within
the hours of a worked day (`KeepsTime`), and `zonedTimeToUtc`, which corrects its guess
once, finds those hours (`Settled`); zones that change by night keep both. What the clocks are put
back by fits between the end of the hours and the end of the day, or `availableSlots`,
which asks for the busy intervals of so many times twenty-four hours, would not hear of
the last ones (`InReach`). Of the prospect's clock the same, between the instant asked
for and a day after the last (`LeadRegular`): `inLeadDaytime` compares minutes of
the day and not days, which is enough since a demo is no longer than a day
(`LeadAgrees`). TLC evaluates the hypothesis for what the run asks (`SlotsRegular`).
`OneOffset` is the lemma the rest hangs on: two times within the hours have one offset,
so that steps in absolute time are steps on the clock. `OfDay` and `InDay` are the two
directions; `FirstOnes` says that cutting off after the limit leaves the first ones.

**Scheduler.** `SweepInv` contains the booking invariant, since the sweeps change the
guests of the events the bookings read. A sweep works on copies: their start stays
true (`SnapshotsTrue`), their guests may not, and who came since is on record
(`PatchFresh`). That the bookings are not disturbed is a lemma about single steps
(`SweepsAddAlone`), not a second proof. `OneCall` is about two processes that both found
no row: whoever is at the dial made the row, nobody else is there for the same call,
and it has not rung yet (`DialsOnce`). `RowsAccounted` gives each row its reason: it
rang, is about to, or is in `cut`.

Both theorems on reminders have a hypothesis, because they are not true without, and say
nothing once a sweep was late. `ReminderInTime` needs `MaxSweep <= Grace`; its invariant,
`DueHeld`, says that a reminder that was due when taken is late by no more than the
sweep has lasted. `ReminderOut` needs `ReminderTimes`:

    Grace + (MaxFailures + 1) * MaxSweep <= LeadTime

(and that a demo takes time): between the moment a reminder may go out and the moment
it is too late there must be room for a sweep for each failure, and one more. With the
code's 45 and 15 minutes and sweeps of 120 seconds there is room for 14 failures. The
run's numbers satisfy it with equality; with one failure more TLC finds a reminder
that never goes out. The invariant behind it, `OnItsWay`, says of every process that
it has the demo in hand, or is idle, or began before the demo's time, but for one
sweep for each failure so far. The run starts from a calendar with two demos; the
theorems are about `SchedulerSpec`, which starts from an empty one that bookings and
people fill.

Two of these proofs failed at first, for a reason. In `CountCalls` two guards of a
CASE overlapped, which TLC resolves by taking the first and the semantics leaves open;
they exclude each other now. And `ReminderGoesOut` turned out to rest on an exact
relation between the constants of its run, the one above.

**Only model-checked** are the liveness properties (`NoRowLeftInPreparation`,
`CarrierEndReachesRow`, `EndIsReported`, `ClonesGo`, `EitherSideEndsBoth`), which need
fairness and ENABLED. Every other property that a passing run checks is a theorem.

## 5. What is not modelled

* HubSpot: the calls that write to it are used by nobody. To a sweep of the scheduler
  an owner lookup has any answer at any time, `OwnerWait` is not composed with it. A 404
  that answers a search, which the code reads as an unknown lead, counts as a failure.
* The coefficients of the filters and the rounding to 16 bits; `flush` of the
  resamplers, which nothing calls.
* `recordBridgeFailure` writes only the error columns, which no property is about.
* Debug recordings (`writeDebugWav` and `audio/wav.ts`); the statistics and the
  marks of the audio bridge; `clearTwilioAudio`, which nothing calls.
* An answer to `startVoiceSession` without a dispatched agent counts as rejected.
* The length of the retention, and the base agent, which `cleanup.ts` refuses to
  delete: no row holds its id.
* The check for a demo asks Google for events that end after now and start within the
  window; the model compares starts, so a demo that has begun does not count.
* AEs' own calendars are read by bookings but never swept, as in the code. Which
  guest is a host, the text of an invitation and the lead a follow-up call is
  built from are data.
* Text, formats and cryptography: TwiML, signatures, JSON of agents, validation
  of leads, the web form, logging, configuration, mocks.

## 6. Plan

Done, in this order: placement and its proofs; status, callback and their
composition; media session; audio; booking; scheduler; proofs about the media
session; repeated sessions and tracks that come back; the resampler and the codec;
the clean-up, composed with the lifecycle; tokens and slots; proofs about the contact
cap, the lifecycle, the tokens, the bookings, the slots, the scheduler, the resampler,
the audio path, the opening and the codec; `waitForOwner` and its proof; the steps of
`placeCall` within a sweep, and sweeps that are late.

To come:

1. `OwnerWait` composed with the scheduler, so that it follows from the leads a sweep
   waits for when it is late (`MaxSweep`).
