# A verification project for the auto-answerer

`src/uas.c` is a small SIP user agent: it accepts calls addressed to one of
three numbers, lets them ring for three seconds (`CALL_DELAY_TIME_SEC`), answers, plays
the tone that belongs to the number (a dial tone, a wav file, a ringback tone)
and hangs up ten seconds later (`CALL_DURATION_TIME_SEC`).  It is built on a vendored
copy of pjproject, whose user agent library pjsua, INVITE session, transactions
and timer heap do the protocol work and call back into `uas.c`.  550 lines of
its own, and several thousand of pjproject that decide when and in which order
those lines run: the models are about this meeting of the two.

Paths below are relative to `src/`; `pjsua_call.c` and `pjsua_core.c` lie in
`pjproject/pjsip/src/pjsua-lib/`, `sip_inv.c` in `pjproject/pjsip/src/pjsip-ua/`,
`sip_transaction.c`, `sip_ua_layer.c` and `sip_dialog.c` in
`pjproject/pjsip/src/pjsip/`, `timer.c` in `pjproject/pjlib/src/pj/`,
`pjsua_aud.c` and `pjsua_media.c` beside `pjsua_call.c`, and `conference.c` in
`pjproject/pjmedia/src/pjmedia/`.

## 1. The system

### Components

| component | state it keeps | operations | modelled in |
|---|---|---|---|
| Call handling (`uas.c`) | `calls_data`: 20 cells, each with `call_id`, `ring_mode` and two timer entries | `on_incoming_call`, `on_call_state`, `on_call_media_state`, `answer_delay_callback`, `call_timeout_callback` | `Uas` |
| Start and stop (`uas.c`: `main`, `app_init`, `app_destroy`) | pool, tones, player, transport | the main thread's statements, each with its failure | `Lifecycle` |
| Call slots (`pjsua_call.c`) | 20 slots: session, `hanging_up`, media; `next_call_id` | allocate, answer, hang up, hang up all, state and media callbacks | `Uas`; `CallSetup`, against the dialogs that take them in turn |
| INVITE session (`sip_inv.c`) | session state, cause, pending BYE, the INVITE's transaction | answers, CANCEL, BYE, ACK, re-INVITE, transport failures | `Uas`, as the events a call can meet; `InviteServer`, for one incoming call, down to messages; `CallSetup`, where several cross |
| Timer heap (`timer.c`) | the heap array, the id table, the freelist; in each entry `_timer_id` | schedule, cancel, poll, grow | `TimerHeap` in full, `Uas` as its user |
| Worker and event loop (`pjsua_core.c`) | one thread, its quit flag | poll timers, poll sockets; join; the last second of polling in `pjsua_destroy` | `Uas`, `Lifecycle` |
| Transactions (`sip_transaction.c`) | transaction state, `last_tx`, a message under way, retransmission and timeout timers | receive, send, retransmit, time out | `InviteServer`: the INVITE's; the BYE's only as sent and ended |
| Dialogs and the tables (`sip_ua_layer.c`, `sip_dialog.c`, `sip_transaction.c`) | transactions by branch, dialogs by tag, a dialog's `mod_data` | which of them a request finds, registration, destruction | `CallSetup` |
| Tones, player, conference bridge (`conference.c`, `pjsua_aud.c`) | ports with listeners, three counters, the sound device and its idle timer | add, remove, connect, a pass of the sound thread, open and close the device | `Bridge`; in `Uas`, `tone` of a call stands for the connection; signal processing is not modelled |
| Parsing, codecs, NAT, OS layer | | | not modelled |

### How they interact

There is **one worker thread** (`thread_cnt` is 1 by default).  Its loop,
`pjsua_handle_events`, first polls the timer heap, then reads sockets, so
callbacks for messages and for timers never overlap.  They do nest:
`pjsua_call_hangup` calls `on_call_state` before it returns, and so does a
`pjsua_call_answer` whose response the transport cannot send, which the session
answers with an immediate disconnection.  `pjsua_call_answer(200)` may
negotiate the SDP and call `on_call_media_state` before it returns.
The **main thread** runs `app_init`, waits for the user's `q`, and runs
`app_destroy`, all of it beside the worker.  The mutex of pjsua is held while an
INVITE is handled, and each hangup needs it; `uas.c` itself locks nothing.
The **sound device's thread** pulls a frame through the conference bridge every
20 ms while the device is open; the bridge's mutex makes a pass and every change of
the bridge exclude each other, but a change may take several operations.

The shared state is the cell array.  A cell belongs to a call through an id,
not a pointer: `call_data_get_by_id` searches for the first cell that carries it
and may return NULL, and call ids are reused by pjsua as soon as a slot is free.
The timer entries lie *inside* the cells, which are zeroed when the call ends:
the heap keeps a pointer to an entry that may meanwhile belong to another call.

### What is hard, and what would make it correct

* **Stale ids and entries.**  A timer fires for a cell that was released or
  claimed again; a callback looks up an id that belongs to no cell, or to
  another's.  *Correct:* pending timers and live calls correspond
  (`TimersTrackCalls`), callbacks find the cell they were armed in
  (`CallbackFindsItsCell`), NULL is never followed (`NoNullCell`).
* **Two lifetimes.**  A cell is released at the hangup, the slot when the BYE is
  over.  *Correct:* cells and calls match one to one (`CellsOwnLiveCalls`), a
  call with a slot finds a cell (`FreeCellForNewCall`).
* **Failures in the middle of a callback.**  Every response may fail to go out
  and end the call then and there; the heap may refuse a timer.  *Correct:*
  every call is still timed (`LiveCallIsTimed`) and ends, or is hung up and
  waits for nothing of `uas.c` any more (`CallsEnd`).
* **Remote parties.**  CANCEL against answer, BYE against hangup, a lost ACK, a
  re-INVITE at any time.  *Correct:* the caller sees what `AutoAnswer` promises
  (`ImplementsContract`).
* **Messages that are kept, lost, repeated and late.**  A response may lie in the
  transport while the caller's ACK for an earlier copy, the next response or a
  timer arrives; a BYE has to wait for an ACK that may be lost.  *Correct:* one
  final answer (`OneFinalAnswer`), no BYE before the ACK or the end of the
  waiting for it (`ByeWaitsForAck`), no answered call left without something
  that will end it (`ConnectingWaitsForAck`, `TransactionEnds`), and towards
  the program the simple life of a slot (`ImplementsSlot`).
* **Start and stop beside a running worker.**  *Correct:*
  `RingsOnlyWithTones`, `UndisturbedStart`, `HangupReachesAll`, `Quits`.
* **INVITEs that come again.**  A refusal before there is a dialog leaves nothing
  behind, or a transaction without a dialog; an ACK with a branch of its own ends a
  transaction early; a terminated transaction still has its key for a while; a
  dialog remembers its slot after the slot was given on.  *Correct:* a caller has
  one call at a time that waits for it (`OneSetupAtATime`), slots and live sessions
  match one to one (`SlotsMatchSessions`), and every slot in turn lives as
  `CallSlot` says (`EverySlotServes`).
* **A graph of connections with counters, and three threads.**  Slots are used
  again at once, tones are taken away beside calls that the hangup loop missed or
  that came late.  *Correct:* lists and counters agree (`BridgeAgrees`), nobody
  hears the tone of the call before (`CallerHearsOwnTone`), the sound thread meets
  nothing that is gone (`BridgeSurvives`), the device is open while it is needed (`HeardNeedsDevice`)
  and not for ever (`IdleDeviceCloses`).
* **An intrusive heap with an id table and a freelist.**  *Correct:* the
  structural invariants of section 3, and the service `TimerService`.

The hazards are listed one by one, at their lines, in `PROJECT.json`.

## 2. Modules

```
AutoAnswer       what a caller is promised          (abstract)
   ^ UasContract: refinement mapping;  UasContractProofs: its steps proved
Uas              callbacks x slots x sessions x timers, one worker
   ^ UasProofs <- UasContractProofs <- UasTimerProofs: theorems
   ^ Lifecycle: main thread beside that worker;  LifecycleProofs: theorems
CallSlot         a call slot's life, as Uas takes it (abstract)
   ^ mappings at the end of InviteServer and CallSetup
CallSetup        INVITEs x transactions x dialogs x slots
   ^ CallSetupProofs: theorems, the steps of the refinement among them
InviteServer     one call: session, INVITE transaction, transport, network
   ^ InviteServerProofs: theorems, the steps of the refinement among them
TimerService     what users of timers are promised  (abstract)
   ^ mapping at the end of TimerHeap
TimerHeap        the heap of timer.c
   ^ TimerHeapProofs: theorems, the steps of the refinement among them
Bridge           conference bridge x sound device x calls' media, three threads
   ^ BridgeProofs: theorems
MCUas, MCLifecycle, MCInviteServer, MCTimerHeap   instances for TLC
```

Definitions that end in a variation of another's name and are marked "mutant"
are deliberate bugs; no specification uses them.  They show that each property
can fail: a property is checked once with the definition and, separately, with
the mutant put in its place.

### `Uas`

`owner`, `mode` and `entry` are the cell array: `call_id`, `ring_mode` and the
entries' `id`, `_timer_id` and `cb`.  `heap` leads from timer id to the entry
scheduled under it.  `inv`, `hanging`, `bye` and `tone` are a slot's session
state, `hanging_up` flag, pending BYE and connected source; `number` is what the
caller dialled.  `pc`, `cur`, `ptr`, `fired` are the worker's place in a
callback and the callback's local variables.

A callback is a chain of actions, cut at each call into pjsua, so that whatever
a library call changes is visible to the statement after it:

| callback | actions |
|---|---|
| `on_incoming_call` | `Incoming` (`pjsua_call_on_incoming` up to the callback), `AnswerTrying`, `ClaimCell` (`AnswerBusy` / `TakeCell`), `AnswerNotFound` or `AnswerRinging`, `InitDelay`, `ScheduleDelay` |
| `answer_delay_callback` | `Fire`, `DelayLookup`, `DelayAnswer` (`AnswerOk` / `AnswerFails`), `InitTimeout`, `ScheduleTimeout`, or `DelayHangup` |
| `call_timeout_callback` | `Fire`, `TimeoutLookup`, `TimeoutHangup`, `TimeoutDone` |
| `on_call_state` | operator `OnCallState`, inside `Hangup` and `Disconnect` |
| `on_call_media_state` | operator `ConnectTone`, inside `AnswerOk` and `MediaUpdate` |
| session events | `RemoteEnds`, `Ack`, `NoAck`, `Reoffer`, `ByeDone` |

Three things of the code are kept although they look like accidents, because the
properties turn on them.  `call_data_release` zeroes the cell, so a released
entry's `_timer_id` is 0 and not -1.  `app_init` writes only `call_id` of the
array it gets from `pj_pool_alloc`, so entries start as `Junk`, and cancelling a
`Junk` entry may crash or not.  And `on_call_state` tells "no timer was armed"
from the status 404, which is wrong for a 404 the transport could not send.

`crashed` says why the process died, if it did: `null_cell` for a NULL cell
followed, `bad_cancel` for a cancel of an unwritten entry or another's node,
`assert` for an assertion of pjsua.  Nothing happens afterwards.

`Typed` holds the ranges with memory that nobody has written; `TypeOK` adds that
`app_init` has written every cell's id, as it has in `Uas` and has not yet in the
beginning of `Lifecycle`, whose proofs use the same lemmas with `Typed`.

### `Lifecycle`

Extends `Uas` with the main thread (`main`, `next`), the pool, the worker, the
transport and account (`open`) and the tones.  Each statement of `app_init` and
`app_destroy` that can fail or that another thread can see is an action;
`Serve` is the worker with the events of `Uas`.  Before `calls_data` is
allocated no cell carries an id (`Junk`), which is what a search of a NULL array
does.  After `pj_pool_release` an event that would touch a cell sets `crashed` to
`use_after_free`; those that do not touch one go on.  Between the player's end and
the release of the pool a call to the wav file's number that is connected meets an
assertion of pjsua (`PlayerGone`).

`Garbage` is what fresh memory may hold where `call_id` lies.  `late` is a history
variable: it remembers that an INVITE was accepted after `app_destroy` had begun,
since `pjsua_call_hangup_all` promises nothing of such a call.

### `InviteServer` and `CallSlot`

`tsx` is the INVITE's server transaction: its state and status code, `last` (the
response it repeats), `flight` and `pend` (the message a transport keeps, and
which callback will come back for it), the two `transport_flag`s that wait
for that callback, its two timers, and `wire`, the responses the network was
given.  `ses` is the session with pjsua's `hanging_up`; `bye` is its BYE
transaction.  `caller` is what the caller is like: whether it makes the offer,
and whether its ACK carries the INVITE's Via branch, which decides whether the
transaction or the session sees the ACK first.

The network is the set of messages it was given.  A request of the caller may
arrive once the response it answers is in that set, and again, and at any later
time, or never: loss, duplication and delay need no actions of their own.
`Mishaps` says what else may happen to a message the program sends: `transport`
keeps it and calls back later, `resolve` fails and tries a second time, `failed`
fails at once.  Each handler is one action with everything it calls back: the
transaction's new state runs through `OnTsxState` into the session, and the
session's state handlers are the operators `OnStateNull` to `OnStateConnecting`.

| code | actions |
|---|---|
| `pjsua_call_on_incoming` | `NewCall` (dialog, transaction, session), then `TurnedAway` (an offer that does not suit) or `Trying` (pjsua's own 100) |
| `on_incoming_call` | `Ring` or `Refuse`, each with the second 100 that `uas.c` sends first |
| `pjsua_call_answer`, `pjsua_call_hangup` | `Answer`, `Hangup` |
| the caller's requests | `RxInvite`, `RxAckNewBranch`, `RxAckSameBranch`, `RxAckFailure`, `RxCancel`, `RxBye` |
| transport callbacks | `Sent`, `NotSent` |
| timers G, H and I, and the destruction of a terminated transaction | `RetransmitTimer`, `TimeoutTimer` |
| the BYE's transaction | `ByeRetransmit`, `ByeAnswered`, `ByeTimeout` |

`CallSlot` is the slot as `Uas` has it: offered, ringing, answered, confirmed,
hung up, over.  Its fairness says that an answered call is confirmed or gets its
BYE, and that a BYE ends.  `ImplementsSlot` shows both from timers that expire, over
a network that may lose everything, for every caller but the one of `invite_sdp`,
who makes no offer and acknowledges with the INVITE's branch.  `Uas`, whose
callers are any, assumes only the second half, and `CallsEnd` allows for the first
to fail.

### `CallSetup`

`tsx` is the transaction table: what there is for the INVITE of each caller, and
the dialog it belongs to.  `dlgs` are all dialogs so far, each with its session
and the slot its `mod_data` names, which nothing ever clears; `calls` is
`call->inv` of each slot.  Each step is all that the worker does with one request
or timer; `on_incoming_call` alone is cut, into the offer and what the program
does with it.  What `InviteServer` has of a single call is left out: messages that
are kept, retransmission, SDP.

| code | actions |
|---|---|
| `pjsua_call_on_incoming` | `RxInvite`: no slot, or `TurnAway` (refused without a dialog, by a transaction or by none), `Fail` (with one, before it holds the slot), `Offer` |
| `on_incoming_call`, timers of `uas.c` | `Ring`, `Refuse`, `NotSent`, `Answer`, `Hangup` |
| `tsx_on_state_completed_uas`, `mod_inv_on_rx_request` | `RxAckSameBranch`, `RxAckNewBranch` |
| `find_dlg_set_for_msg` | `RxCancel`, `RxBye` |
| timers H, I and the end of a transaction; timer F or a response | `TsxTimer`, `ByeEnds` |

A repeated INVITE that its transaction absorbs, one that meets a terminated
transaction and is answered with a stateless 500 because the key is still taken,
and requests answered 481 change nothing and are no steps.

### `Bridge`

`bridge` is `pjmedia_conf`: the port in each slot, its list of listeners and
`transmitter_cnt`, `port_cnt` and `connect_cnt`.  `slotOf` is what the users
remember, `conf_slot` of a call and `port_id` of a tone; `alive` are the media
ports that were not destroyed.  `device`, `idle` and `pending` are the sound device,
`snd_idle_timer.id` and that timer's place in the heap.  Each operation of the bridge is an
operator on `bridge`, and a step where its mutex is held; `pjsua_conf_connect`
takes two (`OpenDevice` under pjsua's mutex, `Link` after it), and so does the
removal of each tone (`RemoveTone`, `DestroyTone`), with the sound thread's
`Pass` and the worker possible between.

Calls come until the worker is told to quit, so also while `app_destroy` runs: behind
the loop of `pjsua_call_hangup_all`, and after a tone was removed.  The loop may
miss a call as well: `acquire_call` gives up after two seconds when the worker is
inside a callback (`TimedOut`).  `port_id` of a tone stays what it was when the tone
is removed, so `Link` connects whatever has that slot now.  `pjsua_player_destroy`
holds pjsua's mutex over both of its steps (`PlayerLocked`).  From
`pj_pool_release` on an event that `uas.c` is told of meets freed memory, which ends
the model's run as `freed` (`ServeFreed`); `Lifecycle` looks at that more closely.

| code | actions |
|---|---|
| `pjsua_call_on_media_update`, `on_call_media_state` | `MediaUpdate` (the stream unchanged, started anew as held or active, or gone), then `Choose` (the source's port), `OpenDevice`, `Link`, or `Refused` |
| calls that come and end, also during `app_destroy` | `Arrive`, `Disconnect`, `Timeout`, `ByeDone` |
| `close_snd_timer_cb`, `get_frame` | `IdleTimer`, `Pass` |
| `app_destroy` | `Quit`, `HangupNext`, `RemoveTone`, `DestroyTone`, `ReleasePool`, `Destroy` |

`HeardBy(c)`, the sources mixed into what a call is sent, is what `Uas` calls
`tone[c]`.

### `TimerHeap` and `TimerService`

`ht` holds the array, the table and the freelist as in `pj_timer_heap_t`; a
freelist link is a negative number in the table, the next id to hand out is
`freelist`.  Each helper (`copy_node`, `pop_freelist`, `push_freelist`,
`reheap_up`, `reheap_down`, `remove_node`, `grow_heap`, `insert_node`) is an
operator on that record, with the loops as recursive functions over slots.
`dups` is the copy `PJ_TIMER_USE_COPY` makes of an entry and its expiry time.
`Wipe` is what `uas.c` does to an entry it does not cancel first.  A poll makes
one callback at a time; between two, and inside one, any user may schedule or
cancel.

`TimerService` knows only which entry is armed under which id for when.  It
promises: earliest first, never early, at most once, cancelled means gone, unless
the owner wiped the id.

## 3. Runs

`tlc -config X.cfg M` in this directory, each within a few minutes on two
workers.  Sizes are distinct states.

| run | instance | what it shows |
|---|---|---|
| `uas_serving` | 2 cells, 2 slots, **1** timer; only a 404 may fail to go out; 10,259 | timers follow their calls, callbacks find the cells they were armed in, no NULL is followed, also when scheduling is refused, and under fairness every call gives its slot back, or was hung up and waits for an ACK |
| `uas_no_ringing` | 2, 2, 2; a 180 may fail as well; 326,401 | timers do outlive their calls here, and still cells match calls, no caller is refused with 600, every call is timed, tones match numbers, every cancel meets its own node or none, and the caller sees what `AutoAnswer` promises |
| `life_run` | 2 calls, 2 numbers, 1 timer, INVITEs until the worker is told to quit; 251,550 | the main thread from `app_init` to `exit` beside the worker: no call rings before its tones exist, none loses its cell to the filling loop, one pass of `pjsua_call_hangup_all` reaches every call that does not come later, and after `q` the process ends, under fairness |
| `timer_order` | 6 entries, growth from 4 to 8 slots; 55,370 up to symmetry | the heap's structure under every order of schedule, cancel and expiry, and `TimerService` |
| `timer_use` | 2 entries that may be wiped, 3 schedules, 2 callbacks a poll; 48,426 | the same promise with the careless owner that `uas.c` is, and every due timer expires |
| `invite_server` | one call, three kinds of caller, every mishap; 9,269 | one final answer whatever is kept, repeated or late; no BYE before the ACK or timer H; every answered INVITE and every answered call ends; `CallSlot` |
| `call_setup` | 2 callers, 2 slots, 3 dialogs; 292,641 | one call at a time waits for a caller, slots match sessions, every slot is a `CallSlot` |
| `bridge` | 2 calls, 3 tones, a bridge with just enough ports, a device that may refuse to open, calls during `app_destroy`; 406,638 | the bridge's lists and counters agree, no call hears another tone than its own, nor anything else while its tone is there, the sound thread survives, the device is open when needed and closed when nobody calls |
| `uas_cancel`, `uas_busy`, `life_freed`, `invite_sdp` | smallest that show it | violations, section 5 |

### Bounds, and why they are enough

* *Two slots, two cells.*  A slot and a cell are released and claimed again, by
  the same call id or by another, while the other call is at any point of its
  life; timers of two calls are pending together.  Nothing in `uas.c` relates
  three calls.  `MaxCalls <= NumCells` because both are 20 in the code
  (`MAX_CALLS`, `PJSUA_MAX_CALLS`).  The theorems drop the bound.
* *Timer ids.*  A call has at most one timer pending while the responses go out,
  so two calls never need a third.  `uas_serving` and `life_run` offer one, so that
  scheduling must fail while another call's timer is pending; `uas_no_ringing` two.
* *Numbers.*  `other` is refused with 404, the named ones are answered.  Three
  answered numbers differ only in their tone; two are enough to confuse them.
* *Unsendable* names the responses among 100, 180 and 404 that may fail, each
  time anew, so each run contains the behaviours with no failure.  The 200 may
  fail in every run: `AnswerFails` is always possible, and so is a timer that
  cannot be scheduled.
* *Six heap nodes* are the fewest with which removing a node must move the last
  one **up**: the hole has to lie two levels below the root, on the other side
  of it than the last node.  Growth happens at the third node, inside every
  behaviour that gets there.
* *Horizon*, *Quota*, *MaxSize*, *PerPoll*: the clock, the schedules of one
  behaviour, the growths of the heap, and `max_entries_per_poll`, small so
  that polls do stop early.

* *One call* in `InviteServer`: transactions and sessions of two calls share no
  state below pjsua, where `Uas` takes over.  There is no bound on how often
  messages are repeated or responses retransmitted, and none on how late they
  come: the set of messages makes these behaviours loops.  `Final` holds one
  code for each way of refusing; a 600 behaves as the 404 does.
* *Three dialogs, two callers, two slots* in `call_setup`: a caller's INVITE gets a
  second dialog while the first one lives or ends, and a slot its second and third
  call while another caller has, or waits for, the other slot.  A crossing needs two dialogs of
  one caller, or two calls of one slot.
* *Six ports* in `bridge` are what two calls, three tones and the device need: a
  port that leaked would be missed at once, and a freed slot is the next one used.
  The code has 254 for 24.
* *Garbage* in `life_run` is memory that looks like no id; `UndisturbedStart` holds
  only of that, since a cell that looks free or like a call's before the loop
  reaches it can be claimed and wiped.
* *Callers* of `invite_server` are all but the one that makes no offer and
  acknowledges with the INVITE's branch; that one is the subject of
  `invite_sdp`, and breaks `ImplementsSlot` in the same way.

`CHECK_DEADLOCK FALSE` everywhere: the process may crash or exit, and the heap's
clock and quota run out.  Symmetry is used once, over the entries in
`timer_order`, where no liveness is checked and no constant tells entries apart.

### Fairness

| assumed | because |
|---|---|
| WF of the worker's next statement | no callback waits for anything |
| SF of each expired timer | `pjsua_handle_events` polls the heap before it reads a socket, so messages cannot keep a due timer waiting |
| SF of `ByeDone` | a BYE is answered, or timer F ends its transaction; `ImplementsSlot` shows it |
| WF of `TimeoutTimer`, in `InviteServer` | the timer is in the heap from the final response on, and the worker polls |
| WF of `ByeTimeout` | timer F is in the heap from the moment the BYE is handed over |
| WF of `Hangup`, only in `invite_sdp` | the program's duration timer; the violation is one although the program hangs up |
| SF of the main thread | it waits only for pjsua's mutex, for which `pjsua_call_hangup` tries again and again while the worker releases it after every message, and for a worker that reads its quit flag after every poll |
| WF of the worker inside a callback, in `Lifecycle` | as above |
| WF of `TsxTimer` and `ByeEnds` of each transaction and dialog, in `CallSetup` | timers H, I and F are in the heap, as above; a BYE's answer only comes sooner |
| WF of `Ring` or `Refuse`, in `CallSetup` | `on_incoming_call` runs to its end |
| WF of `IdleTimer`, of a connection begun and of `DestroyTone`, in `Bridge`, while the process lives | the idle timer is polled like any other; `pjsua_conf_connect` waits only for pjsua's mutex, and who holds that in `pjsua_player_destroy` goes on |
| WF of polling, in `TimerHeap` | the worker polls in a loop; a poll that stops after `PerPoll` callbacks is followed by another |

Nothing is assumed of callers: they may stay silent for ever, and the call
that `Uas` has answered is hung up all the same.  Whether the slot then comes back
is the session's affair: for the caller of `invite_sdp` neither `Ack` nor `NoAck`
ever happens, the BYE is held back for good, and the slot is lost.  `CallsEnd`
therefore says that this is the only way not to end; for all other callers
`ImplementsSlot` shows that the wait is over some time.

`acquire_call` gives up after two seconds.  `Lifecycle` assumes that it gets
its locks before; `Bridge` lets it miss any call while the worker is inside a
media callback.

## 4. Proofs

`tlapm M.tla` checks every leaf of the eight modules below.  The theorems hold for
any number of cells, calls, slots, dialogs, ports, timer entries and timer ids, any size
of the heap, and any set of callers and mishaps, where the runs have two or three.  Each one says
`Spec => []P` for the property P that a run checks (with the specification of
its module), unless the table says otherwise.

| theorem | property | assumes |
|---|---|---|
| *`UasProofs`* | | |
| `TypeCorrect` | `TypeOK` | |
| `CellsMatchCalls` | `CellsOwnLiveCalls` | `100 \notin Unsendable` |
| `NoCallRefusedBusy` | `FreeCellForNewCall` | the same |
| *`UasContractProofs`* | | |
| `ToneMatches` | `ToneMatchesNumber` | `100 \notin Unsendable` |
| `KeepsPromise` | `ImplementsContract`, the refinement of `AutoAnswer` | the same |
| *`UasTimerProofs`* | | |
| `TimersFollowCalls` | `TimersTrackCalls` | `{100, 180} \cap Unsendable = {}` |
| `CallbacksFindTheirCells` | `CallbackFindsItsCell` | the same |
| `NoCallbackFollowsNull` | `NoNullCell` | the same |
| `LiveCallsAreTimed` | `LiveCallIsTimed` | `100 \notin Unsendable` |
| `CancelsFindTheirNodes` | `CancelFindsItsNode` | |
| *`LifecycleProofs`* | | |
| `LifeTypes` | `LifeTypeOK` | |
| `RingsWithTones` | `RingsOnlyWithTones` | |
| `HangupReaches` | `HangupReachesAll` | |
| `StartUndisturbed` | `UndisturbedStart` | `{100, 180} \cap Unsendable = {}` |
| *`InviteServerProofs`* | | |
| `InviteInvariant` | the inductive invariant `InviteInv` | |
| `InviteTypes`, `OneAnswer`, `ByeAfterAck`, `AnswerPossible` | `InviteTypeOK`, `OneFinalAnswer`, `ByeWaitsForAck`, `AnswerHasTransaction` | |
| `AnsweredIsGuarded` | `ConnectingWaitsForAck` | every caller makes an offer or its ACK has a branch of its own |
| `InviteImplementsSlot` | `Slot!Spec`, the safety part of `ImplementsSlot` | |
| *`CallSetupProofs`* | | |
| `OneSetup`, `SlotsMatch` | `OneSetupAtATime`, `SlotsMatchSessions` | |
| `SlotsImplement` | `SlotsAreCallSlots`, the safety part of `EverySlotServes` | |
| *`BridgeProofs`* | | |
| `BridgeInvariant` | the inductive invariant `BridgeInv` | |
| `BridgeConsistent`, `OwnTone`, `HeardOverDevice`, `SoundThreadSurvives` | `BridgeAgrees`, `CallerHearsOwnTone`, `HeardNeedsDevice`, `BridgeSurvives` | |
| *`TimerHeapProofs`* | | |
| `Invariant` | the inductive invariant `IInv` | |
| `HeapTypes`, `RoomLeft`, `Ordered`, `TableTrue`, `FreelistComplete`, `OwnersFind` | `HeapTypeOK`, `RoomForOneMore`, `HeapOrdered`, `TableFindsNodes`, `FreelistIsTheRest`, `OwnersFindTheirTimers` | |
| `HeapKeepsService` | `KeepsService`, the refinement of `TimerService` | |

The named assumptions of the modules on their constants (`SizeAssumption`,
`SipAssumption`, `MemoryAssumption` and their like), which TLC evaluates in every
run, are used throughout.  Those in the table cannot be dropped:

* *The 100.*  `uas_busy` is the counterexample: a 100 that cannot be sent ends the
  call before a cell carries its id.
* *The 180.*  If it cannot be sent, the call ends inside `pjsua_call_answer`,
  after which `on_incoming_call` arms the delay timer in a cell that is already
  released (`uas.c:274`): `TimersTrackCalls` fails in the instance of
  `uas_no_ringing`, which is why that run checks what remains true, and
  `LiveCallsAreTimed` proves the most important part of it.
  The two assumptions say that the transport accepts the provisional responses,
  which UDP does unless the interface goes down.
* *The caller.*  `invite_sdp` is the counterexample for one that makes no offer and
  acknowledges with the INVITE's branch.  All other theorems of `InviteServer`
  hold for that caller too.
* `UndisturbedStart` itself says that unwritten memory looks like no call id.

`HeapAssumption` asks for `InitSize <= MaxSize`: the second is a bound on growth,
and a heap is not created beyond it.

### The arguments

*Cells.*  `TypeOK` is inductive because it says, besides the ranges, that
each label of the worker comes with the call, cell and entry its statement uses.
`CellsOwnLiveCalls` is inductive with it: the free cell is found by the first
match of a search, and that this search has a result when a match exists is the
least-element lemma, proved from the well-foundedness of the finite sets rather
than by induction.  `NoCallRefusedBusy` is then a pigeonhole: the cells that are
taken inject into the slots other than the new call's.

*The promise.*  Between an answer and the tone lie the cell, its mode, and a
search by id.  `Served` says what of this survives each step: the mode of a cell is
that of the number its call dialled, a tone is that or none, a BYE is only under
way in an answered call.  Every step of `Uas` is one of a few moves of a single
call (`Offered`, `Rung`, `Answered`, `Retuned`, `HungUp`, `Ended`, or nothing a
caller could notice), and each move is a step of `AutoAnswer`.

*Timers.*  `TimersTrackCalls` alone is not inductive.  That a pending timer's entry
still belongs to the call needs `CellsOwnLiveCalls` (the cell was not given to
another), that the worker has not yet armed a second one needs the labels, and
that a callback which has left the heap finds the cell it was armed in,
`CallbackFindsItsCell`, is true only because no release can happen between the
two.  The inductive invariant `TimerInv` is the conjunction of these with `Typed`.
`NoNullCell` is preserved by each step from a state of `TimerInv`.
With failing 180s timers do outlive calls, so that `LiveCallIsTimed` needs
another invariant, `TimedInv`: a cell with a live call has its own timer, or one
left behind by an earlier call which will do for this one, or is in the hands of
the callback in progress.  For `CancelFindsItsNode` only the table counts: an id is
written where it is handed out and erased or wiped before it is handed out again.

*Start and stop.*  Before `calls_data` exists no cell carries an id, so no call gets
further than its refusal (`NothingServed`); what the main thread has got at each
place (`Stages`) gives the rest of `RingsOnlyWithTones`.  `HangupReachesAll` is the
loop invariant `Reached`: the calls below the index are free or hung up, and no
event but a new INVITE brings one back (`HungStays`, over every step of `Uas`).
`UndisturbedStart` carries `TimerInv` through the loop of `app_init`: it writes
only cells that carry nothing, since those at or above the index are untouched.

*One session and its transaction.*  The properties are not inductive one by one.
`InviteInv` says which states of the transaction each state of the session can
meet, what the kept and the repeated message can be, which timers run, what the
cause code and a BYE that waits tell of each other, and that at most one
final response is on its way.  The handlers are operators from records to records;
each has a lemma about what it returns, and the steps cite those.  Every pair of
states that satisfies the lemmas is one of `SlotMoves`, from which the refinement
of `CallSlot` follows without going through the handlers again.

*Slots and dialogs.*  `SetupInv` says that a slot and a live session name each
other, that `call_cnt` is the number of slots taken, and what there is of a
transaction for each session that is not confirmed.  Old dialogs go on naming their
slot, so each lemma about an event has to exclude that it acts on the slot's new
call; that is where `mod_data` and the state of the old session come in.

*The bridge.*  `BridgeInv` relates lists, counts and slots, what each call and tone
remembers, the media that were not destroyed, the device and its timer, and the
worker between the two halves of a connection.  It says of the tones only that their
remembered slots are fixed and distinct, and which of them the main thread has
taken away: calls may be in any state meanwhile.  A link into a call leads from
the slot its tone's `port_id` names, whatever is in it now; as long as that is the
tone, the call hears nothing else.  The counters are cardinalities of
sets of links, so the lemmas are about how one operation changes those sets.

*The timer heap.*  `reheap_up` and `reheap_down` are recursive functions over the
slots, and what such a function returns cannot be had by the library's induction
theorems.  `UpLoop` and `DownLoop` unfold them by a least counterexample: the function
satisfies one turn of the loop at every slot up to the first one, or from the last
one, at which it would not.  The same argument then carries a statement about the
loop from turn to turn: the array is a permutation with the hole filled, the table
follows the nodes that moved, and what was in order stays so (`UpStep`,
`UpOrderedStep`, `DownStep`, `DownOrderedStep`).  `remove_node` needs both loops, as
the last node of the array may be earlier than the parent of the slot it is put in.
The freelist is a chain from `timer_ids_freelist` to `max_size` (`Chain`) whose
links are the negative entries of the table.  `FreelistIsTheRest` says that links
and ids match one to one, which would also be true of a cycle beside a
shorter list, so it is not inductive; that there is a chain is.  A free id is left when
one is taken because the ids are more than the nodes, by counting (`FreeIdLeft`).
For `KeepsService` the root is the earliest of all (`RootFirst`, the first slot
that would be earlier is above its parent), and an id that is held leads to its
owner's own node (`HolderFindsNode`), or a cancel would take another's timer.

### What stays with TLC

* *Liveness*: `CallsEnd`, `Quits`, `DueTimersExpire`, `TransactionEnds`,
  `IdleDeviceCloses`, and the fairness halves of `ImplementsSlot` and
  `EverySlotServes`.  The prover does not deal with fairness and ENABLED.
* The runs in which 100 or 180 fail, as far as the theorems assume that they do not.

## 5. What the violations show

* **`uas_cancel`** (`uas.c:344`): a call that ends before it is answered makes
  `on_call_state` cancel a duration timer that was never initialised: on the
  cell's first use the entry is whatever the pool's memory held.
* **`uas_busy`** (`uas.c:226`): a 100 that cannot be sent ends the call before a
  cell carries its id; the cell claimed next belongs to a dead call for ever,
  and at last calls are refused as busy with slots free.
* **`life_freed`** (`uas.c:522`): the pool of `calls_data` is released before
  `pjsua_destroy` stops the worker, which may still be in a callback.
* **`invite_sdp`** (`sip_inv.c:279`, `sip_inv.c:3457`): a caller makes no offer
  and its ACK, with the branch of the INVITE, brings no answer.  `inv_set_state`
  means to disconnect such a session, but sends the BYE while the state is still
  CONNECTING, so it is held back for an ACK that was just handled; the hangup
  of the program is held back in the same way, and the transaction whose timer
  would end the wait is forgotten.  The slot is never given back.  An ACK
  with a branch of its own avoids this by accident: `invite_tsx` is set to NULL
  before the check (`sip_inv.c:617`), which then finds nothing to complain of.

Two more outcomes are among the behaviours of the passing runs, and no property
speaks of them:

* When `pjsua_pool_create` fails (`uas.c:467`), `app_init` returns the `PJ_SUCCESS` of
  `pjsua_create`, and `main` waits for input without a worker, a transport or a
  tone (`CreatePool` of `Lifecycle`).  `Quits` begins at the hangup and has nothing
  to say of it.
* `port_id` outlives the tone in the bridge (`uas.c:513`).  A call that is answered
  while `app_destroy` removes the tones may get the slot of a tone that is gone, and
  `on_call_media_state` connects it to itself or to another call.
  `CallerHearsOwnTone` says what remains true: it never hears a wrong tone.

## 6. What is not modelled

* In `Uas` a slot's INVITE session is reduced to the events it can meet, in
  every order the state allows; transactions, retransmissions and the network
  are below it, in `InviteServer` and `CallSetup`.  They are joined by `CallSlot`, not
  by one composed module, whose states would be the product of all.
* In `InviteServer` and `CallSetup`: UPDATE, PRACK, session timers and the
  transaction of a re-INVITE; the BYE's transaction beyond kept, sent and over; a
  second server to try.  Other requests inside a dialog (INFO, REFER, MESSAGE,
  OPTIONS), which `pjsua_call_on_tsx_state_changed` would handle for whatever call has
  the slot that the dialog remembers.
* In `Bridge`: frames, levels, resampling and tone generation; recorders, playlists
  and passive ports; a change of the sound device; and an idle timer that the heap
  refuses, for which the code sets `snd_idle_timer.id` all the same and the device
  then stays open until the next connection.  `pjsua_check_snd_dev_idle` looks at calls
  and at `connect_cnt` and arms the timer in one step; after
  `pj_pool_release` no behaviour is followed into the freed memory; the hangups and
  the polling of `pjsua_destroy` are `Lifecycle`'s.  The assertions of pjsua and
  pjmedia are compiled in, as the repository's build does.
* The 60 s refresh of provisional responses (the program answers after three
  seconds), outgoing calls, transfer, presence, registration and STUN are
  not reached by this program.
* A pool that cannot grow ends pjproject's process by exception; it is a crash
  without interesting state.
* `pj_bzero` writes `call_id` 0 before `call_data_release` writes -1.  Only the
  worker looks while the program serves, so the moment is invisible; during
  `pjsua_call_hangup_all` the main thread releases cells beside it, and there
  the model takes the two writes as one.
* SIP and SDP parsing, codecs, the OS layer, the build, and `pjproject_arm`, a
  second copy of the library for another target.

## 7. Plan

In this order:

1. *`Bridge` below `Uas`*: `tone` of `Uas` as `HeardBy`, a mapping that needs one
   module in which a call's events are shared.
2. *The requests inside a dialog* that `pjsua_call_on_tsx_state_changed` handles for
   whatever call has the slot that the dialog remembers.
