------------------------------ MODULE Lifecycle ------------------------------
(***************************************************************************)
(* The auto-answerer from main() to exit: the main thread that runs        *)
(* app_init and app_destroy beside the worker thread that serves calls.    *)
(*                                                                         *)
(* The worker exists from pjsua_init until pjsua_destroy joins it, so its  *)
(* callbacks (module Uas) interleave with the main thread: with app_init   *)
(* filling calls_data, and with app_destroy hanging up every call, taking  *)
(* the tones away and releasing the pool calls_data lies in.  Neither side *)
(* takes a lock of its own.  pjsua holds its mutex from the arrival of an  *)
(* INVITE until on_incoming_call returns; a hangup waits for it.           *)
(***************************************************************************)
EXTENDS Uas

CONSTANT
  Garbage    \* what call_id of a cell may hold before app_init writes it

ASSUME MemoryAssumption == Garbage \subseteq Calls \cup {NoCall, Junk} /\ Garbage # {}

VARIABLES
  main,      \* what the main thread does next
  next,      \* its loop index
  pool,      \* app_data.pool: "NULL", "held" or "released"
  worker,    \* "none", "running", or "stopping" when told to quit
  open,      \* the transport and the local account accept calls
  tones,     \* app_data's tones and player: "none", "some" or "all"
  late       \* history: an INVITE was accepted after app_destroy had begun

mainVars == <<main, next, pool, worker, open, tones>>
allVars == <<vars, mainVars>>

Startup == {"create", "pool", "init", "transport", "start", "account", "tones", "alloc", "fill"}
Shutdown == {"hangup_all", "remove_tones", "release", "stop", "join", "hangup_again", "sleep"}

-----------------------------------------------------------------------------
(* app_init *)

\* The main thread goes on from one statement to the next.
At(from, to) == main = from /\ main' = to

\* pjsua_create; every failure of app_init ends in app_destroy.
CreatePjsua ==
  /\ main = "create" /\ main' \in {"pool", "hangup_all"}
  /\ UNCHANGED <<vars, next, pool, worker, open, tones>>

\* pjsua_pool_create; when it fails app_init returns the status of pjsua_create,
\* PJ_SUCCESS, and main waits for input.
CreatePool ==
  /\ \/ At("pool", "init") /\ pool' = "held"
     \/ At("pool", "input") /\ UNCHANGED pool
  /\ UNCHANGED <<vars, next, worker, open, tones>>

\* pjsua_init starts the worker as its last step.
InitPjsua ==
  /\ \/ At("init", "transport") /\ worker' = "running"
     \/ At("init", "hangup_all") /\ UNCHANGED worker
  /\ UNCHANGED <<vars, next, pool, open, tones>>

\* udp_transport_create, whose status is ignored: on failure the local account
\* is added for an uninitialised transport id.
CreateTransport ==
  /\ At("transport", "start")
  /\ open' \in {"bound", "closed"}
  /\ UNCHANGED <<vars, next, pool, worker, tones>>

StartPjsua ==
  /\ main = "start" /\ main' \in {"account", "hangup_all"}
  /\ UNCHANGED <<vars, next, pool, worker, open, tones>>

\* Mutant of AddAccount: calls_data is allocated before the tones are made.
AddAccountTonesLater ==
  /\ At("account", "alloc") /\ open = "bound" /\ open' = "accepting" /\ UNCHANGED vars
  /\ UNCHANGED <<next, pool, worker, tones>>

\* pjsua_acc_add_local asserts that the transport exists.
AddAccount ==
  /\ \/ At("account", "tones") /\ open = "bound" /\ open' = "accepting" /\ UNCHANGED vars
     \/ /\ At("account", "hangup_all") /\ UNCHANGED open
        /\ crashed' \in IF open = "bound" THEN {crashed} ELSE {crashed, "assert"}
        /\ UNCHANGED <<cellVars, heap, slotVars, nextCall, callback>>
  /\ UNCHANGED <<next, pool, worker, tones>>

\* ringtones_create, or error_exit with whatever was created before it failed.
CreateTones ==
  /\ \/ At("tones", "alloc") /\ tones' = "all"
     \/ At("tones", "hangup_all") /\ tones' = "some"
  /\ UNCHANGED <<vars, next, pool, worker, open>>

\* pj_pool_alloc: from here on the callbacks see the array.  A pool that cannot
\* grow throws an exception, which nobody catches, before NULL could be returned.
AllocCells ==
  /\ \/ At("alloc", "fill") /\ next' = 0 /\ owner' \in [Cells -> Garbage] /\ UNCHANGED crashed
     \/ main = "alloc" /\ crashed' = "assert" /\ UNCHANGED <<main, next, owner>>
  /\ UNCHANGED <<mode, entry, heap, slotVars, nextCall, callback>>
  /\ UNCHANGED <<pool, worker, open, tones>>

\* Mutants of FillCell: one round too many; every round clears the whole array.
FillCellOneMore ==
  /\ main = "fill"
  /\ IF next > NumCells
     THEN main' = "input" /\ UNCHANGED <<next, owner>>
     ELSE next' = next + 1 /\ owner' = [owner EXCEPT ![next] = NoCall] /\ UNCHANGED main
  /\ UNCHANGED <<mode, entry, heap, slotVars, nextCall, callback, crashed>>
  /\ UNCHANGED <<pool, worker, open, tones>>
FillCellAll ==
  /\ main = "fill"
  /\ IF next = NumCells
     THEN main' = "input" /\ UNCHANGED <<next, owner>>
     ELSE next' = next + 1 /\ owner' = [k \in Cells |-> NoCall] /\ UNCHANGED main
  /\ UNCHANGED <<mode, entry, heap, slotVars, nextCall, callback, crashed>>
  /\ UNCHANGED <<pool, worker, open, tones>>

\* One round of the loop that marks the cells free.
FillCell ==
  /\ main = "fill"
  /\ IF next = NumCells
     THEN main' = "input" /\ UNCHANGED <<next, owner>>
     ELSE next' = next + 1 /\ owner' = [owner EXCEPT ![next] = NoCall] /\ UNCHANGED main
  /\ UNCHANGED <<mode, entry, heap, slotVars, nextCall, callback, crashed>>
  /\ UNCHANGED <<pool, worker, open, tones>>

\* 'q', or the end of the input.
Quit ==
  /\ At("input", "hangup_all") /\ next' = 0
  /\ UNCHANGED <<vars, pool, worker, open, tones>>

-----------------------------------------------------------------------------
(* app_destroy *)

\* pjsua's mutex is held while an INVITE is handled.
PjsuaLocked == pc \in {"trying", "claim", "not_found", "ringing", "delay_init", "delay_schedule"}

Dies(why) ==
  /\ crashed' = why
  /\ UNCHANGED <<cellVars, heap, slotVars, nextCall, callback>>

\* The array, or an entry in it, is used after the pool was released.
UseFreed == Dies("use_after_free")

\* One round of pjsua_call_hangup_all: the slot is looked at without the mutex,
\* the hangup of a call waits for it.
HangupNext ==
  /\ next' = next + 1
  /\ \/ ~Alive(next) /\ UNCHANGED vars
     \/ /\ Alive(next) /\ ~PjsuaLocked
        /\ IF pool = "released" /\ ~hanging[next]
           THEN UseFreed
           ELSE Hangup(next) /\ UNCHANGED <<number, nextCall, callback>>

LastCallMissed == MaxCalls - 2              \* mutant of LastCall
LastCall == MaxCalls - 1

HangupAll ==
  /\ main = "hangup_all"
  /\ IF next <= LastCall
     THEN HangupNext /\ UNCHANGED main
     ELSE main' = "remove_tones" /\ UNCHANGED <<next, vars>>
  /\ UNCHANGED <<pool, worker, open, tones>>

\* The ports leave the bridge; pjsua_player_destroy asserts that the player was
\* created, which is the last step of ringtones_create.
RemoveTones ==
  /\ At("remove_tones", "release")
  /\ tones' = "none"
  /\ tone' = [c \in Calls |-> "NOT_SET"]
  /\ crashed' \in IF tones = "all" THEN {crashed} ELSE {crashed, "assert"}
  /\ UNCHANGED <<cellVars, heap, inv, hanging, bye, number, nextCall, callback>>
  /\ UNCHANGED <<next, pool, worker, open>>

\* pj_pool_release does not test its argument for NULL.
ReleasePool ==
  /\ At("release", "stop")
  /\ IF pool = "NULL"
     THEN /\ crashed' = "null_pool" /\ UNCHANGED pool
          /\ UNCHANGED <<cellVars, heap, slotVars, nextCall, callback>>
     ELSE pool' = "released" /\ UNCHANGED vars
  /\ UNCHANGED <<next, worker, open, tones>>

\* Mutant of StopWorker: the worker is not told.
StopWorkerSilently == At("stop", "join") /\ UNCHANGED <<vars, next, pool, worker, open, tones>>

\* pjsua_destroy tells the worker to quit, which from then on refuses INVITEs ...
StopWorker ==
  /\ At("stop", "join")
  /\ worker' = IF worker = "running" THEN "stopping" ELSE worker
  /\ UNCHANGED <<vars, next, pool, open, tones>>

\* ... and waits for it to leave its loop, which it does between two events.
Join ==
  /\ At("join", "hangup_again") /\ next' = 0
  /\ worker # "running" /\ (worker = "stopping" => pc = "idle")
  /\ worker' = "none"
  /\ UNCHANGED <<vars, pool, open, tones>>

\* pjsua_destroy hangs up again what it finds,
HangupAgain ==
  /\ main = "hangup_again"
  /\ IF next <= LastCall
     THEN HangupNext /\ UNCHANGED main
     ELSE main' = "sleep" /\ UNCHANGED <<next, vars>>
  /\ UNCHANGED <<pool, worker, open, tones>>

\* polls for a second (below), and destroys what is left.
DestroyPjsua ==
  /\ At("sleep", "exited") /\ pc = "idle"
  /\ open' = "closed"
  /\ UNCHANGED <<vars, next, pool, worker, tones>>

Main ==
  \/ CreatePjsua \/ CreatePool \/ InitPjsua \/ CreateTransport \/ StartPjsua \/ AddAccount
  \/ CreateTones \/ AllocCells \/ FillCell \/ Quit
  \/ HangupAll \/ RemoveTones \/ ReleasePool \/ StopWorker \/ Join \/ HangupAgain
  \/ DestroyPjsua

-----------------------------------------------------------------------------
(* The events of pjsua, handled by the worker or, after it is gone, by the *)
(* main thread inside pjsua_destroy                                        *)

Polling == worker # "none" \/ main = "sleep"

\* An INVITE is accepted for the local account unless pjsua is told to quit.
Accepting ==
  open = "accepting" /\ worker = "running"

\* A tone that was removed from the bridge is heard by no new call: its port_id
\* leads to no port, and the call is hung up, or to a stream that has the slot now
\* (module Bridge), and the call stays up without a tone.
TonesThere == tones = "all" \/ \A c \in Calls : tone'[c] \in {tone[c], "NOT_SET"}

\* pjsua_player_get_conf_port asserts that the player was not destroyed, when a
\* call that is for it is answered or its media are negotiated too late.
PlayerGone ==
  /\ main = "release" /\ pool = "held"
  /\ \E c \in Calls :
       /\ CellOf(c) # NoCell /\ mode[CellOf(c)] = "WAV"
       /\ \/ pc = "answer" /\ cur = c /\ Waiting(c)
          \/ pc = "idle" /\ inv[c] \in {"CONNECTING", "CONFIRMED"} /\ ~hanging[c]
  /\ Dies("assert")

\* While the pool is held the events are those of Uas.
Serve ==
  /\ pool # "released"
  /\ \/ Step
     \/ \E t \in TimerIds : Fire(t)
     \/ \E c \in Calls : CallEvent(c)
  /\ TonesThere

\* After its release, what does not use the array still works ...
ServeWithoutCells ==
  /\ pool = "released"
  /\ \/ pc \in {"trying", "ringing"} /\ Step /\ Alive(cur)'
     \/ \E c \in Calls : NoAck(c) \/ (hanging[c] /\ CallEvent(c))

\* ... but a callback that has or looks for a cell, a timer whose entry lies in
\* one, and every event that on_call_state or on_call_media_state hears of do.
ServeFreed ==
  /\ pool = "released"
  /\ \/ pc \notin {"idle", "trying", "ringing"}
     \/ pc = "trying" /\ 100 \in Unsendable
     \/ pc = "ringing" /\ 180 \in Unsendable
     \/ pc = "idle" /\ \E t \in TimerIds : heap[t] # NoEntry
     \/ pc = "idle" /\ \E c \in Calls : Alive(c) /\ ~hanging[c]
  /\ UseFreed

Worker ==
  /\ Polling
  /\ \/ Serve \/ PlayerGone \/ ServeWithoutCells \/ ServeFreed
     \/ Accepting /\ \E c \in Calls, n \in Numbers : Incoming(c, n)
  /\ UNCHANGED mainVars

-----------------------------------------------------------------------------
\* calls_data is NULL: no cell carries any id.
LifeInit ==
  /\ owner = [k \in Cells |-> Junk]
  /\ mode  = [k \in Cells |-> "NOT_SET"]
  /\ entry = [e \in Entries |-> Unwritten]
  /\ NothingRuns
  /\ main = "create" /\ next = 0 /\ pool = "NULL" /\ worker = "none"
  /\ open = "closed" /\ tones = "none"
  /\ late = FALSE

\* An INVITE is what takes the worker from "idle" to "trying".
LifeNext ==
  /\ Live /\ (Main \/ Worker)
  /\ late' = (late \/ (main \in Shutdown /\ pc = "idle" /\ pc' = "trying"))

LifeSpec == LifeInit /\ [][LifeNext]_<<allVars, late>>

\* Both threads run.  A wait of the main thread is for the mutex of pjsua, for
\* which it tries again and again, or for a worker that was told to quit and
\* comes back to the head of its loop after every event.
LifeFairSpec == LifeSpec /\ SF_allVars(Live /\ Main) /\ WF_allVars(Live /\ pc # "idle" /\ Worker)

-----------------------------------------------------------------------------
(* What the code promises *)

\* The ranges of the variables this module adds, and of those it widens.
LifeTypeOK ==
  /\ main \in Startup \cup {"input"} \cup Shutdown \cup {"exited"}
  /\ next \in 0 .. (IF main = "fill" \/ MaxCalls < NumCells THEN NumCells ELSE MaxCalls)
  /\ pool \in {"NULL", "held", "released"}
  /\ worker \in {"none", "running", "stopping"}
  /\ open \in {"closed", "bound", "accepting"}
  /\ tones \in {"none", "some", "all"}
  /\ owner \in [Cells -> Calls \cup {NoCall, Junk}]
  /\ crashed \in {"no", "null_cell", "bad_cancel", "assert", "null_pool", "use_after_free"}

\* A call that arrives while app_init still prepares is refused, never rung: a
\* call rings only once every source it could be connected to exists.
RingsOnlyWithTones ==
  main \in Startup /\ tones # "all" => \A c \in Calls : inv[c] \in {"NULL", "INCOMING"}

\* pjsua_call_hangup_all passes over the slots once, while timers answer calls
\* and callers end them: if no new call comes, none is left that uas.c still
\* has to serve when the tones and the cells are taken away.
HangupReachesAll ==
  ~late /\ main \in Shutdown \ {"hangup_all"}
    => \A c \in Calls : Alive(c) => hanging[c]

\* Calls that arrive while app_init fills the array find a cell or are refused,
\* and no callback loses its cell to the loop, provided that no unwritten cell
\* happens to look like a free one or like a call's.
UndisturbedStart == Garbage = {Junk} /\ main \notin Shutdown => crashed # "null_cell"

\* The process ends once it was asked to, one way or another: neither the mutex
\* of pjsua nor the join keeps the main thread for ever.
Quits == main = "hangup_all" ~> (main = "exited" \/ ~Live)
=============================================================================
