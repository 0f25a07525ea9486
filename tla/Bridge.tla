------------------------------- MODULE Bridge -------------------------------
(***************************************************************************)
(* How a caller comes to hear its tone: the conference bridge of pjmedia,  *)
(* the sound device that clocks it, and the calls and tones plugged in.    *)
(*                                                                         *)
(* The bridge is an array of ports with a list of listeners each and three *)
(* counters; tones keep their slot for the life of the program, a call     *)
(* gets one with each media stream it starts.  The sound device is opened  *)
(* by the first connection and closed by an idle timer.  Three threads     *)
(* meet here: the worker of pjsua, which moves calls and timers; the sound *)
(* device's thread, which pulls frames through the bridge; and the main    *)
(* thread, which ends the calls and takes the tones away at the end, while *)
(* the worker still takes INVITEs.                                         *)
(*                                                                         *)
(* An operation of the bridge holds its mutex and is one step; what takes  *)
(* PJSUA_LOCK waits for another thread that holds it from step to step.    *)
(* What Uas calls tone[c] is HeardBy(c) here.                              *)
(***************************************************************************)
EXTENDS Integers, FiniteSets

CONSTANTS
  MaxCalls,    \* call slots of pjsua
  MaxPorts,    \* ports of the bridge
  DeviceFails  \* the sound device may refuse to open

\* 20 calls, three tones and the device share 254 ports (PJSUA_MAX_CONF_PORTS).
ASSUME BridgeAssumption ==
  /\ MaxCalls \in Nat \ {0} /\ MaxPorts \in Nat /\ MaxPorts >= MaxCalls + 4
  /\ DeviceFails \in BOOLEAN

Calls == 0 .. MaxCalls - 1
RINGBACK == MaxCalls
DIAL     == MaxCalls + 1
WAV      == MaxCalls + 2
MASTER   == MaxCalls + 3                  \* the sound device's side of slot 0
Tones == {RINGBACK, DIAL, WAV}
MediaPorts == Calls \cup Tones \cup {MASTER}
NoPort == -1                              \* a NULL pointer of conf->ports
Slots == 0 .. MaxPorts - 1
NoSlot == -1                              \* PJSUA_INVALID_ID

VARIABLES
  bridge,    \* conf: ports, listeners and transmitter_cnt of each slot,
             \* port_cnt and connect_cnt
  alive,     \* media ports that exist: created and not destroyed
  slotOf,    \* media port -> the slot its user remembers: conf_slot, port_id
  call,      \* call -> "free", "ringing", "up" or "hanging"
  mode,      \* call -> the tone that belongs to the number it dialled
  media,     \* call -> call_med->state: "none", "hold" or "active"
  device,    \* the sound device is open
  idle,      \* snd_idle_timer.id
  pending,   \* the idle timer is in the timer heap
  pc, cur,   \* next step of the worker's on_call_media_state, and its call
  main, at,  \* where the main thread is, and with which call or tone
  crashed    \* why the process died, or "no"

callVars == <<call, mode, media>>
deviceVars == <<device, idle, pending>>
mainVars == <<main, at>>
vars == <<bridge, alive, slotOf, callVars, deviceVars, pc, cur, mainVars, crashed>>

-----------------------------------------------------------------------------
(* The bridge *)

Taken(b) == {s \in Slots : b.ports[s] # NoPort}

\* pjmedia_conf_add_port: the first empty slot.
FreeSlot(b) == CHOOSE s \in Slots \ Taken(b) : \A t \in Slots \ Taken(b) : s <= t

Full(b) == b.count >= MaxPorts

\* The new conf_port has no listener and no transmitter.
Added(b, p) ==
  LET s == FreeSlot(b) IN
    [ports |-> [b.ports EXCEPT ![s] = p],
     listeners |-> [b.listeners EXCEPT ![s] = {}],
     transmitters |-> [b.transmitters EXCEPT ![s] = 0],
     count |-> b.count + 1, connects |-> b.connects]

\* Mutant of Connected: no search for an existing connection.
ConnectedAgain(b, src, sink) ==
  [b EXCEPT !.listeners[src] = @ \cup {sink}, !.transmitters[sink] = @ + 1, !.connects = @ + 1]

\* pjmedia_conf_connect_port, when both ports are there: nothing new if the
\* connection exists.
Connected(b, src, sink) ==
  IF sink \in b.listeners[src] THEN b
  ELSE [ports |-> b.ports,
        listeners |-> [b.listeners EXCEPT ![src] = @ \cup {sink}],
        transmitters |-> [b.transmitters EXCEPT ![sink] = @ + 1],
        count |-> b.count, connects |-> b.connects + 1]

\* Mutant of Unheard: the sources keep the slot as their listener.
UnheardNot(b, s) == b

\* pjmedia_conf_disconnect_port_from_sources
Unheard(b, s) ==
  LET sources == {r \in Taken(b) : s \in b.listeners[r]} IN
    [ports |-> b.ports,
     listeners |-> [r \in Slots |-> IF r \in sources THEN b.listeners[r] \ {s} ELSE b.listeners[r]],
     transmitters |-> b.transmitters,
     count |-> b.count, connects |-> b.connects - Cardinality(sources)]

\* pjmedia_conf_disconnect_port_from_sinks
Silenced(b, s) ==
  LET t == b.transmitters IN
    [ports |-> b.ports,
     listeners |-> [b.listeners EXCEPT ![s] = {}],
     transmitters |-> [r \in Slots |-> IF r \in b.listeners[s] THEN t[r] - 1 ELSE t[r]],
     count |-> b.count, connects |-> b.connects - Cardinality(b.listeners[s])]

\* The slot is empty.
Emptied(b, s) ==
  [ports |-> [b.ports EXCEPT ![s] = NoPort],
   listeners |-> b.listeners, transmitters |-> b.transmitters,
   count |-> b.count - 1, connects |-> b.connects]

\* pjmedia_conf_remove_port: PJ_EINVAL if there is no port.
Removed(b, s) ==
  IF b.ports[s] = NoPort THEN b ELSE Emptied(Silenced(Unheard(b, s), s), s)

\* pjsua_aud_stop_stream: the call's port leaves the bridge, then its stream is
\* destroyed.
Stopped(b, c) == IF slotOf[c] = NoSlot THEN b ELSE Removed(b, slotOf[c])

-----------------------------------------------------------------------------
(* The sound device *)

Using(calls) == {c \in Calls : calls[c] # "free"}
Active(calls, c) == calls[c] \in {"ringing", "up"}     \* pjsua_call_is_active

\* No call at all, or one that is on its way out.
NoActiveCall(calls) ==
  /\ Cardinality(Using(calls)) <= 1
  /\ \A c \in Using(calls) : ~Active(calls, c)

\* pjsua_check_snd_dev_idle, after a step has left bridge b and these calls.
CheckIdle(b, calls) ==
  IF device /\ ~idle /\ NoActiveCall(calls) /\ b.connects = 0
  THEN idle' = TRUE /\ pending' = TRUE
  ELSE UNCHANGED <<idle, pending>>

\* The main thread is inside pjsua_player_destroy and holds PJSUA_LOCK.
PlayerLocked == main = "destroy" /\ at = WAV

\* The worker may begin an event; each takes PJSUA_LOCK at some point, a media
\* update in pjsua_call_get_info.
Idle == pc = "idle" /\ main # "stopped" /\ ~PlayerLocked

\* close_snd_timer_cb
IdleTimer ==
  /\ Idle /\ pending
  /\ pending' = FALSE
  /\ device' = (device /\ ~idle)
  /\ idle' = FALSE
  /\ UNCHANGED <<bridge, alive, slotOf, callVars, pc, cur, mainVars, crashed>>

\* get_frame: a pass over the bridge reads every port that has listeners, looks
\* up each of those, and writes to every port.
PassFaults ==
  \/ \E s \in Taken(bridge) : bridge.ports[s] \notin alive
  \/ \E s \in Taken(bridge) : bridge.listeners[s] \ Taken(bridge) # {}

Pass ==
  /\ device
  /\ crashed' = IF PassFaults THEN "sound" ELSE crashed
  /\ UNCHANGED <<bridge, alive, slotOf, callVars, deviceVars, pc, cur, mainVars>>

-----------------------------------------------------------------------------
(* Calls, on the worker *)

\* An event that uas.c is told of, as long as its cells are there.
Serving == Idle /\ main # "stop"

\* A call gets its slot, also while the main thread is in app_destroy; which
\* tone it is for is uas.c's ring_mode.
Arrive(c, t) ==
  /\ Serving /\ call[c] = "free"
  /\ call' = [call EXCEPT ![c] = "ringing"]
  /\ mode' = [mode EXCEPT ![c] = t]
  /\ UNCHANGED <<bridge, alive, slotOf, media, deviceVars, pc, cur, mainVars, crashed>>

\* pjsua_media_channel_deinit
StopMedia(c) ==
  /\ bridge' = Stopped(bridge, c)
  /\ alive'  = alive \ {c}
  /\ slotOf' = [slotOf EXCEPT ![c] = NoSlot]
  /\ media'  = [media EXCEPT ![c] = "none"]

\* Mutant of End: the look comes before the state changes.
EndEarly(c, s) ==
  /\ StopMedia(c)
  /\ call' = [call EXCEPT ![c] = s]
  /\ CheckIdle(bridge', call)
  /\ UNCHANGED <<mode, device>>

\* The call's media go and its state becomes s; the last look at the sound
\* device, after both, is the one that counts.
End(c, s) ==
  /\ StopMedia(c)
  /\ call' = [call EXCEPT ![c] = s]
  /\ CheckIdle(bridge', call')
  /\ UNCHANGED <<mode, device>>

\* pjsua_call_hangup: an answered call stays until its BYE is over.
Hangup(c) == End(c, IF call[c] = "up" THEN "hanging" ELSE "free")

\* CANCEL, BYE, an answer that cannot be sent, or one that no media are left
\* for.
Disconnect(c) ==
  /\ Serving /\ Active(call, c)
  /\ End(c, "free")
  /\ UNCHANGED <<pc, cur, mainVars, crashed>>

\* The call's duration timer.
Timeout(c) ==
  /\ Serving /\ call[c] = "up"
  /\ Hangup(c)
  /\ UNCHANGED <<pc, cur, mainVars, crashed>>

\* The session is over for uas.c already.
ByeDone(c) ==
  /\ Idle /\ call[c] = "hanging"
  /\ End(c, "free")
  /\ UNCHANGED <<pc, cur, mainVars, crashed>>

\* What a media update leaves of the stream: unchanged it stays as it is,
\* otherwise it is stopped and perhaps started anew.  pjmedia_conf_add_port
\* asserts that the bridge is not full.
Kept(c) ==
  /\ media[c] # "none"
  /\ UNCHANGED <<bridge, alive, slotOf, media, crashed>>

Restarted(c, m) ==
  LET b == Stopped(bridge, c) IN
    /\ alive'  = alive \cup {c}
    /\ slotOf' = [slotOf EXCEPT ![c] = FreeSlot(b)]
    /\ media'  = [media EXCEPT ![c] = m]
    /\ IF Full(b) THEN crashed' = "full" /\ bridge' = b
                  ELSE bridge' = Added(b, c) /\ UNCHANGED crashed

\* There are none any more, or the stream cannot be started.
Gone(c) == call[c] = "up" /\ StopMedia(c) /\ UNCHANGED crashed

\* An INVITE without an offer is answered before there can be any.
NotYet(c) ==
  /\ call[c] = "ringing" /\ media[c] = "none"
  /\ UNCHANGED <<bridge, alive, slotOf, media, crashed>>

\* An offer is answered, or its answer comes with the ACK, or a re-INVITE:
\* pjsua_call_on_media_update up to the callback of uas.c, which connects the
\* tone if the media are active.
MediaUpdate(c) ==
  /\ Serving /\ Active(call, c)
  /\ Kept(c) \/ (\E m \in {"hold", "active"} : Restarted(c, m)) \/ Gone(c) \/ NotYet(c)
  /\ IF media'[c] = "active"
     THEN pc' = "choose" /\ cur' = c /\ UNCHANGED call
     ELSE call' = [call EXCEPT ![c] = "up"] /\ UNCHANGED <<pc, cur>>
  /\ UNCHANGED <<mode, deviceVars, mainVars>>

\* on_call_media_state looks the source port up by the cell's ring_mode.  The
\* two generators' port_id is a number that stays; pjsua_player_get_conf_port
\* asserts that the player is there.
Choose ==
  /\ pc = "choose" /\ main # "stop"
  /\ IF mode[cur] = WAV /\ WAV \notin alive
     THEN crashed' = "player" /\ UNCHANGED pc
     ELSE pc' = "open" /\ UNCHANGED crashed
  /\ UNCHANGED <<bridge, alive, slotOf, callVars, deviceVars, cur, mainVars>>

\* Mutant of OpenDevice: the idle timer is left alone.
OpenDeviceIdle ==
  /\ pc = "open" /\ ~PlayerLocked
  /\ UNCHANGED <<idle, pending>>
  /\ \/ device' = TRUE /\ pc' = "link"
     \/ ~device /\ DeviceFails /\ pc' = "refused" /\ UNCHANGED device
  /\ UNCHANGED <<bridge, alive, slotOf, callVars, cur, mainVars, crashed>>

\* pjsua_conf_connect2 under PJSUA_LOCK: the idle timer is cancelled and the
\* device opened unless it is open.
OpenDevice ==
  /\ pc = "open" /\ ~PlayerLocked
  /\ idle' = FALSE
  /\ pending' = (pending /\ ~idle)
  /\ \/ device' = TRUE /\ pc' = "link"
     \/ ~device /\ DeviceFails /\ pc' = "refused" /\ UNCHANGED device
  /\ UNCHANGED <<bridge, alive, slotOf, callVars, cur, mainVars, crashed>>

\* After PJSUA_UNLOCK: pjmedia_conf_connect_port, which needs both ports.
Link ==
  LET src == slotOf[mode[cur]]  sink == slotOf[cur] IN
  /\ pc = "link"
  /\ IF {src, sink} \subseteq Taken(bridge)
     THEN /\ bridge' = Connected(bridge, src, sink)
          /\ call' = [call EXCEPT ![cur] = "up"]
          /\ pc' = "idle"
     ELSE pc' = "refused" /\ UNCHANGED <<bridge, call>>
  /\ UNCHANGED <<alive, slotOf, mode, media, deviceVars, cur, mainVars, crashed>>

\* uas.c hangs up with 500 when the tone cannot be connected.
Refused ==
  /\ pc = "refused" /\ main # "stop" /\ ~PlayerLocked
  /\ Hangup(cur)
  /\ pc' = "idle"
  /\ UNCHANGED <<cur, mainVars, crashed>>

-----------------------------------------------------------------------------
(* The end, on the main thread: app_destroy *)

Quit ==
  /\ main = "run"
  /\ main' = "hangup" /\ at' = 0
  /\ UNCHANGED <<bridge, alive, slotOf, callVars, deviceVars, pc, cur, crashed>>

\* acquire_call tries for two seconds: the worker holds the dialog's lock while
\* it connects the call's tone, and PJSUA_LOCK while it opens the device.
Acquired(c) == pc # "idle" => cur # c
TimedOut    == pc # "idle"

\* pjsua_call_hangup_all, call by call; a call may come behind it or be missed.
HangupNext ==
  /\ main = "hangup"
  /\ \/ Active(call, at) /\ Acquired(at) /\ Hangup(at)
     \/ (~Active(call, at) \/ TimedOut)
        /\ UNCHANGED <<bridge, alive, slotOf, callVars, deviceVars>>
  /\ IF at = MaxCalls - 1 THEN main' = "remove" /\ at' = RINGBACK
                          ELSE main' = "hangup" /\ at' = at + 1
  /\ UNCHANGED <<pc, cur, crashed>>

\* Mutant of RemoveTone: the generator is destroyed while it is in the bridge.
RemoveToneDestroyed ==
  /\ main = "remove"
  /\ alive' = alive \ {at}
  /\ main' = "destroy"
  /\ UNCHANGED <<bridge, slotOf, callVars, deviceVars, at, pc, cur, crashed>>

\* pjsua_conf_remove_port of the tone that is next; its port_id stays.
RemoveTone ==
  /\ main = "remove"
  /\ bridge' = Removed(bridge, slotOf[at])
  /\ CheckIdle(bridge', call)
  /\ main' = "destroy"
  /\ UNCHANGED <<alive, slotOf, callVars, device, at, pc, cur, crashed>>

\* pjmedia_port_destroy; the player is the last one.
DestroyTone ==
  /\ main = "destroy"
  /\ alive' = alive \ {at}
  /\ IF at = WAV THEN main' = "release" /\ UNCHANGED at
                 ELSE main' = "remove" /\ at' = at + 1
  /\ UNCHANGED <<bridge, slotOf, callVars, deviceVars, pc, cur, crashed>>

\* pj_pool_release: the cells are gone.
ReleasePool ==
  /\ main = "release"
  /\ main' = "stop"
  /\ UNCHANGED <<bridge, alive, slotOf, callVars, deviceVars, at, pc, cur, crashed>>

\* What the worker tells uas.c of now meets freed memory: an INVITE, or an event
\* or a callback of a call that is not over.
ServeFreed ==
  /\ main = "stop"
  /\ pc \in {"choose", "refused"} \/ \E c \in Calls : call[c] # "hanging"
  /\ crashed' = "freed"
  /\ UNCHANGED <<bridge, alive, slotOf, callVars, deviceVars, pc, cur, mainVars>>

\* pjsua_destroy: the worker is joined, a call that is left would be hung up
\* (ServeFreed), then the device is closed.
Destroy ==
  /\ main = "stop" /\ pc = "idle"
  /\ \A c \in Calls : ~Active(call, c)
  /\ main' = "stopped"
  /\ device' = FALSE
  /\ UNCHANGED <<bridge, alive, slotOf, callVars, idle, pending, at, pc, cur, crashed>>

-----------------------------------------------------------------------------
\* app_init is over: the tones are in the slots they were added to, one by one,
\* and the device was never opened.
EmptyBridge ==
  [ports        |-> [s \in Slots |-> IF s = 0 THEN MASTER ELSE NoPort],
   listeners    |-> [s \in Slots |-> {}],
   transmitters |-> [s \in Slots |-> 0],
   count |-> 1, connects |-> 0]

Init ==
  /\ bridge = Added(Added(Added(EmptyBridge, RINGBACK), DIAL), WAV)
  /\ alive  = Tones \cup {MASTER}
  /\ slotOf = [p \in MediaPorts |-> CASE p = MASTER -> 0 [] p = RINGBACK -> 1
                                      [] p = DIAL -> 2 [] p = WAV -> 3 [] OTHER -> NoSlot]
  /\ call  = [c \in Calls |-> "free"]
  /\ mode  = [c \in Calls |-> DIAL]
  /\ media = [c \in Calls |-> "none"]
  /\ device = FALSE /\ idle = FALSE /\ pending = FALSE
  /\ pc = "idle" /\ cur = 0
  /\ main = "run" /\ at = 0
  /\ crashed = "no"

Connecting == Choose \/ OpenDevice \/ Link \/ Refused

CallEvent(c) ==
  \/ \E t \in Tones : Arrive(c, t)
  \/ Disconnect(c) \/ Timeout(c) \/ ByeDone(c) \/ MediaUpdate(c)

MainThread == Quit \/ HangupNext \/ RemoveTone \/ DestroyTone \/ ReleasePool \/ Destroy

Live == crashed = "no"

Next ==
  /\ Live
  /\ \/ IdleTimer \/ Connecting \/ ServeFreed \/ Pass \/ MainThread
     \/ \E c \in Calls : CallEvent(c)

\* The worker polls its timers and goes on with what it has begun, and the main
\* thread does not stay inside pjsua_player_destroy.
Fairness ==
  /\ WF_vars(Live /\ IdleTimer)
  /\ WF_vars(Live /\ Connecting)
  /\ WF_vars(Live /\ DestroyTone)

BridgeSpec == Init /\ [][Next]_vars /\ Fairness

-----------------------------------------------------------------------------
(* What the code promises *)

\* The sources whose frames are mixed into what call c is sent.
HeardBy(c) ==
  IF slotOf[c] = NoSlot THEN {}
  ELSE {bridge.ports[s] : s \in {r \in Taken(bridge) : slotOf[c] \in bridge.listeners[r]}}

BridgeTypeOK ==
  /\ bridge \in [ports: [Slots -> MediaPorts \cup {NoPort}], listeners: [Slots -> SUBSET Slots],
                 transmitters: [Slots -> Nat], count: 0 .. MaxPorts, connects: Nat]
  /\ alive \subseteq MediaPorts
  /\ slotOf \in [MediaPorts -> Slots \cup {NoSlot}]
  /\ call  \in [Calls -> {"free", "ringing", "up", "hanging"}]
  /\ mode  \in [Calls -> Tones]
  /\ media \in [Calls -> {"none", "hold", "active"}]
  /\ {device, idle, pending} \subseteq BOOLEAN
  /\ pc \in {"idle", "choose", "open", "link", "refused"} /\ cur \in Calls
  /\ main \in {"run", "hangup", "remove", "destroy", "release", "stop", "stopped"}
  /\ at \in Calls \cup Tones
  /\ crashed \in {"no", "sound", "full", "player", "freed"}

\* Over any sequence of calls, holds and re-INVITEs the bridge stays consistent:
\* its three counters say what its lists say, a call's port is in the slot that
\* the call remembers and in no other, and no port is left of a call that has
\* none.  get_frame believes the counters, and the idle timer connect_cnt.
BridgeAgrees ==
  /\ BridgeTypeOK
  /\ bridge.count = Cardinality(Taken(bridge))
  /\ bridge.connects = Cardinality({p \in Slots \X Slots : p[2] \in bridge.listeners[p[1]]})
  /\ \A s \in Taken(bridge) : bridge.transmitters[s] =
                                Cardinality({r \in Slots : s \in bridge.listeners[r]})
  /\ \A c \in Calls, s \in Slots : bridge.ports[s] = c <=> slotOf[c] = s

\* Tone t is plugged in, in the slot its port_id names.
Here(t) == bridge.ports[slotOf[t]] = t

\* No tone but a caller's own ever reaches it, although slots are used again at
\* once and tones keep their lists, also while the main thread takes tones away
\* beside calls that it missed or that came late.  While its tone is plugged in
\* a caller is sent nothing else, and a call with active media is sent it,
\* unless the worker is about to connect it.  Once the tone is unplugged its
\* port_id goes on naming the slot, which the next stream takes: a late call may
\* then be connected to itself or to another call, but never to another tone.
CallerHearsOwnTone ==
  \A c \in Calls :
    /\ HeardBy(c) \cap Tones \subseteq {mode[c]}
    /\ Here(mode[c]) =>
         /\ HeardBy(c) \subseteq {mode[c]}
         /\ media[c] = "active" /\ (pc = "idle" \/ cur # c) => mode[c] \in HeardBy(c)

\* As long as anybody is sent a tone the device that clocks the bridge is open:
\* the idle timer of an earlier pause never closes it under a call.
HeardNeedsDevice ==
  main # "stopped" => \A c \in Calls : HeardBy(c) # {} => device

\* The sound thread never meets a port that is gone, nor a listener that is
\* not there, also when the tones are removed beside calls that the hangup loop
\* missed or that came late, some of which listen and one of which the worker
\* may be about to connect; and the bridge never overflows, so no port of an
\* ended call leaks.
BridgeSurvives == crashed \notin {"sound", "full"}

\* When no call is left the sound device is closed, unless another one comes or
\* the process dies.
IdleDeviceCloses == (device /\ Using(call) = {}) ~> (~device \/ Using(call) # {} \/ ~Live)
=============================================================================
