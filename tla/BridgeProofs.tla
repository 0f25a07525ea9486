---------------------------- MODULE BridgeProofs ----------------------------
(***************************************************************************)
(* Theorems about the conference bridge, its calls, tones and sound        *)
(* device, for any number of calls and ports.                              *)
(***************************************************************************)
EXTENDS Bridge, TLAPS, FiniteSetTheorems, FunctionTheorems, WellFoundedInduction

-----------------------------------------------------------------------------
(* The inductive invariant *)

BridgeRecord ==
  [ports: [Slots -> MediaPorts \cup {NoPort}], listeners: [Slots -> SUBSET Slots],
   transmitters: [Slots -> Nat], count: 0 .. MaxPorts, connects: Nat]

Links(b) == {p \in Slots \X Slots : p[2] \in b.listeners[p[1]]}
Sources(b, s) == {r \in Slots : s \in b.listeners[r]}
LinksTo(X, s) == {<<r, s>> : r \in X}
LinksFrom(X, s) == {<<s, r>> : r \in X}

\* The counters of a bridge say what its lists say, and its lists name ports that
\* are there.
Agrees(b) ==
  /\ b \in BridgeRecord
  /\ b.count = Cardinality(Taken(b))
  /\ b.connects = Cardinality(Links(b))
  /\ \A s \in Taken(b) : b.transmitters[s] = Cardinality(Sources(b, s))
  /\ \A r, s \in Slots : s \in b.listeners[r] => r \in Taken(b) /\ s \in Taken(b)

\* Everything but the bridge has its type.
RestTyped ==
  /\ alive \subseteq MediaPorts
  /\ slotOf \in [MediaPorts -> Slots \cup {NoSlot}]
  /\ call  \in [Calls -> {"free", "ringing", "up", "hanging"}]
  /\ mode  \in [Calls -> Tones]
  /\ media \in [Calls -> {"none", "hold", "active"}]
  /\ {device, idle, pending} \subseteq BOOLEAN
  /\ pc \in {"idle", "choose", "open", "link", "refused"} /\ cur \in Calls
  /\ main \in {"run", "hangup", "remove", "destroy", "release", "stop", "stopped"}
  /\ at \in Calls \cup Tones

\* The tones main has not taken away yet.
ToneHere(t) ==
  \/ main \in {"run", "hangup"}
  \/ main = "remove" /\ at <= t
  \/ main = "destroy" /\ at < t

\* Each port is in the slot its user remembers, and exists; a tone's user, uas.c,
\* remembers its slot for ever.
PortsAgree ==
  /\ \A s \in Taken(bridge) : slotOf[bridge.ports[s]] = s /\ bridge.ports[s] \in alive
  /\ \A c \in Calls : slotOf[c] # NoSlot => bridge.ports[slotOf[c]] = c
  /\ \A t \in Tones : slotOf[t] = t - MaxCalls + 1 /\ (ToneHere(t) <=> bridge.ports[slotOf[t]] = t)

\* A connection leads to a call from the slot its tone is remembered in, whatever
\* is in that slot when the tone has left it.
LinksAgree ==
  \A r, s \in Slots : s \in bridge.listeners[r] =>
    bridge.ports[s] \in Calls /\ r = slotOf[mode[bridge.ports[s]]]

\* A call has a port while it has media, and is connected once they are active, as
\* long as its tone is there.
MediaAgree ==
  /\ \A c \in Calls : media[c] = "none" <=> slotOf[c] = NoSlot
  /\ \A c \in Calls : media[c] # "none" => Active(call, c)
  /\ \A c \in Calls :
       media[c] = "active" /\ (pc = "idle" \/ cur # c) /\ ToneHere(mode[c]) =>
         slotOf[c] \in bridge.listeners[slotOf[mode[c]]]
  /\ pc # "idle" => media[cur] = "active"

\* The main thread is at a call first, then at a tone.
MainAgrees ==
  /\ main \in {"run", "hangup"} => at \in Calls
  /\ main \notin {"run", "hangup"} => at \in Tones

\* The sound device is open for whoever is connected, or is about to be.
DeviceAgrees ==
  /\ Links(bridge) # {} => device /\ ~idle
  /\ pc = "link" => device /\ ~idle

BridgeInv ==
  /\ Agrees(bridge)
  /\ RestTyped
  /\ PortsAgree
  /\ LinksAgree
  /\ MediaAgree
  /\ MainAgrees
  /\ DeviceAgrees
  /\ crashed \in {"no", "player", "freed"}
-----------------------------------------------------------------------------
(* Counting connections *)

\* The numbers of the ports and slots, and those that stand for none.
LEMMA Numbers ==
  /\ MediaPorts = 0 .. MaxCalls + 3 /\ NoPort \notin MediaPorts
  /\ Slots \subseteq Nat /\ NoSlot \notin Slots /\ {0, 1, 2, 3} \subseteq Slots
  /\ \A c \in Calls : c \in Nat /\ c \notin Tones /\ c # MASTER
  /\ MASTER \notin Tones /\ Tones = MaxCalls .. MaxCalls + 2 /\ WAV = MaxCalls + 2
  /\ Calls \subseteq MediaPorts /\ Tones \subseteq MediaPorts /\ MASTER \in MediaPorts
BY BridgeAssumption
   DEF MediaPorts, NoPort, Slots, NoSlot, Calls, Tones, RINGBACK, DIAL, WAV, MASTER

\* uas.c remembers another slot for each tone.
LEMMA ToneSlots ==
  ASSUME PortsAgree
  PROVE  /\ \A t \in Tones : slotOf[t] \in Slots /\ slotOf[t] # NoSlot
         /\ \A t, u \in Tones : slotOf[t] = slotOf[u] => t = u
<1>1. \A t \in Tones : slotOf[t] = t - MaxCalls + 1
  BY DEF PortsAgree
<1>2. Tones = MaxCalls .. MaxCalls + 2
  BY Numbers
<1> QED
  BY <1>1, <1>2, BridgeAssumption DEF Slots, NoSlot

\* Slots, and pairs of them, can be counted.
LEMMA SlotsFinite ==
  /\ IsFiniteSet(Slots)
  /\ \A b : IsFiniteSet(Taken(b)) /\ IsFiniteSet(Links(b)) /\ \A s : IsFiniteSet(Sources(b, s))
<1>1. IsFiniteSet(Slots) /\ IsFiniteSet(Slots \X Slots)
  <2>1. IsFiniteSet(Slots)
    BY BridgeAssumption, FS_Interval DEF Slots
  <2> QED
    BY <2>1, FS_Product
<1>2. \A T \in SUBSET Slots : IsFiniteSet(T)
  BY <1>1, FS_Subset
<1>3. \A T \in SUBSET (Slots \X Slots) : IsFiniteSet(T)
  BY <1>1, FS_Subset
<1>4. \A b : Taken(b) \in SUBSET Slots /\ \A s : Sources(b, s) \in SUBSET Slots
  BY DEF Taken, Sources
<1>5. \A b : Links(b) \in SUBSET (Slots \X Slots)
  BY DEF Links
<1> QED
  BY <1>1, <1>2, <1>3, <1>4, <1>5

\* A slot has as many connections to it as it has sources, and as many from it as
\* it has listeners.
LEMMA LinksCounted ==
  ASSUME NEW X, X \subseteq Slots, NEW s
  PROVE  /\ Cardinality(LinksTo(X, s)) = Cardinality(X)
         /\ Cardinality(LinksFrom(X, s)) = Cardinality(X)
<1> DEFINE f == [r \in X |-> <<r, s>>]
           g == [r \in X |-> <<s, r>>]
<1>1. f \in Bijection(X, LinksTo(X, s))
  <2>1. f \in [X -> LinksTo(X, s)] /\ \A t \in LinksTo(X, s) : \E r \in X : f[r] = t
    BY DEF LinksTo
  <2>2. \A q, r \in X : f[q] = f[r] => q = r
    OBVIOUS
  <2> HIDE DEF f
  <2> QED
    BY <2>1, <2>2 DEF Bijection, Injection, Surjection, IsInjective
<1>2. g \in Bijection(X, LinksFrom(X, s))
  <2>1. g \in [X -> LinksFrom(X, s)] /\ \A t \in LinksFrom(X, s) : \E r \in X : g[r] = t
    BY DEF LinksFrom
  <2>2. \A q, r \in X : g[q] = g[r] => q = r
    OBVIOUS
  <2> HIDE DEF g
  <2> QED
    BY <2>1, <2>2 DEF Bijection, Injection, Surjection, IsInjective
<1>3. IsFiniteSet(X)
  BY SlotsFinite, FS_Subset
<1> HIDE DEF f, g
<1> QED
  BY <1>1, <1>2, <1>3, FS_Bijection DEF ExistsBijection

-----------------------------------------------------------------------------
(* The operations of the bridge *)

\* A bridge that is not full has a first free slot.
LEMMA FirstFreeSlot ==
  ASSUME NEW b, Slots \ Taken(b) # {}
  PROVE  /\ FreeSlot(b) \in Slots \ Taken(b)
         /\ \A t \in Slots \ Taken(b) : FreeSlot(b) <= t
<1> DEFINE T == Slots \ Taken(b)
           Upto == {0 .. s : s \in T}
<1>1. Upto \subseteq FiniteSubsetsOf(Nat)
  <2> SUFFICES ASSUME NEW s \in T PROVE 0 .. s \in FiniteSubsetsOf(Nat)
    OBVIOUS
  <2>1. s \in Nat
    BY BridgeAssumption DEF Slots
  <2>2. IsFiniteSet(0 .. s)
    BY <2>1, FS_Interval
  <2> QED
    BY <2>1, <2>2 DEF FiniteSubsetsOf
<1>2. PICK X \in Upto : \A Y \in Upto : <<Y, X>> \notin StrictSubsetOrdering(Nat)
  <2>1. IsWellFoundedOn(StrictSubsetOrdering(Nat), FiniteSubsetsOf(Nat))
    BY FS_StrictSubsetOrderingWellFounded
  <2>2. Upto # {}
    OBVIOUS
  <2> HIDE DEF Upto
  <2> QED
    BY <1>1, <2>1, <2>2, WFMin
<1>3. PICK s \in T : X = 0 .. s
  OBVIOUS
<1>4. \A j \in T : s <= j
  <2> SUFFICES ASSUME NEW j \in T, ~(s <= j) PROVE FALSE
    OBVIOUS
  <2>1. j \in Nat /\ s \in Nat /\ j < s
    BY BridgeAssumption DEF Slots
  <2>2. 0 .. j \subseteq 0 .. s /\ 0 .. j # 0 .. s
    BY <2>1
  <2>3. <<0 .. j, 0 .. s>> \in StrictSubsetOrdering(Nat)
    BY <2>1, <2>2 DEF StrictSubsetOrdering
  <2> QED
    BY <1>2, <1>3, <2>3
<1> QED
  BY <1>4 DEF FreeSlot

\* pjmedia_conf_add_port: a port more, in a slot that was empty, without listeners
\* or sources.
LEMMA AddedAgrees ==
  ASSUME NEW b, Agrees(b), NEW p \in MediaPorts, Slots \ Taken(b) # {}
  PROVE  /\ Agrees(Added(b, p))
         /\ FreeSlot(b) \in Slots \ Taken(b)
         /\ Added(b, p).ports = [b.ports EXCEPT ![FreeSlot(b)] = p]
         /\ Added(b, p).listeners = b.listeners
<1> DEFINE s == FreeSlot(b)
           a == Added(b, p)
<1>1. s \in Slots \ Taken(b)
  BY FirstFreeSlot
<1>2. /\ b.ports \in [Slots -> MediaPorts \cup {NoPort}] /\ b.listeners \in [Slots -> SUBSET Slots]
      /\ b.transmitters \in [Slots -> Nat] /\ b.count \in Nat /\ b.connects \in Nat
  BY BridgeAssumption DEF Agrees, BridgeRecord
<1>3. b.listeners[s] = {} /\ Sources(b, s) = {}
  BY <1>1, <1>2 DEF Agrees, Sources
<1> HIDE DEF s
<1>4. a = [ports |-> [b.ports EXCEPT ![s] = p], listeners |-> [b.listeners EXCEPT ![s] = {}],
           transmitters |-> [b.transmitters EXCEPT ![s] = 0], count |-> b.count + 1,
           connects |-> b.connects]
  BY DEF Added, s
<1> HIDE DEF a
<1>5. /\ a \in [ports: [Slots -> MediaPorts \cup {NoPort}], listeners: [Slots -> SUBSET Slots],
                  transmitters: [Slots -> Nat], count: Nat, connects: Nat]
      /\ a.ports = [b.ports EXCEPT ![s] = p] /\ a.listeners = b.listeners
      /\ a.count = b.count + 1 /\ a.connects = b.connects
  <2>1. [b.listeners EXCEPT ![s] = {}] = b.listeners
    BY <1>1, <1>2, <1>3
  <2> QED
    BY <1>1, <1>2, <1>4, <2>1
<1>6. Taken(a) = Taken(b) \cup {s}
  <2>1. p # NoPort
    BY Numbers
  <2>2. \A r \in Slots : a.ports[r] = IF r = s THEN p ELSE b.ports[r]
    BY <1>2, <1>5
  <2> QED
    BY <1>1, <2>1, <2>2 DEF Taken
<1>7. a.count = Cardinality(Taken(a)) /\ a.count <= MaxPorts
  <2>1. Cardinality(Taken(a)) = Cardinality(Taken(b)) + 1
    BY <1>1, <1>6, SlotsFinite, FS_AddElement
  <2>2. Cardinality(Taken(a)) <= Cardinality(Slots)
    BY SlotsFinite, FS_Subset DEF Taken
  <2>3. Cardinality(Slots) = MaxPorts
    BY BridgeAssumption, FS_Interval DEF Slots
  <2> QED
    BY <1>5, <2>1, <2>2, <2>3 DEF Agrees
<1>8. Links(a) = Links(b) /\ \A r \in Slots : Sources(a, r) = Sources(b, r)
  BY <1>5 DEF Links, Sources
<1>9. \A r \in Taken(a) : a.transmitters[r] = Cardinality(Sources(a, r))
  <2>1. Cardinality(Sources(a, s)) = 0
    BY <1>1, <1>3, <1>8, FS_EmptySet
  <2>2. \A r \in Slots : a.transmitters[r] = IF r = s THEN 0 ELSE b.transmitters[r]
    BY <1>2, <1>4
  <2> QED
    BY <1>1, <1>6, <1>8, <2>1, <2>2 DEF Agrees, Taken
<1>10. Agrees(a)
  BY <1>5, <1>6, <1>7, <1>8, <1>9 DEF Agrees, BridgeRecord
<1> QED
  BY <1>1, <1>5, <1>10 DEF s, a
\* pjmedia_conf_connect_port: both counters go up with the connection, and only
\* when it is a new one.
LEMMA ConnectedAgrees ==
  ASSUME NEW b, Agrees(b), NEW src \in Taken(b), NEW sink \in Taken(b)
  PROVE  /\ Agrees(Connected(b, src, sink))
         /\ Connected(b, src, sink).ports = b.ports
         /\ \A r \in Slots : Connected(b, src, sink).listeners[r] =
                             IF r = src THEN b.listeners[r] \cup {sink} ELSE b.listeners[r]
<1> DEFINE a == Connected(b, src, sink)
<1>1. CASE sink \in b.listeners[src]
  BY <1>1 DEF Connected
<1>2. CASE sink \notin b.listeners[src]
  <2>1. /\ b.ports \in [Slots -> MediaPorts \cup {NoPort}] /\ b.listeners \in [Slots -> SUBSET Slots]
        /\ b.transmitters \in [Slots -> Nat] /\ b.count \in 0 .. MaxPorts /\ b.connects \in Nat
    BY DEF Agrees, BridgeRecord
  <2>2. a = [ports |-> b.ports,
             listeners |-> [b.listeners EXCEPT ![src] = @ \cup {sink}],
             transmitters |-> [b.transmitters EXCEPT ![sink] = @ + 1],
             count |-> b.count, connects |-> b.connects + 1]
    BY <1>2 DEF Connected
  <2> HIDE DEF a
  <2>3. src \in Slots /\ sink \in Slots
    BY DEF Taken
  <2>4. /\ \A r \in Slots : a.listeners[r] = IF r = src THEN b.listeners[r] \cup {sink} ELSE b.listeners[r]
        /\ \A r \in Slots : a.transmitters[r] = IF r = sink THEN b.transmitters[r] + 1 ELSE b.transmitters[r]
        /\ a.ports = b.ports /\ a.count = b.count /\ a.connects = b.connects + 1
    BY <2>1, <2>2, <2>3
  <2>10. a \in BridgeRecord
    <3>1. [b.listeners EXCEPT ![src] = @ \cup {sink}] \in [Slots -> SUBSET Slots]
      BY <2>1, <2>3
    <3>2. [b.transmitters EXCEPT ![sink] = @ + 1] \in [Slots -> Nat]
      BY <2>1, <2>3
    <3> QED
      BY <2>1, <2>2, <3>1, <3>2 DEF BridgeRecord
  <2>5. Taken(a) = Taken(b)
    BY <2>4 DEF Taken
  <2>6. a.connects = Cardinality(Links(a))
    <3>1. Links(a) = Links(b) \cup {<<src, sink>>} /\ <<src, sink>> \notin Links(b)
      <4>1. \A p \in Slots \X Slots :
              p[2] \in a.listeners[p[1]] <=> p[2] \in b.listeners[p[1]] \/ p = <<src, sink>>
        <5> SUFFICES ASSUME NEW p \in Slots \X Slots
                     PROVE  p[2] \in a.listeners[p[1]] <=>
                              p[2] \in b.listeners[p[1]] \/ p = <<src, sink>>
          OBVIOUS
        <5>1. p[1] \in Slots /\ p[2] \in Slots /\ p = <<p[1], p[2]>>
          OBVIOUS
        <5>2. CASE p[1] = src
          <6>1. a.listeners[src] = b.listeners[src] \cup {sink}
            BY <2>3, <2>4
          <6> QED
            BY <5>1, <5>2, <6>1
        <5>3. CASE p[1] # src
          <6>1. a.listeners[p[1]] = b.listeners[p[1]]
            BY <2>4, <5>1, <5>3
          <6>2. p # <<src, sink>>
            BY <5>3
          <6> QED
            BY <6>1, <6>2
        <5> QED
          BY <5>2, <5>3
      <4> QED
        BY <1>2, <2>3, <4>1 DEF Links
    <3>2. Cardinality(Links(a)) = Cardinality(Links(b)) + 1
      BY <3>1, SlotsFinite, FS_AddElement
    <3> QED
      BY <2>4, <3>2 DEF Agrees
  <2>7. \A s \in Taken(a) : a.transmitters[s] = Cardinality(Sources(a, s))
    <3>1. Sources(a, sink) = Sources(b, sink) \cup {src} /\ src \notin Sources(b, sink)
      BY <1>2, <2>3, <2>4 DEF Sources
    <3>2. Cardinality(Sources(a, sink)) = Cardinality(Sources(b, sink)) + 1
      BY <3>1, SlotsFinite, FS_AddElement
    <3>3. \A s \in Slots \ {sink} : Sources(a, s) = Sources(b, s)
      BY <2>4 DEF Sources
    <3>4. \A s \in Taken(b) : b.transmitters[s] = Cardinality(Sources(b, s)) /\ s \in Slots
      BY DEF Agrees, Taken
    <3> QED
      BY <2>4, <2>5, <3>2, <3>3, <3>4
  <2>8. \A r, s \in Slots : s \in a.listeners[r] => r \in Taken(a) /\ s \in Taken(a)
    BY <2>4, <2>5 DEF Agrees
  <2>9. Agrees(a)
    BY <2>4, <2>5, <2>6, <2>7, <2>8, <2>10 DEF Agrees
  <2> QED
    BY <2>4, <2>9 DEF a
<1> QED
  BY <1>1, <1>2

\* pjmedia_conf_remove_port: a port leaves with every connection to and from it,
\* and the counters follow.
LEMMA RemovedAgrees ==
  ASSUME NEW b, Agrees(b), NEW s \in Slots
  PROVE  /\ Agrees(Removed(b, s))
         /\ Removed(b, s).ports = [b.ports EXCEPT ![s] = NoPort]
         /\ \A r \in Slots : Removed(b, s).listeners[r] = IF r = s THEN {} ELSE b.listeners[r] \ {s}
<1> DEFINE a == Removed(b, s)
<1>1. /\ b.ports \in [Slots -> MediaPorts \cup {NoPort}] /\ b.listeners \in [Slots -> SUBSET Slots]
      /\ b.transmitters \in [Slots -> Nat] /\ b.count \in 0 .. MaxPorts /\ b.connects \in Nat
  BY DEF Agrees, BridgeRecord
<1>2. CASE b.ports[s] = NoPort
  <2>1. a = b /\ s \notin Taken(b)
    BY <1>2 DEF Removed, Taken
  <2>2. b.listeners[s] = {} /\ \A r \in Slots : s \notin b.listeners[r]
    BY <1>1, <2>1 DEF Agrees
  <2>3. [b.ports EXCEPT ![s] = NoPort] = b.ports
    BY <1>1, <1>2
  <2> HIDE DEF a
  <2> QED
    BY <2>1, <2>2, <2>3 DEF a
<1>3. CASE b.ports[s] # NoPort
  <2> DEFINE u == Unheard(b, s)
             t == Silenced(u, s)
             X == Sources(b, s)
             Y == b.listeners[s] \ {s}
  <2>1. X \subseteq Taken(b) /\ X = {r \in Taken(b) : s \in b.listeners[r]}
    BY DEF Agrees, Sources, Taken
  <2>2. /\ u.ports = b.ports /\ u.transmitters = b.transmitters /\ u.count = b.count
        /\ u.connects = b.connects - Cardinality(X)
        /\ u.listeners = [r \in Slots |-> IF r \in X THEN b.listeners[r] \ {s} ELSE b.listeners[r]]
    BY <2>1 DEF Unheard
  <2> HIDE DEF u
  <2>3. /\ u.listeners \in [Slots -> SUBSET Slots]
        /\ \A r \in Slots : u.listeners[r] = b.listeners[r] \ {s}
    BY <1>1, <2>2 DEF Sources
  <2>4. /\ t.ports = b.ports /\ t.count = b.count
        /\ t.connects = b.connects - Cardinality(X) - Cardinality(Y)
        /\ t.listeners = [u.listeners EXCEPT ![s] = {}]
        /\ t.transmitters = [r \in Slots |-> IF r \in Y THEN b.transmitters[r] - 1 ELSE b.transmitters[r]]
    BY <2>2, <2>3 DEF Silenced
  <2> HIDE DEF t
  <2>5. a = Emptied(t, s)
    BY <1>3 DEF Removed, t, u
  <2> HIDE DEF a
  <2>6. /\ a = [ports |-> [b.ports EXCEPT ![s] = NoPort], listeners |-> [u.listeners EXCEPT ![s] = {}],
               transmitters |-> [r \in Slots |-> IF r \in Y THEN b.transmitters[r] - 1 ELSE b.transmitters[r]],
               count |-> b.count - 1, connects |-> b.connects - Cardinality(X) - Cardinality(Y)]
    BY <2>4, <2>5 DEF Emptied
  <2>7. /\ a.ports = [b.ports EXCEPT ![s] = NoPort]
        /\ a.listeners \in [Slots -> SUBSET Slots]
        /\ \A r \in Slots : a.listeners[r] = IF r = s THEN {} ELSE b.listeners[r] \ {s}
        /\ \A r \in Slots : a.transmitters[r] = IF r \in Y THEN b.transmitters[r] - 1 ELSE b.transmitters[r]
        /\ a.count = b.count - 1
        /\ a.connects = b.connects - Cardinality(X) - Cardinality(Y)
    BY <2>3, <2>6
  <2>17. ASSUME NEW q \in Slots, NEW r
         PROVE  r \in a.listeners[q] <=> r \in b.listeners[q] /\ q # s /\ r # s
    <3>1. CASE q = s
      BY <2>7, <3>1
    <3>2. CASE q # s
      <4>1. a.listeners[q] = b.listeners[q] \ {s}
        BY <2>7, <3>2
      <4> QED
        BY <3>2, <4>1
    <3> QED
      BY <3>1, <3>2
  <2>8. Taken(a) = Taken(b) \ {s} /\ s \in Taken(b)
    BY <1>1, <1>3, <2>7 DEF Taken
  <2>9. Cardinality(Taken(a)) = Cardinality(Taken(b)) - 1 /\ Cardinality(Taken(a)) \in Nat
    BY <2>8, SlotsFinite, FS_RemoveElement, FS_CardinalityType
  <2>10. a.connects = Cardinality(Links(a))
    <3> DEFINE in == LinksTo(X, s)
               out == LinksFrom(Y, s)
    <3>1. X \subseteq Slots /\ Y \subseteq Slots
      BY <1>1 DEF Sources
    <3>2. Cardinality(in) = Cardinality(X) /\ Cardinality(out) = Cardinality(Y)
      BY <3>1, LinksCounted
    <3>3. in \subseteq Links(b) /\ out \subseteq Links(b) \ in
      BY <1>1 DEF Links, Sources, LinksTo, LinksFrom
    <3>4. Links(a) = (Links(b) \ in) \ out
      <4>1. \A p \in Slots \X Slots :
              p[2] \in a.listeners[p[1]] <=> p[2] \in b.listeners[p[1]] /\ p \notin in /\ p \notin out
        <5> SUFFICES ASSUME NEW p \in Slots \X Slots
                     PROVE  p[2] \in a.listeners[p[1]] <=>
                              p[2] \in b.listeners[p[1]] /\ p \notin in /\ p \notin out
          OBVIOUS
        <5>1. p[1] \in Slots /\ p[2] \in Slots /\ p = <<p[1], p[2]>>
          OBVIOUS
        <5>2. p \in in <=> p[2] = s /\ s \in b.listeners[p[1]]
          BY <5>1 DEF LinksTo, Sources
        <5>3. p \in out <=> p[1] = s /\ p[2] \in b.listeners[s] /\ p[2] # s
          BY <5>1 DEF LinksFrom
        <5> HIDE DEF in, out
        <5> QED
          BY <2>17, <5>1, <5>2, <5>3
      <4> HIDE DEF in, out
      <4> QED
        BY <4>1 DEF Links
    <3> HIDE DEF in, out
    <3>5. Links(b) \cap in = in /\ (Links(b) \ in) \cap out = out
      BY <3>3
    <3>6. IsFiniteSet(Links(b)) /\ IsFiniteSet(Links(b) \ in)
      BY SlotsFinite, FS_Difference
    <3>7. Cardinality(Links(b) \ in) = Cardinality(Links(b)) - Cardinality(in)
      BY <3>5, <3>6, FS_Difference, SMTT(30), ZenonT(60)
    <3>8. Cardinality(Links(a)) = Cardinality(Links(b) \ in) - Cardinality(out)
      BY <3>4, <3>5, <3>6, FS_Difference
    <3> QED
      BY <2>7, <3>2, <3>7, <3>8 DEF Agrees
  <2>11. \A r \in Taken(a) : a.transmitters[r] = Cardinality(Sources(a, r)) /\ r \in Slots
    <3> SUFFICES ASSUME NEW r \in Taken(a)
                 PROVE  a.transmitters[r] = Cardinality(Sources(a, r)) /\ r \in Slots
      OBVIOUS
    <3>1. r \in Slots /\ r # s /\ b.transmitters[r] = Cardinality(Sources(b, r))
      BY <2>8 DEF Agrees, Taken
    <3>2. Sources(a, r) = Sources(b, r) \ {s}
      <4>1. \A q \in Slots : r \in a.listeners[q] <=> r \in b.listeners[q] /\ q # s
        BY <2>7, <3>1
      <4> QED
        BY <4>1 DEF Sources
    <3>3. Cardinality(Sources(a, r)) =
            IF s \in Sources(b, r) THEN Cardinality(Sources(b, r)) - 1 ELSE Cardinality(Sources(b, r))
      BY <3>2, SlotsFinite, FS_RemoveElement
    <3>4. s \in Sources(b, r) <=> r \in Y
      BY <3>1 DEF Sources
    <3> QED
      BY <2>7, <3>1, <3>3, <3>4
  <2>12. \A r \in Slots : a.transmitters[r] \in Nat
    <3> SUFFICES ASSUME NEW r \in Slots, r \in Y PROVE b.transmitters[r] - 1 \in Nat
      BY <1>1, <2>7
    <3>1. r \in Taken(a)
      BY <2>8 DEF Agrees
    <3>2. Cardinality(Sources(a, r)) \in Nat
      BY SlotsFinite, FS_CardinalityType
    <3> QED
      BY <2>7, <2>11, <3>1, <3>2
  <2>13. a.connects \in Nat
    BY <2>10, SlotsFinite, FS_CardinalityType
  <2>14. a \in BridgeRecord
    <3>1. a.count \in 0 .. MaxPorts
      <4>1. b.count = Cardinality(Taken(b))
        BY DEF Agrees
      <4> QED
        BY <1>1, <2>7, <2>9, <4>1, BridgeAssumption
    <3>2. a.transmitters \in [Slots -> Nat]
      BY <2>6, <2>12
    <3>3. a.ports \in [Slots -> MediaPorts \cup {NoPort}]
      BY <1>1, <2>7
    <3> QED
      BY <2>6, <2>7, <2>13, <3>1, <3>2, <3>3 DEF BridgeRecord
  <2>15. \A q, r \in Slots : r \in a.listeners[q] => q \in Taken(a) /\ r \in Taken(a)
    <3> SUFFICES ASSUME NEW q \in Slots, NEW r \in Slots, r \in a.listeners[q]
                 PROVE  q \in Taken(a) /\ r \in Taken(a)
      OBVIOUS
    <3>1. q # s /\ r # s /\ r \in b.listeners[q]
      BY <2>17
    <3> QED
      BY <2>8, <3>1 DEF Agrees
  <2>16. Agrees(a)
    BY <2>7, <2>9, <2>10, <2>11, <2>14, <2>15 DEF Agrees
  <2> QED
    BY <2>7, <2>16 DEF a
<1> QED
  BY <1>2, <1>3

-----------------------------------------------------------------------------
(* A call and its port *)

\* pjsua_aud_stop_stream: the port of the call is gone with all that led to it, and
\* nothing else is.
LEMMA StoppedBridge ==
  ASSUME Agrees(bridge), RestTyped, PortsAgree, LinksAgree, NEW c \in Calls
  PROVE  LET b == Stopped(bridge, c) IN
         /\ Agrees(b)
         /\ \A r \in Slots : b.ports[r] = IF bridge.ports[r] = c THEN NoPort ELSE bridge.ports[r]
         /\ \A r, q \in Slots :
              q \in b.listeners[r] <=>
                q \in bridge.listeners[r] /\ bridge.ports[q] # c /\ bridge.ports[r] # c
<1> DEFINE b == Stopped(bridge, c)
           s == slotOf[c]
<1>1. c # NoPort /\ c \notin Tones
  BY Numbers
<1>2. \A r \in Slots : bridge.ports[r] = c => r = s
  BY <1>1 DEF PortsAgree, Taken
<1>3. CASE s = NoSlot
  <2>1. b = bridge
    BY <1>3 DEF Stopped
  <2>2. \A r \in Slots : bridge.ports[r] # c
    BY <1>2, <1>3, Numbers
  <2> HIDE DEF b
  <2> QED
    BY <2>1, <2>2 DEF b
<1>4. CASE s # NoSlot
  <2>1. b = Removed(bridge, s) /\ bridge.ports[s] = c
    BY <1>4 DEF Stopped, PortsAgree
  <2>2. s \in Slots
    BY <1>4, Numbers DEF RestTyped
  <2>3. /\ Agrees(b)
        /\ b.ports = [bridge.ports EXCEPT ![s] = NoPort]
        /\ \A r \in Slots : b.listeners[r] = IF r = s THEN {} ELSE bridge.listeners[r] \ {s}
    BY <2>1, <2>2, RemovedAgrees, SMTT(30)
  <2>4. bridge.ports \in [Slots -> MediaPorts \cup {NoPort}]
    BY DEF Agrees, BridgeRecord
  <2> HIDE DEF b
  <2>5. \A r \in Slots : b.ports[r] = IF bridge.ports[r] = c THEN NoPort ELSE bridge.ports[r]
    BY <1>2, <2>1, <2>2, <2>3, <2>4
  <2>6. ASSUME NEW r \in Slots, NEW q \in Slots
        PROVE  q \in b.listeners[r] <=>
                 q \in bridge.listeners[r] /\ bridge.ports[q] # c /\ bridge.ports[r] # c
    <3>1. (bridge.ports[q] = c <=> q = s) /\ (bridge.ports[r] = c <=> r = s)
      BY <1>2, <2>1
    <3>2. CASE r = s
      <4>1. b.listeners[r] = {}
        BY <2>3, <3>2
      <4> QED
        BY <3>1, <3>2, <4>1
    <3>3. CASE r # s
      <4>1. b.listeners[r] = bridge.listeners[r] \ {s}
        BY <2>3, <3>3
      <4> QED
        BY <3>1, <3>3, <4>1
    <3> QED
      BY <3>2, <3>3
  <2> QED
    BY <2>3, <2>5, <2>6 DEF b
<1> QED
  BY <1>3, <1>4

\* A bridge without a port of call c has room for one, by the pigeonhole principle:
\* 20 calls, three tones and the device are fewer than its slots.
LEMMA RoomForCall ==
  ASSUME NEW b, Agrees(b), NEW c \in Calls,
         \A r \in Slots : b.ports[r] # c,
         \A q, r \in Taken(b) : b.ports[q] = b.ports[r] => q = r
  PROVE  ~Full(b) /\ Slots \ Taken(b) # {}
<1> DEFINE P == MediaPorts \ {c}
           f == [r \in Taken(b) |-> b.ports[r]]
<1>1. IsFiniteSet(P) /\ Cardinality(P) = MaxCalls + 3
  <2>1. IsFiniteSet(MediaPorts) /\ Cardinality(MediaPorts) = MaxCalls + 4
    BY BridgeAssumption, Numbers, FS_Interval
  <2>2. c \in MediaPorts
    BY Numbers
  <2> QED
    BY <2>1, <2>2, FS_RemoveElement, BridgeAssumption
<1>2. f \in [Taken(b) -> P]
  BY DEF Taken, Agrees, BridgeRecord
<1>3. \A q, r \in Taken(b) : f[q] = f[r] => q = r
  OBVIOUS
<1> HIDE DEF f, P
<1>4. ~(Cardinality(P) < Cardinality(Taken(b)))
  BY <1>1, <1>2, <1>3, SlotsFinite, FS_PigeonHole
<1>5. Cardinality(Taken(b)) < MaxPorts
  <2>1. Cardinality(Taken(b)) \in Nat
    BY SlotsFinite, FS_CardinalityType
  <2> QED
    BY <1>1, <1>4, <2>1, BridgeAssumption
<1>6. Cardinality(Slots) = MaxPorts
  BY BridgeAssumption, FS_Interval DEF Slots
<1>7. Taken(b) \subseteq Slots
  BY DEF Taken
<1>8. Slots \ Taken(b) # {}
  <2> SUFFICES ASSUME Taken(b) = Slots PROVE FALSE
    BY <1>7
  <2> QED
    BY <1>5, <1>6, BridgeAssumption
<1>9. ~Full(b)
  <2>1. b.count = Cardinality(Taken(b)) /\ Cardinality(Taken(b)) \in Nat
    BY SlotsFinite, FS_CardinalityType DEF Agrees
  <2> QED
    BY <1>5, <2>1, BridgeAssumption DEF Full
<1> QED
  BY <1>8, <1>9

\* A call without media is sent nothing, and no link leads to it.
LEMMA LinkedIsActive ==
  ASSUME RestTyped, PortsAgree, LinksAgree, MediaAgree, Agrees(bridge),
         NEW r \in Slots, NEW q \in Slots, q \in bridge.listeners[r]
  PROVE  LET c == bridge.ports[q] IN c \in Calls /\ slotOf[c] = q /\ media[c] # "none" /\ Active(call, c)
<1>1. bridge.ports[q] \in Calls /\ q \in Taken(bridge) /\ q # NoSlot
  BY Numbers DEF LinksAgree, Agrees
<1> QED
  BY <1>1 DEF PortsAgree, MediaAgree

\* Without connections connect_cnt is 0, and the other way round.
LEMMA NoLinks ==
  ASSUME NEW b, Agrees(b)
  PROVE  b.connects = 0 <=> Links(b) = {}
BY SlotsFinite, FS_EmptySet DEF Agrees

-----------------------------------------------------------------------------
(* Each step keeps the invariant *)

\* A call whose media stop takes nothing from the others.
LEMMA StopMediaKeeps ==
  ASSUME BridgeInv, NEW c \in Calls, StopMedia(c)
  PROVE  /\ Agrees(bridge')
         /\ alive' \subseteq MediaPorts /\ slotOf' \in [MediaPorts -> Slots \cup {NoSlot}]
         /\ media' \in [Calls -> {"none", "hold", "active"}]
         /\ media'[c] = "none" /\ slotOf'[c] = NoSlot
         /\ \A p \in MediaPorts \ {c} : slotOf'[p] = slotOf[p]
         /\ \A d \in Calls \ {c} : media'[d] = media[d]
         /\ \A r \in Slots : bridge'.ports[r] = IF bridge.ports[r] = c THEN NoPort ELSE bridge.ports[r]
         /\ \A r, q \in Slots :
              q \in bridge'.listeners[r] <=>
                q \in bridge.listeners[r] /\ bridge.ports[q] # c /\ bridge.ports[r] # c
         /\ Links(bridge') \subseteq Links(bridge)
         /\ \A s \in Taken(bridge') : slotOf'[bridge'.ports[s]] = s /\ bridge'.ports[s] \in alive'
         /\ \A d \in Calls : slotOf'[d] # NoSlot => bridge'.ports[slotOf'[d]] = d
         /\ \A t \in Tones : ToneHere(t) <=> bridge'.ports[slotOf[t]] = t
         /\ \A r, s \in Slots : s \in bridge'.listeners[r] =>
              bridge'.ports[s] \in Calls /\ r = slotOf[mode[bridge'.ports[s]]]
<1>1. /\ Agrees(bridge')
      /\ \A r \in Slots : bridge'.ports[r] = IF bridge.ports[r] = c THEN NoPort ELSE bridge.ports[r]
      /\ \A r, q \in Slots :
           q \in bridge'.listeners[r] <=>
             q \in bridge.listeners[r] /\ bridge.ports[q] # c /\ bridge.ports[r] # c
  <2>1. bridge' = Stopped(bridge, c)
    BY DEF StopMedia
  <2> QED
    BY <2>1, StoppedBridge DEF BridgeInv
<1>2. c \in MediaPorts /\ c \notin Tones /\ c # NoPort /\ NoPort \notin MediaPorts
  BY Numbers
<1>3. /\ alive' = alive \ {c} /\ alive' \subseteq MediaPorts
      /\ slotOf' \in [MediaPorts -> Slots \cup {NoSlot}] /\ slotOf'[c] = NoSlot
      /\ \A p \in MediaPorts \ {c} : slotOf'[p] = slotOf[p]
      /\ media' \in [Calls -> {"none", "hold", "active"}] /\ media'[c] = "none"
      /\ \A d \in Calls \ {c} : media'[d] = media[d]
  BY <1>2 DEF StopMedia, BridgeInv, RestTyped
<1>4. Links(bridge') \subseteq Links(bridge)
  BY <1>1 DEF Links
<1>5. \A r \in Slots : bridge.ports[r] \in MediaPorts \cup {NoPort}
  BY DEF BridgeInv, Agrees, BridgeRecord
<1>6. ASSUME NEW s \in Taken(bridge')
      PROVE  slotOf'[bridge'.ports[s]] = s /\ bridge'.ports[s] \in alive'
  <2>1. s \in Slots /\ bridge.ports[s] # c /\ bridge'.ports[s] = bridge.ports[s] /\ s \in Taken(bridge)
    BY <1>1 DEF Taken
  <2>2. slotOf[bridge.ports[s]] = s /\ bridge.ports[s] \in alive
    BY <2>1 DEF BridgeInv, PortsAgree
  <2>3. bridge.ports[s] \in MediaPorts
    BY <1>5, <2>1 DEF Taken
  <2> QED
    BY <1>3, <2>1, <2>2, <2>3
<1>7. ASSUME NEW d \in Calls, slotOf'[d] # NoSlot
      PROVE  bridge'.ports[slotOf'[d]] = d
  <2>1. d # c /\ d \in MediaPorts /\ slotOf'[d] = slotOf[d] /\ slotOf[d] \in Slots
    BY <1>3, <1>7, Numbers DEF BridgeInv, RestTyped
  <2>2. bridge.ports[slotOf[d]] = d
    BY <1>7, <2>1 DEF BridgeInv, PortsAgree
  <2> QED
    BY <1>1, <2>1, <2>2
<1>8. ASSUME NEW t \in Tones
      PROVE  ToneHere(t) <=> bridge'.ports[slotOf[t]] = t
  <2>1. t # c /\ t \in MediaPorts
    BY <1>2, Numbers
  <2>2. slotOf[t] \in Slots /\ (ToneHere(t) <=> bridge.ports[slotOf[t]] = t)
    BY ToneSlots DEF BridgeInv, PortsAgree
  <2>3. t # NoPort
    BY <1>2, <2>1
  <2> QED
    BY <1>1, <2>1, <2>2, <2>3
<1>9. ASSUME NEW r \in Slots, NEW s \in Slots, s \in bridge'.listeners[r]
      PROVE  bridge'.ports[s] \in Calls /\ r = slotOf[mode[bridge'.ports[s]]]
  <2>1. s \in bridge.listeners[r] /\ bridge.ports[s] # c
    BY <1>1, <1>9
  <2>2. bridge.ports[s] \in Calls /\ r = slotOf[mode[bridge.ports[s]]]
    BY <2>1 DEF BridgeInv, LinksAgree
  <2> QED
    BY <1>1, <2>1, <2>2
<1> QED
  BY <1>1, <1>3, <1>4, <1>6, <1>7, <1>8, <1>9

\* A call that ends, on either thread: the worker is not connecting it, or has just
\* been refused.  The idle timer is armed only when no connection is left, and never
\* while the worker is about to make one.
LEMMA EndKeeps ==
  ASSUME BridgeInv, NEW c \in Calls, NEW s \in {"free", "hanging"}, End(c, s),
         UNCHANGED <<cur, crashed>>,
         (pc' = pc /\ (pc # "idle" => cur # c)) \/ (pc' = "idle" /\ cur = c),
         main' \in {"run", "hangup", "remove", "destroy", "release", "stop", "stopped"},
         at' \in Calls \cup Tones, MainAgrees',
         \A t \in Tones : ToneHere(t)' <=> ToneHere(t)
  PROVE  BridgeInv'
<1>1. StopMedia(c) /\ call' = [call EXCEPT ![c] = s] /\ mode' = mode /\ device' = device
  BY DEF End
<1> USE StopMediaKeeps, <1>1
<1>2. call' \in [Calls -> {"free", "ringing", "up", "hanging"}] /\ \A d \in Calls \ {c} : call'[d] = call[d]
  BY DEF BridgeInv, RestTyped
<1>3. RestTyped'
  <2>1. {device, idle, pending}' \subseteq BOOLEAN
    BY DEF End, CheckIdle, BridgeInv, RestTyped
  <2> QED
    BY <1>2, <2>1 DEF BridgeInv, RestTyped
<1>9. \A t \in Tones : slotOf'[t] = slotOf[t]
  BY Numbers
<1>4. PortsAgree'
  BY <1>9 DEF BridgeInv, PortsAgree
<1>5. LinksAgree'
  BY <1>9 DEF BridgeInv, RestTyped, LinksAgree
<1>6. MediaAgree'
  <2>1. \A d \in Calls : media'[d] = "none" <=> slotOf'[d] = NoSlot
    BY Numbers DEF BridgeInv, MediaAgree
  <2>2. \A d \in Calls : media'[d] # "none" => Active(call', d)
    BY <1>2 DEF BridgeInv, MediaAgree, Active
  <2>3. ASSUME NEW d \in Calls, media'[d] = "active" /\ (pc' = "idle" \/ cur' # d), ToneHere(mode[d])'
        PROVE  slotOf'[d] \in bridge'.listeners[slotOf'[mode'[d]]]
    <3>1. d # c /\ media[d] = "active" /\ (pc = "idle" \/ cur # d)
      BY <2>3
    <3>2. mode[d] \in Tones /\ ToneHere(mode[d]) /\ slotOf'[mode[d]] = slotOf[mode[d]]
      BY <1>9, <2>3, <1>1 DEF BridgeInv, RestTyped, ToneHere
    <3>3. slotOf[d] \in bridge.listeners[slotOf[mode[d]]] /\ slotOf[d] # NoSlot
      BY <3>1, <3>2 DEF BridgeInv, MediaAgree
    <3>4. /\ d \in MediaPorts \ {c} /\ mode[d] # c
          /\ slotOf[d] \in Slots /\ bridge.ports[slotOf[d]] = d
          /\ slotOf[mode[d]] \in Slots /\ bridge.ports[slotOf[mode[d]]] = mode[d]
      BY <3>1, <3>2, <3>3, Numbers, ToneSlots DEF BridgeInv, RestTyped, PortsAgree
    <3> QED
      BY <3>1, <3>2, <3>3, <3>4
  <2>4. pc' # "idle" => media'[cur'] = "active"
    BY DEF BridgeInv, MediaAgree, RestTyped
  <2> QED
    BY <2>1, <2>2, <2>3, <2>4 DEF MediaAgree, Active, ToneHere
<1>7. DeviceAgrees'
  <2>1. pc' # "idle" => Active(call', cur)
    BY <1>2 DEF BridgeInv, RestTyped, MediaAgree, Active
  <2>2. idle' = idle \/ (NoActiveCall(call') /\ bridge'.connects = 0)
    BY DEF End, CheckIdle
  <2>3. NoActiveCall(call') => pc' = "idle"
    BY <2>1 DEF NoActiveCall, Using, Active, BridgeInv, RestTyped
  <2>4. bridge'.connects = 0 => Links(bridge') = {}
    BY NoLinks
  <2>5. Links(bridge') # {} => Links(bridge) # {}
    OBVIOUS
  <2> QED
    BY <2>2, <2>3, <2>4, <2>5 DEF BridgeInv, DeviceAgrees
<1> QED
  BY <1>3, <1>4, <1>5, <1>6, <1>7 DEF BridgeInv

\* What most steps leave alone, and what follows for them.
LEMMA SameThreads ==
  ASSUME BridgeInv, UNCHANGED mainVars
  PROVE  /\ main' \in {"run", "hangup", "remove", "destroy", "release", "stop", "stopped"}
         /\ at' \in Calls \cup Tones /\ MainAgrees'
         /\ \A t \in Tones : ToneHere(t)' <=> ToneHere(t)
BY DEF BridgeInv, RestTyped, MainAgrees, mainVars, ToneHere

\* A step that leaves the bridge and the calls alone has only the device to answer
\* for, and the tones it destroys.
LEMMA OtherStep ==
  ASSUME BridgeInv, UNCHANGED <<bridge, slotOf, callVars, cur>>,
         alive' \subseteq MediaPorts, \A s \in Taken(bridge) : bridge.ports[s] \in alive',
         {device, idle, pending}' \subseteq BOOLEAN, DeviceAgrees',
         pc' \in {"idle", "choose", "open", "link", "refused"}, pc' = "idle" <=> pc = "idle",
         main' \in {"run", "hangup", "remove", "destroy", "release", "stop", "stopped"},
         MainAgrees', \A t \in Tones : ToneHere(t)' <=> ToneHere(t),
         crashed' \in {"no", "player", "freed"}
  PROVE  BridgeInv'
<1>1. UNCHANGED <<bridge, slotOf, call, mode, media, cur>>
  BY DEF callVars
<1>2. RestTyped'
  <2>1. at' \in Calls \cup Tones
    BY DEF MainAgrees
  <2> QED
    BY <1>1, <2>1 DEF BridgeInv, RestTyped
<1>3. PortsAgree'
  BY <1>1 DEF BridgeInv, PortsAgree, Taken
<1>4. LinksAgree'
  BY <1>1 DEF BridgeInv, LinksAgree
<1>5. MediaAgree'
  <2>1. \A c \in Calls : ToneHere(mode[c])' <=> ToneHere(mode[c])
    BY <1>1 DEF BridgeInv, RestTyped, ToneHere
  <2> QED
    BY <1>1, <2>1 DEF BridgeInv, MediaAgree, Active, ToneHere
<1> QED
  BY <1>1, <1>2, <1>3, <1>4, <1>5 DEF BridgeInv

\* Every port of the bridge exists.
LEMMA PortsExist ==
  ASSUME BridgeInv
  PROVE  alive \subseteq MediaPorts /\ \A s \in Taken(bridge) : bridge.ports[s] \in alive
BY DEF BridgeInv, RestTyped, PortsAgree

\* Calls that end on the worker.
LEMMA WorkerEnds ==
  ASSUME BridgeInv, NEW c \in Calls, Disconnect(c) \/ Timeout(c) \/ ByeDone(c)
  PROVE  BridgeInv'
<1>1. /\ pc = "idle" /\ UNCHANGED <<pc, cur, mainVars, crashed>>
      /\ End(c, "free") \/ End(c, "hanging")
  BY DEF Disconnect, Timeout, ByeDone, Hangup, Serving, Idle
<1>2. PICK s \in {"free", "hanging"} : End(c, s)
  BY <1>1
<1>3. (pc' = pc /\ (pc # "idle" => cur # c)) \/ (pc' = "idle" /\ cur = c)
  BY <1>1
<1>4. UNCHANGED <<cur, crashed>> /\ UNCHANGED mainVars
  BY <1>1
<1> QED
  BY <1>2, <1>3, <1>4, SameThreads, EndKeeps

\* The tone could not be connected.
LEMMA RefusedKeeps == BridgeInv /\ Refused => BridgeInv'
<1> SUFFICES ASSUME BridgeInv, Refused PROVE BridgeInv'
  OBVIOUS
<1>1. /\ pc' = "idle" /\ UNCHANGED <<cur, crashed>> /\ UNCHANGED mainVars /\ cur \in Calls
      /\ End(cur, "free") \/ End(cur, "hanging")
  BY DEF Refused, Hangup, BridgeInv, RestTyped
<1>2. PICK s \in {"free", "hanging"} : End(cur, s)
  BY <1>1
<1> QED
  BY <1>1, <1>2, SameThreads, EndKeeps

\* pjsua_call_hangup_all, one call, which it may miss.
LEMMA HangupNextKeeps == BridgeInv /\ HangupNext => BridgeInv'
<1> SUFFICES ASSUME BridgeInv, HangupNext PROVE BridgeInv'
  OBVIOUS
<1>1. at \in Calls /\ main = "hangup" /\ UNCHANGED <<pc, cur, crashed>>
  BY DEF HangupNext, BridgeInv, MainAgrees
<1>2. /\ main' \in {"remove", "hangup"} /\ at' \in Calls \cup Tones
      /\ main' = "hangup" => at' \in Calls
      /\ main' = "remove" => at' = RINGBACK
  BY <1>1, BridgeAssumption DEF HangupNext, Calls, Tones
<1>3. \A t \in Tones : ToneHere(t)' <=> ToneHere(t)
  BY <1>1, <1>2, BridgeAssumption DEF ToneHere, Tones, RINGBACK, DIAL, WAV
<1>4. MainAgrees'
  BY <1>2 DEF MainAgrees, Tones
<1>5. CASE Acquired(at) /\ Hangup(at)
  <2>1. PICK s \in {"free", "hanging"} : End(at, s)
    BY <1>5 DEF Hangup
  <2>2. (pc' = pc /\ (pc # "idle" => cur # at)) \/ (pc' = "idle" /\ cur = at)
    BY <1>1, <1>5 DEF Acquired
  <2> QED
    BY <1>1, <1>2, <1>3, <1>4, <2>1, <2>2, EndKeeps
<1>6. CASE UNCHANGED <<bridge, alive, slotOf, callVars, deviceVars>>
  <2>1. DeviceAgrees' /\ {device, idle, pending}' \subseteq BOOLEAN
    BY <1>1, <1>6 DEF BridgeInv, RestTyped, DeviceAgrees, deviceVars
  <2>2. pc' \in {"idle", "choose", "open", "link", "refused"} /\ crashed' \in {"no", "player", "freed"}
    BY <1>1 DEF BridgeInv, RestTyped
  <2> QED
    BY <1>1, <1>2, <1>3, <1>4, <1>6, <2>1, <2>2, OtherStep, PortsExist
<1> QED
  BY <1>5, <1>6 DEF HangupNext

\* A new call has neither port nor connection, so its number may have any tone.
LEMMA ArriveKeeps ==
  ASSUME BridgeInv, NEW c \in Calls, NEW t \in Tones, Arrive(c, t)
  PROVE  BridgeInv'
<1>1. /\ call[c] = "free" /\ pc = "idle"
      /\ call' = [call EXCEPT ![c] = "ringing"] /\ mode' = [mode EXCEPT ![c] = t]
      /\ UNCHANGED <<bridge, alive, slotOf, media, deviceVars, pc, cur, mainVars, crashed>>
  BY DEF Arrive, Serving, Idle
<1>2. media[c] = "none" /\ slotOf[c] = NoSlot
  BY <1>1 DEF BridgeInv, MediaAgree, Active
<1>3. /\ \A d \in Calls \ {c} : call'[d] = call[d] /\ mode'[d] = mode[d]
      /\ RestTyped'
  BY <1>1 DEF BridgeInv, RestTyped, deviceVars, mainVars
<1>4. PortsAgree' /\ MainAgrees' /\ DeviceAgrees'
  BY <1>1 DEF BridgeInv, PortsAgree, MainAgrees, DeviceAgrees, ToneHere, Taken, deviceVars, mainVars
<1>5. LinksAgree'
  <2> SUFFICES ASSUME NEW r \in Slots, NEW q \in Slots, q \in bridge.listeners[r]
               PROVE  bridge.ports[q] \in Calls /\ r = slotOf[mode'[bridge.ports[q]]]
    BY <1>1 DEF LinksAgree
  <2>1. bridge.ports[q] \in Calls /\ media[bridge.ports[q]] # "none" /\ r = slotOf[mode[bridge.ports[q]]]
    BY LinkedIsActive DEF BridgeInv, LinksAgree
  <2> QED
    BY <1>2, <1>3, <2>1
<1>6. MediaAgree'
  BY <1>1, <1>2, <1>3 DEF BridgeInv, MediaAgree, ToneHere, mainVars, Active
<1> QED
  BY <1>1, <1>3, <1>4, <1>5, <1>6 DEF BridgeInv

\* A stream that starts anew: its port is in a slot of its own, perhaps another one,
\* and nobody is connected to it yet.
LEMMA RestartedKeeps ==
  ASSUME BridgeInv, NEW c \in Calls, NEW m \in {"hold", "active"}, Restarted(c, m)
  PROVE  /\ Agrees(bridge') /\ crashed' = crashed
         /\ alive' \subseteq MediaPorts /\ slotOf' \in [MediaPorts -> Slots \cup {NoSlot}]
         /\ media' \in [Calls -> {"none", "hold", "active"}]
         /\ media'[c] = m /\ slotOf'[c] \in Slots
         /\ \A p \in MediaPorts \ {c} : slotOf'[p] = slotOf[p]
         /\ \A d \in Calls \ {c} : media'[d] = media[d]
         /\ \A r, q \in Slots :
              q \in bridge'.listeners[r] <=>
                q \in bridge.listeners[r] /\ bridge.ports[q] # c /\ bridge.ports[r] # c
         /\ \A s \in Taken(bridge') : slotOf'[bridge'.ports[s]] = s /\ bridge'.ports[s] \in alive'
         /\ \A d \in Calls : slotOf'[d] # NoSlot => bridge'.ports[slotOf'[d]] = d
         /\ \A t \in Tones : ToneHere(t) <=> bridge'.ports[slotOf[t]] = t
         /\ \A r, s \in Slots : s \in bridge'.listeners[r] =>
              bridge'.ports[s] \in Calls /\ r = slotOf[mode[bridge'.ports[s]]]
<1> DEFINE b == Stopped(bridge, c)
           f == FreeSlot(b)
<1>1. /\ Agrees(b)
      /\ \A r \in Slots : b.ports[r] = IF bridge.ports[r] = c THEN NoPort ELSE bridge.ports[r]
      /\ \A r, q \in Slots :
           q \in b.listeners[r] <=>
             q \in bridge.listeners[r] /\ bridge.ports[q] # c /\ bridge.ports[r] # c
  BY StoppedBridge DEF BridgeInv
<1>2. /\ alive' = alive \cup {c} /\ slotOf' = [slotOf EXCEPT ![c] = f]
      /\ media' = [media EXCEPT ![c] = m]
      /\ IF Full(b) THEN crashed' = "full" /\ bridge' = b
                    ELSE bridge' = Added(b, c) /\ UNCHANGED crashed
  BY DEF Restarted
<1> HIDE DEF b
<1>3. c \in MediaPorts /\ c \notin Tones /\ c # NoPort /\ NoPort \notin MediaPorts /\ NoSlot \notin Slots
  BY Numbers
<1>4. /\ \A r \in Slots : b.ports[r] # c
      /\ \A r \in Taken(b) : r \in Taken(bridge) /\ b.ports[r] = bridge.ports[r]
  BY <1>1, <1>3 DEF Taken
<1>5. \A q, r \in Taken(b) : b.ports[q] = b.ports[r] => q = r
  BY <1>4 DEF BridgeInv, PortsAgree
<1>6. ~Full(b) /\ Slots \ Taken(b) # {}
  BY <1>1, <1>4, <1>5, RoomForCall
<1>7. /\ Agrees(bridge') /\ f \in Slots \ Taken(b)
      /\ bridge'.ports = [b.ports EXCEPT ![f] = c] /\ bridge'.listeners = b.listeners
      /\ crashed' = crashed
  BY <1>1, <1>2, <1>3, <1>6, AddedAgrees
<1> HIDE DEF f
<1>8. b.ports \in [Slots -> MediaPorts \cup {NoPort}] /\ b.ports[f] = NoPort
  BY <1>1, <1>7 DEF Agrees, BridgeRecord, Taken
<1>9. \A r \in Slots : bridge'.ports[r] = IF r = f THEN c ELSE b.ports[r]
  BY <1>7, <1>8
<1>10. /\ alive' \subseteq MediaPorts
       /\ slotOf' \in [MediaPorts -> Slots \cup {NoSlot}] /\ slotOf'[c] = f
       /\ \A p \in MediaPorts \ {c} : slotOf'[p] = slotOf[p]
       /\ media' \in [Calls -> {"none", "hold", "active"}] /\ media'[c] = m
       /\ \A d \in Calls \ {c} : media'[d] = media[d]
  BY <1>2, <1>3, <1>7 DEF BridgeInv, RestTyped
<1>11. ASSUME NEW s \in Taken(bridge')
       PROVE  slotOf'[bridge'.ports[s]] = s /\ bridge'.ports[s] \in alive'
  <2>1. CASE s = f
    BY <1>2, <1>7, <1>9, <1>10, <2>1
  <2>2. CASE s # f
    <3>1. s \in Slots /\ bridge'.ports[s] = b.ports[s] /\ s \in Taken(b)
      BY <1>9, <2>2 DEF Taken
    <3>2. s \in Taken(bridge) /\ b.ports[s] = bridge.ports[s] /\ b.ports[s] \in MediaPorts \ {c}
      BY <1>4, <1>8, <3>1 DEF Taken
    <3>3. slotOf[bridge.ports[s]] = s /\ bridge.ports[s] \in alive
      BY <3>2 DEF BridgeInv, PortsAgree
    <3> QED
      BY <1>2, <1>10, <3>1, <3>2, <3>3
  <2> QED
    BY <2>1, <2>2
<1>12. ASSUME NEW d \in Calls, slotOf'[d] # NoSlot
       PROVE  bridge'.ports[slotOf'[d]] = d
  <2>1. CASE d = c
    BY <1>7, <1>9, <1>10, <2>1
  <2>2. CASE d # c
    <3>1. d \in MediaPorts /\ d # NoPort /\ slotOf'[d] = slotOf[d] /\ slotOf[d] \in Slots
      BY <1>10, <1>12, <2>2, Numbers, SMTT(30) DEF BridgeInv, RestTyped
    <3>2. bridge.ports[slotOf[d]] = d
      BY <1>12, <3>1 DEF BridgeInv, PortsAgree
    <3>3. b.ports[slotOf[d]] = d
      BY <1>1, <2>2, <3>1, <3>2
    <3> QED
      BY <1>8, <1>9, <3>1, <3>3
  <2> QED
    BY <2>1, <2>2
<1>13. ASSUME NEW t \in Tones
       PROVE  ToneHere(t) <=> bridge'.ports[slotOf[t]] = t
  <2>1. t # c /\ t \in MediaPorts /\ t # NoPort
    BY <1>3, Numbers
  <2>2. slotOf[t] \in Slots /\ (ToneHere(t) <=> bridge.ports[slotOf[t]] = t)
    BY ToneSlots DEF BridgeInv, PortsAgree
  <2>3. b.ports[slotOf[t]] = t <=> bridge.ports[slotOf[t]] = t
    BY <1>1, <2>1, <2>2
  <2> QED
    BY <1>8, <1>9, <2>1, <2>2, <2>3
<1>14. ASSUME NEW r \in Slots, NEW s \in Slots, s \in bridge'.listeners[r]
       PROVE  bridge'.ports[s] \in Calls /\ r = slotOf[mode[bridge'.ports[s]]]
  <2>1. s \in bridge.listeners[r] /\ bridge.ports[s] # c
    BY <1>1, <1>7, <1>14
  <2>2. bridge.ports[s] \in Calls /\ r = slotOf[mode[bridge.ports[s]]]
    BY <2>1 DEF BridgeInv, LinksAgree
  <2>3. b.ports[s] = bridge.ports[s]
    BY <1>1, <2>1
  <2>4. s # f
    BY <1>8, <2>2, <2>3, Numbers
  <2> QED
    BY <1>9, <2>2, <2>3, <2>4
<1> QED
  BY <1>1, <1>7, <1>10, <1>11, <1>12, <1>13, <1>14

\* What a media update leaves, whatever becomes of the stream: the other calls keep
\* their ports and connections.
LEMMA MediaChanged ==
  ASSUME BridgeInv, NEW c \in Calls,
         Kept(c) \/ (\E m \in {"hold", "active"} : Restarted(c, m)) \/ Gone(c) \/ NotYet(c)
  PROVE  /\ Agrees(bridge') /\ crashed' = crashed
         /\ alive' \subseteq MediaPorts /\ slotOf' \in [MediaPorts -> Slots \cup {NoSlot}]
         /\ media' \in [Calls -> {"none", "hold", "active"}]
         /\ media'[c] = "none" <=> slotOf'[c] = NoSlot
         /\ \A p \in MediaPorts \ {c} : slotOf'[p] = slotOf[p]
         /\ \A d \in Calls \ {c} : media'[d] = media[d]
         /\ \A r, q \in Slots : q \in bridge'.listeners[r] => q \in bridge.listeners[r]
         /\ \A r, q \in Slots :
              q \in bridge.listeners[r] /\ bridge.ports[q] # c /\ bridge.ports[r] # c =>
                q \in bridge'.listeners[r]
         /\ \A s \in Taken(bridge') : slotOf'[bridge'.ports[s]] = s /\ bridge'.ports[s] \in alive'
         /\ \A d \in Calls : slotOf'[d] # NoSlot => bridge'.ports[slotOf'[d]] = d
         /\ \A t \in Tones : ToneHere(t) <=> bridge'.ports[slotOf[t]] = t
         /\ \A r, s \in Slots : s \in bridge'.listeners[r] =>
              bridge'.ports[s] \in Calls /\ r = slotOf[mode[bridge'.ports[s]]]
<1>1. CASE Kept(c) \/ NotYet(c)
  <2>1. UNCHANGED <<bridge, alive, slotOf, media, crashed>>
    BY <1>1 DEF Kept, NotYet
  <2>2. /\ Agrees(bridge) /\ alive \subseteq MediaPorts
        /\ slotOf \in [MediaPorts -> Slots \cup {NoSlot}] /\ media \in [Calls -> {"none", "hold", "active"}]
        /\ \A d \in Calls : media[d] = "none" <=> slotOf[d] = NoSlot
    BY DEF BridgeInv, RestTyped, MediaAgree
  <2>3. /\ \A s \in Taken(bridge) : slotOf[bridge.ports[s]] = s /\ bridge.ports[s] \in alive
        /\ \A d \in Calls : slotOf[d] # NoSlot => bridge.ports[slotOf[d]] = d
        /\ \A t \in Tones : ToneHere(t) <=> bridge.ports[slotOf[t]] = t
        /\ \A r, s \in Slots : s \in bridge.listeners[r] =>
             bridge.ports[s] \in Calls /\ r = slotOf[mode[bridge.ports[s]]]
    BY DEF BridgeInv, PortsAgree, LinksAgree
  <2> QED
    BY <2>1, <2>2, <2>3
<1>2. CASE Gone(c)
  <2>1. StopMedia(c) /\ crashed' = crashed
    BY <1>2 DEF Gone
  <2> QED
    BY <2>1, StopMediaKeeps
<1>3. ASSUME NEW m \in {"hold", "active"}, Restarted(c, m)
      PROVE  (media'[c] = "none" <=> slotOf'[c] = NoSlot)
  BY <1>3, RestartedKeeps, Numbers
<1>4. CASE \E m \in {"hold", "active"} : Restarted(c, m)
  BY <1>3, <1>4, RestartedKeeps
<1> QED
  BY <1>1, <1>2, <1>4

\* A media update: the call is up, or the worker goes on to connect it.
LEMMA MediaUpdateKeeps ==
  ASSUME BridgeInv, NEW c \in Calls, MediaUpdate(c)
  PROVE  BridgeInv'
<1>1. /\ pc = "idle" /\ Active(call, c)
      /\ Kept(c) \/ (\E m \in {"hold", "active"} : Restarted(c, m)) \/ Gone(c) \/ NotYet(c)
      /\ IF media'[c] = "active"
         THEN pc' = "choose" /\ cur' = c /\ UNCHANGED call
         ELSE call' = [call EXCEPT ![c] = "up"] /\ UNCHANGED <<pc, cur>>
      /\ UNCHANGED <<mode, deviceVars, mainVars>>
  BY DEF MediaUpdate, Serving, Idle
<1> USE MediaChanged, <1>1
<1>2. /\ call' \in [Calls -> {"free", "ringing", "up", "hanging"}]
      /\ \A d \in Calls : Active(call', d) <=> Active(call, d)
  BY DEF BridgeInv, RestTyped, Active
<1>3. RestTyped'
  BY <1>2 DEF BridgeInv, RestTyped, deviceVars, mainVars
<1>8. \A t \in Tones : slotOf'[t] = slotOf[t] /\ (ToneHere(t)' <=> ToneHere(t))
  BY Numbers DEF ToneHere, mainVars
<1>4. PortsAgree' /\ LinksAgree'
  BY <1>8 DEF BridgeInv, RestTyped, PortsAgree, LinksAgree
<1>5. MainAgrees'
  BY DEF BridgeInv, MainAgrees, mainVars
<1>6. MediaAgree'
  <2>1. \A d \in Calls : media'[d] = "none" <=> slotOf'[d] = NoSlot
    BY Numbers DEF BridgeInv, MediaAgree
  <2>2. \A d \in Calls : media'[d] # "none" => Active(call', d)
    BY <1>2 DEF BridgeInv, MediaAgree
  <2>3. ASSUME NEW d \in Calls, media'[d] = "active" /\ (pc' = "idle" \/ cur' # d), ToneHere(mode[d])'
        PROVE  slotOf'[d] \in bridge'.listeners[slotOf'[mode'[d]]]
    <3>1. d # c /\ media[d] = "active" /\ pc = "idle"
      BY <2>3
    <3>3. mode[d] \in Tones /\ ToneHere(mode[d])
      BY <1>8, <2>3, <1>1 DEF BridgeInv, RestTyped, ToneHere, mainVars
    <3>2. slotOf[d] \in bridge.listeners[slotOf[mode[d]]] /\ slotOf[d] # NoSlot
      BY <3>1, <3>3 DEF BridgeInv, MediaAgree
    <3>4. d \in MediaPorts \ {c} /\ mode[d] \in MediaPorts \ {c}
      BY <3>1, <3>3, Numbers
    <3>5. slotOf[d] \in Slots /\ bridge.ports[slotOf[d]] = d
      BY <3>2, <3>4 DEF BridgeInv, RestTyped, PortsAgree
    <3>6. slotOf[mode[d]] \in Slots /\ bridge.ports[slotOf[mode[d]]] = mode[d]
      BY <3>3, ToneSlots DEF BridgeInv, PortsAgree
    <3>7. slotOf[d] \in bridge'.listeners[slotOf[mode[d]]]
      BY <3>1, <3>2, <3>4, <3>5, <3>6
    <3> QED
      BY <3>4, <3>7
  <2>4. pc' # "idle" => media'[cur'] = "active"
    OBVIOUS
  <2> QED
    BY <2>1, <2>2, <2>3, <2>4 DEF MediaAgree, Active, ToneHere
<1>7. DeviceAgrees'
  <2>1. Links(bridge') # {} => Links(bridge) # {}
    BY DEF Links
  <2> QED
    BY <2>1 DEF BridgeInv, DeviceAgrees, deviceVars
<1> QED
  BY <1>3, <1>4, <1>5, <1>6, <1>7 DEF BridgeInv

\* on_call_media_state chooses the tone, or meets no player.
LEMMA ChooseKeeps == BridgeInv /\ Choose => BridgeInv'
<1> SUFFICES ASSUME BridgeInv, Choose PROVE BridgeInv'
  OBVIOUS
<1>1. /\ pc = "choose" /\ pc' \in {"choose", "open"}
      /\ crashed' \in {crashed, "player"}
      /\ UNCHANGED <<bridge, alive, slotOf, callVars, deviceVars, cur>> /\ UNCHANGED mainVars
  BY DEF Choose
<1>2. DeviceAgrees' /\ {device, idle, pending}' \subseteq BOOLEAN
  BY <1>1 DEF BridgeInv, RestTyped, DeviceAgrees, deviceVars
<1>3. crashed' \in {"no", "player", "freed"}
  BY <1>1 DEF BridgeInv
<1> QED
  BY <1>1, <1>2, <1>3, SameThreads, OtherStep, PortsExist

\* pjsua_conf_connect2 begins: the timer that would close the device is off.
LEMMA OpenDeviceKeeps == BridgeInv /\ OpenDevice => BridgeInv'
<1> SUFFICES ASSUME BridgeInv, OpenDevice PROVE BridgeInv'
  OBVIOUS
<1>1. /\ pc = "open" /\ pc' \in {"link", "refused"} /\ idle' = FALSE /\ pending' \in BOOLEAN
      /\ UNCHANGED <<bridge, alive, slotOf, callVars, cur, crashed>> /\ UNCHANGED mainVars
      /\ device' \in BOOLEAN /\ (device => device') /\ (pc' = "link" => device')
  BY DEF OpenDevice, BridgeInv, RestTyped
<1>2. DeviceAgrees' /\ {device, idle, pending}' \subseteq BOOLEAN
  BY <1>1 DEF BridgeInv, DeviceAgrees
<1>3. crashed' \in {"no", "player", "freed"}
  BY <1>1 DEF BridgeInv
<1> QED
  BY <1>1, <1>2, <1>3, SameThreads, OtherStep, PortsExist

\* The call's port is there when the worker connects it, although it let go of the
\* lock in between; its tone need not be.
LEMMA LinkFindsCall ==
  ASSUME BridgeInv, pc # "idle"
  PROVE  /\ slotOf[cur] \in Taken(bridge) /\ bridge.ports[slotOf[cur]] = cur
         /\ Active(call, cur) /\ cur \in Calls /\ mode[cur] \in Tones
<1>1. media[cur] = "active" /\ cur \in Calls /\ mode[cur] \in Tones
  BY DEF BridgeInv, MediaAgree, RestTyped
<1>2. Active(call, cur) /\ slotOf[cur] # NoSlot
  BY <1>1 DEF BridgeInv, MediaAgree
<1>3. cur \in MediaPorts /\ cur # NoPort
  BY <1>1, Numbers
<1>4. slotOf[cur] \in Slots /\ bridge.ports[slotOf[cur]] = cur
  BY <1>1, <1>2, <1>3 DEF BridgeInv, PortsAgree, RestTyped
<1> QED
  BY <1>1, <1>2, <1>3, <1>4 DEF Taken

\* The tone is connected and the call is up.
LEMMA LinkConnects ==
  ASSUME BridgeInv, Link, slotOf[mode[cur]] \in Taken(bridge)
  PROVE  BridgeInv'
<1> DEFINE src == slotOf[mode[cur]]
           sink == slotOf[cur]
<1>1. /\ src \in Taken(bridge) /\ sink \in Taken(bridge)
      /\ bridge.ports[sink] = cur
      /\ Active(call, cur) /\ cur \in Calls
  BY LinkFindsCall DEF Link
<1>2. /\ pc = "link" /\ pc' = "idle"
      /\ bridge' = Connected(bridge, src, sink)
      /\ call' = [call EXCEPT ![cur] = "up"]
      /\ UNCHANGED <<alive, slotOf, mode, media, deviceVars, cur, mainVars, crashed>>
  BY <1>1 DEF Link
<1>3. /\ Agrees(bridge') /\ bridge'.ports = bridge.ports
      /\ \A r \in Slots : bridge'.listeners[r] =
                          IF r = src THEN bridge.listeners[r] \cup {sink} ELSE bridge.listeners[r]
  <2>1. Agrees(bridge)
    BY DEF BridgeInv
  <2> HIDE DEF src, sink
  <2>2. /\ Agrees(Connected(bridge, src, sink)) /\ Connected(bridge, src, sink).ports = bridge.ports
        /\ \A r \in Slots : Connected(bridge, src, sink).listeners[r] =
                             IF r = src THEN bridge.listeners[r] \cup {sink} ELSE bridge.listeners[r]
    <3>1. src \in Taken(bridge) /\ sink \in Taken(bridge)
      BY <1>1
    <3>2. Agrees(Connected(bridge, src, sink))
      BY <2>1, <3>1, ConnectedAgrees
    <3>3. Connected(bridge, src, sink).ports = bridge.ports
      BY <2>1, <3>1, ConnectedAgrees
    <3>4. ASSUME NEW r \in Slots
          PROVE  Connected(bridge, src, sink).listeners[r] =
                             IF r = src THEN bridge.listeners[r] \cup {sink} ELSE bridge.listeners[r]
      BY <2>1, <3>1, ConnectedAgrees, SMTT(30), ZenonT(60)
    <3> QED
      BY <3>2, <3>3, <3>4
  <2> QED
    BY <1>2, <2>2
<1> HIDE DEF src, sink
<1>4. src \in Slots /\ sink \in Slots
  BY <1>1 DEF Taken
<1>5. \A d \in Calls : Active(call', d) <=> Active(call, d)
  BY <1>1, <1>2 DEF BridgeInv, RestTyped, Active
<1>6. RestTyped'
  BY <1>1, <1>2 DEF BridgeInv, RestTyped, deviceVars, mainVars
<1>7. PortsAgree'
  BY <1>2, <1>3 DEF BridgeInv, PortsAgree, Taken, ToneHere, mainVars
<1>8. LinksAgree'
  <2> SUFFICES ASSUME NEW r \in Slots, NEW s \in Slots, s \in bridge'.listeners[r]
               PROVE  bridge.ports[s] \in Calls /\ r = slotOf[mode[bridge.ports[s]]]
    BY <1>2, <1>3 DEF LinksAgree
  <2>1. s \in bridge.listeners[r] \/ (r = src /\ s = sink)
    BY <1>3
  <2> QED
    BY <1>1, <2>1 DEF BridgeInv, LinksAgree, src
<1>9. MediaAgree'
  <2>1. \A d \in Calls : media[d] = "none" <=> slotOf[d] = NoSlot
    BY DEF BridgeInv, MediaAgree
  <2>2. \A d \in Calls : media[d] # "none" => Active(call', d)
    BY <1>5 DEF BridgeInv, MediaAgree
  <2>3. ASSUME NEW d \in Calls, media[d] = "active", ToneHere(mode[d])
        PROVE  slotOf[d] \in bridge'.listeners[slotOf[mode[d]]]
    <3>1. CASE d = cur
      BY <1>3, <1>4, <3>1 DEF src, sink
    <3>2. CASE d # cur
      <4>1. slotOf[d] \in bridge.listeners[slotOf[mode[d]]]
        BY <2>3, <3>2 DEF BridgeInv, MediaAgree
      <4>2. mode[d] \in Tones
        BY DEF BridgeInv, RestTyped
      <4>3. slotOf[mode[d]] \in Slots
        BY <4>2, ToneSlots DEF BridgeInv
      <4> QED
        BY <1>3, <4>1, <4>3
    <3> QED
      BY <3>1, <3>2
  <2>4. \A d \in Calls : ToneHere(mode[d])' <=> ToneHere(mode[d])
    BY <1>2 DEF ToneHere, mainVars
  <2> QED
    BY <1>2, <2>1, <2>2, <2>3, <2>4 DEF MediaAgree, Active
<1>10. MainAgrees'
  BY <1>2, SameThreads
<1>11. DeviceAgrees'
  BY <1>2 DEF BridgeInv, DeviceAgrees, deviceVars
<1> QED
  BY <1>2, <1>3, <1>6, <1>7, <1>8, <1>9, <1>10, <1>11 DEF BridgeInv

\* Its tone is not there, or something else is.
LEMMA LinkKeeps == BridgeInv /\ Link => BridgeInv'
<1> SUFFICES ASSUME BridgeInv, Link PROVE BridgeInv'
  OBVIOUS
<1>1. CASE slotOf[mode[cur]] \in Taken(bridge)
  BY <1>1, LinkConnects
<1>2. CASE slotOf[mode[cur]] \notin Taken(bridge)
  <2>1. /\ pc = "link" /\ pc' = "refused"
        /\ UNCHANGED <<bridge, alive, slotOf, callVars, deviceVars, cur, crashed>>
        /\ UNCHANGED mainVars
    BY <1>2 DEF Link, callVars
  <2>2. DeviceAgrees' /\ {device, idle, pending}' \subseteq BOOLEAN
    BY <2>1 DEF BridgeInv, RestTyped, DeviceAgrees, deviceVars
  <2>3. crashed' \in {"no", "player", "freed"}
    BY <2>1 DEF BridgeInv
  <2> QED
    BY <2>1, <2>2, <2>3, SameThreads, OtherStep, PortsExist
<1> QED
  BY <1>1, <1>2

\* close_snd_timer_cb closes the device only when nobody is connected.
LEMMA IdleTimerKeeps == BridgeInv /\ IdleTimer => BridgeInv'
<1> SUFFICES ASSUME BridgeInv, IdleTimer PROVE BridgeInv'
  OBVIOUS
<1>1. /\ pc = "idle" /\ pending' = FALSE /\ device' = (device /\ ~idle) /\ idle' = FALSE
      /\ UNCHANGED <<bridge, alive, slotOf, callVars, pc, cur, crashed>> /\ UNCHANGED mainVars
  BY DEF IdleTimer, Idle
<1>2. DeviceAgrees'
  BY <1>1 DEF BridgeInv, DeviceAgrees
<1>3. crashed' \in {"no", "player", "freed"} /\ {device, idle, pending}' \subseteq BOOLEAN
  BY <1>1 DEF BridgeInv
<1> QED
  BY <1>1, <1>2, <1>3, SameThreads, OtherStep, PortsExist

\* A pass over a consistent bridge meets only ports that exist.
LEMMA PassKeeps == BridgeInv /\ (Pass \/ UNCHANGED vars) => BridgeInv'
<1> SUFFICES ASSUME BridgeInv, Pass \/ UNCHANGED vars PROVE BridgeInv'
  OBVIOUS
<1>1. ~PassFaults
  BY DEF BridgeInv, PortsAgree, Agrees, BridgeRecord, PassFaults, Taken
<1>2. UNCHANGED vars
  BY <1>1 DEF Pass, vars
<1>3. UNCHANGED <<bridge, alive, slotOf, callVars, deviceVars, pc, cur, crashed>> /\ UNCHANGED mainVars
  BY <1>2 DEF vars
<1>4. DeviceAgrees' /\ {device, idle, pending}' \subseteq BOOLEAN
  BY <1>3 DEF BridgeInv, RestTyped, DeviceAgrees, deviceVars
<1>5. pc' \in {"idle", "choose", "open", "link", "refused"} /\ crashed' \in {"no", "player", "freed"}
  BY <1>3 DEF BridgeInv, RestTyped
<1> QED
  BY <1>3, <1>4, <1>5, SameThreads, OtherStep, PortsExist

\* The main thread begins to hang up.
LEMMA QuitKeeps == BridgeInv /\ Quit => BridgeInv'
<1> SUFFICES ASSUME BridgeInv, Quit PROVE BridgeInv'
  OBVIOUS
<1>1. /\ main = "run" /\ main' = "hangup" /\ at' = 0 /\ 0 \in Calls
      /\ UNCHANGED <<bridge, alive, slotOf, callVars, deviceVars, pc, cur, crashed>>
  BY BridgeAssumption DEF Quit, Calls
<1>2. DeviceAgrees' /\ {device, idle, pending}' \subseteq BOOLEAN
  BY <1>1 DEF BridgeInv, RestTyped, DeviceAgrees, deviceVars
<1>3. pc' \in {"idle", "choose", "open", "link", "refused"} /\ crashed' \in {"no", "player", "freed"}
  BY <1>1 DEF BridgeInv, RestTyped
<1>4. MainAgrees' /\ \A t \in Tones : ToneHere(t)' <=> ToneHere(t)
  BY <1>1 DEF MainAgrees, ToneHere
<1> QED
  BY <1>1, <1>2, <1>3, <1>4, OtherStep, PortsExist

\* A tone leaves the bridge before it is destroyed, with its connections and no
\* others; whoever listens hears nothing any more.
LEMMA RemoveToneKeeps == BridgeInv /\ RemoveTone => BridgeInv'
<1> SUFFICES ASSUME BridgeInv, RemoveTone PROVE BridgeInv'
  OBVIOUS
<1>1. /\ main = "remove" /\ main' = "destroy"
      /\ bridge' = Removed(bridge, slotOf[at])
      /\ UNCHANGED <<alive, slotOf, call, mode, media, device, at, pc, cur, crashed>>
      /\ idle' \in BOOLEAN /\ pending' \in BOOLEAN
      /\ idle' = idle \/ (NoActiveCall(call) /\ bridge'.connects = 0)
  BY DEF RemoveTone, CheckIdle, BridgeInv, RestTyped, callVars
<1>2. at \in Tones /\ at \in MediaPorts /\ at # NoPort /\ at \in Int /\ at \notin Calls
  BY <1>1, Numbers, BridgeAssumption DEF BridgeInv, MainAgrees
<1> DEFINE s == slotOf[at]
<1>3. s \in Slots /\ bridge.ports[s] = at
  BY <1>1, <1>2, ToneSlots DEF BridgeInv, PortsAgree, ToneHere
<1> HIDE DEF s
<1>4. /\ Agrees(bridge') /\ bridge'.ports = [bridge.ports EXCEPT ![s] = NoPort]
      /\ \A r \in Slots : bridge'.listeners[r] = IF r = s THEN {} ELSE bridge.listeners[r] \ {s}
  <2>1. Agrees(bridge) /\ bridge' = Removed(bridge, s)
    BY <1>1 DEF BridgeInv, s
  <2>2. \A r \in Slots : Removed(bridge, s).listeners[r] =
                         IF r = s THEN {} ELSE bridge.listeners[r] \ {s}
    BY <1>3, <2>1, RemovedAgrees, Zenon
  <2>3. /\ Agrees(Removed(bridge, s))
        /\ Removed(bridge, s).ports = [bridge.ports EXCEPT ![s] = NoPort]
    BY <1>3, <2>1, RemovedAgrees, Zenon
  <2> QED
    BY <2>1, <2>2, <2>3
<1>5. \A r \in Slots : bridge'.ports[r] = IF r = s THEN NoPort ELSE bridge.ports[r]
  BY <1>4 DEF BridgeInv, Agrees, BridgeRecord
<1>6. ASSUME NEW r \in Slots, NEW q \in Slots
      PROVE  q \in bridge'.listeners[r] <=> q \in bridge.listeners[r] /\ r # s
  <2>1. q \in bridge.listeners[r] => q # s
    BY <1>2, <1>3 DEF BridgeInv, LinksAgree
  <2> QED
    BY <1>4, <2>1
<1>7. RestTyped'
  BY <1>1 DEF BridgeInv, RestTyped
<1>8. \A t \in Tones : ToneHere(t)' => ToneHere(t) /\ t # at
  BY <1>1, <1>2, Numbers, BridgeAssumption DEF ToneHere
<1>9. PortsAgree'
  <2>1. \A r \in Taken(bridge') : slotOf[bridge'.ports[r]] = r /\ bridge'.ports[r] \in alive
    BY <1>5 DEF BridgeInv, PortsAgree, Taken
  <2>2. ASSUME NEW c \in Calls, slotOf[c] # NoSlot
        PROVE  bridge'.ports[slotOf[c]] = c
    <3>1. bridge.ports[slotOf[c]] = c /\ slotOf[c] \in Slots
      BY <2>2, Numbers DEF BridgeInv, PortsAgree, RestTyped
    <3>2. slotOf[c] # s
      BY <1>2, <1>3, <3>1
    <3> QED
      BY <1>5, <3>1, <3>2
  <2>3. ASSUME NEW t \in Tones
        PROVE  slotOf[t] = t - MaxCalls + 1 /\ (ToneHere(t)' <=> bridge'.ports[slotOf[t]] = t)
    <3>1. t \in MediaPorts /\ t # NoPort /\ t \in Int
      BY Numbers, BridgeAssumption
    <3>2. /\ slotOf[t] = t - MaxCalls + 1 /\ slotOf[t] \in Slots
          /\ ToneHere(t) <=> bridge.ports[slotOf[t]] = t
      BY ToneSlots DEF BridgeInv, PortsAgree
    <3>3. (ToneHere(t) <=> at <= t) /\ (ToneHere(t)' <=> at < t)
      BY <1>1 DEF ToneHere
    <3>4. CASE t = at
      BY <1>2, <1>5, <3>1, <3>2, <3>3, <3>4 DEF s
    <3>5. CASE t # at
      <4>1. ToneHere(t)' <=> ToneHere(t)
        BY <1>2, <3>1, <3>3, <3>5
      <4>2. bridge'.ports[slotOf[t]] = t <=> bridge.ports[slotOf[t]] = t
        BY <1>3, <1>5, <3>1, <3>2, <3>5
      <4> QED
        BY <3>2, <4>1, <4>2
    <3> QED
      BY <3>4, <3>5
  <2> QED
    BY <1>1, <2>1, <2>2, <2>3 DEF PortsAgree
<1>10. LinksAgree'
  <2> SUFFICES ASSUME NEW r \in Slots, NEW q \in Slots, q \in bridge'.listeners[r]
               PROVE  bridge'.ports[q] \in Calls /\ r = slotOf[mode[bridge'.ports[q]]]
    BY <1>1 DEF LinksAgree
  <2>1. bridge.ports[q] \in Calls /\ r = slotOf[mode[bridge.ports[q]]]
    BY <1>6 DEF BridgeInv, LinksAgree
  <2>2. q # s
    BY <1>2, <1>3, <2>1
  <2> QED
    BY <1>5, <2>1, <2>2
<1>11. MediaAgree'
  <2>1. ASSUME NEW c \in Calls, media[c] = "active" /\ (pc = "idle" \/ cur # c), ToneHere(mode[c])'
        PROVE  slotOf[c] \in bridge'.listeners[slotOf[mode[c]]]
    <3>1. mode[c] \in Tones
      BY DEF BridgeInv, RestTyped
    <3>2. ToneHere(mode[c]) /\ mode[c] # at
      BY <1>1, <1>8, <2>1, <3>1 DEF ToneHere
    <3>3. slotOf[c] \in bridge.listeners[slotOf[mode[c]]] /\ slotOf[c] # NoSlot
      BY <2>1, <3>2 DEF BridgeInv, MediaAgree
    <3>4. slotOf[mode[c]] \in Slots /\ slotOf[mode[c]] # s
      BY <1>2, <3>1, <3>2, ToneSlots DEF BridgeInv, s
    <3>5. slotOf[c] \in Slots
      BY <3>3, Numbers DEF BridgeInv, RestTyped
    <3> QED
      BY <1>6, <3>3, <3>4, <3>5
  <2> QED
    BY <1>1, <2>1 DEF BridgeInv, MediaAgree, Active, ToneHere
<1>12. DeviceAgrees'
  <2>1. Links(bridge') # {} => Links(bridge) # {}
    BY <1>6 DEF Links
  <2>2. bridge'.connects = 0 => Links(bridge') = {}
    BY <1>4, NoLinks
  <2>3. pc # "idle" => Active(call, cur) /\ cur \in Calls
    BY LinkFindsCall
  <2>4. NoActiveCall(call) => pc = "idle"
    BY <2>3 DEF NoActiveCall, Using, Active, BridgeInv, RestTyped
  <2> QED
    BY <1>1, <2>1, <2>2, <2>4 DEF BridgeInv, DeviceAgrees
<1>13. MainAgrees'
  BY <1>1, <1>2 DEF MainAgrees
<1> QED
  BY <1>1, <1>4, <1>7, <1>9, <1>10, <1>11, <1>12, <1>13 DEF BridgeInv

\* A tone is destroyed when it has left the bridge.
LEMMA DestroyToneKeeps == BridgeInv /\ DestroyTone => BridgeInv'
<1> SUFFICES ASSUME BridgeInv, DestroyTone PROVE BridgeInv'
  OBVIOUS
<1>1. /\ main = "destroy" /\ alive' = alive \ {at}
      /\ IF at = WAV THEN main' = "release" /\ UNCHANGED at
                     ELSE main' = "remove" /\ at' = at + 1
      /\ UNCHANGED <<bridge, slotOf, callVars, deviceVars, pc, cur, crashed>>
  BY DEF DestroyTone
<1>2. at \in Tones /\ ~ToneHere(at)
  BY <1>1, Numbers, BridgeAssumption DEF BridgeInv, MainAgrees, ToneHere
<1>3. \A s \in Taken(bridge) : bridge.ports[s] # at
  BY <1>2 DEF BridgeInv, PortsAgree
<1>4. /\ main' = "release" => at' = at /\ at = WAV
      /\ main' = "remove" => at' = at + 1 /\ at # WAV /\ at' \in Tones
      /\ main' \in {"remove", "release"} /\ at' \in Tones
  BY <1>1, <1>2, Numbers, BridgeAssumption
<1>5. \A t \in Tones : ToneHere(t)' <=> ToneHere(t)
  BY <1>1, <1>2, <1>4, Numbers, BridgeAssumption DEF ToneHere
<1>6. DeviceAgrees' /\ {device, idle, pending}' \subseteq BOOLEAN /\ MainAgrees'
  BY <1>1, <1>4 DEF BridgeInv, RestTyped, DeviceAgrees, MainAgrees, deviceVars
<1>7. pc' \in {"idle", "choose", "open", "link", "refused"} /\ crashed' \in {"no", "player", "freed"}
  BY <1>1 DEF BridgeInv, RestTyped
<1>8. alive' \subseteq MediaPorts /\ \A s \in Taken(bridge) : bridge.ports[s] \in alive'
  BY <1>1, <1>3, PortsExist
<1> QED
  BY <1>1, <1>4, <1>5, <1>6, <1>7, <1>8, OtherStep

\* The cells are released, or used all the same.
LEMMA ReleaseKeeps == BridgeInv /\ (ReleasePool \/ ServeFreed) => BridgeInv'
<1> SUFFICES ASSUME BridgeInv, ReleasePool \/ ServeFreed PROVE BridgeInv'
  OBVIOUS
<1>1. /\ main \in {"release", "stop"} /\ main' = "stop" /\ at' = at
      /\ crashed' \in {crashed, "freed"}
      /\ UNCHANGED <<bridge, alive, slotOf, callVars, deviceVars, pc, cur>>
  BY DEF ReleasePool, ServeFreed, mainVars
<1>2. DeviceAgrees' /\ {device, idle, pending}' \subseteq BOOLEAN /\ MainAgrees'
  BY <1>1 DEF BridgeInv, RestTyped, DeviceAgrees, MainAgrees, deviceVars
<1>3. pc' \in {"idle", "choose", "open", "link", "refused"} /\ crashed' \in {"no", "player", "freed"}
  BY <1>1 DEF BridgeInv, RestTyped
<1>4. \A t \in Tones : ToneHere(t)' <=> ToneHere(t)
  BY <1>1 DEF ToneHere
<1> QED
  BY <1>1, <1>2, <1>3, <1>4, OtherStep, PortsExist

\* pjsua_destroy closes the device when nobody is connected any more.
LEMMA DestroyKeeps == BridgeInv /\ Destroy => BridgeInv'
<1> SUFFICES ASSUME BridgeInv, Destroy PROVE BridgeInv'
  OBVIOUS
<1>1. /\ main = "stop" /\ main' = "stopped" /\ device' = FALSE /\ pc = "idle"
      /\ \A c \in Calls : ~Active(call, c)
      /\ UNCHANGED <<bridge, alive, slotOf, callVars, idle, pending, at, pc, cur, crashed>>
  BY DEF Destroy
<1>2. Links(bridge) = {}
  <2>1. \A r, s \in Slots : s \notin bridge.listeners[r]
    BY <1>1, LinkedIsActive DEF BridgeInv
  <2> QED
    BY <2>1 DEF Links
<1>3. DeviceAgrees' /\ {device, idle, pending}' \subseteq BOOLEAN /\ MainAgrees'
  BY <1>1, <1>2 DEF BridgeInv, RestTyped, DeviceAgrees, MainAgrees
<1>4. pc' \in {"idle", "choose", "open", "link", "refused"} /\ crashed' \in {"no", "player", "freed"}
  BY <1>1 DEF BridgeInv, RestTyped
<1>5. \A t \in Tones : ToneHere(t)' <=> ToneHere(t)
  BY <1>1 DEF ToneHere
<1> QED
  BY <1>1, <1>3, <1>4, <1>5, OtherStep, PortsExist

\* app_init leaves the tones in the slots they were added to.
LEMMA InitAgrees == Init => BridgeInv
<1> SUFFICES ASSUME Init PROVE BridgeInv
  OBVIOUS
<1> DEFINE e == EmptyBridge
           r1 == Added(e, RINGBACK)
           r2 == Added(r1, DIAL)
           r3 == Added(r2, WAV)
<1>1. /\ \A s \in {1, 2, 3} : s \in Slots
      /\ \A s \in Slots : s \in Nat
      /\ {RINGBACK, DIAL, WAV, MASTER} \subseteq MediaPorts \ {NoPort}
      /\ RINGBACK # DIAL /\ RINGBACK # WAV /\ DIAL # WAV /\ MASTER \notin Tones
      /\ \A c \in Calls : c \notin Tones /\ c # MASTER
  BY Numbers, BridgeAssumption DEF Tones, RINGBACK, DIAL, WAV
<1>2. Agrees(e) /\ Taken(e) = {0} /\ e.ports[0] = MASTER /\ \A s \in Slots : e.listeners[s] = {}
  <2>1. 0 \in Slots /\ MASTER \in MediaPorts /\ MASTER # NoPort
    BY Numbers
  <2>2. e \in BridgeRecord /\ e.count = 1 /\ e.connects = 0
    BY <2>1, BridgeAssumption DEF EmptyBridge, BridgeRecord
  <2>3. /\ \A s \in Slots : e.ports[s] = IF s = 0 THEN MASTER ELSE NoPort
        /\ \A s \in Slots : e.listeners[s] = {} /\ e.transmitters[s] = 0
    BY DEF EmptyBridge
  <2> HIDE DEF e
  <2>4. Taken(e) = {0} /\ e.ports[0] = MASTER
    BY <2>1, <2>3 DEF Taken
  <2>5. Links(e) = {} /\ \A s \in Slots : Sources(e, s) = {}
    BY <2>3 DEF Links, Sources
  <2>6. Cardinality({0}) = 1 /\ Cardinality({}) = 0
    BY FS_Singleton, FS_EmptySet
  <2>7. e.count = Cardinality(Taken(e)) /\ e.connects = Cardinality(Links(e))
    BY <2>2, <2>4, <2>5, <2>6
  <2>8. \A s \in Taken(e) : e.transmitters[s] = Cardinality(Sources(e, s))
    BY <2>1, <2>3, <2>4, <2>5, <2>6
  <2> QED
    BY <2>2, <2>3, <2>4, <2>7, <2>8 DEF Agrees
<1>3. ASSUME NEW b, Agrees(b), NEW n \in {1, 2, 3}, Taken(b) = 0 .. n - 1, NEW p \in MediaPorts,
             p # NoPort, \A s \in Slots : b.listeners[s] = {}
      PROVE  /\ Agrees(Added(b, p)) /\ Taken(Added(b, p)) = 0 .. n
             /\ Added(b, p).ports[n] = p
             /\ \A s \in 0 .. n - 1 : Added(b, p).ports[s] = b.ports[s]
             /\ \A s \in Slots : Added(b, p).listeners[s] = {}
  <2>1. n \in Slots \ Taken(b)
    BY <1>1, <1>3
  <2>2. FreeSlot(b) \in Slots \ Taken(b) /\ FreeSlot(b) <= n
    BY <2>1, FirstFreeSlot
  <2>3. FreeSlot(b) = n
    BY <1>1, <1>3, <2>2
  <2>4. /\ Agrees(Added(b, p)) /\ Added(b, p).listeners = b.listeners
        /\ Added(b, p).ports = [b.ports EXCEPT ![n] = p]
    BY <1>3, <2>1, <2>3, AddedAgrees
  <2>5. \A s \in Slots : Added(b, p).ports[s] = IF s = n THEN p ELSE b.ports[s]
    BY <1>3, <2>4 DEF Agrees, BridgeRecord
  <2>6. Taken(Added(b, p)) = Taken(b) \cup {n}
    BY <1>1, <1>3, <2>5 DEF Taken
  <2>7. \A s \in 0 .. n - 1 : s \in Slots /\ s # n
    BY <1>3 DEF Taken
  <2> QED
    BY <1>1, <1>3, <2>4, <2>5, <2>6, <2>7
<1> HIDE DEF e
<1>4. /\ Agrees(r1) /\ Taken(r1) = 0 .. 1 /\ r1.ports[1] = RINGBACK /\ r1.ports[0] = MASTER
      /\ \A s \in Slots : r1.listeners[s] = {}
  BY <1>1, <1>2, <1>3
<1> HIDE DEF r1
<1>5. /\ Agrees(r2) /\ Taken(r2) = 0 .. 2 /\ r2.ports[2] = DIAL
      /\ r2.ports[1] = RINGBACK /\ r2.ports[0] = MASTER
      /\ \A s \in Slots : r2.listeners[s] = {}
  BY <1>1, <1>3, <1>4
<1> HIDE DEF r2
<1>6. /\ Agrees(r3) /\ Taken(r3) = 0 .. 3 /\ r3.ports[3] = WAV
      /\ r3.ports[2] = DIAL /\ r3.ports[1] = RINGBACK /\ r3.ports[0] = MASTER
      /\ \A s \in Slots : r3.listeners[s] = {}
  BY <1>1, <1>3, <1>5
<1> HIDE DEF r3
<1>7. /\ bridge = r3 /\ alive = Tones \cup {MASTER}
      /\ slotOf = [p \in MediaPorts |-> CASE p = MASTER -> 0 [] p = RINGBACK -> 1
                                          [] p = DIAL -> 2 [] p = WAV -> 3 [] OTHER -> NoSlot]
      /\ call  = [c \in Calls |-> "free"] /\ mode  = [c \in Calls |-> DIAL]
      /\ media = [c \in Calls |-> "none"]
      /\ device = FALSE /\ idle = FALSE /\ pending = FALSE
      /\ pc = "idle" /\ cur = 0 /\ main = "run" /\ at = 0 /\ crashed = "no"
  BY DEF Init, e, r1, r2, r3
<1>8. /\ slotOf[MASTER] = 0 /\ slotOf[RINGBACK] = 1 /\ slotOf[DIAL] = 2 /\ slotOf[WAV] = 3
      /\ \A c \in Calls : slotOf[c] = NoSlot
      /\ slotOf \in [MediaPorts -> Slots \cup {NoSlot}]
  <2>1. /\ slotOf[MASTER] = 0 /\ slotOf[RINGBACK] = 1 /\ slotOf[DIAL] = 2 /\ slotOf[WAV] = 3
    BY <1>1, <1>7 DEF Tones
  <2>2. \A c \in Calls : slotOf[c] = NoSlot
    BY <1>1, <1>7, Numbers DEF Tones
  <2>3. \A p \in MediaPorts : p \in Calls \/ p \in {MASTER, RINGBACK, DIAL, WAV}
    BY DEF MediaPorts, Tones
  <2>4. 0 \in Slots /\ slotOf = [p \in MediaPorts |-> slotOf[p]]
    BY <1>7, Numbers
  <2> QED
    BY <1>1, <2>1, <2>2, <2>3, <2>4
<1>9. RestTyped
  <2>1. 0 \in Calls /\ DIAL \in Tones /\ alive \subseteq MediaPorts
    BY <1>1, <1>7, Numbers, BridgeAssumption, SMTT(30) DEF Calls, Tones
  <2> QED
    BY <1>7, <1>8, <2>1 DEF RestTyped
<1>10. PortsAgree
  <2>1. \A s \in Taken(bridge) : s \in {0, 1, 2, 3}
    BY <1>6, <1>7
  <2>2. \A t \in Tones : slotOf[t] = t - MaxCalls + 1
    BY <1>8, BridgeAssumption DEF Tones, RINGBACK, DIAL, WAV
  <2> QED
    BY <1>1, <1>6, <1>7, <1>8, <2>1, <2>2, Numbers, SMTT(30), ZenonT(60) DEF PortsAgree, ToneHere, Tones
<1>11. LinksAgree /\ MediaAgree /\ MainAgrees /\ DeviceAgrees
  BY <1>6, <1>7, <1>8, <1>9 DEF LinksAgree, MediaAgree, MainAgrees, DeviceAgrees, Links, Active, RestTyped
<1> QED
  BY <1>6, <1>7, <1>9, <1>10, <1>11 DEF BridgeInv

-----------------------------------------------------------------------------
(* Theorems *)

\* One step of any thread.
LEMMA BridgeStep == BridgeInv /\ [Next]_vars => BridgeInv'
<1> SUFFICES ASSUME BridgeInv, [Next]_vars PROVE BridgeInv'
  OBVIOUS
<1>1. CASE Pass \/ UNCHANGED vars
  BY <1>1, PassKeeps
<1>2. CASE IdleTimer \/ Connecting
  BY <1>2, IdleTimerKeeps, ChooseKeeps, OpenDeviceKeeps, LinkKeeps, RefusedKeeps DEF Connecting
<1>3. CASE MainThread \/ ServeFreed
  BY <1>3, QuitKeeps, HangupNextKeeps, RemoveToneKeeps, DestroyToneKeeps, ReleaseKeeps, DestroyKeeps
     DEF MainThread
<1>4. ASSUME NEW c \in Calls, CallEvent(c)
      PROVE  BridgeInv'
  <2>1. CASE \E t \in Tones : Arrive(c, t)
    BY <2>1, ArriveKeeps
  <2>2. CASE Disconnect(c) \/ Timeout(c) \/ ByeDone(c)
    BY <2>2, WorkerEnds
  <2>3. CASE MediaUpdate(c)
    BY <2>3, MediaUpdateKeeps
  <2> QED
    BY <1>4, <2>1, <2>2, <2>3 DEF CallEvent
<1> QED
  BY <1>1, <1>2, <1>3, <1>4 DEF Next

\* The inductive invariant holds in every reachable state.
THEOREM BridgeInvariant == BridgeSpec => []BridgeInv
<1>1. Init => BridgeInv
  BY InitAgrees
<1>2. BridgeInv /\ [Next]_vars => BridgeInv'
  BY BridgeStep
<1> QED
  BY <1>1, <1>2, PTL DEF BridgeSpec

\* The bridge's counters always say what its lists say, and a call and its port
\* always agree about the slot: pjmedia_conf_add_port, _connect_port and _remove_port
\* keep this up over any sequence of calls and re-INVITEs.
THEOREM BridgeConsistent == BridgeSpec => []BridgeAgrees
<1>1. BridgeInv => BridgeAgrees
  <2> SUFFICES ASSUME BridgeInv PROVE BridgeAgrees
    OBVIOUS
  <2>1. BridgeTypeOK
    BY DEF BridgeInv, Agrees, BridgeRecord, RestTyped, BridgeTypeOK
  <2>2. /\ bridge.count = Cardinality(Taken(bridge))
        /\ bridge.connects = Cardinality({p \in Slots \X Slots : p[2] \in bridge.listeners[p[1]]})
        /\ \A s \in Taken(bridge) : bridge.transmitters[s] =
                                      Cardinality({r \in Slots : s \in bridge.listeners[r]})
    BY DEF BridgeInv, Agrees, Links, Sources
  <2>3. \A c \in Calls, s \in Slots : bridge.ports[s] = c <=> slotOf[c] = s
    BY Numbers DEF BridgeInv, PortsAgree, Taken
  <2> QED
    BY <2>1, <2>2, <2>3 DEF BridgeAgrees
<1> QED
  BY <1>1, BridgeInvariant, PTL

\* No tone but its own reaches a caller, in service and beside app_destroy: a slot
\* that is used again, a hold, a re-INVITE or a removed tone leaves no connection of
\* an earlier call or tone behind.  And as long as its own tone is plugged in a
\* caller hears that and nothing else, once the worker has connected it.
THEOREM OwnTone == BridgeSpec => []CallerHearsOwnTone
<1>1. BridgeInv => CallerHearsOwnTone
  <2> SUFFICES ASSUME BridgeInv, NEW c \in Calls
               PROVE  /\ HeardBy(c) \cap Tones \subseteq {mode[c]}
                      /\ Here(mode[c]) =>
                           /\ HeardBy(c) \subseteq {mode[c]}
                           /\ media[c] = "active" /\ (pc = "idle" \/ cur # c) =>
                                mode[c] \in HeardBy(c)
    BY DEF CallerHearsOwnTone
  <2>1. mode[c] \in Tones /\ slotOf[mode[c]] \in Slots
    BY ToneSlots DEF BridgeInv, RestTyped
  <2>2. CASE slotOf[c] = NoSlot
    BY <2>2 DEF HeardBy, BridgeInv, MediaAgree
  <2>3. CASE slotOf[c] # NoSlot
    <3>1. slotOf[c] \in Slots /\ bridge.ports[slotOf[c]] = c
      BY <2>3, Numbers DEF BridgeInv, RestTyped, PortsAgree
    <3>2. HeardBy(c) = {bridge.ports[s] : s \in {r \in Taken(bridge) : slotOf[c] \in bridge.listeners[r]}}
      BY <2>3 DEF HeardBy
    <3>3. \A r \in Taken(bridge) : slotOf[c] \in bridge.listeners[r] => r = slotOf[mode[c]]
      BY <3>1 DEF BridgeInv, LinksAgree, Taken
    <3>4. HeardBy(c) \subseteq {bridge.ports[slotOf[mode[c]]]}
      BY <3>2, <3>3
    <3>5. ASSUME NEW t \in Tones, t \in HeardBy(c)
          PROVE  t = mode[c]
      <4>1. slotOf[mode[c]] \in Taken(bridge) /\ bridge.ports[slotOf[mode[c]]] = t
        BY <3>2, <3>3, <3>5
      <4>2. slotOf[t] = slotOf[mode[c]]
        BY <4>1 DEF BridgeInv, PortsAgree
      <4> QED
        BY <2>1, <4>2, ToneSlots DEF BridgeInv
    <3>6. ASSUME Here(mode[c]), media[c] = "active", pc = "idle" \/ cur # c
          PROVE  mode[c] \in HeardBy(c)
      <4>1. ToneHere(mode[c]) /\ bridge.ports[slotOf[mode[c]]] = mode[c]
        BY <2>1, <3>6 DEF Here, BridgeInv, PortsAgree
      <4>2. slotOf[c] \in bridge.listeners[slotOf[mode[c]]]
        BY <3>6, <4>1 DEF BridgeInv, MediaAgree
      <4>3. slotOf[mode[c]] \in Taken(bridge)
        BY <2>1, <3>1, <4>2 DEF BridgeInv, Agrees
      <4> QED
        BY <3>2, <4>1, <4>2, <4>3
    <3>7. Here(mode[c]) => HeardBy(c) \subseteq {mode[c]}
      BY <3>4 DEF Here
    <3> QED
      BY <3>5, <3>6, <3>7
  <2> QED
    BY <2>2, <2>3
<1> QED
  BY <1>1, BridgeInvariant, PTL

\* The sound device is open as long as anybody is sent a tone: the idle timer, armed
\* in a pause, is cancelled or finds itself outdated before the next connection.
THEOREM HeardOverDevice == BridgeSpec => []HeardNeedsDevice
<1>1. BridgeInv => HeardNeedsDevice
  <2> SUFFICES ASSUME BridgeInv, NEW c \in Calls, HeardBy(c) # {} PROVE device
    BY DEF HeardNeedsDevice
  <2>1. PICK r \in Taken(bridge) : slotOf[c] # NoSlot /\ slotOf[c] \in bridge.listeners[r]
    BY DEF HeardBy
  <2>2. r \in Slots /\ slotOf[c] \in Slots
    BY <2>1 DEF Taken, BridgeInv, Agrees, BridgeRecord
  <2>3. <<r, slotOf[c]>> \in Links(bridge)
    BY <2>1, <2>2 DEF Links
  <2> QED
    BY <2>3 DEF BridgeInv, DeviceAgrees
<1> QED
  BY <1>1, BridgeInvariant, PTL

\* The sound thread never meets a port that is gone, whoever listens to a tone when
\* app_destroy takes it away and whatever the worker is about to connect; and the
\* assertion of pjmedia_conf_add_port never fails: the slots suffice for every call,
\* the tones and the device, because no port outlives its call's media.
THEOREM SoundThreadSurvives == BridgeSpec => []BridgeSurvives
<1>1. BridgeInv => BridgeSurvives
  BY DEF BridgeInv, BridgeSurvives
<1> QED
  BY <1>1, BridgeInvariant, PTL

=============================================================================
