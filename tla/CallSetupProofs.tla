--------------------------- MODULE CallSetupProofs ---------------------------
(***************************************************************************)
(* Theorems about the dialogs, sessions and slots of module CallSetup, for *)
(* every set of callers and any number of slots and dialogs.               *)
(***************************************************************************)
EXTENDS CallSetup, TLAPS, FiniteSetTheorems, WellFoundedInduction

-----------------------------------------------------------------------------
(* The inductive invariant *)

Sessions == {"INCOMING", "EARLY", "CONNECTING", "CONFIRMED", "DISCONNECTED"}

DialogRecord == [
  caller : Callers, slot : Slots \cup {NoSlot}, ses : Sessions,
  hanging : BOOLEAN, bye : BOOLEAN]

TsxRecord == [
  state : {"none", "PROCEEDING", "COMPLETED", "CONFIRMED", "TERMINATED"},
  dlg : Nat, ok : BOOLEAN]

SetupTyped ==
  /\ tsx \in [Callers -> TsxRecord]
  /\ dlgs \in Seq(DialogRecord)
  /\ calls \in [Slots -> Nat]
  /\ next_call_id \in Nat
  /\ call_cnt \in Int

\* The slots and the live sessions point at each other.
SlotsAgree ==
  /\ \A s \in Slots : calls[s] # NoDialog =>
       calls[s] \in Dialogs /\ Live(calls[s]) /\ dlgs[calls[s]].slot = s
  /\ \A d \in Dialogs : Live(d) => dlgs[d].slot \in Slots /\ calls[dlgs[d].slot] = d

Taken == {s \in Slots : calls[s] # NoDialog}
SlotsCounted == call_cnt = Cardinality(Taken)

\* What is hung up or has a BYE under way was answered.
Progress ==
  \A d \in Dialogs :
    /\ dlgs[d].hanging => dlgs[d].ses \in {"CONNECTING", "CONFIRMED"}
    /\ dlgs[d].bye => dlgs[d].ses \notin {"INCOMING", "EARLY"}

\* A transaction is that of a dialog of its caller; before its final answer the
\* session is, too, and after it no BYE was sent for want of the ACK.
TsxOfDialog ==
  \A c \in Callers :
    /\ tsx[c].dlg # NoDialog => tsx[c].dlg \in Dialogs /\ Caller(tsx[c].dlg) = c
    /\ tsx[c].state = "PROCEEDING" =>
         tsx[c].dlg # NoDialog /\ dlgs[tsx[c].dlg].ses \in {"INCOMING", "EARLY"}
    /\ tsx[c].ok => tsx[c].state = "COMPLETED"
    /\ tsx[c].state = "COMPLETED" /\ tsx[c].dlg # NoDialog =>
         ~(dlgs[tsx[c].dlg].ses = "CONNECTING" /\ dlgs[tsx[c].dlg].bye)

\* A session that waits for its caller has the transaction of its INVITE.
WaitingHasTsx ==
  \A d \in Dialogs : Waiting(d) =>
    /\ tsx[Caller(d)].dlg = d
    /\ tsx[Caller(d)].state = IF dlgs[d].ses = "CONNECTING" THEN "COMPLETED" ELSE "PROCEEDING"

TsxInv == Progress /\ TsxOfDialog /\ WaitingHasTsx

SetupInv == SetupTyped /\ SlotsAgree /\ SlotsCounted /\ TsxInv

-----------------------------------------------------------------------------
(* Operators *)

\* Of slots there is a first one.
LEMMA FirstSlot ==
  ASSUME NEW T, T \subseteq Slots, T # {}
  PROVE  Min(T) \in T /\ \A s \in T : Min(T) <= s
<1> DEFINE Upto == {0 .. s : s \in T}
<1>1. Upto \subseteq FiniteSubsetsOf(Nat)
  <2> SUFFICES ASSUME NEW s \in T PROVE 0 .. s \in FiniteSubsetsOf(Nat)
    OBVIOUS
  <2>1. s \in Nat
    BY SetupAssumption DEF Slots
  <2>2. IsFiniteSet(0 .. s)
    BY <2>1, FS_Interval
  <2> QED
    BY <2>1, <2>2 DEF FiniteSubsetsOf
<1>2. PICK X \in Upto : \A Y \in Upto : <<Y, X>> \notin StrictSubsetOrdering(Nat)
  <2>1. IsWellFoundedOn(StrictSubsetOrdering(Nat), FiniteSubsetsOf(Nat))
    BY FS_StrictSubsetOrderingWellFounded
  <2>2. Upto # {}
    OBVIOUS
  <2> HIDE DEF Upto
  <2> QED
    BY <1>1, <2>1, <2>2, WFMin
<1>3. PICK s \in T : X = 0 .. s
  OBVIOUS
<1>4. \A j \in T : s <= j
  <2> SUFFICES ASSUME NEW j \in T, ~(s <= j) PROVE FALSE
    OBVIOUS
  <2>1. j \in Nat /\ s \in Nat /\ j < s
    BY SetupAssumption DEF Slots
  <2>2. 0 .. j \subseteq 0 .. s /\ 0 .. j # 0 .. s
    BY <2>1
  <2>3. <<0 .. j, 0 .. s>> \in StrictSubsetOrdering(Nat)
    BY <2>1, <2>2 DEF StrictSubsetOrdering
  <2> QED
    BY <1>2, <1>3, <2>3
<1> QED
  BY <1>4 DEF Min

\* alloc_call_id returns a slot no call has, while there is one.
LEMMA FreeSlotIsFree ==
  ASSUME FreeSlots # {}
  PROVE  FreeSlot \in Slots /\ calls[FreeSlot] = NoDialog
<1> DEFINE after == {s \in FreeSlots : s >= Wrapped}
<1>1. CASE after # {}
  BY <1>1, FirstSlot DEF FreeSlots, FreeSlot
<1>2. CASE after = {}
  BY <1>2, FirstSlot DEF FreeSlots, FreeSlot
<1> QED
  BY <1>1, <1>2

\* A dialog that changes leaves the others as they are.
LEMMA OneDialogChanges ==
  ASSUME dlgs \in Seq(DialogRecord), NEW d \in Dialogs, NEW r \in DialogRecord,
         dlgs' = [dlgs EXCEPT ![d] = r]
  PROVE  /\ dlgs' \in Seq(DialogRecord)
         /\ Len(dlgs') = Len(dlgs)
         /\ \A e \in Dialogs : dlgs'[e] = IF e = d THEN r ELSE dlgs[e]
BY DEF Dialogs

\* A new dialog comes after the others.
LEMMA OneDialogMore ==
  ASSUME dlgs \in Seq(DialogRecord), NEW r \in DialogRecord,
         dlgs' = Append(dlgs, r)
  PROVE  /\ dlgs' \in Seq(DialogRecord)
         /\ Len(dlgs') = Len(dlgs) + 1
         /\ dlgs'[Len(dlgs')] = r
         /\ \A e \in Dialogs : dlgs'[e] = dlgs[e]
BY DEF Dialogs

\* The slots that are taken can be counted.
LEMMA TakenFinite == IsFiniteSet(Taken)
<1>1. IsFiniteSet(Slots)
  BY SetupAssumption, FS_Interval DEF Slots
<1> QED
  BY <1>1, FS_Subset DEF Taken

-----------------------------------------------------------------------------
(* Slots *)

\* A session that changes without ending, or that had ended before, keeps its slot.
LEMMA KeepSlots ==
  ASSUME SetupTyped, SlotsAgree, SlotsCounted,
         NEW d \in Dialogs, NEW r \in DialogRecord, Keep(d, r),
         r.slot = dlgs[d].slot, (r.ses # "DISCONNECTED") <=> Live(d)
  PROVE  SlotsAgree' /\ SlotsCounted'
<1>1. dlgs' = [dlgs EXCEPT ![d] = r] /\ calls' = calls /\ call_cnt' = call_cnt
  BY DEF Keep
<1>2. /\ Len(dlgs') = Len(dlgs)
      /\ \A e \in Dialogs : dlgs'[e] = IF e = d THEN r ELSE dlgs[e]
  BY <1>1, OneDialogChanges DEF SetupTyped
<1>3. \A e \in Dialogs : dlgs'[e].slot = dlgs[e].slot /\ (Live(e)' <=> Live(e))
  BY <1>2 DEF Live
<1>4. Dialogs' = Dialogs
  BY <1>2 DEF Dialogs
<1>5. SlotsAgree'
  BY <1>1, <1>3, <1>4 DEF SlotsAgree
<1> QED
  BY <1>1, <1>5 DEF SlotsCounted, Taken

\* A session that ends gives the slot it holds free, and no other.
LEMMA DisconnectSlots ==
  ASSUME SetupTyped, SlotsAgree, SlotsCounted,
         NEW d \in Dialogs, NEW r \in DialogRecord, Disconnect(d, r),
         r.slot = dlgs[d].slot, Live(d)
  PROVE  SlotsAgree' /\ SlotsCounted' /\ calls' \in [Slots -> Nat] /\ call_cnt' \in Int
<1> DEFINE s == dlgs[d].slot
           q == [r EXCEPT !.ses = "DISCONNECTED", !.hanging = FALSE]
<1>1. s \in Slots /\ calls[s] = d /\ s # NoSlot
  BY SetupAssumption DEF SlotsAgree, Slots, NoSlot
<1>2. /\ dlgs' = [dlgs EXCEPT ![d] = q]
      /\ calls' = [calls EXCEPT ![s] = NoDialog]
      /\ call_cnt' = call_cnt - 1
  BY <1>1 DEF Disconnect
<1>3. q \in DialogRecord /\ q.slot = s /\ q.ses = "DISCONNECTED"
  BY DEF DialogRecord, Sessions
<1>4. /\ Len(dlgs') = Len(dlgs)
      /\ \A e \in Dialogs : dlgs'[e] = IF e = d THEN q ELSE dlgs[e]
  BY <1>2, <1>3, OneDialogChanges DEF SetupTyped
<1>5. Dialogs' = Dialogs
  BY <1>4 DEF Dialogs
<1>6. /\ \A e \in Dialogs : Live(e)' <=> (Live(e) /\ e # d)
      /\ \A e \in Dialogs : dlgs'[e].slot = dlgs[e].slot
  BY <1>3, <1>4 DEF Live
<1>7. \A t \in Slots : calls'[t] = IF t = s THEN NoDialog ELSE calls[t]
  BY <1>2 DEF SetupTyped
<1>8. SlotsAgree'
  BY <1>1, <1>5, <1>6, <1>7 DEF SlotsAgree
<1>9. Taken' = Taken \ {s} /\ s \in Taken
  <2>1. d # NoDialog
    BY DEF Dialogs, NoDialog
  <2> QED
    BY <1>1, <1>7, <2>1 DEF Taken
<1>10. Cardinality(Taken') = Cardinality(Taken) - 1
  BY <1>9, TakenFinite, FS_RemoveElement
<1>11. calls' \in [Slots -> Nat] /\ call_cnt' \in Int
  BY <1>1, <1>2 DEF SetupTyped, NoDialog
<1> QED
  BY <1>2, <1>8, <1>10, <1>11 DEF SlotsCounted, SetupTyped

-----------------------------------------------------------------------------
(* Transactions *)

\* A transaction that moves on keeps its dialog, and the others stay.
LEMMA SetTsxOne ==
  ASSUME SetupTyped, NEW c \in Callers, NEW state, SetTsx(c, state),
         state \in {"COMPLETED", "CONFIRMED", "TERMINATED"}
  PROVE  /\ tsx' \in [Callers -> TsxRecord]
         /\ tsx'[c] = [state |-> state, dlg |-> tsx[c].dlg, ok |-> FALSE]
         /\ \A b \in Callers \ {c} : tsx'[b] = tsx[b]
BY DEF SetupTyped, SetTsx, Tsx, TsxRecord

\* The fields of a dialog.
LEMMA DialogFields ==
  ASSUME SetupTyped, NEW d \in Dialogs
  PROVE  /\ dlgs[d] \in DialogRecord
         /\ Caller(d) \in Callers
         /\ tsx[Caller(d)] \in TsxRecord
<1>1. dlgs[d] \in DialogRecord
  BY DEF SetupTyped, Dialogs
<1>2. Caller(d) \in Callers
  BY <1>1 DEF Caller, DialogRecord
<1> QED
  BY <1>1, <1>2 DEF SetupTyped

\* Dialog d, as r, and the transaction t of its INVITE go together.
Fits(d, r, t) ==
  /\ r.hanging => r.ses \in {"CONNECTING", "CONFIRMED"}
  /\ r.bye => r.ses \notin {"INCOMING", "EARLY"}
  /\ t.ok => t.state = "COMPLETED"
  /\ t.dlg = d =>
       /\ t.state = "PROCEEDING" => r.ses \in {"INCOMING", "EARLY"}
       /\ t.state = "COMPLETED" => ~(r.ses = "CONNECTING" /\ r.bye)
  /\ r.ses \in {"INCOMING", "EARLY"} => t.dlg = d /\ t.state = "PROCEEDING"
  /\ r.ses = "CONNECTING" /\ ~r.bye => t.dlg = d /\ t.state = "COMPLETED"

\* A dialog and its transaction that change together, and still fit, disturb
\* neither another dialog of the caller nor its transaction.
LEMMA TsxStep ==
  ASSUME SetupTyped, TsxInv,
         NEW d \in Dialogs, NEW r \in DialogRecord, r.caller = Caller(d),
         dlgs' = [dlgs EXCEPT ![d] = r],
         NEW t \in TsxRecord, tsx' = [tsx EXCEPT ![Caller(d)] = t],
         t.dlg = tsx[Caller(d)].dlg, t.dlg # d => t = tsx[Caller(d)],
         Fits(d, r, t)
  PROVE  TsxInv' /\ dlgs' \in Seq(DialogRecord) /\ tsx' \in [Callers -> TsxRecord]
<1> DEFINE c == Caller(d)
<1>1. /\ dlgs' \in Seq(DialogRecord)
      /\ Len(dlgs') = Len(dlgs)
      /\ \A e \in Dialogs : dlgs'[e] = IF e = d THEN r ELSE dlgs[e]
  BY OneDialogChanges DEF SetupTyped
<1>2. /\ c \in Callers
      /\ tsx' \in [Callers -> TsxRecord]
      /\ tsx'[c] = t
      /\ \A b \in Callers \ {c} : tsx'[b] = tsx[b]
  BY DialogFields DEF SetupTyped
<1>3. Dialogs' = Dialogs /\ \A e \in Dialogs : Caller(e)' = Caller(e)
  BY <1>1 DEF Dialogs, Caller
<1>4. Progress'
  BY <1>1, <1>3 DEF TsxInv, Progress, Fits
<1>5. TsxOfDialog'
  <2> SUFFICES ASSUME NEW b \in Callers
               PROVE  /\ tsx'[b].dlg # NoDialog => tsx'[b].dlg \in Dialogs /\ Caller(tsx'[b].dlg) = b
                      /\ tsx'[b].state = "PROCEEDING" =>
                           tsx'[b].dlg # NoDialog /\ dlgs'[tsx'[b].dlg].ses \in {"INCOMING", "EARLY"}
                      /\ tsx'[b].ok => tsx'[b].state = "COMPLETED"
                      /\ tsx'[b].state = "COMPLETED" /\ tsx'[b].dlg # NoDialog =>
                           ~(dlgs'[tsx'[b].dlg].ses = "CONNECTING" /\ dlgs'[tsx'[b].dlg].bye)
    BY <1>3 DEF TsxOfDialog
  <2>1. CASE b = c /\ t.dlg = d
    BY <1>1, <1>2, <2>1 DEF Fits, Dialogs, NoDialog
  <2>2. CASE b # c \/ t.dlg # d
    <3>1. tsx'[b] = tsx[b] /\ tsx[b].dlg # d
      BY <1>2, <2>2 DEF TsxInv, TsxOfDialog, Dialogs, NoDialog
    <3> QED
      BY <1>1, <3>1 DEF TsxInv, TsxOfDialog
  <2> QED
    BY <2>1, <2>2
<1>6. WaitingHasTsx'
  <2> SUFFICES ASSUME NEW e \in Dialogs, Waiting(e)'
               PROVE  /\ tsx'[Caller(e)].dlg = e
                      /\ tsx'[Caller(e)].state = IF dlgs'[e].ses = "CONNECTING" THEN "COMPLETED" ELSE "PROCEEDING"
    BY <1>3 DEF WaitingHasTsx
  <2>1. CASE e = d
    BY <1>1, <1>2, <2>1 DEF Fits, Waiting
  <2>2. CASE e # d
    <3>1. dlgs'[e] = dlgs[e] /\ Waiting(e)
      BY <1>1, <2>2 DEF Waiting
    <3>2. /\ tsx[Caller(e)].dlg = e
          /\ tsx[Caller(e)].state = IF dlgs[e].ses = "CONNECTING" THEN "COMPLETED" ELSE "PROCEEDING"
      BY <3>1 DEF TsxInv, WaitingHasTsx
    <3>3. Caller(e) \in Callers /\ tsx'[Caller(e)] = tsx[Caller(e)]
      BY <1>2, <2>2, <3>2, DialogFields
    <3> QED
      BY <3>1, <3>2, <3>3
  <2> QED
    BY <2>1, <2>2
<1> QED
  BY <1>1, <1>2, <1>4, <1>5, <1>6 DEF TsxInv

-----------------------------------------------------------------------------
(* Steps of one dialog *)

\* A session that goes on.
LEMMA KeepInv ==
  ASSUME SetupInv, NEW d \in Dialogs, NEW r \in DialogRecord, NEW t \in TsxRecord,
         r.caller = Caller(d), r.slot = dlgs[d].slot, (r.ses # "DISCONNECTED") <=> Live(d),
         Keep(d, r), tsx' = [tsx EXCEPT ![Caller(d)] = t], UNCHANGED next_call_id,
         t.dlg = tsx[Caller(d)].dlg, t.dlg # d => t = tsx[Caller(d)],
         Fits(d, r, t)
  PROVE  SetupInv'
<1>1. SlotsAgree' /\ SlotsCounted'
  BY KeepSlots DEF SetupInv
<1>2. TsxInv' /\ dlgs' \in Seq(DialogRecord) /\ tsx' \in [Callers -> TsxRecord]
  BY TsxStep DEF SetupInv, Keep
<1> QED
  BY <1>1, <1>2 DEF SetupInv, SetupTyped, Keep

\* A session that ends.
LEMMA DisconnectInv ==
  ASSUME SetupInv, NEW d \in Dialogs, NEW r \in DialogRecord, NEW t \in TsxRecord,
         r.caller = Caller(d), r.slot = dlgs[d].slot, Live(d),
         Disconnect(d, r), tsx' = [tsx EXCEPT ![Caller(d)] = t], UNCHANGED next_call_id,
         t.dlg = tsx[Caller(d)].dlg, t.dlg # d => t = tsx[Caller(d)],
         t.ok => t.state = "COMPLETED", t.dlg = d => t.state # "PROCEEDING"
  PROVE  SetupInv'
<1> DEFINE q == [r EXCEPT !.ses = "DISCONNECTED", !.hanging = FALSE]
<1>1. SlotsAgree' /\ SlotsCounted' /\ calls' \in [Slots -> Nat] /\ call_cnt' \in Int
  BY DisconnectSlots DEF SetupInv
<1>2. q \in DialogRecord /\ q.caller = Caller(d) /\ dlgs' = [dlgs EXCEPT ![d] = q]
  BY DEF DialogRecord, Sessions, Disconnect
<1>3. Fits(d, q, t)
  BY DEF Fits, DialogRecord
<1> HIDE DEF q
<1>4. TsxInv' /\ dlgs' \in Seq(DialogRecord) /\ tsx' \in [Callers -> TsxRecord]
  BY <1>2, <1>3, TsxStep DEF SetupInv
<1> QED
  BY <1>1, <1>4 DEF SetupInv, SetupTyped

\* A final answer other than 200 to a session that waits for one, by the
\* program, the caller, or the transport.
LEMMA AnsweredInv ==
  ASSUME SetupInv, NEW d \in Dialogs, NEW state \in {"COMPLETED", "TERMINATED"},
         dlgs[d].ses \in {"INCOMING", "EARLY"},
         NEW r \in DialogRecord, r.slot = dlgs[d].slot, r.caller = Caller(d),
         SetTsx(Caller(d), state), Disconnect(d, r), UNCHANGED next_call_id
  PROVE  SetupInv'
<1> DEFINE t == Tsx(state, tsx[Caller(d)].dlg)
<1>1. Live(d) /\ tsx[Caller(d)].dlg = d
  BY DEF SetupInv, TsxInv, WaitingHasTsx, Waiting, Live
<1>2. t \in TsxRecord /\ t.state = state /\ ~t.ok /\ t.dlg = d
  BY <1>1, DialogFields DEF SetupInv, Tsx, TsxRecord
<1>3. tsx' = [tsx EXCEPT ![Caller(d)] = t]
  BY DEF SetTsx
<1> HIDE DEF t
<1> QED
  BY <1>1, <1>2, <1>3, DisconnectInv

\* A transaction that changes and has no session that waits for it.
LEMMA TsxAloneInv ==
  ASSUME SetupInv, NEW c \in Callers, NEW t \in TsxRecord,
         tsx' = [tsx EXCEPT ![c] = t], UNCHANGED <<dlgs, calls, call_cnt>>, next_call_id' \in Nat,
         \A d \in Dialogs : Waiting(d) => Caller(d) # c,
         t.state # "PROCEEDING", ~t.ok,
         t.dlg = NoDialog \/ (t.dlg = tsx[c].dlg /\ t.state # "COMPLETED")
  PROVE  SetupInv'
<1>1. /\ tsx' \in [Callers -> TsxRecord]
      /\ tsx'[c] = t
      /\ \A b \in Callers \ {c} : tsx'[b] = tsx[b]
  BY DEF SetupInv, SetupTyped
<1>2. /\ Dialogs' = Dialogs
      /\ \A d \in Dialogs : (Live(d)' <=> Live(d)) /\ (Waiting(d)' <=> Waiting(d)) /\ Caller(d)' = Caller(d)
  BY DEF Dialogs, Live, Waiting, Caller
<1>3. SetupTyped' /\ SlotsAgree' /\ SlotsCounted' /\ Progress'
  BY <1>1, <1>2 DEF SetupInv, SetupTyped, SlotsAgree, SlotsCounted, Taken, TsxInv, Progress
<1>4. TsxOfDialog'
  BY <1>1, <1>2 DEF SetupInv, TsxInv, TsxOfDialog, Dialogs
<1>5. WaitingHasTsx'
  <2> SUFFICES ASSUME NEW d \in Dialogs, Waiting(d)
               PROVE  tsx'[Caller(d)] = tsx[Caller(d)]
    BY <1>2 DEF WaitingHasTsx, SetupInv, TsxInv
  <2>1. Caller(d) # c /\ Caller(d) \in Callers
    BY DialogFields DEF SetupInv
  <2> QED
    BY <1>1, <2>1
<1> QED
  BY <1>3, <1>4, <1>5 DEF SetupInv, TsxInv

\* The ACK, or the end of the wait for it, changes the session in CONNECTING
\* and no other.
LEMMA ConfirmInv ==
  ASSUME SetupInv, NEW d \in Dialogs, NEW t \in TsxRecord,
         tsx[Caller(d)].dlg = d, tsx[Caller(d)].state = "COMPLETED",
         t.dlg = d, t.state \in {"CONFIRMED", "TERMINATED"}, ~t.ok,
         Confirm(d) \/ Unconfirmed(d),
         tsx' = [tsx EXCEPT ![Caller(d)] = t], UNCHANGED next_call_id
  PROVE  SetupInv'
<1>1. dlgs[d] \in DialogRecord /\ Caller(d) \in Callers
  BY DialogFields DEF SetupInv
<1>2. CASE dlgs[d].ses = "CONNECTING"
  <2> DEFINE q == [dlgs[d] EXCEPT !.ses = "CONFIRMED"]
  <2>1. PICK r : r \in {q, Calling(q), Calling(dlgs[d])} /\ Keep(d, r)
    BY <1>2 DEF Confirm, Unconfirmed
  <2>2. /\ q \in DialogRecord /\ Calling(q) \in DialogRecord /\ Calling(dlgs[d]) \in DialogRecord
    BY <1>1 DEF Calling, DialogRecord, Sessions
  <2>3. /\ r \in DialogRecord /\ r.caller = Caller(d) /\ r.slot = dlgs[d].slot
        /\ r.ses = "CONFIRMED" \/ (r.ses = "CONNECTING" /\ r.bye)
    BY <1>1, <1>2, <2>1, <2>2, SMTT(30), ZenonT(60) DEF Calling, DialogRecord, Caller
  <2>4. Fits(d, r, t) /\ Live(d) /\ r.ses # "DISCONNECTED"
    BY <1>2, <2>3 DEF Fits, Live, DialogRecord
  <2> QED
    BY <2>1, <2>3, <2>4, KeepInv
<1>3. CASE dlgs[d].ses # "CONNECTING"
  <2>1. UNCHANGED <<dlgs, calls, call_cnt>>
    BY <1>3 DEF Confirm, Unconfirmed
  <2>2. \A e \in Dialogs : Waiting(e) => Caller(e) # Caller(d)
    BY <1>3 DEF SetupInv, TsxInv, WaitingHasTsx, Waiting
  <2> QED
    BY <1>1, <2>1, <2>2, TsxAloneInv DEF SetupInv, SetupTyped
<1> QED
  BY <1>2, <1>3

-----------------------------------------------------------------------------
(* Each step keeps the invariant *)

\* A caller without a transaction has no session that waits for it.
LEMMA NobodyWaits ==
  ASSUME SetupInv, NEW c \in Callers, tsx[c].state \notin {"PROCEEDING", "COMPLETED"}
  PROVE  \A d \in Dialogs : Waiting(d) => Caller(d) # c
BY DEF SetupInv, TsxInv, WaitingHasTsx

\* A new dialog, for an INVITE that has no transaction yet.
LEMMA NewDialogTsx ==
  ASSUME SetupInv, NEW c \in Callers, ~KeyTaken(c),
         NEW r \in DialogRecord, r.caller = c, dlgs' = Append(dlgs, r), ~r.hanging, ~r.bye,
         NEW t \in TsxRecord, tsx' = [tsx EXCEPT ![c] = t],
         t.dlg = Len(dlgs'), ~t.ok,
         \/ r.ses = "INCOMING" /\ t.state = "PROCEEDING"
         \/ r.ses = "DISCONNECTED" /\ t.state \in {"COMPLETED", "TERMINATED"}
  PROVE  TsxInv' /\ dlgs' \in Seq(DialogRecord) /\ tsx' \in [Callers -> TsxRecord]
<1> DEFINE n == Len(dlgs')
<1>1. /\ dlgs' \in Seq(DialogRecord)
      /\ Len(dlgs) \in Nat /\ n = Len(dlgs) + 1
      /\ dlgs'[n] = r
      /\ \A e \in Dialogs : dlgs'[e] = dlgs[e]
  <2>1. dlgs \in Seq(DialogRecord) /\ Len(dlgs) \in Nat
    BY DEF SetupInv, SetupTyped
  <2> QED
    BY <2>1, OneDialogMore
<1>2. /\ tsx' \in [Callers -> TsxRecord]
      /\ tsx'[c] = t
      /\ \A b \in Callers \ {c} : tsx'[b] = tsx[b]
  BY DEF SetupInv, SetupTyped
<1> HIDE DEF n
<1>3. Dialogs' = Dialogs \cup {n} /\ n \notin Dialogs /\ n # NoDialog
  BY <1>1 DEF Dialogs, NoDialog, n
<1>4. t.dlg = n
  BY DEF n
<1>5. Progress'
  BY <1>1, <1>3 DEF SetupInv, TsxInv, Progress
<1>6. TsxOfDialog'
  <2> SUFFICES ASSUME NEW b \in Callers
               PROVE  /\ tsx'[b].dlg # NoDialog => tsx'[b].dlg \in Dialogs' /\ dlgs'[tsx'[b].dlg].caller = b
                      /\ tsx'[b].state = "PROCEEDING" =>
                           tsx'[b].dlg # NoDialog /\ dlgs'[tsx'[b].dlg].ses \in {"INCOMING", "EARLY"}
                      /\ tsx'[b].ok => tsx'[b].state = "COMPLETED"
                      /\ tsx'[b].state = "COMPLETED" /\ tsx'[b].dlg # NoDialog =>
                           ~(dlgs'[tsx'[b].dlg].ses = "CONNECTING" /\ dlgs'[tsx'[b].dlg].bye)
    BY DEF TsxOfDialog, Caller
  <2>1. CASE b = c
    BY <1>1, <1>2, <1>3, <1>4, <2>1
  <2>2. CASE b # c
    <3>1. tsx'[b] = tsx[b]
      BY <1>2, <2>2
    <3>2. CASE tsx[b].dlg = NoDialog
      BY <3>1, <3>2 DEF SetupInv, TsxInv, TsxOfDialog
    <3>3. CASE tsx[b].dlg # NoDialog
      <4>1. tsx[b].dlg \in Dialogs /\ dlgs[tsx[b].dlg].caller = b
        BY <3>3 DEF SetupInv, TsxInv, TsxOfDialog, Caller
      <4>2. dlgs'[tsx[b].dlg] = dlgs[tsx[b].dlg] /\ tsx[b].dlg \in Dialogs'
        BY <1>1, <1>3, <4>1
      <4> QED
        BY <3>1, <4>1, <4>2, SMTT(30), ZenonT(60) DEF SetupInv, TsxInv, TsxOfDialog
    <3> QED
      BY <3>2, <3>3
  <2> QED
    BY <2>1, <2>2
<1>7. WaitingHasTsx'
  <2> SUFFICES ASSUME NEW e \in Dialogs', Waiting(e)'
               PROVE  /\ tsx'[dlgs'[e].caller].dlg = e
                      /\ tsx'[dlgs'[e].caller].state =
                           IF dlgs'[e].ses = "CONNECTING" THEN "COMPLETED" ELSE "PROCEEDING"
    BY DEF WaitingHasTsx, Caller
  <2>1. CASE e = n
    BY <1>1, <1>2, <1>4, <2>1 DEF Waiting
  <2>2. CASE e \in Dialogs
    <3>1. dlgs'[e] = dlgs[e] /\ Waiting(e)
      BY <1>1, <2>2 DEF Waiting
    <3>2. Caller(e) # c /\ Caller(e) \in Callers
      BY <2>2, <3>1, NobodyWaits, DialogFields DEF SetupInv, KeyTaken
    <3> QED
      BY <1>2, <2>2, <3>1, <3>2 DEF SetupInv, TsxInv, WaitingHasTsx, Caller
  <2> QED
    BY <1>3, <2>1, <2>2
<1> QED
  BY <1>1, <1>2, <1>5, <1>6, <1>7 DEF TsxInv

LEMMA FailInv ==
  ASSUME SetupInv, NEW c \in Callers, Fail(c), next_call_id' \in Nat
  PROVE  SetupInv'
<1> DEFINE r == Dialog(c, "DISCONNECTED", NoSlot)
<1>1. /\ r \in DialogRecord /\ r.caller = c /\ r.ses = "DISCONNECTED" /\ ~r.hanging /\ ~r.bye
      /\ dlgs' = Append(dlgs, r)
  BY DEF Dialog, DialogRecord, Sessions, Fail
<1> HIDE DEF r
<1>2. dlgs \in Seq(DialogRecord) /\ Len(dlgs) \in Nat
  BY DEF SetupInv, SetupTyped
<1>3. /\ Len(dlgs') = Len(dlgs) + 1 /\ dlgs'[Len(dlgs')] = r
      /\ \A e \in Dialogs : dlgs'[e] = dlgs[e]
  BY <1>1, <1>2, OneDialogMore
<1>4. PICK state \in {"COMPLETED", "TERMINATED"} : tsx' = [tsx EXCEPT ![c] = Tsx(state, Len(dlgs'))]
  BY DEF Fail
<1>5. /\ Tsx(state, Len(dlgs')) \in TsxRecord
      /\ Tsx(state, Len(dlgs')).dlg = Len(dlgs')
      /\ Tsx(state, Len(dlgs')).state = state
      /\ ~Tsx(state, Len(dlgs')).ok
  BY <1>2, <1>3 DEF Tsx, TsxRecord
<1>6. TsxInv' /\ dlgs' \in Seq(DialogRecord) /\ tsx' \in [Callers -> TsxRecord]
  BY <1>1, <1>4, <1>5, NewDialogTsx DEF Fail
<1>7. calls' = calls /\ call_cnt' = call_cnt
  BY DEF Fail
<1>8. Dialogs' = Dialogs \cup {Len(dlgs')}
  BY <1>2, <1>3 DEF Dialogs
<1>9. SlotsAgree'
  BY <1>1, <1>3, <1>7, <1>8 DEF SetupInv, SlotsAgree, Live
<1> QED
  BY <1>6, <1>7, <1>9 DEF SetupInv, SetupTyped, SlotsCounted, Taken

LEMMA OfferInv ==
  ASSUME SetupInv, NEW c \in Callers, FreeSlots # {}, Offer(c), next_call_id' \in Nat
  PROVE  SetupInv'
<1> DEFINE s == FreeSlot
           r == Dialog(c, "INCOMING", s)
           n == Len(dlgs')
           t == Tsx("PROCEEDING", n)
<1>1. s \in Slots /\ calls[s] = NoDialog
  BY FreeSlotIsFree
<1>2. /\ dlgs' = Append(dlgs, r)
      /\ tsx' = [tsx EXCEPT ![c] = t]
      /\ calls' = [calls EXCEPT ![s] = n]
      /\ call_cnt' = call_cnt + 1
      /\ ~KeyTaken(c)
  BY DEF Offer
<1> HIDE DEF s
<1>3. /\ r \in DialogRecord /\ r.caller = c /\ r.slot = s /\ r.ses = "INCOMING"
      /\ ~r.hanging /\ ~r.bye
  BY <1>1 DEF Dialog, DialogRecord, Sessions
<1> HIDE DEF r
<1>4. dlgs \in Seq(DialogRecord) /\ Len(dlgs) \in Nat
  BY DEF SetupInv, SetupTyped
<1>5. /\ n = Len(dlgs) + 1 /\ dlgs'[n] = r
      /\ \A e \in Dialogs : dlgs'[e] = dlgs[e]
  BY <1>2, <1>3, <1>4, OneDialogMore
<1>6. t \in TsxRecord /\ t.dlg = n /\ t.state = "PROCEEDING" /\ ~t.ok
  BY <1>4, <1>5 DEF Tsx, TsxRecord
<1>7. TsxInv' /\ dlgs' \in Seq(DialogRecord) /\ tsx' \in [Callers -> TsxRecord]
  <2> HIDE DEF t
  <2> QED
    BY <1>2, <1>3, <1>6, NewDialogTsx
<1> HIDE DEF n
<1>8. Dialogs' = Dialogs \cup {n} /\ n \notin Dialogs /\ n \in Nat /\ n # NoDialog
  BY <1>4, <1>5 DEF Dialogs, n, NoDialog
<1>9. /\ calls' \in [Slots -> Nat]
      /\ \A q \in Slots : calls'[q] = IF q = s THEN n ELSE calls[q]
  BY <1>1, <1>2, <1>8 DEF SetupInv, SetupTyped
<1>10. SlotsAgree'
  <2>1. ASSUME NEW q \in Slots, calls'[q] # NoDialog
        PROVE  /\ calls'[q] \in Dialogs' /\ dlgs'[calls'[q]].slot = q
               /\ dlgs'[calls'[q]].ses # "DISCONNECTED"
    <3>1. CASE q = s
      BY <1>3, <1>5, <1>8, <1>9, <3>1
    <3>2. CASE q # s
      <4>1. calls'[q] = calls[q] /\ calls[q] # NoDialog
        BY <1>9, <2>1, <3>2
      <4>2. calls[q] \in Dialogs /\ Live(calls[q]) /\ dlgs[calls[q]].slot = q
        BY <4>1 DEF SetupInv, SlotsAgree
      <4> QED
        BY <1>5, <1>8, <4>1, <4>2 DEF Live
    <3> QED
      BY <3>1, <3>2
  <2>2. ASSUME NEW d \in Dialogs', dlgs'[d].ses # "DISCONNECTED"
        PROVE  dlgs'[d].slot \in Slots /\ calls'[dlgs'[d].slot] = d
    <3>1. CASE d = n
      BY <1>1, <1>3, <1>5, <1>9, <3>1
    <3>2. CASE d \in Dialogs
      <4>1. dlgs'[d] = dlgs[d] /\ Live(d) /\ d # NoDialog
        BY <1>5, <2>2, <3>2 DEF Live, Dialogs, NoDialog
      <4> QED
        BY <1>1, <1>9, <4>1, <3>2 DEF SetupInv, SlotsAgree
    <3> QED
      BY <1>8, <3>1, <3>2
  <2> QED
    BY <2>1, <2>2 DEF SlotsAgree, Live
<1>11. Taken' = Taken \cup {s} /\ s \notin Taken
  BY <1>1, <1>8, <1>9 DEF Taken
<1>12. Cardinality(Taken') = Cardinality(Taken) + 1
  BY <1>11, TakenFinite, FS_AddElement
<1> QED
  BY <1>2, <1>7, <1>9, <1>10, <1>12 DEF SetupInv, SetupTyped, SlotsCounted

LEMMA RxInviteInv ==
  ASSUME SetupInv, NEW c \in Callers, RxInvite(c)
  PROVE  SetupInv'
<1>1. Wrapped \in Nat
  BY DEF Wrapped, SetupInv, SetupTyped
<1>2. next_call_id' \in Nat
  BY <1>1 DEF RxInvite
<1>3. CASE UNCHANGED <<tsx, dlgs, calls, call_cnt>>
  BY <1>2, <1>3 DEF SetupInv, SetupTyped, SlotsAgree, SlotsCounted, Taken, TsxInv, Progress,
       TsxOfDialog, WaitingHasTsx, Waiting, Live, Caller, Dialogs
<1>4. CASE /\ ~KeyTaken(c) /\ tsx' = [tsx EXCEPT ![c] = Tsx("COMPLETED", NoDialog)]
           /\ UNCHANGED <<dlgs, calls, call_cnt>>
  <2>1. \A d \in Dialogs : Waiting(d) => Caller(d) # c
    BY <1>4, NobodyWaits DEF KeyTaken
  <2>2. /\ Tsx("COMPLETED", NoDialog) \in TsxRecord
        /\ Tsx("COMPLETED", NoDialog).dlg = NoDialog
        /\ Tsx("COMPLETED", NoDialog).state # "PROCEEDING"
        /\ ~Tsx("COMPLETED", NoDialog).ok
    BY DEF Tsx, TsxRecord, NoDialog
  <2> QED
    BY <1>2, <1>4, <2>1, <2>2, TsxAloneInv
<1>5. CASE FreeSlots # {} /\ (Fail(c) \/ Offer(c))
  BY <1>2, <1>5, FailInv, OfferInv
<1> QED
  BY <1>3, <1>4, <1>5 DEF RxInvite, TurnAway

\* A transaction that stays, for KeepInv and DisconnectInv.
LEMMA SameTsx ==
  ASSUME SetupInv, NEW d \in Dialogs, UNCHANGED tsx
  PROVE  /\ tsx[Caller(d)] \in TsxRecord
         /\ tsx' = [tsx EXCEPT ![Caller(d)] = tsx[Caller(d)]]
         /\ tsx[Caller(d)].ok => tsx[Caller(d)].state = "COMPLETED"
<1>1. Caller(d) \in Callers /\ tsx[Caller(d)] \in TsxRecord
  BY DialogFields DEF SetupInv
<1> QED
  BY <1>1 DEF SetupInv, SetupTyped, TsxInv, TsxOfDialog

\* A dialog and the transaction of its INVITE go together.
LEMMA FitsNow ==
  ASSUME SetupInv, NEW d \in Dialogs
  PROVE  Fits(d, dlgs[d], tsx[Caller(d)])
<1>1. Caller(d) \in Callers /\ d # NoDialog
  BY DialogFields DEF SetupInv, Dialogs, NoDialog
<1>2. dlgs[d].ses \in {"INCOMING", "EARLY"} =>
        tsx[Caller(d)].dlg = d /\ tsx[Caller(d)].state = "PROCEEDING"
  BY DEF SetupInv, TsxInv, WaitingHasTsx, Waiting
<1>3. dlgs[d].ses = "CONNECTING" /\ ~dlgs[d].bye =>
        tsx[Caller(d)].dlg = d /\ tsx[Caller(d)].state = "COMPLETED"
  BY DEF SetupInv, TsxInv, WaitingHasTsx, Waiting
<1> QED
  BY <1>1, <1>2, <1>3 DEF Fits, SetupInv, TsxInv, Progress, TsxOfDialog

LEMMA RingInv ==
  ASSUME SetupInv, NEW d \in Dialogs, Ring(d)
  PROVE  SetupInv'
<1> DEFINE r == [dlgs[d] EXCEPT !.ses = "EARLY"]
<1>1. dlgs[d] \in DialogRecord
  BY DialogFields DEF SetupInv
<1>2. /\ r \in DialogRecord /\ r.caller = Caller(d) /\ r.slot = dlgs[d].slot /\ r.ses = "EARLY"
      /\ r.hanging = dlgs[d].hanging /\ r.bye = dlgs[d].bye
  BY <1>1 DEF DialogRecord, Sessions, Caller
<1>3. Keep(d, r) /\ dlgs[d].ses = "INCOMING" /\ UNCHANGED <<tsx, next_call_id>>
  BY DEF Ring
<1> HIDE DEF r
<1>4. Fits(d, r, tsx[Caller(d)])
  BY <1>2, <1>3, SameTsx DEF Fits, SetupInv, TsxInv, Progress, WaitingHasTsx, Waiting
<1> QED
  BY <1>2, <1>3, <1>4, SameTsx, KeepInv DEF Live

LEMMA AnswerInv ==
  ASSUME SetupInv, NEW d \in Dialogs, Answer(d)
  PROVE  SetupInv'
<1> DEFINE r == [dlgs[d] EXCEPT !.ses = "CONNECTING"]
           t == [state |-> "COMPLETED", dlg |-> tsx[Caller(d)].dlg, ok |-> TRUE]
<1>1. dlgs[d] \in DialogRecord /\ Caller(d) \in Callers /\ tsx[Caller(d)] \in TsxRecord
  BY DialogFields DEF SetupInv
<1>2. /\ r \in DialogRecord /\ r.caller = Caller(d) /\ r.slot = dlgs[d].slot /\ r.ses = "CONNECTING"
      /\ r.hanging = dlgs[d].hanging /\ r.bye = dlgs[d].bye
  BY <1>1 DEF DialogRecord, Sessions, Caller
<1>3. Keep(d, r) /\ dlgs[d].ses = "EARLY" /\ UNCHANGED next_call_id
  BY DEF Answer
<1>4. tsx' = [tsx EXCEPT ![Caller(d)] = t]
  BY DEF Answer
<1>5. t \in TsxRecord /\ t.dlg = tsx[Caller(d)].dlg /\ t.state = "COMPLETED" /\ tsx[Caller(d)].dlg = d
  BY <1>1, <1>3 DEF TsxRecord, SetupInv, TsxInv, WaitingHasTsx, Waiting
<1> HIDE DEF r, t
<1>6. Fits(d, r, t)
  BY <1>2, <1>3, <1>5 DEF Fits, SetupInv, TsxInv, Progress
<1> QED
  BY <1>2, <1>3, <1>4, <1>5, <1>6, KeepInv DEF Live

LEMMA HangupInv ==
  ASSUME SetupInv, NEW d \in Dialogs, Hangup(d)
  PROVE  SetupInv'
<1> DEFINE r == [dlgs[d] EXCEPT !.hanging = TRUE]
<1>1. dlgs[d] \in DialogRecord
  BY DialogFields DEF SetupInv
<1>2. /\ r \in DialogRecord /\ r.caller = Caller(d) /\ r.slot = dlgs[d].slot /\ r.ses = dlgs[d].ses
      /\ r.bye = dlgs[d].bye
  BY <1>1 DEF DialogRecord, Caller
<1>3. /\ Calling(r) \in DialogRecord /\ Calling(r).caller = Caller(d)
      /\ Calling(r).slot = dlgs[d].slot /\ Calling(r).ses = dlgs[d].ses
  BY <1>2 DEF Calling, DialogRecord
<1>4. \/ dlgs[d].ses = "EARLY" /\ Answered(d, r)
      \/ dlgs[d].ses = "CONNECTING" /\ Keep(d, r) /\ UNCHANGED <<tsx, next_call_id>>
      \/ dlgs[d].ses = "CONFIRMED" /\ Keep(d, Calling(r)) /\ UNCHANGED <<tsx, next_call_id>>
  BY <1>2 DEF Hangup
<1> HIDE DEF r
<1>5. CASE dlgs[d].ses = "EARLY" /\ Answered(d, r)
  BY <1>2, <1>5, AnsweredInv DEF Answered
<1>6. CASE dlgs[d].ses = "CONNECTING" /\ Keep(d, r) /\ UNCHANGED <<tsx, next_call_id>>
  <2>1. Fits(d, r, tsx[Caller(d)])
    BY <1>2, <1>6, FitsNow DEF Fits
  <2> QED
    BY <1>2, <1>6, <2>1, SameTsx, KeepInv DEF Live
<1>7. CASE dlgs[d].ses = "CONFIRMED" /\ Keep(d, Calling(r)) /\ UNCHANGED <<tsx, next_call_id>>
  <2>1. Fits(d, Calling(r), tsx[Caller(d)])
    BY <1>3, <1>7, FitsNow DEF Fits
  <2> QED
    BY <1>3, <1>7, <2>1, SameTsx, KeepInv DEF Live
<1> QED
  BY <1>4, <1>5, <1>6, <1>7

LEMMA ByeEndsInv ==
  ASSUME SetupInv, NEW d \in Dialogs, ByeEnds(d)
  PROVE  SetupInv'
<1> DEFINE r == [dlgs[d] EXCEPT !.bye = FALSE]
<1>1. dlgs[d] \in DialogRecord
  BY DialogFields DEF SetupInv
<1>2. /\ r \in DialogRecord /\ r.caller = Caller(d) /\ r.slot = dlgs[d].slot /\ r.ses = dlgs[d].ses
      /\ r.hanging = dlgs[d].hanging /\ ~r.bye
  BY <1>1 DEF DialogRecord, Caller
<1>3. dlgs[d].ses \notin {"INCOMING", "EARLY"} /\ EndOnce(d, r) /\ UNCHANGED <<tsx, next_call_id>>
  BY DEF ByeEnds, SetupInv, TsxInv, Progress
<1>4. tsx[Caller(d)].dlg = d => tsx[Caller(d)].state # "PROCEEDING"
  BY <1>3, DialogFields DEF SetupInv, TsxInv, TsxOfDialog
<1> HIDE DEF r
<1>5. CASE Live(d)
  BY <1>2, <1>3, <1>4, <1>5, SameTsx, DisconnectInv DEF EndOnce
<1>6. CASE ~Live(d)
  <2>1. Fits(d, r, tsx[Caller(d)])
    BY <1>2, <1>4, <1>6, FitsNow DEF Fits, Live
  <2> QED
    BY <1>2, <1>3, <1>6, <2>1, SameTsx, KeepInv DEF EndOnce, Live
<1> QED
  BY <1>5, <1>6

LEMMA RxByeInv ==
  ASSUME SetupInv, NEW d \in Dialogs, Idle, RxBye(d)
  PROVE  SetupInv'
<1>1. dlgs[d] \in DialogRecord /\ dlgs[d].caller = Caller(d) /\ Caller(d) \in Callers
  BY DialogFields DEF SetupInv, Caller
<1>2. Live(d) /\ Disconnect(d, dlgs[d]) /\ UNCHANGED next_call_id /\ dlgs[d].ses # "INCOMING"
  BY DEF RxBye, EndOnce, Idle
<1>3. CASE dlgs[d].ses = "EARLY"
  BY <1>1, <1>2, <1>3, AnsweredInv DEF RxBye
<1>4. CASE dlgs[d].ses # "EARLY"
  <2>1. tsx[Caller(d)].dlg = d => tsx[Caller(d)].state # "PROCEEDING"
    BY <1>1, <1>2, <1>4 DEF SetupInv, TsxInv, TsxOfDialog
  <2>2. UNCHANGED tsx
    BY <1>4 DEF RxBye
  <2> QED
    BY <1>1, <1>2, <2>1, <2>2, SameTsx, DisconnectInv
<1> QED
  BY <1>3, <1>4

\* The transaction moves on for the ACK of its caller, or when a timer ends it.
LEMMA MovedTsx ==
  ASSUME SetupInv, NEW c \in Callers, NEW state \in {"CONFIRMED", "TERMINATED"}, SetTsx(c, state)
  PROVE  LET t == Tsx(state, tsx[c].dlg) IN
         /\ t \in TsxRecord /\ t.dlg = tsx[c].dlg /\ t.state = state /\ ~t.ok
         /\ tsx' = [tsx EXCEPT ![c] = t]
<1>1. tsx[c] \in TsxRecord
  BY DEF SetupInv, SetupTyped
<1> QED
  BY <1>1 DEF SetTsx, Tsx, TsxRecord

\* The end of a transaction in COMPLETED, whatever session it has.
LEMMA EndsCompletedInv ==
  ASSUME SetupInv, NEW c \in Callers, NEW state \in {"CONFIRMED", "TERMINATED"},
         tsx[c].state = "COMPLETED", SetTsx(c, state), UNCHANGED next_call_id,
         IF tsx[c].dlg = NoDialog THEN UNCHANGED <<dlgs, calls, call_cnt>>
         ELSE Confirm(tsx[c].dlg) \/ Unconfirmed(tsx[c].dlg)
  PROVE  SetupInv'
<1> DEFINE t == Tsx(state, tsx[c].dlg)
<1>1. /\ t \in TsxRecord /\ t.dlg = tsx[c].dlg /\ t.state = state /\ ~t.ok
      /\ tsx' = [tsx EXCEPT ![c] = t]
  BY MovedTsx
<1> HIDE DEF t
<1>2. CASE tsx[c].dlg = NoDialog
  <2>1. \A d \in Dialogs : Waiting(d) => Caller(d) # c
    BY <1>2 DEF SetupInv, TsxInv, WaitingHasTsx, Dialogs, NoDialog
  <2> QED
    BY <1>1, <1>2, <2>1, TsxAloneInv DEF SetupInv, SetupTyped
<1>3. CASE tsx[c].dlg # NoDialog
  <2>1. tsx[c].dlg \in Dialogs /\ Caller(tsx[c].dlg) = c
    BY <1>3 DEF SetupInv, TsxInv, TsxOfDialog
  <2> QED
    BY <1>1, <1>3, <2>1, ConfirmInv
<1> QED
  BY <1>2, <1>3

LEMMA TsxTimerInv ==
  ASSUME SetupInv, NEW c \in Callers, TsxTimer(c)
  PROVE  SetupInv'
<1>1. CASE tsx[c].state = "COMPLETED"
  BY <1>1, EndsCompletedInv DEF TsxTimer
<1>2. CASE tsx[c].state # "COMPLETED"
  <2>1. tsx[c].state \in {"CONFIRMED", "TERMINATED"} /\ UNCHANGED <<dlgs, calls, call_cnt, next_call_id>>
    BY <1>2 DEF TsxTimer
  <2>2. \A d \in Dialogs : Waiting(d) => Caller(d) # c
    BY <2>1, NobodyWaits
  <2>3. next_call_id' \in Nat
    BY <2>1 DEF SetupInv, SetupTyped
  <2>4. CASE SetTsx(c, "TERMINATED")
    <3> DEFINE t == Tsx("TERMINATED", tsx[c].dlg)
    <3>1. /\ t \in TsxRecord /\ t.dlg = tsx[c].dlg /\ t.state = "TERMINATED" /\ ~t.ok
          /\ tsx' = [tsx EXCEPT ![c] = t]
      BY <2>4, MovedTsx
    <3> HIDE DEF t
    <3> QED
      BY <2>1, <2>2, <2>3, <3>1, TsxAloneInv
  <2>5. CASE tsx' = [tsx EXCEPT ![c] = NoTsx]
    <3>1. NoTsx \in TsxRecord /\ NoTsx.dlg = NoDialog /\ NoTsx.state = "none" /\ ~NoTsx.ok
      BY DEF NoTsx, TsxRecord, NoDialog
    <3> QED
      BY <2>1, <2>2, <2>3, <2>5, <3>1, TsxAloneInv
  <2> QED
    BY <1>2, <2>4, <2>5 DEF TsxTimer
<1> QED
  BY <1>1, <1>2

\* The invariant holds at the start and is kept by every step.
LEMMA SetupInvInit == Init => SetupInv
<1> SUFFICES ASSUME Init PROVE SetupInv
  OBVIOUS
<1>1. tsx = [c \in Callers |-> NoTsx] /\ dlgs = <<>> /\ calls = [s \in Slots |-> NoDialog]
  BY DEF Init
<1>2. Dialogs = {}
  BY <1>1 DEF Dialogs
<1>3. NoTsx \in TsxRecord /\ NoTsx.state = "none" /\ NoTsx.dlg = NoDialog /\ ~NoTsx.ok
  BY DEF NoTsx, TsxRecord, NoDialog
<1>4. SetupTyped
  BY <1>1, <1>3 DEF SetupTyped, Init, NoDialog
<1>5. SlotsAgree
  BY <1>1, <1>2 DEF SlotsAgree
<1>6. SlotsCounted
  <2>1. Taken = {}
    BY <1>1 DEF Taken
  <2> QED
    BY <2>1, FS_EmptySet DEF SlotsCounted, Init
<1>7. TsxInv
  BY <1>1, <1>2, <1>3 DEF TsxInv, Progress, TsxOfDialog, WaitingHasTsx
<1> QED
  BY <1>4, <1>5, <1>6, <1>7 DEF SetupInv

LEMMA SetupInvStep == SetupInv /\ [Next]_vars => SetupInv'
<1> SUFFICES ASSUME SetupInv, [Next]_vars PROVE SetupInv'
  OBVIOUS
<1>1. ASSUME NEW d \in Dialogs, Ring(d) PROVE SetupInv'
  BY <1>1, RingInv
<1>2. ASSUME NEW d \in Dialogs, Refuse(d) PROVE SetupInv'
  BY <1>2, DialogFields, AnsweredInv DEF Refuse, Answered, SetupInv, Caller
<1>3. ASSUME NEW d \in Dialogs, NotSent(d) PROVE SetupInv'
  BY <1>3, DialogFields, AnsweredInv DEF NotSent, SetupInv, Caller
<1>4. ASSUME NEW d \in Dialogs, Answer(d) PROVE SetupInv'
  BY <1>4, AnswerInv
<1>5. ASSUME NEW d \in Dialogs, Hangup(d) PROVE SetupInv'
  BY <1>5, HangupInv
<1>6. ASSUME NEW c \in Callers, RxInvite(c) PROVE SetupInv'
  BY <1>6, RxInviteInv
<1>7. ASSUME NEW c \in Callers, RxAckSameBranch(c) PROVE SetupInv'
  BY <1>7, EndsCompletedInv DEF RxAckSameBranch
<1>8. ASSUME NEW c \in Callers, RxCancel(c) PROVE SetupInv'
  <2> DEFINE d == tsx[c].dlg
  <2>1. d \in Dialogs /\ Caller(d) = c /\ dlgs[d].ses \in {"INCOMING", "EARLY"}
    BY <1>8 DEF RxCancel, SetupInv, TsxInv, TsxOfDialog
  <2>2. Answered(d, dlgs[d])
    BY <1>8 DEF RxCancel
  <2> HIDE DEF d
  <2> QED
    BY <2>1, <2>2, DialogFields, AnsweredInv DEF Answered, SetupInv, Caller
<1>9. ASSUME NEW d \in Dialogs, RxAckNewBranch(d) PROVE SetupInv'
  <2>1. Caller(d) \in Callers /\ d # NoDialog
    BY DialogFields DEF SetupInv, Dialogs, NoDialog
  <2> QED
    BY <1>9, <2>1, EndsCompletedInv DEF RxAckNewBranch, SetupInv, TsxInv, TsxOfDialog
<1>10. ASSUME NEW d \in Dialogs, Idle, RxBye(d) PROVE SetupInv'
  BY <1>10, RxByeInv
<1>11. ASSUME NEW c \in Callers, TsxTimer(c) PROVE SetupInv'
  BY <1>11, TsxTimerInv
<1>12. ASSUME NEW d \in Dialogs, ByeEnds(d) PROVE SetupInv'
  BY <1>12, ByeEndsInv
<1>13. CASE UNCHANGED vars
  BY <1>13 DEF vars, SetupInv, SetupTyped, SlotsAgree, SlotsCounted, Taken, TsxInv, Progress,
       TsxOfDialog, WaitingHasTsx, Waiting, Live, Caller, Dialogs
<1> QED
  BY <1>1, <1>2, <1>3, <1>4, <1>5, <1>6, <1>7, <1>8, <1>9, <1>10, <1>11, <1>12, <1>13
     DEF Next, Program, Requests, Timers

\* The invariant holds of every behaviour.
LEMMA SetupInvariant == SetupSpec => []SetupInv
<1> QED
  BY SetupInvInit, SetupInvStep, PTL DEF SetupSpec

-----------------------------------------------------------------------------
(* Every slot is one of module CallSlot *)

\* The slots other than those that change show what they showed.
SameView(s) ==
  calls'[s] = calls[s] /\ (Held(s) => dlgs'[calls[s]] = dlgs[calls[s]])

LEMMA SameViewStutters ==
  ASSUME NEW s \in Slots, SameView(s)
  PROVE  UNCHANGED Slot(s)!vars
BY DEF SameView, Held, Slot!vars

\* A dialog that changes shows in its own slot only, and there as what it becomes.
LEMMA KeepShows ==
  ASSUME SetupInv, NEW d \in Dialogs, NEW r \in DialogRecord, Keep(d, r), NEW s \in Slots
  PROVE  \/ SameView(s)
         \/ calls[s] = d /\ calls'[s] = d /\ dlgs'[d] = r /\ Live(d) /\ d # NoDialog
<1>1. calls' = calls /\ \A e \in Dialogs : dlgs'[e] = IF e = d THEN r ELSE dlgs[e]
  BY OneDialogChanges DEF Keep, SetupInv, SetupTyped
<1>2. calls[s] # NoDialog => calls[s] \in Dialogs /\ Live(calls[s])
  BY DEF SetupInv, SlotsAgree
<1> QED
  BY <1>1, <1>2 DEF SameView, Held, Dialogs, NoDialog

\* A session that ends leaves its slot, and the others as they are.
LEMMA DisconnectEnds ==
  ASSUME SetupInv, NEW d \in Dialogs, NEW r \in DialogRecord, Disconnect(d, r),
         r.slot = dlgs[d].slot, Live(d), NEW s \in Slots
  PROVE  [Slot(s)!Next]_(Slot(s)!vars)
<1> DEFINE q == [r EXCEPT !.ses = "DISCONNECTED", !.hanging = FALSE]
           p == dlgs[d].slot
<1>1. p \in Slots /\ calls[p] = d /\ p # NoSlot
  BY SetupAssumption DEF SetupInv, SlotsAgree, Slots, NoSlot
<1>2. dlgs' = [dlgs EXCEPT ![d] = q] /\ calls' = [calls EXCEPT ![p] = NoDialog]
  BY <1>1 DEF Disconnect
<1>3. q \in DialogRecord
  BY DEF DialogRecord, Sessions
<1> HIDE DEF q
<1>4. \A e \in Dialogs : dlgs'[e] = IF e = d THEN q ELSE dlgs[e]
  BY <1>2, <1>3, OneDialogChanges DEF SetupInv, SetupTyped
<1>5. \A t \in Slots : calls'[t] = IF t = p THEN NoDialog ELSE calls[t]
  BY <1>1, <1>2 DEF SetupInv, SetupTyped
<1>6. CASE s = p
  <2>1. Held(s) /\ ~Held(s)' /\ dlgs[calls[s]].ses # "NULL"
    BY <1>1, <1>5, <1>6, DialogFields DEF Held, Dialogs, NoDialog, SetupInv, DialogRecord, Sessions
  <2>2. Slot(s)!End
    BY <2>1 DEF Slot!End, Held
  <2> QED
    BY <2>2 DEF Slot!Next
<1>7. CASE s # p
  <2>1. calls'[s] = calls[s]
    BY <1>5, <1>7
  <2>2. Held(s) => calls[s] \in Dialogs /\ calls[s] # d
    BY <1>1, <1>7 DEF Held, SetupInv, SlotsAgree
  <2>3. SameView(s)
    BY <1>4, <2>1, <2>2 DEF SameView
  <2> QED
    BY <2>3, SameViewStutters
<1> QED
  BY <1>6, <1>7

\* The ACK of a call, or the end of the wait for it, found by a transaction in COMPLETED.
LEMMA ConfirmShows ==
  ASSUME SetupInv, NEW d \in Dialogs, tsx[Caller(d)].dlg = d, tsx[Caller(d)].state = "COMPLETED",
         Confirm(d) \/ Unconfirmed(d), NEW s \in Slots
  PROVE  [Slot(s)!Next]_(Slot(s)!vars)
<1>1. dlgs[d] \in DialogRecord /\ Caller(d) \in Callers /\ d # NoDialog
  BY DialogFields DEF SetupInv, Dialogs, NoDialog
<1>2. CASE dlgs[d].ses = "CONNECTING"
  <2> DEFINE q == [dlgs[d] EXCEPT !.ses = "CONFIRMED"]
  <2>1. \/ Keep(d, IF q.hanging THEN Calling(q) ELSE q)
        \/ Keep(d, Calling(dlgs[d]))
    BY <1>2 DEF Confirm, Unconfirmed
  <2>2. ~dlgs[d].bye
    BY <1>1, <1>2 DEF SetupInv, TsxInv, TsxOfDialog
  <2>3. /\ q \in DialogRecord /\ q.hanging = dlgs[d].hanging /\ q.ses = "CONFIRMED" /\ ~q.bye
    BY <1>1, <2>2 DEF DialogRecord, Sessions
  <2> HIDE DEF q
  <2>4. CASE Keep(d, IF q.hanging THEN Calling(q) ELSE q)
    <3> DEFINE r == IF q.hanging THEN Calling(q) ELSE q
    <3>1. r \in DialogRecord /\ r.ses = "CONFIRMED" /\ r.hanging = dlgs[d].hanging /\ r.bye = dlgs[d].hanging
      BY <1>1, <2>3 DEF Calling, DialogRecord
    <3>2. Keep(d, r)
      BY <2>4
    <3> HIDE DEF r
    <3>3. CASE calls[s] = d /\ calls'[s] = d /\ dlgs'[d] = r
      <4>1. Slot(s)!Ack
        BY <1>1, <1>2, <2>2, <3>1, <3>3 DEF Slot!Ack, Held
      <4> QED
        BY <4>1 DEF Slot!Next
    <3> QED
      BY <3>1, <3>2, <3>3, KeepShows, SameViewStutters
  <2>5. CASE Keep(d, Calling(dlgs[d]))
    <3> DEFINE r == Calling(dlgs[d])
    <3>1. r \in DialogRecord /\ r.ses = "CONNECTING" /\ r.hanging = dlgs[d].hanging /\ r.bye
      BY <1>1, <1>2 DEF Calling, DialogRecord
    <3>2. Keep(d, r)
      BY <2>5
    <3> HIDE DEF r
    <3>3. CASE calls[s] = d /\ calls'[s] = d /\ dlgs'[d] = r
      <4>1. Slot(s)!NoAck
        BY <1>1, <1>2, <2>2, <3>1, <3>3 DEF Slot!NoAck, Held
      <4> QED
        BY <4>1 DEF Slot!Next
    <3> QED
      BY <3>1, <3>2, <3>3, KeepShows, SameViewStutters
  <2> QED
    BY <2>1, <2>4, <2>5
<1>3. CASE dlgs[d].ses # "CONNECTING"
  <2>1. SameView(s)
    BY <1>3 DEF Confirm, Unconfirmed, SameView
  <2> QED
    BY <2>1, SameViewStutters
<1> QED
  BY <1>2, <1>3

\* A new call appears in a slot that showed none; a failed one nowhere.
LEMMA RxInviteShows ==
  ASSUME SetupInv, NEW c \in Callers, RxInvite(c), NEW s \in Slots
  PROVE  [Slot(s)!Next]_(Slot(s)!vars)
<1>1. dlgs \in Seq(DialogRecord) /\ Len(dlgs) \in Nat /\ NoSlot \in Slots \cup {NoSlot}
  BY DEF SetupInv, SetupTyped
<1>2. Held(s) => calls[s] \in Dialogs
  BY DEF Held, SetupInv, SlotsAgree
<1>3. CASE UNCHANGED <<dlgs, calls>>
  BY <1>3, SameViewStutters DEF SameView
<1>4. CASE Fail(c)
  <2> DEFINE r == Dialog(c, "DISCONNECTED", NoSlot)
  <2>1. r \in DialogRecord /\ dlgs' = Append(dlgs, r) /\ calls' = calls
    BY <1>4 DEF Dialog, DialogRecord, Sessions, Fail
  <2> HIDE DEF r
  <2>2. \A e \in Dialogs : dlgs'[e] = dlgs[e]
    BY <1>1, <2>1, OneDialogMore
  <2> QED
    BY <1>2, <2>1, <2>2, SameViewStutters DEF SameView
<1>5. CASE FreeSlots # {} /\ Offer(c)
  <2> DEFINE f == FreeSlot
             r == Dialog(c, "INCOMING", f)
             n == Len(dlgs')
  <2>1. f \in Slots /\ calls[f] = NoDialog
    BY <1>5, FreeSlotIsFree
  <2>2. dlgs' = Append(dlgs, r) /\ calls' = [calls EXCEPT ![f] = n]
    BY <1>5 DEF Offer
  <2> HIDE DEF f
  <2>3. r \in DialogRecord /\ r.ses = "INCOMING" /\ ~r.hanging /\ ~r.bye
    BY <2>1 DEF Dialog, DialogRecord, Sessions
  <2> HIDE DEF r
  <2>4. n = Len(dlgs) + 1 /\ dlgs'[n] = r /\ \A e \in Dialogs : dlgs'[e] = dlgs[e]
    BY <1>1, <2>2, <2>3, OneDialogMore
  <2> HIDE DEF n
  <2>5. n # NoDialog /\ \A t \in Slots : calls'[t] = IF t = f THEN n ELSE calls[t]
    BY <1>1, <2>1, <2>2, <2>4 DEF SetupInv, SetupTyped, NoDialog
  <2>6. CASE s = f
    <3>1. ~Held(s) /\ Held(s)' /\ calls'[s] = n
      BY <2>1, <2>5, <2>6 DEF Held
    <3>2. Slot(s)!Offer
      BY <2>3, <2>4, <3>1 DEF Slot!Offer, Slot!Move, Held
    <3> QED
      BY <3>2 DEF Slot!Next
  <2>7. CASE s # f
    BY <1>2, <2>4, <2>5, <2>7, SameViewStutters DEF SameView
  <2> QED
    BY <2>6, <2>7
<1> QED
  BY <1>3, <1>4, <1>5 DEF RxInvite, TurnAway

LEMMA RingShows ==
  ASSUME SetupInv, NEW d \in Dialogs, Ring(d) \/ Answer(d), NEW s \in Slots
  PROVE  [Slot(s)!Next]_(Slot(s)!vars)
<1> DEFINE to == IF dlgs[d].ses = "INCOMING" THEN "EARLY" ELSE "CONNECTING"
           r == [dlgs[d] EXCEPT !.ses = to]
<1>1. dlgs[d] \in DialogRecord
  BY DialogFields DEF SetupInv
<1>2. r \in DialogRecord /\ r.ses = to /\ r.hanging = dlgs[d].hanging /\ r.bye = dlgs[d].bye
  BY <1>1 DEF DialogRecord, Sessions
<1>3. Keep(d, r) /\ dlgs[d].ses \in {"INCOMING", "EARLY"}
  BY DEF Ring, Answer
<1> HIDE DEF r
<1>4. CASE calls[s] = d /\ calls'[s] = d /\ dlgs'[d] = r /\ d # NoDialog
  <2>1. Slot(s)!Ring \/ Slot(s)!Answer
    BY <1>2, <1>3, <1>4 DEF Slot!Ring, Slot!Answer, Slot!Move, Held
  <2> QED
    BY <2>1 DEF Slot!Next
<1> QED
  BY <1>2, <1>3, <1>4, KeepShows, SameViewStutters

LEMMA HangupShows ==
  ASSUME SetupInv, NEW d \in Dialogs, Hangup(d), NEW s \in Slots
  PROVE  [Slot(s)!Next]_(Slot(s)!vars)
<1> DEFINE r == [dlgs[d] EXCEPT !.hanging = TRUE]
<1>1. dlgs[d] \in DialogRecord
  BY DialogFields DEF SetupInv
<1>2. /\ r \in DialogRecord /\ r.slot = dlgs[d].slot /\ r.ses = dlgs[d].ses /\ r.hanging
      /\ r.bye = dlgs[d].bye
  BY <1>1 DEF DialogRecord
<1>3. /\ Calling(r) \in DialogRecord /\ Calling(r).ses = dlgs[d].ses /\ Calling(r).hanging
      /\ Calling(r).bye
  BY <1>2 DEF Calling, DialogRecord
<1>4. \/ dlgs[d].ses = "EARLY" /\ Disconnect(d, r)
      \/ dlgs[d].ses = "CONNECTING" /\ Keep(d, r)
      \/ dlgs[d].ses = "CONFIRMED" /\ Keep(d, Calling(r))
  BY <1>2 DEF Hangup, Answered
<1>5. ~dlgs[d].hanging
  BY DEF Hangup
<1> HIDE DEF r
<1>6. CASE dlgs[d].ses = "EARLY" /\ Disconnect(d, r)
  BY <1>2, <1>6, DisconnectEnds DEF Live
<1>7. CASE dlgs[d].ses = "CONNECTING" /\ Keep(d, r)
  <2>1. CASE calls[s] = d /\ calls'[s] = d /\ dlgs'[d] = r /\ d # NoDialog
    <3>1. Slot(s)!Hangup
      BY <1>1, <1>2, <1>5, <1>7, <2>1 DEF Slot!Hangup, Held, DialogRecord
    <3> QED
      BY <3>1 DEF Slot!Next
  <2> QED
    BY <1>2, <1>7, <2>1, KeepShows, SameViewStutters
<1>8. CASE dlgs[d].ses = "CONFIRMED" /\ Keep(d, Calling(r))
  <2>1. CASE calls[s] = d /\ calls'[s] = d /\ dlgs'[d] = Calling(r) /\ d # NoDialog
    <3>1. Slot(s)!Hangup
      BY <1>1, <1>3, <1>5, <1>8, <2>1 DEF Slot!Hangup, Held, DialogRecord
    <3> QED
      BY <3>1 DEF Slot!Next
  <2> QED
    BY <1>3, <1>8, <2>1, KeepShows, SameViewStutters
<1> QED
  BY <1>4, <1>6, <1>7, <1>8

LEMMA ByeEndsShows ==
  ASSUME SetupInv, NEW d \in Dialogs, ByeEnds(d), NEW s \in Slots
  PROVE  [Slot(s)!Next]_(Slot(s)!vars)
<1> DEFINE r == [dlgs[d] EXCEPT !.bye = FALSE]
<1>1. dlgs[d] \in DialogRecord
  BY DialogFields DEF SetupInv
<1>2. r \in DialogRecord /\ r.slot = dlgs[d].slot /\ EndOnce(d, r)
  BY <1>1 DEF DialogRecord, ByeEnds
<1> HIDE DEF r
<1>3. CASE Live(d)
  BY <1>2, <1>3, DisconnectEnds DEF EndOnce
<1>4. CASE ~Live(d)
  BY <1>2, <1>4, KeepShows, SameViewStutters DEF EndOnce
<1> QED
  BY <1>3, <1>4

LEMMA SlotsStepTaken == SetupInv /\ [Next]_vars => SlotsStep
<1> SUFFICES ASSUME SetupInv, [Next]_vars, NEW s \in Slots
             PROVE  [Slot(s)!Next]_(Slot(s)!vars)
  BY DEF SlotsStep
<1> DEFINE OK == [Slot(s)!Next]_(Slot(s)!vars)
<1>1. \A d \in Dialogs : dlgs[d] \in DialogRecord /\ Caller(d) \in Callers /\ d # NoDialog
  BY DialogFields DEF SetupInv, Dialogs, NoDialog
<1>2. ASSUME NEW d \in Dialogs, Ring(d) \/ Answer(d) PROVE OK
  BY <1>2, RingShows
<1>3. ASSUME NEW d \in Dialogs, Refuse(d) \/ NotSent(d) \/ (Idle /\ RxBye(d)) PROVE OK
  <2>1. Disconnect(d, dlgs[d]) /\ Live(d)
    BY <1>3 DEF Refuse, Answered, NotSent, RxBye, EndOnce, Live
  <2> QED
    BY <1>1, <2>1, DisconnectEnds
<1>4. ASSUME NEW d \in Dialogs, Hangup(d) PROVE OK
  BY <1>4, HangupShows
<1>5. ASSUME NEW c \in Callers, RxInvite(c) PROVE OK
  BY <1>5, RxInviteShows
<1>6. ASSUME NEW c \in Callers, tsx[c].state = "COMPLETED",
             IF tsx[c].dlg = NoDialog THEN UNCHANGED <<dlgs, calls, call_cnt>>
             ELSE Confirm(tsx[c].dlg) \/ Unconfirmed(tsx[c].dlg)
      PROVE  OK
  <2>1. CASE tsx[c].dlg = NoDialog
    BY <1>6, <2>1, SameViewStutters DEF SameView
  <2>2. CASE tsx[c].dlg # NoDialog
    <3>1. tsx[c].dlg \in Dialogs /\ Caller(tsx[c].dlg) = c
      BY <2>2 DEF SetupInv, TsxInv, TsxOfDialog
    <3> QED
      BY <1>6, <2>2, <3>1, ConfirmShows
  <2> QED
    BY <2>1, <2>2
<1>7. ASSUME NEW c \in Callers, RxAckSameBranch(c) PROVE OK
  BY <1>6, <1>7 DEF RxAckSameBranch
<1>8. ASSUME NEW d \in Dialogs, RxAckNewBranch(d) PROVE OK
  <2>1. tsx[Caller(d)].dlg = d /\ tsx[Caller(d)].state = "COMPLETED" /\ Confirm(d)
    BY <1>1, <1>8 DEF RxAckNewBranch, SetupInv, TsxInv, TsxOfDialog
  <2> QED
    BY <2>1, ConfirmShows
<1>9. ASSUME NEW c \in Callers, RxCancel(c) PROVE OK
  <2> DEFINE d == tsx[c].dlg
  <2>1. d \in Dialogs /\ dlgs[d].ses \in {"INCOMING", "EARLY"}
    BY <1>9 DEF RxCancel, SetupInv, TsxInv, TsxOfDialog
  <2>2. Disconnect(d, dlgs[d])
    BY <1>9 DEF RxCancel, Answered
  <2> HIDE DEF d
  <2> QED
    BY <1>1, <2>1, <2>2, DisconnectEnds DEF Live
<1>10. ASSUME NEW c \in Callers, TsxTimer(c) PROVE OK
  <2>1. CASE tsx[c].state = "COMPLETED"
    BY <1>6, <1>10, <2>1 DEF TsxTimer
  <2>2. CASE tsx[c].state # "COMPLETED"
    BY <1>10, <2>2, SameViewStutters DEF TsxTimer, SameView
  <2> QED
    BY <2>1, <2>2
<1>11. ASSUME NEW d \in Dialogs, ByeEnds(d) PROVE OK
  BY <1>11, ByeEndsShows
<1>12. CASE UNCHANGED vars
  BY <1>12, SameViewStutters DEF vars, SameView
<1>13. CASE Program
  BY <1>2, <1>3, <1>4, <1>13 DEF Program
<1>14. CASE Idle /\ Requests
  BY <1>3, <1>5, <1>7, <1>8, <1>9, <1>14 DEF Requests
<1>15. CASE Timers
  BY <1>10, <1>11, <1>15 DEF Timers
<1> QED
  BY <1>12, <1>13, <1>14, <1>15 DEF Next

-----------------------------------------------------------------------------
(* Theorems *)

\* However often and however late the INVITE of a caller comes again, it never has
\* two sessions that wait for him (pjsua_call_on_incoming, sip_transaction.c).
THEOREM OneSetup == SetupSpec => []OneSetupAtATime
<1>1. SetupInv => OneSetupAtATime
  BY DEF SetupInv, TsxInv, WaitingHasTsx, OneSetupAtATime
<1> QED
  BY <1>1, SetupInvariant, PTL

\* pjsua_var.calls and the live sessions point at each other, and call_cnt counts
\* them, whatever old dialogs still name the slot (pjsua_call_on_state_changed).
THEOREM SlotsMatch == SetupSpec => []SlotsMatchSessions
<1>1. SetupInv => SlotsMatchSessions
  <2> SUFFICES ASSUME SetupInv PROVE SlotsMatchSessions
    OBVIOUS
  <2>1. Taken = Slots \ FreeSlots
    BY DEF Taken, FreeSlots
  <2> QED
    BY <2>1 DEF SetupInv, SlotsAgree, SlotsCounted, SlotsMatchSessions
<1> QED
  BY <1>1, SetupInvariant, PTL

\* Every slot of pjsua_var.calls is a slot of module CallSlot, whichever calls take
\* it in turn: it starts empty, and each step of the stack is one of its steps or
\* does not touch it.
THEOREM SlotsImplement == SetupSpec => SlotsAreCallSlots
<1>1. Init => \A s \in Slots : Slot(s)!Init
  BY DEF Init, Slot!Init, Held
<1> QED
  BY <1>1, SetupInvariant, SlotsStepTaken, PTL DEF SetupSpec, SlotsAreCallSlots
=============================================================================
