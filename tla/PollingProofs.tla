----------------------------- MODULE PollingProofs -----------------------------
(***************************************************************************)
(* TLAPS proofs about Polling, for each of the polls and any bounds: the   *)
(* types, and that the polls are in hand; and about ShareDialog, for any   *)
(* sets of targets and users: the types, and that the dialog is of its     *)
(* target however the lists, the confirmations and Escape interleave.      *)
(***************************************************************************)
EXTENDS MCPolling, TLAPS

USE DEF backendVars, timerVars

\* What a request is about: the instances there have been; an answer is the state
\* of its run; only a run that was active is cancelled, and only while it is.
GetIsSound(g) ==
    /\ g.inst <= mounts
    /\ g.from = "tick" => g.handle # 0
    /\ g.answer # Pending => g.answer \in {2 * g.run, 2 * g.run + 1} /\ (g.run = 0 => g.answer = 0)
    /\ g.from = "start" /\ g.answer # Pending => g.run # 0
    /\ g.from = "cancel" => g.run # 0 /\ g.answer \in {Pending, 2 * g.run}

\* The answer to a cancellation shows its run as active again without taking it
\* up.  That is safe because the screen has shown the run: if it knows of its end
\* by then, the answer comes out of order.
CancelsWereShown ==
    \A g \in gets : g.from = "cancel" /\ g.inst = mounted => crossed \/ known >= 2 * g.run

IInv == /\ TypeOK
        /\ mounted <= mounts /\ \A t \in live : t.inst <= mounts
        /\ \A g \in gets : GetIsSound(g)
        /\ CancelsWereShown
        /\ PollsAreInHand

-----------------------------------------------------------------------------
(* Requests *)

\* One request more.
LEMMA RequestIsTyped ==
    ASSUME gets \in SUBSET Get, NEW from \in {"mount", "tick", "start", "refresh", "cancel"},
           NEW i \in Instances, NEW h \in Handles \cup {0}, NEW r \in Runs \cup {0},
           Request(from, i, h, r)
    PROVE  LET g == [from |-> from, inst |-> i, handle |-> h, run |-> r, answer |-> Pending]
           IN  g \in Get /\ gets' = gets \cup {g}
BY DEF Request, Get

\* The backend and other users change nothing that the screen holds.
LEMMA BackendKeeps ==
    ASSUME IInv, \/ OtherStarts
                 \/ \E r \in Runs : RunEnds(r) \/ DeleteJob(r)
    PROVE  IInv'
<1>1. UNCHANGED <<kind, mounts, mounted, timerVars, gets, fails, known, crossed>>
  BY DEF OtherStarts, RunEnds, DeleteJob
<1>2. runs' \in 0..MaxRuns /\ ended' \in SUBSET Runs /\ deleted' \in SUBSET Runs
  BY BoundsAssumption DEF OtherStarts, RunEnds, DeleteJob, IInv, TypeOK
<1>3. TypeOK'
  BY <1>1, <1>2 DEF IInv, TypeOK
<1>4. QED
  BY <1>1, <1>3 DEF IInv, GetIsSound, CancelsWereShown, PollsAreInHand

\* The answer is the state of the run asked for, as it is now.
LEMMA ExecuteKeeps ==
    ASSUME IInv, NEW g \in gets, Execute(g)
    PROVE  IInv'
<1>1. /\ g \in Get /\ GetIsSound(g) /\ g.answer = Pending
      /\ runs \in 0..MaxRuns /\ MaxRuns \in Nat
  BY BoundsAssumption DEF IInv, TypeOK, Execute
<1>2. UNCHANGED <<kind, ended, deleted, mounts, mounted, timerVars, fails, known, crossed>>
  BY DEF Execute
<1>3. PICK r \in Runs \cup {0}, a \in States :
         /\ gets' = (gets \ {g}) \cup {[g EXCEPT !.run = r, !.answer = a]}
         /\ a \in {2 * r, 2 * r + 1} /\ (r = 0 => a = 0)
         /\ g.from = "start" => r # 0
         /\ g.from = "cancel" => r = g.run /\ a = 2 * r
         /\ runs' \in 0..MaxRuns
  <2>1. CASE g.from = "start"
    <3>1. runs + 1 \in Runs /\ 2 * (runs + 1) \in States
      BY <1>1, <2>1 DEF Execute, Runs, States
    <3>2. PICK r \in Runs, a \in States : r = runs + 1 /\ a = 2 * r
      BY <3>1
    <3>3. gets' = (gets \ {g}) \cup {[g EXCEPT !.run = r, !.answer = a]} /\ runs' = r
      BY <2>1, <3>2 DEF Execute
    <3>4. r \in 0..MaxRuns /\ r # 0
      BY <1>1, <3>2 DEF Runs
    <3>5. QED
      BY <2>1, <3>2, <3>3, <3>4
  <2>2. CASE g.from # "start"
    <3>1. PICK r \in Runs \cup {0} : r = Asked(g)
      BY <1>1 DEF Asked, Get, Runs
    <3>2. PICK a : a = StateOf(r)
      OBVIOUS
    <3>3. a \in States /\ a \in {2 * r, 2 * r + 1} /\ (r = 0 => a = 0) /\ (r # 0 /\ r \notin ended => a = 2 * r)
      BY <1>1, <3>2 DEF StateOf, States, Runs
    <3>4. gets' = (gets \ {g}) \cup {[g EXCEPT !.run = r, !.answer = a]} /\ runs' = runs
      BY <2>2, <3>1, <3>2 DEF Execute
    <3>5. g.from = "cancel" => r = g.run /\ a = 2 * r
      BY <1>1, <2>2, <3>1, <3>3 DEF Execute, Asked, GetIsSound
    <3>6. QED
      BY <1>1, <2>2, <3>3, <3>4, <3>5
  <2>3. QED
    BY <2>1, <2>2
<1>4. PICK n : n = [g EXCEPT !.run = r, !.answer = a]
  OBVIOUS
<1>5. /\ n \in Get /\ n.run = r /\ n.answer = a
      /\ n.from = g.from /\ n.inst = g.inst /\ n.handle = g.handle
  BY <1>1, <1>3, <1>4 DEF Get
<1>6. gets' = (gets \ {g}) \cup {n}
  BY <1>3, <1>4
<1>7. TypeOK'
  BY <1>2, <1>3, <1>5, <1>6 DEF IInv, TypeOK
<1>8. \A q \in gets' : GetIsSound(q)'
  BY <1>1, <1>2, <1>3, <1>5, <1>6 DEF IInv, GetIsSound
<1>9. CancelsWereShown'
  BY <1>1, <1>2, <1>3, <1>5, <1>6 DEF IInv, CancelsWereShown
<1>10. QED
  BY <1>2, <1>7, <1>8, <1>9 DEF IInv, PollsAreInHand

\* A request of the mounted instance that is not about a run shown.
LEMMA AskKeeps ==
    ASSUME IInv, (\E t \in live : Tick(t)) \/ UserStarts \/ RefreshIndex \/ CancelIndex
    PROVE  IInv'
<1>1. UNCHANGED <<kind, backendVars, mounts, mounted, timerVars, fails, known, crossed>>
  BY DEF Tick, UserStarts, RefreshIndex, CancelIndex
<1>2. MaxRuns \in Nat /\ mounts \in Nat /\ mounted \in Nat /\ known \in States /\ live \in SUBSET Interval
  BY BoundsAssumption DEF IInv, TypeOK
<1>3. PICK g \in Get :
         /\ gets' = gets \cup {g} /\ g.answer = Pending /\ g.inst <= mounts
         /\ g.from = "tick" => g.handle # 0
         /\ g.from = "cancel" => g.run # 0 /\ known >= 2 * g.run
  <2>0. ASSUME NEW from \in {"mount", "tick", "start", "refresh", "cancel"},
               NEW i \in Instances, NEW h \in Handles \cup {0}, NEW r \in Runs \cup {0},
               Request(from, i, h, r), i <= mounts, from = "tick" => h # 0,
               from = "cancel" => r # 0 /\ known >= 2 * r
        PROVE  \E g \in Get :
                 /\ gets' = gets \cup {g} /\ g.answer = Pending /\ g.inst <= mounts
                 /\ g.from = "tick" => g.handle # 0
                 /\ g.from = "cancel" => g.run # 0 /\ known >= 2 * g.run
    <3>1. PICK g : g = [from |-> from, inst |-> i, handle |-> h, run |-> r, answer |-> Pending]
      OBVIOUS
    <3>2. g \in Get /\ gets' = gets \cup {g}
      BY <2>0, <3>1, RequestIsTyped DEF IInv, TypeOK
    <3>3. QED
      BY <2>0, <3>1, <3>2
  <2>1. ASSUME NEW t \in live, Tick(t)
        PROVE  t.handle \in Handles /\ t.inst \in Instances /\ t.run \in Runs /\ t.handle # 0
               /\ Request("tick", t.inst, t.handle, t.run)
    BY <1>2, <2>1 DEF Tick, Interval, Handles
  <2>2. \A t \in live : t.inst <= mounts
    BY DEF IInv
  <2>3. CASE \E t \in live : Tick(t)
    BY <2>0, <2>1, <2>2, <2>3
  <2>4. CASE UserStarts \/ RefreshIndex
    <3>1. mounted \in Instances /\ mounted <= mounts
      BY <1>2, <2>4, BoundsAssumption DEF UserStarts, RefreshIndex, IInv, TypeOK, Instances
    <3>2. Request("start", mounted, 0, 0) \/ Request("refresh", mounted, 0, 0)
      BY <2>4 DEF UserStarts, RefreshIndex
    <3>3. QED
      BY <2>0, <3>1, <3>2
  <2>5. CASE CancelIndex
    <3>1. mounted \in Instances /\ mounted <= mounts
      BY <1>2, <2>5, BoundsAssumption DEF CancelIndex, IInv, TypeOK, Instances
    <3>2. PICK r : r = known \div 2
      OBVIOUS
    <3>3. r \in Runs /\ r # 0 /\ known >= 2 * r
      BY <1>2, <2>5, <3>2 DEF CancelIndex, Active, States, Runs
    <3>4. Request("cancel", mounted, 0, r)
      BY <2>5, <3>2 DEF CancelIndex
    <3>5. QED
      BY <2>0, <3>1, <3>3, <3>4
  <2>6. QED
    BY <2>3, <2>4, <2>5
<1>4. TypeOK'
  BY <1>1, <1>3 DEF IInv, TypeOK
<1>5. \A q \in gets' : GetIsSound(q)'
  BY <1>1, <1>3 DEF IInv, GetIsSound
<1>6. CancelsWereShown'
  BY <1>1, <1>3 DEF IInv, CancelsWereShown
<1>7. QED
  BY <1>1, <1>4, <1>5, <1>6 DEF IInv, PollsAreInHand

-----------------------------------------------------------------------------
(* The screen *)

\* Opening it asks for a run to take up; nothing is in flight for the new instance.
LEMMA MountKeeps ==
    ASSUME IInv, Mount
    PROVE  IInv'
<1>1. /\ mounted = 0 /\ mounts \in Nat /\ mounts + 1 \in Instances
      /\ mounts' = mounts + 1 /\ mounted' = mounts + 1
      /\ Request("mount", mounts + 1, 0, 0) /\ known' = 0 /\ crossed' = FALSE
      /\ UNCHANGED <<kind, backendVars, timerVars, fails>>
  BY BoundsAssumption DEF Mount, IInv, TypeOK, Instances
<1>2. PICK g : g = [from |-> "mount", inst |-> mounts + 1, handle |-> 0, run |-> 0, answer |-> Pending]
  OBVIOUS
<1>3. g \in Get /\ gets' = gets \cup {g} /\ g.from = "mount" /\ g.inst = mounts + 1 /\ g.answer = Pending
  BY <1>1, <1>2, RequestIsTyped DEF IInv, TypeOK
<1>4. TypeOK'
  <2>1. mounts + 1 \in 0..MaxMounts /\ 0 \in States
    BY <1>1, BoundsAssumption DEF Instances, States
  <2>2. gets' \in SUBSET Get
    BY <1>3 DEF IInv, TypeOK
  <2>3. QED
    BY <1>1, <2>1, <2>2 DEF IInv, TypeOK
<1>5. /\ \A q \in gets' : GetIsSound(q)'
      /\ \A t \in live' : t.inst <= mounts'
      /\ \A q \in gets : q.inst # mounts + 1
  <2>1. \A q \in gets : q \in Get /\ q.inst \in Nat
    BY BoundsAssumption DEF IInv, TypeOK, Get, Instances
  <2>2. \A t \in live : t.inst \in Nat
    BY BoundsAssumption DEF IInv, TypeOK, Interval, Instances
  <2>3. QED
    BY <1>1, <1>3, <2>1, <2>2 DEF IInv, GetIsSound
<1>6. CancelsWereShown'
  BY <1>1, <1>3, <1>5 DEF CancelsWereShown
<1>7. PollsAreInHand'
  BY <1>1 DEF IInv, PollsAreInHand, Active
<1>8. QED
  BY <1>1, <1>4, <1>5, <1>6, <1>7 DEF IInv

\* Stopping clears the interval that the ref of an instance has, the only one of it.
LEMMA StopKeeps ==
    ASSUME IInv, NEW i \in Instances, Stop(i)
    PROVE  /\ ref' \in [Instances -> Handles \cup {0}] /\ live' \in SUBSET Interval
           /\ starts' \in 0..MaxStarts
           /\ \A t \in live' : t.inst <= mounts /\ ref'[t.inst] = t.handle
           /\ \A j \in Instances : j # i => ref'[j] = ref[j]
<1>1. ref \in [Instances -> Handles \cup {0}] /\ live \in SUBSET Interval
  BY DEF IInv, TypeOK
<1>2. \A t \in live : t.inst \in Instances
  BY <1>1 DEF Interval
<1>3. QED
  BY <1>1, <1>2 DEF Stop, IInv, TypeOK, PollsAreInHand

\* Starting leaves the instance with the new interval only.
LEMMA StartKeeps ==
    ASSUME IInv, NEW i \in Instances, i <= mounts, NEW r \in Runs, Start(i, r)
    PROVE  /\ ref' \in [Instances -> Handles \cup {0}] /\ live' \in SUBSET Interval
           /\ starts' \in 0..MaxStarts
           /\ \A t \in live' : t.inst <= mounts /\ ref'[t.inst] = t.handle
           /\ ref'[i] # 0 /\ \A j \in Instances : j # i => ref'[j] = ref[j]
<1>1. ref \in [Instances -> Handles \cup {0}] /\ live \in SUBSET Interval /\ starts \in 0..MaxStarts
  BY DEF IInv, TypeOK
<1>2. starts + 1 \in Handles /\ starts + 1 \in 0..MaxStarts /\ starts + 1 # 0
  BY <1>1, BoundsAssumption DEF Start, Handles
<1>3. PICK n : n = [handle |-> starts + 1, inst |-> i, run |-> r]
  OBVIOUS
<1>4. n \in Interval /\ n.handle = starts + 1 /\ n.inst = i
  BY <1>2, <1>3 DEF Interval
<1>5. /\ live' = {t \in live : t.handle # ref[i]} \cup {n}
      /\ ref' = [ref EXCEPT ![i] = starts + 1] /\ starts' = starts + 1
  BY <1>3 DEF Start
<1>6. \A t \in live : t.inst \in Instances /\ t.inst <= mounts /\ ref[t.inst] = t.handle
  BY <1>1 DEF Interval, IInv, PollsAreInHand
<1>7. QED
  BY <1>1, <1>2, <1>4, <1>5, <1>6

\* Leaving stops the poll.
LEMMA UnmountKeeps ==
    ASSUME IInv, Unmount
    PROVE  IInv'
<1>1. /\ mounted \in Instances /\ Stop(mounted) /\ mounted' = 0 /\ known' = 0
      /\ UNCHANGED <<kind, backendVars, mounts, gets, fails, crossed>>
  BY BoundsAssumption DEF Unmount, IInv, TypeOK, Instances
<1>2. /\ ref' \in [Instances -> Handles \cup {0}] /\ live' \in SUBSET Interval
      /\ starts' \in 0..MaxStarts
      /\ \A t \in live' : t.inst <= mounts /\ ref'[t.inst] = t.handle
  BY <1>1, StopKeeps
<1>3. TypeOK'
  BY <1>1, <1>2, BoundsAssumption DEF IInv, TypeOK, States
<1>4. CancelsWereShown'
  <2>1. \A q \in gets : q.inst # 0
    BY BoundsAssumption DEF IInv, TypeOK, Get, Instances
  <2>2. QED
    BY <1>1, <2>1 DEF CancelsWereShown
<1>5. PollsAreInHand'
  BY <1>1, <1>2 DEF PollsAreInHand
<1>6. QED
  BY <1>1, <1>2, <1>3, <1>4, <1>5, BoundsAssumption DEF IInv, TypeOK, GetIsSound

\* What showing an answer does to the state on the screen.
LEMMA ShowFacts ==
    ASSUME IInv, NEW g \in gets, g.answer # Pending, Show(g)
    PROVE  /\ known' \in States /\ crossed' \in BOOLEAN
           /\ crossed => crossed'
           /\ known' >= known \/ crossed'
           /\ g.inst # mounted => known' = known
           /\ g.inst = mounted => known' = g.answer
           /\ g.from = "tick" /\ g.inst = mounted => crossed' \/ ref[mounted] # 0
<1>1. g \in Get /\ g.answer \in States /\ known \in States /\ crossed \in BOOLEAN
  BY DEF IInv, TypeOK, Get
<1>2. g.from = "tick" => g.handle # 0
  BY DEF IInv, GetIsSound
<1>3. MaxRuns \in Nat /\ known \in Nat /\ g.answer \in Nat
  BY <1>1, BoundsAssumption DEF States
<1>4. CASE g.inst = mounted
  <2>1. /\ known' = g.answer
        /\ crossed' = (crossed \/ g.answer < known \/ (g.from = "tick" /\ g.handle # ref[mounted]))
    BY <1>4 DEF Show
  <2>2. known' >= known \/ crossed'
    <3>1. CASE g.answer < known
      BY <2>1, <3>1, Zenon
    <3>2. CASE ~(g.answer < known)
      BY <1>3, <2>1, <3>2
    <3>3. QED
      BY <3>1, <3>2
  <2>3. crossed' \in BOOLEAN
    BY <2>1
  <2>4. QED
    BY <1>1, <1>2, <1>4, <2>1, <2>2, <2>3
<1>5. CASE g.inst # mounted
  <2>1. known' = known /\ crossed' = crossed
    BY <1>1, <1>5 DEF Show
  <2>2. QED
    BY <1>1, <1>3, <1>5, <2>1
<1>6. QED
  BY <1>4, <1>5

\* An answer is delivered: what is left to show is that the screen, if it now
\* shows an active run, polls it.
LEMMA DeliveryKeeps ==
    ASSUME IInv, NEW g \in gets,
           gets' = gets \ {g}, UNCHANGED <<kind, backendVars, mounts, mounted, fails>>,
           known' \in States, crossed' \in BOOLEAN, crossed => crossed',
           known' >= known \/ crossed',
           ref' \in [Instances -> Handles \cup {0}], live' \in SUBSET Interval,
           starts' \in 0..MaxStarts,
           \A t \in live' : t.inst <= mounts /\ ref'[t.inst] = t.handle,
           mounted # 0 /\ Active(known') => ref'[mounted] # 0 \/ crossed'
    PROVE  IInv'
<1>1. TypeOK'
  BY DEF IInv, TypeOK
<1>2. CancelsWereShown'
  <2>1. \A q \in gets : q.run \in Nat
    BY BoundsAssumption DEF IInv, TypeOK, Get, Runs
  <2>2. known \in Nat /\ known' \in Nat
    BY BoundsAssumption DEF IInv, TypeOK, States
  <2>3. QED
    BY <2>1, <2>2 DEF IInv, CancelsWereShown
<1>3. PollsAreInHand'
  BY DEF PollsAreInHand
<1>4. \A q \in gets' : GetIsSound(q)'
  BY DEF IInv, GetIsSound
<1>5. QED
  BY <1>1, <1>2, <1>3, <1>4 DEF IInv

\* Nothing happens to the timers.
LEMMA TimersStay ==
    ASSUME IInv, UNCHANGED timerVars
    PROVE  /\ ref' = ref /\ ref' \in [Instances -> Handles \cup {0}] /\ live' \in SUBSET Interval
           /\ starts' \in 0..MaxStarts
           /\ \A t \in live' : t.inst <= mounts /\ ref'[t.inst] = t.handle
BY DEF IInv, TypeOK, PollsAreInHand

\* An answer that shows an active run is followed by a start, or is ...
LEMMA StartedKeeps ==
    ASSUME IInv, NEW g \in gets, g.answer # Pending, Show(g), Start(g.inst, g.run), g.run # 0,
           gets' = gets \ {g}, UNCHANGED <<kind, backendVars, mounts, mounted, fails>>
    PROVE  IInv'
<1>1. g.inst \in Instances /\ g.run \in Runs /\ g.inst <= mounts
  BY DEF IInv, TypeOK, Get, GetIsSound
<1>2. mounted # 0 => mounted \in Instances
  BY BoundsAssumption DEF IInv, TypeOK, Instances
<1>3. /\ known' \in States /\ crossed' \in BOOLEAN /\ (crossed => crossed')
      /\ known' >= known \/ crossed'
      /\ g.inst # mounted => known' = known
  BY ShowFacts
<1>4. /\ ref' \in [Instances -> Handles \cup {0}] /\ live' \in SUBSET Interval
      /\ starts' \in 0..MaxStarts
      /\ \A t \in live' : t.inst <= mounts /\ ref'[t.inst] = t.handle
      /\ ref'[g.inst] # 0 /\ \A j \in Instances : j # g.inst => ref'[j] = ref[j]
  BY <1>1, StartKeeps
<1>5. mounted # 0 /\ Active(known') => ref'[mounted] # 0 \/ crossed'
  BY <1>2, <1>3, <1>4 DEF IInv, PollsAreInHand
<1>6. QED
  BY <1>3, <1>4, <1>5, DeliveryKeeps

\* ... the answer to a tick, whose end stops the poll, ...
LEMMA TickAnsweredKeeps ==
    ASSUME IInv, NEW g \in gets, TickAnswered(g)
    PROVE  IInv'
<1>1. /\ g.from = "tick" /\ g.answer # Pending /\ Show(g)
      /\ gets' = gets \ {g} /\ UNCHANGED <<kind, backendVars, mounts, mounted, fails>>
  BY DEF TickAnswered, Delivered
<1>2. g.inst \in Instances /\ (mounted # 0 => mounted \in Instances)
  BY BoundsAssumption DEF IInv, TypeOK, Get, Instances
<1>3. /\ known' \in States /\ crossed' \in BOOLEAN /\ (crossed => crossed')
      /\ known' >= known \/ crossed'
      /\ g.inst # mounted => known' = known
      /\ g.inst = mounted => known' = g.answer
      /\ g.inst = mounted => crossed' \/ ref[mounted] # 0
  BY <1>1, ShowFacts
<1>4. CASE Terminal(g.answer)
  <2>1. Stop(g.inst)
    BY <1>4 DEF TickAnswered
  <2>2. /\ ref' \in [Instances -> Handles \cup {0}] /\ live' \in SUBSET Interval
        /\ starts' \in 0..MaxStarts
        /\ \A t \in live' : t.inst <= mounts /\ ref'[t.inst] = t.handle
        /\ \A j \in Instances : j # g.inst => ref'[j] = ref[j]
    BY <1>2, <2>1, StopKeeps
  <2>3. mounted # 0 /\ Active(known') => ref'[mounted] # 0 \/ crossed'
    BY <1>2, <1>3, <1>4, <2>2 DEF IInv, PollsAreInHand, Active, Terminal
  <2>4. QED
    BY <1>1, <1>3, <2>2, <2>3, DeliveryKeeps
<1>5. CASE ~Terminal(g.answer)
  <2>1. UNCHANGED timerVars
    BY <1>5 DEF TickAnswered
  <2>2. mounted # 0 /\ Active(known') => ref'[mounted] # 0 \/ crossed'
    BY <1>3, <2>1 DEF IInv, PollsAreInHand
  <2>3. QED
    BY <1>1, <1>3, <2>1, <2>2, TimersStay, DeliveryKeeps
<1>6. QED
  BY <1>4, <1>5

\* ... or is about a run that the instance polls already.
LEMMA DeliverKeeps ==
    ASSUME IInv, NEW g \in gets, TakeUp(g) \/ Started(g) \/ Refreshed(g) \/ Cancelled(g)
    PROVE  IInv'
<1>1. /\ g.answer # Pending /\ gets' = gets \ {g}
      /\ UNCHANGED <<kind, backendVars, mounts, mounted, fails>>
  BY DEF TakeUp, Started, Refreshed, Cancelled, Delivered
<1>2. /\ g \in Get /\ GetIsSound(g) /\ MaxRuns \in Nat
      /\ known \in States /\ crossed \in BOOLEAN
  BY BoundsAssumption DEF IInv, TypeOK
<1>3. Active(g.answer) => g.run # 0
  BY <1>1, <1>2 DEF GetIsSound, Active
<1>4. CASE Show(g) /\ Start(g.inst, g.run)
  <2>1. g.run # 0
    BY <1>1, <1>2, <1>3, <1>4 DEF TakeUp, Started, Refreshed, Cancelled, Delivered, GetIsSound,
       Start
  <2>2. QED
    BY <1>1, <1>4, <2>1, StartedKeeps
<1>5. CASE UNCHANGED <<known, crossed, timerVars>>
  <2>1. mounted # 0 /\ Active(known') => ref'[mounted] # 0 \/ crossed'
    BY <1>5 DEF IInv, PollsAreInHand
  <2>2. known' >= known
    BY <1>2, <1>5 DEF States
  <2>3. QED
    BY <1>1, <1>2, <1>5, <2>1, <2>2, TimersStay, DeliveryKeeps
<1>6. CASE Show(g) /\ UNCHANGED timerVars
  <2>1. /\ known' \in States /\ crossed' \in BOOLEAN /\ (crossed => crossed')
        /\ known' >= known \/ crossed'
        /\ g.inst # mounted => known' = known
        /\ g.inst = mounted => known' = g.answer
    BY <1>1, <1>6, ShowFacts
  <2>2. g.inst = mounted /\ Active(g.answer) => ref[mounted] # 0 \/ crossed'
    <3>1. SUFFICES ASSUME g.inst = mounted, Active(g.answer), ~crossed'
                   PROVE  ref[mounted] # 0
      OBVIOUS
    <3>2. CASE Refreshed(g)
      <4>1. starts' # starts \/ ref[g.inst] # 0
        BY <3>1, <3>2 DEF Refreshed, Start, IInv, TypeOK
      <4>2. QED
        BY <1>6, <3>1, <4>1
    <3>3. CASE Cancelled(g)
      <4>1. g.answer = 2 * g.run /\ g.run \in Nat /\ known \in Nat /\ known >= 2 * g.run
        BY <1>1, <1>2, <2>1, <3>1, <3>3 DEF Cancelled, Delivered, GetIsSound, Get, Runs, States,
           IInv, CancelsWereShown
      <4>2. known' = known
        BY <2>1, <3>1, <4>1
      <4>3. mounted # 0 /\ ~crossed
        BY <1>2, <2>1, <3>1, BoundsAssumption DEF Get, Instances
      <4>4. QED
        BY <2>1, <3>1, <4>2, <4>3 DEF IInv, PollsAreInHand
    <3>4. CASE TakeUp(g)
      <4>1. Start(g.inst, g.run)
        BY <3>1, <3>4 DEF TakeUp
      <4>2. FALSE
        BY <1>6, <4>1 DEF Start, IInv, TypeOK
      <4>3. QED
        BY <4>2
    <3>5. CASE Started(g)
      <4>1. FALSE
        BY <1>6, <3>5 DEF Started, Start, IInv, TypeOK
      <4>2. QED
        BY <4>1
    <3>6. QED
      BY <3>2, <3>3, <3>4, <3>5
  <2>3. mounted # 0 /\ Active(known') => ref'[mounted] # 0 \/ crossed'
    BY <1>6, <2>1, <2>2 DEF IInv, PollsAreInHand
  <2>4. QED
    BY <1>1, <1>6, <2>1, <2>3, TimersStay, DeliveryKeeps
<1>7. QED
  BY <1>4, <1>5, <1>6 DEF TakeUp, Started, Refreshed, Cancelled

\* A request that fails.
LEMMA FailKeeps ==
    ASSUME IInv, NEW g \in gets, Fail(g)
    PROVE  IInv'
<1>1. /\ gets' = gets \ {g} /\ fails' \in 0..MaxFails
      /\ UNCHANGED <<kind, backendVars, mounts, mounted, timerVars, known, crossed>>
  BY BoundsAssumption DEF Fail, IInv, TypeOK
<1>2. TypeOK'
  BY <1>1 DEF IInv, TypeOK
<1>3. QED
  BY <1>1, <1>2 DEF IInv, GetIsSound, CancelsWereShown, PollsAreInHand

-----------------------------------------------------------------------------
(* The results *)

\* No poll is under way: the invariant holds.
LEMMA Initially == Init => IInv
<1> SUFFICES ASSUME Init PROVE IInv
  OBVIOUS
<1>1. TypeOK
  <2>1. 0 \in 0..MaxRuns /\ 0 \in 0..MaxMounts /\ 0 \in 0..MaxStarts /\ 0 \in 0..MaxFails /\ 0 \in States
    BY BoundsAssumption DEF States
  <2>2. ref \in [Instances -> Handles \cup {0}]
    BY DEF Init
  <2>3. QED
    BY <2>1, <2>2 DEF Init, TypeOK
<1>2. QED
  BY <1>1 DEF Init, IInv, CancelsWereShown, PollsAreInHand

\* It is inductive.
LEMMA Inductive == IInv /\ [Next]_pollVars => IInv'
<1> SUFFICES ASSUME IInv, [Next]_pollVars PROVE IInv'
  OBVIOUS
<1>1. CASE UNCHANGED pollVars
  BY <1>1 DEF pollVars, IInv, TypeOK, GetIsSound, CancelsWereShown, PollsAreInHand
<1>2. ASSUME NEW g \in gets, Answer(g)
      PROVE  IInv'
  BY <1>2, ExecuteKeeps, DeliverKeeps, TickAnsweredKeeps, FailKeeps DEF Answer, Deliver
<1>3. QED
  BY <1>1, <1>2, BackendKeeps, MountKeeps, UnmountKeeps, AskKeeps DEF Next

\* Every reachable state is of its type.
THEOREM TypeCorrect == Spec => []TypeOK
<1>1. IInv => TypeOK
  BY DEF IInv
<1>2. QED
  BY <1>1, Initially, Inductive, PTL DEF Spec

\* The polls are in hand: every interval of the browser is the one its instance
\* will stop, and a run shown as active is being polled, however many instances,
\* runs and answers there are, unless answers have crossed.
THEOREM PollsStayInHand == Spec => []PollsAreInHand
<1>1. IInv => PollsAreInHand
  BY DEF IInv
<1>2. QED
  BY <1>1, Initially, Inductive, PTL DEF Spec

-----------------------------------------------------------------------------
(* The dialog of sharing (ShareDialog) *)

USE DEF Share!modalVars, Share!listVars

\* Why a confirmation, which outlives its dialog, cannot carry the changes of
\* another one: nothing is staged outside a dialog, and every way out of a dialog
\* forgets what was staged in it.
StagedHere ==
    /\ staged \in {None, shareTarget}
    /\ adds \cup removes # {} => staged # None

ShareInv == StagedHere /\ Share!DialogIsOfTarget

-----------------------------------------------------------------------------
(* Types *)

\* A request of a confirmation, answered or failed, takes one change off.
LEMMA SendType ==
    ASSUME Share!TypeOK, NEW u \in Users, Share!SendAdd(u) \/ Share!SendRemove(u)
    PROVE  Share!TypeOK'
<1>1. confirm \in [of : Targets, staged : Targets, adds : SUBSET Users, removes : SUBSET Users,
                   failed : BOOLEAN]
  BY DEF Share!TypeOK, Share!SendAdd, Share!SendRemove
<1>2. /\ [confirm EXCEPT !.adds = confirm.adds \ {u}]
            \in [of : Targets, staged : Targets, adds : SUBSET Users, removes : SUBSET Users,
                 failed : BOOLEAN]
      /\ [confirm EXCEPT !.adds = confirm.adds \ {u}, !.failed = TRUE]
            \in [of : Targets, staged : Targets, adds : SUBSET Users, removes : SUBSET Users,
                 failed : BOOLEAN]
      /\ [confirm EXCEPT !.removes = confirm.removes \ {u}]
            \in [of : Targets, staged : Targets, adds : SUBSET Users, removes : SUBSET Users,
                 failed : BOOLEAN]
      /\ [confirm EXCEPT !.removes = confirm.removes \ {u}, !.failed = TRUE]
            \in [of : Targets, staged : Targets, adds : SUBSET Users, removes : SUBSET Users,
                 failed : BOOLEAN]
  BY <1>1
<1>3. confirm' \in [of : Targets, staged : Targets, adds : SUBSET Users, removes : SUBSET Users,
                    failed : BOOLEAN]
  BY <1>2 DEF Share!SendAdd, Share!SendRemove
<1>4. granted' \in [Targets -> SUBSET Users]
  BY <1>1 DEF Share!SendAdd, Share!SendRemove, Share!TypeOK
<1>5. UNCHANGED <<shareTarget, Share!listVars, Share!modalVars, saving, lists, stuck>>
  BY DEF Share!SendAdd, Share!SendRemove
<1>6. QED
  BY <1>3, <1>4, <1>5 DEF Share!TypeOK

\* The list is read again, or cannot be.
LEMMA ConfirmType ==
    ASSUME Share!TypeOK, Share!ConfirmEnds \/ Share!ConfirmBreaks
    PROVE  Share!TypeOK'
<1>1. confirm.of \in Targets
  BY DEF Share!TypeOK, Share!ConfirmEnds, Share!ConfirmBreaks, Share!AllSent
<1>2. CASE Share!ConfirmEnds
  BY <1>1, <1>2 DEF Share!ConfirmEnds, Share!TypeOK
<1>3. CASE Share!ConfirmBreaks
  BY <1>3 DEF Share!ConfirmBreaks, Share!TypeOK
<1>4. QED
  BY <1>2, <1>3

\* The owner opens the dialog and lists arrive.
LEMMA OwnerType ==
    ASSUME Share!TypeOK, NEW t \in Targets, Share!Open(t) \/ Share!Listed(t) \/ Share!ListFails(t)
    PROVE  Share!TypeOK'
BY DEF Share!Open, Share!Listed, Share!ListFails, Share!TypeOK

\* Staging.
LEMMA StagingType ==
    ASSUME Share!TypeOK, NEW u \in Users, Share!StageAdd(u) \/ Share!UndoAdd(u) \/ Share!StageRemove(u) \/ Share!UndoRemove(u)
    PROVE  Share!TypeOK'
BY DEF Share!StageAdd, Share!UndoAdd, Share!StageRemove, Share!UndoRemove, Share!Enabled,
   Share!TypeOK

\* A confirmation begins with what was staged in the dialog open now.
LEMMA BeginType ==
    ASSUME Share!TypeOK, StagedHere, Share!Confirm
    PROVE  Share!TypeOK'
<1>1. shareTarget \in Targets /\ staged \in Targets
  BY DEF Share!Confirm, Share!Enabled, Share!TypeOK, StagedHere
<1>2. confirm' \in [of : Targets, staged : Targets, adds : SUBSET Users, removes : SUBSET Users,
                    failed : BOOLEAN]
  BY <1>1 DEF Share!Confirm, Share!TypeOK
<1>3. QED
  BY <1>2 DEF Share!Confirm, Share!TypeOK

-----------------------------------------------------------------------------
(* The dialog and its target *)

\* The dialog is closed: its invariant holds.
LEMMA ShareStart == Share!Init => Share!TypeOK /\ ShareInv
BY DEF Share!Init, Share!TypeOK, ShareInv, StagedHere, Share!DialogIsOfTarget

\* What is staged was staged in the dialog open now.
LEMMA StagedStaysHere ==
    ASSUME StagedHere, Share!Next
    PROVE  StagedHere'
<1> USE DEF StagedHere
<1>1. CASE \E t \in Targets : Share!Open(t) \/ Share!Listed(t) \/ Share!ListFails(t)
  BY <1>1 DEF Share!Open, Share!Listed, Share!ListFails
<1>2. CASE \E u \in Users : Share!StageAdd(u) \/ Share!UndoAdd(u) \/ Share!StageRemove(u) \/ Share!UndoRemove(u)
  BY <1>2 DEF Share!StageAdd, Share!UndoAdd, Share!StageRemove, Share!UndoRemove, Share!Enabled
<1>3. CASE Share!Cancel \/ Share!Confirm
  BY <1>3 DEF Share!Cancel, Share!Confirm
<1>4. CASE Share!ConfirmStep
  BY <1>4 DEF Share!ConfirmStep, Share!ConfirmEnds, Share!ConfirmBreaks, Share!SendAdd,
     Share!SendRemove
<1>5. QED
  BY <1>1, <1>2, <1>3, <1>4 DEF Share!Next

\* A request in flight keeps its target: only `adds`, `removes` and `failed` of
\* the confirmation change.
LEMMA SendKeepsTarget ==
    ASSUME Share!TypeOK, NEW u \in Users, Share!SendAdd(u) \/ Share!SendRemove(u)
    PROVE  confirm # Share!NoConfirm /\ confirm'.of = confirm.of /\ confirm'.staged = confirm.staged
<1>1. confirm \in [of : Targets, staged : Targets, adds : SUBSET Users, removes : SUBSET Users,
                   failed : BOOLEAN]
  BY DEF Share!TypeOK, Share!SendAdd, Share!SendRemove
<1>2. QED
  BY <1>1 DEF Share!SendAdd, Share!SendRemove

\* The dialog stays of its target.
LEMMA DialogStaysOfTarget ==
    ASSUME Share!TypeOK, ShareInv, Share!Next
    PROVE  Share!DialogIsOfTarget'
<1> USE DEF ShareInv, Share!DialogIsOfTarget
<1>1. CASE \E t \in Targets : Share!Open(t) \/ Share!Listed(t) \/ Share!ListFails(t)
  BY <1>1 DEF Share!Open, Share!Listed, Share!ListFails
<1>2. CASE \E u \in Users : Share!StageAdd(u) \/ Share!UndoAdd(u) \/ Share!StageRemove(u) \/ Share!UndoRemove(u)
  BY <1>2 DEF Share!StageAdd, Share!UndoAdd, Share!StageRemove, Share!UndoRemove
<1>3. CASE Share!Cancel
  BY <1>3 DEF Share!Cancel
<1>4. CASE Share!Confirm
  BY <1>4 DEF Share!Confirm, Share!Enabled, StagedHere
<1>5. CASE Share!ConfirmEnds
  BY <1>5 DEF Share!ConfirmEnds
<1>6. CASE Share!ConfirmBreaks
  BY <1>6 DEF Share!ConfirmBreaks
<1>7. CASE \E u \in Users : Share!SendAdd(u) \/ Share!SendRemove(u)
  <2>1. UNCHANGED <<shareTarget, Share!listVars, Share!modalVars, lists>>
    BY <1>7 DEF Share!SendAdd, Share!SendRemove
  <2>2. QED
    BY <1>7, <2>1, SendKeepsTarget
<1>8. QED
  BY <1>1, <1>2, <1>3, <1>4, <1>5, <1>6, <1>7 DEF Share!Next, Share!ConfirmStep

\* The invariant of the dialog is inductive.
LEMMA ShareSteps == (Share!TypeOK /\ ShareInv) /\ [Share!Next]_Share!shareVars => (Share!TypeOK /\ ShareInv)'
<1> SUFFICES ASSUME Share!TypeOK, ShareInv, [Share!Next]_Share!shareVars PROVE (Share!TypeOK /\ ShareInv)'
  OBVIOUS
<1>1. CASE UNCHANGED Share!shareVars
  BY <1>1 DEF Share!shareVars, Share!TypeOK, ShareInv, StagedHere, Share!DialogIsOfTarget
<1>2. CASE Share!Next
  <2>1. ShareInv'
    BY <1>2, StagedStaysHere, DialogStaysOfTarget DEF ShareInv
  <2>2. ASSUME Share!Cancel PROVE Share!TypeOK'
    BY <2>2 DEF Share!Cancel, Share!TypeOK
  <2>3. Share!TypeOK'
    BY <1>2, <2>2, OwnerType, StagingType, BeginType, ConfirmType, SendType
    DEF Share!Next, Share!ConfirmStep, ShareInv
  <2>4. QED
    BY <2>1, <2>3
<1>3. QED
  BY <1>1, <1>2

-----------------------------------------------------------------------------
(* The results *)

\* Every reachable state is of its type; in particular a confirmation under way
\* has a target and was staged in a dialog of one.
THEOREM ShareTypes == Share!Spec => []Share!TypeOK
<1>1. QED
  BY ShareStart, ShareSteps, PTL DEF Share!Spec

\* The dialog is about its target: what is staged and what a confirmation sends
\* was staged in a dialog of the target it goes to, and the list shown is its own
\* or is about to be, unless an older one came late.
THEOREM DialogsAreOfTheirTarget == Share!Spec => []Share!DialogIsOfTarget
<1>1. ShareInv => Share!DialogIsOfTarget
  BY DEF ShareInv
<1>2. QED
  BY <1>1, ShareStart, ShareSteps, PTL DEF Share!Spec

-----------------------------------------------------------------------------
(* The two together, as TLC explores them *)

\* The invariants of each hold whichever is explored: the other is at rest.
THEOREM BothInHand == BothSpec => []PollsAreInHand
<1>1. BothInit => Init
  BY DEF BothInit
<1>2. [BothNext]_bothVars => [Next]_pollVars
  BY DEF BothNext, bothVars
<1>3. IInv => PollsAreInHand
  BY DEF IInv
<1>4. QED
  BY <1>1, <1>2, <1>3, Initially, Inductive, PTL DEF BothSpec

\* The dialog is of its target in what TLC explores.
THEOREM BothOfTarget == BothSpec => []DialogIsOfTarget
<1>1. BothInit => Share!Init
  BY DEF BothInit
<1>2. [BothNext]_bothVars => [Share!Next]_Share!shareVars
  BY DEF BothNext, bothVars, shareVars, Share!shareVars
<1>3. ShareInv => DialogIsOfTarget
  BY DEF ShareInv, DialogIsOfTarget
<1>4. QED
  BY <1>1, <1>2, <1>3, ShareStart, ShareSteps, PTL DEF BothSpec
=============================================================================
