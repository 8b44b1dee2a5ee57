------------------------------- MODULE Polling -------------------------------
(***************************************************************************)
(* The polls of CasesView.tsx and SettingsView.tsx that follow work of the *)
(* backend: the AI batch, the batch of new cases and the AI analysis of a  *)
(* case ("latest", alike), a search in a mailbox for a case ("search") and *)
(* the full index ("index").  Each keeps the handle of one                 *)
(* setInterval in a ref of the mounted component; a tick is a request, and *)
(* ticks overlap when an answer takes longer than the interval.  All but   *)
(* the search ask for the latest run, whichever that is.                   *)
(*                                                                         *)
(* What the screen knows of a run is an even number while it is active,    *)
(* and the next odd one once it has ended, so that later runs and later    *)
(* states are greater; 0 is no run.                                        *)
(***************************************************************************)
EXTENDS Naturals, FiniteSets

CONSTANTS MaxRuns, MaxMounts, MaxStarts, MaxTicks, MaxAsks, MaxFails
    \* bounds: runs; times the screen is opened; intervals; ticks of an instance
    \* in flight; other requests in flight; requests that fail

ASSUME BoundsAssumption ==
    /\ MaxRuns \in Nat /\ MaxMounts \in Nat \ {0} /\ MaxStarts \in Nat
    /\ MaxTicks \in Nat /\ MaxAsks \in Nat /\ MaxFails \in Nat

VARIABLES
    kind,      \* which of the polls, fixed
    runs,      \* runs started so far, the last one the latest
    ended,     \* runs that have ended
    deleted,   \* runs whose job was deleted by a user
    mounts, mounted,   \* the instances of the screen so far; the one mounted, or 0
    ref,       \* ref[i]: the handle kept by instance i, or 0
    live,      \* the intervals of the browser
    starts,    \* intervals so far, their handles
    gets,      \* requests in flight
    fails,
    known,     \* the state on the screen: activeAiBatch, mailboxJobs[c], ...
    \* history, for the properties
    crossed    \* answers were delivered out of order since the screen was opened

backendVars == <<runs, ended, deleted>>
timerVars   == <<ref, live, starts>>
pollVars == <<kind, backendVars, mounts, mounted, timerVars, gets, fails, known, crossed>>

PollKinds == {"latest", "search", "index"}
Runs      == 1..MaxRuns
Instances == 1..MaxMounts
Handles   == 1..MaxStarts
States    == 0..(2 * MaxRuns + 1)
Pending   == MaxRuns * 2 + 2   \* not answered yet
Interval  == [handle : Handles, inst : Instances, run : Runs]
Get == [from : {"mount", "tick", "start", "refresh", "cancel"}, inst : Instances,
        handle : Handles \cup {0}, run : Runs \cup {0}, answer : States \cup {Pending}]

TypeOK ==
    /\ kind \in PollKinds
    /\ runs \in 0..MaxRuns /\ ended \in SUBSET Runs /\ deleted \in SUBSET Runs
    /\ mounts \in 0..MaxMounts /\ mounted \in 0..MaxMounts
    /\ ref \in [Instances -> Handles \cup {0}]
    /\ live \in SUBSET Interval
    /\ starts \in 0..MaxStarts
    /\ gets \in SUBSET Get
    /\ fails \in 0..MaxFails
    /\ known \in States
    /\ crossed \in BOOLEAN

Init ==
    /\ kind \in PollKinds
    /\ runs = 0 /\ ended = {} /\ deleted = {}
    /\ mounts = 0 /\ mounted = 0
    /\ ref = [i \in Instances |-> 0]
    /\ live = {}
    /\ starts = 0
    /\ gets = {}
    /\ fails = 0
    /\ known = 0
    /\ crossed = FALSE

StateOf(r)  == IF r = 0 THEN 0 ELSE IF r \in ended THEN 2 * r + 1 ELSE 2 * r
Active(s)   == s # 0 /\ s % 2 = 0
Terminal(s) == s % 2 = 1

-----------------------------------------------------------------------------
(* The backend *)

\* Another user starts a run, which becomes the latest; a search is the case's.
OtherStarts ==
    /\ kind # "search" /\ runs < MaxRuns
    /\ kind = "index" => runs = 0 \/ runs \in ended   \* one active index
    /\ runs' = runs + 1
    /\ UNCHANGED <<kind, ended, deleted, mounts, mounted, timerVars, gets, fails, known, crossed>>

RunEnds(r) ==
    /\ r <= runs /\ r \notin ended
    /\ ended' = ended \cup {r}
    /\ UNCHANGED <<kind, runs, deleted, mounts, mounted, timerVars, gets, fails, known, crossed>>

\* The jobs of a search can be deleted once ended; the poll then gets 404.
DeleteJob(r) ==
    /\ kind = "search" /\ r \in ended \ deleted
    /\ deleted' = deleted \cup {r}
    /\ UNCHANGED <<kind, runs, ended, mounts, mounted, timerVars, gets, fails, known, crossed>>

\* A tick of a search asks for its own jobs, a cancel is the POST about the run
\* shown and a start the POST of a new one; all others ask for the latest run.
Asked(g) == IF g.from = "cancel" \/ (kind = "search" /\ g.from = "tick") THEN g.run ELSE runs
Execute(g) ==
    /\ g.answer = Pending
    /\ IF g.from = "start"
       THEN /\ runs < MaxRuns
            /\ kind = "index" => runs = 0 \/ runs \in ended
            /\ runs' = runs + 1
            /\ gets' = (gets \ {g}) \cup {[g EXCEPT !.run = runs + 1, !.answer = 2 * (runs + 1)]}
       ELSE /\ Asked(g) \notin deleted
            /\ g.from = "cancel" => g.run \notin ended
            /\ gets' = (gets \ {g}) \cup {[g EXCEPT !.run = Asked(g), !.answer = StateOf(Asked(g))]}
            /\ UNCHANGED runs
    /\ UNCHANGED <<kind, ended, deleted, mounts, mounted, timerVars, fails, known, crossed>>

-----------------------------------------------------------------------------
(* The screen *)

Request(from, i, h, r) ==
    /\ IF from = "tick" THEN Cardinality({g \in gets : g.from = "tick" /\ g.inst = i}) < MaxTicks
                        ELSE Cardinality({g \in gets : g.from # "tick"}) < MaxAsks
    /\ gets' = gets \cup {[from |-> from, inst |-> i, handle |-> h, run |-> r, answer |-> Pending]}

\* The effects of the mount ask for a run to take up; toggleCase does so when
\* it loads a case.
Mount ==
    /\ mounted = 0 /\ mounts < MaxMounts
    /\ mounts' = mounts + 1
    /\ mounted' = mounts + 1
    /\ Request("mount", mounts + 1, 0, 0)
    /\ known' = 0
    /\ crossed' = FALSE
    /\ UNCHANGED <<kind, backendVars, timerVars, fails>>

Stop(i) ==
    /\ live' = {t \in live : t.handle # ref[i]}
    /\ ref' = [ref EXCEPT ![i] = 0]
    /\ UNCHANGED starts

Unmount ==
    /\ mounted # 0
    /\ Stop(mounted)
    /\ mounted' = 0
    /\ known' = 0
    /\ UNCHANGED <<kind, backendVars, mounts, gets, fails, crossed>>

\* Faulty variant: the interval that runs already is not cleared.
StartBeside(i, r) ==
    /\ starts < MaxStarts
    /\ starts' = starts + 1
    /\ live' = live \cup {[handle |-> starts + 1, inst |-> i, run |-> r]}
    /\ ref' = [ref EXCEPT ![i] = starts + 1]
Start(i, r) ==
    /\ starts < MaxStarts
    /\ starts' = starts + 1
    /\ live' = {t \in live : t.handle # ref[i]} \cup {[handle |-> starts + 1, inst |-> i, run |-> r]}
    /\ ref' = [ref EXCEPT ![i] = starts + 1]

\* The search and the analysis tick once at once, then every four seconds.
Tick(t) ==
    /\ t \in live
    /\ Request("tick", t.inst, t.handle, t.run)
    /\ UNCHANGED <<kind, backendVars, mounts, mounted, timerVars, fails, known, crossed>>

\* handleProcessAllWithAI, handleCreate and handleBulkCreate, handleAnalyze,
\* handleSearchMailbox, handleStartMailboxIndex: the index is offered when none
\* is shown as active, the others always.
UserStarts ==
    /\ mounted # 0
    /\ kind = "index" => ~Active(known)
    /\ Request("start", mounted, 0, 0)
    /\ UNCHANGED <<kind, backendVars, mounts, mounted, timerVars, fails, known, crossed>>

RefreshIndex ==
    /\ kind = "index" /\ mounted # 0
    /\ Request("refresh", mounted, 0, 0)
    /\ UNCHANGED <<kind, backendVars, mounts, mounted, timerVars, fails, known, crossed>>
CancelIndex ==
    /\ kind = "index" /\ mounted # 0 /\ Active(known)
    /\ Request("cancel", mounted, 0, known \div 2)
    /\ UNCHANGED <<kind, backendVars, mounts, mounted, timerVars, fails, known, crossed>>

\* The state shown by the mounted instance; other instances show nothing.
Show(g) ==
    /\ known' = IF g.inst = mounted THEN g.answer ELSE known
    /\ crossed' = (crossed \/ (g.inst = mounted /\
          (g.answer < known \/ (g.from = "tick" /\ g.handle # ref[g.inst]))))

Delivered(g, from) ==
    /\ g.from = from /\ g.answer # Pending
    /\ gets' = gets \ {g}
    /\ UNCHANGED <<kind, backendVars, mounts, mounted, fails>>

\* A run still active is taken up, also by an instance unmounted meanwhile.
TakeUp(g) ==
    /\ Delivered(g, "mount")
    /\ \/ Active(g.answer) /\ Show(g) /\ Start(g.inst, g.run)
       \/ ~Active(g.answer) /\ kind = "index" /\ Show(g) /\ UNCHANGED timerVars
       \/ ~Active(g.answer) /\ kind # "index" /\ UNCHANGED <<known, crossed, timerVars>>

Started(g) == Delivered(g, "start") /\ Show(g) /\ Start(g.inst, g.run)

\* Faulty variant: only the batches stop when they end well.
TickAnsweredStopping(g) ==
    /\ Delivered(g, "tick")
    /\ Show(g)
    /\ IF Terminal(g.answer) /\ kind # "search" THEN Stop(g.inst) ELSE UNCHANGED timerVars
\* The end of a run stops the interval its instance has now, whichever tick
\* brings it.
TickAnswered(g) ==
    /\ Delivered(g, "tick")
    /\ Show(g)
    /\ IF Terminal(g.answer) THEN Stop(g.inst) ELSE UNCHANGED timerVars

Refreshed(g) ==
    /\ Delivered(g, "refresh")
    /\ Show(g)
    /\ IF Active(g.answer) /\ ref[g.inst] = 0 THEN Start(g.inst, g.run) ELSE UNCHANGED timerVars

Cancelled(g) == Delivered(g, "cancel") /\ Show(g) /\ UNCHANGED timerVars

\* Ticks are silent about errors and go on; a refused start is a toast.
Fail(g) ==
    /\ g.answer = Pending
    /\ \/ fails < MaxFails /\ fails' = fails + 1
       \/ g.from \in {"start", "cancel"} /\ UNCHANGED fails
       \/ g.run \in deleted /\ UNCHANGED fails
    /\ gets' = gets \ {g}
    /\ UNCHANGED <<kind, backendVars, mounts, mounted, timerVars, known, crossed>>

Deliver(g) == TakeUp(g) \/ Started(g) \/ TickAnswered(g) \/ Refreshed(g) \/ Cancelled(g)
Answer(g)  == Execute(g) \/ Deliver(g) \/ Fail(g)

Next ==
    \/ OtherStarts \/ \E r \in Runs : RunEnds(r) \/ DeleteJob(r)
    \/ Mount \/ Unmount \/ UserStarts \/ RefreshIndex \/ CancelIndex
    \/ \E t \in live : Tick(t)
    \/ \E g \in gets : Answer(g)

\* Runs end (RunEnds of MailboxIndex, AnalysisEnds of CaseFile, the bounded loops
\* of the batches; a run whose task has died, as CaseBatch shows, with the restart
\* of the backend), timers fire, requests are answered or fail.
Fairness ==
    /\ \A r \in Runs : WF_pollVars(RunEnds(r))
    /\ \A i \in Instances :
         /\ WF_pollVars(\E t \in live : t.inst = i /\ Tick(t))
         /\ WF_pollVars(\E g \in gets : g.inst = i /\ g.from = "tick" /\ (Execute(g) \/ Fail(g)))
         /\ WF_pollVars(\E g \in gets : g.inst = i /\ TickAnswered(g))
Spec == Init /\ [][Next]_pollVars /\ Fairness

-----------------------------------------------------------------------------
(* Properties *)

\* The polls are in hand: every interval of the browser is in the ref of its
\* instance, whose next start or unmount stops it, one per instance; and a run
\* that the screen shows as active is being polled, unless answers have crossed.
PollsAreInHand ==
    /\ \A t \in live : ref[t.inst] = t.handle
    /\ mounted # 0 /\ Active(known) => ref[mounted] # 0 \/ crossed

\* No poll goes on for ever, not even one started by an instance that was already
\* unmounted: it ends with the run, unless the jobs it asks for were deleted
\* before it saw their end.
PollingEnds ==
    \A i \in Instances :
        ref[i] # 0 ~> ref[i] = 0 \/ \E t \in live : t.inst = i /\ t.run \in deleted
=============================================================================
