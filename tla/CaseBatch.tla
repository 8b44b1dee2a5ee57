------------------------------ MODULE CaseBatch ------------------------------
(***************************************************************************)
(* The creation of cases in a batch (case_batch_service.py): a background  *)
(* task that goes three times through a list of codes.  It creates an      *)
(* empty case for each or reuses the one there is, correlates each with    *)
(* the messages indexed, and, if asked to, searches the mailbox for each   *)
(* and correlates again.  What it found out in one pass it keeps in memory *)
(* for the next, while users delete, close, share and withdraw the cases.  *)
(*                                                                         *)
(* A step is one statement or one call of the task.  The batches are of    *)
(* one user.  Which messages a correlation links is CaseFile's; a search   *)
(* is two jobs of AnalysisJobs and ends with them or after ten minutes,    *)
(* and what came of it only goes into a text.  Deleting a case stands for  *)
(* merging it and for deleting its mailbox too.  A database that refuses a *)
(* statement for reasons of its own is left out.                           *)
(***************************************************************************)
EXTENDS Naturals, Sequences, FiniteSets

CONSTANTS Batches, Codes,
          MaxItems   \* bound: lines of all batches together

ItemsAssumption == MaxItems \in Nat

VARIABLES
    run,      \* rows of case_batch_runs
    items,    \* rows of case_batch_run_items, per batch
    task,     \* the background task of each batch
    cases,    \* all cases so far, by case_id; those deleted too
    \* history, for the properties
    harmed    \* batches one of whose cases was deleted or withdrawn from the user, or
              \* that search the mailbox for a case that the user may only read

batchVars == <<run, items, task, cases, harmed>>

NoCase  == 0        \* no case
CaseIds == 1..(MaxItems + 1)
Lines   == 1..MaxItems
Row  == [status : {"none", "queued", "running", "success", "failed"}, search : BOOLEAN,
         created : 0..MaxItems, correlated : 0..MaxItems, searched : 0..MaxItems]
Item == [code : Codes, status : {"pendiente", "creando", "listo", "error"},
         case : CaseIds \cup {NoCase}, reused : BOOLEAN]
\* by: the line the case was created for, of which batch; <<>> if by hand.
Case == [code : Codes, row : {"open", "closed", "gone"}, access : {"edit", "read", "none"},
         by : (Batches \X Lines) \cup {<< >>}]
Steps == {"begin", "announce", "find", "visit", "insert", "detail", "link", "fails", "count",
          "look", "search", "core", "matches", "store", "advance", "finish"}
\* found, reused: created_by_item, reused_by_item.
Task == [pc : Steps, pass : 1..3, i : Lines, at : CaseIds \cup {NoCase},
         found : [Lines -> CaseIds \cup {NoCase}], reused : [Lines -> BOOLEAN]]
NoTask == [pc |-> "none"]

TypeOK ==
    /\ run \in [Batches -> Row]
    /\ DOMAIN items = Batches /\ \A b \in Batches : items[b] \in Seq(Item)
    /\ \A b \in Batches : task[b] \in Task \cup {NoTask}
    /\ cases \in Seq(Case) /\ Len(cases) <= MaxItems + 1
    /\ harmed \in SUBSET Batches

NoRow == [status |-> "none", search |-> FALSE, created |-> 0, correlated |-> 0, searched |-> 0]

\* There may be a case of before, shared with the user in one way or another.
Init ==
    /\ run = [b \in Batches |-> NoRow]
    /\ items = [b \in Batches |-> << >>]
    /\ task = [b \in Batches |-> NoTask]
    /\ \/ cases = << >>
       \/ \E c \in Case : c.row # "gone" /\ c.by = << >> /\ cases = <<c>>
    /\ harmed = {}

Stored(c)  == c # NoCase /\ cases[c].row # "gone"
\* get_case_detail, get_case_core: what the user may not see is not there.
Visible(c) == Stored(c) /\ cases[c].access # "none"

At(b, pc)   == task[b].pc = pc
Line(b)     == items[b][task[b].i]
Found(b)    == task[b].found[task[b].i]
Goto(b, pc) == task' = [task EXCEPT ![b].pc = pc]
\* The exception leaves run_batch, and nobody writes that down.
Break(b)    == task' = [task EXCEPT ![b] = NoTask]

\* Faulty variant: the last write of a line does not give `reused'.
UpdateItemByDefault(b, status, c, reused) ==
    items' = [items EXCEPT ![b][task[b].i] =
                 [@ EXCEPT !.status = status, !.case = c, !.reused = reused /\ status # "listo"]]
\* update_item_status writes every column, with the defaults of what is not given.
UpdateItem(b, status, c, reused) ==
    items' = [items EXCEPT ![b][task[b].i] =
                 [@ EXCEPT !.status = status, !.case = c, !.reused = reused]]

\* The next line of a pass; the later passes skip those without a case.  Returns
\* the first line of the next pass after the last.
Candidates(b, pass, i) ==
    {k \in (i + 1)..Len(items[b]) : pass = 1 \/ task[b].found[k] # NoCase}
First(S) == CHOOSE k \in S : \A l \in S : k <= l
Continue(b) ==
    LET t    == task[b]
        here == Candidates(b, t.pass, t.i)
        next == IF t.pass = 1 \/ (t.pass = 2 /\ run[b].search) THEN Candidates(b, t.pass + 1, 0)
                ELSE {}
        To(pass, i) == [t EXCEPT !.pass = pass, !.i = i, !.pc =
                            CASE pass = 1 -> "announce" [] pass = 2 -> "core" [] pass = 3 -> "look"]
    IN  task' = [task EXCEPT ![b] =
            IF here # {} THEN To(t.pass, First(here))
            ELSE IF next # {} THEN To(t.pass + 1, First(next))
            ELSE [t EXCEPT !.pc = "finish"]]

-----------------------------------------------------------------------------
(* The request and the start of the task *)

\* The lines of all batches so far.
AllLines == {l \in Batches \X Lines : l[2] <= Len(items[l[1]])}
Total    == Cardinality(AllLines)

StartBatch(b) ==
    /\ run[b].status = "none"
    /\ \E n \in 1..(MaxItems - Total), search \in BOOLEAN : \E codes \in [1..n -> Codes] :
         /\ run' = [run EXCEPT ![b] = [NoRow EXCEPT !.status = "queued", !.search = search]]
         /\ items' = [items EXCEPT ![b] = [k \in 1..n |->
                [code |-> codes[k], status |-> "pendiente", case |-> NoCase, reused |-> FALSE]]]
    /\ task' = [task EXCEPT ![b] =
            [pc |-> "begin", pass |-> 1, i |-> 1, at |-> NoCase,
             found |-> [k \in Lines |-> NoCase], reused |-> [k \in Lines |-> FALSE]]]
    /\ UNCHANGED <<cases, harmed>>

\* The user may have been deleted meanwhile.
Begin(b) ==
    /\ At(b, "begin")
    /\ \/ run' = [run EXCEPT ![b].status = "running"] /\ Goto(b, "announce")
       \/ run' = [run EXCEPT ![b].status = "failed"] /\ Break(b)
    /\ UNCHANGED <<items, cases, harmed>>

-----------------------------------------------------------------------------
(* First pass: create_empty_case, any exception of which is caught *)

Announce(b) ==
    /\ At(b, "announce")
    /\ UpdateItem(b, "creando", NoCase, FALSE)
    /\ Goto(b, "find")
    /\ UNCHANGED <<run, cases, harmed>>

\* The oldest case of the code, whoever's it is.
FindCase(b) ==
    /\ At(b, "find")
    /\ LET same == {c \in 1..Len(cases) : Stored(c) /\ cases[c].code = Line(b).code}
       IN  task' = [task EXCEPT ![b].at = IF same = {} THEN NoCase ELSE First(same),
                                ![b].pc = IF same = {} THEN "insert" ELSE "visit"]
    /\ UNCHANGED <<run, items, cases, harmed>>

Keep(b, reused) ==
    /\ task' = [task EXCEPT ![b].found[task[b].i] = task[b].at, ![b].pc = "link",
                            ![b].reused[task[b].i] = reused]
    /\ harmed' = harmed \cup
            IF run[b].search /\ cases[task[b].at].access = "read" THEN {b} ELSE {}
VisitCase(b) ==
    /\ At(b, "visit")
    /\ IF Visible(task[b].at) THEN Keep(b, TRUE) ELSE Goto(b, "insert") /\ UNCHANGED harmed
    /\ UNCHANGED <<run, items, cases>>

InsertCase(b) ==
    /\ At(b, "insert")
    /\ cases' = Append(cases, [code |-> Line(b).code, row |-> "open", access |-> "edit",
                               by |-> <<b, task[b].i>>])
    /\ task' = [task EXCEPT ![b].at = Len(cases) + 1, ![b].pc = "detail"]
    /\ UNCHANGED <<run, items, harmed>>

\* `assert detail is not NoCase'.
ReadDetail(b) ==
    /\ At(b, "detail")
    /\ IF Visible(task[b].at) THEN Keep(b, FALSE) ELSE Goto(b, "fails") /\ UNCHANGED harmed
    /\ UNCHANGED <<run, items, cases>>

\* case_id is a foreign key: a case deleted by now is an exception.
LinkItem(b) ==
    /\ At(b, "link")
    /\ IF Stored(Found(b))
       THEN UpdateItem(b, "creando", Found(b), task[b].reused[task[b].i]) /\ Goto(b, "count")
       ELSE UNCHANGED items /\ Goto(b, "fails")
    /\ UNCHANGED <<run, cases, harmed>>

ItemFails(b) ==
    /\ At(b, "fails")
    /\ UpdateItem(b, "error", NoCase, FALSE)
    /\ Goto(b, "count")
    /\ UNCHANGED <<run, cases, harmed>>

CountCreated(b) ==
    /\ At(b, "count")
    /\ run' = [run EXCEPT ![b].created = @ + 1]
    /\ Continue(b)
    /\ UNCHANGED <<items, cases, harmed>>
-----------------------------------------------------------------------------
(* Second and third pass: refresh_case_correlation *)

\* Faulty variant: CaseClosedError is caught in the second pass only, too.
CorrelateClosedToo(b) ==
    /\ At(b, "core")
    /\ LET c == Found(b)
       IN  IF ~Visible(c) THEN Goto(b, "store")
           ELSE IF cases[c].row = "open" /\ cases[c].access = "edit" THEN Goto(b, "matches")
           ELSE IF task[b].pass = 2 THEN Goto(b, "store") ELSE Break(b)
    /\ UNCHANGED <<run, items, cases, harmed>>
\* A closed case stays as it is; CaseAccessDeniedError is caught in the second
\* pass only.
Correlate(b) ==
    /\ At(b, "core")
    /\ LET c == Found(b)
       IN  IF ~Visible(c) \/ cases[c].row = "closed" THEN Goto(b, "store")
           ELSE IF cases[c].access = "edit" THEN Goto(b, "matches")
           ELSE IF task[b].pass = 2 THEN Goto(b, "store") ELSE Break(b)
    /\ UNCHANGED <<run, items, cases, harmed>>

\* The links are inserted and the detail read: neither without the case, and
\* no message_count without the detail.
LinkMatches(b) ==
    /\ At(b, "matches")
    /\ IF Visible(Found(b)) THEN Goto(b, "store") ELSE Break(b)
    /\ UNCHANGED <<run, items, cases, harmed>>

StoreItem(b) ==
    /\ At(b, "store")
    /\ IF Stored(Found(b))
       THEN /\ UpdateItem(b, IF task[b].pass = 2 /\ run[b].search THEN "creando" ELSE "listo",
                          Found(b), task[b].reused[task[b].i])
            /\ Goto(b, "advance")
       ELSE UNCHANGED items /\ Break(b)
    /\ UNCHANGED <<run, cases, harmed>>

\* processed_keywords follows correlated_count, and is not modelled.
Advance(b) ==
    /\ At(b, "advance")
    /\ IF task[b].pass = 2 THEN run' = [run EXCEPT ![b].correlated = @ + 1]
       ELSE run' = [run EXCEPT ![b].searched = @ + 1]
    /\ Continue(b)
    /\ UNCHANGED <<items, cases, harmed>>

AnnounceSearch(b) ==
    /\ At(b, "look")
    /\ IF Stored(Found(b))
       THEN UpdateItem(b, "creando", Found(b), task[b].reused[task[b].i]) /\ Goto(b, "search")
       ELSE UNCHANGED items /\ Break(b)
    /\ UNCHANGED <<run, cases, harmed>>

\* Both jobs have ended or have been given up.
SearchEnds(b) ==
    /\ At(b, "search")
    /\ Goto(b, "core")
    /\ UNCHANGED <<run, items, cases, harmed>>

\* Faulty variant: the status of a line for that of the batch.
FinishAsListo(b) ==
    /\ At(b, "finish")
    /\ run' = [run EXCEPT ![b].status = "listo"]
    /\ task' = [task EXCEPT ![b] = NoTask]
    /\ UNCHANGED <<items, cases, harmed>>
Finish(b) ==
    /\ At(b, "finish")
    /\ run' = [run EXCEPT ![b].status = "success"]
    /\ task' = [task EXCEPT ![b] = NoTask]
    /\ UNCHANGED <<items, cases, harmed>>

-----------------------------------------------------------------------------
(* Everybody else *)

With(c) == {b \in Batches : task[b] # NoTask /\ \E k \in Lines : task[b].found[k] = c}

\* ON DELETE SET NULL.
DeleteCase(c) ==
    /\ Stored(c)
    /\ cases' = [cases EXCEPT ![c].row = "gone"]
    /\ items' = [b \in Batches |-> [k \in DOMAIN items[b] |->
            IF items[b][k].case = c THEN [items[b][k] EXCEPT !.case = NoCase] ELSE items[b][k]]]
    /\ harmed' = harmed \cup With(c)
    /\ UNCHANGED <<run, task>>

CloseCase(c) ==
    /\ Stored(c) /\ cases[c].row = "open"
    /\ cases' = [cases EXCEPT ![c].row = "closed"]
    /\ UNCHANGED <<run, items, task, harmed>>
ReopenCase(c) ==
    /\ Stored(c) /\ cases[c].row = "closed"
    /\ cases' = [cases EXCEPT ![c].row = "open"]
    /\ UNCHANGED <<run, items, task, harmed>>

\* A share is withdrawn or reduced, or the case gets another owner.
Withdraw(c, access) ==
    /\ Stored(c) /\ <<cases[c].access, access>> \in
            {<<"edit", "read">>, <<"edit", "none">>, <<"read", "none">>}
    /\ cases' = [cases EXCEPT ![c].access = access]
    /\ harmed' = harmed \cup With(c)
    /\ UNCHANGED <<run, items, task>>
Share(c, access) ==
    /\ Stored(c) /\ <<cases[c].access, access>> \in
            {<<"none", "read">>, <<"none", "edit">>, <<"read", "edit">>}
    /\ cases' = [cases EXCEPT ![c].access = access]
    /\ UNCHANGED <<run, items, task, harmed>>

\* The backend dies and starts again: fail_orphaned_batch_runs.
Restart ==
    /\ task' = [b \in Batches |-> NoTask]
    /\ run' = [b \in Batches |-> IF run[b].status \in {"queued", "running"}
                                 THEN [run[b] EXCEPT !.status = "failed"] ELSE run[b]]
    /\ UNCHANGED <<items, cases, harmed>>

-----------------------------------------------------------------------------
RunBatch(b) ==
    \/ Begin(b) \/ Announce(b) \/ FindCase(b) \/ VisitCase(b) \/ InsertCase(b) \/ ReadDetail(b)
    \/ LinkItem(b) \/ ItemFails(b) \/ CountCreated(b)
    \/ Correlate(b) \/ LinkMatches(b) \/ StoreItem(b) \/ Advance(b)
    \/ AnnounceSearch(b) \/ SearchEnds(b) \/ Finish(b)

Next ==
    \/ \E b \in Batches : StartBatch(b) \/ RunBatch(b)
    \/ \E c \in 1..Len(cases) :
          \/ DeleteCase(c) \/ CloseCase(c) \/ ReopenCase(c)
          \/ \E access \in {"edit", "read", "none"} : Withdraw(c, access) \/ Share(c, access)
    \/ Restart

\* The event loop runs the task, and a search ends within ten minutes.
Fairness == \A b \in Batches : WF_batchVars(RunBatch(b))
Spec == Init /\ [][Next]_batchVars /\ Fairness

-----------------------------------------------------------------------------
(* Properties *)

\* What the screen says of a batch adds up: a line with a case names the case of
\* its code, and says it was reused exactly if the line did not create it; and
\* when the batch has ended well every line was counted as created, and each that
\* is `listo' as correlated and, if asked for, as searched; the others failed.
ResultsAddUp ==
    \A b \in Batches :
        /\ \A k \in DOMAIN items[b] : items[b][k].case # NoCase =>
              /\ cases[items[b][k].case].code = items[b][k].code
              /\ items[b][k].reused = (cases[items[b][k].case].by # <<b, k>>)
        /\ run[b].status = "success" =>
              LET ready == {k \in DOMAIN items[b] : items[b][k].status = "listo"}
              IN  /\ \A k \in DOMAIN items[b] : k \in ready \/ items[b][k].status = "error"
                  /\ run[b].created = Len(items[b])
                  /\ run[b].correlated = Cardinality(ready)
                  /\ run[b].searched = IF run[b].search THEN Cardinality(ready) ELSE 0

\* A batch ends, whatever the users do to its cases in the meantime, unless they
\* delete one or take it from its user, or it searches the mailbox for a case
\* that its user may only read.
BatchEnds ==
    \A b \in Batches :
        run[b].status \in {"queued", "running"} ~>
            run[b].status \in {"success", "failed"} \/ b \in harmed

\* fail_orphaned_batch_runs: a batch that is queued or running when the backend
\* starts is one whose process died; so while it lives, somebody runs the batch.
BatchIsBeingRun ==
    \A b \in Batches : run[b].status \in {"queued", "running"} => task[b] # NoTask
=============================================================================
