----------------------------- MODULE MailDialog -----------------------------
(***************************************************************************)
(* The dialogs that send a case by mail (CasesView.tsx and                 *)
(* SendEmailModal.tsx): the report dialog that fills the mail from a       *)
(* template, the mail dialog itself, the AI suggestion for its body, its   *)
(* preview and the PDF of the case.  They share one set of state variables *)
(* for all cases, and their requests carry what the variables held when    *)
(* they were sent.                                                         *)
(*                                                                         *)
(* Texts are reduced to the case they are about.  A piece of the dialog    *)
(* is "own" when it was made for the dialog it is in; it is "stray" when   *)
(* its answer came after that dialog ended, or when it was left behind by  *)
(* one that ended otherwise than by its cancel button.                     *)
(* The modals do not trap the focus (modalScrollLock.ts), so the buttons   *)
(* of the cards behind stay within reach of the keyboard.                  *)
(***************************************************************************)
EXTENDS Naturals, FiniteSets

CONSTANTS Cases, None,
          MaxCalls   \* bound: requests in flight at once

CasesAssumption == None \notin Cases
CallsAssumption == MaxCalls \in Nat \ {0}

VARIABLES
    mail,         \* sendEmailTarget
    form,         \* sendEmailForm: whose recipients, and the piece that is its body
    suggestion,   \* bodySuggestion
    preview,      \* emailPreviewHtml while emailPreviewOpen
    pdf,          \* casePdfInfo
    report,       \* reportCaseId
    fields,       \* the case reportManualValues were taken from
    calls         \* calls[k]: the request of kind k in flight, if any

dialogVars == <<mail, form, suggestion, preview, pdf>>
reportVars == <<report, fields>>
mailVars   == <<dialogVars, reportVars, calls>>

Piece   == [of : Cases, how : {"own", "stray"}]
Pieces  == Piece \cup {None}
Own(c)  == [of |-> c, how |-> "own"]
Targets == Cases \cup {None}

Idle  == [case |-> None]
Kinds == {"summarize", "preview", "pdf", "send", "report"}
Calls(k) == CASE k \in {"summarize", "preview"} -> [text : Piece]
              [] k = "pdf"    -> [case : Cases]
              [] k = "send"   -> [case : Cases, to : Targets, text : Piece]
              [] k = "report" -> [case : Cases, fields : Cases]

TypeOK ==
    /\ mail \in Targets
    /\ form \in [to : Targets, text : Pieces]
    /\ suggestion \in Pieces
    /\ preview \in Pieces
    /\ pdf \in Pieces
    /\ report \in Targets
    /\ fields \in Targets
    /\ DOMAIN calls = Kinds
    /\ \A k \in Kinds : calls[k] \in Calls(k) \cup {Idle}

Init ==
    /\ mail = None
    /\ form = [to |-> None, text |-> None]
    /\ suggestion = None
    /\ preview = None
    /\ pdf = None
    /\ report = None
    /\ fields = None
    /\ calls = [k \in Kinds |-> Idle]

-----------------------------------------------------------------------------

Busy(k)  == calls[k] # Idle
InFlight == Cardinality({k \in Kinds : Busy(k)})
\* The button of a request is disabled while one of its kind is in flight,
\* whichever case that one is about.
Ask(k, call) ==
    /\ ~Busy(k)
    /\ InFlight < MaxCalls
    /\ calls' = [calls EXCEPT ![k] = call]
\* Faulty variant: the mark of the request is cleared to null.
DoneWithNull(k) == calls' = [calls EXCEPT ![k] = None]
Done(k) == calls' = [calls EXCEPT ![k] = Idle]

Strayed(p) == IF p = None THEN None ELSE [p EXCEPT !.how = "stray"]
\* The pieces of a dialog that ends without its cancel button stay.
LeaveBehind ==
    /\ suggestion' = Strayed(suggestion)
    /\ preview' = Strayed(preview)
    /\ pdf' = Strayed(pdf)
\* An answer is of this dialog if its case is on the screen.
Arrived(p) == IF p.of = mail THEN p ELSE Strayed(p)

-----------------------------------------------------------------------------
(* The mail dialog *)

\* openSendEmailModal: recipients of the last message, body of the last note.
OpenMail(c) ==
    /\ mail' = c
    /\ form' = [to |-> c, text |-> Own(c)]
    /\ IF mail \in {c, None} THEN UNCHANGED <<suggestion, preview, pdf>> ELSE LeaveBehind
    /\ UNCHANGED <<reportVars, calls>>

\* Faulty variant: the suggestion is left for the next dialog.
CloseMailOnly ==
    /\ mail # None
    /\ ~Busy("send")
    /\ mail' = None
    /\ preview' = None
    /\ pdf' = None
    /\ UNCHANGED <<form, suggestion, reportVars, calls>>
CloseMail ==
    /\ mail # None
    /\ ~Busy("send")
    /\ mail' = None
    /\ suggestion' = None
    /\ preview' = None
    /\ pdf' = None
    /\ UNCHANGED <<form, reportVars, calls>>

SummarizeBody == mail # None /\ Ask("summarize", [text |-> form.text]) /\ UNCHANGED <<dialogVars, reportVars>>
Summarized ==
    /\ Busy("summarize")
    /\ suggestion' = Arrived(calls["summarize"].text)
    /\ Done("summarize")
    /\ UNCHANGED <<mail, form, preview, pdf, reportVars>>

AcceptSuggestion ==
    /\ mail # None /\ suggestion # None
    /\ form' = [form EXCEPT !.text = suggestion]
    /\ suggestion' = None
    /\ UNCHANGED <<mail, preview, pdf, reportVars, calls>>
RejectSuggestion ==
    /\ mail # None /\ suggestion # None
    /\ suggestion' = None
    /\ UNCHANGED <<mail, form, preview, pdf, reportVars, calls>>

PreviewEmail == mail # None /\ Ask("preview", [text |-> form.text]) /\ UNCHANGED <<dialogVars, reportVars>>
Previewed ==
    /\ Busy("preview")
    /\ preview' = Arrived(calls["preview"].text)
    /\ Done("preview")
    /\ UNCHANGED <<mail, form, suggestion, pdf, reportVars>>
ClosePreview == preview # None /\ preview' = None /\ UNCHANGED <<mail, form, suggestion, pdf, reportVars, calls>>

\* A PDF that is there is opened again, without a request.
OpenCasePdf == /\ mail # None /\ preview # None /\ pdf = None
               /\ Ask("pdf", [case |-> mail])
               /\ UNCHANGED <<dialogVars, reportVars>>
PdfReady ==
    /\ Busy("pdf")
    /\ pdf' = Arrived(Own(calls["pdf"].case))
    /\ Done("pdf")
    /\ UNCHANGED <<mail, form, suggestion, preview, reportVars>>

SendEmail == mail # None /\ Ask("send", [case |-> mail, to |-> form.to, text |-> form.text]) /\ UNCHANGED <<dialogVars, reportVars>>
\* Success closes the dialog that is open now and clears nothing else.
EmailSent ==
    /\ Busy("send")
    /\ mail' = None
    /\ LeaveBehind
    /\ Done("send")
    /\ UNCHANGED <<form, reportVars>>

-----------------------------------------------------------------------------
(* The report dialog *)

\* From the card, or from the question after closing the case.
OpenReport(c) == report' = c /\ fields' = None /\ UNCHANGED <<dialogVars, calls>>
CloseReport   == report # None /\ report' = None /\ UNCHANGED <<fields, dialogVars, calls>>
SelectReportTemplate == report # None /\ fields' = report /\ UNCHANGED <<report, dialogVars, calls>>

GenerateReport == report # None /\ fields # None /\ Ask("report", [case |-> report, fields |-> fields]) /\ UNCHANGED <<dialogVars, reportVars>>
\* Opens the mail dialog of its case, over any other, and closes the report
\* dialog, whichever case it is about by now.
ReportRendered ==
    /\ Busy("report")
    /\ LET c == calls["report"].case IN
          /\ mail' = c
          /\ form' = [to |-> c, text |-> Own(c)]
          /\ IF mail \in {c, None} THEN UNCHANGED <<suggestion, preview, pdf>> ELSE LeaveBehind
    /\ report' = None
    /\ Done("report")
    /\ UNCHANGED fields

Fail(k) == Busy(k) /\ Done(k) /\ UNCHANGED <<dialogVars, reportVars>>

Next ==
    \/ \E c \in Cases : OpenMail(c) \/ OpenReport(c)
    \/ CloseMail \/ SummarizeBody \/ AcceptSuggestion \/ RejectSuggestion
    \/ PreviewEmail \/ ClosePreview \/ OpenCasePdf \/ SendEmail
    \/ CloseReport \/ SelectReportTemplate \/ GenerateReport
    \/ Summarized \/ Previewed \/ PdfReady \/ EmailSent \/ ReportRendered
    \/ \E k \in Kinds : Fail(k)

Spec == Init /\ [][Next]_mailVars

-----------------------------------------------------------------------------
(* Properties *)

OfCase(p, c) == p = None \/ p.of = c \/ p.how = "stray"

\* The dialogs keep the cases apart.  The open mail dialog shows its own case,
\* recipients always, and body, suggestion, preview and PDF but for what a late
\* answer or a dialog that was not cancelled has left there; a mail in flight goes
\* to the people of the case it is recorded under, with its text; a report is
\* rendered from the fields of its case, whatever the dialogs have shown since.
CasesStayApart ==
    /\ mail # None =>
          /\ form.to = mail
          /\ \A p \in {form.text, suggestion, preview, pdf} : OfCase(p, mail)
    /\ Busy("send") => /\ calls["send"].to = calls["send"].case
                       /\ OfCase(calls["send"].text, calls["send"].case)
    /\ Busy("report") => calls["report"].fields = calls["report"].case
=============================================================================
