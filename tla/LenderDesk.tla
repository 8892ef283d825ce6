--------------------------------- MODULE LenderDesk ---------------------------------
(***************************************************************************)
(* The lender's page of loan requests: a list, page by page, and beside it *)
(* the panel of the loan that is selected, where it is approved with terms *)
(* or declined with a reason.  The panel of one loan becomes that of the   *)
(* next without being made anew, unless it was closed in between.          *)
(***************************************************************************)
EXTENDS Integers, FiniteSets

CONSTANTS
  Applications,  \* the loans asked of the lender
  PageOf,        \* the page of the list each of them is on
  Reviewers      \* how the page is used

LastPage == 1

ASSUME DeskAssumption ==
  /\ IsFiniteSet(Applications) /\ PageOf \in [Applications -> 0..LastPage]
  /\ Reviewers \subseteq [tidy: BOOLEAN, failures: BOOLEAN]

VARIABLES
  reviewer,   \* the circumstances of a behaviour
  requests,   \* the loans, on the server
  listed,     \* their states, as the list was read last
  panel,      \* the page and its panel
  decision    \* the decision that the panel waits for

deskVars == <<reviewer, requests, listed, panel, decision>>

State == {"pending_partner", "approved", "rejected"}
Waiting == [loan: SUBSET Applications, ok: BOOLEAN]
NoDecision == [loan |-> {}, ok |-> FALSE]

\* What is typed, or filled in beforehand, is known by the loan it was meant
\* for: "terms" and "reason" are those loans, "error" is the one a failure was
\* about.
LenderTypeOK ==
  /\ reviewer \in Reviewers
  /\ requests \in [Applications -> [state: State, terms: SUBSET Applications, reason: SUBSET Applications]]
  /\ listed \in [Applications -> State]
  /\ panel \in [page: 0..LastPage, selected: SUBSET Applications, approving: BOOLEAN, declining: BOOLEAN,
                terms: SUBSET Applications, reason: SUBSET Applications, error: SUBSET Applications]
  /\ decision \in Waiting

EmptyPanel(page, selected) ==
  [page |-> page, selected |-> selected, approving |-> FALSE, declining |-> FALSE,
   terms |-> {a \in selected : PageOf[a] = page}, reason |-> {}, error |-> {}]

LenderInit ==
  /\ reviewer \in Reviewers
  /\ requests = [a \in Applications |-> [state |-> "pending_partner", terms |-> {}, reason |-> {}]]
  /\ listed = [a \in Applications |-> "pending_partner"]
  /\ panel = EmptyPanel(0, {})
  /\ decision = NoDecision

\* The panel is there for the selected loan when the list has it.
Shown == {a \in panel.selected : PageOf[a] = panel.page}
Deciding == decision.loan # {}

\* A panel that goes takes its form, and its wait for an answer, with it.
Unmount(page, selected) ==
  /\ panel' = EmptyPanel(page, selected)
  /\ decision' = NoDecision

-----------------------------------------------------------------------------
(* The list *)

ReadList ==
  /\ listed' = [a \in Applications |-> requests[a].state]
  /\ listed' # listed
  /\ UNCHANGED <<reviewer, requests, panel, decision>>

TurnPage ==
  /\ ~panel.declining
  /\ \E page \in 0..LastPage \ {panel.page} : Unmount(page, panel.selected)
  /\ UNCHANGED <<reviewer, requests, listed>>

\* A tidy reviewer closes the panel of one loan before the next is opened.
SelectLoan ==
  /\ ~panel.declining
  /\ \E a \in Applications :
       /\ PageOf[a] = panel.page /\ a \notin panel.selected
       /\ IF Shown = {} THEN Unmount(panel.page, {a})
          ELSE ~reviewer.tidy /\ panel' = [panel EXCEPT !.selected = {a}] /\ UNCHANGED decision
  /\ UNCHANGED <<reviewer, requests, listed>>

\* Mutant: what was filled in stays.
ClosePanel_keeping ==
  /\ Shown # {} /\ ~panel.declining
  /\ panel' = [panel EXCEPT !.selected = {}]
  /\ UNCHANGED <<reviewer, requests, listed, decision>>

ClosePanel ==
  /\ Shown # {} /\ ~panel.declining
  /\ Unmount(panel.page, {})
  /\ UNCHANGED <<reviewer, requests, listed>>

-----------------------------------------------------------------------------
(* The panel *)

OpenApproval ==
  /\ ~panel.approving /\ ~panel.declining
  /\ \E a \in Shown : listed[a] = "pending_partner"
  /\ panel' = [panel EXCEPT !.approving = TRUE, !.error = {}]
  /\ UNCHANGED <<reviewer, requests, listed, decision>>

TypeTerms ==
  /\ Shown # {} /\ panel.approving /\ panel.terms # Shown
  /\ panel' = [panel EXCEPT !.terms = Shown]
  /\ UNCHANGED <<reviewer, requests, listed, decision>>

CancelApproval ==
  /\ Shown # {} /\ panel.approving
  /\ panel' = [panel EXCEPT !.approving = FALSE]
  /\ UNCHANGED <<reviewer, requests, listed, decision>>

OpenDecline ==
  /\ Shown # {} /\ ~panel.approving /\ ~panel.declining /\ ~Deciding
  /\ panel' = [panel EXCEPT !.declining = TRUE, !.error = {}]
  /\ UNCHANGED <<reviewer, requests, listed, decision>>

TypeReason ==
  /\ panel.declining /\ panel.reason # Shown
  /\ panel' = [panel EXCEPT !.reason = Shown]
  /\ UNCHANGED <<reviewer, requests, listed, decision>>

\* The reason is cleared by the button, and left by a click beside the question.
DismissDecline ==
  /\ panel.declining
  /\ \E cleared \in BOOLEAN :
       panel' = [panel EXCEPT !.declining = FALSE, !.reason = IF cleared THEN {} ELSE @]
  /\ UNCHANGED <<reviewer, requests, listed, decision>>

\* The server decides a loan that waits for a decision, once; the call fails, or
\* its answer is lost, when failures are on.
Decide(record) ==
  \E a \in Shown, reached \in {TRUE, ~reviewer.failures}, heard \in {TRUE, ~reviewer.failures} :
    LET decides == reached /\ requests[a].state = "pending_partner"
    IN /\ requests' = IF decides THEN [requests EXCEPT ![a] = record] ELSE requests
       /\ decision' = [loan |-> {a}, ok |-> decides /\ heard]

Approve ==
  /\ panel.approving /\ ~Deciding
  /\ Decide([state |-> "approved", terms |-> panel.terms, reason |-> {}])
  /\ panel' = [panel EXCEPT !.error = {}]
  /\ UNCHANGED <<reviewer, listed>>

Reject ==
  /\ panel.declining /\ ~Deciding
  /\ Decide([state |-> "rejected", terms |-> {}, reason |-> panel.reason])
  /\ panel' = [panel EXCEPT !.error = {}]
  /\ UNCHANGED <<reviewer, listed>>

\* Whatever the panel shows by now is closed.
Decided ==
  /\ Deciding /\ decision.ok
  /\ Unmount(panel.page, {})
  /\ UNCHANGED <<reviewer, requests, listed>>

Failed ==
  /\ Deciding /\ ~decision.ok
  /\ panel' = [panel EXCEPT !.error = decision.loan, !.declining = FALSE]
  /\ decision' = NoDecision
  /\ UNCHANGED <<reviewer, requests, listed>>

\* A colleague decides on another screen.
DecidedElsewhere ==
  /\ \E a \in Applications :
       /\ requests[a].state = "pending_partner"
       /\ requests' = [requests EXCEPT ![a] = [state |-> "rejected", terms |-> {}, reason |-> {a}]]
  /\ UNCHANGED <<reviewer, listed, panel, decision>>

LenderNext ==
  \/ ReadList \/ TurnPage \/ SelectLoan \/ ClosePanel
  \/ OpenApproval \/ TypeTerms \/ CancelApproval \/ Approve
  \/ OpenDecline \/ TypeReason \/ DismissDecline \/ Reject
  \/ Decided \/ Failed \/ DecidedElsewhere

LenderSpec == LenderInit /\ [][LenderNext]_deskVars

-----------------------------------------------------------------------------
(* When every panel is closed before the next is opened, a loan is approved  *)
(* with terms that were its own and declined for a reason written for it,    *)
(* and an error is told of the loan it is about: a late answer finds another *)
(* panel and is not heard.                                                   *)
DecidedOnItsOwn ==
  reviewer.tidy =>
    /\ \A a \in Applications : requests[a].terms \cup requests[a].reason \subseteq {a}
    /\ panel.error \subseteq panel.selected
=============================================================================
