------------------------------ MODULE Approval ------------------------------
(***************************************************************************)
(* The approver of computer use, which answers Claude's app-access dialog  *)
(* in the terminal of one worker (claude/computer_use.go).                 *)
(*                                                                         *)
(* Five times a second it asks the store for the oldest pending call of a  *)
(* computer-use tool, and then looks at its copy of the screen, which      *)
(* follows the terminal a moment later. It expands a list that is cut off, *)
(* moves the selection to Allow, and confirms, each once per call and only *)
(* when call and key have been the same for 350 ms; what else moves on the *)
(* screen it does not compare. A list that is cut off at 60 rows, too, it  *)
(* leaves to the user, who can press keys in the console.                  *)
(***************************************************************************)
EXTENDS Naturals

CONSTANT MaxCalls  \* bound: calls of computer-use tools

ASSUME ApprovalAssumption == MaxCalls \in Nat

VARIABLES
  calls,     \* calls made, and where the last one is
  pending,   \* calls the store has as pending
  dialog,    \* the dialog: open, the rows its list needs, the selected option
  tall,      \* the terminal has 60 rows
  screen,    \* what the approver's copy of the screen shows
  approver,  \* where it is, the call it asked for, its candidate, what it has done
  touched    \* the user has pressed a key in this dialog

approvalVars == <<calls, pending, dialog, tall, screen, approver, touched>>

Numbers0 == 0..MaxCalls
Options == {"allow", "deny"}
Lengths == {"short", "long", "endless"}  \* fits any terminal, 60 rows only, or none
Shown == Options \cup {"none", "cut"}

NoDialog == [open |-> FALSE, list |-> "short", option |-> "deny"]
NoCandidate == [call |-> 0, key |-> "none"]

ApprovalInit ==
  /\ calls = [made |-> 0, at |-> "over"]
  /\ pending = {}
  /\ dialog = NoDialog /\ tall = FALSE /\ screen = "none"
  /\ approver = [at |-> "wait", request |-> 0, candidate |-> NoCandidate, settled |-> FALSE,
                 navigated |-> 0, answered |-> 0]
  /\ touched = FALSE

-----------------------------------------------------------------------------
(* Claude and its hooks. One call at a time has a dialog: computer use has *)
(* a lock of its own.                                                      *)

\* Claude waits for the hook, which may fail, before it runs the tool.
CallComputerUse ==
  /\ calls.at = "over" /\ calls.made < MaxCalls
  /\ calls' = [made |-> calls.made + 1, at |-> "called"]
  /\ pending' \in {pending, pending \cup {calls.made + 1}}
  /\ UNCHANGED <<dialog, tall, screen, approver, touched>>

OpenDialog ==
  /\ calls.at = "called"
  /\ calls' = [calls EXCEPT !.at = "dialog"]
  /\ dialog' \in [open : {TRUE}, list : Lengths, option : Options]
  /\ touched' = FALSE
  /\ UNCHANGED <<pending, tall, screen, approver>>

\* The call ends, answered, or interrupted from elsewhere; its hook may be late or lost.
CallEnds ==
  /\ calls.at \in {"called", "dialog"}
  /\ calls' = [calls EXCEPT !.at = "over"]
  /\ dialog' = NoDialog
  /\ UNCHANGED <<pending, tall, screen, approver, touched>>

EndIsRecorded(c) ==
  /\ c \in pending /\ (c = calls.made => calls.at = "over")
  /\ pending' = pending \ {c}
  /\ UNCHANGED <<calls, dialog, tall, screen, approver, touched>>

CutOff == dialog.list = "endless" \/ (dialog.list = "long" /\ ~tall)

View == IF ~dialog.open THEN "none" ELSE IF CutOff THEN "cut" ELSE dialog.option

\* The copy catches up.
Paint ==
  /\ screen # View
  /\ screen' = View
  /\ UNCHANGED <<calls, pending, dialog, tall, approver, touched>>

\* What a key does to the dialog; without one it goes elsewhere.
Press(key) ==
  dialog' = CASE ~dialog.open -> dialog
              [] dialog.open /\ key = "enter" -> NoDialog
              [] dialog.open /\ key = "down" ->
                   [dialog EXCEPT !.option = IF @ = "deny" THEN "allow" ELSE "deny"]

\* The user, in the console; opening it also sets 20 rows.
UserPresses ==
  /\ dialog.open
  /\ touched' = TRUE
  /\ \/ \E key \in {"down", "enter"} : Press(key) /\ UNCHANGED tall
     \/ tall' = FALSE /\ UNCHANGED dialog
  /\ UNCHANGED <<calls, pending, screen, approver>>

-----------------------------------------------------------------------------
(* The approver.                                                           *)

\* computerUseRequest: the oldest pending call; without one nothing is a candidate.
AskRequest ==
  /\ approver.at = "wait"
  /\ IF pending = {}
     THEN approver' = [approver EXCEPT !.candidate = NoCandidate, !.settled = FALSE]
     ELSE approver' = [approver EXCEPT !.at = "look",
                         !.request = CHOOSE c \in pending : \A d \in pending : c <= d]
  /\ UNCHANGED <<calls, pending, dialog, tall, screen, touched>>

\* Mutant: a candidate need not stand for 350 ms.
SettleAtOnce ==
  /\ approver.candidate # NoCandidate /\ ~approver.settled
  /\ approver' = [approver EXCEPT !.settled = TRUE]
  /\ UNCHANGED <<calls, pending, dialog, tall, screen, touched>>

\* 350 ms with the same candidate. The copy of the screen is not that late.
Settle ==
  /\ approver.candidate # NoCandidate /\ ~approver.settled /\ screen = View
  /\ approver' = [approver EXCEPT !.settled = TRUE]
  /\ UNCHANGED <<calls, pending, dialog, tall, screen, touched>>

\* computerUseApprovalKey
Key == CASE screen = "allow" -> "enter" [] screen = "deny" -> "down" [] OTHER -> "none"

\* Mutant: having moved the selection once is not remembered by call.
HasDoneOnce(key) ==
  approver.request = approver.answered \/ (key = "down" /\ approver.navigated # 0)

HasDone(key) ==
  approver.request = approver.answered \/ (key = "down" /\ approver.request = approver.navigated)

Looked == [approver EXCEPT !.at = "wait"]

\* approve: one look at the screen.
Approve ==
  LET candidate == [call |-> approver.request, key |-> Key] IN
  /\ approver.at = "look"
  /\ \/ /\ screen = "cut" /\ ~tall
        /\ tall' = TRUE
        /\ approver' = [Looked EXCEPT !.candidate = NoCandidate, !.settled = FALSE]
        /\ UNCHANGED dialog
     \/ /\ Key = "none" /\ ~(screen = "cut" /\ ~tall)
        /\ approver' = [Looked EXCEPT !.candidate = NoCandidate, !.settled = FALSE]
        /\ UNCHANGED <<dialog, tall>>
     \/ /\ Key # "none" /\ candidate # approver.candidate
        /\ approver' = [Looked EXCEPT !.candidate = candidate, !.settled = FALSE]
        /\ UNCHANGED <<dialog, tall>>
     \/ /\ Key # "none" /\ candidate = approver.candidate
        /\ ~approver.settled \/ HasDone(Key)
        /\ approver' = Looked
        /\ UNCHANGED <<dialog, tall>>
     \/ /\ Key # "none" /\ candidate = approver.candidate
        /\ approver.settled /\ ~HasDone(Key)
        /\ Press(Key)
        /\ approver' = [Looked EXCEPT !.answered = IF Key = "enter" THEN approver.request ELSE @,
                                      !.navigated = IF Key = "down" THEN approver.request ELSE @]
        /\ UNCHANGED tall
  /\ UNCHANGED <<calls, pending, screen, touched>>

ApprovalNext ==
  \/ CallComputerUse \/ OpenDialog \/ CallEnds
  \/ \E c \in Numbers0 : EndIsRecorded(c)
  \/ Paint \/ UserPresses \/ AskRequest \/ Settle \/ Approve

\* The goroutine that copies the terminal and the approver's own are scheduled, and
\* time passes; neither Claude, its hooks nor the user are made to do anything.
ApprovalFairness ==
  /\ WF_approvalVars(Paint)
  /\ WF_approvalVars(AskRequest)
  /\ WF_approvalVars(Settle)
  /\ WF_approvalVars(Approve)

ApprovalSpec == ApprovalInit /\ [][ApprovalNext]_approvalVars /\ ApprovalFairness

-----------------------------------------------------------------------------
(* Properties.                                                             *)

ApprovalTypeOK ==
  /\ calls \in [made : Numbers0, at : {"over", "called", "dialog"}]
  /\ pending \subseteq Numbers0
  /\ dialog \in [open : BOOLEAN, list : Lengths, option : Options]
  /\ tall \in BOOLEAN /\ touched \in BOOLEAN
  /\ screen \in Shown
  /\ approver \in [at : {"wait", "look"}, request : Numbers0,
                   candidate : [call : Numbers0, key : {"none", "enter", "down"}],
                   settled : BOOLEAN, navigated : Numbers0, answered : Numbers0]

\* README.md:93: a dialog whose list fits 60 rows is answered without the user, cut off or
\* not at first and whatever was selected, unless the user presses keys in it himself; one
\* that is still cut off then gets no key (computer_use.go:114, 151). The call must be
\* the only one that is pending: an earlier one whose end was never recorded goes on
\* standing for every later dialog of its turn (activity.go:215, computer_use.go:31).
DialogIsAnswered ==
  (dialog.open /\ dialog.list # "endless" /\ pending = {calls.made} /\ ~touched)
    ~> (~dialog.open \/ touched)

\* README.md:93: the approver allows, whatever the screen showed before. In a dialog no
\* user has touched it moves the selection to Allow only and confirms nothing else, although
\* its copy of the screen is late and may be of the dialog of an earlier call; given
\* that it acts for the call of the dialog (approve, computerUseApprovalKey).
AnswersAsSeen ==
  [][Approve /\ dialog' # dialog /\ ~touched /\ approver.request = calls.made
       => (IF dialog'.open THEN dialog' ELSE dialog).option = "allow"]_approvalVars

=============================================================================
