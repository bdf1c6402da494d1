------------------------------ MODULE Handoff -------------------------------
(***************************************************************************)
(* The handoff ticket: the daemon creates it (store.CreateHandoff), and    *)
(* hook processes, one per prompt that asks to continue, find it, build    *)
(* their context, claim it, write the context to the agent and complete    *)
(* the claim (checkpoint.Service, runHook).                                *)
(*                                                                         *)
(* A hook is a process of its own: it shares only the database with the    *)
(* daemon and with other hooks, it has 2.5 seconds for its store calls,    *)
(* and it can die anywhere. Each statement on the store is one step.       *)
(*                                                                         *)
(* The clock is counted in days. Within a day the 30 seconds of a lease    *)
(* can run out at any moment: a hook whose write to its pipe is slow, or   *)
(* whose Mac slept, outlives its own claim.                                *)
(***************************************************************************)
EXTENDS Naturals

CONSTANTS
  Hooks,          \* hook processes; each claims at most once, and its token is itself
  Dests,          \* (provider, account, workspace) a ticket can be addressed to
  Sources,        \* checkpoint sessions
  MaxTickets,     \* bound: tickets created
  MaxDay,         \* bound: days
  TicketDays,     \* 48 hours
  RetentionDays,  \* the retention setting, 1..3650
  None

ASSUME BoundsAssumption ==
  /\ MaxTickets \in Nat /\ MaxDay \in Nat
  /\ TicketDays \in Nat \ {0} /\ RetentionDays \in Nat \ {0}
ASSUME NoneAssumption == None \notin Hooks \cup Dests \cup Sources \cup Nat

VARIABLES
  day,       \* now
  sessions,  \* the sessions table: source -> [present, updated]
  rows,      \* the handoffs table, in the order of created_at
  hook       \* where each hook process is, and the ticket it is about

vars == <<day, sessions, rows, hook>>

Tickets == 1..MaxTickets

HookPcs == {"find", "build", "claim", "write", "finalize", "release",
            "consumed", "done"}

\* phase "deleted": the row went with its session (ON DELETE CASCADE). token and
\* lapsed: claim_token, and whether claimed_at is more than 30 seconds ago.
Row == [phase : {"unused", "present", "deleted"}, dest : Dests \cup {None},
        source : Sources \cup {None}, expires : Nat, consumed : BOOLEAN,
        token : Hooks \cup {None}, lapsed : BOOLEAN]

Init ==
  /\ day = 0
  /\ sessions = [s \in Sources |-> [present |-> TRUE, updated |-> 0]]
  /\ rows = [t \in Tickets |-> [phase |-> "unused", dest |-> None, source |-> None,
                                expires |-> 0, consumed |-> FALSE, token |-> None,
                                lapsed |-> FALSE]]
  /\ hook = [h \in Hooks |-> [pc |-> "find", ticket |-> None, written |-> FALSE]]

-----------------------------------------------------------------------------
(* The conditions the SQL statements share.                                 *)

Unconsumed(t) == rows[t].phase = "present" /\ ~rows[t].consumed

Open(t) == Unconsumed(t) /\ rows[t].expires > day

\* Mutant: a claim is never given up.
UnclaimedForever(t) == rows[t].token = None

\* claim_token IS NULL OR claimed_at < now - 30 s
Unclaimed(t) == rows[t].token = None \/ rows[t].lapsed

-----------------------------------------------------------------------------
(* The daemon.                                                              *)

NewRow(s, d) ==
  [phase |-> "present", dest |-> d, source |-> s, expires |-> day + TicketDays,
   consumed |-> FALSE, token |-> None, lapsed |-> FALSE]

Superseded(t) == [rows[t] EXCEPT !.expires = day, !.token = None, !.lapsed = FALSE]

\* One immediate transaction: refused while a live claim exists for the
\* destination; otherwise its unconsumed tickets expire now and lose their claim.
CreateHandoff(t, s, d) ==
  /\ sessions[s].present
  /\ rows[t].phase = "unused"
  /\ \A u \in Tickets : u < t => rows[u].phase # "unused"
  /\ \A u \in Tickets : Unconsumed(u) /\ rows[u].dest = d => Unclaimed(u)
  /\ rows' = [u \in Tickets |->
                IF u = t THEN NewRow(s, d)
                ELSE IF Unconsumed(u) /\ rows[u].dest = d THEN Superseded(u)
                ELSE rows[u]]
  /\ UNCHANGED <<day, sessions, hook>>

\* The rows of the handoffs table go with their session.
DeleteSessions(S) ==
  /\ sessions' = [s \in Sources |-> IF s \in S THEN [sessions[s] EXCEPT !.present = FALSE]
                                               ELSE sessions[s]]
  /\ rows' = [t \in Tickets |->
                IF rows[t].phase = "present" /\ rows[t].source \in S
                  THEN [rows[t] EXCEPT !.phase = "deleted", !.token = None, !.lapsed = FALSE]
                  ELSE rows[t]]
  /\ UNCHANGED <<day, hook>>

DeleteSession(s) == sessions[s].present /\ DeleteSessions({s})

\* CleanupClosedSessions: updated_at < now - retention. A checkpoint that is
\* pinned, working or resumed by a running slot is one that is touched.
Old(s) == sessions[s].present /\ sessions[s].updated + RetentionDays < day

CleanupClosedSessions ==
  /\ \E s \in Sources : Old(s)
  /\ DeleteSessions({s \in Sources : Old(s)})

\* A hook event of the session itself.
Touch(s) ==
  /\ sessions[s].present
  /\ sessions' = [sessions EXCEPT ![s].updated = day]
  /\ UNCHANGED <<day, rows, hook>>

-----------------------------------------------------------------------------
(* A hook process.                                                          *)

HookTo(h, pc) == hook' = [hook EXCEPT ![h].pc = pc]

\* Mutant: FindHandoff's ErrNotFound is taken for a ticket.
FindHandoffUnchecked(h, d) ==
  LET found == {t \in Tickets : Open(t) /\ rows[t].dest = d /\ Unclaimed(t)} IN
  /\ hook[h].pc = "find"
  /\ \/ \E t \in found :
          /\ \A u \in found : u <= t
          /\ hook' = [hook EXCEPT ![h].pc = "build", ![h].ticket = t]
     \/ found = {} /\ HookTo(h, "write")
  /\ UNCHANGED <<day, sessions, rows>>

\* FindHandoff: the newest open ticket of the destination that is not claimed;
\* without one the prompt goes on without context.
FindHandoff(h, d) ==
  LET found == {t \in Tickets : Open(t) /\ rows[t].dest = d /\ Unclaimed(t)} IN
  /\ hook[h].pc = "find"
  /\ \/ \E t \in found :
          /\ \A u \in found : u <= t
          /\ hook' = [hook EXCEPT ![h].pc = "build", ![h].ticket = t]
     \/ found = {} /\ HookTo(h, "done")
  /\ UNCHANGED <<day, sessions, rows>>

\* BuildContext reads the source session; without it the hook fails.
BuildContext(h) ==
  /\ hook[h].pc = "build"
  /\ HookTo(h, IF sessions[rows[hook[h].ticket].source].present THEN "claim" ELSE "done")
  /\ UNCHANGED <<day, sessions, rows>>

\* Mutant: the claim consumes the ticket, as ConsumeHandoffByID would.
ClaimHandoffConsumes(h) ==
  LET t == hook[h].ticket IN
  /\ hook[h].pc = "claim"
  /\ IF Open(t) /\ Unclaimed(t)
       THEN /\ rows' = [rows EXCEPT ![t].token = h, ![t].lapsed = FALSE, ![t].consumed = TRUE]
            /\ HookTo(h, "write")
       ELSE HookTo(h, "done") /\ UNCHANGED rows
  /\ UNCHANGED <<day, sessions>>

\* ClaimHandoffByID; when another hook was faster the prompt goes on without.
ClaimHandoff(h) ==
  LET t == hook[h].ticket IN
  /\ hook[h].pc = "claim"
  /\ IF Open(t) /\ Unclaimed(t)
       THEN /\ rows' = [rows EXCEPT ![t].token = h, ![t].lapsed = FALSE]
            /\ HookTo(h, "write")
       ELSE HookTo(h, "done") /\ UNCHANGED rows
  /\ UNCHANGED <<day, sessions>>

\* runHook writes the context to stdout, or the write fails.
WriteOutput(h) ==
  /\ hook[h].pc = "write"
  /\ \/ hook' = [hook EXCEPT ![h].pc = "finalize", ![h].written = TRUE]
     \/ HookTo(h, "release")
  /\ UNCHANGED <<day, sessions, rows>>

\* Mutant: the token is not compared.
CompleteAnyClaim(h) ==
  LET t == hook[h].ticket IN
  /\ hook[h].pc = "finalize"
  /\ IF Unconsumed(t) /\ rows[t].expires > day
       THEN /\ rows' = [rows EXCEPT ![t].consumed = TRUE, ![t].token = None,
                                    ![t].lapsed = FALSE]
            /\ HookTo(h, "consumed")
       ELSE HookTo(h, "done") /\ UNCHANGED rows
  /\ UNCHANGED <<day, sessions>>

\* Mutant: a ticket that has been consumed is consumed again.
CompleteTwice(h) ==
  LET t == hook[h].ticket IN
  /\ hook[h].pc = "finalize"
  /\ IF rows[t].phase = "present" /\ rows[t].expires > day
       THEN /\ rows' = [rows EXCEPT ![t].consumed = TRUE, ![t].token = None,
                                    ![t].lapsed = FALSE]
            /\ HookTo(h, "consumed")
       ELSE HookTo(h, "done") /\ UNCHANGED rows
  /\ UNCHANGED <<day, sessions>>

\* Mutant: expires_at is not looked at when the claim is completed.
CompleteExpired(h) ==
  LET t == hook[h].ticket IN
  /\ hook[h].pc = "finalize"
  /\ IF Unconsumed(t) /\ rows[t].token = h
       THEN /\ rows' = [rows EXCEPT ![t].consumed = TRUE, ![t].token = None,
                                    ![t].lapsed = FALSE]
            /\ HookTo(h, "consumed")
       ELSE HookTo(h, "done") /\ UNCHANGED rows
  /\ UNCHANGED <<day, sessions>>

\* Finalize: CompleteHandoffClaim, whose claim may have lapsed but must be its own.
CompleteHandoffClaim(h) ==
  LET t == hook[h].ticket IN
  /\ hook[h].pc = "finalize"
  /\ IF Open(t) /\ rows[t].token = h
       THEN /\ rows' = [rows EXCEPT ![t].consumed = TRUE, ![t].token = None,
                                    ![t].lapsed = FALSE]
            /\ HookTo(h, "consumed")
       ELSE HookTo(h, "done") /\ UNCHANGED rows
  /\ UNCHANGED <<day, sessions>>

\* Release: ReleaseHandoffClaim of its own claim, expired or not.
ReleaseHandoffClaim(h) ==
  LET t == hook[h].ticket IN
  /\ hook[h].pc = "release"
  /\ rows' = IF Unconsumed(t) /\ rows[t].token = h
               THEN [rows EXCEPT ![t].token = None, ![t].lapsed = FALSE] ELSE rows
  /\ HookTo(h, "done")
  /\ UNCHANGED <<day, sessions>>

\* The process is killed, its 2.5 seconds are over, or the database stays busy.
HookFails(h) ==
  /\ hook[h].pc \notin {"consumed", "done"}
  /\ HookTo(h, "done")
  /\ UNCHANGED <<day, sessions, rows>>

HookStep(h) ==
  \/ \E d \in Dests : FindHandoff(h, d)
  \/ BuildContext(h) \/ ClaimHandoff(h) \/ WriteOutput(h)
  \/ CompleteHandoffClaim(h) \/ ReleaseHandoffClaim(h) \/ HookFails(h)

-----------------------------------------------------------------------------
(* Time.                                                                    *)

LeaseLapses(t) ==
  /\ rows[t].token # None
  /\ ~rows[t].lapsed
  /\ rows' = [rows EXCEPT ![t].lapsed = TRUE]
  /\ UNCHANGED <<day, sessions, hook>>

NextDay ==
  /\ day < MaxDay
  /\ day' = day + 1
  /\ UNCHANGED <<sessions, rows, hook>>

Next ==
  \/ \E t \in Tickets, s \in Sources, d \in Dests : CreateHandoff(t, s, d)
  \/ \E s \in Sources : DeleteSession(s) \/ Touch(s)
  \/ CleanupClosedSessions
  \/ \E h \in Hooks : HookStep(h)
  \/ \E t \in Tickets : LeaseLapses(t)
  \/ NextDay

Spec == Init /\ [][Next]_vars

\* Only time is fair: 30 seconds pass. No hook need ever take its next step.
FairSpec == Spec /\ \A t \in Tickets : WF_vars(LeaseLapses(t))

-----------------------------------------------------------------------------
(* Properties.                                                              *)

\* Every variable keeps its shape; a hook past FindHandoff has a ticket.
TypeOK ==
  /\ day \in 0..MaxDay
  /\ sessions \in [Sources -> [present : BOOLEAN, updated : 0..MaxDay]]
  /\ rows \in [Tickets -> Row]
  /\ hook \in [Hooks -> [pc : HookPcs, ticket : Tickets \cup {None}, written : BOOLEAN]]
  /\ \A h \in Hooks : hook[h].pc \notin {"find", "done"} => hook[h].ticket # None

\* The newest handoff to a destination is the one that is delivered: an open
\* ticket has no newer one, so a prompt never continues an older checkpoint after
\* the user handed over another.
NewestIsOpen ==
  \A t, u \in Tickets :
    Open(t) /\ rows[u].phase # "unused" /\ rows[u].dest = rows[t].dest => u <= t

\* README: concurrent continuation prompts cannot consume the same ticket, also
\* when a hook outlives its claim and another claims the ticket meanwhile.
ConsumedOnce ==
  \A g, h \in Hooks :
    hook[g].pc = "consumed" /\ hook[h].pc = "consumed" /\ hook[g].ticket = hook[h].ticket
      => g = h

\* A ticket is never lost: one that is consumed has been written to the agent by
\* the hook that consumed it, wherever other hooks died.
ConsumedWasDelivered ==
  \A t \in Tickets :
    rows[t].consumed
      => \E h \in Hooks : hook[h].pc = "consumed" /\ hook[h].ticket = t /\ hook[h].written

\* During its 30 seconds a claim is exclusive: nobody takes the ticket over and no
\* new ticket supersedes it; it ends with a step of its holder or with the session.
ClaimIsExclusive ==
  [][\A t \in Tickets :
       rows[t].token # None /\ ~rows[t].lapsed /\ rows'[t].token # rows[t].token
         => \/ rows'[t].phase = "deleted"
            \/ rows'[t].token = None /\ hook'[rows[t].token] # hook[rows[t].token]]_vars

\* The table implements the abstract ticket.
status ==
  [t \in Tickets |->
     IF rows[t].phase = "unused" THEN "none"
     ELSE IF rows[t].consumed THEN "consumed"
     ELSE IF Open(t) THEN "open" ELSE "void"]

A == INSTANCE Ticket WITH status <- status, dest <- [t \in Tickets |-> rows[t].dest]

\* Every step on the table is a step of the abstract ticket: only the newest is
\* open, and it is consumed or void once and for good.
ImplementsTicket == A!Spec

\* A claim never strands a ticket: whatever became of the hook that holds it, the
\* ticket can be claimed again, or is no longer open.
ClaimsReturn ==
  \A t \in Tickets :
    (rows[t].token # None) ~> (Open(t) => Unclaimed(t))

-----------------------------------------------------------------------------
(* README: Codex destinations retain the 48-hour handoff. So the retention   *)
(* sweep leaves the checkpoint of an open ticket alone.                      *)

\* No sweep deletes an open ticket.
SweepKeepsTickets ==
  [][CleanupClosedSessions
       => \A t \in Tickets : Open(t) => rows'[t].phase = "present"]_vars

=============================================================================
