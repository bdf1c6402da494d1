------------------------------- MODULE Setup -------------------------------
(***************************************************************************)
(* Account setup: the jobs of the dashboard and the helpers that work on   *)
(* them (server/setup.go, store/setup.go, cmd/vibe-remote/setup.go).       *)
(*                                                                         *)
(* The daemon writes a job and opens a Terminal window with a helper       *)
(* process. The helper signs an account in, which waits for a human, and   *)
(* touches the job every second; the daemon gives up a job that nobody     *)
(* touched for thirty seconds. Either side can die at any step, the user   *)
(* can cancel, retry or remove the account, and the Mac can sleep, so that *)
(* a job looks abandoned whose helper lives. All jobs are for one email.   *)
(***************************************************************************)
EXTENDS Naturals

CONSTANT MaxJobs  \* bound: setup jobs

ASSUME SetupAssumption == MaxJobs \in Nat \ {0}

VARIABLES
  job,      \* setup_jobs: the state, the account, and whether it was touched lately
  helper,   \* the helper processes: where they are, and whether their context is done
  account,  \* the rows of accounts; an account is named after the job that added it
  daemon    \* "serving" until it dies, then "down", and "again" for good

setupVars == <<job, helper, account, daemon>>

Jobs == 1..MaxJobs
JobRow == [state : {"none", "pending", "ready", "cancelled", "failed", "interrupted"},
           account : 0..MaxJobs, fresh : BOOLEAN]
Helper == [at : {"none", "launched", "add", "insert", "login", "verify", "repair", "prepare",
                 "finish", "done"},
           account : 0..MaxJobs, cancelled : BOOLEAN, ok : BOOLEAN]
Status == {"none", "authenticated", "other"}  \* other: pending, signed out, error

Fresh(at) == [at |-> at, account |-> 0, cancelled |-> FALSE, ok |-> FALSE]
Gone == Fresh("done")

SetupInit ==
  /\ job = [j \in Jobs |-> [state |-> "none", account |-> 0, fresh |-> FALSE]]
  /\ helper = [j \in Jobs |-> Fresh("none")]
  /\ account = [a \in Jobs |-> "none"]
  /\ daemon = "serving"

Up == daemon # "down"
Known == {a \in Jobs : account[a] # "none"}
Pending(j) == job[j].state = "pending"

\* A row with a verdict; its heartbeat no longer matters.
Decided(state, a) == [state |-> state, account |-> a, fresh |-> FALSE]

\* FinishSetupJob: only a pending job gets a verdict.
Finish(j, state, a) ==
  job' = IF Pending(j)
         THEN [job EXCEPT ![j] = Decided(state, IF a = 0 THEN @.account ELSE a)]
         ELSE job

-----------------------------------------------------------------------------
(* The daemon.                                                             *)

\* CreateSetupJob: one pending job for an email. A retry or a repair names the account.
CreateJob(j, a) ==
  /\ Up
  /\ job[j].state = "none" /\ \A i \in Jobs : ~Pending(i) /\ (i < j => job[i].state # "none")
  /\ a \in {0} \cup Known
  /\ job' = [job EXCEPT ![j] = [state |-> "pending", account |-> a, fresh |-> TRUE]]
  /\ UNCHANGED <<helper, account, daemon>>

\* startAccountSetup goes on: the helper is launched, or that fails.
Launch(j) ==
  /\ Up /\ job[j].state # "none" /\ helper[j].at = "none"
  /\ \/ /\ helper' = [helper EXCEPT ![j].at = "launched", ![j].account = job[j].account]
        /\ UNCHANGED job
     \/ /\ helper' = [helper EXCEPT ![j] = Gone]
        /\ Finish(j, "failed", job[j].account)
  /\ UNCHANGED <<account, daemon>>

Cancel(j) ==
  /\ Up /\ Pending(j)
  /\ Finish(j, "cancelled", 0)
  /\ UNCHANGED <<helper, account, daemon>>

\* Mutant: the monitor is not started again with the daemon.
InterruptAtFirst ==
  /\ daemon = "serving"
  /\ job' = [j \in Jobs |-> IF Pending(j) /\ ~job[j].fresh
                            THEN Decided("interrupted", job[j].account) ELSE job[j]]
  /\ UNCHANGED <<helper, account, daemon>>

\* The monitor, every ten seconds.
InterruptStaleSetupJobs ==
  /\ Up
  /\ job' = [j \in Jobs |-> IF Pending(j) /\ ~job[j].fresh
                            THEN Decided("interrupted", job[j].account) ELSE job[j]]
  /\ UNCHANGED <<helper, account, daemon>>

\* removeAccountOp: the profile, then the row.
RemoveAccount(a) ==
  /\ Up /\ account[a] # "none"
  /\ account' = [account EXCEPT ![a] = "none"]
  /\ UNCHANGED <<job, helper, daemon>>

\* The daemon may die between any two steps; what it was launching is not launched.
DaemonDies ==
  /\ daemon = "serving"
  /\ daemon' = "down"
  /\ helper' = [j \in Jobs |-> IF job[j].state # "none" /\ helper[j].at = "none"
                               THEN Gone ELSE helper[j]]
  /\ UNCHANGED <<job, account>>

DaemonServes ==
  /\ daemon = "down"
  /\ daemon' = "again"
  /\ UNCHANGED <<job, helper, account>>

-----------------------------------------------------------------------------
(* The helper (runSetupJob, Accounts.Add, Login, Refresh).                 *)

Working(j) == helper[j].at \in {"add", "insert", "login", "verify", "repair", "prepare"}

Go(j, at) == helper' = [helper EXCEPT ![j].at = at]
Fails(j) == helper' = [helper EXCEPT ![j].at = "finish", ![j].ok = FALSE]

HelperStarts(j) ==
  /\ helper[j].at = "launched"
  /\ IF Pending(j)
     THEN /\ job' = [job EXCEPT ![j].fresh = TRUE]
          /\ Go(j, IF helper[j].account = 0 THEN "add" ELSE "repair")
     ELSE helper' = [helper EXCEPT ![j] = Gone] /\ UNCHANGED job
  /\ UNCHANGED <<account, daemon>>

\* Add looks for the email among the accounts, and then inserts its own row.
AddLooks(j) ==
  /\ helper[j].at = "add" /\ ~helper[j].cancelled
  /\ IF Known = {} THEN Go(j, "insert") ELSE Fails(j)
  /\ UNCHANGED <<job, account, daemon>>

AddInserts(j) ==
  /\ helper[j].at = "insert" /\ ~helper[j].cancelled
  /\ account' = [account EXCEPT ![j] = "other"]
  /\ helper' = [helper EXCEPT ![j].at = "login", ![j].account = j]
  /\ UNCHANGED <<job, daemon>>

\* Login: a human signs in, or the window is closed.
Login(j) ==
  /\ helper[j].at = "login" /\ ~helper[j].cancelled
  /\ \/ Go(j, "verify") /\ UNCHANGED account
     \/ Fails(j) /\ account' = [account EXCEPT ![helper[j].account] = "other"]
  /\ UNCHANGED <<job, daemon>>

\* Refresh: what the profile says of itself is written over the row, even over one that
\* has been removed. A repair goes on to the sign-in when it is not signed in.
Verify(j) ==
  /\ helper[j].at \in {"verify", "repair"} /\ ~helper[j].cancelled
  /\ \E status \in {"authenticated", "other"} :
       /\ account' = [account EXCEPT ![helper[j].account] = status]
       /\ CASE status = "authenticated" -> Go(j, "prepare")
            [] status # "authenticated" /\ helper[j].at = "repair" -> Go(j, "login")
            [] OTHER -> Fails(j)
  /\ UNCHANGED <<job, daemon>>

\* The account is not found when its step begins: it was removed.
AccountGone(j) ==
  /\ helper[j].at \in {"login", "repair", "prepare"}
  /\ helper[j].account # 0 /\ account[helper[j].account] = "none"
  /\ Fails(j)
  /\ UNCHANGED <<job, account, daemon>>

\* Hooks and the profile baseline.
Prepare(j) ==
  /\ helper[j].at = "prepare"
  /\ \/ helper' = [helper EXCEPT ![j].at = "finish", ![j].ok = TRUE]
     \/ Fails(j)
  /\ UNCHANGED <<job, account, daemon>>

\* Every command and store call of the operation fails once the context is done.
Aborts(j) ==
  /\ Working(j) /\ helper[j].cancelled
  /\ Fails(j)
  /\ UNCHANGED <<job, account, daemon>>

HelperFinishes(j) ==
  /\ helper[j].at = "finish"
  /\ Finish(j, IF helper[j].ok THEN "ready" ELSE IF helper[j].cancelled THEN "cancelled"
               ELSE "failed", helper[j].account)
  /\ helper' = [helper EXCEPT ![j] = Gone]
  /\ UNCHANGED <<account, daemon>>

\* The ticker, every second: a job with a verdict cancels the operation.
Beat(j) ==
  /\ Working(j) /\ ~helper[j].cancelled
  /\ IF Pending(j)
     THEN job' = [job EXCEPT ![j].fresh = TRUE] /\ UNCHANGED helper
     ELSE helper' = [helper EXCEPT ![j].cancelled = TRUE] /\ UNCHANGED job
  /\ UNCHANGED <<account, daemon>>

\* SIGINT, SIGTERM or SIGHUP: the Terminal window is closed.
Hangup(j) ==
  /\ Working(j) /\ ~helper[j].cancelled
  /\ helper' = [helper EXCEPT ![j].cancelled = TRUE]
  /\ UNCHANGED <<job, account, daemon>>

HelperDies(j) ==
  /\ helper[j].at \notin {"none", "done"}
  /\ helper' = [helper EXCEPT ![j] = Gone]
  /\ UNCHANGED <<job, account, daemon>>

\* Thirty seconds pass without a touch: the helper is gone or slow, or the Mac slept.
TimePasses(j) ==
  /\ Pending(j) /\ job[j].fresh
  /\ job' = [job EXCEPT ![j].fresh = FALSE]
  /\ UNCHANGED <<helper, account, daemon>>

SetupNext ==
  \/ InterruptStaleSetupJobs
  \/ DaemonDies
  \/ DaemonServes
  \/ \E a \in Jobs : RemoveAccount(a)
  \/ \E j \in Jobs :
       \/ \E a \in 0..MaxJobs : CreateJob(j, a)
       \/ Launch(j)
       \/ Cancel(j)
       \/ HelperStarts(j)
       \/ Beat(j)
       \/ Aborts(j)
       \/ AccountGone(j)
       \/ Prepare(j)
       \/ HelperFinishes(j)
       \/ AddLooks(j)
       \/ AddInserts(j)
       \/ Login(j)
       \/ Verify(j)
       \/ Hangup(j)
       \/ HelperDies(j)
       \/ TimePasses(j)

\* Timers fire, launchd starts the daemon again, and a running helper runs; nobody is
\* made to sign in.
SetupFairness ==
  /\ WF_setupVars(DaemonServes \/ InterruptStaleSetupJobs)
  /\ \A j \in Jobs :
       /\ WF_setupVars(Launch(j))
       /\ WF_setupVars(TimePasses(j))
       /\ WF_setupVars(Beat(j))
       /\ WF_setupVars(Aborts(j) \/ HelperStarts(j) \/ HelperFinishes(j))

SetupSpec == SetupInit /\ [][SetupNext]_setupVars /\ SetupFairness

-----------------------------------------------------------------------------
(* Properties.                                                             *)

SetupTypeOK ==
  /\ job \in [Jobs -> JobRow]
  /\ helper \in [Jobs -> Helper]
  /\ account \in [Jobs -> Status]
  /\ daemon \in {"serving", "down", "again"}

\* A setup ends on both sides. One whose helper never came or is gone does not stay
\* pending, which would keep the email from being retried: the monitor gives it up,
\* also after the daemon died between the job and its helper. And a helper whose job was
\* cancelled or given up does not go on waiting for a sign-in nobody wants: it learns
\* of the verdict and ends (InterruptStaleSetupJobs, runSetupJob).
SetupEnds ==
  \A j \in Jobs :
    /\ (Pending(j) /\ helper[j].at = "done") ~> ~Pending(j)
    /\ (job[j].state \in {"cancelled", "interrupted"} /\ helper[j].at # "none")
         ~> helper[j].at = "done"

=============================================================================
