------------------------------ MODULE Lifecycle ------------------------------
(***************************************************************************)
(* One Handler per installation (run.go, lifecycle.go, singleton.go): the  *)
(* commands that start, replace and stop it, the two file locks, the two   *)
(* listeners and the session file by which a command finds the Handler.    *)
(*                                                                         *)
(* Every command is a process, and a command that serves becomes the       *)
(* Handler. The kernel drops the locks and listeners of a process that     *)
(* dies; its session file stays. This is the foreground life of Linux and  *)
(* Windows: macOS hands serve to launchd, which is not modelled, nor are   *)
(* the session files of the releases before the singleton.                 *)
(***************************************************************************)
EXTENDS FiniteSets

CONSTANTS
  Invocation,     \* invocations of nib-handler, each with a pid and an instance id
  Address,     \* the pairs of listeners that configurations name
  Command,     \* of serve, start, restart, stop, force (stop -force), uninstall
  None, Other  \* nobody; a service that is not a Handler

ASSUME LifecycleAssumption ==
  None \notin Invocation /\ Other \notin Invocation /\ None # Other

VARIABLES
  proc,        \* where each process is, what it was asked, what it has read
  lifecycle,   \* who holds lifecycle.lock
  running,     \* who holds running.lock
  api, review, \* who listens at an address
  session,     \* session.json
  cleared      \* the user has emptied the cache since it was written

lifecycleVars == <<proc, lifecycle, running, api, review, session, cleared>>
shared == <<lifecycle, running, api, review, session, cleared>>

NoSession == [inst |-> None]
Unborn == [at |-> "unborn"]
Dead == [at |-> "over"]

LifecycleInit ==
  /\ proc = [p \in Invocation |-> Unborn]
  /\ lifecycle = None /\ running = None
  /\ api = [a \in Address |-> None] /\ review = [a \in Address |-> None]
  /\ session = NoSession /\ cleared = FALSE

Stands(p, step) == proc[p].at = step
Steps(p, step) == proc' = [proc EXCEPT ![p].at = step]
Exited(p) == Stands(p, "over")

Leave(step, end) == [step EXCEPT !.at = "leaves", !.end = end]
Departs(p, end) == proc' = [proc EXCEPT ![p] = Leave(@, end)]

ProbesSlip(a) ==  \* a timeout taken for a refusal
  IF api[a] \in {None, Other} THEN {"none"} ELSE {"none", "handler"}

\* What a probe of an address may find. A Handler that is slow is an error, and
\* so is anything else at its port; only a refused connection is "none".
Probes(a) ==
  IF api[a] = None THEN {"none"}
  ELSE IF api[a] = Other THEN {"error"} ELSE {"error", "handler"}
-----------------------------------------------------------------------------
(***************************************************************************)
(* Main: the lifecycle lock, waited for with a deadline.                   *)
(***************************************************************************)
FirstPhase(cmd) ==
  CASE cmd = "serve" -> "serve" [] cmd = "start" -> "prepare" [] OTHER -> "stop"

Invoked(p, cmd, a) ==
  /\ Stands(p, "unborn")
  /\ proc' = [proc EXCEPT ![p] =
       [at |-> "waits", cmd |-> cmd, address |-> a, phase |-> FirstPhase(cmd),
        seen |-> NoSession, work |-> "idle", end |-> "none"]]
  /\ UNCHANGED shared

TakesLifecycle(p) ==
  /\ Stands(p, "waits") /\ lifecycle = None
  /\ lifecycle' = p /\ Steps(p, "reads")
  /\ UNCHANGED <<running, api, review, session, cleared>>

GivesUp(p) ==
  /\ Stands(p, "waits") /\ lifecycle # None
  /\ Departs(p, "failed")
  /\ UNCHANGED shared

\* The deferred release, and the end of the process.
CommandEnds(p) ==
  /\ Stands(p, "leaves")
  /\ lifecycle' = IF lifecycle = p THEN None ELSE lifecycle
  /\ proc' = [proc EXCEPT ![p] = Dead]
  /\ UNCHANGED <<running, api, review, session, cleared>>
-----------------------------------------------------------------------------
(***************************************************************************)
(* discoverSession, and what ensureSingleton, prepareStartAddress and      *)
(* stopInstance make of it.                                                *)
(***************************************************************************)
ReadsSession(p) ==
  /\ Stands(p, "reads")
  /\ proc' = [proc EXCEPT ![p].seen = session,
                          ![p].at = IF session = NoSession THEN "missing" ELSE "probes"]
  /\ UNCHANGED shared

Undiscovered(p) == IF proc[p].phase = "stop" THEN Steps(p, "unidentified") ELSE Departs(p, "failed")

\* Nothing answers at the recorded address: as if there were no session.
FindsNobody(p) ==
  /\ Stands(p, "probes") /\ "none" \in Probes(proc[p].seen.address)
  /\ proc' = [proc EXCEPT ![p].at = "missing", ![p].seen = NoSession]
  /\ UNCHANGED shared

FindsTrouble(p) ==
  /\ Stands(p, "probes")
  /\ LET a == proc[p].seen.address
         q == api[a]
     IN \/ "error" \in Probes(a)
        \/ "handler" \in Probes(a) /\ (q # proc[p].seen.inst \/ proc[q].work = "stopping")
  /\ Undiscovered(p)
  /\ UNCHANGED shared

\* A launch leaves a Handler of its own build alone. The binary on disk and the
\* config file of the session may change, so that the comparison may go either way.
FindsHandler(p) ==
  /\ Stands(p, "probes")
  /\ LET a == proc[p].seen.address
         q == api[a]
     IN "handler" \in Probes(a) /\ q = proc[p].seen.inst /\ proc[q].work # "stopping"
  /\ \/ proc[p].phase # "stop" /\ Departs(p, "retained")
     \/ Steps(p, "asks")
  /\ UNCHANGED shared

\* start prepares before serve does so once more.
Needed(p) ==
  IF proc[p].phase = "prepare"
  THEN proc' = [proc EXCEPT ![p].at = "reads", ![p].phase = "serve"]
  ELSE Steps(p, "running")

PreparesAddress(p) ==
  /\ Stands(p, "missing") /\ proc[p].phase # "stop"
  /\ LET a == proc[p].address
     IN \/ "none" \in Probes(a) /\ Needed(p)
        \/ "error" \in Probes(a) /\ Departs(p, "failed")
        \/ /\ "handler" \in Probes(a)
           /\ Departs(p, IF proc[api[a]].work = "stopping" THEN "failed" ELSE "retained")
  /\ UNCHANGED shared

GoesWithout(p) ==
  /\ Stands(p, "missing") /\ proc[p].phase = "stop"
  /\ Steps(p, "unidentified")
  /\ UNCHANGED shared
-----------------------------------------------------------------------------
(***************************************************************************)
(* stopRecordedInstance, with requestShutdown at the other end.            *)
(***************************************************************************)
Stopped(p) ==
  IF proc[p].phase # "stop" THEN Needed(p)
  ELSE CASE proc[p].cmd = "restart" ->
              proc' = [proc EXCEPT ![p].at = "reads", ![p].phase = "prepare"]
         [] proc[p].cmd = "uninstall" -> Steps(p, "empties")
         [] OTHER -> Departs(p, "stopped")

AsksRecorded(p) ==
  /\ Stands(p, "asks")
  /\ LET s == proc[p].seen
     IN \/ "none" \in Probes(s.address) /\ Steps(p, "awaits")
        \/ "error" \in Probes(s.address) /\ Departs(p, "failed")
        \/ /\ "handler" \in Probes(s.address)
           /\ IF api[s.address] = s.inst THEN Steps(p, "posts") ELSE Departs(p, "failed")
  /\ UNCHANGED shared

\* requestShutdown: a Handler at work refuses.
Accepts(q) == proc[q].work # "busy"

\* The answer may be lost although the Handler stops.
Posts(p) ==
  /\ Stands(p, "posts")
  /\ LET q == proc[p].seen.inst
     IN IF api[proc[p].seen.address] = q /\ Accepts(q)
        THEN \E reached \in {"awaits", "leaves"} :
               proc' = [proc EXCEPT ![q].work = "stopping", ![p].at = reached,
                                    ![p].end = IF reached = "leaves" THEN "failed" ELSE @]
        ELSE Departs(p, "failed")
  /\ UNCHANGED shared

Gone(a) == api[a] = None /\ review[a] = None

SeesExit(p) ==
  /\ Stands(p, "awaits") /\ Gone(proc[p].seen.address)
  /\ \/ Exited(proc[p].seen.inst) /\ Steps(p, "drops")
     \/ ~Exited(proc[p].seen.inst) /\ session = NoSession /\ Steps(p, "borrows")
  /\ UNCHANGED shared

\* removeSession compares, and then removes what is there.
DropsSession(p) ==
  /\ Stands(p, "drops")
  /\ IF session.inst = proc[p].seen.inst THEN Steps(p, "removes") ELSE Stopped(p)
  /\ UNCHANGED shared

RemovesSession(p) ==
  /\ Stands(p, "removes")
  /\ session' = NoSession /\ Stopped(p)
  /\ UNCHANGED <<lifecycle, running, api, review, cleared>>

\* The running lock, taken and released at once, shows that it has ended.
BorrowsRunning(p) ==
  /\ Stands(p, "borrows") /\ running = None
  /\ Stopped(p)
  /\ UNCHANGED shared

WaitsTooLong(p) ==
  /\ proc[p].at \in {"awaits", "borrows", "running", "empties"}
  /\ proc[p].at \in {"borrows", "running", "empties"} => running # None
  /\ Departs(p, "failed")
  /\ UNCHANGED shared

\* uninstall: the directory of the session goes, under the running lock.
Empties(p) ==
  /\ Stands(p, "empties") /\ running = None
  /\ session' = NoSession /\ Departs(p, "stopped")
  /\ UNCHANGED <<lifecycle, running, api, review, cleared>>
-----------------------------------------------------------------------------
(***************************************************************************)
(* stopUnidentified.                                                       *)
(***************************************************************************)
Identifies(p) ==
  /\ Stands(p, "unidentified")
  /\ LET a == proc[p].address
     IN \/ /\ "none" \in Probes(a)
           /\ IF proc[p].seen = NoSession THEN Stopped(p) ELSE Departs(p, "failed")
        \/ "error" \in Probes(a) /\ Departs(p, "failed")
        \/ /\ "handler" \in Probes(a)
           /\ IF proc[p].cmd = "force" THEN Steps(p, "looks") ELSE Departs(p, "failed")
  /\ UNCHANGED shared

Freed(listens, q) == [a \in Address |-> IF listens[a] = q THEN None ELSE listens[a]]

\* Whoever listens now is told to end: a Handler decides, another service ends.
\* (Windows kills at once, as Kills may.)
Terminates(p) ==
  /\ Stands(p, "looks")
  /\ LET q == api[proc[p].address]
     IN IF q = None THEN Departs(p, "failed") /\ UNCHANGED api
        ELSE /\ proc' = [proc EXCEPT ![p].at = "outlasts", ![p].seen = [inst |-> q],
                  ![IF q = Other THEN p ELSE q].work = IF q # Other /\ Accepts(q) THEN "stopping" ELSE @]
             /\ api' = IF q = Other THEN [api EXCEPT ![proc[p].address] = None] ELSE api
  /\ UNCHANGED <<lifecycle, running, review, session, cleared>>

Outlasts(p) ==
  /\ proc[p].at \in {"outlasts", "rechecks"}
  /\ \/ "none" \in Probes(proc[p].address) /\ Stopped(p)
     \/ Stands(p, "outlasts") /\ Steps(p, "kills")
     \/ Stands(p, "rechecks") /\ Probes(proc[p].address) # {"none"} /\ Departs(p, "failed")
  /\ UNCHANGED shared

\* SIGKILL, or the end of the terminal or the computer: nothing is cleaned up.
Unheld(q) ==
  /\ lifecycle' = IF lifecycle = q THEN None ELSE lifecycle
  /\ running' = IF running = q THEN None ELSE running
  /\ api' = Freed(api, q) /\ review' = Freed(review, q)
  /\ UNCHANGED <<session, cleared>>

Kills(p) ==
  /\ Stands(p, "kills")
  /\ LET q == proc[p].seen.inst
     IN IF q = Other \/ Exited(q) THEN Departs(p, "failed") /\ UNCHANGED shared
        ELSE /\ proc' = [proc EXCEPT ![q] = Dead, ![p].at = "rechecks"]
             /\ Unheld(q)

CommandDies(p) ==
  /\ proc[p].at \notin {"unborn", "over"}
  /\ proc' = [proc EXCEPT ![p] = Dead]
  /\ Unheld(p)
-----------------------------------------------------------------------------
(***************************************************************************)
(* serve.                                                                  *)
(***************************************************************************)
TakesRunning(p) ==
  /\ Stands(p, "running") /\ running = None
  /\ running' = p /\ Steps(p, "listens")
  /\ UNCHANGED <<lifecycle, api, review, session, cleared>>

Failing(p, step) == proc' = [proc EXCEPT ![p].at = step, ![p].end = "failed"]

ListensApi(p) ==
  LET a == proc[p].address
  IN /\ Stands(p, "listens")
     /\ IF api[a] = None THEN Steps(p, "listens2") /\ api' = [api EXCEPT ![a] = p]
        ELSE Failing(p, "closes") /\ UNCHANGED api
     /\ UNCHANGED <<lifecycle, running, review, session, cleared>>

ListensReview(p) ==
  LET a == proc[p].address
  IN /\ Stands(p, "listens2")
     /\ IF review[a] = None THEN Steps(p, "saves") /\ review' = [review EXCEPT ![a] = p]
        ELSE Failing(p, "closes") /\ UNCHANGED review
     /\ UNCHANGED <<lifecycle, running, api, session, cleared>>

\* The new file replaces whatever is there.
SavesSession(p) ==
  /\ Stands(p, "saves")
  /\ \/ /\ session' = [inst |-> p, address |-> proc[p].address]
        /\ cleared' = FALSE /\ Steps(p, "registers")
     \/ Failing(p, "closes") /\ UNCHANGED <<session, cleared>>
  /\ UNCHANGED <<lifecycle, running, api, review>>

\* registerInstall; then the lifecycle lock goes and the Handler serves.
Registers(p) ==
  /\ Stands(p, "registers")
  /\ \/ Steps(p, "serves") /\ lifecycle' = None
     \/ Failing(p, "withdraws") /\ UNCHANGED lifecycle
  /\ UNCHANGED <<running, api, review, session, cleared>>

\* Jobs come and go while it serves, and a signal asks like a stop does.
Works(p) ==
  /\ Stands(p, "serves") /\ proc[p].work \in {"idle", "busy"}
  /\ proc' = [proc EXCEPT ![p].work = IF @ = "idle" THEN "busy" ELSE "idle"]
  /\ UNCHANGED shared

Signalled(p) ==
  /\ Stands(p, "serves") /\ Accepts(p)
  /\ proc' = [proc EXCEPT ![p].work = "stopping"]
  /\ UNCHANGED shared

\* A listener breaks: both are closed at once.
ServeFails(p) ==
  /\ Stands(p, "serves")
  /\ api' = Freed(api, p) /\ review' = Freed(review, p) /\ Failing(p, "withdraws")
  /\ UNCHANGED <<lifecycle, running, session, cleared>>

\* Shutdown closes one listener and waits for its requests, then the other.
ShutsApi(p) ==
  /\ Stands(p, "serves") /\ proc[p].work = "stopping"
  /\ api' = Freed(api, p) /\ Steps(p, "shuts")
  /\ UNCHANGED <<lifecycle, running, review, session, cleared>>

ShutsReviewSlip(p) ==  \* the running lock given back before the session
  /\ Stands(p, "shuts")
  /\ review' = Freed(review, p) /\ Steps(p, "withdraws") /\ running' = None
  /\ UNCHANGED <<lifecycle, api, session, cleared>>

ShutsReview(p) ==
  /\ Stands(p, "shuts")
  /\ review' = Freed(review, p) /\ Steps(p, "withdraws")
  /\ UNCHANGED <<lifecycle, running, api, session, cleared>>

\* The deferred calls in their order: the session, the listeners, the lock.
WithdrawsSession(p) ==
  /\ Stands(p, "withdraws")
  /\ Steps(p, IF session.inst = p THEN "unrecords" ELSE "closes")
  /\ UNCHANGED shared

UnrecordsSession(p) ==
  /\ Stands(p, "unrecords")
  /\ session' = NoSession /\ Steps(p, "closes")
  /\ UNCHANGED <<lifecycle, running, api, review, cleared>>

ClosesListeners(p) ==
  /\ Stands(p, "closes")
  /\ api' = Freed(api, p) /\ review' = Freed(review, p)
  /\ Steps(p, "unlocks")
  /\ UNCHANGED <<lifecycle, running, session, cleared>>

ReleasesRunning(p) ==
  /\ Stands(p, "unlocks")
  /\ running' = None /\ Steps(p, "leaves")
  /\ UNCHANGED <<lifecycle, api, review, session, cleared>>
-----------------------------------------------------------------------------
(***************************************************************************)
(* The computer around them.                                               *)
(***************************************************************************)
OtherListens(a) ==
  /\ api[a] = None /\ api' = [api EXCEPT ![a] = Other]
  /\ UNCHANGED <<proc, lifecycle, running, review, session, cleared>>

OtherCloses(a) ==
  /\ api[a] = Other /\ api' = [api EXCEPT ![a] = None]
  /\ UNCHANGED <<proc, lifecycle, running, review, session, cleared>>

CacheCleared ==
  /\ session # NoSession
  /\ session' = NoSession /\ cleared' = TRUE
  /\ UNCHANGED <<proc, lifecycle, running, api, review>>

CommandStep(p) ==
  \/ TakesLifecycle(p) \/ GivesUp(p) \/ CommandEnds(p)
  \/ ReadsSession(p) \/ FindsNobody(p) \/ FindsTrouble(p) \/ FindsHandler(p)
  \/ PreparesAddress(p) \/ GoesWithout(p)
  \/ AsksRecorded(p) \/ Posts(p) \/ SeesExit(p) \/ DropsSession(p) \/ RemovesSession(p)
  \/ BorrowsRunning(p) \/ WaitsTooLong(p) \/ Empties(p)
  \/ Identifies(p) \/ Terminates(p) \/ Outlasts(p) \/ Kills(p)

ServeStep(p) ==
  \/ TakesRunning(p) \/ ListensApi(p) \/ ListensReview(p) \/ SavesSession(p) \/ Registers(p)
  \/ Works(p) \/ Signalled(p) \/ ServeFails(p) \/ ShutsApi(p) \/ ShutsReview(p)
  \/ WithdrawsSession(p) \/ UnrecordsSession(p) \/ ClosesListeners(p) \/ ReleasesRunning(p)

LifecycleNext ==
  \/ \E p \in Invocation :
       \/ \E cmd \in Command, a \in Address : Invoked(p, cmd, a)
       \/ CommandStep(p) \/ ServeStep(p) \/ CommandDies(p)
  \/ \E a \in Address : OtherListens(a) \/ OtherCloses(a)
  \/ CacheCleared

LifecycleSpec == LifecycleInit /\ [][LifecycleNext]_lifecycleVars
-----------------------------------------------------------------------------
Listening(p) == \E a \in Address : api[a] = p \/ review[a] = p

\* The Handler that serves is the one that session.json names, unless the user
\* has emptied the cache, and nobody else listens or serves: whichever commands
\* race, no exit, replacement or uninstall takes away another's record.
HandlerIsRecorded ==
  \A p \in Invocation :
    /\ Stands(p, "serves") => session.inst = p \/ cleared
    /\ Listening(p) => running = p

\* A stop or uninstall that reports success leaves no Handler that answers at
\* its address, and none at all that had a record.
StoppedIsSilent ==
  \A p \in Invocation :
    Stands(p, "leaves") /\ proc[p].end = "stopped" /\ lifecycle = p =>
      /\ api[proc[p].address] \notin Invocation
      /\ \A a \in Address : api[a] \in Invocation => cleared
=============================================================================
