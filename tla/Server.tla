------------------------------- MODULE Server -------------------------------
(***************************************************************************)
(* The life of a server process, from main's first line to its last: the   *)
(* configuration, the pool and its ping, the migrations (Migrations), the  *)
(* listener in a goroutine of its own, the signal, http.Server.Shutdown    *)
(* with its ten seconds, and the deferred pool.Close.  log.Fatalf ends the *)
(* process where it stands.  What a handler does with a request is in the  *)
(* other modules; here it answers, or the end of its process cuts it off.  *)
(***************************************************************************)
EXTENDS Migrations

CONSTANTS Requests

VARIABLES main,      \* where main() of each replica is
          listener,  \* the goroutine that runs ListenAndServe
          fate,      \* what has become of each request
          held       \* the requests whose handlers run in each replica

serverVars == <<main, listener, fate, held>>

Running == {"dialing", "migrating", "serving", "draining", "closing"}

\* How a process ends, and with it the requests that it has not answered.
Ends == {"stopped", "fatal", "killed"}

\* The process is gone, in the middle of whatever it was doing.
End(r, how) ==
  /\ main'     = [main EXCEPT ![r] = "ended"]
  /\ listener' = [listener EXCEPT ![r] = "none"]
  /\ fate'     = [q \in Requests |-> IF q \in held[r] THEN how ELSE fate[q]]
  /\ held'     = [held EXCEPT ![r] = {}]

-----------------------------------------------------------------------------
ServerInit == /\ Init
              /\ main     = [r \in Replicas |-> "ended"]
              /\ listener = [r \in Replicas |-> "none"]
              /\ fate     = [q \in Requests |-> "new"]
              /\ held     = [r \in Replicas |-> {}]

\* FromEnv: without DATABASE_URL the process ends at once.
Start(r, databaseURL) ==
  /\ main[r] = "ended"
  /\ main' = [main EXCEPT ![r] = IF databaseURL = "" THEN "ended" ELSE "dialing"]
  /\ UNCHANGED <<vars, listener, fate, held>>

\* NewPool, whose ping has been answered within ten seconds.
Dial(r) ==
  /\ main[r] = "dialing"
  /\ Boot(r)
  /\ main' = [main EXCEPT ![r] = "migrating"]
  /\ UNCHANGED <<listener, fate, held>>

DialFails(r) ==
  /\ main[r] = "dialing"
  /\ End(r, "fatal")
  /\ UNCHANGED vars

\* One step of Migrate; after the last the listener's goroutine is started,
\* and an error is fatal.
MigrateStep(r) ==
  /\ main[r] = "migrating"
  /\ Step(r)
  /\ CASE pc'[r] = "serving" -> /\ main'     = [main EXCEPT ![r] = "serving"]
                                /\ listener' = [listener EXCEPT ![r] = "starting"]
                                /\ UNCHANGED <<fate, held>>
       [] pc'[r] = "exited"  -> End(r, "fatal")
       [] OTHER              -> UNCHANGED serverVars

\* Mutant: the goroutine listens with a listener of its own, which Shutdown does
\* not know when it is opened later.
ListenLate(r) ==
  /\ listener[r] = "starting"
  /\ listener' = [listener EXCEPT ![r] = "open"]
  /\ UNCHANGED <<vars, main, fate, held>>

\* The goroutine gets to run.  ListenAndServe after Shutdown returns
\* ErrServerClosed, which ends the goroutine and nothing else.
Listen(r) ==
  /\ listener[r] = "starting"
  /\ listener' = [listener EXCEPT ![r] = IF main[r] = "serving" THEN "open" ELSE "none"]
  /\ UNCHANGED <<vars, main, fate, held>>

\* The port is taken, or accept fails for good.
ListenerFails(r) ==
  /\ main[r] = "serving" /\ listener[r] \in {"starting", "open"}
  /\ Stop(r)
  /\ End(r, "fatal")

Accept(r, q) ==
  /\ listener[r] = "open" /\ fate[q] = "new"
  /\ fate' = [fate EXCEPT ![q] = "open"]
  /\ held' = [held EXCEPT ![r] = @ \cup {q}]
  /\ UNCHANGED <<vars, main, listener>>

Answer(r, q) ==
  /\ q \in held[r]
  /\ fate' = [fate EXCEPT ![q] = "answered"]
  /\ held' = [held EXCEPT ![r] = @ \ {q}]
  /\ UNCHANGED <<vars, main, listener>>

\* SIGINT or SIGTERM: Shutdown closes the listener first.
Signal(r) ==
  /\ main[r] = "serving"
  /\ main' = [main EXCEPT ![r] = "draining"]
  /\ listener' = [listener EXCEPT ![r] = IF @ = "open" THEN "none" ELSE @]
  /\ UNCHANGED <<vars, fate, held>>

\* Mutant: main waits for ListenAndServe, which returns as soon as Shutdown begins.
DrainedAtOnce(r) ==
  /\ main[r] = "draining"
  /\ main' = [main EXCEPT ![r] = "closing"]
  /\ UNCHANGED <<vars, listener, fate, held>>

\* Shutdown has seen no connection but idle ones and returns; "stopped" is logged.
Drained(r) ==
  /\ main[r] = "draining" /\ held[r] = {}
  /\ main' = [main EXCEPT ![r] = "closing"]
  /\ UNCHANGED <<vars, listener, fate, held>>

\* The deferred pool.Close, and main returns: nobody looks at handlers again.
Return(r) ==
  /\ main[r] = "closing"
  /\ Stop(r)
  /\ End(r, "stopped")

\* Mutant: Shutdown gets a context that has no deadline.
NoDeadline(r) == FALSE

\* Ten seconds are over before Shutdown has looked again: its error is fatal,
\* and the pool is not closed.
TimesUp(r) ==
  /\ main[r] = "draining"
  /\ Stop(r)
  /\ End(r, "fatal")

\* A call of Migrate returns an error of its own.
MigrateFails(r) ==
  /\ main[r] = "migrating"
  /\ Stop(r)
  /\ End(r, "fatal")

\* SIGKILL, and SIGTERM before signal.Notify.
Kill(r) ==
  /\ main[r] \in Running
  /\ IF main[r] = "dialing" THEN UNCHANGED vars ELSE Stop(r)
  /\ End(r, "killed")

MainStep(r) == Dial(r) \/ MigrateStep(r) \/ Listen(r)

Shutdown(r) == Drained(r) \/ TimesUp(r) \/ Return(r)

ServerNext ==
  \E r \in Replicas :
    \/ \E databaseURL \in {"", "postgres"} : Start(r, databaseURL)
    \/ MainStep(r) \/ Shutdown(r)
    \/ DialFails(r) \/ MigrateFails(r) \/ ListenerFails(r)
    \/ Signal(r) \/ Kill(r)
    \/ \E q \in Requests : Accept(r, q) \/ Answer(r, q)

\* A process that runs goes on running, and its timers fire; a handler may wait
\* for the database for ever, and nobody is obliged to send a request, a signal,
\* or to start a process.
ServerSpec == /\ ServerInit
              /\ [][ServerNext]_<<vars, serverVars>>
              /\ \A r \in Replicas : WF_<<vars, serverVars>>(MainStep(r))
              /\ \A r \in Replicas : WF_<<vars, serverVars>>(Shutdown(r))

-----------------------------------------------------------------------------
(* Properties.                                                              *)

\* Nobody serves, or handles a request, before the last migration is recorded
\* and its objects exist (main.go:32-34).
RequestsOnFullSchema ==
  \A r \in Replicas : (listener[r] = "open" \/ held[r] # {}) =>
    recorded = 1..LastMigration /\ objects = 1..LastMigration

\* Between the end of Shutdown, which is the last to look at handlers, and the end
\* of the process nothing is accepted, though the listener's goroutine may start
\* as late as that: no handler meets a closed pool, and a process that logs
\* "stopped" has cut off no request it accepted (main.go:42-58).
OrderlyStopCutsNothing ==
  /\ \A r \in Replicas : main[r] = "closing" => listener[r] # "open" /\ held[r] = {}
  /\ \A q \in Requests : fate[q] # "stopped"

\* The inductive invariant: that of Migrations, and what main says of the other
\* variables of a process.
ServerIndInv ==
  /\ IndInv
  /\ main \in [Replicas -> Running \cup {"ended"}]
  /\ listener \in [Replicas -> {"none", "starting", "open"}]
  /\ held \in [Replicas -> SUBSET Requests]
  /\ fate \in [Requests -> {"new", "open", "answered"} \cup Ends]
  /\ \A r \in Replicas : main[r] = "migrating" => pc[r] \in Booting
  /\ \A r \in Replicas : main[r] \in {"serving", "draining", "closing"} => pc[r] = "serving"
  /\ \A r \in Replicas : listener[r] = "open" => main[r] = "serving"
  /\ \A r \in Replicas : held[r] # {} => main[r] \in {"serving", "draining"}
  /\ OrderlyStopCutsNothing

\* A signal ends the process, though a handler may never return (main.go:53).
ShutdownEnds == \A r \in Replicas : main[r] = "draining" ~> main[r] = "ended"

\* Replicas that race make each other exit, but not all of them: unless a process
\* is stopped from outside, once one has reached Migrate some replica listens
\* (migrate.go:16-18, main.go:42-47).
SomeReplicaListens ==
  (\E r \in Replicas : main[r] = "migrating")
    ~> \/ disturbed
       \/ \E r \in Replicas : listener[r] = "open" \/ main[r] = "draining"
=============================================================================
