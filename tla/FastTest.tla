------------------------------ MODULE FastTest ------------------------------
(***************************************************************************)
(* scripts/create-test-user-today.js: it restarts the HTTP server with a   *)
(* delivery time a few seconds ahead, waits until the server answers and   *)
(* registers a user whose birthday is today, all against the clock.        *)
(***************************************************************************)
EXTENDS UserApi

CONSTANTS Arguments,   \* what the script is called with, 0 for no number
          StartDelays  \* how many seconds a server may take to start

ASSUME FastTestAssumption == Arguments \subseteq Nat /\ StartDelays \subseteq Nat

VARIABLE script  \* where the script is, and what it remembers

fastTestVars == <<apiVars, script>>

IdleScript == [pc |-> "idle", started |-> 0, offset |-> 0, restarted |-> FALSE]

FastTestInit == UserApiInit /\ script = IdleScript

OFFSET_SECONDS(argument) == IF argument = 0 THEN 10 ELSE argument

\* HEALTH_CHECK_MAX_ATTEMPTS times HEALTH_CHECK_INTERVAL.
HealthCheckSeconds == 20

TimeOfDay(s) == [form |-> "time", hour |-> s \div Hour, minute |-> (s % Hour) \div 60, second |-> s % 60]

\* Mutant: the seconds are cut off.
calculateTargetTimeMinutes(t) == [TimeOfDay(t % Day) EXCEPT !.second = 0]

\* The target time as the server will parse it.
calculateTargetTime(t) == TimeOfDay(t % Day)

-----------------------------------------------------------------------------
RunScript(argument) ==
  /\ script.pc = "idle"
  /\ user = NoUser
  /\ LET seconds == OFFSET_SECONDS(argument)
     IN  script' = IF seconds < 5 \/ seconds > 300
                   THEN [script EXCEPT !.pc = "failed"]
                   ELSE [script EXCEPT !.pc = "kill", !.started = now, !.offset = seconds]
  /\ answer' = 0
  /\ UNCHANGED <<now, server, user, steps, eventVars>>

\* kill -9 and a second for the port; its failure is not looked at.
killProcessOnPort ==
  /\ script.pc = "kill"
  /\ \/ server.up /\ server' = [server EXCEPT !.up = FALSE] /\ now' = now + 1
     \/ UNCHANGED <<server, now>>
  /\ script' = [script EXCEPT !.pc = "start"]
  /\ answer' = 0 /\ UNCHANGED <<user, steps, eventVars>>

\* Where an old server holds the port the new one exits.
startDevServer ==
  /\ script.pc = "start"
  /\ IF server.up
     THEN UNCHANGED server /\ script' = [script EXCEPT !.pc = "wait"]
     ELSE /\ server' = [server EXCEPT !.override = calculateTargetTime(script.started + script.offset)]
          /\ script' = [script EXCEPT !.pc = "wait", !.restarted = TRUE]
  /\ answer' = 0 /\ UNCHANGED <<now, user, steps, eventVars>>

\* The health check is answered by whatever server has the port.
waitForServer ==
  /\ script.pc = "wait"
  /\ \E delay \in StartDelays :
       LET ready == server.up \/ delay < HealthCheckSeconds
       IN  /\ server' = [server EXCEPT !.up = ready]
           /\ script' = [script EXCEPT !.pc = IF ready THEN "create" ELSE "failed"]
           /\ now' = IF server.up THEN now ELSE now + delay
  /\ answer' = 0 /\ UNCHANGED <<user, steps, eventVars>>

\* The birthday is today's date in UTC.
TestUser(today) ==
  [name  |-> "fine",
   birth |-> [form |-> "date", year |-> today.year, month |-> today.month, day |-> today.day],
   zone  |-> "UTC"]

createTestUser ==
  /\ script.pc = "create"
  /\ Post(TestUser(DateOf(now \div Day)))
  /\ script' = [script EXCEPT !.pc = IF answer' = 201 THEN "done" ELSE "failed"]

ScriptRuns ==
  \/ \E argument \in Arguments : RunScript(argument)
  \/ killProcessOnPort
  \/ startDevServer
  \/ waitForServer
  \/ createTestUser

-----------------------------------------------------------------------------
Ids == {"known", "malformed"}

\* Nobody else uses the server while the script does, and its end is the end.
Clients ==
  /\ script.pc = "idle"
  /\ \/ \E body \in PostBodies : Post(body)
     \/ \E id \in Ids, body \in PutBodies : Put(id, body)
     \/ \E id \in Ids : Get(id) \/ Delete(id)
     \/ Wait \/ Celebrate
  /\ UNCHANGED script

FastTestNext == ScriptRuns \/ Clients

FastTestSpec == FastTestInit /\ [][FastTestNext]_fastTestVars

-----------------------------------------------------------------------------
\* The script that reports success has its user celebrated when it said, unless an old
\* server answered, starting took longer than the offset, or midnight comes in between.
TestEventIsImminent ==
  [][LET promised == script.started + script.offset
     IN  script.pc = "create" /\ script'.pc = "done" /\ server.webhook
           => \/ event'.target = promised
              \/ ~script.restarted
              \/ now >= promised
              \/ now \div Day # promised \div Day]_fastTestVars
=============================================================================
