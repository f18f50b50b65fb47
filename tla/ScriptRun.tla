------------------------------ MODULE ScriptRun ------------------------------
(***************************************************************************)
(* The scripts of one poll: runScripts, the executor's workers, and the    *)
(* Starlark runtime they share with its exec_cmd and pub_and_get builtins  *)
(* and its one MQTT connection (internal/script). A script is the list of  *)
(* builtins it calls and what it returns.                                  *)
(***************************************************************************)
EXTENDS StarlarkValue

CONSTANTS
  Scripts,       \* newest version of each name (SelectLatestScripts)
  NoScript,
  Calls,         \* what each script calls: "exec", "ask" (pub_and_get with
                 \* accept criteria) or "tell" (pub_and_get without)
  Values,        \* bound: what each script's main() may return
  MaxConcurrent, \* maxConcurrentScripts
  MaxAttempts,   \* maxMQTTConnectAttempts
  MaxStray       \* bound: connection attempts that outlive their wait

ASSUME ScriptAssumption ==
  /\ NoScript \notin Scripts /\ IsFiniteSet(Scripts)
  /\ Calls \in [Scripts -> Seq({"exec", "ask", "tell"})]
  /\ \A s \in Scripts : \A out \in Values[s] : WellFormed(out)
  /\ MaxConcurrent \in Nat \ {0} /\ MaxAttempts \in Nat /\ MaxStray \in Nat

VARIABLES
  phase,    \* pollOnce: "idle", "run" (ExecuteScripts) or "send" (the heartbeat)
  stopping, \* the context of the loop is done
  stage,    \* where each script is
  left,     \* the calls it has yet to make, the current one first
  ctx,      \* the context of its Execute: "live", "deadline" or "canceled"
  value,    \* what it leaves in resCh: "none" until it ends
  conv,     \* the conversion of what main() returned, while it is walked
  output,   \* what main() returned, once converted: one value or none
  cut,      \* history: scripts that were given the front of a command's output
  result,   \* ScriptResult
  busy,     \* who holds pubAndGetSem
  conn,     \* mqttClient: "none", "up" or "down" while it connects again
  failures, \* mqttFailures
  missed,   \* history: connection attempts that failed in a row
  dialing,  \* attempts that awaitToken has given up on
  stray,    \* connections such attempts have made
  sub,      \* whose handler has the subscription of the reply topic
  reply     \* responseCh of each call

poll == <<phase, stopping>>
built == <<conv, output>>
script == <<stage, left, ctx, value, built, cut, result>>
broker == <<conn, failures, missed, dialing, stray, sub>>
runVars == <<poll, script, busy, broker, reply>>

\* What the handler of a call tells apart: the call's own message, one that is too
\* large, and whether the fields that accept names are there and equal. Whose
\* request a message answers it cannot tell.
Replies == {"fits", "misfits", "echo", "huge"}

NoConversion == [todo |-> <<>>]

RunTypeOK ==
  /\ phase \in {"idle", "run", "send"} /\ stopping \in BOOLEAN
  /\ stage \in [Scripts -> {"queued", "code", "exec", "sem", "connect", "subscribe", "publish",
                            "await", "unsubscribe", "convert", "over", "done"}]
  /\ left \in [Scripts -> Seq({"exec", "ask", "tell"})]
  /\ ctx \in [Scripts -> {"live", "deadline", "canceled"}]
  /\ cut \in SUBSET Scripts
  /\ value \in [Scripts -> {"none", "output", "error", "timeout"}]
  /\ DOMAIN conv = Scripts /\ DOMAIN output = Scripts
  /\ \A s \in Scripts :
       /\ output[s] \subseteq Values[s]
       /\ IF stage[s] = "convert"
          THEN conv[s].out \in Values[s] /\ conv[s].nodes \in 0..MaxNodes /\ conv[s].bytes \in 0..MaxBytes
          ELSE conv[s] = NoConversion
  /\ result \in [Scripts -> {"none", "success", "error", "timeout"}]
  /\ busy \in Scripts \cup {NoScript} /\ sub \in Scripts \cup {NoScript}
  /\ conn \in {"none", "up", "down"}
  /\ failures \in 0..MaxAttempts /\ missed \in Nat
  /\ dialing \in Nat /\ stray \in Nat /\ dialing + stray <= MaxStray
  /\ reply \in [Scripts -> {"none"} \cup Replies]

All(v) == [s \in Scripts |-> v]

RunInit ==
  /\ phase = "idle" /\ stopping = FALSE
  /\ stage = All("done") /\ left = All(<<>>) /\ ctx = All("live")
  /\ value = All("none") /\ conv = All(NoConversion) /\ output = All({}) /\ cut = {}
  /\ result = All("none")
  /\ busy = NoScript /\ conn = "none" /\ failures = 0 /\ missed = 0
  /\ dialing = 0 /\ stray = 0 /\ sub = NoScript
  /\ reply = All("none")

Done(s) == ctx[s] # "live"
Goto(s, from, to) == stage[s] = from /\ stage' = [stage EXCEPT ![s] = to]

-----------------------------------------------------------------------------
(* The poll loop and the executor *)

BeginPoll ==
  /\ phase = "idle" /\ ~stopping
  /\ phase' = "run"
  /\ stage' = All("queued") /\ left' = Calls
  /\ UNCHANGED <<stopping, ctx, value, built, cut, result, busy, broker, reply>>

Active == {s \in Scripts : stage[s] \notin {"queued", "done"}}
\* The results channel has room for every script: no worker blocks on it.
Room == Cardinality({s \in Scripts : result[s] # "none"}) < Cardinality(Scripts)

Leave(s, v) == value' = [value EXCEPT ![s] = v]
Answer(s, status) == Room /\ result' = [result EXCEPT ![s] = status]

\* Fault: a worker whose context is done drops its job.
CancelSilently(s) ==
  /\ phase = "run" /\ stopping /\ Cardinality(Active) < MaxConcurrent
  /\ Goto(s, "queued", "done") /\ left' = [left EXCEPT ![s] = <<>>]
  /\ UNCHANGED <<poll, ctx, value, built, cut, result, busy, broker, reply>>

\* A worker takes the next job: canceledScriptResult, or a file that no longer
\* parses, or Execute with its deadline.
Cancel(s) ==
  /\ phase = "run" /\ stopping /\ Cardinality(Active) < MaxConcurrent
  /\ Goto(s, "queued", "done") /\ Answer(s, "timeout")
  /\ left' = [left EXCEPT ![s] = <<>>]
  /\ UNCHANGED <<poll, ctx, value, built, cut, busy, broker, reply>>

Unreadable(s) ==
  /\ phase = "run" /\ Cardinality(Active) < MaxConcurrent
  /\ Goto(s, "queued", "done") /\ Answer(s, "error")
  /\ left' = [left EXCEPT ![s] = <<>>]
  /\ UNCHANGED <<poll, ctx, value, built, cut, busy, broker, reply>>

Execute(s) ==
  /\ phase = "run" /\ Cardinality(Active) < MaxConcurrent
  /\ Goto(s, "queued", "code")
  /\ ctx' = [ctx EXCEPT ![s] = IF stopping THEN "canceled" ELSE "live"]
  /\ UNCHANGED <<poll, left, value, built, cut, result, busy, broker, reply>>

\* Execute's select: once the context is done it waits for the script all the
\* same, and may then choose either. ValidateOutput may refuse the output.
Conclude(s) ==
  /\ Goto(s, "over", "done")
  /\ \/ Done(s) /\ Answer(s, "timeout")
     \/ value[s] = "output" /\ \E v \in {"success", "error"} : Answer(s, v)
     \/ value[s] # "output" /\ Answer(s, value[s])
  /\ ctx' = [ctx EXCEPT ![s] = "live"] /\ left' = [left EXCEPT ![s] = <<>>]
  /\ Leave(s, "none") /\ output' = [output EXCEPT ![s] = {}] /\ cut' = cut \ {s}
  /\ UNCHANGED conv
  /\ UNCHANGED <<poll, busy, broker, reply>>

\* wg.Wait and rt.Close; the next poll has a runtime of its own.
CloseRuntime ==
  /\ phase = "run" /\ \A s \in Scripts : stage[s] = "done"
  /\ phase' = "send" /\ conn' = "none" /\ sub' = NoScript /\ failures' = 0 /\ missed' = 0
  /\ UNCHANGED <<stopping, script, busy, dialing, stray, reply>>

Heartbeat ==
  /\ phase = "send" /\ phase' = "idle" /\ result' = All("none")
  /\ UNCHANGED <<stopping, stage, left, ctx, value, built, cut, busy, broker, reply>>

Deadline(s) ==
  /\ s \in Active /\ ~Done(s)
  /\ ctx' = [ctx EXCEPT ![s] = "deadline"]
  /\ UNCHANGED <<poll, stage, left, value, built, cut, result, busy, broker, reply>>

Stop ==
  /\ ~stopping /\ stopping' = TRUE
  /\ ctx' = [s \in Scripts |-> IF s \in Active /\ ~Done(s) THEN "canceled" ELSE ctx[s]]
  /\ UNCHANGED <<phase, stage, left, value, built, cut, result, busy, broker, reply>>

\* The process ends, or systemd kills it, and with it every connection; the
\* service starts again.
Restart ==
  /\ stopping
  /\ phase' = "idle" /\ stopping' = FALSE
  /\ stage' = All("done") /\ left' = All(<<>>) /\ ctx' = All("live")
  /\ value' = All("none") /\ conv' = All(NoConversion) /\ output' = All({}) /\ cut' = {}
  /\ result' = All("none")
  /\ busy' = NoScript /\ conn' = "none" /\ failures' = 0 /\ missed' = 0
  /\ dialing' = 0 /\ stray' = 0 /\ sub' = NoScript
  /\ reply' = All("none")

-----------------------------------------------------------------------------
(* The script's goroutine *)

\* A script fails by itself, exceeds its steps, or Execute cancels its thread.
Abort(s) ==
  /\ Goto(s, "code", "over")
  /\ Leave(s, "error")
  /\ UNCHANGED <<poll, left, ctx, built, cut, result, busy, broker, reply>>

\* main() returns a dict or None, and starlarkValueToGo begins its walk.
Return(s) ==
  /\ left[s] = <<>>
  /\ Goto(s, "code", "convert")
  /\ \E out \in Values[s] : conv' = [conv EXCEPT ![s] = Begin(out)]
  /\ UNCHANGED <<poll, left, ctx, value, output, cut, result, busy, broker, reply>>

\* Fault: convert does not look at the context.
ConvertLate(s) ==
  /\ stage[s] = "convert" /\ Accepts(conv[s])
  /\ LET c == Visit(conv[s]) IN
       \/ /\ c.todo # <<>> /\ conv' = [conv EXCEPT ![s] = c]
          /\ UNCHANGED <<stage, value, output>>
       \/ /\ c.todo = <<>> /\ conv' = [conv EXCEPT ![s] = NoConversion]
          /\ stage' = [stage EXCEPT ![s] = "over"]
          /\ Leave(s, "output") /\ output' = [output EXCEPT ![s] = {c.out}]
  /\ UNCHANGED <<poll, left, ctx, cut, result, busy, broker, reply>>

\* convert: one value of the walk, the last of which ends it.
Convert(s) ==
  /\ stage[s] = "convert" /\ ~Done(s) /\ Accepts(conv[s])
  /\ LET c == Visit(conv[s]) IN
       \/ /\ c.todo # <<>> /\ conv' = [conv EXCEPT ![s] = c]
          /\ UNCHANGED <<stage, value, output>>
       \/ /\ c.todo = <<>> /\ conv' = [conv EXCEPT ![s] = NoConversion]
          /\ stage' = [stage EXCEPT ![s] = "over"]
          /\ Leave(s, "output") /\ output' = [output EXCEPT ![s] = {c.out}]
  /\ UNCHANGED <<poll, left, ctx, cut, result, busy, broker, reply>>

\* The context is done, or the value is refused.
ConvertFails(s) ==
  /\ Goto(s, "convert", "over")
  /\ (Done(s) /\ Leave(s, "timeout")) \/ (~Accepts(conv[s]) /\ Leave(s, "error"))
  /\ conv' = [conv EXCEPT ![s] = NoConversion]
  /\ UNCHANGED <<poll, left, ctx, output, cut, result, busy, broker, reply>>

Calling(s, kinds) == left[s] # <<>> /\ Head(left[s]) \in kinds
Called(s) == left' = [left EXCEPT ![s] = Tail(@)]

StartCommand(s) ==
  /\ Calling(s, {"exec"}) /\ Goto(s, "code", "exec")
  /\ UNCHANGED <<poll, left, ctx, value, built, cut, result, busy, broker, reply>>

\* A command the allowlists refuse, that fails, that writes too much, or whose
\* context is done.
CommandFails(s) ==
  /\ Goto(s, "exec", "over") /\ Leave(s, "error")
  /\ UNCHANGED <<poll, left, ctx, built, cut, result, busy, broker, reply>>

\* The command has succeeded. When a descendant still holds the pipe, the end of
\* the context closes it: after the deadline that is an error, but not after a
\* cancellation.
CommandEnds(s) ==
  /\ Goto(s, "exec", "code") /\ ctx[s] # "deadline" /\ Called(s)
  /\ \/ UNCHANGED cut
     \/ ctx[s] = "canceled" /\ cut' = cut \cup {s}
  /\ UNCHANGED <<poll, ctx, value, built, result, busy, broker, reply>>

-----------------------------------------------------------------------------
(* pub_and_get *)

MQTT == {"ask", "tell"}
Fail(s, v) == Leave(s, v) /\ stage' = [stage EXCEPT ![s] = "over"]
Release(s) == busy' = NoScript

Ask(s) ==
  /\ Calling(s, MQTT) /\ ~Done(s)
  /\ Goto(s, "code", "sem")
  /\ UNCHANGED <<poll, left, ctx, value, built, cut, result, busy, broker, reply>>

AskTooLate(s) ==
  /\ Done(s) /\ ((stage[s] = "code" /\ Calling(s, MQTT)) \/ stage[s] = "sem")
  /\ Fail(s, "timeout")
  /\ UNCHANGED <<poll, left, ctx, built, cut, result, busy, broker, reply>>

Acquire(s) ==
  /\ Goto(s, "sem", "connect") /\ busy = NoScript /\ busy' = s
  /\ UNCHANGED <<poll, left, ctx, value, built, cut, result, broker, reply>>

\* The arguments and topics are refused, the context is done, or the breaker is
\* open.
Refuse(s) ==
  /\ stage[s] = "connect"
  /\ Fail(s, IF Done(s) THEN "timeout" ELSE "error") /\ Release(s)
  /\ UNCHANGED <<poll, left, ctx, built, cut, result, broker, reply>>

\* Broker work begins only while the context is live, and then goes on.
Reuse(s) ==
  /\ ~Done(s) /\ conn # "none" /\ Goto(s, "connect", "subscribe")
  /\ UNCHANGED <<poll, left, ctx, value, built, cut, result, busy, broker, reply>>

Dials(s) == stage[s] = "connect" /\ ~Done(s) /\ conn = "none" /\ failures < MaxAttempts

Connect(s) ==
  /\ Dials(s) /\ Goto(s, "connect", "subscribe")
  /\ conn' = "up" /\ failures' = 0 /\ missed' = 0 /\ sub' = NoScript
  /\ UNCHANGED <<poll, left, ctx, value, built, cut, result, busy, dialing, stray, reply>>

\* Fault: only an attempt the broker refuses is counted.
ConnectUncounted(s) ==
  /\ Dials(s) /\ missed' = missed + 1
  /\ \/ failures' = failures + 1 /\ UNCHANGED dialing
     \/ dialing + stray < MaxStray /\ dialing' = dialing + 1 /\ UNCHANGED failures
  /\ Fail(s, "error") /\ Release(s)
  /\ UNCHANGED <<poll, left, ctx, built, cut, result, conn, stray, sub, reply>>

\* The broker refuses, or does not answer within five seconds: the client goes on
\* with its attempt.
ConnectFails(s) ==
  /\ Dials(s) /\ failures' = failures + 1 /\ missed' = missed + 1
  /\ (UNCHANGED dialing) \/ (dialing + stray < MaxStray /\ dialing' = dialing + 1)
  /\ Fail(s, "error") /\ Release(s)
  /\ UNCHANGED <<poll, left, ctx, built, cut, result, conn, stray, sub, reply>>

Subscribe(s) ==
  /\ conn = "up" /\ Goto(s, "subscribe", "publish")
  /\ sub' = s /\ reply' = [reply EXCEPT ![s] = "none"]
  /\ UNCHANGED <<poll, left, ctx, value, built, cut, result, busy, conn, failures, missed, dialing, stray>>

\* A fault for comparison: the error returns without giving the semaphore back.
SubscribeFailsHolding(s) ==
  /\ stage[s] = "subscribe"
  /\ (UNCHANGED sub) \/ (conn = "up" /\ sub' = s)
  /\ Fail(s, "error")
  /\ UNCHANGED <<poll, left, ctx, built, cut, result, busy, conn, failures, missed, dialing, stray, reply>>

\* A subscription that is acknowledged too late stays with its dead handler.
SubscribeFails(s) ==
  /\ stage[s] = "subscribe"
  /\ (UNCHANGED sub) \/ (conn = "up" /\ sub' = s)
  /\ Fail(s, "error") /\ Release(s)
  /\ UNCHANGED <<poll, left, ctx, built, cut, result, conn, failures, missed, dialing, stray, reply>>

Publish(s) ==
  /\ conn = "up" /\ Goto(s, "publish", "await")
  /\ UNCHANGED <<poll, left, ctx, value, built, cut, result, busy, broker, reply>>

PublishFails(s) ==
  /\ Goto(s, "publish", "unsubscribe") /\ Leave(s, "error")
  /\ UNCHANGED <<poll, left, ctx, built, cut, result, busy, broker, reply>>

\* A message on the reply topic while a handler has the subscription, which may be
\* the late reply to an earlier request; only the echo must follow the publication.
Awaits(s) == stage[s] \in {"publish", "await"}
Matches(s, r) == r \in {"fits", "huge"} \/ (r = "misfits" /\ Head(left[s]) = "tell")

Message(r) ==
  /\ sub # NoScript /\ conn = "up" /\ Awaits(sub)
  /\ r = "echo" => stage[sub] = "await"
  /\ reply[sub] = "none" /\ Matches(sub, r)
  /\ reply' = [reply EXCEPT ![sub] = r]
  /\ UNCHANGED <<poll, script, busy, broker>>

TakeReply(s) ==
  /\ reply[s] # "none" /\ Goto(s, "await", "unsubscribe")
  /\ IF reply[s] = "huge" THEN Leave(s, "error") ELSE UNCHANGED value
  /\ UNCHANGED <<poll, left, ctx, built, cut, result, busy, broker, reply>>

\* A fault for comparison: when nothing came the request is published again, also
\* when the context is done.
PublishAgain(s) ==
  /\ Goto(s, "await", "publish")
  /\ UNCHANGED <<poll, left, ctx, value, built, cut, result, busy, broker, reply>>

\* The context is done, or nothing came in five seconds and the script gets None.
StopWaiting(s) ==
  /\ Goto(s, "await", "unsubscribe")
  /\ (Done(s) /\ Leave(s, "timeout")) \/ (UNCHANGED value)
  /\ UNCHANGED <<poll, left, ctx, built, cut, result, busy, broker, reply>>

\* Fault: the semaphore is released before the subscription is cancelled.
UnsubscribeFree(s) ==
  \/ /\ stage[s] = "unsubscribe" /\ busy = s /\ Release(s)
     /\ UNCHANGED <<poll, script, broker, reply>>
  \/ /\ stage[s] = "unsubscribe" /\ busy # s /\ sub' = NoScript
     /\ stage' = [stage EXCEPT ![s] = IF value[s] = "none" THEN "code" ELSE "over"] /\ Called(s)
     /\ UNCHANGED <<poll, ctx, value, built, cut, result, busy, conn, failures, missed, dialing, stray, reply>>

\* The deferred calls: Unsubscribe, then the release.
Unsubscribe(s) ==
  /\ stage[s] = "unsubscribe"
  /\ stage' = [stage EXCEPT ![s] = IF value[s] = "none" THEN "code" ELSE "over"] /\ Called(s)
  /\ sub' = NoScript /\ reply' = [reply EXCEPT ![s] = "none"] /\ Release(s)
  /\ UNCHANGED <<poll, ctx, value, built, cut, result, conn, failures, missed, dialing, stray>>

\* The connection is lost, and with it the subscription; the client, which counts
\* as connected meanwhile, connects again.
Lost ==
  /\ \/ conn = "up" /\ conn' = "down"
     \/ conn = "down" /\ conn' = "up"
  /\ sub' = NoScript
  /\ UNCHANGED <<poll, script, busy, failures, missed, dialing, stray, reply>>

\* The attempt that was given up succeeds, or fails too.
LateAnswer ==
  /\ dialing > 0 /\ dialing' = dialing - 1
  /\ stray' \in {stray, stray + 1}
  /\ UNCHANGED <<poll, script, busy, conn, failures, missed, sub, reply>>

-----------------------------------------------------------------------------
Work(s) ==
  \/ Cancel(s) \/ Unreadable(s) \/ Execute(s) \/ Conclude(s)
  \/ Abort(s) \/ Return(s) \/ Convert(s) \/ ConvertFails(s) \/ StartCommand(s) \/ CommandFails(s) \/ CommandEnds(s)
  \/ Ask(s) \/ AskTooLate(s) \/ Acquire(s) \/ Refuse(s) \/ Reuse(s) \/ Connect(s) \/ ConnectFails(s)
  \/ Subscribe(s) \/ SubscribeFails(s) \/ Publish(s) \/ PublishFails(s)
  \/ TakeReply(s) \/ StopWaiting(s) \/ Unsubscribe(s)

RunNext ==
  \/ BeginPoll \/ CloseRuntime \/ Heartbeat \/ Stop \/ Restart \/ Lost \/ LateAnswer
  \/ \E r \in Replies : Message(r)
  \/ \E s \in Scripts : Work(s) \/ Deadline(s)

RunSpec == RunInit /\ [][RunNext]_runVars

\* Workers and goroutines are scheduled; commands, waits and requests end, since
\* each has a timeout.
FairRunSpec == RunSpec /\ WF_runVars(CloseRuntime) /\ WF_runVars(Heartbeat) /\ WF_runVars(\E s \in Scripts : Work(s))

-----------------------------------------------------------------------------
\* The poll reports on every script it selected, whatever happened to the script.
EveryScriptAnswers == phase = "send" => \A s \in Scripts : result[s] # "none"

\* A script that is reported as a success was not given the front of a command's
\* output in place of all of it, also when the service is stopped while it runs.
SuccessIsWhole ==
  [][\A s \in Scripts : result[s] = "none" /\ result'[s] = "success" => s \notin cut]_runVars

\* maxMQTTConnectAttempts: no more consecutive attempts to reach the broker than
\* that in one poll, however they fail.
BreakerHolds == missed <= MaxAttempts

\* The guards of Work(s): only a worker, the semaphore and room in the results
\* channel are waited for.
UsesBroker == {"connect", "subscribe", "publish", "await", "unsubscribe"}
CanWork(s) ==
  \/ stage[s] \in UsesBroker \cup {"code", "exec", "convert"}
  \/ stage[s] = "queued" /\ Cardinality(Active) < MaxConcurrent
  \/ stage[s] = "sem" /\ (busy = NoScript \/ Done(s))
  \/ stage[s] = "over" /\ Room

\* Workers, pubAndGetSem and the results channel never wait for one another: until
\* every script is done some script can go on, before any deadline runs out, also
\* after calls that failed, timed out or were given up in the middle.
SomebodyGoesOn ==
  phase = "run" => (\A s \in Scripts : stage[s] = "done") \/ \E s \in Scripts : CanWork(s)

\* The conversion's budgets: what is reported, written out with every shared part
\* in each of its places, is no larger than they allow.
Small == {out \in UNION {Values[s] : s \in Scripts} : WithinBudgets(out)}
OutputWithinBudgets == \A s \in Scripts : output[s] \subseteq Small

\* The conversion is not stricter than its budgets: a script fails with what it
\* returned only when that cannot be converted, and not for a part it shares.
RefusalIsDue ==
  [][\A s \in Scripts :
       stage[s] = "convert" /\ value'[s] = "error" => ~Convertible(conv[s].out)]_runVars

\* pubAndGetSem: while a call waits on a connection that stays up, nobody else's
\* call takes its subscription away.
SubscriptionIsKept ==
  [][\A s \in Scripts :
       stage[s] = "await" /\ stage'[s] = "await" /\ sub = s /\ conn' = conn => sub' = s]_runVars

\* Every poll ends, with its heartbeat unless the process ended first, also with
\* scripts that hang and a broker that does not answer.
PollEnds == phase = "run" ~> phase # "run"
=============================================================================
