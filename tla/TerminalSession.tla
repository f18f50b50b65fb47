--------------------------- MODULE TerminalSession ---------------------------
(***************************************************************************)
(* Browser terminals of one device. The device page (a LiveView) makes a   *)
(* key pair for each session, keeps the private key in the SshKeyManager   *)
(* and queues ssh_authorize for the public key. Once the device answered   *)
(* OK the browser is given a token and joins a TerminalChannel, which      *)
(* starts ssh with the private key. Whoever ends the session drops the     *)
(* private key and then queues ssh_revoke. The client executes what a      *)
(* heartbeat brings and keeps the public keys in memory.                   *)
(***************************************************************************)
EXTENDS Naturals

CONSTANTS
  Sessions,   \* terminal session references ever made
  NoSession,
  Channels,   \* joins of terminal:<device_id> ever made
  MaxChecks,  \* checks before terminal_authorization_timeout_ms (15 s, every 100 ms)
  MaxFaults   \* bound on lost messages, failed steps and restarts

ASSUME SessionAssumption == NoSession \notin Sessions
ASSUME TerminalBounds == MaxChecks \in Nat /\ MaxFaults \in Nat

VARIABLES
  view,    \* assigns of the page: ssh_token, ssh_authorize_command_id,
           \* terminal_socket_token, the deadline; and what it is doing
  checks,  \* sessions with a :terminal_authorization_check timer or message
  offered, \* sessions the browser was given a socket token for
  keys,    \* sessions whose private key the SshKeyManager has
  auth,    \* the ssh_authorize command of a session
  rev,     \* its ssh_revoke command
  unqueued, \* history: sessions whose ssh_revoke could not be queued once
  chan,    \* the terminal channels
  store,   \* the device's sshauth.Store
  batch,   \* commands of the last heartbeat still to execute
  results, \* results of the ones executed
  posts,   \* results that arrived at the server
  orphans, \* history: sessions a server restart interrupted
  faults   \* faults so far

queue == <<auth, rev, unqueued>>
client == <<store, batch, results>>
pageVars == <<view, checks, offered>>
vars == <<view, checks, offered, keys, auth, rev, unqueued, chan, store, batch, results, posts, orphans,
          faults>>

Some == Sessions \cup {NoSession}

\* step "authorize": the key pair of `on` exists and its command is not queued;
\* "clear", "revoke": the two steps that end session `on`.
Views == [session : Some, watched : Some, token : BOOLEAN, left : 0..MaxChecks,
          step : {"idle", "authorize", "clear", "revoke"}, on : Some]
NewView == [session |-> NoSession, watched |-> NoSession, token |-> FALSE, left |-> 0,
            step |-> "idle", on |-> NoSession]

\* joining: the private key is fetched; confirmed: the command is checked;
\* started: ssh runs; open: the private key is dropped.
Joins == [session : Some,
          step : {"none", "joining", "confirmed", "started", "open", "clear", "revoke", "ended"}]

Commands == {"authorize", "revoke"} \X Sessions
Results == Commands \X BOOLEAN
Pending == {"queued", "delivered"}
Statuses == Pending \cup {"none", "ok", "failed"}

TypeOK ==
  /\ view \in Views
  /\ checks \in SUBSET Sessions /\ offered \in SUBSET Sessions
  /\ keys \in SUBSET Sessions
  /\ auth \in [Sessions -> Statuses] /\ rev \in [Sessions -> Statuses]
  /\ unqueued \in SUBSET Sessions
  /\ chan \in [Channels -> Joins]
  /\ store \in SUBSET Sessions
  /\ batch \in SUBSET Commands /\ results \in SUBSET Results /\ posts \in SUBSET Results
  /\ orphans \in SUBSET Sessions
  /\ faults \in 0..MaxFaults

Init ==
  /\ view = NewView
  /\ checks = {} /\ offered = {} /\ keys = {}
  /\ auth = [s \in Sessions |-> "none"] /\ rev = [s \in Sessions |-> "none"]
  /\ unqueued = {}
  /\ chan = [c \in Channels |-> [session |-> NoSession, step |-> "none"]]
  /\ store = {} /\ batch = {} /\ results = {} /\ posts = {}
  /\ orphans = {}
  /\ faults = 0

Fault == faults < MaxFaults /\ faults' = faults + 1

\* A session reference is a fresh UUID.
Fresh(s) ==
  /\ auth[s] = "none" /\ rev[s] = "none" /\ s \notin keys \cup orphans \cup unqueued
  /\ view.on # s

\* Which name a new session or join gets makes no difference.
NewSession == CHOOSE s \in Sessions : Fresh(s)
NewJoin == CHOOSE c \in Channels : chan[c].step = "none"

\* The unique index lets a device have one ssh_revoke for a session, ever.
Revoked(s) == IF rev[s] = "none" THEN [rev EXCEPT ![s] = "queued"] ELSE rev

\* queue_terminal_revoke is best effort: when the device cannot be read or the
\* command not be inserted, that is logged, and the caller goes on as if it were.
QueueTerminalRevoke(s) ==
  \/ rev' = Revoked(s) /\ UNCHANGED <<unqueued, faults>>
  \/ Fault /\ unqueued' = unqueued \cup {s} /\ UNCHANGED rev

-----------------------------------------------------------------------------
(* The device page *)

\* The template shows the browser the session and, once there is one, the token.
Render == offered' = IF view'.token THEN offered \cup {view'.session} ELSE offered

\* Opening the terminal tab when no session is shown; the event start_ssh_session
\* clears the one that is shown first, which is Close and what follows it.
StartSession(s) ==
  /\ view.step = "idle" /\ view.session = NoSession
  /\ Fresh(s) /\ s = NewSession
  /\ keys' = keys \cup {s}
  /\ view' = [view EXCEPT !.step = "authorize", !.on = s]
  /\ UNCHANGED <<checks, offered, queue, chan, client, posts, orphans, faults>>

QueueAuthorize ==
  /\ view.step = "authorize"
  /\ auth' = [auth EXCEPT ![view.on] = "queued"]
  /\ checks' = checks \cup {view.on}
  /\ view' = [session |-> view.on, watched |-> view.on, token |-> FALSE, left |-> MaxChecks,
              step |-> "idle", on |-> NoSession]
  /\ Render
  /\ UNCHANGED <<keys, rev, unqueued, chan, client, posts, orphans, faults>>

QueueFails ==
  /\ view.step = "authorize"
  /\ Fault
  /\ view' = [view EXCEPT !.step = "clear"]
  /\ UNCHANGED <<checks, offered, keys, queue, chan, client, posts, orphans>>

\* The operator closes remote access, retries or leaves the page, the lease runs
\* out, the device goes offline, or the browser reports that the terminal closed.
Close ==
  /\ view.step = "idle" /\ view.session # NoSession
  /\ view' = [view EXCEPT !.step = "clear", !.on = view.session]
  /\ UNCHANGED <<checks, offered, keys, queue, chan, client, posts, orphans, faults>>

ClearKey ==
  /\ view.step = "clear"
  /\ keys' = keys \ {view.on}
  /\ view' = [view EXCEPT !.step = "revoke"]
  /\ UNCHANGED <<checks, offered, queue, chan, client, posts, orphans, faults>>

\* A cancelled timer may have fired already.
QueueRevoke ==
  /\ view.step = "revoke"
  /\ QueueTerminalRevoke(view.on)
  /\ checks' \in {checks, checks \ {view.on}}
  /\ view' = NewView
  /\ UNCHANGED <<offered, keys, auth, chan, client, posts, orphans>>

\* A message of an earlier session finds another command id.
CheckIgnored(s) ==
  /\ view.step = "idle" /\ s \in checks /\ view.watched # s
  /\ checks' = checks \ {s}
  /\ UNCHANGED <<view, offered, keys, queue, chan, client, posts, orphans, faults>>

Check(s) == view.step = "idle" /\ s \in checks /\ view.watched = s

Activate(s) ==
  /\ Check(s) /\ auth[s] = "ok"
  /\ checks' = checks \ {s}
  /\ view' = [view EXCEPT !.token = TRUE, !.left = 0]
  /\ Render
  /\ UNCHANGED <<keys, queue, chan, client, posts, orphans, faults>>

\* Fault for comparison: no next check.
CheckOnce(s) ==
  /\ Check(s) /\ auth[s] \in Pending /\ view.left > 0
  /\ checks' = checks \ {s}
  /\ view' = [view EXCEPT !.left = @ - 1]
  /\ UNCHANGED <<offered, keys, queue, chan, client, posts, orphans, faults>>

CheckAgain(s) ==
  /\ Check(s) /\ auth[s] \in Pending /\ view.left > 0
  /\ view' = [view EXCEPT !.left = @ - 1]
  /\ UNCHANGED <<checks, offered, keys, queue, chan, client, posts, orphans, faults>>

\* A fault for comparison: the page forgets the session it gives up.
ForgetSession(s) ==
  /\ Check(s)
  /\ \/ auth[s] = "failed"
     \/ auth[s] \in Pending /\ view.left = 0
  /\ checks' = checks \ {s}
  /\ view' = NewView
  /\ UNCHANGED <<offered, keys, queue, chan, client, posts, orphans, faults>>

FailAuthorization(s) ==
  /\ Check(s)
  /\ \/ auth[s] = "failed"
     \/ auth[s] \in Pending /\ view.left = 0
  /\ checks' = checks \ {s}
  /\ view' = [view EXCEPT !.step = "clear", !.on = view.session]
  /\ UNCHANGED <<offered, keys, queue, chan, client, posts, orphans, faults>>

\* terminal_authorized: the browser's join succeeded.
Authorized(c) ==
  /\ view.step = "idle" /\ view.token
  /\ chan[c].step = "open" /\ view.watched = chan[c].session
  /\ view' = [view EXCEPT !.watched = NoSession]
  /\ UNCHANGED <<checks, offered, keys, queue, chan, client, posts, orphans, faults>>

\* The key manager's timer, an hour after the session was made.
KeyExpires(s) ==
  /\ s \in keys
  /\ keys' = keys \ {s}
  /\ UNCHANGED <<pageVars, queue, chan, client, posts, orphans, faults>>

-----------------------------------------------------------------------------
(* The terminal channel *)

Move(c, from, to) == chan[c].step = from /\ chan' = [chan EXCEPT ![c].step = to]

\* The browser has a socket token, which any session of the device gave it, and the
\* reference of a session that was rendered, whose private key must still be there.
\* It may join long after the page has moved on, and twice.
Join(c, s) ==
  /\ chan[c].step = "none" /\ c = NewJoin
  /\ offered # {} /\ auth[s] # "none" /\ s \in keys
  /\ chan' = [chan EXCEPT ![c] = [session |-> s, step |-> "joining"]]
  /\ UNCHANGED <<pageVars, keys, queue, client, posts, orphans, faults>>

\* A fault for comparison: the command need not be the one for this session.
ConfirmAny(c) ==
  /\ Move(c, "joining", "confirmed")
  /\ \E s \in Sessions : auth[s] = "ok"
  /\ UNCHANGED <<pageVars, keys, queue, client, posts, orphans, faults>>

\* The channel waits until the command, which must name its session, is acknowledged.
Confirm(c) ==
  /\ Move(c, "joining", "confirmed")
  /\ auth[chan[c].session] = "ok"
  /\ UNCHANGED <<pageVars, keys, queue, client, posts, orphans, faults>>

StartSsh(c) ==
  /\ Move(c, "confirmed", "started")
  /\ UNCHANGED <<pageVars, keys, queue, client, posts, orphans, faults>>

DropUsedKey(c) ==
  /\ Move(c, "started", "open")
  /\ keys' = keys \ {chan[c].session}
  /\ UNCHANGED <<pageVars, queue, client, posts, orphans, faults>>

\* The command is another session's, failed or not acknowledged in time, the host
\* key is not trusted, ssh does not start.
JoinFails(c) ==
  /\ Move(c, "joining", "clear") \/ Move(c, "confirmed", "clear")
  /\ UNCHANGED <<pageVars, keys, queue, client, posts, orphans, faults>>

\* ssh exits, the terminal was idle or open for too long, the browser left.
Terminate(c) ==
  /\ Move(c, "open", "clear")
  /\ UNCHANGED <<pageVars, keys, queue, client, posts, orphans, faults>>

ChannelClearsKey(c) ==
  /\ Move(c, "clear", "revoke")
  /\ keys' = keys \ {chan[c].session}
  /\ UNCHANGED <<pageVars, queue, client, posts, orphans, faults>>

ChannelRevokes(c) ==
  /\ Move(c, "revoke", "ended")
  /\ QueueTerminalRevoke(chan[c].session)
  /\ UNCHANGED <<pageVars, keys, auth, client, posts, orphans>>

-----------------------------------------------------------------------------
(* The device *)

Queued == {<<"authorize", s>> : s \in {t \in Sessions : auth[t] = "queued"}}
          \cup {<<"revoke", s>> : s \in {t \in Sessions : rev[t] = "queued"}}
Claim(status) == [s \in Sessions |-> IF status[s] = "queued" THEN "delivered" ELSE status[s]]

\* The rows come back in no particular order; a lost response takes them along.
Heartbeat ==
  /\ batch = {} /\ results = {} /\ Queued # {}
  /\ auth' = Claim(auth) /\ rev' = Claim(rev)
  /\ \/ batch' = Queued /\ UNCHANGED faults
     \/ Fault /\ UNCHANGED batch
  /\ UNCHANGED <<pageVars, keys, unqueued, chan, store, results, posts, orphans>>

Execute(cmd) ==
  /\ cmd \in batch
  /\ batch' = batch \ {cmd}
  /\ \/ /\ store' = IF cmd[1] = "authorize" THEN store \cup {cmd[2]} ELSE store \ {cmd[2]}
        /\ results' = results \cup {<<cmd, TRUE>>}
        /\ UNCHANGED faults
     \/ /\ Fault
        /\ results' = results \cup {<<cmd, FALSE>>}
        /\ UNCHANGED store
  /\ UNCHANGED <<pageVars, keys, queue, chan, posts, orphans>>

\* The results are sent once; an error is only logged.
SendResults ==
  /\ batch = {} /\ results # {}
  /\ results' = {}
  /\ \/ posts' = posts \cup results /\ UNCHANGED faults
     \/ Fault /\ UNCHANGED posts
  /\ UNCHANGED <<pageVars, keys, queue, chan, store, batch, orphans>>

Acknowledge(r) ==
  /\ r \in posts
  /\ posts' = posts \ {r}
  /\ LET s == r[1][2]
         status == IF r[2] THEN "ok" ELSE "failed"
     IN IF r[1][1] = "authorize"
        THEN auth' = [auth EXCEPT ![s] = status] /\ UNCHANGED rev
        ELSE rev' = [rev EXCEPT ![s] = status] /\ UNCHANGED auth
  /\ UNCHANGED <<pageVars, keys, unqueued, chan, client, orphans, faults>>

\* The time limit of the authorization.
EntryExpires(s) ==
  /\ s \in store
  /\ store' = store \ {s}
  /\ UNCHANGED <<pageVars, keys, queue, chan, batch, results, posts, orphans, faults>>

ClientRestarts ==
  /\ Fault
  /\ store' = {} /\ batch' = {} /\ results' = {}
  /\ UNCHANGED <<pageVars, keys, queue, chan, posts, orphans>>

\* Pages, channels and private keys are gone; the commands stay.
ServerRestarts ==
  /\ Fault
  /\ view' = NewView /\ checks' = {} /\ keys' = {} /\ posts' = {}
  /\ chan' = [c \in Channels |->
                IF chan[c].step = "none" THEN chan[c] ELSE [chan[c] EXCEPT !.step = "ended"]]
  /\ orphans' = {s \in Sessions : ~Fresh(s)}
  /\ UNCHANGED <<offered, queue, client>>

-----------------------------------------------------------------------------
PageStep == QueueAuthorize \/ ClearKey \/ QueueRevoke
CheckStep(s) == CheckIgnored(s) \/ Activate(s) \/ CheckAgain(s) \/ FailAuthorization(s)
ChannelStep(c) ==
  \/ \E s \in Sessions : Join(c, s)
  \/ Confirm(c) \/ StartSsh(c) \/ DropUsedKey(c) \/ JoinFails(c) \/ Terminate(c)
  \/ ChannelClearsKey(c) \/ ChannelRevokes(c) \/ Authorized(c)
DeviceStep ==
  \/ Heartbeat \/ SendResults \/ ClientRestarts
  \/ \E cmd \in Commands : Execute(cmd)
  \/ \E r \in Results : Acknowledge(r)
  \/ \E s \in Sessions : EntryExpires(s)

Next ==
  \/ PageStep \/ QueueFails \/ Close \/ ServerRestarts
  \/ \E s \in Sessions : StartSession(s) \/ CheckStep(s) \/ KeyExpires(s)
  \/ \E c \in Channels : ChannelStep(c)
  \/ DeviceStep

Spec == Init /\ [][Next]_vars

\* A process goes on with what it is doing, timers fire and messages are read.
FairSpec ==
  /\ Spec
  /\ WF_vars(PageStep)
  /\ \A s \in Sessions : WF_vars(CheckStep(s))
  /\ \A c \in Channels : WF_vars(ChannelClearsKey(c)) /\ WF_vars(ChannelRevokes(c))

-----------------------------------------------------------------------------
(* Properties *)

\* "The browser gets no terminal socket token until the command's result is OK"
\* (contracts.md:102), and no channel runs ssh before that for the session it
\* joined: not for one whose command is pending, which the token of an earlier
\* session lets the browser join, and not for "an arbitrary command ID".
TerminalNeedsAck ==
  /\ \A s \in offered : auth[s] = "ok"
  /\ \A c \in Channels : chan[c].step \in {"started", "open"} => auth[chan[c].session] = "ok"

Working(s) ==
  \/ s \in {view.session, view.on}
  \/ \E c \in Channels : chan[c].session = s /\ chan[c].step \notin {"none", "ended"}

\* "Every post-creation failure clears server private-key material and issues an
\* idempotent best-effort device revoke", "even if the revoke cannot be queued":
\* once nobody works on a session any more its private key is gone, whatever failed,
\* and its revoke is queued, or somebody tried and it could not be. A server restart
\* in between is excepted.
EndedIsRevoked ==
  \A s \in Sessions \ orphans : ~Fresh(s) /\ ~Working(s) =>
    s \notin keys /\ (rev[s] # "none" \/ s \in unqueued)

\* "If authorization fails or takes too long, the server drops the session": a
\* page never waits for the device for ever.
WaitEnds ==
  (view.watched # NoSession /\ ~view.token) ~> (view.watched = NoSession \/ view.token)

\* "A client restart, the time limit, or a revoke all remove it"
\* (website/docs/reference/contracts.md:99): the device does not have the key of
\* a session whose revoke it has acknowledged.
RevokedIsGone == \A s \in Sessions : rev[s] = "ok" => s \notin store
=============================================================================
