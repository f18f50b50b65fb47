----------------------- MODULE TerminalSessionProofs -----------------------
(***************************************************************************)
(* Browser terminals, for any number of sessions and joins: no terminal    *)
(* without the device's consent, and no ended session that keeps its key.   *)
(***************************************************************************)
EXTENDS TerminalSession, TLAPS

-----------------------------------------------------------------------------
(* The inductive invariant *)

\* What the page is doing agrees with what it shows.
PageAgrees ==
  /\ view.step = "idle" <=> view.on = NoSession
  /\ view.step = "authorize" =>
       view.session = NoSession /\ auth[view.on] = "none" /\ rev[view.on] = "none"
  /\ view.session \in {view.on, NoSession} \/ view.step = "idle"
  /\ view.step = "revoke" => view.on \notin keys
  /\ view.watched \in {view.session, NoSession}
  /\ view.session # NoSession => auth[view.session] # "none"
  /\ view.token => view.session # NoSession /\ auth[view.session] = "ok"

OfferedIsAcked == \A s \in offered : auth[s] = "ok"

\* A channel works on a session whose command was queued, opens it only once that
\* is acknowledged, and revokes it last.
ChannelAgrees ==
  \A c \in Channels : chan[c].step # "none" =>
    /\ chan[c].session \in Sessions /\ auth[chan[c].session] # "none"
    /\ chan[c].step \in {"confirmed", "started", "open"} => auth[chan[c].session] = "ok"
    /\ chan[c].step = "revoke" => chan[c].session \notin keys

Status(cmd) == IF cmd[1] = "authorize" THEN auth[cmd[2]] ELSE rev[cmd[2]]

\* A command is in one place on its way through the client and back.
OneAnswer ==
  /\ \A cmd \in batch : Status(cmd) = "delivered"
  /\ \A r \in results \cup posts : Status(r[1]) = "delivered" /\ r[1] \notin batch
  /\ \A q, r \in results \cup posts : q[1] = r[1] => q = r
  /\ results \cap posts = {}

IInv ==
  /\ TypeOK
  /\ PageAgrees /\ OfferedIsAcked /\ ChannelAgrees /\ OneAnswer
  /\ EndedIsRevoked

USE SessionAssumption, TerminalBounds

-----------------------------------------------------------------------------
(* Facts used in several places *)

\* Everything on its way through the client is a command or the result of one.
LEMMA PlacesTyped ==
  ASSUME IInv
  PROVE  batch \subseteq Commands /\ \A r \in results \cup posts : r[1] \in Commands
BY DEF IInv, TypeOK, Results

\* A revoke that was queued before stays as it is.
LEMMA RevokeKeepsDelivered ==
  ASSUME IInv, NEW s \in Sessions, QueueTerminalRevoke(s)
  PROVE  \A t \in Sessions : rev[t] = "delivered" => rev'[t] = "delivered"
BY DEF QueueTerminalRevoke, Revoked, IInv, TypeOK

-----------------------------------------------------------------------------
(* Each action keeps the invariant: first the page *)

LEMMA QueueAuthorizeInv ==
  ASSUME IInv, QueueAuthorize
  PROVE  IInv'
<1>1. TypeOK'
  BY DEF QueueAuthorize, Render, client, IInv, TypeOK, Some, Views, Joins,
         Statuses, Pending, PageAgrees, OfferedIsAcked
<1>2. PageAgrees'
  BY DEF QueueAuthorize, Render, client, IInv, PageAgrees, TypeOK, Some,
         Views, Joins, Statuses, Pending
<1>3. OfferedIsAcked'
  BY DEF QueueAuthorize, Render, client, IInv, OfferedIsAcked, PageAgrees
<1>4. ChannelAgrees'
  <2>1. \A s \in Sessions : auth[s] # "none" => auth'[s] = auth[s]
    BY DEF QueueAuthorize, IInv, TypeOK, PageAgrees
  <2> QED
    BY <2>1 DEF QueueAuthorize, IInv, ChannelAgrees
<1>5. OneAnswer'
  BY DEF QueueAuthorize, Render, client, IInv, OneAnswer, Status, PageAgrees,
         OfferedIsAcked
<1>6. EndedIsRevoked'
  BY DEF QueueAuthorize, Render, client, IInv, EndedIsRevoked, Working,
         Fresh, PageAgrees, OfferedIsAcked
<1> QED
  BY <1>1, <1>2, <1>3, <1>4, <1>5, <1>6 DEF IInv

LEMMA QueueFailsInv ==
  ASSUME IInv, QueueFails
  PROVE  IInv'
<1>1. TypeOK'
  BY DEF QueueFails, Fault, queue, client, IInv, TypeOK, Some, Views, Joins,
         Statuses, Pending
<1>2. PageAgrees'
  BY DEF QueueFails, Fault, queue, client, IInv, PageAgrees
<1>3. OfferedIsAcked'
  BY DEF QueueFails, Fault, queue, client, IInv, OfferedIsAcked
<1>4. ChannelAgrees'
  BY DEF QueueFails, Fault, queue, client, IInv, ChannelAgrees
<1>5. OneAnswer'
  BY DEF QueueFails, Fault, queue, client, IInv, OneAnswer, Status
<1>6. EndedIsRevoked'
  BY DEF QueueFails, Fault, queue, client, IInv, EndedIsRevoked, Working,
         Fresh
<1> QED
  BY <1>1, <1>2, <1>3, <1>4, <1>5, <1>6 DEF IInv

LEMMA CloseInv ==
  ASSUME IInv, Close
  PROVE  IInv'
<1>1. TypeOK'
  BY DEF Close, queue, client, IInv, TypeOK, Some, Views, Joins, Statuses,
         Pending
<1>2. PageAgrees'
  BY DEF Close, queue, client, IInv, PageAgrees
<1>3. OfferedIsAcked'
  BY DEF Close, queue, client, IInv, OfferedIsAcked
<1>4. ChannelAgrees'
  BY DEF Close, queue, client, IInv, ChannelAgrees
<1>5. OneAnswer'
  BY DEF Close, queue, client, IInv, OneAnswer, Status
<1>6. EndedIsRevoked'
  BY DEF Close, queue, client, IInv, EndedIsRevoked, Working, Fresh,
         PageAgrees, OfferedIsAcked
<1> QED
  BY <1>1, <1>2, <1>3, <1>4, <1>5, <1>6 DEF IInv

LEMMA ClearKeyInv ==
  ASSUME IInv, ClearKey
  PROVE  IInv'
<1>1. TypeOK'
  BY DEF ClearKey, queue, client, IInv, TypeOK, Some, Views, Joins, Statuses,
         Pending
<1>2. PageAgrees'
  BY DEF ClearKey, queue, client, IInv, PageAgrees
<1>3. OfferedIsAcked'
  BY DEF ClearKey, queue, client, IInv, OfferedIsAcked
<1>4. ChannelAgrees'
  BY DEF ClearKey, queue, client, IInv, ChannelAgrees
<1>5. OneAnswer'
  BY DEF ClearKey, queue, client, IInv, OneAnswer, Status
<1>6. EndedIsRevoked'
  BY DEF ClearKey, queue, client, IInv, EndedIsRevoked, Working, Fresh
<1> QED
  BY <1>1, <1>2, <1>3, <1>4, <1>5, <1>6 DEF IInv

LEMMA QueueRevokeInv ==
  ASSUME IInv, QueueRevoke
  PROVE  IInv'
<1>1. TypeOK'
  BY DEF QueueRevoke, QueueTerminalRevoke, Fault, Revoked, NewView, client, IInv, TypeOK, Some, Views,
         Joins, Statuses, Pending, PageAgrees, OfferedIsAcked
<1>2. PageAgrees'
  BY DEF QueueRevoke, QueueTerminalRevoke, Fault, Revoked, NewView, client, IInv, PageAgrees
<1>3. OfferedIsAcked'
  BY DEF QueueRevoke, QueueTerminalRevoke, Fault, Revoked, NewView, client, IInv, OfferedIsAcked
<1>4. ChannelAgrees'
  BY DEF QueueRevoke, QueueTerminalRevoke, Fault, Revoked, NewView, client, IInv, ChannelAgrees
<1>5. OneAnswer'
  <2>1. view.on \in Sessions
    BY DEF QueueRevoke, IInv, TypeOK, PageAgrees, Views, Some
  <2>2. \A cmd : Status(cmd) = "delivered" /\ cmd \in Commands => Status(cmd)' = "delivered"
    BY <2>1, RevokeKeepsDelivered DEF QueueRevoke, Status, Commands, IInv
  <2> QED
    BY <2>2, PlacesTyped DEF QueueRevoke, client, IInv, OneAnswer
<1>6. EndedIsRevoked'
  BY DEF QueueRevoke, QueueTerminalRevoke, Fault, Revoked, NewView, client, IInv, EndedIsRevoked,
         Working, Fresh, TypeOK, Some, Views, Joins, Statuses, Pending,
         PageAgrees
<1> QED
  BY <1>1, <1>2, <1>3, <1>4, <1>5, <1>6 DEF IInv

LEMMA StartSessionInv ==
  ASSUME IInv, NEW s \in Sessions, StartSession(s)
  PROVE  IInv'
<1>1. TypeOK'
  BY DEF StartSession, Fresh, queue, client, IInv, TypeOK, Some, Views,
         Joins, Statuses, Pending
<1>2. PageAgrees'
  BY DEF StartSession, Fresh, queue, client, IInv, PageAgrees
<1>3. OfferedIsAcked'
  BY DEF StartSession, Fresh, queue, client, IInv, OfferedIsAcked
<1>4. ChannelAgrees'
  BY DEF StartSession, Fresh, queue, client, IInv, ChannelAgrees, PageAgrees,
         OfferedIsAcked
<1>5. OneAnswer'
  BY DEF StartSession, Fresh, queue, client, IInv, OneAnswer, Status
<1>6. EndedIsRevoked'
  BY DEF StartSession, Fresh, queue, client, IInv, EndedIsRevoked, Working,
         PageAgrees, OfferedIsAcked
<1> QED
  BY <1>1, <1>2, <1>3, <1>4, <1>5, <1>6 DEF IInv

LEMMA CheckIgnoredInv ==
  ASSUME IInv, NEW s \in Sessions, CheckIgnored(s)
  PROVE  IInv'
<1>1. TypeOK'
  BY DEF CheckIgnored, queue, client, IInv, TypeOK, Some, Views, Joins,
         Statuses, Pending
<1>2. PageAgrees'
  BY DEF CheckIgnored, queue, client, IInv, PageAgrees
<1>3. OfferedIsAcked'
  BY DEF CheckIgnored, queue, client, IInv, OfferedIsAcked
<1>4. ChannelAgrees'
  BY DEF CheckIgnored, queue, client, IInv, ChannelAgrees
<1>5. OneAnswer'
  BY DEF CheckIgnored, queue, client, IInv, OneAnswer, Status
<1>6. EndedIsRevoked'
  BY DEF CheckIgnored, queue, client, IInv, EndedIsRevoked, Working, Fresh
<1> QED
  BY <1>1, <1>2, <1>3, <1>4, <1>5, <1>6 DEF IInv

LEMMA ActivateInv ==
  ASSUME IInv, NEW s \in Sessions, Activate(s)
  PROVE  IInv'
<1>1. TypeOK'
  <2>1. view' = [session |-> view.session, watched |-> view.watched, token |-> TRUE,
                 left |-> 0, step |-> view.step, on |-> view.on]
    BY DEF Activate, IInv, TypeOK, Views
  <2>2. view' \in Views
    BY <2>1 DEF IInv, TypeOK, Views
  <2>3. offered' \in SUBSET Sessions
    BY <2>1, view.session # NoSession DEF Activate, Check, Render, IInv, TypeOK, PageAgrees, Views, Some
  <2> QED
    BY <2>2, <2>3 DEF Activate, Check, IInv, TypeOK, queue, client
<1>2. PageAgrees'
  BY DEF Activate, Check, Render, queue, client, IInv, PageAgrees
<1>3. OfferedIsAcked'
  BY DEF Activate, Check, Render, queue, client, IInv, OfferedIsAcked,
         PageAgrees
<1>4. ChannelAgrees'
  BY DEF Activate, Check, Render, queue, client, IInv, ChannelAgrees
<1>5. OneAnswer'
  BY DEF Activate, Check, Render, queue, client, IInv, OneAnswer, Status
<1>6. EndedIsRevoked'
  BY DEF Activate, Check, Render, queue, client, IInv, EndedIsRevoked,
         Working, Fresh
<1> QED
  BY <1>1, <1>2, <1>3, <1>4, <1>5, <1>6 DEF IInv

LEMMA CheckAgainInv ==
  ASSUME IInv, NEW s \in Sessions, CheckAgain(s)
  PROVE  IInv'
<1>1. TypeOK'
  BY DEF CheckAgain, Check, queue, client, IInv, TypeOK, Some, Views, Joins,
         Statuses, Pending
<1>2. PageAgrees'
  BY DEF CheckAgain, Check, queue, client, IInv, PageAgrees
<1>3. OfferedIsAcked'
  BY DEF CheckAgain, Check, queue, client, IInv, OfferedIsAcked
<1>4. ChannelAgrees'
  BY DEF CheckAgain, Check, queue, client, IInv, ChannelAgrees
<1>5. OneAnswer'
  BY DEF CheckAgain, Check, queue, client, IInv, OneAnswer, Status
<1>6. EndedIsRevoked'
  BY DEF CheckAgain, Check, queue, client, IInv, EndedIsRevoked, Working,
         Fresh
<1> QED
  BY <1>1, <1>2, <1>3, <1>4, <1>5, <1>6 DEF IInv

LEMMA FailAuthorizationInv ==
  ASSUME IInv, NEW s \in Sessions, FailAuthorization(s)
  PROVE  IInv'
<1>1. TypeOK'
  BY DEF FailAuthorization, Check, queue, client, IInv, TypeOK, Some, Views,
         Joins, Statuses, Pending
<1>2. PageAgrees'
  BY DEF FailAuthorization, Check, queue, client, IInv, PageAgrees
<1>3. OfferedIsAcked'
  BY DEF FailAuthorization, Check, queue, client, IInv, OfferedIsAcked
<1>4. ChannelAgrees'
  BY DEF FailAuthorization, Check, queue, client, IInv, ChannelAgrees
<1>5. OneAnswer'
  BY DEF FailAuthorization, Check, queue, client, IInv, OneAnswer, Status
<1>6. EndedIsRevoked'
  BY DEF FailAuthorization, Check, queue, client, IInv, EndedIsRevoked,
         Working, Fresh, PageAgrees, OfferedIsAcked
<1> QED
  BY <1>1, <1>2, <1>3, <1>4, <1>5, <1>6 DEF IInv

LEMMA KeyExpiresInv ==
  ASSUME IInv, NEW s \in Sessions, KeyExpires(s)
  PROVE  IInv'
<1>1. TypeOK'
  BY DEF KeyExpires, pageVars, queue, client, IInv, TypeOK, Some, Views,
         Joins, Statuses, Pending
<1>2. PageAgrees'
  BY DEF KeyExpires, pageVars, queue, client, IInv, PageAgrees
<1>3. OfferedIsAcked'
  BY DEF KeyExpires, pageVars, queue, client, IInv, OfferedIsAcked
<1>4. ChannelAgrees'
  BY DEF KeyExpires, pageVars, queue, client, IInv, ChannelAgrees
<1>5. OneAnswer'
  BY DEF KeyExpires, pageVars, queue, client, IInv, OneAnswer, Status
<1>6. EndedIsRevoked'
  BY DEF KeyExpires, pageVars, queue, client, IInv, EndedIsRevoked, Working,
         Fresh
<1> QED
  BY <1>1, <1>2, <1>3, <1>4, <1>5, <1>6 DEF IInv

-----------------------------------------------------------------------------
(* The channel *)

LEMMA ConfirmInv ==
  ASSUME IInv, NEW c \in Channels, Confirm(c)
  PROVE  IInv'
<1>1. TypeOK'
  BY DEF Confirm, Move, pageVars, queue, client, IInv, TypeOK, Some, Views,
         Joins, Statuses, Pending
<1>2. PageAgrees'
  BY DEF Confirm, Move, pageVars, queue, client, IInv, PageAgrees
<1>3. OfferedIsAcked'
  BY DEF Confirm, Move, pageVars, queue, client, IInv, OfferedIsAcked
<1>4. ChannelAgrees'
  BY DEF Confirm, Move, pageVars, queue, client, IInv, ChannelAgrees
<1>5. OneAnswer'
  BY DEF Confirm, Move, pageVars, queue, client, IInv, OneAnswer, Status
<1>6. EndedIsRevoked'
  BY DEF Confirm, Move, pageVars, queue, client, IInv, EndedIsRevoked,
         Working, Fresh
<1> QED
  BY <1>1, <1>2, <1>3, <1>4, <1>5, <1>6 DEF IInv

LEMMA StartSshInv ==
  ASSUME IInv, NEW c \in Channels, StartSsh(c)
  PROVE  IInv'
<1>1. TypeOK'
  BY DEF StartSsh, Move, pageVars, queue, client, IInv, TypeOK, Some, Views,
         Joins, Statuses, Pending
<1>2. PageAgrees'
  BY DEF StartSsh, Move, pageVars, queue, client, IInv, PageAgrees
<1>3. OfferedIsAcked'
  BY DEF StartSsh, Move, pageVars, queue, client, IInv, OfferedIsAcked
<1>4. ChannelAgrees'
  BY DEF StartSsh, Move, pageVars, queue, client, IInv, ChannelAgrees
<1>5. OneAnswer'
  BY DEF StartSsh, Move, pageVars, queue, client, IInv, OneAnswer, Status
<1>6. EndedIsRevoked'
  BY DEF StartSsh, Move, pageVars, queue, client, IInv, EndedIsRevoked,
         Working, Fresh
<1> QED
  BY <1>1, <1>2, <1>3, <1>4, <1>5, <1>6 DEF IInv

LEMMA DropUsedKeyInv ==
  ASSUME IInv, NEW c \in Channels, DropUsedKey(c)
  PROVE  IInv'
<1>1. TypeOK'
  BY DEF DropUsedKey, Move, pageVars, queue, client, IInv, TypeOK, Some,
         Views, Joins, Statuses, Pending
<1>2. PageAgrees'
  BY DEF DropUsedKey, Move, pageVars, queue, client, IInv, PageAgrees
<1>3. OfferedIsAcked'
  BY DEF DropUsedKey, Move, pageVars, queue, client, IInv, OfferedIsAcked
<1>4. ChannelAgrees'
  BY DEF DropUsedKey, Move, pageVars, queue, client, IInv, ChannelAgrees
<1>5. OneAnswer'
  BY DEF DropUsedKey, Move, pageVars, queue, client, IInv, OneAnswer, Status
<1>6. EndedIsRevoked'
  BY DEF DropUsedKey, Move, pageVars, queue, client, IInv, EndedIsRevoked,
         Working, Fresh
<1> QED
  BY <1>1, <1>2, <1>3, <1>4, <1>5, <1>6 DEF IInv

LEMMA JoinFailsInv ==
  ASSUME IInv, NEW c \in Channels, JoinFails(c)
  PROVE  IInv'
<1>1. TypeOK'
  BY DEF JoinFails, Move, pageVars, queue, client, IInv, TypeOK, Some, Views,
         Joins, Statuses, Pending
<1>2. PageAgrees'
  BY DEF JoinFails, Move, pageVars, queue, client, IInv, PageAgrees
<1>3. OfferedIsAcked'
  BY DEF JoinFails, Move, pageVars, queue, client, IInv, OfferedIsAcked
<1>4. ChannelAgrees'
  BY DEF JoinFails, Move, pageVars, queue, client, IInv, ChannelAgrees,
         TypeOK, Some, Views, Joins, Statuses, Pending
<1>5. OneAnswer'
  BY DEF JoinFails, Move, pageVars, queue, client, IInv, OneAnswer, Status
<1>6. EndedIsRevoked'
  <2>1. \A s \in Sessions : Working(s) => Working(s)'
    BY DEF JoinFails, Move, pageVars, Working, IInv, TypeOK, Joins
  <2>2. \A s \in Sessions : Fresh(s)' <=> Fresh(s)
    BY DEF JoinFails, pageVars, queue, Fresh
  <2> QED
    BY <2>1, <2>2 DEF JoinFails, queue, IInv, EndedIsRevoked
<1> QED
  BY <1>1, <1>2, <1>3, <1>4, <1>5, <1>6 DEF IInv

LEMMA TerminateInv ==
  ASSUME IInv, NEW c \in Channels, Terminate(c)
  PROVE  IInv'
<1>1. TypeOK'
  BY DEF Terminate, Move, pageVars, queue, client, IInv, TypeOK, Some, Views,
         Joins, Statuses, Pending
<1>2. PageAgrees'
  BY DEF Terminate, Move, pageVars, queue, client, IInv, PageAgrees
<1>3. OfferedIsAcked'
  BY DEF Terminate, Move, pageVars, queue, client, IInv, OfferedIsAcked
<1>4. ChannelAgrees'
  BY DEF Terminate, Move, pageVars, queue, client, IInv, ChannelAgrees
<1>5. OneAnswer'
  BY DEF Terminate, Move, pageVars, queue, client, IInv, OneAnswer, Status
<1>6. EndedIsRevoked'
  BY DEF Terminate, Move, pageVars, queue, client, IInv, EndedIsRevoked,
         Working, Fresh
<1> QED
  BY <1>1, <1>2, <1>3, <1>4, <1>5, <1>6 DEF IInv

LEMMA ChannelClearsKeyInv ==
  ASSUME IInv, NEW c \in Channels, ChannelClearsKey(c)
  PROVE  IInv'
<1>1. TypeOK'
  BY DEF ChannelClearsKey, Move, pageVars, queue, client, IInv, TypeOK, Some,
         Views, Joins, Statuses, Pending
<1>2. PageAgrees'
  BY DEF ChannelClearsKey, Move, pageVars, queue, client, IInv, PageAgrees
<1>3. OfferedIsAcked'
  BY DEF ChannelClearsKey, Move, pageVars, queue, client, IInv, OfferedIsAcked
<1>4. ChannelAgrees'
  BY DEF ChannelClearsKey, Move, pageVars, queue, client, IInv, ChannelAgrees
<1>5. OneAnswer'
  BY DEF ChannelClearsKey, Move, pageVars, queue, client, IInv, OneAnswer,
         Status
<1>6. EndedIsRevoked'
  BY DEF ChannelClearsKey, Move, pageVars, queue, client, IInv,
         EndedIsRevoked, Working, Fresh
<1> QED
  BY <1>1, <1>2, <1>3, <1>4, <1>5, <1>6 DEF IInv

LEMMA ChannelRevokesInv ==
  ASSUME IInv, NEW c \in Channels, ChannelRevokes(c)
  PROVE  IInv'
<1>1. TypeOK'
  BY DEF ChannelRevokes, Move, QueueTerminalRevoke, Fault, Revoked, pageVars, client, IInv, TypeOK, Some,
         Views, Joins, Statuses, Pending, PageAgrees, OfferedIsAcked,
         ChannelAgrees
<1>2. PageAgrees'
  BY DEF ChannelRevokes, Move, QueueTerminalRevoke, Fault, Revoked, pageVars, client, IInv, PageAgrees,
         TypeOK, Some, Views, Joins, Statuses, Pending, OfferedIsAcked,
         ChannelAgrees
<1>3. OfferedIsAcked'
  BY DEF ChannelRevokes, Move, QueueTerminalRevoke, Fault, Revoked, pageVars, client, IInv, OfferedIsAcked
<1>4. ChannelAgrees'
  BY DEF ChannelRevokes, Move, QueueTerminalRevoke, Fault, Revoked, pageVars, client, IInv, ChannelAgrees
<1>5. OneAnswer'
  <2>1. chan[c].session \in Sessions
    BY DEF ChannelRevokes, Move, IInv, ChannelAgrees
  <2>2. \A cmd : Status(cmd) = "delivered" /\ cmd \in Commands => Status(cmd)' = "delivered"
    BY <2>1, RevokeKeepsDelivered DEF ChannelRevokes, Status, Commands, IInv
  <2> QED
    BY <2>2, PlacesTyped DEF ChannelRevokes, client, IInv, OneAnswer
<1>6. EndedIsRevoked'
  BY DEF ChannelRevokes, Move, QueueTerminalRevoke, Fault, Revoked, pageVars, client, IInv,
         EndedIsRevoked, Working, Fresh, TypeOK, Some, Views, Joins,
         Statuses, Pending, PageAgrees, OfferedIsAcked, ChannelAgrees
<1> QED
  BY <1>1, <1>2, <1>3, <1>4, <1>5, <1>6 DEF IInv

LEMMA AuthorizedInv ==
  ASSUME IInv, NEW c \in Channels, Authorized(c)
  PROVE  IInv'
<1>1. TypeOK'
  BY DEF Authorized, queue, client, IInv, TypeOK, Some, Views, Joins,
         Statuses, Pending
<1>2. PageAgrees'
  BY DEF Authorized, queue, client, IInv, PageAgrees
<1>3. OfferedIsAcked'
  BY DEF Authorized, queue, client, IInv, OfferedIsAcked
<1>4. ChannelAgrees'
  BY DEF Authorized, queue, client, IInv, ChannelAgrees
<1>5. OneAnswer'
  BY DEF Authorized, queue, client, IInv, OneAnswer, Status
<1>6. EndedIsRevoked'
  BY DEF Authorized, queue, client, IInv, EndedIsRevoked, Working, Fresh
<1> QED
  BY <1>1, <1>2, <1>3, <1>4, <1>5, <1>6 DEF IInv

-----------------------------------------------------------------------------
(* The device *)

LEMMA HeartbeatInv ==
  ASSUME IInv, Heartbeat
  PROVE  IInv'
<1>1. TypeOK'
  BY DEF Heartbeat, Queued, Claim, Fault, pageVars, IInv, TypeOK, Some,
         Views, Joins, Statuses, Pending, PageAgrees, OfferedIsAcked,
         ChannelAgrees, OneAnswer, Status, Commands, Results, Fresh, Working
<1>2. PageAgrees'
  BY DEF Heartbeat, Queued, Claim, Fault, pageVars, IInv, PageAgrees, TypeOK,
         Some, Views, Joins, Statuses, Pending
<1>3. OfferedIsAcked'
  BY DEF Heartbeat, Queued, Claim, Fault, pageVars, IInv, OfferedIsAcked,
         TypeOK, Some, Views, Joins, Statuses, Pending
<1>4. ChannelAgrees'
  BY DEF Heartbeat, Queued, Claim, Fault, pageVars, IInv, ChannelAgrees
<1>5. OneAnswer'
  BY DEF Heartbeat, Queued, Claim, Fault, pageVars, IInv, OneAnswer, Status,
         TypeOK, Some, Views, Joins, Statuses, Pending, PageAgrees,
         OfferedIsAcked, ChannelAgrees, Commands, Results, Fresh, Working
<1>6. EndedIsRevoked'
  BY DEF Heartbeat, Queued, Claim, Fault, pageVars, IInv, EndedIsRevoked,
         Working, Fresh
<1> QED
  BY <1>1, <1>2, <1>3, <1>4, <1>5, <1>6 DEF IInv

LEMMA SendResultsInv ==
  ASSUME IInv, SendResults
  PROVE  IInv'
<1>1. TypeOK'
  BY DEF SendResults, Fault, pageVars, queue, IInv, TypeOK, Some, Views,
         Joins, Statuses, Pending
<1>2. PageAgrees'
  BY DEF SendResults, Fault, pageVars, queue, IInv, PageAgrees
<1>3. OfferedIsAcked'
  BY DEF SendResults, Fault, pageVars, queue, IInv, OfferedIsAcked
<1>4. ChannelAgrees'
  BY DEF SendResults, Fault, pageVars, queue, IInv, ChannelAgrees
<1>5. OneAnswer'
  BY DEF SendResults, Fault, pageVars, queue, IInv, OneAnswer, Status
<1>6. EndedIsRevoked'
  BY DEF SendResults, Fault, pageVars, queue, IInv, EndedIsRevoked, Working,
         Fresh
<1> QED
  BY <1>1, <1>2, <1>3, <1>4, <1>5, <1>6 DEF IInv

LEMMA ClientRestartsInv ==
  ASSUME IInv, ClientRestarts
  PROVE  IInv'
<1>1. TypeOK'
  BY DEF ClientRestarts, Fault, pageVars, queue, IInv, TypeOK, Some, Views,
         Joins, Statuses, Pending
<1>2. PageAgrees'
  BY DEF ClientRestarts, Fault, pageVars, queue, IInv, PageAgrees
<1>3. OfferedIsAcked'
  BY DEF ClientRestarts, Fault, pageVars, queue, IInv, OfferedIsAcked
<1>4. ChannelAgrees'
  BY DEF ClientRestarts, Fault, pageVars, queue, IInv, ChannelAgrees
<1>5. OneAnswer'
  BY DEF ClientRestarts, Fault, pageVars, queue, IInv, OneAnswer, Status
<1>6. EndedIsRevoked'
  BY DEF ClientRestarts, Fault, pageVars, queue, IInv, EndedIsRevoked,
         Working, Fresh
<1> QED
  BY <1>1, <1>2, <1>3, <1>4, <1>5, <1>6 DEF IInv

LEMMA ServerRestartsInv ==
  ASSUME IInv, ServerRestarts
  PROVE  IInv'
<1>1. TypeOK'
  BY DEF ServerRestarts, Fault, NewView, Fresh, queue, client, IInv, TypeOK,
         Some, Views, Joins, Statuses, Pending
<1>2. PageAgrees'
  BY DEF ServerRestarts, Fault, NewView, Fresh, queue, client, IInv,
         PageAgrees
<1>3. OfferedIsAcked'
  BY DEF ServerRestarts, Fault, NewView, Fresh, queue, client, IInv,
         OfferedIsAcked
<1>4. ChannelAgrees'
  BY DEF ServerRestarts, Fault, NewView, Fresh, queue, client, IInv,
         ChannelAgrees
<1>5. OneAnswer'
  BY DEF ServerRestarts, Fault, NewView, Fresh, queue, client, IInv,
         OneAnswer, Status
<1>6. EndedIsRevoked'
  BY DEF ServerRestarts, Fault, NewView, Fresh, queue, client, IInv,
         EndedIsRevoked, Working
<1> QED
  BY <1>1, <1>2, <1>3, <1>4, <1>5, <1>6 DEF IInv

LEMMA ExecuteInv ==
  ASSUME IInv, NEW cmd \in Commands, Execute(cmd)
  PROVE  IInv'
<1>1. TypeOK'
  <2>1. \A ok \in BOOLEAN : <<cmd, ok>> \in Results
    BY DEF Results
  <2>2. results' \in SUBSET Results
    <3>1. results \in SUBSET Results
      BY DEF IInv, TypeOK
    <3>2. \E ok \in BOOLEAN : results' = results \cup {<<cmd, ok>>}
      BY DEF Execute
    <3> QED
      BY <2>1, <3>1, <3>2
  <2>3. store' \in SUBSET Sessions
    BY DEF Execute, IInv, TypeOK, Commands
  <2>4. faults' = faults \/ (faults < MaxFaults /\ faults' = faults + 1)
    BY DEF Execute, Fault
  <2>5. faults' \in 0..MaxFaults
    BY <2>4 DEF IInv, TypeOK
  <2>6. batch' \in SUBSET Commands
    <3>1. batch \in SUBSET Commands /\ batch' = batch \ {cmd}
      BY DEF Execute, IInv, TypeOK
    <3> QED
      BY <3>1
  <2> QED
    BY <2>2, <2>3, <2>5, <2>6 DEF Execute, IInv, TypeOK, pageVars, queue
<1>2. PageAgrees'
  BY DEF Execute, Fault, pageVars, queue, IInv, PageAgrees
<1>3. OfferedIsAcked'
  BY DEF Execute, Fault, pageVars, queue, IInv, OfferedIsAcked
<1>4. ChannelAgrees'
  BY DEF Execute, Fault, pageVars, queue, IInv, ChannelAgrees
<1>5. OneAnswer'
  <2>1. PICK ok \in BOOLEAN : results' = results \cup {<<cmd, ok>>}
    BY DEF Execute
  <2>2. /\ cmd \in batch /\ batch' = batch \ {cmd} /\ posts' = posts
        /\ Status(cmd) = "delivered"
        /\ \A x : Status(x)' = Status(x)
    BY DEF Execute, Status, queue, IInv, OneAnswer
  <2>3. \A r \in results \cup posts : r[1] # cmd
    BY <2>2 DEF IInv, OneAnswer
  <2>4. <<cmd, ok>>[1] = cmd
    OBVIOUS
  <2> QED
    BY <2>1, <2>2, <2>3, <2>4 DEF IInv, OneAnswer
<1>6. EndedIsRevoked'
  BY DEF Execute, Fault, pageVars, queue, IInv, EndedIsRevoked, Working, Fresh
<1> QED
  BY <1>1, <1>2, <1>3, <1>4, <1>5, <1>6 DEF IInv

LEMMA AcknowledgeInv ==
  ASSUME IInv, NEW r \in Results, Acknowledge(r)
  PROVE  IInv'
<1>1. TypeOK'
  BY DEF Acknowledge, pageVars, client, IInv, TypeOK, Some, Views, Joins,
         Statuses, Pending
<1>2. PageAgrees'
  BY DEF Acknowledge, pageVars, client, IInv, PageAgrees, TypeOK, Some,
         Views, Joins, Statuses, Pending, OfferedIsAcked, ChannelAgrees,
         OneAnswer, Status, Commands, Results, Fresh, Working
<1>3. OfferedIsAcked'
  BY DEF Acknowledge, pageVars, client, IInv, OfferedIsAcked, TypeOK, Some,
         Views, Joins, Statuses, Pending, PageAgrees, ChannelAgrees,
         OneAnswer, Status, Commands, Results, Fresh, Working
<1>4. ChannelAgrees'
  <2>1. r[1] \in Commands /\ Status(r[1]) = "delivered"
    BY PlacesTyped DEF Acknowledge, IInv, OneAnswer
  <2>2. \A s \in Sessions : /\ auth[s] # "none" => auth'[s] # "none"
                            /\ auth[s] = "ok" => auth'[s] = "ok"
    BY <2>1 DEF Acknowledge, Status, Commands, IInv, TypeOK
  <2> QED
    BY <2>2 DEF Acknowledge, pageVars, IInv, ChannelAgrees
<1>5. OneAnswer'
  BY DEF Acknowledge, pageVars, client, IInv, OneAnswer, Status, TypeOK,
         Some, Views, Joins, Statuses, Pending, PageAgrees, OfferedIsAcked,
         ChannelAgrees, Commands, Results, Fresh, Working
<1>6. EndedIsRevoked'
  BY DEF Acknowledge, pageVars, client, IInv, EndedIsRevoked, Working, Fresh,
         TypeOK, Some, Views, Joins, Statuses, Pending, PageAgrees,
         OfferedIsAcked, ChannelAgrees, OneAnswer, Status, Commands, Results
<1> QED
  BY <1>1, <1>2, <1>3, <1>4, <1>5, <1>6 DEF IInv

LEMMA EntryExpiresInv ==
  ASSUME IInv, NEW s \in Sessions, EntryExpires(s)
  PROVE  IInv'
<1>1. TypeOK'
  BY DEF EntryExpires, pageVars, queue, IInv, TypeOK, Some, Views, Joins,
         Statuses, Pending
<1>2. PageAgrees'
  BY DEF EntryExpires, pageVars, queue, IInv, PageAgrees
<1>3. OfferedIsAcked'
  BY DEF EntryExpires, pageVars, queue, IInv, OfferedIsAcked
<1>4. ChannelAgrees'
  BY DEF EntryExpires, pageVars, queue, IInv, ChannelAgrees
<1>5. OneAnswer'
  BY DEF EntryExpires, pageVars, queue, IInv, OneAnswer, Status
<1>6. EndedIsRevoked'
  BY DEF EntryExpires, pageVars, queue, IInv, EndedIsRevoked, Working, Fresh
<1> QED
  BY <1>1, <1>2, <1>3, <1>4, <1>5, <1>6 DEF IInv

LEMMA JoinInv ==
  ASSUME IInv, NEW c \in Channels, NEW s \in Sessions, Join(c, s)
  PROVE  IInv'
<1>1. TypeOK'
  BY DEF Join, pageVars, queue, client, IInv, TypeOK, Some, Views, Joins,
         Statuses, Pending
<1>2. PageAgrees'
  BY DEF Join, pageVars, queue, client, IInv, PageAgrees
<1>3. OfferedIsAcked'
  BY DEF Join, pageVars, queue, client, IInv, OfferedIsAcked
<1>4. ChannelAgrees'
  BY DEF Join, pageVars, queue, client, IInv, ChannelAgrees
<1>5. OneAnswer'
  BY DEF Join, pageVars, queue, client, IInv, OneAnswer, Status
<1>6. EndedIsRevoked'
  BY DEF Join, pageVars, queue, client, IInv, EndedIsRevoked, Working, Fresh
<1> QED
  BY <1>1, <1>2, <1>3, <1>4, <1>5, <1>6 DEF IInv

-----------------------------------------------------------------------------
(* Theorems *)

\* A page that was just opened, with no session and no command.
LEMMA InitIInv == Init => IInv
<1> SUFFICES ASSUME Init PROVE IInv
  OBVIOUS
<1>1. TypeOK
  BY DEF Init, TypeOK, NewView, Views, Joins, Some, Statuses
<1>2. PageAgrees /\ OfferedIsAcked /\ ChannelAgrees /\ OneAnswer
  BY DEF Init, NewView, PageAgrees, OfferedIsAcked, ChannelAgrees, OneAnswer
<1>3. EndedIsRevoked
  BY DEF Init, NewView, EndedIsRevoked, Fresh
<1> QED
  BY <1>1, <1>2, <1>3 DEF IInv

\* One case for each group of actions.
LEMMA Step == IInv /\ [Next]_vars => IInv'
<1> SUFFICES ASSUME IInv, [Next]_vars PROVE IInv'
  OBVIOUS
<1>1. CASE PageStep \/ QueueFails \/ Close \/ ServerRestarts
  BY <1>1, QueueAuthorizeInv, ClearKeyInv, QueueRevokeInv, QueueFailsInv, CloseInv,
     ServerRestartsInv DEF PageStep
<1>2. CASE \E s \in Sessions : StartSession(s) \/ CheckStep(s) \/ KeyExpires(s)
  BY <1>2, StartSessionInv, CheckIgnoredInv, ActivateInv, CheckAgainInv,
     FailAuthorizationInv, KeyExpiresInv DEF CheckStep
<1>3. CASE \E c \in Channels : ChannelStep(c)
  <2> PICK c \in Channels : ChannelStep(c)
    BY <1>3
  <2> QED
    BY JoinInv, ConfirmInv, StartSshInv, DropUsedKeyInv, JoinFailsInv, TerminateInv,
       ChannelClearsKeyInv, ChannelRevokesInv, AuthorizedInv DEF ChannelStep
<1>4. CASE DeviceStep
  BY <1>4, HeartbeatInv, SendResultsInv, ClientRestartsInv, ExecuteInv, AcknowledgeInv,
     EntryExpiresInv DEF DeviceStep
<1>5. CASE UNCHANGED vars
  <2>1. TypeOK' /\ PageAgrees' /\ OfferedIsAcked' /\ ChannelAgrees'
    BY <1>5 DEF vars, IInv, TypeOK, PageAgrees, OfferedIsAcked, ChannelAgrees
  <2>2. OneAnswer' /\ EndedIsRevoked'
    BY <1>5 DEF vars, IInv, OneAnswer, Status, EndedIsRevoked, Fresh, Working
  <2> QED
    BY <2>1, <2>2 DEF IInv
<1> QED
  BY <1>1, <1>2, <1>3, <1>4, <1>5 DEF Next

\* The invariant holds in every state the page, the channels and the device
\* reach together.
THEOREM Invariance == Spec => []IInv
BY InitIInv, Step, PTL DEF Spec

\* Every reachable state is well typed.
THEOREM TerminalTypeCorrect == Spec => []TypeOK
<1>1. IInv => TypeOK
  BY DEF IInv
<1> QED
  BY <1>1, Invariance, PTL

\* No browser is given a token, and no channel runs ssh, before the device has
\* answered OK to the ssh_authorize of that very session, although a browser may
\* join a pending session with the token it got for an earlier one.
THEOREM NoTerminalWithoutConsent == Spec => []TerminalNeedsAck
<1>1. IInv => TerminalNeedsAck
  BY DEF IInv, OfferedIsAcked, ChannelAgrees, TerminalNeedsAck
<1> QED
  BY <1>1, Invariance, PTL

\* A session nobody works on any more has no private key left, whatever failed, and
\* its ssh_revoke is queued or was tried and could not be, whoever ended it.
THEOREM EverySessionIsRevoked == Spec => []EndedIsRevoked
<1>1. IInv => EndedIsRevoked
  BY DEF IInv
<1> QED
  BY <1>1, Invariance, PTL
=============================================================================
