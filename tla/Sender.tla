------------------------------- MODULE Sender -------------------------------
(***************************************************************************)
(* The sender adapter, adapters/sender, and those it calls.  A trigger     *)
(* reaches its configuration as a request of any adapter does              *)
(* (StubAdapter).  With CSRF enabled it then fetches a token and the       *)
(* cookies of a session, and in any case it makes one call to the target,  *)
(* of which it gives the outcome as the result of the trigger.  Each of    *)
(* the two exchanges is given thirty seconds.                              *)
(*                                                                         *)
(* The systems that are called are not part of the repository.  They ask   *)
(* for credentials; some give a token with a session and refuse a call     *)
(* unless it brings the token and the cookie of one session that has not   *)
(* expired.  A message to them may be lost, or arrive after the sender has *)
(* given up; so may its answer.                                            *)
(***************************************************************************)
EXTENDS StubAdapter

CONSTANTS
    Accounts,       \* system -> the user it answers to
    Guarded,        \* the systems that demand a token
    BadUrl          \* a URL that http.NewRequest does not take

Systems == DOMAIN Accounts

Outgoing ==
    [verb : {"fetch", "call"}, to : STRING, user : STRING \cup {Nil},
     token : STRING \cup {Nil}, cookie : STRING \cup {Nil}]

Answers  == [status : Nat, token : STRING \cup {Nil}]
Sessions == [on : STRING, live : BOOLEAN]
Handled  == [verb : {"fetch", "call"}, to : STRING, user : STRING \cup {Nil}, status : Nat]

(***************************************************************************)
(* What there is of a trigger: the token and the cookie it was given, both *)
(* named after the system whose session they are of; the message that is   *)
(* on its way; the answer that is; the status of the result.  At the       *)
(* systems called: the session, and what was asked of them.                *)
(***************************************************************************)
Triggers ==
    [token : STRING \cup {Nil}, cookie : STRING \cup {Nil},
     transit : Outgoing \cup {Nil}, answer : Answers \cup {Nil},
     status : Nat \cup {Nil}, session : Sessions \cup {Nil}, handled : Seq(Handled)]

ASSUME SenderAssumption ==
    /\ Systems \subseteq STRING /\ Guarded \subseteq Systems
    /\ BadUrl \notin Systems /\ BadUrl \in STRING
    /\ Nil \notin Outgoing \cup Triggers

NewTrigger ==
    [token |-> Nil, cookie |-> Nil, transit |-> Nil, answer |-> Nil,
     status |-> Nil, session |-> Nil, handled |-> <<>>]

trigger == request.trigger

FetchURL(c) == IF c.fetch = Nil THEN c.target ELSE c.fetch

Message(verb, to, c, token, cookie) ==
    [verb |-> verb, to |-> to, user |-> c.user, token |-> token, cookie |-> cookie]

(* Errors are results too, under status 200.                               *)
WriteResult(body, t) ==
    request' = [AnswerTo(request, ReplyOf(200, body)) EXCEPT !.trigger = t]

(* Mutant: the cookies stay behind.                                        *)
CallWithoutCookies(c, t) == Message("call", c.target, c, t.token, Nil)

CallOf(c, t) == Message("call", c.target, c, t.token, t.cookie)

(* Mutant: the configuration is asked for again, once there is a token.    *)
SendCallAsConfiguredNow(t) ==
    \E o \in Addressed(hosted, request.served, FALSE) :
        request' = [request EXCEPT !.phase = "call",
                        !.trigger = [t EXCEPT !.transit =
                            CallOf(IF "config" \in DOMAIN o THEN o.config
                                   ELSE request.config, t)]]

(* The second half of handleTrigger, up to the call.                       *)
SendCall(t) ==
    IF request.config.target = BadUrl THEN WriteResult("not built", t)
    ELSE request' = [request EXCEPT !.phase = "call", !.message = Nil,
                        !.trigger = [t EXCEPT !.transit = CallOf(request.config, t)]]

(* A fetch whose URL is not one is left out without a word.                *)
HandleTrigger ==
    /\ request.phase = "check" /\ request.kind = OfSender
    /\ LET c == request.config
       IN  CASE c.target = Nil -> WriteResult("no target", NewTrigger)
             [] c.target # Nil /\ c.csrf /\ FetchURL(c) # BadUrl ->
                   request' = [request EXCEPT !.phase = "token", !.message = Nil,
                      !.trigger = [NewTrigger EXCEPT
                         !.transit = Message("fetch", FetchURL(c), c, Nil, Nil)]]
             [] OTHER -> SendCall(NewTrigger)
    /\ UNCHANGED Rest

(* Whatever the status of the answer is: no token in it, none to show.     *)
TokenArrives ==
    /\ request.phase = "token" /\ trigger.answer # Nil
    /\ SendCall([trigger EXCEPT !.answer = Nil, !.token = trigger.answer.token,
                                !.cookie = trigger.answer.token])
    /\ UNCHANGED Rest

(* An error or thirty seconds, wherever the message is by then.            *)
FetchFails ==
    /\ request.phase = "token"
    /\ WriteResult("no token", trigger)
    /\ UNCHANGED Rest

ResultArrives ==
    /\ request.phase = "call" /\ trigger.answer # Nil
    /\ WriteResult("sent", [trigger EXCEPT !.status = trigger.answer.status])
    /\ UNCHANGED Rest

(* Mutant: a call that failed is made once more.                           *)
CallFailsRetrying ==
    /\ request.phase = "call"
    /\ \/ WriteResult("failed", trigger)
       \/ SendCall([trigger EXCEPT !.answer = Nil])
    /\ UNCHANGED Rest

CallFails ==
    /\ request.phase = "call"
    /\ WriteResult("failed", trigger)
    /\ UNCHANGED Rest

(***************************************************************************)
(* The systems called.                                                     *)
(***************************************************************************)
(* The token and the cookie of a session that has not expired.             *)
Accepts(m) ==
    /\ m.token = m.to /\ m.cookie = m.to
    /\ trigger.session = [on |-> m.to, live |-> TRUE]

StatusOf(m) ==
    CASE m.user # Accounts[m.to] -> 401
      [] /\ m.user = Accounts[m.to] /\ m.verb = "call"
         /\ m.to \in Guarded /\ ~Accepts(m) -> 403
      [] OTHER -> 200

HandleMessage ==
    /\ trigger # Nil /\ trigger.transit # Nil /\ trigger.transit.to \in Systems
    /\ LET m      == trigger.transit
           status == StatusOf(m)
           opens  == m.verb = "fetch" /\ status = 200 /\ m.to \in Guarded
       IN  request' = [request EXCEPT !.trigger =
              [trigger EXCEPT !.transit = Nil,
                 !.answer  = [status |-> status, token |-> IF opens THEN m.to ELSE Nil],
                 !.session = IF opens THEN [on |-> m.to, live |-> TRUE] ELSE @,
                 !.handled = Append(@, [verb |-> m.verb, to |-> m.to,
                                        user |-> m.user, status |-> status])]]
    /\ UNCHANGED Rest

ExpireSession ==
    /\ trigger # Nil /\ trigger.session # Nil /\ trigger.session.live
    /\ request' = [request EXCEPT !.trigger.session.live = FALSE]
    /\ UNCHANGED Rest

(***************************************************************************)
(* A trigger by way of the control plane.  It asks the adapter's service   *)
(* on port 8080; the service has port 80 (CreateAdapterService), and in    *)
(* local mode there is none.  So the sender is not reached.                *)
(***************************************************************************)
ByProxy == "proxy"

triggerAdapter(s, id) ==
    LET same == {i \in 1 .. hosted[s].len : hosted[s].array[i].id = id}
        x    == hosted[s].array[Min(same)]
        no   == CASE same = {} -> 404
                  [] same # {} /\ x.type \notin Senders -> 400
                  [] same # {} /\ x.type \in Senders /\ x.status # "running" -> 409
                  [] OTHER -> Nil
        r    == [NoRequest EXCEPT !.kind = ByProxy, !.id = id]
    IN  /\ request.phase = "none"
        /\ request' = IF no # Nil THEN AnswerTo(r, ReplyOf(no, "fault"))
                      ELSE [r EXCEPT !.phase = "dial"]
        /\ UNCHANGED Rest

DialFails ==
    /\ request.phase = "dial"
    /\ Answered(ReplyOf(502, Unreachable))
    /\ UNCHANGED Rest

-----------------------------------------------------------------------------

Trigger ==
    \/ HandleTrigger \/ TokenArrives \/ FetchFails \/ ResultArrives \/ CallFails
    \/ DialFails

Next ==
    \/ StubNext
    \/ Trigger \/ HandleMessage \/ ExpireSession
    \/ \E s \in DOMAIN hosted :
          \E id \in {hosted[s].array[i].id : i \in DOMAIN hosted[s].array} :
             triggerAdapter(s, id)

Spec == StubInit /\ [][Next]_stubVars

(* The handlers of a request run; a fetch of the configuration ends after  *)
(* five seconds, and an exchange with a system that is called after        *)
(* thirty.  No system need ever answer.                                    *)
FairSpec == Spec /\ WF_stubVars(Serve \/ Trigger)

-----------------------------------------------------------------------------

Triggered == request.kind = OfSender /\ trigger # Nil

Calls == {i \in DOMAIN trigger.handled : trigger.handled[i].verb = "call"}

(* The result is the truth about the one call that a trigger makes: with a *)
(* status, the target handled it once and said so; with an error before    *)
(* the call, it was not made and will not be; when the request failed, the *)
(* target has seen it once at most, and may see it later but not again.    *)
ResultIsTrue ==
    Triggered /\ request.phase = "answered" =>
        LET pending == trigger.transit # Nil /\ trigger.transit.verb = "call"
        IN  CASE request.reply.body = "sent" ->
                    /\ Cardinality(Calls) = 1 /\ ~pending
                    /\ \A i \in Calls : trigger.handled[i].status = trigger.status
              [] request.reply.body = "failed" ->
                    Cardinality(Calls) + (IF pending THEN 1 ELSE 0) = 1
              [] OTHER -> Calls = {} /\ ~pending

(* All that a trigger sends goes where one configuration says that the     *)
(* adapter had between the trigger and the lookup, with the credentials of *)
(* that configuration and no other, however it is edited while the token   *)
(* is on its way.                                                          *)
CallsAreConfigured ==
    Triggered =>
        \E o \in inForce :
            /\ "config" \in DOMAIN o
            /\ \A i \in DOMAIN trigger.handled :
                  LET m == trigger.handled[i]
                  IN  /\ m.user = o.config.user
                      /\ m.verb = "call" => m.to = o.config.target
                      /\ m.verb = "fetch" => o.config.csrf /\ m.to = FetchURL(o.config)

(* If a system opened a session for this trigger, the call to it is not    *)
(* turned away for want of a token unless the session has expired.         *)
SessionIsUsed ==
    Triggered /\ trigger.session # Nil =>
        \A i \in DOMAIN trigger.handled :
            trigger.handled[i] # [verb |-> "call", to |-> trigger.session.on,
                                  user |-> Accounts[trigger.session.on], status |-> 403]
            \/ ~trigger.session.live

=============================================================================
