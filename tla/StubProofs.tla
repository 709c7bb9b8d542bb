----------------------------- MODULE StubProofs -----------------------------
(***************************************************************************)
(* The safety properties of StubAdapter and Sender, for every set of       *)
(* scenarios, configurations, messages, pods and systems called.           *)
(***************************************************************************)
EXTENDS Sender, FiniteSetTheorems, TLAPS

(* A request has the fields of NoRequest.                                  *)
RequestFields ==
    {"phase", "kind", "id", "message", "byType", "next", "cells", "config",
     "reply", "reported", "served", "trigger"}

IsRequest(r) == r = [f \in RequestFields |-> r[f]]

-----------------------------------------------------------------------------
(* Adapters and what a lookup can find.                                    *)

HostsSound(h) == h \in [DOMAIN h -> Slices] /\ IsFiniteSet(DOMAIN h)

Live(s, i) == s \in DOMAIN hosted /\ i \in 1 .. hosted[s].len

(* Lookup by the id, and by the type that the id stands for.               *)
HasId(x) == x.id = request.id
StandsIn(x) == x.status = "running" /\ ByType(x, request.id)

At(cell) == hosted[cell[1]].array[cell[2]]

Ahead(s, i) ==
    \E k \in request.next .. Len(request.cells) : request.cells[k] = <<s, i>>

(* A lookup: what its cells hold is in force, also where the copy of a     *)
(* deleted adapter is left; and as long as nothing moved, whoever is looked *)
(* for is ahead.                                                           *)
LookupSound ==
    LET cells == request.cells
    IN  /\ request.next \in 1 .. (Len(cells) + 1) /\ Len(cells) \in Nat
        /\ request.byType \in BOOLEAN
        /\ \A k \in 1 .. Len(cells) :
              /\ cells[k] = <<cells[k][1], cells[k][2]>>
              /\ cells[k][1] \in DOMAIN hosted
              /\ cells[k][2] \in 1 .. Len(hosted[cells[k][1]].array)
              /\ HasId(At(cells[k])) => [config |-> At(cells[k]).config] \in inForce
              /\ StandsIn(At(cells[k])) =>
                    IF overtaken THEN [config |-> At(cells[k]).config] \in inForce
                    ELSE Live(cells[k][1], cells[k][2])
        /\ \A s \in DOMAIN hosted : \A i \in 1 .. hosted[s].len :
              \E k \in 1 .. Len(cells) : cells[k] = <<s, i>>
        /\ request.byType => localMode /\ request.id \in DOMAIN localIDToType
        /\ ~overtaken => \A s \in DOMAIN hosted : \A i \in 1 .. hosted[s].len :
              LET x == hosted[s].array[i]
              IN  IF request.byType
                  THEN ~HasId(x) /\ (StandsIn(x) => Ahead(s, i))
                  ELSE HasId(x) => Ahead(s, i)

(* Wherever the lookup is, what could be found now is in force.            *)
FetchSound ==
    /\ request.phase \in {"fetch", "lookup"} =>
          /\ Addressed(hosted, request.id, overtaken) \subseteq inForce
          /\ [failed |-> Unreachable] \in inForce
    /\ request.phase \in {"none", "fetch"} => ~overtaken
    /\ request.phase = "fetch" => request.byType = FALSE
    /\ request.phase = "lookup" => LookupSound

UsesFound ==
    /\ request.phase \in {"check", "wait", "token", "call"} =>
          request.config \in AllConfigs /\ [config |-> request.config] \in inForce
    /\ request.phase = "wait" =>
          Refusal(request.kind, request.config, request.message) = Nil

Asked ==
    /\ request.phase \in {"fetch", "lookup", "check", "wait"} =>
          request.kind \in Kinds /\ (request.kind = OfSender => request.message.post)
    /\ request.phase \in {"token", "call"} => request.kind = OfSender
    /\ request.phase = "wait" => request.kind # OfSender
    /\ request.phase = "dial" => request.kind = ByProxy
    /\ request.phase \in {"fetch", "lookup"} =>
          /\ request.served = Nil
          /\ request.reported = request.id \/ IsMetadata(request.kind, request.message)
    /\ request.trigger # Nil =>
          request.phase \in {"token", "call", "answered"} /\ request.kind = OfSender

(* net/http sends a status of three digits.                                *)
Sendable(status) == status \in 100 .. 999

Unsendable(c) == c.status \notin {0} \cup (100 .. 999)

ReplySound ==
    request.phase = "answered" =>
        \/ Sendable(request.reply.status)
        \/ request.reply.status = 0 /\ OnlyIfConfigured

RequestSound ==
    /\ IsRequest(request)
    /\ request.phase \in Phases \cup SenderPhases
    /\ UsesFound /\ Asked /\ ReplySound /\ AnswerIsCurrent /\ UseIsReported

StubInv ==
    /\ localMode \in BOOLEAN /\ overtaken \in BOOLEAN
    /\ inForce \subseteq Found \cup Lost
    /\ HostsSound(hosted) /\ FetchSound /\ RequestSound

-----------------------------------------------------------------------------
(* What is sent to other systems.                                          *)

CallsOf(t) == {i \in 1 .. Len(t.handled) : t.handled[i].verb = "call"}

Pending(t) == t.transit # Nil /\ t.transit.verb = "call"

(* Either the one call is on its way or it has been handled.               *)
CalledOnce(t) ==
    \/ Pending(t) /\ CallsOf(t) = {}
    \/ ~Pending(t) /\ t.transit = Nil /\ \E i \in 1 .. Len(t.handled) : CallsOf(t) = {i}

NotCalled(t) == ~Pending(t) /\ CallsOf(t) = {}

Conforms(m, c) ==
    /\ m.user = c.user
    /\ m.verb = "call" => m.to = c.target
    /\ m.verb = "fetch" => c.csrf /\ m.to = FetchURL(c)

ConformsAll(t, c) ==
    /\ t.transit # Nil => Conforms(t.transit, c)
    /\ \A i \in 1 .. Len(t.handled) : Conforms(t.handled[i], c)

(* A session is of the system that opened it, and the call will show it.   *)
SessionSound(t) ==
    t.session # Nil =>
        /\ t.transit # Nil =>
              /\ t.transit.verb = "call"
              /\ t.transit.token = t.session.on /\ t.transit.cookie = t.session.on
        /\ \A i \in 1 .. Len(t.handled) :
              t.handled[i] # [verb |-> "call", to |-> t.session.on,
                              user |-> Accounts[t.session.on], status |-> 403]
              \/ ~t.session.live

TriggerSound(t) == t \in Triggers /\ SessionSound(t)

PhaseSound(t) ==
    /\ request.phase = "token" =>
          /\ NotCalled(t) /\ ConformsAll(t, request.config)
          /\ request.config.target # Nil
          /\ t.session # Nil => t.answer.token = t.session.on
    /\ request.phase = "call" =>
          /\ CalledOnce(t) /\ ConformsAll(t, request.config)
          /\ Pending(t) => t.answer = Nil
          /\ ~Pending(t) => \A i \in CallsOf(t) : t.handled[i].status = t.answer.status
    /\ request.phase = "answered" =>
          /\ \E c \in AllConfigs : [config |-> c] \in inForce /\ ConformsAll(t, c)
          /\ CASE request.reply.body = "sent" ->
                    /\ CalledOnce(t) /\ ~Pending(t)
                    /\ \A i \in CallsOf(t) : t.handled[i].status = t.status
               [] request.reply.body = "failed" -> CalledOnce(t)
               [] OTHER -> NotCalled(t)

SenderInv ==
    /\ StubInv
    /\ request.phase \in {"token", "call"} \/ Triggered =>
          TriggerSound(trigger) /\ PhaseSound(trigger)

-----------------------------------------------------------------------------
(* The fields of a request after each kind of step.                        *)

LEMMA NoRequestFields ==
    /\ IsRequest(NoRequest)
    /\ NoRequest.phase = "none" /\ NoRequest.served = Nil /\ NoRequest.trigger = Nil
    /\ NoRequest.kind = Nil
BY DEF IsRequest, RequestFields, NoRequest

LEMMA AnswerFields ==
    ASSUME NEW r, NEW reply, NEW q, q = AnswerTo(r, reply)
    PROVE  /\ IsRequest(q)
           /\ q.phase = "answered" /\ q.kind = r.kind /\ q.message = r.message
           /\ q.reply = reply
           /\ q.reported = Nil /\ q.served = Nil /\ q.trigger = Nil
<1>1. IsRequest(q)
  BY NoRequestFields DEF AnswerTo, IsRequest
<1>2. QED
  BY <1>1 DEF AnswerTo, NoRequest

LookingUp(r, cells) == [r EXCEPT !.phase = "lookup", !.next = 1, !.cells = cells]
LookingOn(r) == [r EXCEPT !.next = @ + 1]
LookingByType(r) == [r EXCEPT !.byType = TRUE, !.next = 1]
HavingFound(r, c, id) ==
    [r EXCEPT !.phase = "check", !.cells = <<>>, !.next = 0, !.id = Nil,
              !.config = c, !.served = id]
Waiting(r) == [r EXCEPT !.phase = "wait"]
Sending(r, p, t) == [r EXCEPT !.phase = p, !.message = Nil, !.trigger = t]
WithTrigger(r, t) == [r EXCEPT !.trigger = t]

LEMMA LookupFields ==
    ASSUME NEW r, IsRequest(r), NEW cells
    PROVE  LET q == LookingUp(r, cells)
           IN  /\ IsRequest(q)
               /\ q.phase = "lookup" /\ q.next = 1 /\ q.cells = cells
               /\ q.kind = r.kind /\ q.id = r.id /\ q.message = r.message
               /\ q.byType = r.byType /\ q.reported = r.reported
               /\ q.served = r.served /\ q.trigger = r.trigger
<1> DEFINE q == LookingUp(r, cells)
<1>1. IsRequest(q)
  BY DEF IsRequest, LookingUp
<1>2. QED
  BY <1>1 DEF IsRequest, RequestFields, LookingUp

LEMMA LookOnFields ==
    ASSUME NEW r, IsRequest(r)
    PROVE  LET q == LookingOn(r)
           IN  /\ IsRequest(q)
               /\ q.next = r.next + 1 /\ q.byType = r.byType
               /\ q.phase = r.phase /\ q.kind = r.kind /\ q.id = r.id
               /\ q.message = r.message /\ q.cells = r.cells
               /\ q.reported = r.reported /\ q.served = r.served
               /\ q.trigger = r.trigger
<1> DEFINE q == LookingOn(r)
<1>1. IsRequest(q)
  BY DEF IsRequest, LookingOn
<1>2. QED
  BY <1>1 DEF IsRequest, RequestFields, LookingOn

LEMMA LookByTypeFields ==
    ASSUME NEW r, IsRequest(r)
    PROVE  LET q == LookingByType(r)
           IN  /\ IsRequest(q)
               /\ q.next = 1 /\ q.byType = TRUE
               /\ q.phase = r.phase /\ q.kind = r.kind /\ q.id = r.id
               /\ q.message = r.message /\ q.cells = r.cells
               /\ q.reported = r.reported /\ q.served = r.served
               /\ q.trigger = r.trigger
<1> DEFINE q == LookingByType(r)
<1>1. IsRequest(q)
  BY DEF IsRequest, LookingByType
<1>2. QED
  BY <1>1 DEF IsRequest, RequestFields, LookingByType

LEMMA FoundFields ==
    ASSUME NEW r, IsRequest(r), NEW c, NEW id
    PROVE  LET q == HavingFound(r, c, id)
           IN  /\ IsRequest(q)
               /\ q.phase = "check" /\ q.config = c /\ q.served = id
               /\ q.kind = r.kind /\ q.message = r.message
               /\ q.byType = r.byType /\ q.reported = r.reported
               /\ q.trigger = r.trigger
<1> DEFINE q == HavingFound(r, c, id)
<1>1. IsRequest(q)
  BY DEF IsRequest, HavingFound
<1>2. QED
  BY <1>1 DEF IsRequest, RequestFields, HavingFound

LEMMA WaitFields ==
    ASSUME NEW r, IsRequest(r)
    PROVE  LET q == Waiting(r)
           IN  /\ IsRequest(q)
               /\ q.phase = "wait"
               /\ q.kind = r.kind /\ q.message = r.message /\ q.byType = r.byType
               /\ q.config = r.config /\ q.reported = r.reported
               /\ q.served = r.served /\ q.trigger = r.trigger
<1> DEFINE q == Waiting(r)
<1>1. IsRequest(q)
  BY DEF IsRequest, Waiting
<1>2. QED
  BY <1>1 DEF IsRequest, RequestFields, Waiting

LEMMA SendFields ==
    ASSUME NEW r, IsRequest(r), NEW p, NEW t
    PROVE  LET q == Sending(r, p, t)
           IN  /\ IsRequest(q)
               /\ q.phase = p /\ q.trigger = t /\ q.message = Nil
               /\ q.kind = r.kind /\ q.config = r.config /\ q.byType = r.byType
               /\ q.reported = r.reported /\ q.served = r.served
<1> DEFINE q == Sending(r, p, t)
<1>1. IsRequest(q)
  BY DEF IsRequest, Sending
<1>2. QED
  BY <1>1 DEF IsRequest, RequestFields, Sending

LEMMA TriggerFields ==
    ASSUME NEW r, IsRequest(r), NEW t
    PROVE  LET q == WithTrigger(r, t)
           IN  /\ IsRequest(q)
               /\ q.trigger = t
               /\ q.phase = r.phase /\ q.kind = r.kind /\ q.id = r.id
               /\ q.message = r.message /\ q.config = r.config /\ q.byType = r.byType
               /\ q.reply = r.reply /\ q.reported = r.reported /\ q.served = r.served
<1> DEFINE q == WithTrigger(r, t)
<1>1. IsRequest(q)
  BY DEF IsRequest, WithTrigger
<1>2. QED
  BY <1>1 DEF IsRequest, RequestFields, WithTrigger

-----------------------------------------------------------------------------
(* What can be said of an id.                                              *)

LEMMA SliceFacts ==
    ASSUME NEW h, HostsSound(h), NEW s \in DOMAIN h
    PROVE  /\ h[s].array \in Seq(Adapters) /\ Len(h[s].array) \in Nat
           /\ h[s].len \in Nat /\ h[s].len <= Len(h[s].array)
           /\ h[s] = [array |-> h[s].array, len |-> h[s].len]
           /\ \A i \in 1 .. Len(h[s].array) : h[s].array[i] \in Adapters
BY DEF HostsSound, Slices

LEMMA AdapterFacts ==
    ASSUME NEW x \in Adapters
    PROVE  /\ x.config \in AllConfigs /\ x.config \in Configs[x.type]
           /\ x.type \in DOMAIN Configs
           /\ x = [id |-> x.id, type |-> x.type, status |-> x.status, config |-> x.config]
BY DEF Adapters

LEMMA AddressedFacts ==
    ASSUME NEW h, HostsSound(h), NEW id, NEW moved \in BOOLEAN
    PROVE  /\ Addressed(h, id, moved) \subseteq Found \cup Lost
           /\ \A s \in DOMAIN h : \A i \in 1 .. h[s].len :
                 LET x == h[s].array[i]
                 IN  /\ x.id = id => [config |-> x.config] \in Addressed(h, id, moved)
                     /\ x.status = "running" /\ ByType(x, id) /\ moved =>
                           [config |-> x.config] \in Addressed(h, id, moved)
           /\ (\A s \in DOMAIN h : \A i \in 1 .. h[s].len : h[s].array[i].id # id) =>
                 /\ \A s \in DOMAIN h : \A i \in 1 .. h[s].len :
                       LET x == h[s].array[i]
                       IN  x.status = "running" /\ ByType(x, id) =>
                              [config |-> x.config] \in Addressed(h, id, moved)
                 /\ (\A s \in DOMAIN h : \A i \in 1 .. h[s].len :
                        ~(h[s].array[i].status = "running" /\ ByType(h[s].array[i], id))) =>
                       [failed |-> NotFound] \in Addressed(h, id, moved)
           /\ moved => [failed |-> NotFound] \in Addressed(h, id, moved)
<1> DEFINE all == UNION {{h[s].array[i] : i \in 1 .. h[s].len} : s \in DOMAIN h}
           same == {x \in all : x.id = id}
           type == {x \in all : x.status = "running" /\ ByType(x, id)}
           xs == IF moved THEN same \cup type ELSE IF same # {} THEN same ELSE type
           found == {[config |-> x.config] : x \in xs}
           lost == IF xs = {} \/ moved THEN {[failed |-> NotFound]} ELSE {}
<1>1. Addressed(h, id, moved) = found \cup lost
  BY DEF Addressed
<1>2. \A s \in DOMAIN h : \A i \in 1 .. h[s].len : h[s].array[i] \in all
  OBVIOUS
<1>3. \A x \in all : /\ \E s \in DOMAIN h : \E i \in 1 .. h[s].len : x = h[s].array[i]
                     /\ x.config \in AllConfigs
  <2> SUFFICES ASSUME NEW x \in all
               PROVE  /\ \E s \in DOMAIN h : \E i \in 1 .. h[s].len : x = h[s].array[i]
                      /\ x.config \in AllConfigs
    OBVIOUS
  <2>1. PICK s \in DOMAIN h : \E i \in 1 .. h[s].len : x = h[s].array[i]
    OBVIOUS
  <2>2. PICK i \in 1 .. h[s].len : x = h[s].array[i]
    BY <2>1
  <2>3. i \in 1 .. Len(h[s].array)
    BY SliceFacts
  <2>4. x \in Adapters
    BY <2>2, <2>3, SliceFacts
  <2>5. QED
    BY <2>1, <2>4, AdapterFacts
<1> HIDE DEF all
<1>4. found \cup lost \subseteq Found \cup Lost
  BY <1>3 DEF Found, Lost
<1>5. ASSUME NEW x \in all
      PROVE  /\ x.id = id => x \in xs
             /\ x.status = "running" /\ ByType(x, id) /\ moved => x \in xs
             /\ x.status = "running" /\ ByType(x, id) /\ (\A y \in all : y.id # id) => x \in xs
  OBVIOUS
<1>6. (\A y \in all : y.id # id) /\ (\A y \in all : ~(y.status = "running" /\ ByType(y, id)))
      => xs = {}
  OBVIOUS
<1> HIDE DEF xs
<1>7. \A x \in xs : [config |-> x.config] \in found
  OBVIOUS
<1>8. moved \/ xs = {} => [failed |-> NotFound] \in lost
  OBVIOUS
<1> HIDE DEF found, lost
<1>9. QED
  BY <1>1, <1>2, <1>3, <1>4, <1>5, <1>6, <1>7, <1>8

(* A step of the dashboard: a deletion leaves a copy behind it.            *)
Moves(h) ==
    /\ DOMAIN h = DOMAIN hosted /\ HostsSound(h)
    /\ \A s \in DOMAIN h :
          /\ h[s].len <= hosted[s].len /\ Len(h[s].array) = Len(hosted[s].array)
          /\ \A i \in 1 .. Len(h[s].array) :
                i > h[s].len => h[s].array[i] = hosted[s].array[i]

(* Unless they count as overtaking the lookup, no new adapter is where it  *)
(* is not looked for, and none that it looks for is deleted by type.       *)
Harmless(h) ==
    \A s \in DOMAIN h : \A i \in 1 .. hosted[s].len :
        /\ i > h[s].len => ~StandsIn(hosted[s].array[i])
        /\ i <= h[s].len =>
              /\ HasId(h[s].array[i]) => HasId(hosted[s].array[i])
              /\ StandsIn(h[s].array[i]) => StandsIn(hosted[s].array[i])

LEMMA LookupSurvives ==
    ASSUME StubInv, request.phase = "lookup", NEW h, NEW o \in BOOLEAN,
           Moves(h), overtaken => o, ~o => Harmless(h),
           hosted' = h, overtaken' = o, UNCHANGED <<localMode, request>>,
           inForce \subseteq inForce',
           Addressed(hosted, request.id, o) \subseteq inForce',
           Addressed(h, request.id, o) \subseteq inForce'
    PROVE  LookupSound'
<1> DEFINE cells == request.cells
           id == request.id
<1>1. LookupSound /\ HostsSound(hosted) /\ HostsSound(h)
  BY DEF StubInv, FetchSound, Moves
<1>2. /\ request' = request /\ localMode' = localMode
      /\ \A x : ByType(x, id)' <=> ByType(x, id)
      /\ \A x : HasId(x)' <=> HasId(x)
      /\ \A x : StandsIn(x)' <=> StandsIn(x)
  BY DEF ByType, HasId, StandsIn
<1>3. \A s \in DOMAIN h : \A i \in 1 .. h[s].len :
         /\ i \in 1 .. hosted[s].len
         /\ i \in 1 .. Len(hosted[s].array)
  <2> TAKE s \in DOMAIN h
  <2>1. /\ h[s].len \in Nat /\ hosted[s].len \in Nat /\ h[s].len <= hosted[s].len
        /\ Len(hosted[s].array) \in Nat /\ hosted[s].len <= Len(hosted[s].array)
    BY <1>1, SliceFacts DEF Moves
  <2>2. QED
    BY <2>1
<1>4. ASSUME NEW k \in 1 .. Len(cells)
      PROVE  /\ cells[k][1] \in DOMAIN h
             /\ cells[k][2] \in 1 .. Len(h[cells[k][1]].array)
             /\ HasId(At(cells[k])') =>
                   [config |-> At(cells[k])'.config] \in inForce'
             /\ StandsIn(At(cells[k])') =>
                   IF o THEN [config |-> At(cells[k])'.config] \in inForce'
                   ELSE cells[k][2] \in 1 .. h[cells[k][1]].len
  <2> DEFINE s == cells[k][1]
             i == cells[k][2]
             x == hosted[s].array[i]
             y == h[s].array[i]
  <2>1. /\ s \in DOMAIN hosted /\ i \in 1 .. Len(hosted[s].array)
        /\ HasId(x) => [config |-> x.config] \in inForce
        /\ StandsIn(x) => IF overtaken THEN [config |-> x.config] \in inForce
                          ELSE i \in 1 .. hosted[s].len
    BY <1>1 DEF LookupSound, At, Live
  <2>2. s \in DOMAIN h /\ i \in 1 .. Len(h[s].array) /\ i \in Nat
    BY <2>1 DEF Moves
  <2>3. At(cells[k])' = y
    BY <1>2 DEF At
  <2> HIDE DEF s, i
  <2>4. CASE i \in 1 .. h[s].len
    <3>1. HasId(y) => [config |-> y.config] \in inForce'
      BY <1>1, <2>2, <2>4, AddressedFacts DEF HasId
    <3>2. StandsIn(y) /\ o => [config |-> y.config] \in inForce'
      BY <1>1, <2>2, <2>4, AddressedFacts DEF StandsIn
    <3>3. QED
      BY <2>2, <2>3, <2>4, <3>1, <3>2 DEF s, i
  <2>5. CASE ~(i \in 1 .. h[s].len)
    <3>1. i > h[s].len
      BY <1>1, <2>2, <2>5, SliceFacts
    <3>2. y = x
      BY <2>2, <3>1 DEF Moves
    <3>3. StandsIn(x) /\ ~overtaken /\ o => [config |-> x.config] \in inForce'
      BY <1>1, <2>1, AddressedFacts DEF StandsIn
    <3>4. StandsIn(x) /\ ~o => FALSE
      BY <2>1, <2>2, <3>1 DEF Harmless
    <3> HIDE DEF x, y
    <3>5. QED
      BY <2>1, <2>2, <2>3, <3>2, <3>3, <3>4 DEF s, i
  <2>6. QED
    BY <2>4, <2>5
<1>5. \A s \in DOMAIN h : \A i \in 1 .. h[s].len :
         \E k \in 1 .. Len(cells) : cells[k] = <<s, i>>
  BY <1>1, <1>3 DEF LookupSound, Moves
<1>6. ASSUME ~o, NEW s \in DOMAIN h, NEW i \in 1 .. h[s].len
      PROVE  LET x == h[s].array[i]
             IN  IF request.byType
                 THEN ~HasId(x) /\ (StandsIn(x) => Ahead(s, i))
                 ELSE HasId(x) => Ahead(s, i)
  <2>1. s \in DOMAIN hosted /\ i \in 1 .. hosted[s].len /\ i <= h[s].len /\ ~overtaken
    BY <1>3, <1>6 DEF Moves
  <2>2. /\ HasId(h[s].array[i]) => HasId(hosted[s].array[i])
        /\ StandsIn(h[s].array[i]) => StandsIn(hosted[s].array[i])
    BY <1>6, <2>1 DEF Harmless
  <2>3. QED
    BY <1>1, <2>1, <2>2 DEF LookupSound
<1>7. /\ request.next \in 1 .. (Len(cells) + 1) /\ Len(cells) \in Nat
      /\ request.byType \in BOOLEAN
      /\ \A k \in 1 .. Len(cells) : cells[k] = <<cells[k][1], cells[k][2]>>
      /\ request.byType => localMode /\ request.id \in DOMAIN localIDToType
  BY <1>1 DEF LookupSound
<1>8. \A s, i : Ahead(s, i)' <=> Ahead(s, i)
  BY <1>2 DEF Ahead
<1>9. (\A k \in 1 .. Len(cells) :
          /\ cells[k] = <<cells[k][1], cells[k][2]>>
          /\ cells[k][1] \in DOMAIN hosted
          /\ cells[k][2] \in 1 .. Len(hosted[cells[k][1]].array)
          /\ HasId(At(cells[k])) => [config |-> At(cells[k]).config] \in inForce
          /\ StandsIn(At(cells[k])) =>
                IF overtaken THEN [config |-> At(cells[k]).config] \in inForce
                ELSE Live(cells[k][1], cells[k][2]))'
  BY <1>2, <1>4, <1>7 DEF HasId, StandsIn, ByType, Live
<1>10. (~overtaken => \A s \in DOMAIN hosted : \A i \in 1 .. hosted[s].len :
          LET x == hosted[s].array[i]
          IN  IF request.byType
              THEN ~HasId(x) /\ (StandsIn(x) => Ahead(s, i))
              ELSE HasId(x) => Ahead(s, i))'
  BY <1>2, <1>6, <1>8 DEF HasId, StandsIn, ByType
<1>11. QED
  BY <1>2, <1>5, <1>7, <1>9, <1>10 DEF LookupSound

LEMMA RequestStays ==
    ASSUME RequestSound, UNCHANGED request, inForce \subseteq inForce'
    PROVE  RequestSound'
<1>1. UsesFound' /\ Asked' /\ UseIsReported'
  BY DEF RequestSound, UsesFound, Asked, UseIsReported
<1>2. ReplySound' /\ AnswerIsCurrent'
  BY DEF RequestSound, ReplySound, OnlyIfConfigured, AnswerIsCurrent
<1>3. QED
  BY <1>1, <1>2 DEF RequestSound

LEMMA BecomesSound ==
    ASSUME StubInv, NEW h, NEW m \in BOOLEAN, Becomes(h, m), Moves(h),
           ~m => Harmless(h)
    PROVE  StubInv' /\ UNCHANGED request /\ inForce \subseteq inForce'
<1> DEFINE o == overtaken \/ (request.phase = "lookup" /\ m)
<1>1. /\ hosted' = h /\ overtaken' = o /\ o \in BOOLEAN
      /\ localMode' = localMode /\ request' = request
      /\ inForce' = IF request.phase \in {"fetch", "lookup"}
                    THEN inForce \cup Addressed(hosted, request.id, o)
                                 \cup Addressed(h, request.id, o)
                    ELSE inForce
  BY DEF Becomes, StubInv
<1>2. HostsSound(h) /\ HostsSound(hosted)
  BY DEF Moves, StubInv
<1>3. request.phase \in {"none", "fetch"} => ~o
  BY DEF StubInv, FetchSound
<1>4. overtaken => o
  OBVIOUS
<1>5. request.phase = "lookup" /\ ~o => Harmless(h)
  OBVIOUS
<1> HIDE DEF o
<1>6. inForce \subseteq inForce' /\ inForce' \subseteq Found \cup Lost
  BY <1>1, <1>2, AddressedFacts DEF StubInv
<1>7. request.phase = "lookup" => LookupSound'
  BY <1>1, <1>4, <1>5, <1>6, LookupSurvives
<1>8. FetchSound'
  <2>1. (request.phase \in {"fetch", "lookup"} =>
           /\ Addressed(hosted, request.id, overtaken) \subseteq inForce
           /\ [failed |-> Unreachable] \in inForce)'
    <3>1. Addressed(hosted, request.id, overtaken)' = Addressed(h, request.id, o)
      BY <1>1 DEF Addressed, ByType
    <3>2. QED
      BY <1>1, <1>6, <3>1 DEF StubInv, FetchSound
  <2>2. QED
    BY <1>1, <1>3, <1>7, <2>1 DEF FetchSound, StubInv
<1>9. RequestSound'
  BY <1>1, <1>6, RequestStays DEF StubInv
<1>10. QED
  BY <1>1, <1>2, <1>6, <1>8, <1>9 DEF StubInv

LEMMA HostReplaced ==
    ASSUME HostsSound(hosted), NEW s \in DOMAIN hosted,
           NEW b \in Seq(Adapters), Len(b) = Len(hosted[s].array),
           NEW n \in Nat, n <= hosted[s].len,
           \A i \in 1 .. Len(b) : i > n => b[i] = hosted[s].array[i]
    PROVE  Moves([hosted EXCEPT ![s] = [array |-> b, len |-> n]])
<1> DEFINE x == [array |-> b, len |-> n]
           h == [hosted EXCEPT ![s] = x]
<1>1. x \in Slices
  BY SliceFacts DEF Slices
<1>2. x.array = b /\ x.len = n
  OBVIOUS
<1> HIDE DEF x
<1>3. /\ DOMAIN h = DOMAIN hosted /\ HostsSound(h)
      /\ \A t \in DOMAIN hosted : h[t] = IF t = s THEN x ELSE hosted[t]
  BY <1>1 DEF HostsSound
<1> HIDE DEF h
<1>4. ASSUME NEW t \in DOMAIN hosted
      PROVE  /\ h[t].len <= hosted[t].len /\ Len(h[t].array) = Len(hosted[t].array)
             /\ \A i \in 1 .. Len(h[t].array) :
                   i > h[t].len => h[t].array[i] = hosted[t].array[i]
  <2>1. CASE t = s
    BY <1>2, <1>3, <2>1
  <2>2. CASE t # s
    <3>1. h[t] = hosted[t]
      BY <1>3, <2>2
    <3>2. hosted[t].len \in Nat
      BY SliceFacts
    <3>3. QED
      BY <3>1, <3>2
  <2>3. QED
    BY <2>1, <2>2
<1>5. Moves(h)
  BY <1>3, <1>4 DEF Moves
<1>6. QED
  BY <1>5 DEF h, x

(* An adapter is changed where it is.                                      *)
LEMMA AdapterReplaced ==
    ASSUME StubInv, NEW s \in DOMAIN hosted, NEW i \in 1 .. hosted[s].len,
           NEW y \in Adapters, NEW h,
           h = [hosted EXCEPT ![s] = [array |-> [hosted[s].array EXCEPT ![i] = y],
                                      len |-> hosted[s].len]],
           y.id = hosted[s].array[i].id, y.type = hosted[s].array[i].type,
           NEW m \in BOOLEAN, Becomes(h, m),
           ~m => (y.status = hosted[s].array[i].status
                  \/ ~ByType(hosted[s].array[i], request.id))
    PROVE  StubInv' /\ UNCHANGED request /\ inForce \subseteq inForce'
<1> DEFINE a == hosted[s].array
           n == hosted[s].len
           b == [a EXCEPT ![i] = y]
<1>1. /\ HostsSound(hosted) /\ a \in Seq(Adapters) /\ Len(a) \in Nat
      /\ n \in Nat /\ n <= Len(a) /\ i \in 1 .. Len(a)
  BY SliceFacts DEF StubInv
<1>2. /\ b \in Seq(Adapters) /\ Len(b) = Len(a)
      /\ \A j \in 1 .. Len(a) : b[j] = IF j = i THEN y ELSE a[j]
  <2> HIDE DEF a
  <2>1. QED
    BY <1>1
<1> HIDE DEF b
<1>3. Moves(h)
  <2>1. /\ b \in Seq(Adapters) /\ Len(b) = Len(hosted[s].array) /\ n <= hosted[s].len
        /\ \A j \in 1 .. Len(b) : j > n => b[j] = hosted[s].array[j]
    BY <1>1, <1>2
  <2>2. Moves([hosted EXCEPT ![s] = [array |-> b, len |-> n]])
    <3> HIDE DEF n
    <3>1. n \in Nat
      BY <1>1
    <3>2. QED
      BY <1>1, <2>1, <3>1, HostReplaced
  <2>3. QED
    BY <2>2 DEF b
<1>4. /\ DOMAIN h = DOMAIN hosted
      /\ \A t \in DOMAIN hosted : t # s => h[t] = hosted[t]
      /\ h[s].array = b /\ h[s].len = n
  BY DEF b, StubInv, HostsSound
<1>5. ~m => Harmless(h)
  <2> SUFFICES ASSUME ~m, NEW t \in DOMAIN hosted, NEW j \in 1 .. hosted[t].len
               PROVE  /\ j <= h[t].len
                      /\ HasId(h[t].array[j]) => HasId(hosted[t].array[j])
                      /\ StandsIn(h[t].array[j]) => StandsIn(hosted[t].array[j])
    BY <1>1, <1>4, SliceFacts DEF Harmless
  <2>1. hosted[t].len \in Nat /\ j \in 1 .. Len(hosted[t].array)
    BY <1>1, SliceFacts
  <2>2. CASE t # s
    BY <1>4, <2>1, <2>2
  <2>3. CASE t = s /\ j # i
    <3>1. h[t].array[j] = hosted[t].array[j]
      BY <1>2, <1>4, <2>1, <2>3
    <3>2. QED
      BY <1>4, <2>1, <2>3, <3>1
  <2>4. CASE t = s /\ j = i
    <3>1. h[t].array[j] = y /\ hosted[t].array[j] = a[i]
      BY <1>2, <1>4, <2>1, <2>4
    <3>2. QED
      BY <1>4, <2>1, <2>4, <3>1 DEF HasId, StandsIn, ByType, IsOf
  <2>5. QED
    BY <2>2, <2>3, <2>4
<1>6. QED
  BY <1>3, <1>5, BecomesSound

LEMMA EditStep ==
    ASSUME StubInv, NEW s \in DOMAIN hosted, NEW i \in 1 .. hosted[s].len,
           NEW c \in Configs[hosted[s].array[i].type], Edit(s, i, c)
    PROVE  StubInv' /\ UNCHANGED request /\ inForce \subseteq inForce'
<1> DEFINE x == hosted[s].array[i]
           y == [x EXCEPT !.config = c]
           h == [hosted EXCEPT ![s].array[i].config = c]
<1>1. /\ HostsSound(hosted) /\ i \in 1 .. Len(hosted[s].array) /\ x \in Adapters
      /\ hosted[s] = [array |-> hosted[s].array, len |-> hosted[s].len]
      /\ hosted[s].len \in Nat
  <2>1. HostsSound(hosted)
    BY DEF StubInv
  <2>2. /\ hosted[s].len \in Nat /\ hosted[s].len <= Len(hosted[s].array)
        /\ Len(hosted[s].array) \in Nat
    BY <2>1, SliceFacts
  <2>3. i \in 1 .. Len(hosted[s].array)
    BY <2>2
  <2>4. QED
    BY <2>1, <2>2, <2>3, SliceFacts
<1>2. y \in Adapters /\ y.id = x.id /\ y.type = x.type /\ y.status = x.status
  <2> HIDE DEF x
  <2>1. x.type \in DOMAIN Configs /\ c \in AllConfigs
    BY <1>1, AdapterFacts DEF AllConfigs, x
  <2>2. QED
    BY <1>1, <2>1 DEF Adapters, x
<1>3. h = [hosted EXCEPT ![s] = [array |-> [hosted[s].array EXCEPT ![i] = y],
                                 len |-> hosted[s].len]]
  <2> DEFINE a == hosted[s].array
             n == hosted[s].len
             z == hosted[s]
  <2>1. [z EXCEPT !.array[i].config = c] = [array |-> [a EXCEPT ![i] = y], len |-> n]
    <3>1. z = [array |-> a, len |-> n]
      BY <1>1
    <3>2. z.array = a
      OBVIOUS
    <3>3. [z EXCEPT !.array[i].config = c]
          = [z EXCEPT !.array = [z.array EXCEPT ![i] = [z.array[i] EXCEPT !.config = c]]]
      OBVIOUS
    <3> HIDE DEF z, a, n, y
    <3>4. QED
      BY <3>1, <3>2, <3>3 DEF y, a
  <2>2. QED
    BY <2>1
<1> HIDE DEF h, y
<1>4. Becomes(h, FALSE)
  BY DEF Edit, h
<1>5. QED
  BY <1>2, <1>3, <1>4, AdapterReplaced

LEMMA LaunchOrStopStep ==
    ASSUME StubInv, NEW s \in DOMAIN hosted, NEW i \in 1 .. hosted[s].len,
           NEW status \in Statuses, LaunchOrStop(s, i, status)
    PROVE  StubInv' /\ UNCHANGED request /\ inForce \subseteq inForce'
<1> DEFINE x == hosted[s].array[i]
           y == [x EXCEPT !.status = status]
           h == [hosted EXCEPT ![s].array[i].status = status]
           m == ByType(x, request.id)
<1>1. /\ HostsSound(hosted) /\ i \in 1 .. Len(hosted[s].array) /\ x \in Adapters
      /\ hosted[s] = [array |-> hosted[s].array, len |-> hosted[s].len]
      /\ hosted[s].len \in Nat
  <2>1. HostsSound(hosted)
    BY DEF StubInv
  <2>2. /\ hosted[s].len \in Nat /\ hosted[s].len <= Len(hosted[s].array)
        /\ Len(hosted[s].array) \in Nat
    BY <2>1, SliceFacts
  <2>3. i \in 1 .. Len(hosted[s].array)
    BY <2>2
  <2>4. QED
    BY <2>1, <2>2, <2>3, SliceFacts
<1>2. y \in Adapters /\ y.id = x.id /\ y.type = x.type
  <2>1. x \in Adapters
    BY <1>1
  <2> HIDE DEF x
  <2>2. y = [id |-> x.id, type |-> x.type, status |-> status, config |-> x.config]
    BY <2>1, AdapterFacts
  <2>3. QED
    BY <2>1, <2>2 DEF Adapters
<1>3. h = [hosted EXCEPT ![s] = [array |-> [hosted[s].array EXCEPT ![i] = y],
                                 len |-> hosted[s].len]]
  <2> DEFINE a == hosted[s].array
             n == hosted[s].len
             z == hosted[s]
  <2>1. [z EXCEPT !.array[i].status = status] = [array |-> [a EXCEPT ![i] = y], len |-> n]
    <3>1. z = [array |-> a, len |-> n]
      BY <1>1
    <3>2. z.array = a
      OBVIOUS
    <3>3. [z EXCEPT !.array[i].status = status]
          = [z EXCEPT !.array = [z.array EXCEPT ![i] = [z.array[i] EXCEPT !.status = status]]]
      OBVIOUS
    <3> HIDE DEF z, a, n, y
    <3>4. QED
      BY <3>1, <3>2, <3>3 DEF y, a
  <2>2. QED
    BY <2>1
<1>4. m \in BOOLEAN
  BY DEF ByType, StubInv, IsOf
<1> HIDE DEF h, y
<1>5. Becomes(h, m)
  BY DEF LaunchOrStop, h
<1>6. QED
  BY <1>2, <1>3, <1>4, <1>5, AdapterReplaced

(* Behind the place of the deleted adapter all move up by one.             *)
LEMMA DeleteStep ==
    ASSUME StubInv, NEW s \in DOMAIN hosted, NEW i \in 1 .. hosted[s].len, Delete(s, i)
    PROVE  StubInv' /\ UNCHANGED request /\ inForce \subseteq inForce'
<1> DEFINE a == hosted[s].array
           n == hosted[s].len
           up == [k \in DOMAIN a |-> IF k \in i .. (n - 1) THEN a[k + 1] ELSE a[k]]
           m == \/ ByType(a[i], request.id)
                \/ \E j \in (i + 1) .. n :
                      a[j].id = request.id \/ ByType(a[j], request.id)
           h == [hosted EXCEPT ![s] = [array |-> up, len |-> n - 1]]
<1>1. /\ HostsSound(hosted) /\ a \in Seq(Adapters) /\ Len(a) \in Nat
      /\ n \in Nat /\ n <= Len(a) /\ i \in 1 .. Len(a) /\ n - 1 \in Nat
      /\ DOMAIN a = 1 .. Len(a)
  <2>1. HostsSound(hosted)
    BY DEF StubInv
  <2>2. a \in Seq(Adapters) /\ Len(a) \in Nat /\ n \in Nat /\ n <= Len(a)
    BY <2>1, SliceFacts
  <2> HIDE DEF a, n
  <2>3. i \in 1 .. n
    BY DEF n
  <2>4. QED
    BY <2>1, <2>2, <2>3
<1>2. Becomes(h, m) /\ m \in BOOLEAN
  <2>1. \A x : ByType(x, request.id) \in BOOLEAN
    BY DEF ByType, IsOf, StubInv
  <2>2. QED
    BY <2>1 DEF Delete
<1>3. /\ up \in Seq(Adapters) /\ Len(up) = Len(a)
      /\ \A j \in 1 .. Len(a) : up[j] = IF j \in i .. (n - 1) THEN a[j + 1] ELSE a[j]
  <2> HIDE DEF a, n
  <2>1. i \in 1 .. n
    BY DEF n
  <2>2. \A j \in 1 .. Len(a) : (IF j \in i .. (n - 1) THEN a[j + 1] ELSE a[j]) \in Adapters
    BY <1>1, <2>1
  <2>3. up \in [1 .. Len(a) -> Adapters]
    BY <1>1, <2>2
  <2>4. QED
    BY <1>1, <2>3
<1> HIDE DEF up
<1>4. Moves(h)
  <2>1. \A j \in 1 .. Len(up) : j > n - 1 => up[j] = hosted[s].array[j]
    BY <1>1, <1>3
  <2>2. n - 1 <= hosted[s].len
    BY <1>1
  <2> DEFINE k == n - 1
  <2>3. k \in Nat /\ k <= hosted[s].len /\ up \in Seq(Adapters)
        /\ Len(up) = Len(hosted[s].array)
        /\ \A j \in 1 .. Len(up) : j > k => up[j] = hosted[s].array[j]
    BY <1>1, <1>3, <2>1, <2>2
  <2> HIDE DEF k
  <2>4. Moves([hosted EXCEPT ![s] = [array |-> up, len |-> k]])
    BY <1>1, <2>3, HostReplaced
  <2>5. QED
    BY <2>4 DEF k
<1>5. /\ DOMAIN h = DOMAIN hosted
      /\ \A t \in DOMAIN hosted : t # s => h[t] = hosted[t]
      /\ h[s].array = up /\ h[s].len = n - 1
  BY <1>1 DEF HostsSound
<1> HIDE DEF h
<1>6. ~m => Harmless(h)
  <2> SUFFICES ASSUME ~m, NEW t \in DOMAIN hosted, NEW j \in 1 .. hosted[t].len
               PROVE  /\ j > h[t].len => ~StandsIn(hosted[t].array[j])
                      /\ j <= h[t].len =>
                            /\ HasId(h[t].array[j]) => HasId(hosted[t].array[j])
                            /\ StandsIn(h[t].array[j]) => StandsIn(hosted[t].array[j])
    BY <1>5 DEF Harmless
  <2>1. hosted[t].len \in Nat /\ j \in 1 .. Len(hosted[t].array)
    BY <1>1, SliceFacts
  <2>2. CASE t # s
    BY <1>5, <2>1, <2>2
  <2>3. CASE t = s
    <3>1. /\ ~ByType(a[i], request.id)
          /\ \A k \in (i + 1) .. n : a[k].id # request.id /\ ~ByType(a[k], request.id)
      OBVIOUS
    <3>2. j \in 1 .. n /\ i \in 1 .. n
      BY <2>3
    <3>3. j > n - 1 => j = i \/ j \in (i + 1) .. n
      BY <1>1, <3>2
    <3>4. j <= n - 1 /\ j \in i .. (n - 1) => up[j] = a[j + 1] /\ j + 1 \in (i + 1) .. n
      BY <1>1, <1>3, <3>2
    <3>5. ~(j \in i .. (n - 1)) => up[j] = a[j]
      BY <1>1, <1>3, <3>2
    <3>6. j > n - 1 => ~StandsIn(a[j])
      BY <3>1, <3>3 DEF StandsIn
    <3>7. j <= n - 1 => /\ HasId(up[j]) => HasId(a[j])
                        /\ StandsIn(up[j]) => StandsIn(a[j])
      BY <3>1, <3>4, <3>5 DEF HasId, StandsIn
    <3>8. QED
      BY <1>5, <2>3, <3>6, <3>7
  <2>4. QED
    BY <2>2, <2>3
<1>7. QED
  BY <1>2, <1>4, <1>6, BecomesSound

-----------------------------------------------------------------------------
(* The steps of a request, as far as the adapter's own answer.             *)

(* The order in which the loops go through leaves nothing out.             *)
LEMMA CellsAreComplete ==
    ASSUME HostsSound(hosted), NEW cells \in SetToSeqs(Cells)
    PROVE  /\ Len(cells) \in Nat
           /\ \A k \in 1 .. Len(cells) :
                 /\ cells[k] = <<cells[k][1], cells[k][2]>>
                 /\ cells[k][1] \in DOMAIN hosted
                 /\ cells[k][2] \in 1 .. hosted[cells[k][1]].len
           /\ \A s \in DOMAIN hosted : \A i \in 1 .. hosted[s].len :
                 \E k \in 1 .. Len(cells) : cells[k] = <<s, i>>
<1> DEFINE Column(s) == {s} \X (1 .. hosted[s].len)
           columns == {Column(s) : s \in DOMAIN hosted}
<1>1. \A s \in DOMAIN hosted : IsFiniteSet(Column(s))
  <2> TAKE s \in DOMAIN hosted
  <2>1. IsFiniteSet({s})
    BY FS_Singleton
  <2>2. hosted[s].len \in Int
    BY SliceFacts
  <2>3. IsFiniteSet(1 .. hosted[s].len)
    BY <2>2, FS_Interval
  <2>4. QED
    BY <2>1, <2>3, FS_Product
<1>2. IsFiniteSet(columns)
  <2> DEFINE f == [s \in DOMAIN hosted |-> Column(s)]
  <2>1. f \in Surjection(DOMAIN hosted, columns)
    BY DEF Surjection
  <2>2. QED
    BY <2>1, FS_Surjection DEF HostsSound
<1>3. IsFiniteSet(Cells) /\ Cardinality(Cells) \in Nat
  <2>1. IsFiniteSet(UNION columns)
    BY <1>1, <1>2, FS_UNION
  <2>2. QED
    BY <2>1, FS_CardinalityType DEF Cells
<1> DEFINE n == Cardinality(Cells)
           D == 1 .. n
<1>4. cells \in [D -> Cells] /\ \A i, j \in D : i # j => cells[i] # cells[j]
  BY DEF SetToSeqs
<1>5. Len(cells) = n /\ n \in Nat
  <2>1. DOMAIN cells = 1 .. n /\ cells \in Seq(Cells)
    BY <1>3, <1>4
  <2> HIDE DEF n
  <2>2. QED
    BY <1>3, <2>1 DEF n
<1>6. cells \in Surjection(D, Cells)
  <2>1. cells \in Injection(D, Cells)
    BY <1>4 DEF Injection, IsInjective
  <2>2. IsFiniteSet(D) /\ Cardinality(D) = n
    <3>1. \A k \in Nat : IsFiniteSet(1 .. k) /\ Cardinality(1 .. k) = k
      <4> TAKE k \in Nat
      <4>1. IsFiniteSet(1 .. k) /\ Cardinality(1 .. k) = IF 1 > k THEN 0 ELSE k - 1 + 1
        BY FS_Interval
      <4>2. QED
        BY <4>1
    <3>2. QED
      BY <1>3, <3>1
  <2>3. QED
    BY <1>3, <2>1, <2>2, FS_Injection
<1>7. \A c \in Cells : /\ c = <<c[1], c[2]>> /\ c[1] \in DOMAIN hosted
                       /\ c[2] \in 1 .. hosted[c[1]].len
  BY DEF Cells
<1>8. \A s \in DOMAIN hosted : \A i \in 1 .. hosted[s].len : <<s, i>> \in Cells
  BY DEF Cells
<1> HIDE DEF n
<1>9. \A c \in Cells : \E k \in D : cells[k] = c
  BY <1>6 DEF Surjection
<1>10. QED
  BY <1>4, <1>5, <1>7, <1>8, <1>9

LEMMA ConfigFacts ==
    ASSUME NEW c \in AllConfigs
    PROVE  /\ c.user \in STRING \cup {Nil} /\ c.status \in Nat
           /\ c.target \in STRING \cup {Nil} /\ c.fetch \in STRING \cup {Nil}
           /\ c.csrf \in BOOLEAN
           /\ [config |-> c] \in Found
BY StubAssumption DEF ConfigRecord, Found

LEMMA ReplyFacts ==
    ASSUME NEW kind, NEW c \in AllConfigs, NEW m
    PROVE  \/ Sendable(Reply(kind, c, m).status)
           \/ /\ Reply(kind, c, m).status = 0
              /\ kind \in Plain \/ Unsendable(c)
<1>1. c.status \in Nat
  BY ConfigFacts
<1>2. \A status, body : ReplyOf(status, body).status = status
  BY DEF ReplyOf
<1>3. \A reply : Sent(reply) = IF reply.status \in 100 .. 999 THEN reply ELSE Aborted
  BY DEF Sent
<1>4. Aborted.status = 0
  BY DEF Aborted, ReplyOf
<1>5. SoapReply(c).status \notin 100 .. 999 => c.status \notin {0} \cup (100 .. 999)
  <2>1. CASE c.failure /\ ~c.body
    <3>1. SoapReply(c).status = IF c.status \in {0, 200} THEN 500 ELSE c.status
      BY <1>2, <2>1 DEF SoapReply
    <3>2. QED
      BY <1>1, <3>1
  <2>2. CASE ~(c.failure /\ ~c.body)
    <3>1. SoapReply(c).status = Or(c.status, 200)
      BY <1>2, <2>2 DEF SoapReply
    <3>2. QED
      BY <1>1, <3>1 DEF Or
  <2>3. QED
    BY <2>1, <2>2
<1>6. XiReply(c).status \notin 100 .. 999 => c.status \notin {0} \cup (100 .. 999)
  BY <1>1, <1>2 DEF XiReply, Or
<1>7. AckReply(c).status \notin 100 .. 999 => c.status \notin {0} \cup (100 .. 999)
  BY <1>1, <1>2 DEF AckReply, Or
<1>8. \/ Reply(kind, c, m) = ReplyOf(200, "built-in")
      \/ kind \in Plain /\ Reply(kind, c, m) = Sent(ReplyOf(c.status, "custom"))
      \/ Reply(kind, c, m) \in {Sent(SoapReply(c)), Sent(XiReply(c)), Sent(AckReply(c))}
  BY DEF Reply
<1>9. QED
  BY <1>2, <1>3, <1>4, <1>5, <1>6, <1>7, <1>8 DEF Sendable, Unsendable

LEMMA SaysFacts ==
    /\ \A c, kind, m : Says([config |-> c], kind, m) =
          IF Refusal(kind, c, m) # Nil THEN ReplyOf(Refusal(kind, c, m), "fault")
          ELSE Reply(kind, c, m)
    /\ \A why, kind, m : Says([failed |-> why], kind, m) = Failure(kind, why)
    /\ \A why, kind : Sendable(Failure(kind, why).status)
BY DEF Says, Failure, ReplyOf, Sendable

LEMMA RefusalFacts ==
    ASSUME NEW kind, NEW c, NEW m, Refusal(kind, c, m) # Nil
    PROVE  Sendable(Refusal(kind, c, m))
<1>1. Refusal(kind, c, m) \in {401, 415, 400, 403, Nil}
  BY DEF Refusal
<1>2. QED
  BY <1>1 DEF Sendable

(* A request is answered: with what may be said, unless it is a sender's   *)
(* that reached its configuration.                                         *)
LEMMA AnswerSound ==
    ASSUME StubInv, UNCHANGED Rest, NEW reply, NEW t,
           \/ request' = AnswerTo(request, reply) /\ t = Nil
           \/ /\ request' = WithTrigger(AnswerTo(request, reply), t)
              /\ request.kind = OfSender,
           Sendable(reply.status) \/ (reply.status = 0 /\ OnlyIfConfigured),
           t = Nil /\ request.kind \in Kinds =>
              \E o \in inForce : reply = Says(o, request.kind, request.message)
    PROVE  StubInv' /\ request'.phase = "answered" /\ request'.trigger = t
           /\ request'.kind = request.kind /\ request'.reply = reply
<1>1. /\ IsRequest(request')
      /\ request'.phase = "answered" /\ request'.kind = request.kind
      /\ request'.message = request.message /\ request'.reply = reply
      /\ request'.served = Nil /\ request'.trigger = t
  <2> DEFINE q == AnswerTo(request, reply)
  <2>2. /\ q = AnswerTo(request, reply)
        /\ \/ request' = q /\ t = Nil
           \/ request' = WithTrigger(q, t)
    OBVIOUS
  <2> HIDE DEF q
  <2>1. /\ IsRequest(q)
        /\ q.phase = "answered" /\ q.kind = request.kind /\ q.message = request.message
        /\ q.reply = reply /\ q.served = Nil /\ q.trigger = Nil
    BY <2>2, AnswerFields
  <2>3. CASE request' = q /\ t = Nil
    BY <2>1, <2>3
  <2>4. CASE request' = WithTrigger(q, t)
    BY <2>1, <2>4, TriggerFields
  <2>5. QED
    BY <2>2, <2>3, <2>4
<1>2. /\ localMode' = localMode /\ hosted' = hosted /\ inForce' = inForce
      /\ overtaken' = overtaken
  BY DEF Rest
<1>3. FetchSound'
  BY <1>1 DEF FetchSound
<1>4. UsesFound' /\ UseIsReported'
  BY <1>1 DEF UsesFound, UseIsReported
<1>5. Asked'
  <2>1. t # Nil => request.kind = OfSender
    OBVIOUS
  <2>2. QED
    BY <1>1, <2>1 DEF Asked
<1>6. ReplySound'
  <2>1. OnlyIfConfigured => OnlyIfConfigured'
    BY <1>1, <1>2 DEF OnlyIfConfigured
  <2>2. QED
    BY <1>1, <2>1 DEF ReplySound
<1>7. AnswerIsCurrent'
  BY <1>1, <1>2 DEF AnswerIsCurrent
<1>8. RequestSound'
  BY <1>1, <1>4, <1>5, <1>6, <1>7 DEF RequestSound, Phases, SenderPhases
<1>9. HostsSound(hosted)'
  BY <1>2 DEF HostsSound, StubInv
<1>10. QED
  BY <1>1, <1>2, <1>3, <1>8, <1>9 DEF StubInv

(* A configuration that was found is answered from.                        *)
LEMMA AnswerFromConfig ==
    ASSUME StubInv, UNCHANGED Rest, NEW reply, Answered(reply),
           request.phase \in {"check", "wait"},
           \/ /\ Refusal(request.kind, request.config, request.message) # Nil
              /\ reply = ReplyOf(Refusal(request.kind, request.config, request.message),
                                 "fault")
           \/ /\ Refusal(request.kind, request.config, request.message) = Nil
              /\ reply = Reply(request.kind, request.config, request.message)
    PROVE  StubInv' /\ request'.phase = "answered" /\ request'.trigger = Nil
<1> DEFINE c == request.config
           o == [config |-> c]
<1>1. c \in AllConfigs /\ o \in inForce
  BY DEF StubInv, RequestSound, UsesFound
<1>2. reply = Says(o, request.kind, request.message)
  BY SaysFacts
<1>3. Sendable(reply.status) \/ (reply.status = 0 /\ OnlyIfConfigured)
  <2>1. CASE reply = Reply(request.kind, c, request.message)
    <3>1. "config" \in DOMAIN o /\ o.config = c
      OBVIOUS
    <3>2. request.kind \in Plain \/ Unsendable(c) => OnlyIfConfigured
      BY <1>1, <3>1 DEF OnlyIfConfigured, Unsendable
    <3>3. \/ Sendable(reply.status)
          \/ reply.status = 0 /\ (request.kind \in Plain \/ Unsendable(c))
      BY <1>1, <2>1, ReplyFacts
    <3>4. QED
      BY <3>2, <3>3
  <2>2. CASE reply # Reply(request.kind, c, request.message)
    <3>1. /\ Refusal(request.kind, request.config, request.message) # Nil
          /\ reply.status = Refusal(request.kind, request.config, request.message)
      BY <2>2 DEF ReplyOf
    <3>2. QED
      BY <3>1, RefusalFacts
  <2>3. QED
    BY <2>1, <2>2
<1>4. request' = AnswerTo(request, reply)
  BY DEF Answered
<1>5. \E e \in inForce : reply = Says(e, request.kind, request.message)
  BY <1>1, <1>2
<1>6. QED
  BY <1>3, <1>4, <1>5, AnswerSound

LEMMA ReceiveStep ==
    ASSUME StubInv, NEW pod \in Pods, NEW segment, NEW m, Receive(pod, segment, m)
    PROVE  StubInv' /\ request'.phase \in {"fetch", "answered"} /\ request'.trigger = Nil
<1> DEFINE id == resolveAdapterID(pod, segment)
           r == [NoRequest EXCEPT !.phase = "fetch", !.kind = pod.kind, !.id = id,
                                  !.message = m, !.reported = ReportedAs(pod, id, m)]
<1>1. /\ IsRequest(r) /\ r.phase = "fetch" /\ r.kind = pod.kind /\ r.id = id
      /\ r.message = m /\ r.reported = ReportedAs(pod, id, m)
      /\ r.served = Nil /\ r.trigger = Nil /\ r.byType = FALSE
  <2> DEFINE kind == pod.kind
             as == ReportedAs(pod, id, m)
  <2>1. r = [NoRequest EXCEPT !.phase = "fetch", !.kind = kind, !.id = id,
                              !.message = m, !.reported = as]
    OBVIOUS
  <2> HIDE DEF r, kind, id, as
  <2>2. /\ IsRequest(r) /\ r.phase = "fetch" /\ r.kind = kind /\ r.id = id
        /\ r.message = m /\ r.reported = as
        /\ r.served = Nil /\ r.trigger = Nil
    <3>1. IsRequest(r)
      BY <2>1, NoRequestFields DEF IsRequest
    <3>2. QED
      BY <2>1, <3>1 DEF NoRequest
  <2>3. r.byType = FALSE
    BY <2>1 DEF NoRequest
  <2>4. QED
    BY <2>2, <2>3 DEF kind, as, id
<1> HIDE DEF r
<1>2. /\ request' = IF pod.kind \in PostOnly /\ ~m.post
                    THEN AnswerTo(r, ReplyOf(405, "fault")) ELSE r
      /\ inForce' = Addressed(hosted, id, FALSE) \cup {[failed |-> Unreachable]}
      /\ localMode' = localMode /\ hosted' = hosted /\ overtaken' = overtaken
      /\ request.phase = "none"
  BY DEF Receive, r
<1>3. pod.kind \in Kinds
  BY StubAssumption
<1>4. overtaken = FALSE
  BY <1>2 DEF StubInv, FetchSound
<1>5. inForce' \subseteq Found \cup Lost
  <2>1. HostsSound(hosted)
    BY DEF StubInv
  <2>2. Addressed(hosted, id, FALSE) \subseteq Found \cup Lost
    BY <2>1, AddressedFacts
  <2>3. QED
    BY <1>2, <2>2 DEF Lost
<1>6. HostsSound(hosted)'
  BY <1>2 DEF StubInv, HostsSound
<1> SUFFICES FetchSound' /\ RequestSound' /\ request'.phase \in {"fetch", "answered"}
             /\ request'.trigger = Nil
  BY <1>2, <1>4, <1>5, <1>6 DEF StubInv
<1>7. CASE pod.kind \in PostOnly /\ ~m.post
  <2>1. request' = AnswerTo(r, ReplyOf(405, "fault"))
    BY <1>2, <1>7
  <2>2. /\ IsRequest(request') /\ request'.phase = "answered"
        /\ request'.kind = pod.kind /\ request'.message = m
        /\ request'.reply = ReplyOf(405, "fault") /\ request'.served = Nil
        /\ request'.trigger = Nil
    <3> DEFINE q == request'
    <3>1. q = AnswerTo(r, ReplyOf(405, "fault"))
      BY <2>1
    <3> HIDE DEF q
    <3>2. QED
      BY <1>1, <3>1, AnswerFields DEF q
  <2>3. FetchSound'
    BY <2>2 DEF FetchSound
  <2>4. UsesFound' /\ UseIsReported' /\ Asked'
    BY <2>2 DEF UsesFound, UseIsReported, Asked
  <2>5. ReplySound' /\ AnswerIsCurrent'
    BY <1>7, <2>2 DEF ReplySound, AnswerIsCurrent, ReplyOf, Sendable
  <2>6. QED
    BY <2>2, <2>3, <2>4, <2>5 DEF RequestSound, Phases
<1>8. CASE ~(pod.kind \in PostOnly /\ ~m.post)
  <2>1. request' = r
    BY <1>2, <1>8
  <2>2. FetchSound'
    <3>1. Addressed(hosted, request.id, overtaken)' = Addressed(hosted, id, FALSE)
      BY <1>1, <1>2, <1>4, <2>1 DEF Addressed, ByType
    <3>2. QED
      BY <1>1, <1>2, <1>4, <2>1, <3>1 DEF FetchSound
  <2>3. pod.kind = OfSender => m.post
    BY <1>8 DEF PostOnly
  <2>4. r.reported = r.id \/ IsMetadata(r.kind, r.message)
    BY <1>1, <2>3 DEF ReportedAs, Reports
  <2>5. Asked'
    BY <1>1, <1>3, <2>1, <2>3, <2>4 DEF Asked
  <2>6. UsesFound' /\ UseIsReported' /\ ReplySound' /\ AnswerIsCurrent'
    BY <1>1, <2>1 DEF UsesFound, UseIsReported, ReplySound, AnswerIsCurrent
  <2>7. QED
    BY <1>1, <2>1, <2>2, <2>5, <2>6 DEF RequestSound, Phases
<1>9. QED
  BY <1>7, <1>8

LEMMA FetchConfigStep ==
    ASSUME StubInv, FetchConfig
    PROVE  StubInv' /\ request'.phase = "answered" /\ request'.trigger = Nil
<1> DEFINE reply == Failure(request.kind, Unreachable)
           o == [failed |-> Unreachable]
<1>1. request' = AnswerTo(request, reply) /\ UNCHANGED Rest
  BY DEF FetchConfig, Answered
<1>2. o \in inForce
  BY DEF FetchConfig, StubInv, FetchSound
<1>3. reply = Says(o, request.kind, request.message) /\ Sendable(reply.status)
  BY SaysFacts
<1> HIDE DEF reply
<1>4. QED
  BY <1>1, <1>2, <1>3, AnswerSound

LEMMA HandleAdapterConfigStep ==
    ASSUME StubInv, HandleAdapterConfig
    PROVE  StubInv' /\ request'.phase = "lookup" /\ request'.trigger = Nil
<1>1. /\ localMode' = localMode /\ hosted' = hosted /\ inForce' = inForce
      /\ overtaken' = overtaken /\ request.phase = "fetch"
  BY DEF HandleAdapterConfig, Rest
<1>2. PICK cells \in SetToSeqs(Cells) :
         request' = LookingUp(request, cells)
  BY DEF HandleAdapterConfig, LookingUp
<1>3. /\ IsRequest(request) /\ HostsSound(hosted) /\ request.byType = FALSE
      /\ overtaken = FALSE /\ request.trigger = Nil
  BY <1>1 DEF StubInv, RequestSound, FetchSound, Asked
<1>4. /\ IsRequest(request') /\ request'.phase = "lookup" /\ request'.next = 1
      /\ request'.cells = cells /\ request'.kind = request.kind
      /\ request'.id = request.id /\ request'.message = request.message
      /\ request'.byType = request.byType /\ request'.reported = request.reported
      /\ request'.served = request.served /\ request'.trigger = request.trigger
  BY <1>2, <1>3, LookupFields
<1>5. /\ Len(cells) \in Nat
      /\ \A k \in 1 .. Len(cells) :
            /\ cells[k] = <<cells[k][1], cells[k][2]>>
            /\ cells[k][1] \in DOMAIN hosted
            /\ cells[k][2] \in 1 .. hosted[cells[k][1]].len
      /\ \A s \in DOMAIN hosted : \A i \in 1 .. hosted[s].len :
            \E k \in 1 .. Len(cells) : cells[k] = <<s, i>>
  BY <1>3, CellsAreComplete
<1>6. /\ Addressed(hosted, request.id, FALSE) \subseteq inForce
      /\ [failed |-> Unreachable] \in inForce
  BY <1>1, <1>3 DEF StubInv, FetchSound
<1>7. Addressed(hosted, request.id, overtaken)' = Addressed(hosted, request.id, FALSE)
  BY <1>1, <1>3, <1>4 DEF Addressed, ByType
<1>8. \A s, i, x : /\ At(<<s, i>>)' = hosted[s].array[i]
                   /\ HasId(x)' <=> x.id = request.id
                   /\ Live(s, i)' <=> Live(s, i)
  BY <1>1, <1>4 DEF At, HasId, Live
<1>9. LookupSound'
  <2>1. ASSUME NEW k \in 1 .. Len(cells)
        PROVE  /\ cells[k] = <<cells[k][1], cells[k][2]>>
               /\ cells[k][1] \in DOMAIN hosted
               /\ cells[k][2] \in 1 .. Len(hosted[cells[k][1]].array)
               /\ Live(cells[k][1], cells[k][2])
               /\ hosted[cells[k][1]].array[cells[k][2]].id = request.id =>
                     [config |-> hosted[cells[k][1]].array[cells[k][2]].config] \in inForce
    <3> DEFINE s == cells[k][1]
               i == cells[k][2]
    <3>1. s \in DOMAIN hosted /\ i \in 1 .. hosted[s].len /\ cells[k] = <<s, i>>
      BY <1>5
    <3> HIDE DEF s, i
    <3>2. i \in 1 .. Len(hosted[s].array)
      BY <1>3, <3>1, SliceFacts
    <3>3. hosted[s].array[i].id = request.id => [config |-> hosted[s].array[i].config] \in inForce
      BY <1>3, <1>6, <3>1, AddressedFacts
    <3>4. QED
      BY <3>1, <3>2, <3>3 DEF s, i, Live
  <2>2. ASSUME NEW s \in DOMAIN hosted, NEW i \in 1 .. hosted[s].len
        PROVE  Ahead(s, i)'
    BY <1>4, <1>5 DEF Ahead
  <2>3. (/\ request.next \in 1 .. (Len(request.cells) + 1) /\ Len(request.cells) \in Nat
         /\ request.byType \in BOOLEAN
         /\ request.byType => localMode /\ request.id \in DOMAIN localIDToType)'
    <3>1. request'.next \in 1 .. (Len(request'.cells) + 1) /\ Len(request'.cells) \in Nat
      BY <1>4, <1>5
    <3>2. request'.byType = FALSE
      BY <1>3, <1>4
    <3>3. QED
      BY <3>1, <3>2
  <2>4. (\A k \in 1 .. Len(request.cells) :
            /\ request.cells[k] = <<request.cells[k][1], request.cells[k][2]>>
            /\ request.cells[k][1] \in DOMAIN hosted
            /\ request.cells[k][2] \in 1 .. Len(hosted[request.cells[k][1]].array)
            /\ HasId(At(request.cells[k])) =>
                  [config |-> At(request.cells[k]).config] \in inForce
            /\ StandsIn(At(request.cells[k])) =>
                  IF overtaken THEN [config |-> At(request.cells[k]).config] \in inForce
                  ELSE Live(request.cells[k][1], request.cells[k][2]))'
    BY <1>1, <1>3, <1>4, <1>8, <2>1 DEF At
  <2>5. (\A s \in DOMAIN hosted : \A i \in 1 .. hosted[s].len :
            \E k \in 1 .. Len(request.cells) : request.cells[k] = <<s, i>>)'
    BY <1>1, <1>4, <1>5
  <2>6. (~overtaken => \A s \in DOMAIN hosted : \A i \in 1 .. hosted[s].len :
            LET x == hosted[s].array[i]
            IN  IF request.byType
                THEN ~HasId(x) /\ (StandsIn(x) => Ahead(s, i))
                ELSE HasId(x) => Ahead(s, i))'
    BY <1>1, <1>3, <1>4, <2>2
  <2>7. QED
    BY <2>3, <2>4, <2>5, <2>6 DEF LookupSound
<1>10. FetchSound'
  BY <1>1, <1>3, <1>4, <1>6, <1>7, <1>9 DEF FetchSound
<1>11. RequestSound'
  <2>1. Asked'
    BY <1>1, <1>3, <1>4 DEF Asked, StubInv, RequestSound
  <2>2. UsesFound' /\ ReplySound' /\ AnswerIsCurrent' /\ UseIsReported'
    BY <1>1, <1>4 DEF UsesFound, ReplySound, AnswerIsCurrent, UseIsReported,
                      Asked, StubInv, RequestSound
  <2>3. QED
    BY <1>4, <2>1, <2>2 DEF RequestSound, Phases
<1>12. HostsSound(hosted)'
  BY <1>1, <1>3 DEF HostsSound
<1>13. QED
  BY <1>1, <1>3, <1>4, <1>10, <1>11, <1>12 DEF StubInv

(* An element that matches is one that may be found.                       *)
LEMMA MatchIsCurrent ==
    ASSUME StubInv, request.phase = "lookup",
           NEW k \in 1 .. Len(request.cells), Matches(At(request.cells[k]))
    PROVE  [config |-> At(request.cells[k]).config] \in inForce
<1> DEFINE s == request.cells[k][1]
           i == request.cells[k][2]
           x == At(request.cells[k])
<1>1. LookupSound /\ HostsSound(hosted) /\ overtaken \in BOOLEAN
      /\ Addressed(hosted, request.id, overtaken) \subseteq inForce
  BY DEF StubInv, FetchSound
<1>2. /\ HasId(x) => [config |-> x.config] \in inForce
      /\ StandsIn(x) => IF overtaken THEN [config |-> x.config] \in inForce ELSE Live(s, i)
      /\ x = hosted[s].array[i]
  BY <1>1 DEF LookupSound, At
<1>3. CASE ~request.byType
  BY <1>2, <1>3 DEF Matches, HasId
<1>4. CASE request.byType
  <2>1. StandsIn(x)
    BY <1>4 DEF Matches, StandsIn
  <2>2. CASE overtaken
    BY <1>2, <2>1, <2>2
  <2>3. CASE ~overtaken
    <3>1. \A t \in DOMAIN hosted : \A j \in 1 .. hosted[t].len : hosted[t].array[j].id # request.id
      BY <1>1, <1>4, <2>3 DEF LookupSound, HasId
    <3>2. s \in DOMAIN hosted /\ i \in 1 .. hosted[s].len
      BY <1>2, <2>1, <2>3 DEF Live
    <3>3. x.status = "running" /\ ByType(x, request.id)
      BY <2>1 DEF StandsIn
    <3> HIDE DEF s, i
    <3>4. [config |-> hosted[s].array[i].config] \in Addressed(hosted, request.id, overtaken)
      BY <1>1, <1>2, <3>1, <3>2, <3>3, AddressedFacts
    <3>5. QED
      BY <1>1, <1>2, <3>4
  <2>4. QED
    BY <2>2, <2>3
<1>5. QED
  BY <1>3, <1>4

LEMMA LookupGoesOn ==
    ASSUME StubInv, UNCHANGED Rest, request.phase = "lookup",
           IsRequest(request'), LookupSound',
           request'.phase = "lookup", request'.kind = request.kind,
           request'.id = request.id, request'.message = request.message,
           request'.reported = request.reported, request'.served = request.served,
           request'.trigger = request.trigger
    PROVE  StubInv'
<1>1. /\ localMode' = localMode /\ hosted' = hosted /\ inForce' = inForce
      /\ overtaken' = overtaken
  BY DEF Rest
<1>2. Addressed(hosted, request.id, overtaken)' = Addressed(hosted, request.id, overtaken)
  BY <1>1 DEF Addressed, ByType
<1>3. FetchSound'
  BY <1>1, <1>2 DEF FetchSound, StubInv
<1>4. Asked'
  BY DEF Asked, StubInv, RequestSound
<1>5. UsesFound' /\ ReplySound' /\ AnswerIsCurrent' /\ UseIsReported'
  BY DEF UsesFound, ReplySound, AnswerIsCurrent, UseIsReported, Asked, StubInv, RequestSound
<1>6. RequestSound'
  BY <1>4, <1>5 DEF RequestSound, Phases
<1>7. HostsSound(hosted)'
  BY <1>1 DEF HostsSound, StubInv
<1>8. QED
  BY <1>1, <1>3, <1>6, <1>7 DEF StubInv

LEMMA ExamineStep ==
    ASSUME StubInv, Examine
    PROVE  StubInv' /\ request'.phase \in {"lookup", "check"} /\ request'.trigger = Nil
<1> DEFINE k == request.next
           cells == request.cells
           id == request.id
           x == At(cells[k])
<1>1. /\ localMode' = localMode /\ hosted' = hosted /\ inForce' = inForce
      /\ overtaken' = overtaken /\ request.phase = "lookup" /\ k <= Len(cells)
      /\ UNCHANGED Rest
  BY DEF Examine, Rest
<1>2. /\ IsRequest(request) /\ HostsSound(hosted) /\ LookupSound /\ Asked
      /\ request.trigger = Nil /\ request.served = Nil
  BY <1>1 DEF StubInv, RequestSound, FetchSound, Asked
<1>3. k \in 1 .. Len(cells) /\ Len(cells) \in Nat
  BY <1>1, <1>2 DEF LookupSound
<1>4. CASE Matches(x)
  <2>1. request' = HavingFound(request, x.config, x.id)
    BY <1>4 DEF Examine, HavingFound, At
  <2>2. /\ IsRequest(request') /\ request'.phase = "check"
        /\ request'.config = x.config /\ request'.served = x.id
        /\ request'.kind = request.kind /\ request'.message = request.message
        /\ request'.byType = request.byType /\ request'.reported = request.reported
        /\ request'.trigger = request.trigger
    BY <1>2, <2>1, FoundFields
  <2>3. [config |-> x.config] \in inForce
    BY <1>1, <1>3, <1>4, MatchIsCurrent
  <2>4. x.config \in AllConfigs
    <3> DEFINE s == cells[k][1]
               i == cells[k][2]
    <3>1. s \in DOMAIN hosted /\ i \in 1 .. Len(hosted[s].array) /\ x = hosted[s].array[i]
      BY <1>2, <1>3 DEF LookupSound, At
    <3> HIDE DEF s, i, x
    <3>2. x \in Adapters
      BY <1>2, <3>1, SliceFacts
    <3>3. QED
      BY <3>2, AdapterFacts
  <2>5. UsesFound'
    BY <1>1, <2>2, <2>3, <2>4 DEF UsesFound
  <2>6. Asked'
    BY <1>1, <1>2, <2>2 DEF Asked
  <2>7. UseIsReported'
    BY <1>1, <1>2, <1>4, <2>2 DEF UseIsReported, Asked, Matches
  <2>8. ReplySound' /\ AnswerIsCurrent' /\ FetchSound'
    BY <2>2 DEF ReplySound, AnswerIsCurrent, FetchSound
  <2>9. RequestSound'
    BY <2>2, <2>5, <2>6, <2>7, <2>8 DEF RequestSound, Phases
  <2>10. HostsSound(hosted)'
    BY <1>1, <1>2 DEF HostsSound
  <2>11. QED
    BY <1>1, <1>2, <2>2, <2>8, <2>9, <2>10 DEF StubInv
<1>5. CASE ~Matches(x)
  <2>1. request' = LookingOn(request)
    BY <1>5 DEF Examine, LookingOn, At
  <2>2. /\ IsRequest(request') /\ request'.next = k + 1
        /\ request'.byType = request.byType /\ request'.phase = request.phase
        /\ request'.kind = request.kind /\ request'.id = request.id
        /\ request'.message = request.message /\ request'.cells = cells
        /\ request'.reported = request.reported /\ request'.served = request.served
        /\ request'.trigger = request.trigger
    BY <1>2, <2>1, LookOnFields
  <2>3. \A y : (HasId(y)' <=> HasId(y)) /\ (StandsIn(y)' <=> StandsIn(y))
    BY <1>1, <2>2 DEF HasId, StandsIn, ByType
  <2>4. ASSUME NEW s, NEW i, Ahead(s, i), ~Ahead(s, i)'
        PROVE  cells[k] = <<s, i>>
    <3>1. PICK j \in k .. Len(cells) : cells[j] = <<s, i>>
      BY <2>4 DEF Ahead
    <3>2. ~(j \in (k + 1) .. Len(cells))
      BY <2>2, <2>4, <3>1 DEF Ahead
    <3>3. QED
      BY <1>3, <3>1, <3>2
  <2>5. ASSUME NEW s, NEW i, cells[k] = <<s, i>>
        PROVE  x = hosted[s].array[i]
    BY <2>5 DEF At
  <2>6. IF request.byType THEN ~StandsIn(x) ELSE ~HasId(x)
    BY <1>5 DEF Matches, StandsIn, HasId
  <2>7. (~overtaken => \A s \in DOMAIN hosted : \A i \in 1 .. hosted[s].len :
            LET y == hosted[s].array[i]
            IN  IF request.byType
                THEN ~HasId(y) /\ (StandsIn(y) => Ahead(s, i))
                ELSE HasId(y) => Ahead(s, i))'
    <3> SUFFICES ASSUME ~overtaken, NEW s \in DOMAIN hosted, NEW i \in 1 .. hosted[s].len
                 PROVE  LET y == hosted[s].array[i]
                        IN  IF request.byType
                            THEN ~HasId(y) /\ (StandsIn(y) => Ahead(s, i)')
                            ELSE HasId(y) => Ahead(s, i)'
      BY <1>1, <2>2, <2>3
    <3>1. LET y == hosted[s].array[i]
          IN  IF request.byType
              THEN ~HasId(y) /\ (StandsIn(y) => Ahead(s, i))
              ELSE HasId(y) => Ahead(s, i)
      BY <1>2 DEF LookupSound
    <3> HIDE DEF x
    <3>2. QED
      BY <2>4, <2>5, <2>6, <3>1
  <2>8. LookupSound'
    <3>1. \A c : At(c)' = At(c)
      BY <1>1 DEF At
    <3>2. \A s, i : Live(s, i)' <=> Live(s, i)
      BY <1>1 DEF Live
    <3>3. request'.next \in 1 .. (Len(cells) + 1)
      BY <1>3, <2>2
    <3>4. (\A j \in 1 .. Len(request.cells) :
              /\ request.cells[j] = <<request.cells[j][1], request.cells[j][2]>>
              /\ request.cells[j][1] \in DOMAIN hosted
              /\ request.cells[j][2] \in 1 .. Len(hosted[request.cells[j][1]].array)
              /\ HasId(At(request.cells[j])) =>
                    [config |-> At(request.cells[j]).config] \in inForce
              /\ StandsIn(At(request.cells[j])) =>
                    IF overtaken THEN [config |-> At(request.cells[j]).config] \in inForce
                    ELSE Live(request.cells[j][1], request.cells[j][2]))'
      <4>1. \A j \in 1 .. Len(cells) :
               /\ cells[j] = <<cells[j][1], cells[j][2]>>
               /\ cells[j][1] \in DOMAIN hosted
               /\ cells[j][2] \in 1 .. Len(hosted[cells[j][1]].array)
               /\ HasId(At(cells[j])) => [config |-> At(cells[j]).config] \in inForce
               /\ StandsIn(At(cells[j])) =>
                     IF overtaken THEN [config |-> At(cells[j]).config] \in inForce
                     ELSE Live(cells[j][1], cells[j][2])
        BY <1>2 DEF LookupSound
      <4>2. QED
        BY <1>1, <2>2, <2>3, <3>1, <3>2, <4>1
    <3>5. (/\ request.next \in 1 .. (Len(request.cells) + 1)
           /\ Len(request.cells) \in Nat
           /\ request.byType \in BOOLEAN
           /\ \A s \in DOMAIN hosted : \A i \in 1 .. hosted[s].len :
                 \E j \in 1 .. Len(request.cells) : request.cells[j] = <<s, i>>
           /\ request.byType => localMode /\ request.id \in DOMAIN localIDToType)'
      <4>1. /\ request.byType \in BOOLEAN
            /\ request.byType => localMode /\ id \in DOMAIN localIDToType
            /\ \A s \in DOMAIN hosted : \A i \in 1 .. hosted[s].len :
                  \E j \in 1 .. Len(cells) : cells[j] = <<s, i>>
        BY <1>2 DEF LookupSound
      <4>2. request'.byType = request.byType /\ request'.id = id /\ request'.cells = cells
        BY <2>2
      <4> HIDE DEF cells, id
      <4>3. QED
        BY <1>1, <1>3, <3>3, <4>1, <4>2
    <3>6. QED
      BY <2>7, <3>4, <3>5 DEF LookupSound
  <2>9. QED
    BY <1>1, <1>2, <2>2, <2>8, LookupGoesOn
<1>6. QED
  BY <1>4, <1>5

(* Nobody has the id: the lookup goes on by type, or no adapter is found.  *)
LEMMA LookFurtherStep ==
    ASSUME StubInv, LookFurther
    PROVE  StubInv' /\ request'.phase \in {"lookup", "answered"} /\ request'.trigger = Nil
<1> DEFINE cells == request.cells
           id == request.id
<1>1. /\ localMode' = localMode /\ hosted' = hosted /\ inForce' = inForce
      /\ overtaken' = overtaken /\ request.phase = "lookup" /\ request.next > Len(cells)
      /\ UNCHANGED Rest
  BY DEF LookFurther, Rest
<1>2. /\ IsRequest(request) /\ HostsSound(hosted) /\ LookupSound
      /\ request.trigger = Nil /\ overtaken \in BOOLEAN /\ localMode \in BOOLEAN
      /\ Addressed(hosted, id, overtaken) \subseteq inForce
  BY <1>1 DEF StubInv, RequestSound, FetchSound, Asked
<1>3. \A s, i : ~Ahead(s, i)
  BY <1>1, <1>2 DEF Ahead, LookupSound
<1>4. ~overtaken => \A s \in DOMAIN hosted : \A i \in 1 .. hosted[s].len :
         /\ ~HasId(hosted[s].array[i])
         /\ request.byType => ~StandsIn(hosted[s].array[i])
  BY <1>2, <1>3 DEF LookupSound
<1>5. CASE localMode /\ ~request.byType /\ id \in DOMAIN localIDToType
  <2>1. request' = LookingByType(request)
    BY <1>5 DEF LookFurther, LookingByType
  <2>2. /\ IsRequest(request') /\ request'.next = 1 /\ request'.byType = TRUE
        /\ request'.phase = request.phase /\ request'.kind = request.kind
        /\ request'.id = id /\ request'.message = request.message
        /\ request'.cells = cells /\ request'.reported = request.reported
        /\ request'.served = request.served /\ request'.trigger = request.trigger
    BY <1>2, <2>1, LookByTypeFields
  <2>3. \A y : (HasId(y)' <=> HasId(y)) /\ (StandsIn(y)' <=> StandsIn(y))
    BY <1>1, <2>2 DEF HasId, StandsIn, ByType
  <2>4. \A s \in DOMAIN hosted : \A i \in 1 .. hosted[s].len : Ahead(s, i)'
    <3>1. \A s \in DOMAIN hosted : \A i \in 1 .. hosted[s].len :
             \E j \in 1 .. Len(cells) : cells[j] = <<s, i>>
      BY <1>2 DEF LookupSound
    <3>2. request'.cells = cells /\ request'.next = 1
      BY <2>2
    <3>3. QED
      BY <3>1, <3>2 DEF Ahead
  <2>5. (~overtaken => \A s \in DOMAIN hosted : \A i \in 1 .. hosted[s].len :
            LET y == hosted[s].array[i]
            IN  IF request.byType
                THEN ~HasId(y) /\ (StandsIn(y) => Ahead(s, i))
                ELSE HasId(y) => Ahead(s, i))'
    BY <1>1, <1>4, <2>2, <2>3, <2>4
  <2>6. LookupSound'
    <3>1. \A c : At(c)' = At(c)
      BY <1>1 DEF At
    <3>2. \A s, i : Live(s, i)' <=> Live(s, i)
      BY <1>1 DEF Live
    <3>3. (\A j \in 1 .. Len(request.cells) :
              /\ request.cells[j] = <<request.cells[j][1], request.cells[j][2]>>
              /\ request.cells[j][1] \in DOMAIN hosted
              /\ request.cells[j][2] \in 1 .. Len(hosted[request.cells[j][1]].array)
              /\ HasId(At(request.cells[j])) =>
                    [config |-> At(request.cells[j]).config] \in inForce
              /\ StandsIn(At(request.cells[j])) =>
                    IF overtaken THEN [config |-> At(request.cells[j]).config] \in inForce
                    ELSE Live(request.cells[j][1], request.cells[j][2]))'
      <4>1. \A j \in 1 .. Len(cells) :
               /\ cells[j] = <<cells[j][1], cells[j][2]>>
               /\ cells[j][1] \in DOMAIN hosted
               /\ cells[j][2] \in 1 .. Len(hosted[cells[j][1]].array)
               /\ HasId(At(cells[j])) => [config |-> At(cells[j]).config] \in inForce
               /\ StandsIn(At(cells[j])) =>
                     IF overtaken THEN [config |-> At(cells[j]).config] \in inForce
                     ELSE Live(cells[j][1], cells[j][2])
        BY <1>2 DEF LookupSound
      <4>2. QED
        BY <1>1, <2>2, <2>3, <3>1, <3>2, <4>1
    <3>4. Len(cells) \in Nat
      BY <1>2 DEF LookupSound
    <3>5. (/\ request.next \in 1 .. (Len(request.cells) + 1)
           /\ Len(request.cells) \in Nat
           /\ request.byType \in BOOLEAN
           /\ \A s \in DOMAIN hosted : \A i \in 1 .. hosted[s].len :
                 \E j \in 1 .. Len(request.cells) : request.cells[j] = <<s, i>>
           /\ request.byType => localMode /\ request.id \in DOMAIN localIDToType)'
      <4>1. \A s \in DOMAIN hosted : \A i \in 1 .. hosted[s].len :
               \E j \in 1 .. Len(cells) : cells[j] = <<s, i>>
        BY <1>2 DEF LookupSound
      <4>2. /\ request'.byType = TRUE /\ request'.id = id /\ request'.cells = cells
            /\ request'.next = 1
        BY <2>2
      <4>3. localMode /\ id \in DOMAIN localIDToType
        BY <1>5
      <4> HIDE DEF cells, id
      <4>4. request'.next \in 1 .. (Len(request'.cells) + 1)
        BY <3>4, <4>2
      <4>5. request'.byType \in BOOLEAN
        BY <4>2
      <4>6. localMode' /\ request'.id \in DOMAIN localIDToType
        BY <1>1, <4>2, <4>3
      <4>7. \A s \in DOMAIN hosted' : \A i \in 1 .. hosted'[s].len :
               \E j \in 1 .. Len(request'.cells) : request'.cells[j] = <<s, i>>
        <5>1. hosted' = hosted /\ request'.cells = cells
          BY <1>1, <4>2
        <5>2. QED
          BY <4>1, <5>1
      <4>8. QED
        BY <3>4, <4>2, <4>4, <4>5, <4>6, <4>7
    <3>6. QED
      BY <2>5, <3>3, <3>5 DEF LookupSound
  <2>7. QED
    BY <1>1, <1>2, <2>2, <2>6, LookupGoesOn
<1>6. CASE ~(localMode /\ ~request.byType /\ id \in DOMAIN localIDToType)
  <2> DEFINE reply == Failure(request.kind, NotFound)
             o == [failed |-> NotFound]
  <2>1. request' = AnswerTo(request, reply)
    BY <1>6 DEF LookFurther, Missing, Answered
  <2>2. o \in inForce
    <3>1. CASE overtaken
      BY <1>2, <3>1, AddressedFacts
    <3>2. CASE ~overtaken
      <4>1. \A s \in DOMAIN hosted : \A i \in 1 .. hosted[s].len :
               /\ hosted[s].array[i].id # id
               /\ ~(hosted[s].array[i].status = "running" /\ ByType(hosted[s].array[i], id))
        <5> SUFFICES ASSUME NEW s \in DOMAIN hosted, NEW i \in 1 .. hosted[s].len
                     PROVE  /\ hosted[s].array[i].id # id
                            /\ ~(hosted[s].array[i].status = "running"
                                 /\ ByType(hosted[s].array[i], id))
          OBVIOUS
        <5>1. ~HasId(hosted[s].array[i])
          BY <1>4, <3>2
        <5>2. CASE request.byType
          BY <1>4, <3>2, <5>1, <5>2 DEF HasId, StandsIn
        <5>3. CASE ~request.byType
          BY <1>6, <5>1, <5>3 DEF HasId, ByType
        <5>4. QED
          BY <5>2, <5>3
      <4>2. QED
        BY <1>2, <4>1, AddressedFacts
    <3>3. QED
      BY <3>1, <3>2
  <2>3. reply = Says(o, request.kind, request.message) /\ Sendable(reply.status)
    BY SaysFacts
  <2> HIDE DEF reply
  <2>4. QED
    BY <1>1, <2>1, <2>2, <2>3, AnswerSound
<1>7. QED
  BY <1>5, <1>6

LEMMA CheckStep ==
    ASSUME StubInv, Check
    PROVE  StubInv' /\ request'.phase \in {"wait", "answered"} /\ request'.trigger = Nil
<1> DEFINE no == Refusal(request.kind, request.config, request.message)
<1>1. /\ localMode' = localMode /\ hosted' = hosted /\ inForce' = inForce
      /\ overtaken' = overtaken /\ request.phase = "check" /\ request.kind # OfSender
      /\ UNCHANGED Rest
  BY DEF Check, Rest
<1>2. CASE no # Nil
  <2>1. Answered(ReplyOf(no, "fault"))
    BY <1>2 DEF Check
  <2>2. QED
    BY <1>1, <1>2, <2>1, AnswerFromConfig
<1>3. CASE no = Nil /\ Waits(request.kind, request.config)
  <2>1. request' = Waiting(request)
    BY <1>3 DEF Check, Waiting
  <2>2. IsRequest(request)
    BY DEF StubInv, RequestSound
  <2>3. /\ IsRequest(request') /\ request'.phase = "wait"
        /\ request'.kind = request.kind /\ request'.message = request.message
        /\ request'.byType = request.byType /\ request'.config = request.config
        /\ request'.reported = request.reported /\ request'.served = request.served
        /\ request'.trigger = request.trigger
    BY <2>1, <2>2, WaitFields
  <2>4. request.trigger = Nil
    BY <1>1 DEF StubInv, RequestSound, Asked
  <2>5. UsesFound'
    BY <1>1, <1>3, <2>3 DEF UsesFound, StubInv, RequestSound
  <2>6. Asked' /\ UseIsReported'
    BY <1>1, <2>3 DEF Asked, UseIsReported, StubInv, RequestSound
  <2>7. ReplySound' /\ AnswerIsCurrent' /\ FetchSound'
    BY <2>3 DEF ReplySound, AnswerIsCurrent, FetchSound
  <2>8. RequestSound'
    BY <2>3, <2>5, <2>6, <2>7 DEF RequestSound, Phases
  <2>9. HostsSound(hosted)'
    BY <1>1 DEF HostsSound, StubInv
  <2>10. QED
    BY <1>1, <2>3, <2>4, <2>7, <2>8, <2>9 DEF StubInv
<1>4. CASE no = Nil /\ ~Waits(request.kind, request.config)
  <2>1. Answered(Reply(request.kind, request.config, request.message))
    BY <1>4 DEF Check
  <2>2. QED
    BY <1>1, <1>4, <2>1, AnswerFromConfig
<1>5. QED
  BY <1>2, <1>3, <1>4

LEMMA WakeStep ==
    ASSUME StubInv, Wake
    PROVE  StubInv' /\ request'.phase = "answered" /\ request'.trigger = Nil
<1>1. Refusal(request.kind, request.config, request.message) = Nil
  BY DEF Wake, StubInv, RequestSound, UsesFound
<1>2. QED
  BY <1>1, AnswerFromConfig DEF Wake

LEMMA DepartStep ==
    ASSUME StubInv, Depart
    PROVE  StubInv' /\ request'.phase = "none" /\ request'.trigger = Nil
<1>1. /\ request' = NoRequest /\ inForce' = {} /\ overtaken' = FALSE
      /\ localMode' = localMode /\ hosted' = hosted
  BY DEF Depart
<1>2. /\ IsRequest(request') /\ request'.phase = "none" /\ request'.served = Nil
      /\ request'.trigger = Nil /\ request'.kind = Nil
  BY <1>1, NoRequestFields
<1>3. FetchSound'
  BY <1>1, <1>2 DEF FetchSound
<1>4. RequestSound'
  BY <1>2 DEF RequestSound, Phases, UsesFound, Asked, ReplySound, AnswerIsCurrent,
              UseIsReported
<1>5. HostsSound(hosted)'
  BY <1>1 DEF HostsSound, StubInv
<1>6. QED
  BY <1>1, <1>2, <1>3, <1>4, <1>5 DEF StubInv

-----------------------------------------------------------------------------
(* The steps of a sender.                                                  *)

LEMMA TriggersAreRecords == Nil \notin Outgoing /\ Nil \notin Triggers
BY SenderAssumption

(* Fields of a trigger and of what it holds.                               *)
LEMMA TriggerTypes ==
    ASSUME NEW t \in Triggers
    PROVE  /\ t # Nil
           /\ t.token \in STRING \cup {Nil} /\ t.cookie \in STRING \cup {Nil}
           /\ t.transit \in Outgoing \cup {Nil}
           /\ t.answer \in Answers \cup {Nil}
           /\ t.status \in Nat \cup {Nil}
           /\ t.session \in Sessions \cup {Nil}
           /\ t.handled \in Seq(Handled) /\ Len(t.handled) \in Nat
           /\ DOMAIN t.handled = 1 .. Len(t.handled)
           /\ \A i \in 1 .. Len(t.handled) : t.handled[i] \in Handled
<1>1. /\ t.token \in STRING \cup {Nil} /\ t.cookie \in STRING \cup {Nil}
      /\ t.transit \in Outgoing \cup {Nil}
      /\ t.answer \in Answers \cup {Nil}
      /\ t.status \in Nat \cup {Nil}
      /\ t.session \in Sessions \cup {Nil}
      /\ t.handled \in Seq(Handled)
  BY DEF Triggers
<1>2. QED
  BY <1>1, TriggersAreRecords

(* A step that ends without a trigger, and one that leaves it alone.       *)
LEMMA NotTriggered ==
    ASSUME StubInv', request'.trigger = Nil, request'.phase \notin {"token", "call"}
    PROVE  SenderInv'
BY DEF SenderInv, Triggered, trigger

LEMMA TriggerStays ==
    ASSUME SenderInv, StubInv', UNCHANGED request, inForce \subseteq inForce'
    PROVE  SenderInv'
<1>1. trigger' = trigger /\ (Triggered' <=> Triggered)
  BY DEF trigger, Triggered
<1>2. TriggerSound(trigger) => TriggerSound(trigger)'
  BY <1>1
<1>3. PhaseSound(trigger) => PhaseSound(trigger)'
  BY <1>1 DEF PhaseSound
<1>4. QED
  BY <1>1, <1>2, <1>3 DEF SenderInv

(* What a result has to say of the calls.                                  *)
Truly(body, t) ==
    CASE body = "sent" -> /\ CalledOnce(t) /\ ~Pending(t)
                          /\ \A i \in CallsOf(t) : t.handled[i].status = t.status
      [] body = "failed" -> CalledOnce(t)
      [] OTHER -> NotCalled(t)

LEMMA WriteResultSound ==
    ASSUME SenderInv, UNCHANGED Rest, request.phase \in {"check", "token", "call"},
           request.kind = OfSender, NEW body, NEW t, WriteResult(body, t),
           TriggerSound(t), ConformsAll(t, request.config), Truly(body, t)
    PROVE  SenderInv'
<1> DEFINE reply == ReplyOf(200, body)
<1>1. StubInv /\ t # Nil
  BY TriggerTypes DEF SenderInv, TriggerSound
<1>2. request' = WithTrigger(AnswerTo(request, reply), t)
  BY DEF WriteResult, WithTrigger
<1>3. Sendable(reply.status) /\ reply.body = body
  BY DEF ReplyOf, Sendable
<1> HIDE DEF reply
<1>4. /\ StubInv' /\ request'.phase = "answered" /\ request'.trigger = t
      /\ request'.kind = request.kind /\ request'.reply = reply
  BY <1>1, <1>2, <1>3, AnswerSound
<1>5. request.config \in AllConfigs /\ [config |-> request.config] \in inForce'
  BY <1>1 DEF StubInv, RequestSound, UsesFound, Rest
<1>6. PhaseSound(t)'
  BY <1>3, <1>4, <1>5 DEF PhaseSound, Truly
<1>7. trigger' = t
  BY <1>4 DEF trigger
<1>8. TriggerSound(trigger)'
  BY <1>7
<1>9. PhaseSound(trigger)'
  BY <1>6, <1>7
<1>10. QED
  BY <1>4, <1>8, <1>9 DEF SenderInv

(* A message goes out.                                                     *)
LEMMA SendSound ==
    ASSUME SenderInv, UNCHANGED Rest, request.phase \in {"check", "token"},
           request.kind = OfSender, NEW p \in {"token", "call"}, NEW t,
           request' = Sending(request, p, t), TriggerSound(t), PhaseSound(t)'
    PROVE  SenderInv'
<1>1. StubInv /\ IsRequest(request)
  BY DEF SenderInv, StubInv, RequestSound
<1>2. /\ localMode' = localMode /\ hosted' = hosted /\ inForce' = inForce
      /\ overtaken' = overtaken
  BY DEF Rest
<1>3. /\ IsRequest(request') /\ request'.phase = p /\ request'.trigger = t
      /\ request'.kind = request.kind /\ request'.config = request.config
      /\ request'.byType = request.byType /\ request'.reported = request.reported
      /\ request'.served = request.served
  BY <1>1, SendFields
<1>4. UsesFound'
  BY <1>1, <1>2, <1>3 DEF UsesFound, StubInv, RequestSound
<1>5. Asked'
  BY <1>3 DEF Asked
<1>6. UseIsReported'
  <2>1. ~IsMetadata(request.kind, request.message)
    BY DEF IsMetadata, OfSender
  <2>2. QED
    BY <1>1, <1>3, <2>1 DEF UseIsReported, StubInv, RequestSound
<1>7. ReplySound' /\ AnswerIsCurrent' /\ FetchSound'
  BY <1>3 DEF ReplySound, AnswerIsCurrent, FetchSound
<1>8. RequestSound'
  BY <1>3, <1>4, <1>5, <1>6, <1>7 DEF RequestSound, Phases, SenderPhases
<1>9. HostsSound(hosted)'
  BY <1>1, <1>2 DEF HostsSound, StubInv
<1>10. StubInv'
  BY <1>1, <1>2, <1>7, <1>8, <1>9 DEF StubInv
<1>11. trigger' = t
  BY <1>3 DEF trigger
<1>12. TriggerSound(trigger)' /\ PhaseSound(trigger)'
  BY <1>11
<1>13. QED
  BY <1>10, <1>12 DEF SenderInv

LEMMA SendCallSound ==
    ASSUME SenderInv, UNCHANGED Rest, request.phase \in {"check", "token"},
           request.kind = OfSender, request.config.target # Nil,
           NEW t, SendCall(t), TriggerSound(t), NotCalled(t),
           ConformsAll(t, request.config), t.answer = Nil,
           t.session # Nil => t.token = t.session.on /\ t.cookie = t.session.on
    PROVE  SenderInv'
<1> DEFINE c == request.config
           m == CallOf(c, t)
           u == [t EXCEPT !.transit = m]
<1>1. c \in AllConfigs /\ t \in Triggers
  BY DEF SenderInv, StubInv, RequestSound, UsesFound, TriggerSound
<1>2. CASE c.target = BadUrl
  <2>1. WriteResult("not built", t)
    BY <1>2 DEF SendCall
  <2>2. Truly("not built", t)
    BY DEF Truly
  <2>3. QED
    BY <2>1, <2>2, WriteResultSound
<1>3. CASE c.target # BadUrl
  <2>1. request' = Sending(request, "call", u)
    BY <1>3 DEF SendCall, Sending
  <2>2. /\ m \in Outgoing /\ m # Nil /\ m.verb = "call" /\ m.user = c.user
        /\ m.to = c.target /\ m.token = t.token /\ m.cookie = t.cookie
    <3>1. c.target \in STRING /\ c.user \in STRING \cup {Nil}
      BY <1>1, ConfigFacts
    <3>2. t.token \in STRING \cup {Nil} /\ t.cookie \in STRING \cup {Nil}
      BY <1>1, TriggerTypes
    <3>3. m = [verb |-> "call", to |-> c.target, user |-> c.user,
               token |-> t.token, cookie |-> t.cookie]
      BY DEF CallOf, Message
    <3> HIDE DEF m, c
    <3>4. m \in Outgoing
      BY <3>1, <3>2, <3>3 DEF Outgoing
    <3>5. QED
      BY <3>3, <3>4, TriggersAreRecords DEF c
  <2> HIDE DEF m
  <2>3. /\ u \in Triggers /\ u.transit = m /\ u.handled = t.handled
        /\ u.session = t.session /\ u.answer = t.answer
    BY <1>1, <2>2 DEF Triggers
  <2> HIDE DEF u
  <2>4. PICK v : v = u
    OBVIOUS
  <2>5. SessionSound(v)
    BY <2>2, <2>3, <2>4 DEF SessionSound, TriggerSound
  <2>6. TriggerSound(v)
    BY <2>3, <2>5, <2>4 DEF TriggerSound
  <2>7. CalledOnce(v) /\ ConformsAll(v, c)
    BY <2>2, <2>3, <2>4 DEF CalledOnce, NotCalled, CallsOf, Pending, ConformsAll, Conforms
  <2>8. IsRequest(request)
    BY DEF SenderInv, StubInv, RequestSound
  <2>9. request'.phase = "call" /\ request'.config = c
    BY <2>1, <2>8, SendFields
  <2>10. PhaseSound(v)'
    <3>1. Pending(v) /\ v.answer = Nil
      BY <2>2, <2>3, <2>4 DEF Pending
    <3>2. ConformsAll(v, request'.config)
      BY <2>7, <2>9
    <3>3. QED
      BY <2>7, <2>9, <3>1, <3>2 DEF PhaseSound
  <2>11. request' = Sending(request, "call", v)
    BY <2>1, <2>4
  <2>12. QED
    BY <2>6, <2>10, <2>11, SendSound
<1>4. QED
  BY <1>2, <1>3

LEMMA NewTriggerFacts ==
    /\ TriggerSound(NewTrigger) /\ NotCalled(NewTrigger)
    /\ NewTrigger.answer = Nil /\ NewTrigger.session = Nil /\ NewTrigger.transit = Nil
    /\ \A c : ConformsAll(NewTrigger, c)
<1>1. /\ NewTrigger.answer = Nil /\ NewTrigger.session = Nil /\ NewTrigger.transit = Nil
      /\ NewTrigger.handled = <<>>
  BY DEF NewTrigger
<1>2. NewTrigger \in Triggers
  BY DEF NewTrigger, Triggers
<1>3. Len(NewTrigger.handled) = 0
  BY <1>1
<1>4. QED
  BY <1>1, <1>2, <1>3 DEF TriggerSound, SessionSound, NotCalled, Pending, CallsOf, ConformsAll

LEMMA HandleTriggerStep ==
    ASSUME SenderInv, HandleTrigger
    PROVE  SenderInv'
<1> DEFINE c == request.config
           m == Message("fetch", FetchURL(c), c, Nil, Nil)
<1>1. UNCHANGED Rest /\ request.phase = "check" /\ request.kind = OfSender
  BY DEF HandleTrigger
<1>2. c \in AllConfigs /\ StubInv /\ IsRequest(request)
  BY <1>1 DEF SenderInv, StubInv, RequestSound, UsesFound
<1>3. CASE c.target = Nil
  <2>1. WriteResult("no target", NewTrigger)
    BY <1>3 DEF HandleTrigger
  <2>2. Truly("no target", NewTrigger)
    BY NewTriggerFacts DEF Truly
  <2>3. PICK t : t = NewTrigger
    OBVIOUS
  <2>4. WriteResult("no target", t) /\ Truly("no target", t) /\ TriggerSound(t)
        /\ ConformsAll(t, request.config)
    BY <2>1, <2>2, <2>3, NewTriggerFacts
  <2>5. QED
    BY <1>1, <2>4, WriteResultSound
<1>4. CASE c.target # Nil /\ c.csrf /\ FetchURL(c) # BadUrl
  <2>1. /\ m \in Outgoing /\ m # Nil /\ m.verb = "fetch" /\ m.user = c.user
        /\ m.to = FetchURL(c)
    <3>1. FetchURL(c) \in STRING /\ c.user \in STRING \cup {Nil}
      BY <1>2, <1>4, ConfigFacts DEF FetchURL
    <3>2. m = [verb |-> "fetch", to |-> FetchURL(c), user |-> c.user,
               token |-> Nil, cookie |-> Nil]
      BY DEF Message
    <3> HIDE DEF m, c
    <3>3. m \in Outgoing
      BY <3>1, <3>2 DEF Outgoing
    <3>4. QED
      BY <3>2, <3>3, TriggersAreRecords DEF c
  <2> HIDE DEF m
  <2>2. PICK t : t = [NewTrigger EXCEPT !.transit = m]
    OBVIOUS
  <2>3. request' = Sending(request, "token", t)
    BY <1>4, <2>2 DEF HandleTrigger, Sending, m
  <2>4. NewTrigger \in Triggers /\ NewTrigger.session = Nil /\ NewTrigger.handled = <<>>
    BY NewTriggerFacts DEF TriggerSound, NewTrigger
  <2>5. t \in Triggers /\ t.transit = m /\ t.session = Nil /\ t.handled = <<>>
    BY <2>1, <2>2, <2>4 DEF Triggers
  <2>6. Len(t.handled) = 0
    BY <2>5
  <2>7. TriggerSound(t)
    BY <2>5 DEF TriggerSound, SessionSound
  <2>8. NotCalled(t) /\ ConformsAll(t, c)
    BY <1>4, <2>1, <2>5, <2>6 DEF NotCalled, Pending, CallsOf, ConformsAll, Conforms
  <2>9. request'.phase = "token" /\ request'.config = c
    BY <1>2, <2>3, SendFields
  <2>10. PhaseSound(t)'
    BY <1>4, <2>5, <2>8, <2>9 DEF PhaseSound
  <2>11. QED
    BY <1>1, <2>3, <2>7, <2>10, SendSound
<1>5. CASE c.target # Nil /\ ~(c.csrf /\ FetchURL(c) # BadUrl)
  <2>1. SendCall(NewTrigger)
    BY <1>5 DEF HandleTrigger
  <2>2. PICK t : t = NewTrigger
    OBVIOUS
  <2>3. /\ SendCall(t) /\ TriggerSound(t) /\ NotCalled(t) /\ t.answer = Nil
        /\ t.session = Nil /\ ConformsAll(t, request.config)
    BY <2>1, <2>2, NewTriggerFacts
  <2>4. QED
    BY <1>1, <1>5, <2>3, SendCallSound
<1>6. QED
  BY <1>3, <1>4, <1>5

LEMMA TokenArrivesStep ==
    ASSUME SenderInv, TokenArrives
    PROVE  SenderInv'
<1>1. /\ UNCHANGED Rest /\ request.phase = "token" /\ request.kind = OfSender
      /\ trigger.answer # Nil
  BY DEF TokenArrives, SenderInv, StubInv, RequestSound, Asked
<1>2. TriggerSound(trigger) /\ PhaseSound(trigger)
  BY <1>1 DEF SenderInv
<1>3. PICK old : old = trigger
  OBVIOUS
<1>4. PICK t : t = [old EXCEPT !.answer = Nil, !.token = old.answer.token,
                               !.cookie = old.answer.token]
  OBVIOUS
<1>5. SendCall(t)
  BY <1>3, <1>4 DEF TokenArrives
<1>6. /\ NotCalled(old) /\ ConformsAll(old, request.config) /\ request.config.target # Nil
      /\ old.session # Nil => old.answer.token = old.session.on
      /\ TriggerSound(old) /\ old \in Triggers /\ old.answer # Nil
  BY <1>1, <1>2, <1>3 DEF PhaseSound, TriggerSound
<1>7. old.answer.token \in STRING \cup {Nil}
  <2>1. old.answer \in Answers
    BY <1>6, TriggerTypes
  <2>2. QED
    BY <2>1 DEF Answers
<1>8. /\ t \in Triggers /\ t.answer = Nil /\ t.token = old.answer.token
      /\ t.cookie = old.answer.token /\ t.transit = old.transit
      /\ t.session = old.session /\ t.handled = old.handled
  BY <1>4, <1>6, <1>7 DEF Triggers
<1>9. TriggerSound(t)
  BY <1>6, <1>8 DEF TriggerSound, SessionSound
<1>10. NotCalled(t) /\ ConformsAll(t, request.config)
  BY <1>6, <1>8 DEF NotCalled, Pending, CallsOf, ConformsAll
<1>11. QED
  BY <1>1, <1>5, <1>6, <1>8, <1>9, <1>10, SendCallSound

LEMMA FetchFailsStep ==
    ASSUME SenderInv, FetchFails
    PROVE  SenderInv'
<1>1. /\ UNCHANGED Rest /\ request.phase = "token" /\ request.kind = OfSender
  BY DEF FetchFails, SenderInv, StubInv, RequestSound, Asked
<1>2. TriggerSound(trigger) /\ PhaseSound(trigger)
  BY <1>1 DEF SenderInv
<1>3. PICK t : t = trigger
  OBVIOUS
<1>4. /\ WriteResult("no token", t) /\ TriggerSound(t)
      /\ NotCalled(t) /\ ConformsAll(t, request.config)
  BY <1>1, <1>2, <1>3 DEF FetchFails, PhaseSound
<1>5. Truly("no token", t)
  BY <1>4 DEF Truly
<1>6. QED
  BY <1>1, <1>4, <1>5, WriteResultSound

LEMMA ResultArrivesStep ==
    ASSUME SenderInv, ResultArrives
    PROVE  SenderInv'
<1>1. /\ UNCHANGED Rest /\ request.phase = "call" /\ request.kind = OfSender
      /\ trigger.answer # Nil
  BY DEF ResultArrives, SenderInv, StubInv, RequestSound, Asked
<1>2. TriggerSound(trigger) /\ PhaseSound(trigger)
  BY <1>1 DEF SenderInv
<1>3. PICK old : old = trigger
  OBVIOUS
<1>4. PICK t : t = [old EXCEPT !.status = old.answer.status]
  OBVIOUS
<1>5. WriteResult("sent", t)
  BY <1>3, <1>4 DEF ResultArrives
<1>6. /\ CalledOnce(old) /\ ConformsAll(old, request.config) /\ ~Pending(old)
      /\ \A i \in CallsOf(old) : old.handled[i].status = old.answer.status
      /\ TriggerSound(old) /\ old \in Triggers /\ old.answer # Nil
  BY <1>1, <1>2, <1>3 DEF PhaseSound, TriggerSound
<1>7. old.answer.status \in Nat
  <2>1. old.answer \in Answers
    BY <1>6, TriggerTypes
  <2>2. QED
    BY <2>1 DEF Answers
<1>8. /\ t \in Triggers /\ t.status = old.answer.status /\ t.transit = old.transit
      /\ t.session = old.session /\ t.handled = old.handled
  BY <1>4, <1>6, <1>7 DEF Triggers
<1>9. TriggerSound(t)
  BY <1>6, <1>8 DEF TriggerSound, SessionSound
<1>10. CallsOf(t) = CallsOf(old) /\ (Pending(t) <=> Pending(old))
  BY <1>8 DEF CallsOf, Pending
<1>11. CalledOnce(t) /\ ConformsAll(t, request.config)
  BY <1>6, <1>8, <1>10 DEF CalledOnce, ConformsAll
<1>12. Truly("sent", t)
  BY <1>6, <1>8, <1>10, <1>11 DEF Truly
<1>13. QED
  BY <1>1, <1>5, <1>9, <1>11, <1>12, WriteResultSound

LEMMA CallFailsStep ==
    ASSUME SenderInv, CallFails
    PROVE  SenderInv'
<1>1. /\ UNCHANGED Rest /\ request.phase = "call" /\ request.kind = OfSender
  BY DEF CallFails, SenderInv, StubInv, RequestSound, Asked
<1>2. TriggerSound(trigger) /\ PhaseSound(trigger)
  BY <1>1 DEF SenderInv
<1>3. PICK t : t = trigger
  OBVIOUS
<1>4. /\ WriteResult("failed", t) /\ TriggerSound(t)
      /\ CalledOnce(t) /\ ConformsAll(t, request.config)
  BY <1>1, <1>2, <1>3 DEF CallFails, PhaseSound
<1>5. Truly("failed", t)
  BY <1>4 DEF Truly
<1>6. QED
  BY <1>1, <1>4, <1>5, WriteResultSound

(* What goes on at the systems called leaves all of a request but its      *)
(* trigger as it is.                                                       *)
LEMMA ElsewhereSound ==
    ASSUME SenderInv, UNCHANGED Rest, trigger # Nil, NEW t,
           request' = WithTrigger(request, t), TriggerSound(t), PhaseSound(t)'
    PROVE  SenderInv'
<1>1. StubInv /\ IsRequest(request) /\ Asked
  BY DEF SenderInv, StubInv, RequestSound
<1>2. /\ localMode' = localMode /\ hosted' = hosted /\ inForce' = inForce
      /\ overtaken' = overtaken
  BY DEF Rest
<1>3. request.phase \in {"token", "call", "answered"} /\ request.kind = OfSender
  BY <1>1 DEF Asked, trigger
<1>4. /\ IsRequest(request') /\ request'.trigger = t
      /\ request'.phase = request.phase /\ request'.kind = request.kind
      /\ request'.message = request.message /\ request'.config = request.config
      /\ request'.byType = request.byType /\ request'.reply = request.reply
      /\ request'.reported = request.reported /\ request'.served = request.served
  BY <1>1, TriggerFields
<1>5. t # Nil
  BY TriggerTypes DEF TriggerSound
<1>6. UsesFound' /\ Asked' /\ UseIsReported'
  BY <1>1, <1>2, <1>3, <1>4 DEF UsesFound, Asked, UseIsReported, StubInv, RequestSound
<1>7. ReplySound'
  <2>1. OnlyIfConfigured => OnlyIfConfigured'
    BY <1>2, <1>4 DEF OnlyIfConfigured
  <2>2. QED
    BY <1>1, <1>4, <2>1 DEF ReplySound, StubInv, RequestSound
<1>8. AnswerIsCurrent' /\ FetchSound'
  BY <1>3, <1>4, <1>5 DEF AnswerIsCurrent, FetchSound
<1>9. RequestSound'
  BY <1>1, <1>4, <1>6, <1>7, <1>8 DEF RequestSound, StubInv
<1>10. HostsSound(hosted)'
  BY <1>1, <1>2 DEF HostsSound, StubInv
<1>11. StubInv'
  BY <1>1, <1>2, <1>8, <1>9, <1>10 DEF StubInv
<1>12. trigger' = t
  BY <1>4 DEF trigger
<1>13. TriggerSound(trigger)' /\ PhaseSound(trigger)'
  BY <1>12
<1>14. QED
  BY <1>11, <1>13 DEF SenderInv

LEMMA ExpireSessionStep ==
    ASSUME SenderInv, ExpireSession
    PROVE  SenderInv'
<1>1. UNCHANGED Rest /\ trigger # Nil /\ trigger.session # Nil
  BY DEF ExpireSession
<1>2. /\ TriggerSound(trigger) /\ PhaseSound(trigger)
      /\ request.phase \in {"token", "call", "answered"} /\ IsRequest(request)
      /\ request.kind = OfSender
  BY <1>1 DEF SenderInv, Triggered, StubInv, RequestSound, Asked, trigger
<1>3. PICK old : old = trigger
  OBVIOUS
<1>4. PICK t : t = [old EXCEPT !.session.live = FALSE]
  OBVIOUS
<1>5. request' = WithTrigger(request, t)
  BY <1>3, <1>4 DEF ExpireSession, WithTrigger, trigger
<1>6. /\ old \in Triggers /\ old.session # Nil /\ SessionSound(old)
      /\ old.session \in Sessions
  BY <1>1, <1>2, <1>3, TriggerTypes DEF TriggerSound
<1>7. /\ t \in Triggers /\ t.answer = old.answer /\ t.status = old.status
      /\ t.transit = old.transit /\ t.handled = old.handled
      /\ t.session.on = old.session.on /\ t.session.live = FALSE
  <2>1. PICK z : z = [old.session EXCEPT !.live = FALSE]
    OBVIOUS
  <2>2. z \in Sessions /\ z.on = old.session.on /\ z.live = FALSE
    BY <1>6, <2>1 DEF Sessions
  <2>3. t = [old EXCEPT !.session = z]
    BY <1>4, <2>1
  <2>4. QED
    BY <1>6, <2>2, <2>3 DEF Triggers
<1>8. TriggerSound(t)
  BY <1>6, <1>7 DEF TriggerSound, SessionSound
<1>9. CallsOf(t) = CallsOf(old) /\ (Pending(t) <=> Pending(old))
  BY <1>7 DEF CallsOf, Pending
<1>10. /\ CalledOnce(t) <=> CalledOnce(old)
       /\ NotCalled(t) <=> NotCalled(old)
       /\ \A c : ConformsAll(t, c) <=> ConformsAll(old, c)
  BY <1>7, <1>9 DEF CalledOnce, NotCalled, ConformsAll
<1>11. /\ request'.phase = request.phase /\ request'.config = request.config
       /\ request'.reply = request.reply /\ inForce' = inForce
  BY <1>1, <1>2, <1>5, TriggerFields DEF Rest
<1>12. PhaseSound(t)'
  <2>1. PhaseSound(old)
    BY <1>2, <1>3
  <2>2. QED
    BY <1>6, <1>7, <1>9, <1>10, <1>11, <2>1 DEF PhaseSound
<1>13. QED
  BY <1>1, <1>5, <1>8, <1>12, ElsewhereSound

(* What a system notes of a message.                                       *)
LEMMA StatusFacts ==
    ASSUME NEW m, NEW status, status = StatusOf(m)
    PROVE  /\ status \in {200, 401, 403}
           /\ status = 403 => m.verb = "call" /\ ~Accepts(m)
BY DEF StatusOf

LEMMA HandleMessageStep ==
    ASSUME SenderInv, HandleMessage
    PROVE  SenderInv'
<1>1. UNCHANGED Rest /\ trigger # Nil /\ trigger.transit # Nil
  BY DEF HandleMessage
<1>2. /\ TriggerSound(trigger) /\ PhaseSound(trigger)
      /\ request.phase \in {"token", "call", "answered"} /\ IsRequest(request)
      /\ request.kind = OfSender
  BY <1>1 DEF SenderInv, Triggered, StubInv, RequestSound, Asked, trigger
<1>3. PICK old : old = trigger
  OBVIOUS
<1>4. PICK m : m = trigger.transit
  OBVIOUS
<1>5. PICK status : status = StatusOf(m)
  OBVIOUS
<1>6. PICK opens \in BOOLEAN :
         opens = (m.verb = "fetch" /\ status = 200 /\ m.to \in Guarded)
  OBVIOUS
<1>7. PICK e : e = [verb |-> m.verb, to |-> m.to, user |-> m.user, status |-> status]
  OBVIOUS
<1>8. PICK answer : answer = [status |-> status, token |-> IF opens THEN m.to ELSE Nil]
  OBVIOUS
<1>9. PICK session : session = IF opens THEN [on |-> m.to, live |-> TRUE] ELSE old.session
  OBVIOUS
<1>10. PICK t : t = [old EXCEPT !.transit = Nil, !.answer = answer, !.session = session,
                                !.handled = Append(old.handled, e)]
  OBVIOUS
<1>11. request' = WithTrigger(request, t)
  <2>1. request' = [request EXCEPT !.trigger =
           [trigger EXCEPT
              !.transit = Nil, !.answer = answer,
              !.session = IF opens THEN [on |-> m.to, live |-> TRUE] ELSE @,
              !.handled = Append(@, e)]]
    BY <1>4, <1>5, <1>6, <1>7, <1>8 DEF HandleMessage
  <2>2. [old EXCEPT !.transit = Nil, !.answer = answer,
                    !.session = IF opens THEN [on |-> m.to, live |-> TRUE] ELSE @,
                    !.handled = Append(@, e)] = t
    BY <1>9, <1>10
  <2>3. request' = [request EXCEPT !.trigger = t]
    BY <1>3, <2>1, <2>2
  <2>4. QED
    BY <2>3 DEF WithTrigger
<1>12. /\ old \in Triggers /\ m \in Outgoing /\ old.transit = m /\ m # Nil
       /\ SessionSound(old) /\ PhaseSound(old)
  BY <1>1, <1>2, <1>3, <1>4, TriggerTypes DEF TriggerSound
<1>13. /\ m.verb \in {"fetch", "call"} /\ m.to \in STRING /\ m.user \in STRING \cup {Nil}
  BY <1>12 DEF Outgoing
<1>14. /\ status \in Nat /\ status \in {200, 401, 403}
       /\ status = 403 => m.verb = "call" /\ ~Accepts(m)
  BY <1>5, StatusFacts
<1>15. /\ e \in Handled /\ answer \in Answers /\ answer.status = status
       /\ answer.token = IF opens THEN m.to ELSE Nil
       /\ session \in Sessions \cup {Nil}
       /\ e.verb = m.verb /\ e.to = m.to /\ e.user = m.user /\ e.status = status
  <2>1. old.session \in Sessions \cup {Nil}
    BY <1>12, TriggerTypes
  <2>2. QED
    BY <1>7, <1>8, <1>9, <1>13, <1>14, <2>1 DEF Handled, Answers, Sessions
<1>16. PICK n : n = Len(old.handled)
  OBVIOUS
<1>17. PICK log : log = Append(old.handled, e)
  OBVIOUS
<1>18. /\ log \in Seq(Handled) /\ Len(log) = n + 1 /\ n \in Nat
       /\ \A i \in 1 .. n : log[i] = old.handled[i]
       /\ log[n + 1] = e
  <2>1. old.handled \in Seq(Handled)
    BY <1>12, TriggerTypes
  <2>2. QED
    BY <1>15, <1>16, <1>17, <2>1
<1>19. /\ t \in Triggers /\ t.transit = Nil /\ t.answer = answer
       /\ t.session = session /\ t.handled = log /\ t.status = old.status
  BY <1>10, <1>12, <1>15, <1>17, <1>18 DEF Triggers
<1>20. ~Pending(t) /\ (Pending(old) <=> m.verb = "call")
  BY <1>12, <1>19 DEF Pending
<1>21. CallsOf(old) = {} =>
          CallsOf(t) = IF m.verb = "call" THEN {n + 1} ELSE {}
  BY <1>15, <1>16, <1>18, <1>19 DEF CallsOf
<1>22. ASSUME NEW c, ConformsAll(old, c)
       PROVE  ConformsAll(t, c)
  <2>1. Conforms(m, c) /\ \A i \in 1 .. n : Conforms(old.handled[i], c)
    BY <1>12, <1>16, <1>22 DEF ConformsAll
  <2>2. Conforms(e, c)
    BY <1>15, <2>1 DEF Conforms
  <2>3. \A i \in 1 .. (n + 1) : Conforms(log[i], c)
    BY <1>18, <2>1, <2>2
  <2>4. QED
    BY <1>18, <1>19, <2>3 DEF ConformsAll
<1>23. m.verb = "fetch" => old.session = Nil
  BY <1>12 DEF SessionSound
<1>24. SessionSound(t)
  <2> SUFFICES ASSUME session # Nil
               PROVE  \A i \in 1 .. (n + 1) :
                         log[i] # [verb |-> "call", to |-> session.on,
                                   user |-> Accounts[session.on], status |-> 403]
                         \/ ~session.live
    BY <1>18, <1>19 DEF SessionSound
  <2>1. CASE opens
    <3>1. m.verb = "fetch" /\ CallsOf(old) = {}
      <4>1. m.verb = "fetch"
        BY <1>6, <2>1
      <4>2. ~Pending(old)
        BY <1>20, <4>1
      <4>3. NotCalled(old) \/ CalledOnce(old)
        <5>1. request.phase = "token" => NotCalled(old)
          BY <1>12 DEF PhaseSound
        <5>2. request.phase = "call" => CalledOnce(old)
          BY <1>12 DEF PhaseSound
        <5>3. request.phase = "answered" => NotCalled(old) \/ CalledOnce(old)
          BY <1>12 DEF PhaseSound
        <5>4. QED
          BY <1>2, <5>1, <5>2, <5>3
      <4>4. CalledOnce(old) => FALSE
        BY <1>12, <4>2 DEF CalledOnce
      <4>5. QED
        BY <4>1, <4>3, <4>4 DEF NotCalled
    <3>2. CallsOf(t) = {}
      BY <1>21, <3>1
    <3>3. \A i \in 1 .. (n + 1) : log[i].verb # "call"
      BY <1>18, <1>19, <3>2 DEF CallsOf
    <3>4. QED
      BY <3>3
  <2>2. CASE ~opens
    <3>1. session = old.session /\ old.session # Nil
      BY <1>9, <2>2
    <3>2. /\ m.verb = "call" /\ m.token = session.on /\ m.cookie = session.on
          /\ \A i \in 1 .. n :
                old.handled[i] # [verb |-> "call", to |-> session.on,
                                  user |-> Accounts[session.on], status |-> 403]
                \/ ~session.live
      BY <1>12, <1>16, <3>1 DEF SessionSound
    <3>3. e # [verb |-> "call", to |-> session.on,
               user |-> Accounts[session.on], status |-> 403]
          \/ ~session.live
      <4> SUFFICES ASSUME e = [verb |-> "call", to |-> session.on,
                               user |-> Accounts[session.on], status |-> 403],
                          session.live
                   PROVE  FALSE
        OBVIOUS
      <4>1. m.to = session.on /\ status = 403
        BY <1>15
      <4>2. session \in Sessions
        BY <1>15, <3>1
      <4>3. session = [on |-> m.to, live |-> TRUE]
        BY <4>1, <4>2 DEF Sessions
      <4>4. Accepts(m)
        BY <1>3, <3>1, <3>2, <4>1, <4>3 DEF Accepts
      <4>5. QED
        BY <1>14, <4>1, <4>4
    <3>4. QED
      BY <1>18, <3>2, <3>3
  <2>3. QED
    BY <2>1, <2>2
<1>25. TriggerSound(t)
  BY <1>19, <1>24 DEF TriggerSound
<1>26. /\ request'.phase = request.phase /\ request'.config = request.config
       /\ request'.reply = request.reply /\ inForce' = inForce
  BY <1>1, <1>2, <1>11, TriggerFields DEF Rest
<1>27. CalledOnce(old) =>
          /\ m.verb = "call" /\ CalledOnce(t)
          /\ \A i \in CallsOf(t) : t.handled[i].status = t.answer.status
  <2> SUFFICES ASSUME CalledOnce(old)
               PROVE  /\ m.verb = "call" /\ CalledOnce(t)
                      /\ \A i \in CallsOf(t) : t.handled[i].status = t.answer.status
    OBVIOUS
  <2>1. m.verb = "call" /\ CallsOf(old) = {}
    BY <1>12, <1>20 DEF CalledOnce
  <2>2. CallsOf(t) = {n + 1} /\ n + 1 \in 1 .. Len(t.handled)
    BY <1>18, <1>19, <1>21, <2>1
  <2>3. CalledOnce(t)
    BY <1>19, <1>20, <2>2 DEF CalledOnce
  <2>4. QED
    BY <1>15, <1>18, <1>19, <2>1, <2>2, <2>3
<1>28. NotCalled(old) => m.verb = "fetch" /\ NotCalled(t)
  BY <1>13, <1>20, <1>21 DEF NotCalled
<1>29. PhaseSound(t)'
  <2>1. CASE request.phase = "token"
    <3>1. /\ NotCalled(old) /\ ConformsAll(old, request.config)
          /\ request.config.target # Nil
      BY <1>12, <2>1 DEF PhaseSound
    <3>2. session # Nil => answer.token = session.on
      BY <1>9, <1>15, <1>23, <1>28, <3>1
    <3>3. QED
      BY <1>19, <1>22, <1>26, <1>28, <2>1, <3>1, <3>2 DEF PhaseSound
  <2>2. CASE request.phase = "call"
    <3>1. CalledOnce(old) /\ ConformsAll(old, request.config)
      BY <1>12, <2>2 DEF PhaseSound
    <3>2. QED
      BY <1>20, <1>22, <1>26, <1>27, <2>2, <3>1 DEF PhaseSound
  <2>3. CASE request.phase = "answered"
    <3>1. \E c \in AllConfigs : [config |-> c] \in inForce /\ ConformsAll(t, c)
      BY <1>12, <1>22, <2>3 DEF PhaseSound
    <3>2. CASE request.reply.body = "sent"
      <4>1. CalledOnce(old) /\ ~Pending(old)
        BY <1>12, <2>3, <3>2 DEF PhaseSound
      <4>2. QED
        BY <1>20, <1>27, <4>1
    <3>3. CASE request.reply.body = "failed"
      <4>1. CalledOnce(old)
        BY <1>12, <2>3, <3>3 DEF PhaseSound
      <4>2. QED
        BY <1>26, <1>27, <2>3, <3>1, <3>3, <4>1 DEF PhaseSound
    <3>4. CASE request.reply.body \notin {"sent", "failed"}
      <4>1. NotCalled(old)
        BY <1>12, <2>3, <3>4 DEF PhaseSound
      <4>2. QED
        BY <1>26, <1>28, <2>3, <3>1, <3>4, <4>1 DEF PhaseSound
    <3>5. QED
      BY <3>2, <3>3, <3>4
  <2>4. QED
    BY <1>2, <2>1, <2>2, <2>3
<1>30. QED
  BY <1>1, <1>11, <1>25, <1>29, ElsewhereSound

(* The control plane's own requests, which never reach a sender.           *)
LEMMA TriggerAdapterStep ==
    ASSUME SenderInv, NEW s, NEW id, triggerAdapter(s, id)
    PROVE  SenderInv'
<1>1. PICK no \in {404, 400, 409, Nil} :
         request' = IF no # Nil
                    THEN AnswerTo([NoRequest EXCEPT !.kind = ByProxy, !.id = id],
                                  ReplyOf(no, "fault"))
                    ELSE [[NoRequest EXCEPT !.kind = ByProxy, !.id = id]
                             EXCEPT !.phase = "dial"]
  <2> DEFINE same == {i \in 1 .. hosted[s].len : hosted[s].array[i].id = id}
             x == hosted[s].array[Min(same)]
             why == CASE same = {} -> 404
                      [] same # {} /\ x.type \notin Senders -> 400
                      [] same # {} /\ x.type \in Senders /\ x.status # "running" -> 409
                      [] OTHER -> Nil
             r == [NoRequest EXCEPT !.kind = ByProxy, !.id = id]
  <2>1. request' = IF why # Nil THEN AnswerTo(r, ReplyOf(why, "fault"))
                   ELSE [r EXCEPT !.phase = "dial"]
    BY DEF triggerAdapter
  <2>2. why \in {404, 400, 409, Nil}
    <3> HIDE DEF same, x
    <3>1. QED
      OBVIOUS
  <2> HIDE DEF why
  <2>3. QED
    BY <2>1, <2>2
<1>2. /\ localMode' = localMode /\ hosted' = hosted /\ inForce' = inForce
      /\ overtaken' = overtaken /\ request.phase = "none" /\ StubInv
  BY DEF triggerAdapter, Rest, SenderInv
<1>3. PICK r : r = [NoRequest EXCEPT !.kind = ByProxy, !.id = id]
  OBVIOUS
<1>4. r.kind = ByProxy /\ r.served = Nil /\ r.trigger = Nil
  BY <1>3 DEF NoRequest
<1>5. IsRequest(r)
  BY <1>3, NoRequestFields DEF IsRequest
<1>6. /\ IsRequest(request') /\ request'.kind = ByProxy /\ request'.served = Nil
      /\ request'.trigger = Nil /\ request'.phase \in {"answered", "dial"}
      /\ request'.phase = "answered" => Sendable(request'.reply.status)
  <2>1. CASE no # Nil
    <3>1. request' = AnswerTo(r, ReplyOf(no, "fault"))
      BY <1>1, <1>3, <2>1
    <3>2. ReplyOf(no, "fault").status = no /\ Sendable(no)
      BY <1>1, <2>1 DEF ReplyOf, Sendable
    <3>3. PICK reply : reply = ReplyOf(no, "fault")
      OBVIOUS
    <3>4. request' = AnswerTo(r, reply) /\ Sendable(reply.status)
      BY <3>1, <3>2, <3>3
    <3>5. /\ IsRequest(request')
          /\ request'.phase = "answered" /\ request'.kind = r.kind
          /\ request'.reply = reply
          /\ request'.served = Nil /\ request'.trigger = Nil
      BY <3>4, AnswerFields
    <3>6. QED
      BY <1>4, <3>4, <3>5
  <2>2. CASE no = Nil
    <3>1. request' = [r EXCEPT !.phase = "dial"]
      BY <1>1, <1>3, <2>2
    <3>2. IsRequest(request')
      BY <1>5, <3>1 DEF IsRequest
    <3>3. QED
      BY <1>4, <1>5, <3>1, <3>2 DEF IsRequest, RequestFields
  <2>3. QED
    BY <2>1, <2>2
<1>7. ByProxy \notin Kinds
  BY DEF ByProxy, Kinds, PostOnly, Plain, OfSender
<1>8. FetchSound'
  BY <1>6 DEF FetchSound
<1>9. UsesFound' /\ Asked' /\ UseIsReported'
  BY <1>6 DEF UsesFound, Asked, UseIsReported
<1>10. ReplySound' /\ AnswerIsCurrent'
  BY <1>6, <1>7 DEF ReplySound, AnswerIsCurrent
<1>11. RequestSound'
  BY <1>6, <1>9, <1>10 DEF RequestSound, Phases, SenderPhases
<1>12. HostsSound(hosted)'
  BY <1>2 DEF HostsSound, StubInv
<1>13. StubInv'
  BY <1>2, <1>8, <1>11, <1>12 DEF StubInv
<1>14. QED
  BY <1>6, <1>13, NotTriggered

LEMMA DialFailsStep ==
    ASSUME SenderInv, DialFails
    PROVE  SenderInv'
<1>1. PICK reply : reply = ReplyOf(502, Unreachable)
  OBVIOUS
<1>2. request' = AnswerTo(request, reply) /\ UNCHANGED Rest /\ request.phase = "dial"
  BY <1>1 DEF DialFails, Answered
<1>3. Sendable(reply.status)
  BY <1>1 DEF ReplyOf, Sendable
<1>4. StubInv /\ request.kind \notin Kinds
  BY <1>2 DEF SenderInv, StubInv, RequestSound, Asked, ByProxy, Kinds, PostOnly, Plain,
              OfSender
<1>5. StubInv' /\ request'.phase = "answered" /\ request'.trigger = Nil
  BY <1>2, <1>3, <1>4, AnswerSound
<1>6. QED
  BY <1>5, NotTriggered

-----------------------------------------------------------------------------
(* The invariant.                                                          *)

LEMMA SenderInvInit == StubInit => SenderInv
<1> SUFFICES ASSUME StubInit PROVE SenderInv
  OBVIOUS
<1>1. /\ request = NoRequest /\ inForce = {} /\ overtaken = FALSE
      /\ localMode \in BOOLEAN /\ HostsSound(hosted)
  BY StubAssumption DEF StubInit, HostsSound
<1>2. /\ IsRequest(request) /\ request.phase = "none" /\ request.served = Nil
      /\ request.trigger = Nil /\ request.kind = Nil
  BY <1>1, NoRequestFields
<1>3. FetchSound
  BY <1>1, <1>2 DEF FetchSound
<1>4. RequestSound
  BY <1>2 DEF RequestSound, Phases, UsesFound, Asked, ReplySound, AnswerIsCurrent,
              UseIsReported
<1>5. StubInv
  BY <1>1, <1>3, <1>4 DEF StubInv
<1>6. QED
  BY <1>2, <1>5 DEF SenderInv, Triggered, trigger

LEMMA SenderInvStep == SenderInv /\ [Next]_stubVars => SenderInv'
<1> SUFFICES ASSUME SenderInv, [Next]_stubVars PROVE SenderInv'
  OBVIOUS
<1>1. StubInv
  BY DEF SenderInv
<1>2. ASSUME NEW pod \in Pods, NEW g \in Segments, NEW m \in Messages, Receive(pod, g, m)
      PROVE  SenderInv'
  <2>1. StubInv' /\ request'.phase \in {"fetch", "answered"} /\ request'.trigger = Nil
    BY <1>1, <1>2, ReceiveStep
  <2>2. QED
    BY <2>1, NotTriggered
<1>3. CASE FetchConfig
  BY <1>1, <1>3, FetchConfigStep, NotTriggered
<1>4. CASE HandleAdapterConfig
  BY <1>1, <1>4, HandleAdapterConfigStep, NotTriggered
<1>5. CASE Examine
  BY <1>1, <1>5, ExamineStep, NotTriggered
<1>6. CASE LookFurther
  BY <1>1, <1>6, LookFurtherStep, NotTriggered
<1>7. CASE Check
  BY <1>1, <1>7, CheckStep, NotTriggered
<1>8. CASE Wake
  BY <1>1, <1>8, WakeStep, NotTriggered
<1>9. CASE Depart
  BY <1>1, <1>9, DepartStep, NotTriggered
<1>10. ASSUME NEW s \in DOMAIN hosted, NEW i \in 1 .. hosted[s].len,
              \/ \E status \in Statuses : LaunchOrStop(s, i, status)
              \/ \E c \in Configs[hosted[s].array[i].type] : Edit(s, i, c)
              \/ Delete(s, i)
       PROVE  SenderInv'
  <2>1. StubInv' /\ UNCHANGED request /\ inForce \subseteq inForce'
    BY <1>1, <1>10, LaunchOrStopStep, EditStep, DeleteStep
  <2>2. QED
    BY <2>1, TriggerStays
<1>11. CASE Trigger
  BY <1>11, HandleTriggerStep, TokenArrivesStep, FetchFailsStep, ResultArrivesStep,
     CallFailsStep, DialFailsStep DEF Trigger
<1>12. CASE HandleMessage
  BY <1>12, HandleMessageStep
<1>13. CASE ExpireSession
  BY <1>13, ExpireSessionStep
<1>14. ASSUME NEW s, NEW id, triggerAdapter(s, id)
       PROVE  SenderInv'
  BY <1>14, TriggerAdapterStep
<1>15. CASE UNCHANGED stubVars
  <2>1. /\ localMode' = localMode /\ hosted' = hosted /\ request' = request
        /\ inForce' = inForce /\ overtaken' = overtaken
    BY <1>15 DEF stubVars
  <2>2. /\ HostsSound(hosted)' /\ RequestSound'
    BY <1>1, <2>1, RequestStays DEF StubInv, HostsSound
  <2>3. FetchSound'
    <3>1. Addressed(hosted, request.id, overtaken)' = Addressed(hosted, request.id, overtaken)
      BY <2>1 DEF Addressed, ByType
    <3>2. LookupSound => LookupSound'
      BY <2>1 DEF LookupSound, At, HasId, StandsIn, ByType, Live, Ahead
    <3>3. QED
      BY <1>1, <2>1, <3>1, <3>2 DEF FetchSound, StubInv
  <2>4. StubInv'
    BY <1>1, <2>1, <2>2, <2>3 DEF StubInv
  <2>5. QED
    BY <2>1, <2>4, TriggerStays
<1>16. QED
  BY <1>2, <1>3, <1>4, <1>5, <1>6, <1>7, <1>8, <1>9, <1>10, <1>11, <1>12, <1>13,
     <1>14, <1>15 DEF Next, StubNext, Serve

(* In every state of the adapters, their requests and the systems called   *)
(* the lookups, the answers and the triggers are as SenderInv says.        *)
THEOREM SenderInvariant == Spec => []SenderInv
<1>1. StubInit => SenderInv
  BY SenderInvInit
<1>2. SenderInv /\ [Next]_stubVars => SenderInv'
  BY SenderInvStep
<1>3. QED
  BY <1>1, <1>2, PTL DEF Spec

(* The variables stay in the sets they are declared for; what a client is  *)
(* sent has a status that net/http can send, and a connection is dropped   *)
(* only over a status that was configured (the handlers of adapters/ that  *)
(* pass cfg.StatusCode on to WriteHeader).                                 *)
THEOREM StubTypeCorrect == Spec => []StubTypeOK
<1>1. SenderInv => StubTypeOK
  <2> SUFFICES ASSUME SenderInv PROVE StubTypeOK
    OBVIOUS
  <2>1. StubInv /\ RequestSound /\ HostsSound(hosted) /\ FetchSound
    BY DEF SenderInv, StubInv
  <2>2. ASSUME NEW s \in DOMAIN hosted
        PROVE  /\ hosted[s].len \in 0 .. Len(hosted[s].array)
               /\ \A i \in DOMAIN hosted[s].array :
                     hosted[s].array[i].config \in Configs[hosted[s].array[i].type]
    <3>1. /\ hosted[s].len \in Nat /\ hosted[s].len <= Len(hosted[s].array)
          /\ Len(hosted[s].array) \in Nat /\ hosted[s].array \in Seq(Adapters)
      BY <2>1, SliceFacts
    <3>2. DOMAIN hosted[s].array = 1 .. Len(hosted[s].array)
      BY <3>1
    <3>3. ASSUME NEW i \in DOMAIN hosted[s].array
          PROVE  hosted[s].array[i].config \in Configs[hosted[s].array[i].type]
      <4>1. hosted[s].array[i] \in Adapters
        BY <2>1, <3>2, SliceFacts
      <4>2. QED
        BY <4>1, AdapterFacts
    <3>4. QED
      BY <3>1, <3>3
  <2>3. request.phase = "lookup" => request.next \in 1 .. (Len(request.cells) + 1)
    BY <2>1 DEF FetchSound, LookupSound
  <2>4. request.phase \in {"check", "wait", "token", "call"} => request.config \in AllConfigs
    BY <2>1 DEF RequestSound, UsesFound
  <2>5. request.phase = "answered" =>
           \/ request.reply.status \in 100 .. 999
           \/ request.reply.status = 0 /\ OnlyIfConfigured
    BY <2>1 DEF RequestSound, ReplySound, Sendable
  <2>6. QED
    BY <2>1, <2>2, <2>3, <2>4, <2>5 DEF StubTypeOK, StubInv, RequestSound
<1>2. QED
  BY <1>1, SenderInvariant, PTL

(* A client is answered with what one configuration says that the adapter  *)
(* it addressed had between the request and the lookup, however the        *)
(* dashboard edits, launches, stops and deletes adapters meanwhile         *)
(* (handleAdapterConfig goes through the scenarios without the mutex).     *)
THEOREM AnswersAreCurrent == Spec => []AnswerIsCurrent
<1>1. SenderInv => AnswerIsCurrent
  BY DEF SenderInv, StubInv, RequestSound
<1>2. QED
  BY <1>1, SenderInvariant, PTL

(* The adapter whose configuration a request is served from is the one     *)
(* that the adapter process reported to be used, save where it stands in   *)
(* for a fixed id or only metadata is asked for (reportActivity).          *)
THEOREM UsesAreReported == Spec => []UseIsReported
<1>1. SenderInv => UseIsReported
  BY DEF SenderInv, StubInv, RequestSound
<1>2. QED
  BY <1>1, SenderInvariant, PTL

(* A trigger makes one call at most, and its result says what became of    *)
(* it: handled once with this status, perhaps made, or never made          *)
(* (handleTrigger of adapters/sender).                                     *)
THEOREM ResultsAreTrue == Spec => []ResultIsTrue
<1>1. SenderInv => ResultIsTrue
  <2> SUFFICES ASSUME SenderInv, Triggered, request.phase = "answered"
               PROVE  LET pending == trigger.transit # Nil /\ trigger.transit.verb = "call"
                      IN  CASE request.reply.body = "sent" ->
                                  /\ Cardinality(Calls) = 1 /\ ~pending
                                  /\ \A i \in Calls :
                                        trigger.handled[i].status = trigger.status
                            [] request.reply.body = "failed" ->
                                  Cardinality(Calls) + (IF pending THEN 1 ELSE 0) = 1
                            [] OTHER -> Calls = {} /\ ~pending
    BY DEF ResultIsTrue
  <2>1. TriggerSound(trigger) /\ PhaseSound(trigger)
    BY DEF SenderInv
  <2>2. Calls = CallsOf(trigger)
    BY <2>1, TriggerTypes DEF Calls, CallsOf, TriggerSound
  <2>3. CalledOnce(trigger) =>
           /\ Cardinality(Calls) + (IF Pending(trigger) THEN 1 ELSE 0) = 1
           /\ ~Pending(trigger) => Cardinality(Calls) = 1
    <3>1. CASE Pending(trigger) /\ CallsOf(trigger) = {}
      BY <2>2, <3>1, FS_EmptySet
    <3>2. CASE /\ ~Pending(trigger)
               /\ \E i \in 1 .. Len(trigger.handled) : CallsOf(trigger) = {i}
      <4>1. PICK i : CallsOf(trigger) = {i}
        BY <3>2
      <4>2. Cardinality(Calls) = 1
        BY <2>2, <4>1, FS_Singleton
      <4>3. QED
        BY <3>2, <4>2
    <3>3. QED
      BY <3>1, <3>2 DEF CalledOnce
  <2>4. CASE request.reply.body = "sent"
    <3>1. /\ CalledOnce(trigger) /\ ~Pending(trigger)
          /\ \A i \in CallsOf(trigger) : trigger.handled[i].status = trigger.status
      BY <2>1, <2>4 DEF PhaseSound
    <3>2. QED
      BY <2>2, <2>3, <2>4, <3>1 DEF Pending
  <2>5. CASE request.reply.body = "failed"
    <3>1. CalledOnce(trigger)
      BY <2>1, <2>5 DEF PhaseSound
    <3>2. QED
      BY <2>3, <2>5, <3>1 DEF Pending
  <2>6. CASE request.reply.body \notin {"sent", "failed"}
    <3>1. NotCalled(trigger)
      BY <2>1, <2>6 DEF PhaseSound
    <3>2. QED
      BY <2>2, <2>6, <3>1 DEF NotCalled, Pending
  <2>7. QED
    BY <2>4, <2>5, <2>6
<1>2. QED
  BY <1>1, SenderInvariant, PTL

(* All that a trigger sends is what one configuration says that the sender *)
(* had: its target, its token's source and its credentials, never those of *)
(* two versions mixed.                                                     *)
THEOREM CallsFollowOneConfiguration == Spec => []CallsAreConfigured
<1>1. SenderInv => CallsAreConfigured
  <2> SUFFICES ASSUME SenderInv, Triggered
               PROVE  \E o \in inForce :
                         /\ "config" \in DOMAIN o
                         /\ \A i \in DOMAIN trigger.handled :
                               Conforms(trigger.handled[i], o.config)
    BY DEF CallsAreConfigured, Conforms
  <2>1. TriggerSound(trigger) /\ PhaseSound(trigger)
    BY DEF SenderInv
  <2>2. request.phase \in {"token", "call", "answered"}
    BY DEF SenderInv, StubInv, RequestSound, Asked, Triggered, trigger
  <2>3. \E c \in AllConfigs : [config |-> c] \in inForce /\ ConformsAll(trigger, c)
    <3>1. CASE request.phase \in {"token", "call"}
      <4>1. request.config \in AllConfigs /\ [config |-> request.config] \in inForce
        BY <3>1 DEF SenderInv, StubInv, RequestSound, UsesFound
      <4>2. ConformsAll(trigger, request.config)
        BY <2>1, <3>1 DEF PhaseSound
      <4>3. QED
        BY <4>1, <4>2
    <3>2. CASE request.phase = "answered"
      BY <2>1, <3>2 DEF PhaseSound
    <3>3. QED
      BY <2>2, <3>1, <3>2
  <2>4. PICK c \in AllConfigs : [config |-> c] \in inForce /\ ConformsAll(trigger, c)
    BY <2>3
  <2>5. PICK o : o = [config |-> c]
    OBVIOUS
  <2>6. o \in inForce /\ "config" \in DOMAIN o /\ o.config = c
    BY <2>4, <2>5
  <2>7. \A i \in DOMAIN trigger.handled : Conforms(trigger.handled[i], c)
    BY <2>1, <2>4, TriggerTypes DEF ConformsAll, TriggerSound
  <2>8. QED
    BY <2>6, <2>7
<1>2. QED
  BY <1>1, SenderInvariant, PTL

(* A system that opened a session does not turn the call away for want of  *)
(* a token while the session lasts: the token and the cookie both travel   *)
(* (the second half of handleTrigger).                                     *)
THEOREM SessionsAreUsed == Spec => []SessionIsUsed
<1>1. SenderInv => SessionIsUsed
  <2> SUFFICES ASSUME SenderInv, Triggered, trigger.session # Nil,
                      NEW i \in DOMAIN trigger.handled
               PROVE  \/ trigger.handled[i] # [verb |-> "call", to |-> trigger.session.on,
                                               user |-> Accounts[trigger.session.on],
                                               status |-> 403]
                      \/ ~trigger.session.live
    BY DEF SessionIsUsed
  <2>1. TriggerSound(trigger)
    BY DEF SenderInv
  <2>2. i \in 1 .. Len(trigger.handled)
    BY <2>1, TriggerTypes DEF TriggerSound
  <2>3. QED
    BY <2>1, <2>2 DEF TriggerSound, SessionSound
<1>2. QED
  BY <1>1, SenderInvariant, PTL

=============================================================================
