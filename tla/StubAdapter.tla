----------------------------- MODULE StubAdapter ----------------------------
(***************************************************************************)
(* The HTTP stub adapters, adapters/{rest,odata,soap,xi,as2,as4,edifact},  *)
(* and the endpoint of the control plane they are configured from; the way *)
(* of a sender to its configuration is the same, and Sender goes on from   *)
(* there.  An                                                              *)
(* adapter keeps nothing between requests: each request reports activity,  *)
(* fetches the configuration of the adapter it is for, checks, waits if so *)
(* configured, and answers.  Meanwhile the dashboard edits, launches,      *)
(* stops and deletes adapters.  Requests share nothing with one another,   *)
(* so one at a time, again and again, is enough.                           *)
(*                                                                         *)
(* The endpoint looks for an adapter in the slices of all scenarios, which *)
(* it goes through without the store's mutex, one element after the other. *)
(* A deletion closes the gap in the very array it is reading, up to the    *)
(* length it read before, so it may be led past an adapter.                *)
(*                                                                         *)
(* On the cluster a pod serves one adapter, by an id in its environment.   *)
(* In local mode a container serves every adapter whose id is the first    *)
(* segment of the path, and its own fixed id otherwise.                    *)
(***************************************************************************)
EXTENDS Naturals, FiniteSets, SequencesExt

CONSTANTS
    Hosts,          \* lists of adapters that the scenarios may begin with
    Configs,        \* type -> what its adapters may be configured to do
    Messages,       \* what clients may send
    Pods,           \* the kind and the ADAPTER_ID of each adapter process
    Segments,       \* first segments of request paths; Nil for none
    localIDToType,  \* id of a container -> type of adapter; any id that
                    \* begins with local-sender goes to REST-SENDER
    Senders,        \* the types that end in -SENDER
    Nil

VARIABLES
    localMode,      \* LOCAL_MODE of the control plane and PATH_PREFIX_MODE
    hosted,         \* scenario -> the array of its adapters, and their number
    request,        \* the request in progress
    inForce,        \* what it could have been told since it came
    overtaken       \* whether adapters moved while they were looked through

stubVars == <<localMode, hosted, request, inForce, overtaken>>

OfSender == "SENDER"
PostOnly == {"AS2", "AS4", "EDIFACT", OfSender}
Plain    == {"REST", "OData"}
Kinds    == PostOnly \cup Plain \cup {"SOAP", "XI"}

(* user stands for the credentials, which a stub asks for and a sender     *)
(* shows.  The last three are a sender's: whom to call, and whether and    *)
(* where to fetch a token first.                                           *)
ConfigRecord ==
    [user : STRING \cup {Nil}, status : Nat, body : BOOLEAN,
     failure : BOOLEAN, delay : BOOLEAN, partner : STRING \cup {Nil},
     target : STRING \cup {Nil}, csrf : BOOLEAN, fetch : STRING \cup {Nil}]

AllConfigs == UNION {Configs[type] : type \in DOMAIN Configs}

Statuses == {"stopped", "running"}

Adapters ==
    {x \in [id : STRING, type : DOMAIN Configs, status : Statuses, config : AllConfigs] :
        x.config \in Configs[x.type]}

Slices == {s \in [array : Seq(Adapters), len : Nat] : s.len <= Len(s.array)}

ASSUME StubAssumption ==
    /\ AllConfigs \subseteq ConfigRecord /\ Nil \notin AllConfigs
    /\ \A h \in Hosts : h \in [DOMAIN h -> Slices] /\ IsFiniteSet(DOMAIN h)
    /\ Pods \subseteq [kind : Kinds, env : STRING]
    /\ Nil \notin STRING

NotFound == "not found"
Unreachable == "unreachable"

Found == {[config |-> c] : c \in AllConfigs}
Lost == {[failed |-> NotFound], [failed |-> Unreachable]}

Phases == {"none", "fetch", "lookup", "check", "wait", "answered"}
SenderPhases == {"token", "call", "dial"}

(* A request: what its handler holds, at the adapter and, during a lookup, *)
(* at the control plane.  reported and served are the ids of the adapter   *)
(* that was reported to be used and of the one whose configuration this    *)
(* is; trigger is a sender's.                                              *)
NoRequest ==
    [phase |-> "none", kind |-> Nil, id |-> Nil, message |-> Nil,
     byType |-> FALSE, next |-> 0, cells |-> <<>>, config |-> Nil,
     reply |-> Nil, reported |-> Nil, served |-> Nil, trigger |-> Nil]

(* The connection is dropped only over a status that cannot be sent; 0 can *)
(* be, by those who have a default for it.                                 *)
OnlyIfConfigured ==
    \/ request.kind \in Plain
    \/ \E o \in inForce :
          "config" \in DOMAIN o /\ o.config.status \notin {0} \cup (100 .. 999)

StubTypeOK ==
    /\ localMode \in BOOLEAN /\ overtaken \in BOOLEAN
    /\ \A s \in DOMAIN hosted :
          /\ hosted[s].len \in 0 .. Len(hosted[s].array)
          /\ \A i \in DOMAIN hosted[s].array :
                hosted[s].array[i].config \in Configs[hosted[s].array[i].type]
    /\ request.phase \in Phases \cup SenderPhases
    /\ request.phase = "lookup" => request.next \in 1 .. (Len(request.cells) + 1)
    /\ request.phase \in {"check", "wait", "token", "call"} =>
          request.config \in AllConfigs
    /\ request.phase = "answered" =>
          \/ request.reply.status \in 100 .. 999
          \/ request.reply.status = 0 /\ OnlyIfConfigured
    /\ inForce \subseteq Found \cup Lost

(***************************************************************************)
(* What an adapter answers, by kind.  Bodies: what was configured, the     *)
(* built-in response, an acknowledgement (MDN, receipt, EDI ack), a fault. *)
(***************************************************************************)
(* Mutant: the status goes out as it is configured.                        *)
OrNot(status, default) == status

Or(status, default) == IF status = 0 THEN default ELSE status

ReplyOf(status, body) == [status |-> status, body |-> body]

(* net/http panics on a status that is not of three digits, and drops the  *)
(* connection.                                                             *)
Aborted == ReplyOf(0, "none")

Sent(reply) == IF reply.status \in 100 .. 999 THEN reply ELSE Aborted

IsMetadata(kind, m) == kind = "OData" /\ m.metadata

ChecksXml(kind, m) == kind = "AS4" \/ (kind \in {"SOAP", "XI"} /\ m.post)

(* Why a message is refused, in the order of the checks; Nil: it is not.   *)
Refusal(kind, c, m) ==
    CASE c.user # Nil /\ m.user # c.user -> 401
      [] ChecksXml(kind, m) /\ ~m.xml -> 415
      [] ChecksXml(kind, m) /\ ~m.envelope -> 400
      [] kind = "AS2" /\ Nil \in {m.from, m.to} -> 400
      [] kind = "AS2" /\ c.partner # Nil /\ m.from # c.partner -> 403
      [] OTHER -> Nil

Waits(kind, c) == c.delay /\ kind \notin Plain

SoapReply(c) ==
    IF c.failure /\ ~c.body
    THEN ReplyOf(IF c.status \in {0, 200} THEN 500 ELSE c.status, "fault")
    ELSE ReplyOf(Or(c.status, 200), IF c.body THEN "custom" ELSE "built-in")

XiReply(c) ==
    LET status == Or(c.status, 202)
    IN  ReplyOf(status, IF c.body THEN "custom"
                        ELSE IF status = 202 THEN "none" ELSE "built-in")

AckReply(c) ==
    IF c.body THEN ReplyOf(Or(c.status, 200), "custom") ELSE ReplyOf(200, "ack")

Reply(kind, c, m) ==
    CASE IsMetadata(kind, m) -> ReplyOf(200, "built-in")
      [] kind \in Plain /\ ~IsMetadata(kind, m) -> Sent(ReplyOf(c.status, "custom"))
      [] kind = "SOAP" -> Sent(SoapReply(c))
      [] kind = "XI" -> Sent(XiReply(c))
      [] OTHER -> Sent(AckReply(c))

resolveAdapterID(pod, segment) ==
    IF localMode /\ segment # Nil THEN segment ELSE pod.env

AnswerTo(r, reply) ==
    [NoRequest EXCEPT !.phase = "answered", !.kind = r.kind,
                      !.message = r.message, !.reply = reply]

(* A stub answers 500 when it has no configuration, a sender a result that *)
(* says so.                                                                *)
Failure(kind, why) == ReplyOf(IF kind = OfSender THEN 200 ELSE 500, why)

Answered(reply) == request' = AnswerTo(request, reply)

(* What can be said of id without any loop: adapters that have the id, or  *)
(* else running ones of the type it stands for; both, once adapters have   *)
(* moved under the lookup.                                                 *)
IsOf(x, type) ==
    x.type = type \/ (type = "REST-SENDER" /\ x.type \in Senders)

ByType(x, id) ==
    localMode /\ id \in DOMAIN localIDToType /\ IsOf(x, localIDToType[id])

Addressed(h, id, moved) ==
    LET all  == UNION {{h[s].array[i] : i \in 1 .. h[s].len} : s \in DOMAIN h}
        same == {x \in all : x.id = id}
        type == {x \in all : x.status = "running" /\ ByType(x, id)}
        xs   == IF moved THEN same \cup type ELSE IF same # {} THEN same ELSE type
    IN  {[config |-> x.config] : x \in xs}
        \cup (IF xs = {} \/ moved THEN {[failed |-> NotFound]} ELSE {})

(***************************************************************************)
(* A request.                                                              *)
(***************************************************************************)
(* The report of activity is sent off first, and may arrive at any time or *)
(* never; ControlPlane says what it does there.  OData's $metadata goes    *)
(* without, and what a sender turns away.                                  *)
Reports(kind, m) == ~IsMetadata(kind, m) /\ (kind = OfSender => m.post)

(* Mutant: a container reports the id it was started with.                 *)
ReportedAsEnv(pod, id, m) == IF Reports(pod.kind, m) THEN pod.env ELSE Nil

ReportedAs(pod, id, m) == IF Reports(pod.kind, m) THEN id ELSE Nil

Receive(pod, segment, m) ==
    LET id == resolveAdapterID(pod, segment)
        r  == [NoRequest EXCEPT !.phase = "fetch", !.kind = pod.kind, !.id = id,
                                !.message = m, !.reported = ReportedAs(pod, id, m)]
    IN  /\ request.phase = "none"
        /\ request' = IF pod.kind \in PostOnly /\ ~m.post
                      THEN AnswerTo(r, ReplyOf(405, "fault")) ELSE r
        /\ inForce' = Addressed(hosted, id, FALSE) \cup {[failed |-> Unreachable]}
        /\ UNCHANGED <<localMode, hosted, overtaken>>

Rest == <<localMode, hosted, inForce, overtaken>>

(* GET /api/adapter-config/<id> may fail or time out.                      *)
FetchConfig ==
    /\ request.phase = "fetch"
    /\ Answered(Failure(request.kind, Unreachable))
    /\ UNCHANGED Rest

(* What two nested loops go through: the scenarios in the order of a map,  *)
(* any order, and of each the adapters that it has now, one by one.        *)
Cells == UNION {{s} \X (1 .. hosted[s].len) : s \in DOMAIN hosted}

Nested(cells) ==
    \A j, k \in DOMAIN cells : j < k =>
        IF cells[j][1] = cells[k][1] THEN cells[j][2] < cells[k][2]
        ELSE \A m \in (k + 1) .. Len(cells) : cells[m][1] # cells[j][1]

HandleAdapterConfig ==
    /\ request.phase = "fetch"
    /\ \E cells \in SetToSeqs(Cells) :
          /\ Nested(cells)
          /\ request' = [request EXCEPT !.phase = "lookup", !.next = 1,
                                        !.cells = cells]
    /\ UNCHANGED Rest

(* Mutant: any adapter of the type will do.                                *)
MatchesAnyStatus(x) ==
    IF request.byType THEN ByType(x, request.id) ELSE x.id = request.id

Matches(x) ==
    IF request.byType THEN x.status = "running" /\ ByType(x, request.id)
    ELSE x.id = request.id

(* Mutant: the adapter asks again until it is told.                        *)
MissingRetrying ==
    request' = [request EXCEPT !.phase = "fetch", !.byType = FALSE,
                               !.cells = <<>>, !.next = 0]

Missing == Answered(Failure(request.kind, NotFound))

(* One element of the range, which is a copy of what is in the array now.  *)
Examine ==
    /\ request.phase = "lookup" /\ request.next <= Len(request.cells)
    /\ LET cell == request.cells[request.next]
           x    == hosted[cell[1]].array[cell[2]]
       IN  request' = IF Matches(x)
                      THEN [request EXCEPT !.phase = "check", !.cells = <<>>,
                               !.next = 0, !.id = Nil, !.config = x.config,
                               !.served = x.id]
                      ELSE [request EXCEPT !.next = @ + 1]
    /\ UNCHANGED Rest

(* Nobody has the id.  In local mode it may stand for a type.              *)
LookFurther ==
    /\ request.phase = "lookup" /\ request.next > Len(request.cells)
    /\ IF localMode /\ ~request.byType /\ request.id \in DOMAIN localIDToType
       THEN request' = [request EXCEPT !.byType = TRUE, !.next = 1]
       ELSE Missing
    /\ UNCHANGED Rest

(* checkInboundAuth, the checks of the protocol, and the answer unless     *)
(* there is a delay.                                                       *)
Check ==
    /\ request.phase = "check" /\ request.kind # OfSender
    /\ LET no == Refusal(request.kind, request.config, request.message)
       IN  IF no # Nil THEN Answered(ReplyOf(no, "fault"))
           ELSE IF Waits(request.kind, request.config)
           THEN request' = [request EXCEPT !.phase = "wait"]
           ELSE Answered(Reply(request.kind, request.config, request.message))
    /\ UNCHANGED Rest

Wake ==
    /\ request.phase = "wait"
    /\ Answered(Reply(request.kind, request.config, request.message))
    /\ UNCHANGED Rest

Depart ==
    /\ request.phase = "answered"
    /\ request' = NoRequest /\ inForce' = {} /\ overtaken' = FALSE
    /\ UNCHANGED <<localMode, hosted>>

(***************************************************************************)
(* The dashboard changes the adapters.  What a fetch can find changes with *)
(* them until the configuration is there.                                  *)
(***************************************************************************)
Becomes(h, moves) ==
    /\ hosted' = h
    /\ overtaken' = (overtaken \/ (request.phase = "lookup" /\ moves))
    /\ inForce' = IF request.phase \in {"fetch", "lookup"}
                  THEN inForce \cup Addressed(hosted, request.id, overtaken')
                               \cup Addressed(h, request.id, overtaken')
                  ELSE inForce
    /\ UNCHANGED <<localMode, request>>

Edit(s, i, c) ==
    Becomes([hosted EXCEPT ![s].array[i].config = c], FALSE)

(* One adapter of a launch or a stop.  A lookup by type may have passed it *)
(* before, and come to another after, that one was stopped.                *)
LaunchOrStop(s, i, status) ==
    Becomes([hosted EXCEPT ![s].array[i].status = status],
            ByType(hosted[s].array[i], request.id))

(* The adapters behind it move up; the last one's place keeps its copy, in *)
(* which a lookup by type may still find it.                               *)
Delete(s, i) ==
    LET a == hosted[s].array
        n == hosted[s].len
        moves == \/ ByType(a[i], request.id)
                 \/ \E j \in (i + 1) .. n :
                       a[j].id = request.id \/ ByType(a[j], request.id)
        up == [k \in DOMAIN a |-> IF k \in i .. (n - 1) THEN a[k + 1] ELSE a[k]]
    IN  Becomes([hosted EXCEPT ![s] = [array |-> up, len |-> n - 1]], moves)

StubInit ==
    /\ localMode \in BOOLEAN
    /\ hosted \in Hosts
    /\ request = NoRequest /\ inForce = {} /\ overtaken = FALSE

Serve ==
    \/ FetchConfig \/ HandleAdapterConfig \/ Examine \/ LookFurther
    \/ Check \/ Wake

StubNext ==
    \/ \E pod \in Pods, g \in Segments, m \in Messages : Receive(pod, g, m)
    \/ Serve \/ Depart
    \/ \E s \in DOMAIN hosted : \E i \in 1 .. hosted[s].len :
          \/ \E status \in Statuses : LaunchOrStop(s, i, status)
          \/ \E c \in Configs[hosted[s].array[i].type] : Edit(s, i, c)
          \/ Delete(s, i)

-----------------------------------------------------------------------------

(* Every answer is what one configuration says that the addressed adapter  *)
(* had at a moment between the request and the lookup: never an older one, *)
(* never that of a stopped stand-in.  A client is told there is no adapter *)
(* only if there was a moment without one, or if the dashboard deleted,    *)
(* launched or stopped adapters at just the moment of the lookup.          *)
Says(o, kind, m) ==
    IF "failed" \in DOMAIN o THEN Failure(kind, o.failed)
    ELSE LET no == Refusal(kind, o.config, m)
         IN  IF no # Nil THEN ReplyOf(no, "fault") ELSE Reply(kind, o.config, m)

(* Not of a sender that found its configuration: see CallsAreConfigured.   *)
AnswerIsCurrent ==
    request.phase = "answered" /\ request.kind \in Kinds /\ request.trigger = Nil =>
        \/ request.reply = ReplyOf(405, "fault") /\ ~request.message.post
        \/ \E o \in inForce : request.reply = Says(o, request.kind, request.message)

(* Whoever's configuration is used is reported to be used, and so keeps    *)
(* running: save by a request for $metadata, or when the adapter only      *)
(* stands in for a fixed id that it does not have.                         *)
UseIsReported ==
    request.served # Nil =>
        \/ request.reported = request.served
        \/ request.byType
        \/ IsMetadata(request.kind, request.message)

(* Every request comes to an end, with an answer or a dropped connection,  *)
(* whether or not the adapter is configured; also those that make a sender *)
(* call others.                                                            *)
RequestsEnd == (request.phase # "none") ~> (request.phase = "answered")

=============================================================================
