--------------------------- MODULE MCStubAdapter ----------------------------
(***************************************************************************)
(* An instance of Sender: six kinds of adapter process; a scenario         *)
(* made by a user in local mode, whose adapter has the fixed id of its     *)
(* type, beside one from the manifest; or one with two such adapters and   *)
(* another between them; or one with two senders.                          *)
(***************************************************************************)
EXTENDS Sender, TLC

(* An adapter left to its built-in answers, for one partner, slow and set  *)
(* to fail; and one whose answer is configured, at once and for one user.  *)
BuiltIn == [user |-> Nil, status |-> 0, body |-> FALSE, failure |-> TRUE,
            delay |-> TRUE, partner |-> "ours",
            target |-> Nil, csrf |-> FALSE, fetch |-> Nil]
Custom  == [user |-> "u", status |-> 201, body |-> TRUE, failure |-> FALSE,
            delay |-> FALSE, partner |-> Nil,
            target |-> Nil, csrf |-> FALSE, fetch |-> Nil]

(* A sender that fetches its token from the system it calls; one that      *)
(* fetches it elsewhere; one whose target is no URL.  One without a target *)
(* is any other adapter that a sender is asked to serve.                   *)
Sends(user, target, csrf, fetch) ==
    [BuiltIn EXCEPT !.user = user, !.target = target, !.csrf = csrf, !.fetch = fetch]

ToCpi  == Sends("u", "cpi", TRUE, Nil)
ToOpen == Sends(Nil, "open", TRUE, "cpi")
NoUrl  == Sends("u", "%", TRUE, "cpi")

MCConfigs ==
    [type \in {"AS2", "SOAP", "REST-SENDER", "SOAP-SENDER"} |->
        CASE type = "AS2" -> {BuiltIn, Custom}
          [] type = "SOAP" -> {BuiltIn}
          [] type = "REST-SENDER" -> {ToCpi, ToOpen}
          [] type = "SOAP-SENDER" -> {NoUrl}]

MCAccounts == ("cpi" :> "u") @@ ("open" :> Nil)
MCGuarded == {"cpi"}

Adapter(id, type, c) == [id |-> id, type |-> type, status |-> "stopped", config |-> c]

Mine == Adapter("local-as2", "AS2", BuiltIn)

Slice(xs) == [array |-> xs, len |-> Len(xs)]

MCHosts ==
    { [s \in {"mine", "github"} |->
        IF s = "mine" THEN Slice(<<Mine>>)
        ELSE Slice(<<Adapter("g-as2-0", "AS2", Custom)>>)],
      [s \in {"mine"} |->
        Slice(<<Mine, Adapter("local-soap", "SOAP", BuiltIn),
                [Mine EXCEPT !.config = Custom]>>)],
      [s \in {"mine"} |->
        Slice(<<Adapter("local-sender", "REST-SENDER", ToCpi),
                Adapter("g-as2-0", "SOAP-SENDER", NoUrl)>>)] }

Get == [post |-> FALSE, user |-> Nil, xml |-> FALSE, envelope |-> FALSE,
        from |-> Nil, to |-> Nil, metadata |-> TRUE]
Good == [post |-> TRUE, user |-> "u", xml |-> TRUE, envelope |-> TRUE,
         from |-> "ours", to |-> "us", metadata |-> FALSE]
Stranger == [Good EXCEPT !.user = Nil, !.from = "theirs", !.envelope = FALSE]

Unaddressed == [Good EXCEPT !.to = Nil]

MCMessages == {Get, Good, Stranger, Unaddressed}

LocalIds == ("local-as2" :> "AS2") @@ ("local-odata" :> "OData")
            @@ ("local-sender" :> "REST-SENDER")
            @@ ("local-sender-2" :> "REST-SENDER") @@ ("local-soap" :> "SOAP")

(* REST answers as OData does and EDIFACT as AS2 does, with fewer cases.   *)
MCPods == { [kind |-> "OData", env |-> "local-odata"],
            [kind |-> "SOAP", env |-> "local-soap"], [kind |-> "XI", env |-> "g-as2-0"],
            [kind |-> "AS2", env |-> "local-as2"], [kind |-> "AS4", env |-> "g-as2-0"],
            [kind |-> "SENDER", env |-> "local-sender"],
            [kind |-> "SENDER", env |-> "local-sender-2"] }

MCSegments == {Nil, "g-as2-0"}

MCSenders == {"REST-SENDER", "SOAP-SENDER", "XI-SENDER"}

=============================================================================
