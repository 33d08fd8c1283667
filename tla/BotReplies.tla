----------------------------- MODULE BotReplies -----------------------------
(***************************************************************************)
(* What the bot says: an update is accepted and parsed, dispatched to its  *)
(* handler, and the result mapped to a code, an outbound plan and a        *)
(* message. A message stands for its catalog key. The handler reads before *)
(* the answer is composed, and time may pass in between.                   *)
(***************************************************************************)
EXTENDS Naturals

CONSTANT LastDate

ASSUME RepliesAssumption == LastDate \in Nat
NoDate == LastDate + 1

Commands == [
    bootstrap |-> {"/start"}, status |-> {"/status", "/my_subscription"},
    help |-> {"/help", "/menu"}, resend |-> {"/resend_access", "/get_access"},
    plans |-> {"/plans"}, buy |-> {"/buy", "/checkout"}, success |-> {"/success"},
    renew |-> {"/renew"}, support_menu |-> {"/support"},
    support_contact |-> {"/support_contact"}]
Tokens == UNION {Commands[k] : k \in DOMAIN Commands} \union {"/unknown"}

Private == [surface |-> "message", id |-> "valid", chat |-> "private", sender |-> "chat",
            text |-> "/start"]
IncomingUpdates ==
    {[Private EXCEPT !.text = x] : x \in Tokens \union {"none", "long", "plain"}}
    \union {[Private EXCEPT !.surface = "edited"], [Private EXCEPT !.id = "missing"],
            [Private EXCEPT !.id = "invalid"], [Private EXCEPT !.chat = "group"],
            [Private EXCEPT !.sender = "invalid"], [Private EXCEPT !.sender = "other"]}

\* extract_slice1_envelope_from_telegram_update, without its reasons.
Extracted(u) == /\ u.surface = "message" /\ u.id = "valid" /\ u.chat = "private"
                /\ u.sender # "invalid" /\ u.text \in Tokens
Parsed(u, kind) == Extracted(u) /\ u.text \in Commands[kind]
\* The runtime answers only where chat and sender are the same.
Target(u) == u.surface = "message" /\ u.chat = "private" /\ u.sender = "chat"

Categories == {"persistence_transient", "idempotency_conflict", "validation",
               "persistence_invariant", "unknown"}
UserSafe(c) ==
    IF c = "validation" THEN "invalid_input"
    ELSE IF c \in {"persistence_transient", "idempotency_conflict"} THEN "try_again_later"
    ELSE "service_unavailable"

Members == [known : BOOLEAN, label : {"missing", "active", "needs_review", "inactive"},
            until : 0..LastDate \union {NoDate}, access : {"none", "revoked", "issued"}]
Reads == {"identity", "snapshot", "issuance"}
NoFault == [read |-> "none", category |-> "none"]
Faults == {NoFault} \union [read : Reads, category : {"persistence_transient", "unknown"}]
\* A link that already carries a client reference cannot take another.
Links == {"none", "plain", "referenced"}
Configs == [checkout : Links, renewal : Links, secret : BOOLEAN, support : BOOLEAN]
Open == [checkout |-> "plain", renewal |-> "none", secret |-> TRUE, support |-> TRUE]
Stranger == [known |-> FALSE, label |-> "missing", until |-> NoDate, access |-> "none"]
NoReply == [text |-> "none", until |-> NoDate, marker |-> "none", followUp |-> FALSE,
            send |-> FALSE]

VARIABLES date, update, member, fault, config,
          asked,      \* when the handler read
          response,   \* the TransportSafeResponse, once handled
          reply       \* the runtime action, once composed

replyVars == <<date, update, member, fault, config, asked, response, reply>>

Response(category, code) ==
    [category |-> category, code |-> code, replay |-> FALSE, until |-> NoDate,
     followable |-> FALSE]
NoResponse == Response("none", "none")
Said(code) == Response("success", code)
Failed(code) == Response("error", code)

RepliesInit ==
    /\ date = 0 /\ update = Private /\ member = Stranger /\ fault = NoFault /\ config = Open
    /\ asked = 0 /\ response = NoResponse /\ reply = NoReply

-----------------------------------------------------------------------------
(* UC-02: what /status and /success read. *)

RanOut(m) == m.until # NoDate /\ date > m.until
SafeStatus(m) ==
    CASE ~m.known -> "needs_bootstrap"
      [] m.known /\ m.label = "active" /\ RanOut(m) -> "subscription_expired"
      [] m.known /\ m.label = "active" /\ ~RanOut(m) ->
           IF m.access = "issued" THEN "subscription_active_access_ready"
           ELSE "subscription_active_access_not_ready"
      [] m.known /\ m.label = "needs_review" -> "needs_review"
      [] OTHER -> "inactive_or_not_eligible"
ActiveStatuses == {"subscription_active", "subscription_active_access_ready",
                   "subscription_active_access_not_ready"}
\* A read that fails ends the handler; it reads on only where it must.
Performed(m) == {"identity"} \union (IF m.known THEN {"snapshot"} ELSE {})
                \union (IF SafeStatus(m) \in ActiveStatuses THEN {"issuance"} ELSE {})
Breaks(m, f) == f.read \in Performed(m)

StatusResponse(m, f) ==
    IF Breaks(m, f) THEN Failed(UserSafe(f.category))
    ELSE IF ~m.known THEN Response("guidance", "needs_onboarding")
    ELSE [Said(SafeStatus(m)) EXCEPT !.until = m.until,
                                     !.followable = SafeStatus(m) \in ActiveStatuses]

-----------------------------------------------------------------------------
(* The arms of the dispatcher. *)

ResendCodes == {"resend_access_not_enabled", "resend_access_accepted",
                "resend_access_not_eligible", "resend_access_cooldown",
                "resend_access_not_ready", "resend_access_temporarily_unavailable"}

Waiting == response = NoResponse /\ reply = NoReply
Takes(kind) == {u \in IncomingUpdates : Parsed(u, kind)}
Handle(u, m, f, c, r) ==
    /\ update' = u /\ member' = m /\ fault' = f /\ config' = c /\ response' = r
    /\ asked' = date /\ UNCHANGED <<date, reply>>
Plainly(kind, r) ==
    Waiting /\ \E u \in Takes(kind) : Handle(u, Stranger, NoFault, Open, r)
WithConfig(kind, r) ==
    Waiting /\ \E u \in Takes(kind), c \in Configs : Handle(u, Stranger, NoFault, c, r)

Limited == Failed("telegram_command_rate_limited")

Reject ==
    /\ Waiting
    /\ \E u \in IncomingUpdates \ UNION {Takes(kind) : kind \in DOMAIN Commands} :
         Handle(u, Stranger, NoFault, Open, Failed("invalid_input"))
Help == Plainly("help", Said("slice1_help"))
Plans == Plainly("plans", Said("store_plans"))
Buy == WithConfig("buy", Said("store_buy"))
Renew == WithConfig("renew", Said("store_renew"))
SupportMenu == Plainly("support_menu", Said("support_menu")) \/ Plainly("support_menu", Limited)
SupportContact ==
    WithConfig("support_contact", Said("support_contact")) \/ Plainly("support_contact", Limited)
\* A failed lookup reads as not active.
Success ==
    /\ Waiting
    /\ \E u \in Takes("success"), m \in Members, f \in Faults :
         Handle(u, m, f, Open,
                IF ~Breaks(m, f) /\ SafeStatus(m) \in ActiveStatuses
                THEN Said("store_success_active") ELSE Said("store_success"))
Bootstrap ==
    /\ Waiting
    /\ \E u \in Takes("bootstrap"), f \in Faults :
        \E r \in IF f # NoFault THEN {Failed(UserSafe(f.category))}
                 ELSE {[Said("identity_ready") EXCEPT !.replay = b] : b \in BOOLEAN} :
            Handle(u, [Stranger EXCEPT !.known = TRUE], f, Open, r)
Status ==
    /\ Waiting
    /\ \E u \in Takes("status"), m \in Members, f \in Faults :
         Handle(u, m, f, Open, StatusResponse(m, f))
StatusLimited == Plainly("status", Limited)
\* The outcome is decided by the handler of /get_access. When one of its lookups
\* raises there is no response to compose (Delivery, ServeRaises).
ResendAccess ==
    \/ \E code \in ResendCodes : Plainly("resend", Said(code))
    \/ Plainly("resend", Limited)

-----------------------------------------------------------------------------
(* The outbound plan and the catalog. *)

MainMenu == {"identity_ready", "slice1_help", "store_menu", "store_plans", "store_buy",
             "store_success", "store_success_active", "store_renew"}
\* Defect: the plan does not know the code of an expired subscription.
PlannedWithoutExpired == [
    success |-> MainMenu \union ResendCodes \union ActiveStatuses \union
        {"support_menu", "support_contact", "inactive_or_not_eligible", "needs_review"},
    guidance |-> {"needs_onboarding"},
    error |-> {"invalid_input", "try_again_later", "service_unavailable",
               "telegram_command_rate_limited"}]

Planned == [
    success |-> MainMenu \union ResendCodes \union ActiveStatuses \union
        {"subscription_expired", "support_menu", "support_contact",
         "inactive_or_not_eligible", "needs_review"},
    guidance |-> {"needs_onboarding"},
    error |-> {"invalid_input", "try_again_later", "service_unavailable",
               "telegram_command_rate_limited"}]
MessageKey(r) == IF r.code \in Planned[r.category] THEN r.code ELSE "service_unavailable"
Marker(key) ==
    IF key \in MainMenu THEN "storefront_main"
    ELSE IF key \in {"support_menu", "support_contact"} THEN key
    ELSE IF key = "needs_onboarding" THEN "primary_onboarding"
    ELSE "none"

\* Without an address, a secret or a known user there is no link to show.
Text(key, c, u) ==
    LET url == IF key = "store_buy" \/ c.renewal = "none" THEN c.checkout ELSE c.renewal
    IN  IF key \in {"store_buy", "store_renew"}
        THEN IF url = "plain" /\ c.secret /\ Target(u) THEN key ELSE "checkout_not_configured"
        ELSE IF key = "support_contact" /\ ~c.support THEN "support_unavailable"
        ELSE key

\* The answer is composed on the date it is composed: the confirmation
\* follows only a subscription that is still open then.
Compose(pendingDelivery) ==
    /\ response # NoResponse
    /\ LET key == MessageKey(response) IN
        reply' = [text |-> Text(key, config, update),
                  until |-> IF key \in ActiveStatuses THEN response.until ELSE NoDate,
                  marker |-> Marker(key),
                  followUp |-> response.followable /\ response.until # NoDate
                               /\ response.until > date,
                  send |-> Target(update) /\ (response.replay => pendingDelivery)]
    /\ response' = NoResponse
    /\ UNCHANGED <<date, update, member, fault, config, asked>>

\* The next update finds whatever member, fault and configuration there is.
NextUpdate ==
    /\ reply # NoReply
    /\ update' = Private /\ member' = Stranger /\ fault' = NoFault /\ config' = Open
    /\ asked' = 0 /\ reply' = NoReply /\ UNCHANGED <<date, response>>

NextDate == date < LastDate /\ date' = date + 1 /\ reply = NoReply
            /\ UNCHANGED <<update, member, fault, config, asked, response, reply>>

RepliesNext ==
    \/ Reject \/ Help \/ Plans \/ Buy \/ Renew \/ SupportMenu \/ SupportContact
    \/ Success \/ Bootstrap \/ Status \/ StatusLimited \/ ResendAccess
    \/ \E b \in BOOLEAN : Compose(b)
    \/ NextUpdate \/ NextDate
RepliesSpec == RepliesInit /\ [][RepliesNext]_replyVars

-----------------------------------------------------------------------------
\* What the bot says is so, whatever code the handler's result was turned
\* into on the way. An outage or a retry is said only of a failure, and an
\* invalid input only of an update no handler takes: no code is missing from
\* the plan or the catalog. "Active" is said of an active label only, whose
\* window had not run out when the handler read; "ready"
\* of an issued row; the confirmation follows an active window that is still
\* open; the date shown is the member's; and a checkout link is shown only
\* where it can carry the reference of the sender.
ReplyMatchesState ==
    /\ reply.text \in {"service_unavailable", "try_again_later"} => fault # NoFault
    /\ reply.text = "invalid_input" <=>
         reply # NoReply /\ \A kind \in DOMAIN Commands : ~Parsed(update, kind)
    /\ reply.text \in ActiveStatuses \union {"store_success_active"} =>
         member.known /\ member.label = "active" /\ member.until >= asked
    /\ reply.text = "subscription_active_access_ready" => member.access = "issued"
    /\ reply.followUp => reply.text \in ActiveStatuses /\ ~RanOut(member)
    /\ reply.until \in {NoDate, member.until}
    /\ reply.text \in {"store_buy", "store_renew"} =>
         config.secret /\ "plain" \in {config.checkout, config.renewal}

=============================================================================
