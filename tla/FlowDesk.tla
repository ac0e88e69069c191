------------------------------ MODULE FlowDesk ------------------------------
(***************************************************************************)
(* The deterministic flows: the report and data-card routes, which the     *)
(* agent's tools share (backend/app/report.py, reports/, data/), the file  *)
(* link, the greeting, and below them the FinX client, its routing and the *)
(* two token stores (backend/app/finx/, reports/contract_notes.py).        *)
(*                                                                         *)
(* Requests are coroutines of one process.  A request is suspended in its  *)
(* calls to FinX (its legs: money has two at once) or in the fetch of the  *)
(* report's artifact; what it does between two answers is one step.  FinX  *)
(* is external: it authenticates the header it is sent, may do the work    *)
(* and lose the answer, and mails a report when the request says so.       *)
(*                                                                         *)
(* Left out is the time that a download's answer names for its link: it is *)
(* the wall clock's, computed apart from the store's and called a hint.    *)
(***************************************************************************)
EXTENDS Integers, Sequences, FiniteSets, FiniteSetsExt

CONSTANTS
  Requests, Sessions,
  MayAsk,      \* request -> the <<flow, origin>> it may be for: bounds the instance
  FileTtl,     \* config.report_file_ttl_seconds()
  RefTtl,      \* ContractNoteRefStore's ttl_seconds
  MaxNotes,    \* bound: notes in one listing
  Horizon      \* bound: the clock

Reports == {"pnl", "ledger", "tax"}
Flows == Reports \cup {"notes", "note", "holdings", "brokerage", "money", "file", "greeting"}
Endpoints == {"PNL", "LEDGER", "TAX", "LIST", "NOTE", "HOLDINGS", "PAYIN", "PAYOUT",
              "BROKERAGE", "PROFILE"}
\* sid is the FinX SessionId, jwt the SSO token: they expire one by one.
Credentials == {"sid", "jwt"}

ASSUME DeskAssumption ==
  /\ MayAsk \in [Requests -> SUBSET (Flows \X {"widget", "agent"})]
  /\ FileTtl \in Nat \ {0} /\ RefTtl \in Nat \ {0}
  /\ MaxNotes \in Nat \ {0} /\ Horizon \in Nat
  /\ IsFiniteSet(Sessions)

VARIABLES
  now,         \* time.monotonic()
  req,         \* request -> where it is and its locals
  files,       \* FileTokenStore._entries
  refs,        \* ContractNoteRefStore._refs
  minted,      \* tokens handed out by either store; token i is the i-th
  valid,       \* session -> the credentials FinX still accepts
  asked,       \* history: request -> how often FinX received each of its calls
  mailed,      \* history: request -> reports FinX has mailed for it
  memos,       \* the requests that left a flow event for the agent
  lastPut      \* history: when each store last took an entry

vars == <<now, req, files, refs, minted, valid, asked, mailed, memos, lastPut>>

-----------------------------------------------------------------------------
(* The flows and their upstream calls.                                     *)

\* run_pnl, run_ledger and run_tax are the same text: one call, then an answer by mail or a
\* link (ReportAnswered).  What differs is the endpoint and RequestFor, a code that means
\* different things to each.
Pnl    == [legs |-> <<"PNL">>,    download |-> 0, email |-> 1]
Ledger == [legs |-> <<"LEDGER">>, download |-> 0, email |-> 1]
TaxSwapped == [legs |-> <<"TAX">>, download |-> 1, email |-> 2]           \* mutant
Tax    == [legs |-> <<"TAX">>,    download |-> 2, email |-> 1]

ReportSpec(flow) == CASE flow = "pnl" -> Pnl [] flow = "ledger" -> Ledger [] flow = "tax" -> Tax

Legs(flow) ==
  CASE flow \in Reports    -> ReportSpec(flow).legs
    [] flow = "notes"      -> <<"LIST">>
    [] flow = "note"       -> <<"NOTE">>
    [] flow = "holdings"   -> <<"HOLDINGS">>
    [] flow = "brokerage"  -> <<"BROKERAGE">>
    [] flow = "money"      -> <<"PAYIN", "PAYOUT">>
    [] flow = "greeting"   -> <<"PROFILE">>

RequestFor(flow, delivery) ==
  IF delivery = "email" THEN ReportSpec(flow).email ELSE ReportSpec(flow).download

\* The authorization header of each endpoint.
Plain(c) == [prefix |-> "", credential |-> c]
Prefixed(c) == [prefix |-> "Session ", credential |-> c]
RouteAllBySession(e) == IF e = "HOLDINGS" THEN Prefixed("sid") ELSE Plain("sid")  \* mutant
Route(e) ==
  CASE e = "HOLDINGS"  -> Prefixed("sid")
    [] e = "BROKERAGE" -> Plain("jwt")
    [] OTHER           -> Plain("sid")
ProfileHeader == Plain("jwt")
NoteHeader == Prefixed("sid")
Header(e) ==
  CASE e = "PROFILE" -> ProfileHeader [] e = "NOTE" -> NoteHeader [] OTHER -> Route(e)

\* How often a connection is attempted: the FinX client, the profile proxy, and the
\* contract-note calls, which leave it to the transport.
Tries(e) == CASE e = "PROFILE" -> 2 [] e \in {"LIST", "NOTE"} -> 1 [] OTHER -> 3
FetchTries == 3

-----------------------------------------------------------------------------
(* FinX (external).                                                        *)

Wants(e) ==
  CASE e \in {"HOLDINGS", "NOTE"}     -> Prefixed("sid")
    [] e \in {"BROKERAGE", "PROFILE"} -> Plain("jwt")
    [] OTHER                          -> Plain("sid")
Accepts(s, e) == Header(e) = Wants(e) /\ Header(e).credential \in valid[s]

\* What a report request means to FinX.
Meaning(e, code) ==
  CASE code = 1 -> "email"
    [] code = (IF e = "TAX" THEN 2 ELSE 0) -> "download"
    [] OTHER -> "nothing"

\* Answers that are not refused with a 401: no content, a server error, a body that does
\* not parse, a failure status in the body, success.
Statuses(e) ==
  IF e = "NOTE" THEN {"204", "500", "ok"} ELSE {"204", "500", "garbled", "refused", "ok"}
\* What a successful body carries.
Values(e, meaning) ==
  CASE e \in {"PNL", "LEDGER", "TAX"} /\ meaning = "email" -> {"confirmation"}
    [] e \in {"PNL", "LEDGER", "TAX"} /\ meaning # "email" -> {"url", "text"}
    [] e = "PROFILE" -> {"name"}
    [] e = "NOTE" -> {"bytes"}
    [] OTHER -> {"rows", "norows", "malformed"}

-----------------------------------------------------------------------------
(* Results.                                                                *)

Kinds == {"none", "OK", "AUTH_EXPIRED", "EMPTY", "NO_DATA", "UPSTREAM_ERROR"}
Outcomes == {"none", "MISSING", "REJECTED", "VALIDATION", "AUTH_EXPIRED", "NO_DATA",
             "UPSTREAM_ERROR", "NOT_FOUND", "email", "download", "notes", "ok", "empty",
             "file", "greeted", "raised"}

\* The two-layer error model: transport status first, then the body's own.
MapResponse(status) ==
  CASE status = "401" -> "AUTH_EXPIRED"
    [] status = "204" -> "EMPTY"
    [] status = "refused" -> "NO_DATA"
    [] status = "ok" -> "OK"
    [] OTHER -> "UPSTREAM_ERROR"
\* A contract note is raw bytes: no body status, and no content is a failure.
MapNote(status) ==
  CASE status = "401" -> "AUTH_EXPIRED" [] status = "ok" -> "OK" [] OTHER -> "UPSTREAM_ERROR"
\* The greeting has no no-data answer.
MapProfile(status) ==
  CASE status = "401" -> "AUTH_EXPIRED" [] status = "ok" -> "OK" [] OTHER -> "UPSTREAM_ERROR"
Mapped(e, status) ==
  CASE e = "NOTE" -> MapNote(status) [] e = "PROFILE" -> MapProfile(status)
    [] OTHER -> MapResponse(status)

ToolErrorFromKind(kind) == IF kind = "EMPTY" THEN "NO_DATA" ELSE kind

-----------------------------------------------------------------------------
(* The token stores: short-lived entries, dropped when the next one is put or when they  *)
(* are asked for too late.                                                               *)

Entry(token, session, ttl) ==
  [token |-> token, session |-> session, born |-> now, expires |-> now + ttl]

KeptOthers(store) == {e \in store : e.expires > now + 1}                  \* mutant
Pruned(store) == {e \in store : e.expires > now}

Held(store, token) == {e \in store : e.token = token}
Live(store, token) == {e \in Held(store, token) : e.expires > now}
\* get() deletes what it finds expired.
AfterGet(store, token) == store \ (Held(store, token) \ Live(store, token))

LiveFor(store, token, s) == {e \in Live(store, token) : e.session = s}

-----------------------------------------------------------------------------
Leg(e) == [endpoint |-> e, try |-> 1, kind |-> "none", value |-> "none"]
NoInput == [flow |-> "none", origin |-> "none", session |-> "none", delivery |-> "none",
            token |-> 0]
\* got, until: history: the token it was answered with, and when its time to live is over.
Idle == [pc |-> "new", in |-> NoInput, legs |-> <<>>, try |-> 0, out |-> "none",
         partial |-> FALSE, got |-> 0, until |-> 0]

Init ==
  /\ now = 0
  /\ req = [r \in Requests |-> Idle]
  /\ files = {} /\ refs = {} /\ minted = 0
  /\ valid = [s \in Sessions |-> Credentials]
  /\ asked = [r \in Requests |-> <<>>]
  /\ mailed = [r \in Requests |-> 0]
  /\ memos = {}
  /\ lastPut = [files |-> 0, refs |-> 0]

\* What is left of a request when it is over; its other locals are gone.
Over(q, out) ==
  [q EXCEPT !.pc = "over", !.out = out, !.try = 0,
            !.legs = [i \in DOMAIN @ |-> [@[i] EXCEPT !.try = 0, !.value = "none"]]]

\* The outcomes for which a route calls record_flow_event; the agent's tools never do.
PnlRemembers    == {"email", "download", "NO_DATA"}
LedgerRemembers == {"email", "download", "NO_DATA"}
TaxRemembers    == {"email", "download", "NO_DATA"}
NotesRemembers  == {}
NoteRemembers   == {"download"}
Remembers(q, out) ==
  /\ q.in.origin = "widget"
  /\ out \in CASE q.in.flow = "pnl"    -> PnlRemembers
              [] q.in.flow = "ledger" -> LedgerRemembers
              [] q.in.flow = "tax"    -> TaxRemembers
              [] q.in.flow = "notes"  -> NotesRemembers
              [] q.in.flow = "note"   -> NoteRemembers
              [] OTHER -> {}

Finish(r, q, out) ==
  /\ req' = [req EXCEPT ![r] = Over(q, out)]
  /\ memos' = IF Remembers(q, out) THEN memos \cup {r} ELSE memos
NoTokens == UNCHANGED <<files, refs, minted, lastPut>>
Fail(r, q, kind) == Finish(r, q, ToolErrorFromKind(kind)) /\ NoTokens
\* An exception leaves the core: a widget's route ends in a 500, an agent's tool in the net
\* around it.
Raise(r) == Finish(r, req[r], "raised") /\ NoTokens

\* The artifact's bytes go to the store; the answer names the token.
Deliver(r, q) ==
  LET e == Entry(minted + 1, q.in.session, FileTtl)
  IN /\ files' = Pruned(files) \cup {e}
     /\ minted' = minted + 1
     /\ lastPut' = [lastPut EXCEPT !.files = now]
     /\ Finish(r, [q EXCEPT !.got = e.token, !.until = now + FileTtl], "download")
     /\ UNCHANGED refs

\* run_pnl, run_ledger, run_tax after the upstream call.
ReportAnswered(r, q) ==
  LET l == q.legs[1] IN
  IF l.kind # "OK" THEN Fail(r, q, l.kind)
  ELSE IF q.in.delivery = "email" THEN Finish(r, q, "email") /\ NoTokens
  ELSE IF l.value # "url" THEN Fail(r, q, "UPSTREAM_ERROR")
  ELSE /\ req' = [req EXCEPT ![r] = [q EXCEPT !.pc = "fetching", !.try = 1]]
       /\ NoTokens /\ UNCHANGED memos

\* Every note of a listing gets a token, put one after the other.
Listed(r, q, n) ==
  /\ refs' = Pruned(refs) \cup {Entry(t, q.in.session, RefTtl) : t \in minted + 1 .. minted + n}
  /\ minted' = minted + n
  /\ lastPut' = [lastPut EXCEPT !.refs = now]
  /\ UNCHANGED files

\* run_contract_notes_list: nothing to list is an answer.
NotesAnswered(r, q) ==
  LET l == q.legs[1] IN
  IF l.kind \in {"EMPTY", "NO_DATA"} \/ (l.kind = "OK" /\ l.value # "rows")
  THEN Finish(r, q, "notes") /\ NoTokens
  ELSE IF l.kind # "OK" THEN Fail(r, q, l.kind)
  ELSE \E n \in 1..MaxNotes :
         /\ Listed(r, q, n)
         /\ Finish(r, [q EXCEPT !.got = minted + n, !.until = now + RefTtl], "notes")

\* run_contract_notes_download after the upstream call.
NoteAnswered(r, q) ==
  IF q.legs[1].kind = "OK" THEN Deliver(r, q) ELSE Fail(r, q, q.legs[1].kind)

\* run_holdings: an empty answer is an answer, a malformed one is not.
HoldingsAnswered(r, q) ==
  LET l == q.legs[1] IN
  CASE l.kind = "EMPTY" \/ (l.kind = "OK" /\ l.value = "norows") -> Finish(r, q, "empty") /\ NoTokens
    [] l.kind = "OK" /\ l.value = "rows" -> Finish(r, q, "ok") /\ NoTokens
    [] l.kind = "OK" /\ l.value = "malformed" -> Fail(r, q, "UPSTREAM_ERROR")
    [] OTHER -> Fail(r, q, l.kind)

\* run_brokerage takes the same turns.
BrokerageAnswered(r, q) == HoldingsAnswered(r, q)

Usable(l) == l.kind \in {"OK", "EMPTY", "NO_DATA"}
HasRows(l) == l.kind = "OK" /\ l.value = "rows"
FirstFailure(q) == q.legs[1].kind                                         \* mutant
BothFailed(q) ==
  IF \E i \in 1..2 : q.legs[i].kind = "AUTH_EXPIRED" THEN "AUTH_EXPIRED" ELSE "UPSTREAM_ERROR"
Partial(q) == \E i \in 1..2 : ~Usable(q.legs[i])

\* run_money after both directions: one that failed leaves a partial answer.
MoneyAnswered(r, q) ==
  IF \A i \in 1..2 : ~Usable(q.legs[i]) THEN Fail(r, q, BothFailed(q))
  ELSE /\ Finish(r, [q EXCEPT !.partial = Partial(q)],
                 IF \E i \in 1..2 : HasRows(q.legs[i]) THEN "ok" ELSE "empty")
       /\ NoTokens

\* The greeting, and the copy it is shown with (see MarketClock), need the name only.
GreetingAnswered(r, q) ==
  IF q.legs[1].kind = "OK" THEN Finish(r, q, "greeted") /\ NoTokens
  ELSE Fail(r, q, q.legs[1].kind)

Answered(r, q) ==
  CASE q.in.flow \in Reports -> ReportAnswered(r, q)
    [] q.in.flow = "notes" -> NotesAnswered(r, q)
    [] q.in.flow = "note" -> NoteAnswered(r, q)
    [] q.in.flow = "holdings" -> HoldingsAnswered(r, q)
    [] q.in.flow = "brokerage" -> BrokerageAnswered(r, q)
    [] q.in.flow = "money" -> MoneyAnswered(r, q)
    [] q.in.flow = "greeting" -> GreetingAnswered(r, q)

\* One call is settled; the coroutine goes on when all are.
Settle(r, i, kind, value) ==
  LET q == [req[r] EXCEPT !.legs[i].kind = kind, !.legs[i].value = value]
  IN IF \E j \in DOMAIN q.legs : q.legs[j].kind = "none"
     THEN req' = [req EXCEPT ![r] = q] /\ NoTokens /\ UNCHANGED memos
     ELSE Answered(r, q)

-----------------------------------------------------------------------------
(* Requests.                                                               *)

\* A call without credentials or with a bad body ends at the door; the agent always has
\* credentials, and its parameters are checked by the core.
Refuse(r, in) ==
  /\ in.flow # "file"
  /\ \/ in.origin = "widget" /\ Finish(r, [Idle EXCEPT !.in = in], "MISSING")
     \/ /\ in.flow \in Reports \cup {"notes", "note"}
        /\ Finish(r, [Idle EXCEPT !.in = in],
                  IF in.origin = "agent" THEN "VALIDATION" ELSE "REJECTED")
  /\ NoTokens /\ UNCHANGED asked

Call(r, in) ==
  /\ in.flow # "file" /\ (in.flow = "note" => LiveFor(refs, in.token, in.session) # {})
  /\ req' = [req EXCEPT ![r] =
       [Idle EXCEPT !.pc = "calling", !.in = in,
                    !.legs = [i \in DOMAIN Legs(in.flow) |-> Leg(Legs(in.flow)[i])]]]
  /\ asked' = [asked EXCEPT ![r] = [i \in DOMAIN Legs(in.flow) |-> 0]]
  /\ refs' = IF in.flow = "note" THEN AfterGet(refs, in.token) ELSE refs
  /\ UNCHANGED <<files, minted, lastPut, memos>>

\* A note whose token is unknown, expired or another session's is no data.
NoteUnknown(r, in) ==
  /\ in.flow = "note" /\ LiveFor(refs, in.token, in.session) = {}
  /\ refs' = AfterGet(refs, in.token)
  /\ Finish(r, [Idle EXCEPT !.in = in], "NO_DATA")
  /\ UNCHANGED <<files, minted, lastPut, asked>>

\* GET /api/report/file/{token}: the token alone is enough.
FetchFile(r, in) ==
  /\ in.flow = "file"
  /\ files' = AfterGet(files, in.token)
  /\ Finish(r, [Idle EXCEPT !.in = in],
            IF Live(files, in.token) = {} THEN "NOT_FOUND" ELSE "file")
  /\ UNCHANGED <<refs, minted, lastPut, asked>>

Inputs(r) ==
  {in \in [flow : Flows, origin : {"widget", "agent"}, session : Sessions,
           delivery : {"download", "email"}, token : 0..minted] :
     <<in.flow, in.origin>> \in MayAsk[r]}
\* Only reports have a delivery, only links and notes a token; a link and the greeting are
\* the widget's.
Sensible(in) ==
  /\ in.flow \notin Reports => in.delivery = "download"
  /\ in.flow \notin {"note", "file"} => in.token = 0
  /\ in.flow \in {"file", "greeting"} => in.origin = "widget"

Arrive(r) ==
  /\ req[r].pc = "new"
  /\ \E in \in Inputs(r) :
       Sensible(in) /\ (Refuse(r, in) \/ Call(r, in) \/ NoteUnknown(r, in) \/ FetchFile(r, in))
  /\ UNCHANGED <<now, valid, mailed>>

Trying(r, i) == req[r].pc = "calling" /\ i \in DOMAIN req[r].legs /\ req[r].legs[i].kind = "none"

\* The transport could not connect: FinX has seen nothing, so the call is repeated.
Again(r, i) ==
  IF req[r].legs[i].try < Tries(req[r].legs[i].endpoint)
  THEN req' = [req EXCEPT ![r].legs[i].try = @ + 1] /\ NoTokens /\ UNCHANGED memos
  ELSE Settle(r, i, "UPSTREAM_ERROR", "none")

ConnectFails(r, i) ==
  /\ Trying(r, i)
  /\ Again(r, i)
  /\ UNCHANGED <<now, valid, asked, mailed>>

\* FinX gets the request of leg i.  A report is mailed when that is what it means, whether
\* or not the answer arrives.
Received(r, i, did) ==
  LET q == req[r].in
      e == req[r].legs[i].endpoint
  IN /\ asked' = [asked EXCEPT ![r][i] = @ + 1]
     /\ mailed' = IF did /\ q.flow \in Reports
                       /\ Meaning(e, RequestFor(q.flow, q.delivery)) = "email"
                  THEN [mailed EXCEPT ![r] = @ + 1] ELSE mailed

Retried(r, i) == Again(r, i)                                               \* mutant
GiveUp(r, i) == Settle(r, i, "UPSTREAM_ERROR", "none")
\* Any other failure of the call, before or after FinX did the work.
CallBreaks(r, i) ==
  /\ Trying(r, i)
  /\ \E did \in BOOLEAN :
       /\ did => Accepts(req[r].in.session, req[r].legs[i].endpoint)
       /\ Received(r, i, did)
  /\ GiveUp(r, i)
  /\ UNCHANGED <<now, valid>>

MeaningOf(r, i) ==
  IF req[r].in.flow \in Reports
  THEN Meaning(req[r].legs[i].endpoint, RequestFor(req[r].in.flow, req[r].in.delivery))
  ELSE "nothing"

Replies(r, i) ==
  /\ Trying(r, i)
  /\ LET e == req[r].legs[i].endpoint IN
     IF ~Accepts(req[r].in.session, e)
     THEN Received(r, i, FALSE) /\ Settle(r, i, Mapped(e, "401"), "none")
     ELSE \E status \in Statuses(e) :
            /\ Received(r, i, status = "ok")
            /\ IF status = "ok"
               THEN \E v \in Values(e, MeaningOf(r, i)) : Settle(r, i, Mapped(e, status), v)
               ELSE Settle(r, i, Mapped(e, status), "none")
  /\ UNCHANGED <<now, valid>>

\* The body's status is a list or an object, which no frozenset can be asked for.  What the
\* other call of the passbook does is nobody's business then.
StatusRaises(r, i) ==
  /\ Trying(r, i)
  /\ req[r].legs[i].endpoint \notin {"NOTE", "PROFILE"}
  /\ Accepts(req[r].in.session, req[r].legs[i].endpoint)
  /\ \E did \in BOOLEAN : Received(r, i, did)
  /\ Raise(r)
  /\ UNCHANGED <<now, valid>>

\* fetch_artifact, with the FinX client's retries.
FetchFails(r) ==
  /\ req[r].pc = "fetching"
  /\ \/ req[r].try < FetchTries /\ req' = [req EXCEPT ![r].try = @ + 1]
        /\ NoTokens /\ UNCHANGED memos
     \/ Fail(r, req[r], "UPSTREAM_ERROR")
  /\ UNCHANGED <<now, valid, asked, mailed>>

\* An address that httpx cannot parse: its InvalidURL is no HTTPError.
FetchRaises(r) ==
  /\ req[r].pc = "fetching" /\ req[r].try = 1
  /\ Raise(r)
  /\ UNCHANGED <<now, valid, asked, mailed>>

Fetched(r) ==
  /\ req[r].pc = "fetching"
  /\ Deliver(r, req[r])
  /\ UNCHANGED <<now, valid, asked, mailed>>

-----------------------------------------------------------------------------
Tick == now < Horizon /\ now' = now + 1
        /\ UNCHANGED <<req, files, refs, minted, valid, asked, mailed, memos, lastPut>>

Expire ==
  /\ \E s \in Sessions, c \in Credentials : valid' = [valid EXCEPT ![s] = @ \ {c}]
  /\ UNCHANGED <<now, req, files, refs, minted, asked, mailed, memos, lastPut>>

Step(r) ==
  \/ \E i \in 1..2 : ConnectFails(r, i) \/ CallBreaks(r, i) \/ Replies(r, i) \/ StatusRaises(r, i)
  \/ FetchFails(r) \/ FetchRaises(r) \/ Fetched(r)

Next == (\E r \in Requests : Arrive(r) \/ Step(r)) \/ Tick \/ Expire

Spec == Init /\ [][Next]_vars

-----------------------------------------------------------------------------
TypeOK ==
  /\ now \in 0..Horizon /\ minted \in Nat
  /\ \A r \in Requests :
       /\ req[r].pc \in {"new", "calling", "fetching", "over"}
       /\ req[r].out \in Outcomes /\ (req[r].out # "none" <=> req[r].pc = "over")
       /\ req[r].got \in 0..minted
       /\ \A i \in DOMAIN req[r].legs : req[r].legs[i].kind \in Kinds
       /\ DOMAIN asked[r] = DOMAIN req[r].legs
  /\ \A e \in files \cup refs : e.token \in 1..minted /\ e.session \in Sessions
  /\ \A e, f \in files \cup refs : e.token = f.token => e = f
  /\ valid \in [Sessions -> SUBSET Credentials] /\ memos \subseteq Requests

\* A call is repeated only when it never reached FinX: no call is received twice, however
\* its connections fail and whatever is lost on the way back (client.py).
AskedOnce == \A r \in Requests : \A i \in DOMAIN asked[r] : asked[r][i] <= 1

\* A report is mailed to the customer only when the customer chose email, never twice for
\* one request, and never reported as mailed when it was not (RequestFor of each report); and
\* of what the widget reports as mailed the agent is told.
MailedAsChosen ==
  \A r \in Requests :
    /\ mailed[r] <= IF req[r].in.flow \in Reports /\ req[r].in.delivery = "email" THEN 1 ELSE 0
    /\ req[r].out = "email" => mailed[r] = 1 /\ (req[r].in.origin = "widget" => r \in memos)

\* The customer is told to sign in again only when a credential that this flow needs has
\* expired; the other credential's expiry, or a failure of the other leg, is not enough.
ExpiryIsReal ==
  \A r \in Requests :
    req[r].out = "AUTH_EXPIRED" =>
      \E i \in DOMAIN req[r].legs :
        Wants(req[r].legs[i].endpoint).credential \notin valid[req[r].in.session]

\* The passbook says it is partial exactly when one direction failed, and when both failed
\* and one of them because the session expired, that is what the customer is told.
PassbookIsHonest ==
  \A r \in Requests :
    LET q == req[r] IN
    q.in.flow = "money" /\ q.pc = "over" /\ q.legs # <<>> /\ q.out # "raised" =>
      LET failed == {i \in 1..2 : q.legs[i].kind \in {"AUTH_EXPIRED", "UPSTREAM_ERROR"}} IN
      /\ q.out \in {"ok", "empty"} <=> failed # 1..2
      /\ q.out \in {"ok", "empty"} => (q.partial <=> failed # {})
      /\ q.out = "UPSTREAM_ERROR" => \A i \in failed : q.legs[i].kind = "UPSTREAM_ERROR"

\* A link or a note token is in its store, for its session, for the whole time to live of
\* that store, whatever others put, prune or ask for in between (put and get of both stores);
\* and the stores hold nothing that had expired when they last took an entry, so that what
\* they hold is bounded by what is put within one time to live.
TokensLast ==
  /\ \A e \in files : e.expires > lastPut.files
  /\ \A e \in refs : e.expires > lastPut.refs
  /\ \A r \in Requests :
      req[r].out \in {"download", "notes"} /\ req[r].got > 0 /\ now < req[r].until =>
        \E e \in (IF req[r].out = "download" THEN files ELSE refs) :
          e.token = req[r].got /\ e.session = req[r].in.session

\* "never raises across this boundary" (run_pnl, run_ledger, run_tax, run_money, both cores
\* of the contract notes): whatever FinX answers, a flow ends in an answer or an error code.
NeverRaises == \A r \in Requests : req[r].out # "raised"
=============================================================================
