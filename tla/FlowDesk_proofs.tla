--------------------------- MODULE FlowDesk_proofs ---------------------------
(* What the guided flows promise, for any number of requests, sessions and notes and *)
(* any times to live: no call is received twice, mail goes where it was asked for,   *)
(* failures are told as what they are, and tokens last their whole time to live.     *)
EXTENDS FlowDesk, FiniteSetTheorems, TLAPS

-----------------------------------------------------------------------------
(* The inductive invariant.                                                *)

Texts == {"none", "confirmation", "url", "text", "name", "bytes", "rows", "norows", "malformed"}
LegType == [endpoint : Endpoints, try : Nat, kind : Kinds, value : Texts]
InputType ==
  [flow : Flows \cup {"none"}, origin : {"none", "widget", "agent"}, session : Sessions \cup {"none"},
   delivery : {"none", "download", "email"}, token : Nat]
RequestType ==
  [pc : {"new", "calling", "fetching", "over"}, in : InputType,
   legs : UNION {[1..n -> LegType] : n \in 0..2}, try : Nat, out : Outcomes,
   partial : BOOLEAN, got : Nat, until : Nat]
EntryType == [token : Nat \ {0}, session : Sessions, born : Nat, expires : Nat]

DeskType ==
  /\ now \in 0..Horizon /\ minted \in Nat
  /\ req \in [Requests -> RequestType]
  /\ files \subseteq EntryType /\ refs \subseteq EntryType
  /\ valid \in [Sessions -> SUBSET Credentials]
  /\ DOMAIN asked = Requests
  /\ mailed \in [Requests -> Nat]
  /\ memos \subseteq Requests
  /\ lastPut \in [files : Nat, refs : Nat]

ByMail(q) == q.in.flow \in Reports /\ q.in.delivery = "email"
Failed(q) == {i \in 1..2 : q.legs[i].kind \in {"AUTH_EXPIRED", "UPSTREAM_ERROR"}}

\* The calls of request q are those of its flow, a[i] of which FinX has received; none that
\* is open has been.  What holdings or brokerage answered is a list, or not one.
CallsOf(q, a) ==
  /\ q.pc = "new" => q.legs = <<>>
  /\ q.pc \in {"calling", "fetching"} => q.legs # <<>>
  /\ q.legs # <<>> =>
       /\ q.in.flow \in Flows \ {"file"} /\ q.in.session \in Sessions
       /\ DOMAIN q.legs = DOMAIN Legs(q.in.flow)
       /\ \A i \in DOMAIN q.legs : q.legs[i].endpoint = Legs(q.in.flow)[i]
  /\ a \in [DOMAIN q.legs -> 0..1]
  /\ \A i \in DOMAIN q.legs :
       q.legs[i].kind = "none" => (a[i] = 0 /\ q.pc = "calling") \/ q.out = "raised"
  /\ q.pc = "calling" /\ q.in.flow \in {"holdings", "brokerage"} =>
       \A i \in DOMAIN q.legs : q.legs[i].kind = "OK" => q.legs[i].value \in {"rows", "norows", "malformed"}

\* As much of that as still holds when an exception leaves the core.
ShapeOf(q, a) ==
  /\ q.legs # <<>> =>
       /\ q.in.flow \in Flows \ {"file"} /\ q.in.session \in Sessions
       /\ DOMAIN q.legs = DOMAIN Legs(q.in.flow)
       /\ \A i \in DOMAIN q.legs : q.legs[i].endpoint = Legs(q.in.flow)[i]
  /\ a \in [DOMAIN q.legs -> 0..1]

\* What was mailed for it.
MailOf(q, a, m) ==
  /\ m <= IF ByMail(q) /\ q.legs # <<>> THEN a[1] ELSE 0
  /\ ByMail(q) /\ q.legs # <<>> /\ q.legs[1].kind = "OK" => m = 1

\* How it stands.
ResultOf(q) ==
  /\ q.out # "none" <=> q.pc = "over"
  /\ q.pc # "over" => q.got = 0
  /\ q.pc = "fetching" => q.in.flow \in Reports /\ ~ ByMail(q)
  /\ q.out = "email" => ByMail(q) /\ q.legs # <<>> /\ q.legs[1].kind = "OK"
  /\ q.out = "AUTH_EXPIRED" => \E i \in DOMAIN q.legs : q.legs[i].kind = "AUTH_EXPIRED"
  /\ q.in.flow = "money" /\ q.pc = "over" /\ q.legs # <<>> /\ q.out # "raised" =>
       /\ q.out \in {"ok", "empty"} <=> Failed(q) # 1..2
       /\ q.out \in {"ok", "empty"} => (q.partial <=> Failed(q) # {})
       /\ q.out = "UPSTREAM_ERROR" => \A i \in Failed(q) : q.legs[i].kind = "UPSTREAM_ERROR"

RequestSound(q, a, m) == CallsOf(q, a) /\ MailOf(q, a, m) /\ ResultOf(q)

\* A call that was refused for a credential: FinX accepts that credential no more.
ExpiredLegs(q) ==
  \A i \in DOMAIN q.legs : q.legs[i].kind = "AUTH_EXPIRED" =>
    Wants(q.legs[i].endpoint).credential \notin valid[q.in.session]

\* The token it was answered with is in its store until its time to live is over.
Promised(q) ==
  /\ q.got <= minted
  /\ q.out \in {"download", "notes"} /\ q.got > 0 /\ now < q.until =>
       \E e \in (IF q.out = "download" THEN files ELSE refs) :
         e.token = q.got /\ e.session = q.in.session /\ e.expires = q.until

\* What the widget had mailed, the agent is told.
Told(q, r) == q.out = "email" /\ q.in.origin = "widget" => r \in memos

Entries ==
  /\ \A e \in files : e.expires > lastPut.files
  /\ \A e \in refs : e.expires > lastPut.refs
  /\ \A e \in files \cup refs : e.token <= minted
  /\ \A e, f \in files \cup refs : e.token = f.token => e = f

DeskInv ==
  /\ DeskType /\ Entries
  /\ \A r \in Requests :
       /\ RequestSound(req[r], asked[r], mailed[r]) /\ ExpiredLegs(req[r]) /\ Promised(req[r])
       /\ Told(req[r], r)

-----------------------------------------------------------------------------
(* The flows, their calls and FinX's answers.                              *)

\* Money asks for both directions, the link of a file asks for nothing, all others once.
LEMMA LegShape ==
  ASSUME NEW flow \in Flows \ {"file"}
  PROVE  /\ DOMAIN Legs(flow) = IF flow = "money" THEN 1..2 ELSE 1..1
         /\ \A i \in DOMAIN Legs(flow) : Legs(flow)[i] \in Endpoints
         /\ flow \in {"holdings", "brokerage"} =>
              \A i \in DOMAIN Legs(flow) : Legs(flow)[i] \in {"HOLDINGS", "BROKERAGE"}
         /\ flow = "pnl" => Legs(flow)[1] = "PNL"
         /\ flow = "ledger" => Legs(flow)[1] = "LEDGER"
         /\ flow = "tax" => Legs(flow)[1] = "TAX"
<1>1. CASE flow \in Reports
  <2>1. /\ Legs(flow) = ReportSpec(flow).legs
        /\ flow = "pnl" => ReportSpec(flow).legs = <<"PNL">>
        /\ flow = "ledger" => ReportSpec(flow).legs = <<"LEDGER">>
        /\ flow = "tax" => ReportSpec(flow).legs = <<"TAX">>
    BY <1>1 DEF Legs, ReportSpec, Pnl, Ledger, Tax, Reports
  <2> QED
    BY <1>1, <2>1 DEF Reports, Endpoints
<1>2. CASE flow = "money"
  <2>1. Legs(flow) = <<"PAYIN", "PAYOUT">>
    BY <1>2 DEF Legs, Reports
  <2> QED
    BY <1>2, <2>1 DEF Endpoints
<1>3. CASE flow \in {"notes", "note", "holdings", "brokerage", "greeting"}
  <2>1. /\ Legs(flow) \in {<<"LIST">>, <<"NOTE">>, <<"HOLDINGS">>, <<"BROKERAGE">>, <<"PROFILE">>}
        /\ flow \in {"holdings", "brokerage"} => Legs(flow) \in {<<"HOLDINGS">>, <<"BROKERAGE">>}
    BY <1>3 DEF Legs, Reports
  <2> QED
    BY <1>3, <2>1 DEF Endpoints
<1> QED
  BY <1>1, <1>2, <1>3 DEF Flows, Reports

\* Every endpoint is sent the credential that it wants, in the form that it wants.
LEMMA Headers ==
  ASSUME NEW e \in Endpoints
  PROVE  Header(e) = Wants(e) /\ Wants(e).credential \in Credentials
BY ZenonT(60) DEF Endpoints, Header, Wants, Route, ProfileHeader, NoteHeader, Plain, Prefixed, Credentials

\* A report request asks for mail exactly when the customer chose mail.
LEMMA MailIsMeant ==
  ASSUME NEW flow \in Reports, NEW delivery
  PROVE  Meaning(Legs(flow)[1], RequestFor(flow, delivery)) = "email" <=> delivery = "email"
<1>1. flow \in Flows \ {"file"}
  BY DEF Flows, Reports
<1>2. CASE flow \in {"pnl", "ledger"}
  <2>1. Legs(flow)[1] # "TAX" /\ RequestFor(flow, delivery) = IF delivery = "email" THEN 1 ELSE 0
    BY <1>1, <1>2, LegShape DEF RequestFor, ReportSpec, Pnl, Ledger
  <2> QED
    BY <2>1 DEF Meaning
<1>3. CASE flow = "tax"
  <2>1. Legs(flow)[1] = "TAX" /\ RequestFor(flow, delivery) = IF delivery = "email" THEN 1 ELSE 2
    BY <1>1, <1>3, LegShape DEF RequestFor, ReportSpec, Tax
  <2> QED
    BY <2>1 DEF Meaning
<1> QED
  BY <1>2, <1>3 DEF Reports

LEMMA MappedKinds ==
  ASSUME NEW e \in Endpoints, NEW status \in Statuses(e) \cup {"401"}
  PROVE  /\ Mapped(e, status) \in Kinds \ {"none"}
         /\ Mapped(e, status) = "AUTH_EXPIRED" <=> status = "401"
         /\ Mapped(e, status) = "OK" <=> status = "ok"
<1>1. status \in {"401", "204", "500", "garbled", "refused", "ok"}
  BY DEF Statuses
<1> QED
  BY <1>1 DEF Mapped, MapNote, MapProfile, MapResponse, Kinds

LEMMA ValueTexts ==
  ASSUME NEW e \in Endpoints, NEW meaning, NEW v \in Values(e, meaning)
  PROVE  v \in Texts /\ (e \in {"HOLDINGS", "BROKERAGE"} => v \in {"rows", "norows", "malformed"})
BY DEF Endpoints, Values, Texts

-----------------------------------------------------------------------------
(* The records of a request.                                               *)

LEMMA LegsAre ==
  ASSUME NEW q \in RequestType
  PROVE  \E n \in 0..2 : q.legs \in [1..n -> LegType]
BY DEF RequestType

\* A request with other legs.
WithLegs(q, legs) ==
  [pc |-> q.pc, in |-> q.in, legs |-> legs, try |-> q.try, out |-> q.out,
   partial |-> q.partial, got |-> q.got, until |-> q.until]

LEMMA LegsReplaced ==
  ASSUME NEW q \in RequestType, NEW legs
  PROVE  [q EXCEPT !.legs = legs] = WithLegs(q, legs)
<1>1. q = WithLegs(q, q.legs)
  BY DEF RequestType, WithLegs
<1> QED
  BY <1>1 DEF WithLegs

\* A request that is answered with a token, and one that waits for its artifact.
LEMMA TokenGiven ==
  ASSUME NEW q \in RequestType, NEW got, NEW until
  PROVE  [q EXCEPT !.got = got, !.until = until] =
           [pc |-> q.pc, in |-> q.in, legs |-> q.legs, try |-> q.try, out |-> q.out,
            partial |-> q.partial, got |-> got, until |-> until]
<1>1. q = WithLegs(q, q.legs)
  BY DEF RequestType, WithLegs
<1> DEFINE p == [pc |-> q.pc, in |-> q.in, legs |-> q.legs, try |-> q.try, out |-> q.out,
                 partial |-> q.partial, got |-> got, until |-> q.until]
<1>2. [q EXCEPT !.got = got] = p
  BY <1>1 DEF WithLegs
<1>3. [p EXCEPT !.until = until] =
        [pc |-> q.pc, in |-> q.in, legs |-> q.legs, try |-> q.try, out |-> q.out,
         partial |-> q.partial, got |-> got, until |-> until]
  OBVIOUS
<1> HIDE DEF p
<1> QED
  BY <1>2, <1>3

LEMMA FetchStarted ==
  ASSUME NEW q \in RequestType, NEW try \in Nat
  PROVE  [q EXCEPT !.pc = "fetching", !.try = try] =
           [pc |-> "fetching", in |-> q.in, legs |-> q.legs, try |-> try, out |-> q.out,
            partial |-> q.partial, got |-> q.got, until |-> q.until]
<1>1. q = WithLegs(q, q.legs)
  BY DEF RequestType, WithLegs
<1> DEFINE p == [pc |-> "fetching", in |-> q.in, legs |-> q.legs, try |-> q.try, out |-> q.out,
                 partial |-> q.partial, got |-> q.got, until |-> q.until]
<1>2. [q EXCEPT !.pc = "fetching"] = p
  BY <1>1 DEF WithLegs
<1>3. [p EXCEPT !.try = try] =
        [pc |-> "fetching", in |-> q.in, legs |-> q.legs, try |-> try, out |-> q.out,
         partial |-> q.partial, got |-> q.got, until |-> q.until]
  OBVIOUS
<1> HIDE DEF p
<1> QED
  BY <1>2, <1>3

\* Leg i of q answered, or given up.
LegSettled(q, i, kind, value) == [q EXCEPT !.legs[i].kind = kind, !.legs[i].value = value]

LEMMA SettledShape ==
  ASSUME NEW q \in RequestType, NEW i \in DOMAIN q.legs, NEW kind \in Kinds, NEW value \in Texts
  PROVE  LET p == LegSettled(q, i, kind, value) IN
         /\ p \in RequestType /\ p.pc = q.pc /\ p.in = q.in /\ p.out = q.out /\ p.got = q.got
         /\ DOMAIN p.legs = DOMAIN q.legs
         /\ p.legs[i].kind = kind /\ p.legs[i].value = value
         /\ \A j \in DOMAIN q.legs : p.legs[j].endpoint = q.legs[j].endpoint
         /\ \A j \in DOMAIN q.legs \ {i} : p.legs[j] = q.legs[j]
<1> DEFINE p == LegSettled(q, i, kind, value)
<1>1. PICK n \in 0..2 : q.legs \in [1..n -> LegType]
  BY LegsAre
<1> DEFINE first == [q.legs[i] EXCEPT !.kind = kind]
           legs1 == [q.legs EXCEPT ![i] = first]
           second == [legs1[i] EXCEPT !.value = value]
           legs2 == [legs1 EXCEPT ![i] = second]
<1>2. p = WithLegs(q, legs2)
  <2>1. p = [[q EXCEPT !.legs = legs1] EXCEPT !.legs = [[q EXCEPT !.legs = legs1].legs EXCEPT
               ![i] = [[q EXCEPT !.legs = legs1].legs[i] EXCEPT !.value = value]]]
    BY DEF LegSettled
  <2> HIDE DEF legs1, p
  <2>2. p = [WithLegs(q, legs1) EXCEPT !.legs = [WithLegs(q, legs1).legs EXCEPT
               ![i] = [WithLegs(q, legs1).legs[i] EXCEPT !.value = value]]]
    BY <2>1, LegsReplaced
  <2>3. WithLegs(q, legs1).legs = legs1
    BY DEF WithLegs
  <2>4. p = [WithLegs(q, legs1) EXCEPT !.legs = legs2]
    BY <2>2, <2>3
  <2> HIDE DEF legs2
  <2> QED
    BY <2>4 DEF WithLegs
<1> HIDE DEF p
<1>3. /\ p.legs \in [1..n -> LegType] /\ DOMAIN p.legs = DOMAIN q.legs
      /\ p.legs[i].kind = kind /\ p.legs[i].value = value
      /\ p.legs[i].endpoint = q.legs[i].endpoint
      /\ \A j \in DOMAIN q.legs \ {i} : p.legs[j] = q.legs[j]
  <2>1. first \in LegType /\ first.kind = kind /\ first.endpoint = q.legs[i].endpoint
    BY <1>1 DEF LegType
  <2>2. legs1 \in [1..n -> LegType] /\ legs1[i] = first /\ i \in 1..n
        /\ \A j \in 1..n \ {i} : legs1[j] = q.legs[j]
    BY <1>1, <2>1
  <2> HIDE DEF first, legs1
  <2>3. second \in LegType /\ second.kind = kind /\ second.value = value
        /\ second.endpoint = q.legs[i].endpoint
    BY <2>1, <2>2 DEF LegType
  <2> HIDE DEF second
  <2>4. legs2 \in [1..n -> LegType] /\ legs2[i] = second
        /\ \A j \in 1..n \ {i} : legs2[j] = q.legs[j]
    BY <2>2, <2>3
  <2>5. p.legs = legs2
    BY <1>2 DEF WithLegs
  <2> QED
    BY <1>1, <2>3, <2>4, <2>5
<1>4. p \in RequestType
  <2>1. p = WithLegs(q, p.legs)
    BY <1>2 DEF WithLegs
  <2> QED
    BY <1>3, <2>1, SMTT(60) DEF RequestType, WithLegs
<1>5. p.pc = q.pc /\ p.in = q.in /\ p.out = q.out /\ p.got = q.got
  BY <1>2 DEF WithLegs
<1> QED
  BY <1>3, <1>4, <1>5 DEF p

LEMMA OverShape ==
  ASSUME NEW q \in RequestType, NEW out \in Outcomes
  PROVE  LET p == Over(q, out) IN
         /\ p \in RequestType /\ p.pc = "over" /\ p.in = q.in /\ p.out = out
         /\ p.partial = q.partial /\ p.got = q.got /\ p.until = q.until
         /\ DOMAIN p.legs = DOMAIN q.legs
         /\ \A j \in DOMAIN q.legs : /\ p.legs[j].endpoint = q.legs[j].endpoint
                                     /\ p.legs[j].kind = q.legs[j].kind
<1> DEFINE p == Over(q, out)
           over == [i \in DOMAIN q.legs |-> [q.legs[i] EXCEPT !.try = 0, !.value = "none"]]
<1>1. PICK n \in 0..2 : q.legs \in [1..n -> LegType]
  BY LegsAre, SMTT(60)
<1>2. /\ over \in [1..n -> LegType]
      /\ \A j \in DOMAIN q.legs : /\ over[j].endpoint = q.legs[j].endpoint
                                  /\ over[j].kind = q.legs[j].kind
  BY <1>1, ZenonT(60) DEF LegType, Texts
<1>3. p = [pc |-> "over", in |-> q.in, legs |-> over, try |-> 0, out |-> out,
           partial |-> q.partial, got |-> q.got, until |-> q.until]
  <2>1. q = WithLegs(q, q.legs)
    BY DEF RequestType, WithLegs
  <2>2. p = [[[[q EXCEPT !.pc = "over"] EXCEPT !.out = out] EXCEPT !.try = 0] EXCEPT !.legs = over]
    BY DEF Over
  <2> HIDE DEF p, over
  <2> QED
    BY <2>1, <2>2 DEF WithLegs
<1> HIDE DEF over, p
<1>4. p \in RequestType
  BY <1>2, <1>3, SMTT(60) DEF RequestType
<1> QED
  BY <1>1, <1>2, <1>3, <1>4 DEF p

-----------------------------------------------------------------------------
(* The end of a request.                                                   *)

\* What request q may be answered with, when its calls are settled.
MayEnd(q, out) ==
  /\ out \in Outcomes \ {"none"}
  /\ out # "raised" => \A i \in DOMAIN q.legs : q.legs[i].kind # "none"
  /\ out = "email" => ByMail(q) /\ q.legs # <<>> /\ q.legs[1].kind = "OK"
  /\ out = "AUTH_EXPIRED" => \E i \in DOMAIN q.legs : q.legs[i].kind = "AUTH_EXPIRED"
  /\ q.in.flow = "money" /\ q.legs # <<>> /\ out # "raised" =>
       /\ out \in {"ok", "empty"} <=> Failed(q) # 1..2
       /\ out \in {"ok", "empty"} => (q.partial <=> Failed(q) # {})
       /\ out = "UPSTREAM_ERROR" => \A i \in Failed(q) : q.legs[i].kind = "UPSTREAM_ERROR"

LEMMA OverSound ==
  ASSUME NEW q \in RequestType, NEW a, NEW m, NEW out, ShapeOf(q, a), MailOf(q, a, m), MayEnd(q, out)
  PROVE  /\ Over(q, out) \in RequestType /\ RequestSound(Over(q, out), a, m)
         /\ Over(q, out).in = q.in /\ Over(q, out).out = out
         /\ Over(q, out).got = q.got /\ Over(q, out).until = q.until
         /\ ExpiredLegs(q) => ExpiredLegs(Over(q, out))
<1> DEFINE p == Over(q, out)
<1>1. PICK n \in 0..2 : q.legs \in [1..n -> LegType] /\ DOMAIN q.legs = 1..n
  BY LegsAre
<1>2. /\ p \in RequestType /\ p.pc = "over" /\ p.in = q.in /\ p.out = out
      /\ p.partial = q.partial /\ p.got = q.got /\ p.until = q.until
      /\ DOMAIN p.legs = DOMAIN q.legs
      /\ \A j \in DOMAIN q.legs : /\ p.legs[j].endpoint = q.legs[j].endpoint
                                  /\ p.legs[j].kind = q.legs[j].kind
  BY OverShape DEF MayEnd
<1> HIDE DEF p
<1>3. PICK k \in 0..2 : p.legs \in [1..k -> LegType]
  BY <1>2, LegsAre
<1>4. p.legs = <<>> <=> q.legs = <<>>
  BY <1>1, <1>2, <1>3
<1>5. q.legs # <<>> => 1 \in DOMAIN q.legs
  BY <1>1
<1>6. CallsOf(p, a)
  BY <1>2, <1>4 DEF CallsOf, ShapeOf, MayEnd
<1>7. MailOf(p, a, m)
  BY <1>2, <1>4, <1>5 DEF MailOf, ByMail
<1>8. q.in.flow = "money" /\ q.legs # <<>> => DOMAIN q.legs = 1..2 /\ Failed(p) = Failed(q)
  <2> SUFFICES ASSUME q.in.flow = "money", q.legs # <<>>
               PROVE  DOMAIN q.legs = 1..2 /\ Failed(p) = Failed(q)
    OBVIOUS
  <2>1. DOMAIN q.legs = 1..2
    BY LegShape DEF ShapeOf
  <2> QED
    BY <1>2, <2>1 DEF Failed
<1>9. ResultOf(p)
  <2>1. p.out = "email" => ByMail(p) /\ p.legs # <<>> /\ p.legs[1].kind = "OK"
    BY <1>2, <1>4, <1>5 DEF MayEnd, ByMail
  <2>2. p.out = "AUTH_EXPIRED" => \E i \in DOMAIN p.legs : p.legs[i].kind = "AUTH_EXPIRED"
    BY <1>2 DEF MayEnd
  <2>3. p.in.flow = "money" /\ p.legs # <<>> /\ p.out # "raised" =>
          /\ p.out \in {"ok", "empty"} <=> Failed(p) # 1..2
          /\ p.out \in {"ok", "empty"} => (p.partial <=> Failed(p) # {})
          /\ p.out = "UPSTREAM_ERROR" => \A i \in Failed(p) : p.legs[i].kind = "UPSTREAM_ERROR"
    <3> SUFFICES ASSUME p.in.flow = "money", p.legs # <<>>, p.out # "raised"
                 PROVE  /\ p.out \in {"ok", "empty"} <=> Failed(p) # 1..2
                        /\ p.out \in {"ok", "empty"} => (p.partial <=> Failed(p) # {})
                        /\ p.out = "UPSTREAM_ERROR" =>
                             \A i \in Failed(p) : p.legs[i].kind = "UPSTREAM_ERROR"
      OBVIOUS
    <3>1. DOMAIN q.legs = 1..2 /\ Failed(p) = Failed(q) /\ Failed(q) \subseteq 1..2
      BY <1>2, <1>4, <1>8 DEF Failed
    <3> QED
      BY <1>2, <1>4, <3>1 DEF MayEnd
  <2> QED
    BY <1>2, <2>1, <2>2, <2>3 DEF ResultOf, MayEnd
<1>10. ExpiredLegs(q) => ExpiredLegs(p)
  BY <1>2 DEF ExpiredLegs
<1> QED
  BY <1>2, <1>6, <1>7, <1>9, <1>10 DEF p, RequestSound

-----------------------------------------------------------------------------
(* The token stores.                                                       *)

\* A step after which every token still keeps its word.
TokensKept ==
  /\ minted' \in Nat /\ files' \subseteq EntryType /\ refs' \subseteq EntryType
  /\ lastPut' \in [files : Nat, refs : Nat]
  /\ Entries'
  /\ \A q \in RequestType : Promised(q) => Promised(q)'

LEMMA NoTokensKept ==
  ASSUME DeskType, Entries, NoTokens, UNCHANGED now
  PROVE  TokensKept
BY DEF NoTokens, DeskType, Entries, Promised, TokensKept

LEMMA TickKept ==
  ASSUME DeskType, Entries, NoTokens, now' = now + 1
  PROVE  TokensKept
<1>1. \A q \in RequestType : Promised(q) => Promised(q)'
  <2> SUFFICES ASSUME NEW q \in RequestType, Promised(q)
               PROVE  Promised(q)'
    OBVIOUS
  <2>1. now < q.until \/ ~ (now' < q.until)
    BY DEF DeskType, RequestType
  <2> QED
    BY <2>1 DEF NoTokens, Promised
<1> QED
  BY <1>1 DEF NoTokens, DeskType, Entries, TokensKept

\* get() drops nothing that is still good.
LEMMA GetKept ==
  ASSUME DeskType, Entries, NEW token, UNCHANGED <<now, minted, lastPut>>,
         \/ files' = AfterGet(files, token) /\ UNCHANGED refs
         \/ refs' = AfterGet(refs, token) /\ UNCHANGED files
  PROVE  TokensKept
<1>1. /\ files' \subseteq files /\ refs' \subseteq refs
      /\ \A e \in files : e.expires > now => e \in files'
      /\ \A e \in refs : e.expires > now => e \in refs'
  BY DEF AfterGet, Held, Live
<1>2. \A e \in files \cup refs : e.expires \in Nat
  BY DEF DeskType, EntryType
<1>3. \A q \in RequestType : Promised(q) => Promised(q)'
  <2> SUFFICES ASSUME NEW q \in RequestType, Promised(q), q.out \in {"download", "notes"}, q.got > 0, now < q.until
               PROVE  \E e \in (IF q.out = "download" THEN files' ELSE refs') :
                        e.token = q.got /\ e.session = q.in.session /\ e.expires = q.until
    BY DEF Promised
  <2>1. PICK e \in (IF q.out = "download" THEN files ELSE refs) :
          e.token = q.got /\ e.session = q.in.session /\ e.expires = q.until
    BY DEF Promised
  <2>2. e.expires > now
    BY <1>2, <2>1 DEF DeskType
  <2> QED
    BY <1>1, <2>1, <2>2
<1> QED
  BY <1>1, <1>3 DEF DeskType, Entries, TokensKept

\* put() drops what has expired, and takes entries with new tokens.
LEMMA PutKept ==
  ASSUME DeskType, Entries, UNCHANGED now, NEW n \in Nat \ {0}, NEW session \in Sessions,
         NEW ttl \in Nat \ {0}, minted' = minted + n,
         \/ /\ files' = Pruned(files) \cup {Entry(t, session, ttl) : t \in minted + 1 .. minted + n}
            /\ lastPut' = [lastPut EXCEPT !.files = now] /\ UNCHANGED refs
         \/ /\ refs' = Pruned(refs) \cup {Entry(t, session, ttl) : t \in minted + 1 .. minted + n}
            /\ lastPut' = [lastPut EXCEPT !.refs = now] /\ UNCHANGED files
  PROVE  TokensKept
<1> DEFINE New == {Entry(t, session, ttl) : t \in minted + 1 .. minted + n}
<1>1. now \in Nat /\ minted \in Nat /\ \A e \in files \cup refs : e.expires \in Nat /\ e.token \in Nat
  BY DEF DeskType, EntryType
<1>2. New \subseteq EntryType
  BY <1>1 DEF Entry, EntryType
<1>3. \A e \in New : e.token > minted /\ e.token <= minted + n /\ e.expires > now
                     /\ e = Entry(e.token, session, ttl)
  BY <1>1 DEF Entry
<1>4. \A e, f \in New : e.token = f.token => e = f
  BY <1>3
<1> HIDE DEF New
<1>5. /\ files' \subseteq files \cup New /\ refs' \subseteq refs \cup New
      /\ \A e \in files : e.expires > now => e \in files'
      /\ \A e \in refs : e.expires > now => e \in refs'
  BY DEF Pruned, New
<1>6. /\ lastPut' \in [files : Nat, refs : Nat]
      /\ \A e \in files' : e.expires > lastPut'.files
      /\ \A e \in refs' : e.expires > lastPut'.refs
  BY <1>1, <1>3 DEF Pruned, New, Entries, DeskType
<1>7. /\ \A e \in files' \cup refs' : e.token <= minted'
      /\ \A e, f \in files' \cup refs' : e.token = f.token => e = f
  <2>1. \A e \in files \cup refs : e.token <= minted
    BY DEF Entries
  <2>2. \A e \in files' \cup refs' : e.token <= minted'
    BY <1>1, <1>3, <1>5, <2>1
  <2>3. \A e \in files \cup refs, f \in New : e.token # f.token
    BY <1>1, <1>2, <1>3, <2>1 DEF EntryType
  <2> QED
    BY <1>4, <1>5, <2>2, <2>3 DEF Entries
<1>8. \A q \in RequestType : Promised(q) => Promised(q)'
  <2> SUFFICES ASSUME NEW q \in RequestType, Promised(q)
               PROVE  Promised(q)'
    OBVIOUS
  <2>1. q.got <= minted'
    BY <1>1 DEF Promised, RequestType
  <2> SUFFICES ASSUME q.out \in {"download", "notes"}, q.got > 0, now < q.until
               PROVE  \E e \in (IF q.out = "download" THEN files' ELSE refs') :
                        e.token = q.got /\ e.session = q.in.session /\ e.expires = q.until
    BY <2>1 DEF Promised
  <2>2. PICK e \in (IF q.out = "download" THEN files ELSE refs) :
          e.token = q.got /\ e.session = q.in.session /\ e.expires = q.until
    BY DEF Promised
  <2>3. e.expires > now
    BY <1>1, <2>2
  <2> QED
    BY <1>5, <2>2, <2>3
<1> QED
  BY <1>1, <1>2, <1>5, <1>6, <1>7, <1>8 DEF DeskType, Entries, TokensKept

-----------------------------------------------------------------------------
(* What a request does when its calls are settled.                         *)

\* Request q before it is answered; a and m count what FinX has received and mailed for it.
Settled(q, a, m) ==
  /\ RequestSound(q, a, m) /\ ExpiredLegs(q)
  /\ q.pc = "calling" /\ \A i \in DOMAIN q.legs : q.legs[i].kind # "none"

\* Request r goes on as a sound record, and no token loses its word.
Lands(r, a, m) ==
  /\ TokensKept /\ memos \subseteq memos' /\ memos' \subseteq Requests
  /\ \E c \in RequestType :
       /\ req' = [req EXCEPT ![r] = c] /\ RequestSound(c, a, m) /\ ExpiredLegs(c) /\ Promised(c)'
       /\ Told(c, r)'

\* The token a request is answered with is in the store.
Kept(out, session, got, until) ==
  got > 0 => \E e \in (IF out = "download" THEN files' ELSE refs') :
               e.token = got /\ e.session = session /\ e.expires = until

LEMMA EndLands ==
  ASSUME NEW r \in Requests, NEW q \in RequestType, NEW a, NEW m, NEW out, memos \subseteq Requests,
         ShapeOf(q, a), MailOf(q, a, m), ExpiredLegs(q), MayEnd(q, out), Finish(r, q, out), TokensKept,
         q.got <= minted', out \in {"download", "notes"} => Kept(out, q.in.session, q.got, q.until)
  PROVE  Lands(r, a, m)
<1> DEFINE c == Over(q, out)
<1>1. /\ c \in RequestType /\ RequestSound(c, a, m) /\ ExpiredLegs(c)
      /\ c.in = q.in /\ c.out = out /\ c.got = q.got /\ c.until = q.until
  BY OverSound
<1>2. /\ req' = [req EXCEPT ![r] = c] /\ memos \subseteq memos' /\ memos' \subseteq Requests
      /\ out = "email" /\ q.in.origin = "widget" => r \in memos'
  <2>1. out = "email" /\ q.in.origin = "widget" => Remembers(q, out)
    BY DEF MayEnd, ByMail, Reports, Remembers, PnlRemembers, LedgerRemembers, TaxRemembers
  <2> QED
    BY <2>1 DEF Finish
<1> HIDE DEF c
<1>3. Promised(c)'
  BY <1>1 DEF Promised, Kept
<1> QED
  BY <1>1, <1>2, <1>3 DEF Lands, Told

\* A request whose calls are as they should be has that shape.
LEMMA CallsShape ==
  ASSUME NEW q, NEW a, CallsOf(q, a)
  PROVE  ShapeOf(q, a)
BY DEF CallsOf, ShapeOf

LEMMA QuietEndLands ==
  ASSUME DeskType, Entries, UNCHANGED now, NEW r \in Requests, NEW q \in RequestType, NEW a, NEW m,
         Settled(q, a, m), NEW out, MayEnd(q, out), Finish(r, q, out), NoTokens
  PROVE  Lands(r, a, m)
<1>1. q.got = 0 /\ CallsOf(q, a) /\ MailOf(q, a, m) /\ ExpiredLegs(q)
  BY DEF Settled, RequestSound, ResultOf
<1>2. TokensKept
  BY NoTokensKept
<1>3. q.got <= minted' /\ \A session, until : Kept(out, session, q.got, until)
  BY <1>1, <1>2 DEF TokensKept, Kept
<1> QED
  BY <1>1, <1>2, <1>3, EndLands, CallsShape DEF DeskType

\* A failure is told as the kind its call failed with, an empty answer as no data.
LEMMA FailLands ==
  ASSUME DeskType, Entries, UNCHANGED now, NEW r \in Requests, NEW q \in RequestType, NEW a, NEW m,
         Settled(q, a, m), q.legs # <<>>, q.in.flow # "money",
         NEW kind \in Kinds \ {"none", "OK"}, kind = "AUTH_EXPIRED" => q.legs[1].kind = "AUTH_EXPIRED",
         Fail(r, q, kind)
  PROVE  Lands(r, a, m)
<1>1. 1 \in DOMAIN q.legs
  BY LegsAre
<1>2. MayEnd(q, ToolErrorFromKind(kind))
  BY <1>1 DEF MayEnd, ToolErrorFromKind, Kinds, Outcomes, Settled
<1>3. Finish(r, q, ToolErrorFromKind(kind)) /\ NoTokens
  BY DEF Fail
<1> QED
  BY <1>2, <1>3, QuietEndLands

\* The artifact goes to the store, and the answer names its token.
LEMMA DeliverLands ==
  ASSUME DeskType, Entries, UNCHANGED now, NEW r \in Requests, NEW q \in RequestType, NEW a, NEW m,
         CallsOf(q, a), MailOf(q, a, m), ExpiredLegs(q), q.got = 0,
         q.in.session \in Sessions, q.in.flow # "money",
         \A i \in DOMAIN q.legs : q.legs[i].kind # "none", Deliver(r, q)
  PROVE  Lands(r, a, m)
<1> DEFINE e == Entry(minted + 1, q.in.session, FileTtl)
           p == [q EXCEPT !.got = e.token, !.until = now + FileTtl]
<1>1. /\ files' = Pruned(files) \cup {e} /\ minted' = minted + 1 /\ UNCHANGED refs
      /\ lastPut' = [lastPut EXCEPT !.files = now] /\ Finish(r, p, "download")
  BY DEF Deliver
<1>2. /\ e.token = minted + 1 /\ e.expires = now + FileTtl /\ e.session = q.in.session
      /\ minted \in Nat /\ now \in Nat /\ FileTtl \in Nat \ {0}
  BY DeskAssumption DEF Entry, DeskType
<1>3. {e} = {Entry(t, q.in.session, FileTtl) : t \in minted + 1 .. minted + 1}
  <2>1. \A t : t \in minted + 1 .. minted + 1 <=> t = minted + 1
    BY <1>2
  <2> QED
    BY <2>1
<1> HIDE DEF e
<1>4. TokensKept
  <2>1. 1 \in Nat \ {0}
    OBVIOUS
  <2> QED
    BY <1>1, <1>2, <1>3, <2>1, PutKept
<1>5. /\ p \in RequestType /\ p.got = minted + 1 /\ p.until = e.expires
      /\ p.pc = q.pc /\ p.in = q.in /\ p.legs = q.legs
  <2>1. p = [pc |-> q.pc, in |-> q.in, legs |-> q.legs, try |-> q.try, out |-> q.out,
             partial |-> q.partial, got |-> e.token, until |-> now + FileTtl]
    BY TokenGiven, ZenonT(60)
  <2> HIDE DEF p
  <2> QED
    BY <1>2, <2>1 DEF RequestType
<1> HIDE DEF p
<1>6. CallsOf(p, a) /\ MailOf(p, a, m) /\ ExpiredLegs(p) /\ MayEnd(p, "download")
  BY <1>5 DEF CallsOf, MailOf, ByMail, ExpiredLegs, MayEnd, Outcomes
<1>7. Kept("download", p.in.session, p.got, p.until)
  BY <1>1, <1>2, <1>5 DEF Kept
<1>8. p.got <= minted'
  BY <1>1, <1>2, <1>5
<1> QED
  BY <1>1, <1>4, <1>5, <1>6, <1>7, <1>8, EndLands, CallsShape DEF DeskType

LEMMA ReportLands ==
  ASSUME DeskType, Entries, UNCHANGED now, NEW r \in Requests, NEW q \in RequestType, NEW a, NEW m,
         Settled(q, a, m), q.legs # <<>>, q.in.flow \in Reports, ReportAnswered(r, q)
  PROVE  Lands(r, a, m)
<1> DEFINE l == q.legs[1]
<1>1. 1 \in DOMAIN q.legs /\ l.kind \in Kinds \ {"none"} /\ q.in.flow # "money"
  BY LegsAre DEF Settled, LegType, Reports
<1>2. CASE l.kind # "OK"
  <2>1. Fail(r, q, l.kind)
    BY <1>2 DEF ReportAnswered
  <2> QED
    BY <1>1, <1>2, <2>1, FailLands
<1>3. CASE l.kind = "OK" /\ q.in.delivery = "email"
  <2>1. Finish(r, q, "email") /\ NoTokens
    BY <1>3 DEF ReportAnswered
  <2>2. MayEnd(q, "email")
    BY <1>1, <1>3 DEF MayEnd, Outcomes, ByMail, Settled
  <2> QED
    BY <2>1, <2>2, QuietEndLands
<1>4. CASE l.kind = "OK" /\ q.in.delivery # "email" /\ l.value # "url"
  <2>1. Fail(r, q, "UPSTREAM_ERROR") /\ "UPSTREAM_ERROR" \in Kinds \ {"none", "OK"}
    BY <1>4 DEF ReportAnswered, Kinds
  <2> QED
    BY <1>1, <2>1, FailLands
<1>5. CASE l.kind = "OK" /\ q.in.delivery # "email" /\ l.value = "url"
  <2> DEFINE c == [q EXCEPT !.pc = "fetching", !.try = 1]
  <2>1. req' = [req EXCEPT ![r] = c] /\ NoTokens /\ UNCHANGED memos
    BY <1>5 DEF ReportAnswered
  <2>2. c = [pc |-> "fetching", in |-> q.in, legs |-> q.legs, try |-> 1, out |-> q.out,
             partial |-> q.partial, got |-> q.got, until |-> q.until]
    BY FetchStarted, ZenonT(60)
  <2>3. /\ c.pc = "fetching" /\ c.in = q.in /\ c.legs = q.legs /\ c.out = q.out /\ c.got = q.got
        /\ c.partial = q.partial /\ c \in RequestType
    <3> HIDE DEF c
    <3> QED
      BY <2>2 DEF RequestType
  <2> HIDE DEF c
  <2>4. CallsOf(c, a) /\ MailOf(c, a, m) /\ ExpiredLegs(c)
    BY <2>3 DEF CallsOf, MailOf, ByMail, ExpiredLegs, Settled, RequestSound
  <2>5. c.out = "none" /\ c.got = 0 /\ ResultOf(c)
    BY <1>5, <2>3 DEF ResultOf, ByMail, Settled, RequestSound
  <2>6. TokensKept
    BY <2>1, NoTokensKept
  <2>7. Promised(c)'
    BY <2>5, <2>6 DEF Promised, TokensKept
  <2> QED
    BY <2>1, <2>3, <2>4, <2>5, <2>6, <2>7 DEF Lands, Told, RequestSound, DeskType
<1> QED
  BY <1>2, <1>3, <1>4, <1>5

LEMMA NotesLands ==
  ASSUME DeskType, Entries, UNCHANGED now, NEW r \in Requests, NEW q \in RequestType, NEW a, NEW m,
         Settled(q, a, m), q.legs # <<>>, q.in.flow = "notes", NotesAnswered(r, q)
  PROVE  Lands(r, a, m)
<1> DEFINE l == q.legs[1]
           none == l.kind \in {"EMPTY", "NO_DATA"} \/ (l.kind = "OK" /\ l.value # "rows")
<1>1. 1 \in DOMAIN q.legs /\ l.kind \in Kinds \ {"none"} /\ q.in.session \in Sessions
  BY LegsAre DEF Settled, LegType, RequestSound, CallsOf
<1>2. CASE none
  <2>1. Finish(r, q, "notes") /\ NoTokens
    BY <1>2, ZenonT(60) DEF NotesAnswered
  <2>2. MayEnd(q, "notes")
    BY DEF MayEnd, Outcomes, Settled
  <2> QED
    BY <2>1, <2>2, QuietEndLands, SMTT(60)
<1>3. CASE ~ none /\ l.kind # "OK"
  <2>1. Fail(r, q, l.kind)
    BY <1>3 DEF NotesAnswered
  <2> QED
    BY <1>1, <1>3, <2>1, FailLands
<1>4. CASE ~ none /\ l.kind = "OK"
  <2>1. PICK n \in 1..MaxNotes :
          /\ Listed(r, q, n)
          /\ Finish(r, [q EXCEPT !.got = minted + n, !.until = now + RefTtl], "notes")
    BY <1>4, ZenonT(60) DEF NotesAnswered
  <2> DEFINE p == [q EXCEPT !.got = minted + n, !.until = now + RefTtl]
  <2>2. minted \in Nat /\ now \in Nat /\ RefTtl \in Nat \ {0} /\ n \in Nat \ {0}
    BY DeskAssumption, SMTT(60) DEF DeskType
  <2>3. /\ refs' = Pruned(refs) \cup {Entry(t, q.in.session, RefTtl) : t \in minted + 1 .. minted + n}
        /\ minted' = minted + n /\ lastPut' = [lastPut EXCEPT !.refs = now] /\ UNCHANGED files
    BY <2>1 DEF Listed
  <2>4. TokensKept
    BY <1>1, <2>2, <2>3, PutKept
  <2>5. /\ p \in RequestType /\ p.got = minted + n /\ p.until = now + RefTtl
        /\ p.pc = q.pc /\ p.in = q.in /\ p.legs = q.legs
    <3>1. p = [pc |-> q.pc, in |-> q.in, legs |-> q.legs, try |-> q.try, out |-> q.out,
               partial |-> q.partial, got |-> minted + n, until |-> now + RefTtl]
      BY TokenGiven, ZenonT(60)
    <3> HIDE DEF p
    <3> QED
      BY <2>2, <3>1, SMTT(60) DEF RequestType
  <2> HIDE DEF p
  <2>6. CallsOf(p, a) /\ MailOf(p, a, m) /\ ExpiredLegs(p) /\ MayEnd(p, "notes")
    BY <2>5 DEF CallsOf, MailOf, ByMail, ExpiredLegs, MayEnd, Outcomes, Settled, RequestSound
  <2>7. Kept("notes", p.in.session, p.got, p.until)
    <3>1. p.got \in minted + 1 .. minted + n
      BY <2>2, <2>5
    <3>2. Entry(p.got, q.in.session, RefTtl) \in refs'
      BY <2>3, <3>1
    <3> QED
      BY <2>5, <3>2 DEF Kept, Entry
  <2>8. p.got <= minted' /\ Finish(r, p, "notes")
    BY <2>1, <2>2, <2>3, <2>5 DEF p
  <2> QED
    BY <2>4, <2>5, <2>6, <2>7, <2>8, EndLands, CallsShape, SMTT(60) DEF DeskType
<1> QED
  BY <1>2, <1>3, <1>4

LEMMA HoldingsLands ==
  ASSUME DeskType, Entries, UNCHANGED now, NEW r \in Requests, NEW q \in RequestType, NEW a, NEW m,
         Settled(q, a, m), q.legs # <<>>, q.in.flow \in {"holdings", "brokerage"},
         HoldingsAnswered(r, q)
  PROVE  Lands(r, a, m)
<1> DEFINE l == q.legs[1]
<1>1. 1 \in DOMAIN q.legs /\ l.kind \in Kinds \ {"none"} /\ q.in.flow # "money"
  BY LegsAre DEF Settled, LegType
<1>2. MayEnd(q, "ok") /\ MayEnd(q, "empty")
  BY <1>1 DEF MayEnd, Outcomes, Settled
<1>3. l.kind = "OK" => l.value \in {"rows", "norows", "malformed"}
  BY <1>1 DEF Settled, RequestSound, CallsOf
<1>4. \/ Finish(r, q, "empty") /\ NoTokens
      \/ Finish(r, q, "ok") /\ NoTokens
      \/ Fail(r, q, "UPSTREAM_ERROR")
      \/ Fail(r, q, l.kind) /\ l.kind # "OK"
  BY <1>3 DEF HoldingsAnswered
<1>5. CASE Fail(r, q, "UPSTREAM_ERROR")
  <2>1. "UPSTREAM_ERROR" \in Kinds \ {"none", "OK"}
    BY DEF Kinds
  <2> QED
    BY <1>1, <1>5, <2>1, FailLands
<1>6. CASE Fail(r, q, l.kind) /\ l.kind # "OK"
  BY <1>1, <1>6, FailLands
<1> QED
  BY <1>2, <1>4, <1>5, <1>6, QuietEndLands

LEMMA MoneyLands ==
  ASSUME DeskType, Entries, UNCHANGED now, NEW r \in Requests, NEW q \in RequestType, NEW a, NEW m,
         Settled(q, a, m), q.legs # <<>>, q.in.flow = "money", MoneyAnswered(r, q)
  PROVE  Lands(r, a, m)
<1>1. /\ DOMAIN q.legs = 1..2 /\ \A i \in 1..2 : q.legs[i] \in LegType /\ q.legs[i].kind \in Kinds \ {"none"}
      /\ CallsOf(q, a) /\ MailOf(q, a, m) /\ ExpiredLegs(q)
  <2>1. DOMAIN q.legs = 1..2
    BY LegShape DEF Settled, RequestSound, CallsOf
  <2> QED
    BY <2>1, LegsAre DEF Settled, RequestSound, LegType
<1>2. /\ Failed(q) = {i \in 1..2 : ~ Usable(q.legs[i])} /\ Failed(q) \subseteq 1..2
  BY <1>1 DEF Failed, Usable, Kinds
<1>3. CASE \A i \in 1..2 : ~ Usable(q.legs[i])
  <2>1. Finish(r, q, ToolErrorFromKind(BothFailed(q))) /\ NoTokens
    BY <1>3 DEF MoneyAnswered, Fail
  <2>2. /\ BothFailed(q) \in {"AUTH_EXPIRED", "UPSTREAM_ERROR"}
        /\ BothFailed(q) = "AUTH_EXPIRED" => \E i \in 1..2 : q.legs[i].kind = "AUTH_EXPIRED"
        /\ BothFailed(q) = "UPSTREAM_ERROR" => \A i \in 1..2 : q.legs[i].kind # "AUTH_EXPIRED"
    BY DEF BothFailed
  <2>3. ToolErrorFromKind(BothFailed(q)) = BothFailed(q) /\ Failed(q) = 1..2
    BY <1>2, <1>3, <2>2 DEF ToolErrorFromKind
  <2>4. \A i \in Failed(q) : q.legs[i].kind \in {"AUTH_EXPIRED", "UPSTREAM_ERROR"}
    BY DEF Failed
  <2>5. MayEnd(q, ToolErrorFromKind(BothFailed(q)))
    BY <1>1, <2>2, <2>3, <2>4 DEF MayEnd, Outcomes
  <2> QED
    BY <2>1, <2>5, QuietEndLands
<1>4. CASE \E i \in 1..2 : Usable(q.legs[i])
  <2> DEFINE p == [q EXCEPT !.partial = Partial(q)]
             out == IF \E i \in 1..2 : HasRows(q.legs[i]) THEN "ok" ELSE "empty"
  <2>1. Finish(r, p, out) /\ NoTokens
    BY <1>4 DEF MoneyAnswered
  <2>2. Partial(q) \in BOOLEAN /\ (Partial(q) <=> Failed(q) # {}) /\ Failed(q) # 1..2
    BY <1>2, <1>4 DEF Partial
  <2>3. /\ p.partial = Partial(q) /\ p.pc = q.pc /\ p.in = q.in /\ p.legs = q.legs /\ p.got = q.got
        /\ p.out = q.out /\ p \in RequestType
    <3>1. PICK b \in BOOLEAN : b = Partial(q)
      BY <2>2
    <3>2. p = [pc |-> q.pc, in |-> q.in, legs |-> q.legs, try |-> q.try, out |-> q.out,
               partial |-> b, got |-> q.got, until |-> q.until]
      <4>1. q = WithLegs(q, q.legs)
        BY DEF RequestType, WithLegs
      <4> HIDE DEF Partial
      <4> QED
        BY <3>1, <4>1 DEF WithLegs
    <3> HIDE DEF p
    <3> QED
      BY <3>1, <3>2 DEF RequestType
  <2> HIDE DEF p
  <2>4. Failed(p) = Failed(q)
    BY <2>3, SMTT(60) DEF Failed
  <2>5. CallsOf(p, a) /\ MailOf(p, a, m) /\ ExpiredLegs(p) /\ p.got = 0
    BY <1>1, <2>3, ZenonT(60) DEF CallsOf, MailOf, ByMail, ExpiredLegs, Settled, RequestSound, ResultOf
  <2>6. out \in {"ok", "empty"}
    OBVIOUS
  <2> HIDE DEF out
  <2>7. MayEnd(p, out)
    BY <1>1, <2>2, <2>3, <2>4, <2>6 DEF MayEnd, Outcomes
  <2>8. TokensKept
    BY <2>1, NoTokensKept
  <2>9. p.got <= minted'
    BY <2>5, <2>8 DEF TokensKept
  <2> QED
    <3>1. ShapeOf(p, a) /\ memos \subseteq Requests
      BY <2>3, <2>5, CallsShape DEF DeskType
    <3> QED
      BY <2>1, <2>3, <2>5, <2>6, <2>7, <2>8, <2>9, <3>1, EndLands, SMTT(60)
<1> QED
  BY <1>3, <1>4

\* Whatever the flow, a request whose calls are settled ends well, or waits for its artifact.
LEMMA AnsweredLands ==
  ASSUME DeskType, Entries, UNCHANGED now, NEW r \in Requests, NEW q \in RequestType, NEW a, NEW m,
         Settled(q, a, m), q.legs # <<>>, Answered(r, q)
  PROVE  Lands(r, a, m)
<1> DEFINE l == q.legs[1]
<1>1. /\ 1 \in DOMAIN q.legs /\ l.kind \in Kinds \ {"none"} /\ q.in.flow \in Flows \ {"file"}
      /\ q.in.session \in Sessions /\ q.got = 0
      /\ CallsOf(q, a) /\ MailOf(q, a, m) /\ ExpiredLegs(q)
  BY LegsAre DEF Settled, LegType, RequestSound, CallsOf, ResultOf
<1>2. CASE q.in.flow \in Reports
  <2>1. ReportAnswered(r, q)
    BY <1>2 DEF Answered, Reports
  <2> QED
    BY <1>2, <2>1, ReportLands
<1>3. CASE q.in.flow = "notes"
  <2>1. NotesAnswered(r, q)
    BY <1>3 DEF Answered, Reports
  <2> QED
    BY <1>3, <2>1, NotesLands
<1>4. CASE q.in.flow = "note"
  <2>1. IF l.kind = "OK" THEN Deliver(r, q) ELSE Fail(r, q, l.kind)
    BY <1>4 DEF Answered, Reports, NoteAnswered
  <2>2. CASE l.kind = "OK"
    BY <1>1, <1>4, <2>1, <2>2, DeliverLands DEF Settled
  <2>3. CASE l.kind # "OK"
    BY <1>1, <1>4, <2>1, <2>3, FailLands
  <2> QED
    BY <2>2, <2>3
<1>5. CASE q.in.flow \in {"holdings", "brokerage"}
  <2>1. HoldingsAnswered(r, q)
    BY <1>5 DEF Answered, Reports, BrokerageAnswered
  <2> QED
    BY <1>5, <2>1, HoldingsLands
<1>6. CASE q.in.flow = "money"
  <2>1. MoneyAnswered(r, q)
    BY <1>6 DEF Answered, Reports
  <2> QED
    BY <1>6, <2>1, MoneyLands
<1>7. CASE q.in.flow = "greeting"
  <2>1. IF l.kind = "OK" THEN Finish(r, q, "greeted") /\ NoTokens ELSE Fail(r, q, l.kind)
    BY <1>7 DEF Answered, Reports, GreetingAnswered
  <2>2. MayEnd(q, "greeted")
    BY <1>7 DEF MayEnd, Outcomes, Settled
  <2> QED
    BY <1>1, <1>7, <2>1, <2>2, QuietEndLands, FailLands
<1> QED
  BY <1>1, <1>2, <1>3, <1>4, <1>5, <1>6, <1>7 DEF Flows, Reports

\* What FinX has received of leg i when it is settled, and mailed for it.
Counts(q, old, i, kind, a, m) ==
  /\ a \in [DOMAIN q.legs -> 0..1]
  /\ \A j \in DOMAIN q.legs \ {i} : a[j] = old[j]
  /\ m <= IF ByMail(q) THEN a[1] ELSE 0
  /\ ByMail(q) /\ kind = "OK" => m = 1

LEMMA SettleLands ==
  ASSUME DeskInv, UNCHANGED now, NEW r \in Requests, NEW i \in DOMAIN req[r].legs, Trying(r, i),
         NEW kind \in Kinds \ {"none"}, NEW value \in Texts, NEW a, NEW m,
         Counts(req[r], asked[r], i, kind, a, m),
         kind = "AUTH_EXPIRED" =>
           Wants(req[r].legs[i].endpoint).credential \notin valid[req[r].in.session],
         req[r].in.flow \in {"holdings", "brokerage"} /\ kind = "OK" =>
           value \in {"rows", "norows", "malformed"},
         Settle(r, i, kind, value)
  PROVE  Lands(r, a, m)
<1>1. PICK o \in RequestType : o = req[r]
  BY SMTT(60) DEF DeskInv, DeskType
<1>2. /\ CallsOf(o, asked[r]) /\ MailOf(o, asked[r], mailed[r]) /\ ResultOf(o) /\ ExpiredLegs(o)
      /\ o.pc = "calling" /\ i \in DOMAIN o.legs /\ o.legs # <<>> /\ o.out = "none" /\ o.got = 0
  BY <1>1 DEF DeskInv, RequestSound, Trying, ResultOf, CallsOf
<1> DEFINE q == LegSettled(o, i, kind, value)
<1>3. /\ q \in RequestType /\ q.pc = o.pc /\ q.in = o.in /\ q.out = o.out /\ q.got = o.got
      /\ DOMAIN q.legs = DOMAIN o.legs /\ q.legs[i].kind = kind /\ q.legs[i].value = value
      /\ \A j \in DOMAIN o.legs : q.legs[j].endpoint = o.legs[j].endpoint
      /\ \A j \in DOMAIN o.legs \ {i} : q.legs[j] = o.legs[j]
  BY <1>1, <1>2, SettledShape
<1>4. /\ IF \E j \in DOMAIN q.legs : q.legs[j].kind = "none"
         THEN req' = [req EXCEPT ![r] = q] /\ NoTokens /\ UNCHANGED memos
         ELSE Answered(r, q)
  BY <1>1 DEF Settle, LegSettled
<1> HIDE DEF q
<1>5. q.legs # <<>>
  BY <1>2, <1>3, LegsAre, SMTT(60)
<1>6. CallsOf(q, a)
  <2>1. \A j \in DOMAIN q.legs : q.legs[j].kind = "none" => a[j] = 0 /\ q.pc = "calling"
    BY <1>1, <1>2, <1>3 DEF CallsOf, Counts
  <2>2. q.in.flow \in {"holdings", "brokerage"} =>
          \A j \in DOMAIN q.legs : q.legs[j].kind = "OK" => q.legs[j].value \in {"rows", "norows", "malformed"}
    BY <1>1, <1>2, <1>3 DEF CallsOf
  <2> QED
    BY <1>1, <1>2, <1>3, <1>5, <2>1, <2>2, SMTT(60) DEF CallsOf, Counts
<1>7. MailOf(q, a, m)
  <2>1. ByMail(o) <=> ByMail(q)
    BY <1>3 DEF ByMail
  <2>2. ByMail(q) => i = 1
    <3>1. ByMail(q) => DOMAIN o.legs = 1..1
      BY <1>2, <1>3, LegShape DEF ByMail, CallsOf, Reports
    <3> QED
      BY <1>2, <3>1
  <2> QED
    BY <1>1, <1>3, <1>5, <2>1, <2>2 DEF MailOf, Counts
<1>8. ExpiredLegs(q)
  BY <1>1, <1>2, <1>3 DEF ExpiredLegs
<1>9. ResultOf(q)
  BY <1>2, <1>3 DEF ResultOf
<1>10. CASE \E j \in DOMAIN q.legs : q.legs[j].kind = "none"
  <2>1. req' = [req EXCEPT ![r] = q] /\ NoTokens /\ UNCHANGED memos
    BY <1>4, <1>10
  <2>2. TokensKept
    BY <2>1, NoTokensKept DEF DeskInv
  <2>3. Promised(q)'
    BY <1>2, <1>3, <2>2 DEF Promised, TokensKept
  <2> QED
    BY <1>2, <1>3, <1>6, <1>7, <1>8, <1>9, <2>1, <2>2, <2>3 DEF Lands, Told, RequestSound, DeskInv, DeskType
<1>11. CASE \A j \in DOMAIN q.legs : q.legs[j].kind # "none"
  <2>1. Settled(q, a, m)
    BY <1>2, <1>3, <1>6, <1>7, <1>8, <1>9, <1>11 DEF Settled, RequestSound
  <2>2. Answered(r, q)
    BY <1>4, <1>11
  <2> QED
    BY <1>3, <1>5, <2>1, <2>2, AnsweredLands DEF DeskInv
<1> QED
  BY <1>10, <1>11

-----------------------------------------------------------------------------
(* The steps.                                                              *)

LEMMA LandsKeeps ==
  ASSUME DeskInv, NEW r \in Requests, NEW a, NEW m \in Nat, Lands(r, a, m), UNCHANGED <<now, valid>>,
         DOMAIN asked' = Requests, asked'[r] = a,
         \A p \in Requests \ {r} : asked'[p] = asked[p],
         mailed' = [mailed EXCEPT ![r] = m]
  PROVE  DeskInv'
<1>1. DeskType /\ Entries /\ TokensKept /\ memos \subseteq memos' /\ memos' \subseteq Requests
  BY DEF DeskInv, Lands
<1>2. PICK c \in RequestType :
        /\ req' = [req EXCEPT ![r] = c] /\ RequestSound(c, a, m) /\ ExpiredLegs(c) /\ Promised(c)'
        /\ Told(c, r)'
  BY DEF Lands
<1>3. req' \in [Requests -> RequestType] /\ req'[r] = c /\ \A p \in Requests \ {r} : req'[p] = req[p]
  BY <1>1, <1>2 DEF DeskType
<1>4. mailed' \in [Requests -> Nat] /\ mailed'[r] = m /\ \A p \in Requests \ {r} : mailed'[p] = mailed[p]
  BY <1>1 DEF DeskType
<1>5. DeskType' /\ Entries'
  BY <1>1, <1>3, <1>4 DEF DeskType, TokensKept
<1>6. ASSUME NEW p \in Requests
      PROVE  /\ RequestSound(req'[p], asked'[p], mailed'[p])
             /\ ExpiredLegs(req[p])' /\ Promised(req[p])' /\ Told(req[p], p)'
  <2>1. CASE p = r
    BY <1>2, <1>3, <1>4, <2>1 DEF ExpiredLegs, Promised, Told
  <2>2. CASE p # r
    <3>1. PICK q \in RequestType : q = req[p]
      BY <1>1 DEF DeskType
    <3>2. RequestSound(q, asked[p], mailed[p]) /\ ExpiredLegs(q) /\ Promised(q) /\ Told(q, p)
      BY <3>1 DEF DeskInv
    <3>3. req'[p] = q /\ asked'[p] = asked[p] /\ mailed'[p] = mailed[p]
      BY <1>3, <1>4, <2>2, <3>1
    <3>4. Promised(q)' /\ ExpiredLegs(q)'
      BY <1>1, <3>2 DEF TokensKept, ExpiredLegs
    <3>5. ExpiredLegs(req[p])' /\ Promised(req[p])' /\ Told(req[p], p)'
      BY <1>1, <3>2, <3>3, <3>4 DEF ExpiredLegs, Promised, Told
    <3> QED
      BY <3>2, <3>3, <3>5
  <2> QED
    BY <2>1, <2>2
<1> QED
  BY <1>5, <1>6 DEF DeskInv

\* What is open has not been received, nor mailed.
LEMMA OpenLeg ==
  ASSUME DeskInv, NEW r \in Requests, NEW i, Trying(r, i)
  PROVE  /\ i \in DOMAIN req[r].legs /\ req[r] \in RequestType
         /\ asked[r] \in [DOMAIN req[r].legs -> 0..1] /\ asked[r][i] = 0
         /\ req[r].in.session \in Sessions /\ req[r].legs[i].endpoint \in Endpoints
         /\ req[r].in.flow \in Flows \ {"file"}
         /\ req[r].legs[i].endpoint = Legs(req[r].in.flow)[i]
         /\ req[r].in.flow \in Reports => i = 1
         /\ mailed[r] \in Nat
         /\ mailed[r] <= IF ByMail(req[r]) THEN asked[r][1] ELSE 0
         /\ req[r].in.flow \in {"holdings", "brokerage"} =>
              req[r].legs[i].endpoint \in {"HOLDINGS", "BROKERAGE"}
<1> DEFINE q == req[r]
<1>1. /\ q \in RequestType /\ i \in DOMAIN q.legs /\ q.legs[i].kind = "none" /\ q.pc = "calling"
      /\ CallsOf(q, asked[r]) /\ MailOf(q, asked[r], mailed[r]) /\ mailed[r] \in Nat
  BY DEF DeskInv, DeskType, RequestSound, Trying
<1> HIDE DEF q
<1>2. /\ q.legs # <<>> /\ q.in.flow \in Flows \ {"file"} /\ DOMAIN q.legs = DOMAIN Legs(q.in.flow)
      /\ q.legs[i].endpoint = Legs(q.in.flow)[i] /\ q.in.session \in Sessions
  BY <1>1 DEF CallsOf
<1>3. /\ q.legs[i].endpoint \in Endpoints /\ (q.in.flow \in Reports => i = 1)
      /\ q.in.flow \in {"holdings", "brokerage"} => q.legs[i].endpoint \in {"HOLDINGS", "BROKERAGE"}
  BY <1>1, <1>2, LegShape DEF Reports
<1>4. asked[r] \in [DOMAIN q.legs -> 0..1] /\ asked[r][i] = 0
  <2>1. q.out = "none"
    BY <1>1 DEF DeskInv, RequestSound, ResultOf, q
  <2> QED
    BY <1>1, <2>1 DEF CallsOf
<1>5. mailed[r] <= IF ByMail(q) THEN asked[r][1] ELSE 0
  BY <1>1, <1>2 DEF MailOf
<1> QED
  BY <1>1, <1>2, <1>3, <1>4, <1>5 DEF q

\* A connection that fails is tried again, and given up in the end: FinX has seen nothing.
LEMMA ConnectKeeps ==
  ASSUME DeskInv, NEW r \in Requests, NEW i, ConnectFails(r, i)
  PROVE  DeskInv'
<1>1. /\ Trying(r, i) /\ Again(r, i) /\ UNCHANGED <<now, valid, asked, mailed>>
      /\ DeskType /\ Entries
  BY DEF ConnectFails, DeskInv
<1>2. Lands(r, asked[r], mailed[r])
  <2>1. PICK o \in RequestType : o = req[r]
    BY <1>1 DEF DeskType
  <2>2. /\ i \in DOMAIN o.legs /\ asked[r] \in [DOMAIN o.legs -> 0..1] /\ mailed[r] \in Nat
        /\ mailed[r] <= IF ByMail(o) THEN asked[r][1] ELSE 0
    BY <1>1, <2>1, OpenLeg
  <2>3. CASE Settle(r, i, "UPSTREAM_ERROR", "none")
    <3>1. "UPSTREAM_ERROR" \in Kinds \ {"none"} /\ "none" \in Texts
      BY DEF Kinds, Texts
    <3>2. Counts(req[r], asked[r], i, "UPSTREAM_ERROR", asked[r], mailed[r])
      BY <2>1, <2>2 DEF Counts
    <3> QED
      BY <1>1, <2>1, <2>2, <2>3, <3>1, <3>2, SettleLands
  <2>4. CASE req' = [req EXCEPT ![r].legs[i].try = @ + 1] /\ NoTokens /\ UNCHANGED memos
    <3> DEFINE legs == [o.legs EXCEPT ![i] = [o.legs[i] EXCEPT !.try = o.legs[i].try + 1]]
               c == WithLegs(o, legs)
    <3>1. req' = [req EXCEPT ![r] = c]
      <4>1. req' = [req EXCEPT ![r] = [o EXCEPT !.legs = legs]]
        BY <2>1, <2>4
      <4> HIDE DEF legs
      <4> QED
        BY <4>1, LegsReplaced
    <3>2. PICK n \in 0..2 : o.legs \in [1..n -> LegType]
      BY LegsAre
    <3>3. /\ legs \in [1..n -> LegType] /\ DOMAIN legs = DOMAIN o.legs
          /\ \A j \in DOMAIN o.legs : /\ legs[j].kind = o.legs[j].kind
                                      /\ legs[j].endpoint = o.legs[j].endpoint
                                      /\ legs[j].value = o.legs[j].value
      <4>1. PICK l : l = [o.legs[i] EXCEPT !.try = o.legs[i].try + 1]
        OBVIOUS
      <4>2. l \in LegType /\ l.kind = o.legs[i].kind /\ l.endpoint = o.legs[i].endpoint
            /\ l.value = o.legs[i].value
        <5>1. PICK k \in LegType : k = o.legs[i]
          BY <2>2, <3>2
        <5>2. l = [k EXCEPT !.try = k.try + 1]
          BY <4>1, <5>1
        <5> QED
          BY <5>1, <5>2 DEF LegType
      <4>3. legs = [o.legs EXCEPT ![i] = l] /\ DOMAIN o.legs = 1..n
        BY <3>2, <4>1
      <4> HIDE DEF legs
      <4> QED
        BY <3>2, <4>2, <4>3
    <3> HIDE DEF legs
    <3>4. /\ c \in RequestType /\ c.pc = o.pc /\ c.in = o.in /\ c.legs = legs /\ c.out = o.out
          /\ c.got = o.got /\ c.partial = o.partial
      BY <3>2, <3>3 DEF WithLegs, RequestType
    <3> HIDE DEF c
    <3>5. CallsOf(o, asked[r]) /\ MailOf(o, asked[r], mailed[r]) /\ ResultOf(o) /\ ExpiredLegs(o)
          /\ o.pc = "calling" /\ o.out = "none" /\ o.got = 0 /\ o.legs # <<>>
      BY <1>1, <2>1 DEF DeskInv, RequestSound, Trying, ResultOf, CallsOf
    <3>6. legs # <<>> /\ 1 \in DOMAIN o.legs
      BY <3>2, <3>3, <3>5
    <3>7. CallsOf(c, asked[r])
      BY <3>3, <3>4, <3>5, <3>6, SMTT(60) DEF CallsOf
    <3>8. MailOf(c, asked[r], mailed[r]) /\ ResultOf(c) /\ ExpiredLegs(c)
      BY <3>3, <3>4, <3>5, <3>6 DEF MailOf, ByMail, ResultOf, ExpiredLegs
    <3>9. TokensKept
      BY <1>1, <2>4, NoTokensKept
    <3>10. Promised(c)'
      BY <3>4, <3>5, <3>9 DEF Promised, TokensKept
    <3> QED
      BY <1>1, <2>4, <3>1, <3>4, <3>5, <3>7, <3>8, <3>9, <3>10 DEF Lands, Told, RequestSound, DeskType
  <2> QED
    BY <1>1, <2>3, <2>4 DEF Again
<1>3. DOMAIN asked' = Requests /\ mailed' = [mailed EXCEPT ![r] = mailed[r]] /\ mailed[r] \in Nat
  BY <1>1 DEF DeskType
<1> QED
  BY <1>1, <1>2, <1>3, LandsKeeps

\* FinX receives leg i for the first time, and mails the report if it does what it was asked.
LEMMA ReceivedCounts ==
  ASSUME DeskInv, NEW r \in Requests, NEW i, Trying(r, i), NEW did \in BOOLEAN, Received(r, i, did)
  PROVE  \E a, m :
           /\ m \in Nat /\ mailed' = [mailed EXCEPT ![r] = m]
           /\ DOMAIN asked' = Requests /\ asked'[r] = a
           /\ \A p \in Requests \ {r} : asked'[p] = asked[p]
           /\ \A kind : (kind = "OK" => did) => Counts(req[r], asked[r], i, kind, a, m)
<1> DEFINE a == [asked[r] EXCEPT ![i] = 1]
           mails == did /\ ByMail(req[r])
           m == IF mails THEN mailed[r] + 1 ELSE mailed[r]
<1>1. PICK o \in RequestType : o = req[r]
  BY DEF DeskInv, DeskType
<1>2. /\ i \in DOMAIN o.legs /\ asked[r] \in [DOMAIN o.legs -> 0..1] /\ asked[r][i] = 0
      /\ o.in.flow \in Reports => i = 1 /\ o.legs[i].endpoint = Legs(o.in.flow)[1]
      /\ mailed[r] \in Nat /\ mailed[r] <= IF ByMail(o) THEN asked[r][1] ELSE 0
  BY <1>1, OpenLeg
<1>3. a \in [DOMAIN o.legs -> 0..1] /\ a[i] = 1 /\ \A j \in DOMAIN o.legs \ {i} : a[j] = asked[r][j]
  BY <1>2
<1>4. asked' = [asked EXCEPT ![r] = a] /\ DOMAIN asked = Requests
  BY <1>2 DEF Received, DeskInv, DeskType
<1>5. mailed' = [mailed EXCEPT ![r] = m]
  <2>1. mailed \in [Requests -> Nat]
    BY DEF DeskInv, DeskType
  <2>2. mails <=> did /\ o.in.flow \in Reports
                    /\ Meaning(o.legs[i].endpoint, RequestFor(o.in.flow, o.in.delivery)) = "email"
    BY <1>1, <1>2, MailIsMeant DEF ByMail
  <2>3. mailed' = IF mails THEN [mailed EXCEPT ![r] = mailed[r] + 1] ELSE mailed
    <3> HIDE DEF mails
    <3> QED
      BY <1>1, <2>2 DEF Received
  <2> HIDE DEF mails
  <2> QED
    BY <2>1, <2>3
<1>6. m \in Nat /\ m <= (IF ByMail(o) THEN a[1] ELSE 0) /\ (ByMail(o) /\ did => m = 1)
  <2>1. ByMail(o) => i = 1
    BY <1>2 DEF ByMail
  <2> HIDE DEF a
  <2> QED
    BY <1>1, <1>2, <1>3, <2>1
<1> HIDE DEF a, m
<1>7. \A kind : (kind = "OK" => did) => Counts(req[r], asked[r], i, kind, a, m)
  BY <1>1, <1>3, <1>6 DEF Counts
<1>8. asked'[r] = a /\ DOMAIN asked' = Requests /\ \A p \in Requests \ {r} : asked'[p] = asked[p]
  BY <1>4
<1> QED
  BY <1>5, <1>6, <1>7, <1>8

\* A call that breaks is over, whatever FinX did.
LEMMA BreaksKeeps ==
  ASSUME DeskInv, NEW r \in Requests, NEW i, CallBreaks(r, i)
  PROVE  DeskInv'
<1>1. /\ Trying(r, i) /\ UNCHANGED <<now, valid>> /\ Settle(r, i, "UPSTREAM_ERROR", "none")
      /\ i \in DOMAIN req[r].legs
  BY DEF CallBreaks, GiveUp, Trying
<1>2. PICK did \in BOOLEAN : Received(r, i, did)
  BY DEF CallBreaks
<1>3. PICK a, m :
        /\ m \in Nat /\ mailed' = [mailed EXCEPT ![r] = m]
        /\ DOMAIN asked' = Requests /\ asked'[r] = a
        /\ \A p \in Requests \ {r} : asked'[p] = asked[p]
        /\ \A kind : (kind = "OK" => did) => Counts(req[r], asked[r], i, kind, a, m)
  BY <1>1, <1>2, ReceivedCounts
<1>4. "UPSTREAM_ERROR" \in Kinds \ {"none"} /\ "none" \in Texts
      /\ Counts(req[r], asked[r], i, "UPSTREAM_ERROR", a, m)
  BY <1>3 DEF Kinds, Texts
<1>5. Lands(r, a, m)
  BY <1>1, <1>4, SettleLands
<1> QED
  BY <1>1, <1>3, <1>5, LandsKeeps

\* An answer settles its leg: with the kind its status maps to, and as an expired session only
\* when FinX refused the credential.
LEMMA ReplyKeeps ==
  ASSUME DeskInv, NEW r \in Requests, NEW i, Replies(r, i)
  PROVE  DeskInv'
<1> DEFINE e == req[r].legs[i].endpoint
           s == req[r].in.session
<1>1. /\ Trying(r, i) /\ UNCHANGED <<now, valid>> /\ i \in DOMAIN req[r].legs
      /\ e \in Endpoints
      /\ req[r].in.flow \in {"holdings", "brokerage"} => e \in {"HOLDINGS", "BROKERAGE"}
  BY OpenLeg DEF Replies
<1>2. ASSUME NEW status \in Statuses(e) \cup {"401"}, Received(r, i, status = "ok"),
             NEW value \in Texts, Settle(r, i, Mapped(e, status), value),
             status = "401" => ~ Accepts(s, e),
             e \in {"HOLDINGS", "BROKERAGE"} /\ status = "ok" => value \in {"rows", "norows", "malformed"}
      PROVE  DeskInv'
  <2>1. PICK did \in BOOLEAN : did = (status = "ok")
    OBVIOUS
  <2>2. Received(r, i, did)
    BY <1>2, <2>1
  <2>3. PICK a, m :
          /\ m \in Nat /\ mailed' = [mailed EXCEPT ![r] = m]
          /\ DOMAIN asked' = Requests /\ asked'[r] = a
          /\ \A p \in Requests \ {r} : asked'[p] = asked[p]
          /\ \A kind : (kind = "OK" => did) => Counts(req[r], asked[r], i, kind, a, m)
    BY <1>1, <2>2, ReceivedCounts
  <2>4. PICK kind \in Kinds \ {"none"} : kind = Mapped(e, status)
    BY <1>1, <1>2, MappedKinds
  <2>5. /\ kind = "AUTH_EXPIRED" => status = "401"
        /\ kind = "OK" => status = "ok"
    BY <1>1, <1>2, <2>4, MappedKinds
  <2>6. kind = "AUTH_EXPIRED" => Wants(e).credential \notin valid[s]
    BY <1>1, <1>2, <2>5, Headers DEF Accepts
  <2>7. Counts(req[r], asked[r], i, kind, a, m)
    BY <2>1, <2>3, <2>5
  <2>8. Settle(r, i, kind, value)
    BY <1>2, <2>4
  <2>9. req[r].in.flow \in {"holdings", "brokerage"} /\ kind = "OK" =>
          value \in {"rows", "norows", "malformed"}
    BY <1>1, <1>2, <2>5
  <2>10. Lands(r, a, m)
    BY <1>1, <2>6, <2>7, <2>8, <2>9, SettleLands
  <2> QED
    BY <1>1, <2>3, <2>10, LandsKeeps
<1>3. "none" \in Texts /\ "ok" # "401"
  BY DEF Texts
<1>4. CASE ~ Accepts(s, e)
  <2>1. Received(r, i, FALSE) /\ Settle(r, i, Mapped(e, "401"), "none")
    BY <1>4 DEF Replies
  <2>2. Received(r, i, "401" = "ok")
    <3>1. ("401" = "ok") = FALSE
      OBVIOUS
    <3> QED
      BY <2>1, <3>1
  <2> QED
    BY <1>2, <1>3, <1>4, <2>1, <2>2
<1>5. CASE Accepts(s, e)
  <2>1. PICK status \in Statuses(e) :
          /\ Received(r, i, status = "ok")
          /\ IF status = "ok"
             THEN \E v \in Values(e, MeaningOf(r, i)) : Settle(r, i, Mapped(e, status), v)
             ELSE Settle(r, i, Mapped(e, status), "none")
    BY <1>5 DEF Replies
  <2>2. status # "401"
    BY DEF Statuses
  <2>3. CASE status = "ok"
    <3>1. PICK v \in Values(e, MeaningOf(r, i)) : Settle(r, i, Mapped(e, status), v)
      BY <2>1, <2>3
    <3>2. v \in Texts /\ (e \in {"HOLDINGS", "BROKERAGE"} => v \in {"rows", "norows", "malformed"})
      BY <1>1, ValueTexts
    <3> QED
      BY <1>2, <2>1, <2>2, <3>1, <3>2
  <2>4. CASE status # "ok"
    BY <1>2, <1>3, <2>1, <2>2, <2>4
  <2> QED
    BY <2>3, <2>4
<1> QED
  BY <1>4, <1>5

\* An answer that cannot be mapped ends its request, whatever FinX did and the other call does.
LEMMA StatusKeeps ==
  ASSUME DeskInv, NEW r \in Requests, NEW i, StatusRaises(r, i)
  PROVE  DeskInv'
<1>1. Trying(r, i) /\ UNCHANGED <<now, valid>> /\ Raise(r) /\ DeskType /\ Entries
  BY DEF StatusRaises, DeskInv
<1>2. PICK did \in BOOLEAN : Received(r, i, did)
  BY DEF StatusRaises
<1>3. PICK a, m :
        /\ m \in Nat /\ mailed' = [mailed EXCEPT ![r] = m]
        /\ DOMAIN asked' = Requests /\ asked'[r] = a
        /\ \A p \in Requests \ {r} : asked'[p] = asked[p]
        /\ \A kind : (kind = "OK" => did) => Counts(req[r], asked[r], i, kind, a, m)
  BY <1>1, <1>2, ReceivedCounts
<1>4. PICK o \in RequestType : o = req[r]
  BY <1>1 DEF DeskType
<1>5. /\ CallsOf(o, asked[r]) /\ MailOf(o, asked[r], mailed[r]) /\ ResultOf(o) /\ ExpiredLegs(o)
      /\ o.pc = "calling" /\ o.legs[i].kind = "none" /\ i \in DOMAIN o.legs
      /\ o.in.flow \in Reports => i = 1
  BY <1>1, <1>4, OpenLeg DEF DeskInv, RequestSound, Trying
<1>6. Counts(o, asked[r], i, "none", a, m)
  BY <1>3, <1>4
<1>7. ShapeOf(o, a)
  BY <1>5, <1>6 DEF CallsOf, ShapeOf, Counts
<1>8. MailOf(o, a, m)
  <2>1. o.legs # <<>>
    BY <1>5 DEF CallsOf
  <2> QED
    BY <1>5, <1>6, <2>1 DEF MailOf, Counts, ByMail
<1>9. Finish(r, o, "raised") /\ NoTokens /\ TokensKept /\ MayEnd(o, "raised")
  <2>1. Finish(r, o, "raised") /\ NoTokens
    BY <1>1, <1>4 DEF Raise
  <2> QED
    BY <1>1, <2>1, NoTokensKept DEF MayEnd, Outcomes
<1>10. o.got <= minted' /\ memos \subseteq Requests
  BY <1>1, <1>5, <1>9 DEF ResultOf, TokensKept, DeskType
<1>11. Lands(r, a, m)
  BY <1>5, <1>7, <1>8, <1>9, <1>10, EndLands
<1> QED
  BY <1>1, <1>3, <1>11, LandsKeeps

\* The artifact of a report is fetched once more, or given up, or put.
LEMMA FetchKeeps ==
  ASSUME DeskInv, NEW r \in Requests, FetchFails(r) \/ FetchRaises(r) \/ Fetched(r)
  PROVE  DeskInv'
<1>1. PICK o \in RequestType : o = req[r]
  BY DEF DeskInv, DeskType
<1>2. /\ o.pc = "fetching" /\ UNCHANGED <<now, valid, asked, mailed>> /\ DeskType /\ Entries
      /\ CallsOf(o, asked[r]) /\ MailOf(o, asked[r], mailed[r]) /\ ResultOf(o) /\ ExpiredLegs(o)
  BY <1>1 DEF FetchFails, FetchRaises, Fetched, DeskInv, RequestSound
<1>3. /\ o.got = 0 /\ o.out = "none" /\ o.in.flow \in Reports /\ o.in.session \in Sessions
      /\ o.in.flow # "money" /\ \A i \in DOMAIN o.legs : o.legs[i].kind # "none"
  BY <1>2 DEF ResultOf, CallsOf, Reports
<1>4. Lands(r, asked[r], mailed[r])
  <2>1. CASE Fetched(r)
    <3>1. Deliver(r, o)
      BY <1>1, <2>1 DEF Fetched
    <3> QED
      BY <1>2, <1>3, <3>1, DeliverLands
  <2>2. CASE Fail(r, req[r], "UPSTREAM_ERROR") \/ Raise(r)
    <3>1. PICK out \in {"UPSTREAM_ERROR", "raised"} : Finish(r, o, out) /\ NoTokens
      BY <1>1, <2>2 DEF Fail, Raise, ToolErrorFromKind
    <3>2. TokensKept
      BY <1>2, <3>1, NoTokensKept
    <3>3. MayEnd(o, out)
      BY <1>3 DEF MayEnd, Outcomes
    <3>4. o.got <= minted' /\ memos \subseteq Requests
      BY <1>2, <1>3, <3>2 DEF TokensKept, DeskType
    <3> QED
      BY <1>2, <3>1, <3>2, <3>3, <3>4, EndLands, CallsShape
  <2>3. CASE req' = [req EXCEPT ![r].try = @ + 1] /\ NoTokens /\ UNCHANGED memos
    <3> DEFINE c == [o EXCEPT !.try = o.try + 1]
    <3>1. req' = [req EXCEPT ![r] = c]
      BY <1>1, <2>3
    <3>2. c = [pc |-> o.pc, in |-> o.in, legs |-> o.legs, try |-> o.try + 1, out |-> o.out,
               partial |-> o.partial, got |-> o.got, until |-> o.until]
      <4>1. o = WithLegs(o, o.legs)
        BY DEF RequestType, WithLegs
      <4> QED
        BY <4>1 DEF WithLegs
    <3>3. /\ c.pc = o.pc /\ c.in = o.in /\ c.legs = o.legs /\ c.out = o.out /\ c.got = o.got
          /\ c.partial = o.partial /\ c \in RequestType
      <4> HIDE DEF c
      <4> QED
        BY <3>2 DEF RequestType
    <3> HIDE DEF c
    <3>4. RequestSound(c, asked[r], mailed[r]) /\ ExpiredLegs(c)
      BY <1>2, <3>3 DEF RequestSound, CallsOf, MailOf, ByMail, ResultOf, Failed, ExpiredLegs
    <3>5. TokensKept
      BY <1>2, <2>3, NoTokensKept
    <3>6. Promised(c)'
      BY <1>3, <3>3, <3>5 DEF Promised, TokensKept
    <3> QED
      BY <1>2, <1>3, <2>3, <3>1, <3>3, <3>4, <3>5, <3>6 DEF Lands, Told, DeskType
  <2> QED
    BY <2>1, <2>2, <2>3 DEF FetchFails, FetchRaises
<1>5. DOMAIN asked' = Requests /\ mailed' = [mailed EXCEPT ![r] = mailed[r]] /\ mailed[r] \in Nat
  BY <1>2 DEF DeskType
<1> QED
  BY <1>2, <1>4, <1>5, LandsKeeps

\* What a request knows when it comes in.
LEMMA IdleShape ==
  /\ Idle = WithLegs(Idle, Idle.legs)
  /\ Idle.pc = "new" /\ Idle.legs = <<>> /\ Idle.try = 0 /\ Idle.out = "none"
  /\ Idle.partial = FALSE /\ Idle.got = 0 /\ Idle.until = 0
BY DEF Idle, WithLegs

\* A request that has just come in has asked for nothing.
LEMMA FreshRequest ==
  ASSUME NEW in \in InputType, in.flow # "none"
  PROVE  /\ [Idle EXCEPT !.in = in] \in RequestType /\ [Idle EXCEPT !.in = in].in = in
         /\ [Idle EXCEPT !.in = in].legs = <<>> /\ [Idle EXCEPT !.in = in].got = 0
         /\ \A a \in [{} -> 0..1] : CallsOf([Idle EXCEPT !.in = in], a)
         /\ \A a : MailOf([Idle EXCEPT !.in = in], a, 0)
         /\ ExpiredLegs([Idle EXCEPT !.in = in])
         /\ \A out \in Outcomes \ {"none", "email", "AUTH_EXPIRED"} : MayEnd([Idle EXCEPT !.in = in], out)
<1> DEFINE q == [Idle EXCEPT !.in = in]
<1>1. q = [pc |-> "new", in |-> in, legs |-> <<>>, try |-> 0, out |-> "none", partial |-> FALSE,
           got |-> 0, until |-> 0]
  <2>1. q = [pc |-> Idle.pc, in |-> in, legs |-> Idle.legs, try |-> Idle.try, out |-> Idle.out,
             partial |-> Idle.partial, got |-> Idle.got, until |-> Idle.until]
    BY IdleShape DEF WithLegs
  <2> HIDE DEF q
  <2> QED
    BY <2>1, IdleShape
<1> HIDE DEF q
<1>2. DOMAIN q.legs = {} /\ q.legs \in [1..0 -> LegType]
  BY <1>1
<1>3. q \in RequestType
  BY <1>1, <1>2 DEF RequestType, Outcomes
<1>4. /\ \A a \in [{} -> 0..1] : CallsOf(q, a)
      /\ \A a : MailOf(q, a, 0)
      /\ ExpiredLegs(q)
      /\ \A out \in Outcomes \ {"none", "email", "AUTH_EXPIRED"} : MayEnd(q, out)
  BY <1>1, <1>2 DEF CallsOf, MailOf, ExpiredLegs, MayEnd
<1> QED
  BY <1>1, <1>3, <1>4 DEF q

\* A request comes in: it is refused, or answered at once, or its calls are made.
LEMMA ArriveKeeps ==
  ASSUME DeskInv, NEW r \in Requests, Arrive(r)
  PROVE  DeskInv'
<1>1. PICK in \in Inputs(r) :
        Sensible(in) /\ (Refuse(r, in) \/ Call(r, in) \/ NoteUnknown(r, in) \/ FetchFile(r, in))
  BY DEF Arrive
<1>2. /\ in \in InputType /\ in.flow \in Flows /\ in.flow # "none" /\ in.session \in Sessions
      /\ in.origin \in {"widget", "agent"}
  BY DEF Inputs, InputType, Flows, Reports, DeskInv, DeskType
<1>3. PICK o \in RequestType : o = req[r]
  BY DEF DeskInv, DeskType
<1>4. /\ o.pc = "new" /\ UNCHANGED <<now, valid, mailed>> /\ DeskType /\ Entries
      /\ CallsOf(o, asked[r]) /\ MailOf(o, asked[r], mailed[r]) /\ mailed \in [Requests -> Nat]
  BY <1>3 DEF Arrive, DeskInv, RequestSound, DeskType
<1>5. o.legs = <<>> /\ asked[r] \in [{} -> 0..1] /\ mailed[r] = 0
  BY <1>4 DEF CallsOf, MailOf
<1> DEFINE q == [Idle EXCEPT !.in = in]
<1>6. /\ q \in RequestType /\ q.in = in /\ q.legs = <<>> /\ q.got = 0
      /\ CallsOf(q, asked[r]) /\ MailOf(q, asked[r], 0) /\ ExpiredLegs(q)
      /\ \A out \in Outcomes \ {"none", "email", "AUTH_EXPIRED"} : MayEnd(q, out)
  BY <1>2, <1>5, FreshRequest
<1> HIDE DEF q
<1>7. ASSUME NEW out \in Outcomes \ {"none", "email", "AUTH_EXPIRED"}, Finish(r, q, out),
             TokensKept, UNCHANGED asked
      PROVE  DeskInv'
  <2>1. q.got <= minted' /\ Kept(out, q.in.session, q.got, q.until) /\ memos \subseteq Requests
    BY <1>4, <1>6, <1>7 DEF TokensKept, Kept, DeskType
  <2>2. MayEnd(q, out)
    BY <1>6
  <2>3. Lands(r, asked[r], 0)
    BY <1>6, <1>7, <2>1, <2>2, EndLands, CallsShape
  <2>4. DOMAIN asked' = Requests /\ mailed' = [mailed EXCEPT ![r] = 0] /\ 0 \in Nat
    BY <1>4, <1>5, <1>7 DEF DeskType
  <2> QED
    BY <1>4, <1>7, <2>3, <2>4, LandsKeeps
<1>8. CASE Refuse(r, in)
  <2>1. NoTokens /\ UNCHANGED asked /\ TokensKept
    BY <1>4, <1>8, NoTokensKept DEF Refuse
  <2>2. PICK out \in {"MISSING", "VALIDATION", "REJECTED"} : Finish(r, q, out)
    BY <1>8 DEF Refuse, q
  <2> QED
    BY <1>7, <2>1, <2>2 DEF Outcomes
<1>9. CASE NoteUnknown(r, in)
  <2>1. Finish(r, q, "NO_DATA") /\ UNCHANGED asked
    BY <1>9 DEF NoteUnknown, q
  <2>2. TokensKept
    BY <1>4, <1>9, GetKept DEF NoteUnknown
  <2> QED
    BY <1>7, <2>1, <2>2 DEF Outcomes
<1>10. CASE FetchFile(r, in)
  <2>1. PICK out \in {"NOT_FOUND", "file"} : Finish(r, q, out)
    BY <1>10 DEF FetchFile, q
  <2>2. UNCHANGED asked /\ TokensKept
    BY <1>4, <1>10, GetKept DEF FetchFile
  <2> QED
    BY <1>7, <2>1, <2>2 DEF Outcomes
<1>11. CASE Call(r, in)
  <2> DEFINE names == Legs(in.flow)
             legs == [i \in DOMAIN names |-> Leg(names[i])]
             c == [Idle EXCEPT !.pc = "calling", !.in = in, !.legs = legs]
             a == [i \in DOMAIN names |-> 0]
  <2>1. /\ in.flow \in Flows \ {"file"} /\ req' = [req EXCEPT ![r] = c]
        /\ asked' = [asked EXCEPT ![r] = a] /\ UNCHANGED <<files, minted, lastPut, memos>>
    BY <1>2, <1>11 DEF Call
  <2>2. TokensKept
    <3>1. CASE in.flow = "note"
      BY <1>4, <1>11, <3>1, GetKept DEF Call
    <3>2. CASE in.flow # "note"
      BY <1>4, <1>11, <3>2, NoTokensKept DEF Call, NoTokens
    <3> QED
      BY <3>1, <3>2
  <2>3. /\ DOMAIN names = IF in.flow = "money" THEN 1..2 ELSE 1..1
        /\ \A i \in DOMAIN names : names[i] \in Endpoints
    BY <2>1, LegShape
  <2> HIDE DEF names
  <2>4. PICK n \in 1..2 : DOMAIN names = 1..n
    BY <2>3
  <2>5. /\ legs \in [1..n -> LegType] /\ legs # <<>> /\ DOMAIN legs = 1..n
        /\ \A i \in 1..n : legs[i].endpoint = names[i] /\ legs[i].kind = "none"
    <3>1. \A e \in Endpoints : Leg(e) \in LegType /\ Leg(e).endpoint = e /\ Leg(e).kind = "none"
      BY DEF Leg, LegType, Kinds, Texts
    <3>2. legs = [i \in 1..n |-> Leg(names[i])] /\ \A i \in 1..n : names[i] \in Endpoints
      BY <2>3, <2>4
    <3> HIDE DEF legs
    <3>3. /\ legs \in [1..n -> LegType] /\ DOMAIN legs = 1..n
          /\ \A i \in 1..n : legs[i].endpoint = names[i] /\ legs[i].kind = "none"
      BY <3>1, <3>2
    <3>4. 1 \in DOMAIN legs
      BY <3>3
    <3> QED
      BY <3>3, <3>4
  <2>6. a \in [1..n -> 0..1] /\ \A i \in 1..n : a[i] = 0
    BY <2>4
  <2> HIDE DEF legs, a
  <2>7. c = [pc |-> "calling", in |-> in, legs |-> legs, try |-> 0, out |-> "none", partial |-> FALSE,
             got |-> 0, until |-> 0]
    <3>1. PICK q0 : q0 = Idle /\ q0 = WithLegs(q0, q0.legs)
      BY IdleShape
    <3>2. c = [[[q0 EXCEPT !.pc = "calling"] EXCEPT !.in = in] EXCEPT !.legs = legs]
      BY <3>1
    <3> HIDE DEF c
    <3>3. c = [pc |-> "calling", in |-> in, legs |-> legs, try |-> q0.try, out |-> q0.out,
               partial |-> q0.partial, got |-> q0.got, until |-> q0.until]
      BY <3>1, <3>2 DEF WithLegs
    <3> QED
      BY <3>1, <3>3, IdleShape
  <2> HIDE DEF c
  <2>8. c \in RequestType
    BY <1>2, <2>5, <2>7 DEF RequestType, Outcomes
  <2>9. CallsOf(c, a)
    BY <1>2, <2>1, <2>4, <2>5, <2>6, <2>7 DEF CallsOf, names
  <2>10. MailOf(c, a, 0) /\ ExpiredLegs(c) /\ ResultOf(c)
    BY <2>4, <2>5, <2>6, <2>7 DEF MailOf, ExpiredLegs, ResultOf
  <2>11. Promised(c)'
    BY <2>2, <2>7 DEF Promised, TokensKept
  <2>12. Lands(r, a, 0)
    BY <1>4, <2>1, <2>2, <2>7, <2>8, <2>9, <2>10, <2>11 DEF Lands, Told, RequestSound, DeskType
  <2>13. /\ DOMAIN asked' = Requests /\ asked'[r] = a /\ \A p \in Requests \ {r} : asked'[p] = asked[p]
         /\ mailed' = [mailed EXCEPT ![r] = 0] /\ 0 \in Nat
    BY <1>4, <1>5, <2>1 DEF DeskType
  <2> QED
    BY <1>4, <2>12, <2>13, LandsKeeps
<1> QED
  BY <1>1, <1>8, <1>9, <1>10, <1>11

\* Time passes.
LEMMA TickKeeps ==
  ASSUME DeskInv, Tick
  PROVE  DeskInv'
<1>1. /\ DeskType /\ Entries /\ NoTokens /\ now' = now + 1 /\ now < Horizon
      /\ UNCHANGED <<req, files, refs, minted, valid, asked, mailed, memos, lastPut>>
  BY DEF DeskInv, Tick, NoTokens
<1>2. TokensKept
  BY <1>1, TickKept
<1>3. DeskType' /\ Entries'
  BY <1>1, <1>2, DeskAssumption DEF DeskType, TokensKept
<1>4. ASSUME NEW r \in Requests
      PROVE  /\ RequestSound(req'[r], asked'[r], mailed'[r]) /\ ExpiredLegs(req[r])'
             /\ Promised(req[r])' /\ Told(req[r], r)'
  <2>1. PICK q \in RequestType : q = req[r]
    BY <1>1 DEF DeskType
  <2>2. RequestSound(q, asked[r], mailed[r]) /\ ExpiredLegs(q) /\ Promised(q) /\ Told(q, r)
    BY <2>1 DEF DeskInv
  <2>3. ExpiredLegs(q)' /\ Promised(q)' /\ req'[r] = q
    BY <1>1, <1>2, <2>1, <2>2 DEF ExpiredLegs, TokensKept
  <2> QED
    BY <1>1, <2>2, <2>3 DEF ExpiredLegs, Promised, Told
<1> QED
  BY <1>3, <1>4 DEF DeskInv

\* FinX accepts a credential no more.
LEMMA ExpireKeeps ==
  ASSUME DeskInv, Expire
  PROVE  DeskInv'
<1>1. /\ DeskType /\ Entries
      /\ UNCHANGED <<now, req, files, refs, minted, asked, mailed, memos, lastPut>>
  BY DEF DeskInv, Expire
<1>2. PICK s \in Sessions, c \in Credentials : valid' = [valid EXCEPT ![s] = @ \ {c}]
  BY DEF Expire
<1>3. /\ valid' \in [Sessions -> SUBSET Credentials]
      /\ \A t \in Sessions : valid'[t] \subseteq valid[t]
  BY <1>1, <1>2 DEF DeskType
<1>4. DeskType' /\ Entries'
  BY <1>1, <1>3 DEF DeskType, Entries
<1>5. ASSUME NEW r \in Requests
      PROVE  /\ RequestSound(req'[r], asked'[r], mailed'[r]) /\ ExpiredLegs(req[r])'
             /\ Promised(req[r])' /\ Told(req[r], r)'
  <2>1. PICK q \in RequestType : q = req[r]
    BY <1>1 DEF DeskType
  <2>2. RequestSound(q, asked[r], mailed[r]) /\ ExpiredLegs(q) /\ Promised(q) /\ Told(q, r)
    BY <2>1 DEF DeskInv
  <2>3. \A i \in DOMAIN q.legs : q.in.session \in Sessions
    BY <2>2 DEF RequestSound, CallsOf
  <2>4. ExpiredLegs(q)' /\ Promised(q)' /\ req'[r] = q
    BY <1>1, <1>3, <2>1, <2>2, <2>3 DEF ExpiredLegs, Promised
  <2> QED
    BY <1>1, <2>2, <2>4 DEF ExpiredLegs, Promised, Told
<1> QED
  BY <1>4, <1>5 DEF DeskInv

LEMMA DeskStart == Init => DeskInv
<1> SUFFICES ASSUME Init
             PROVE  DeskInv
  OBVIOUS
<1>1. PICK q : q = Idle
  OBVIOUS
<1>2. /\ q.pc = "new" /\ q.legs = <<>> /\ q.try = 0 /\ q.out = "none" /\ q.partial = FALSE
      /\ q.got = 0 /\ q.until = 0 /\ q = WithLegs(q, q.legs) /\ q.in = NoInput
  BY <1>1, IdleShape DEF Idle
<1>3. DOMAIN q.legs = {} /\ q.legs \in [1..0 -> LegType]
  BY <1>2
<1>4. q \in RequestType
  <2>1. q.in \in InputType /\ q.out \in Outcomes
    BY <1>2 DEF NoInput, InputType, Outcomes
  <2>2. q.legs \in UNION {[1..n -> LegType] : n \in 0..2}
    <3>1. 0 \in 0..2
      OBVIOUS
    <3> QED
      BY <1>3, <3>1
  <2>3. /\ q.pc \in {"new", "calling", "fetching", "over"} /\ q.try \in Nat /\ q.partial \in BOOLEAN
        /\ q.got \in Nat /\ q.until \in Nat
    <3>1. q.partial \in BOOLEAN
      BY <1>2, Zenon
    <3> QED
      BY <1>2, <3>1
  <2>4. WithLegs(q, q.legs) \in RequestType
    BY <2>1, <2>2, <2>3 DEF RequestType, WithLegs
  <2> QED
    BY <1>2, <2>4
<1>5. DeskType /\ Entries
  BY <1>1, <1>4, DeskAssumption DEF Init, DeskType, Entries
<1>6. ASSUME NEW r \in Requests
      PROVE  /\ RequestSound(req[r], asked[r], mailed[r]) /\ ExpiredLegs(req[r])
             /\ Promised(req[r]) /\ Told(req[r], r)
  <2>1. req[r] = q /\ asked[r] = <<>> /\ mailed[r] = 0 /\ minted = 0
    BY <1>1, <1>6 DEF Init
  <2>2. asked[r] \in [{} -> 0..1]
    BY <2>1
  <2>3. CallsOf(q, asked[r]) /\ MailOf(q, asked[r], 0)
    BY <1>2, <1>3, <2>2 DEF CallsOf, MailOf
  <2>4. ResultOf(q) /\ ExpiredLegs(q) /\ Promised(q) /\ Told(q, r)
    BY <1>2, <1>3, <2>1 DEF ResultOf, ExpiredLegs, Promised, Told
  <2> QED
    BY <2>1, <2>3, <2>4 DEF RequestSound
<1> QED
  BY <1>5, <1>6 DEF DeskInv

LEMMA DeskSteps ==
  ASSUME DeskInv, [Next]_vars
  PROVE  DeskInv'
<1>1. ASSUME NEW r \in Requests, Arrive(r) \/ Step(r)
      PROVE  DeskInv'
  BY <1>1, ArriveKeeps, ConnectKeeps, BreaksKeeps, ReplyKeeps, StatusKeeps, FetchKeeps DEF Step
<1>2. CASE UNCHANGED vars
  BY <1>2 DEF vars, DeskInv, DeskType, Entries, ExpiredLegs, Promised, Told
<1> QED
  BY <1>1, <1>2, TickKeeps, ExpireKeeps DEF Next

LEMMA DeskInvariant == Spec => []DeskInv
BY DeskStart, DeskSteps, PTL DEF Spec

-----------------------------------------------------------------------------
(* What it means.                                                          *)

\* Every call of a flow reaches FinX at most once, however often its connection is tried and
\* whatever breaks afterwards (client.py retries a connection that was never made, no more).
THEOREM Once == Spec => []AskedOnce
<1>1. DeskInv => AskedOnce
  <2> SUFFICES ASSUME DeskInv, NEW r \in Requests, NEW i \in DOMAIN asked[r]
               PROVE  asked[r][i] <= 1
    BY DEF AskedOnce
  <2>1. asked[r] \in [DOMAIN req[r].legs -> 0..1]
    BY DEF DeskInv, RequestSound, CallsOf
  <2> QED
    BY <2>1
<1> QED
  BY <1>1, DeskInvariant, PTL

\* A report is mailed at most once, only to a customer who chose mail, an answer that says it
\* was mailed is true (the request codes of run_pnl, run_ledger and run_tax), and the agent is
\* told of it when the widget asked (record_flow_event in their routes).
THEOREM Mailed == Spec => []MailedAsChosen
<1>1. DeskInv => MailedAsChosen
  <2> SUFFICES ASSUME DeskInv, NEW r \in Requests
               PROVE  /\ mailed[r] <= IF ByMail(req[r]) THEN 1 ELSE 0
                      /\ req[r].out = "email" => mailed[r] = 1
                      /\ req[r].out = "email" /\ req[r].in.origin = "widget" => r \in memos
    BY DEF MailedAsChosen, ByMail
  <2>1. PICK q \in RequestType : q = req[r]
    BY DEF DeskInv, DeskType
  <2>2. CallsOf(q, asked[r]) /\ MailOf(q, asked[r], mailed[r]) /\ ResultOf(q) /\ mailed[r] \in Nat
        /\ Told(q, r)
    BY <2>1 DEF DeskInv, DeskType, RequestSound
  <2>3. q.legs # <<>> => asked[r][1] \in 0..1
    BY <2>2, LegsAre DEF CallsOf
  <2> QED
    BY <2>1, <2>2, <2>3 DEF MailOf, ResultOf, Told
<1> QED
  BY <1>1, DeskInvariant, PTL

\* A customer is told to sign in again only when FinX has refused a credential that one of the
\* flow's own calls wants (the two credentials of headers.py, the 401s of the error mapping).
THEOREM SignInIsMeant == Spec => []ExpiryIsReal
<1>1. DeskInv => ExpiryIsReal
  BY DEF DeskInv, RequestSound, ResultOf, ExpiredLegs, ExpiryIsReal
<1> QED
  BY <1>1, DeskInvariant, PTL

\* The passbook's two calls settle in any order, and its answer says exactly what became of
\* them: partial when one failed, and an expired session when both did and one expired
\* (run_money's gather).
THEOREM Passbook == Spec => []PassbookIsHonest
<1>1. DeskInv => PassbookIsHonest
  BY DEF DeskInv, RequestSound, ResultOf, Failed, PassbookIsHonest
<1> QED
  BY <1>1, DeskInvariant, PTL

\* A link or a note is there under the token that was given for the store's whole time to
\* live, whatever else is put, pruned or asked for meanwhile; and each put leaves nothing
\* behind that had expired (FileTokenStore and ContractNoteRefStore).
THEOREM TokensGood == Spec => []TokensLast
<1>1. DeskInv => TokensLast
  <2> SUFFICES ASSUME DeskInv
               PROVE  TokensLast
    OBVIOUS
  <2>1. ASSUME NEW r \in Requests, req[r].out \in {"download", "notes"}, req[r].got > 0,
               now < req[r].until
        PROVE  \E e \in (IF req[r].out = "download" THEN files ELSE refs) :
                 e.token = req[r].got /\ e.session = req[r].in.session
    BY <2>1 DEF DeskInv, Promised
  <2> QED
    BY <2>1 DEF DeskInv, Entries, TokensLast
<1> QED
  BY <1>1, DeskInvariant, PTL

\* Requests, stores and counters keep their types, each answer has been given by a request
\* that is over, and no two entries of the stores share a token.
THEOREM DeskTyped == Spec => []TypeOK
<1>1. DeskInv => TypeOK
  <2> SUFFICES ASSUME DeskInv
               PROVE  TypeOK
    OBVIOUS
  <2>1. ASSUME NEW r \in Requests
        PROVE  /\ req[r].pc \in {"new", "calling", "fetching", "over"}
               /\ req[r].out \in Outcomes /\ (req[r].out # "none" <=> req[r].pc = "over")
               /\ req[r].got \in 0..minted
               /\ \A i \in DOMAIN req[r].legs : req[r].legs[i].kind \in Kinds
               /\ DOMAIN asked[r] = DOMAIN req[r].legs
    <3>1. PICK q \in RequestType : q = req[r]
      BY DEF DeskInv, DeskType
    <3>2. CallsOf(q, asked[r]) /\ ResultOf(q) /\ Promised(q) /\ minted \in Nat
      BY <3>1 DEF DeskInv, DeskType, RequestSound
    <3>3. \A i \in DOMAIN q.legs : q.legs[i].kind \in Kinds
      BY LegsAre DEF LegType
    <3>4. q.got \in 0..minted /\ q.pc \in {"new", "calling", "fetching", "over"} /\ q.out \in Outcomes
      BY <3>2 DEF Promised, RequestType
    <3> QED
      BY <3>1, <3>2, <3>3, <3>4 DEF CallsOf, ResultOf
  <2>2. \A e \in files \cup refs : e.token \in 1..minted /\ e.session \in Sessions
    BY DEF DeskInv, DeskType, Entries, EntryType
  <2> QED
    BY <2>1, <2>2 DEF DeskInv, DeskType, Entries, TypeOK
<1> QED
  BY <1>1, DeskInvariant, PTL
=============================================================================
