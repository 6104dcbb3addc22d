----------------------------- MODULE Registration -----------------------------
(***************************************************************************)
(* The partner's side of the module: AgencyController's endpoints          *)
(* getSiteStatus, regSiteInfo and cancelSiteInfo, down to AGENCY_INFO.     *)
(*                                                                         *)
(* A request is an envelope (agency, message type, HMAC) around an         *)
(* encrypted body (site, form).  Registering looks the site up and inserts *)
(* it in one transaction; its look-ups, the SELECT of save's merge         *)
(* included, read the snapshot the transaction started with, so that the   *)
(* merge always plans an INSERT, and only the primary key sees a row that  *)
(* another request has committed since.  The administrators' tool is       *)
(* called after the commit, and a failure of that call is swallowed.       *)
(*                                                                         *)
(* A form is a member of Companies; its AGENCY_ID is FormAgency of it.     *)
(***************************************************************************)
EXTENDS Entities

CONSTANTS
  Agencies,     \* the partners: EnumAgency, each with its row of AGENCY_INFO_KEY
  SiteAgency,   \* the agency whose initial a site id begins with
  FormAgency,   \* the agency a form names
  Complete,     \* the forms that pass the bean validation
  Handlers,     \* the request threads
  NoForm        \* null: no form, no request, no notice

ASSUME RegistrationAssumption ==
  /\ SiteAgency \in [Sites -> Agencies]
  /\ FormAgency \in [Companies -> Agencies]
  /\ Complete \subseteq Companies
  /\ NoForm \notin Companies

\* EnumAgency's message types.
MessageTypes == {"SiteStatus", "RegAgencySiteInfo", "CancelSiteInfo",
                 "NotifyPaymentSiteInfo", "NotifyStatusSite"}

Endpoints == {"getSiteStatus", "regSiteInfo", "cancelSiteInfo"}

\* The body of a request and the endpoint it is sent to.
Requests ==
  {r \in [endpoint : Endpoints, site : Sites, form : Companies \union {NoForm}] :
     r.form # NoForm <=> r.endpoint = "regSiteInfo"}

\* Its envelope; hmac: verifyInfo is the HMAC of the body under the agency's key.
Envelopes == [agency : Agencies, msgType : MessageTypes, hmac : BOOLEAN]

\* What the administrators' tool is told.
Notices == [kind : {"register", "cancel"}, site : Sites, agency : Agencies]

\* EnumResultCode, as far as it is used here, and ERROR for an unhandled exception.
Results == {"SUCCESS", "DuplicateMember", "IllegalArgument", "HmacError",
            "MsgTypeError", "NoSuchFieldError", "ERROR"}

VARIABLES
  agencies,   \* table AGENCY_INFO by site
  siteInfo,   \* the sites with a row in SITE_INFO
  handler,    \* the request each thread serves
  confirmed,  \* <<site, form>> of each registration the partner saw succeed
  told        \* the notices that reached the administrators' tool

vars == <<agencies, siteInfo, handler, confirmed, told>>

\* "insert" is inside the transaction of a registration, "notify" behind it.
HandlerState ==
  [at      : {"idle", "insert", "notify", "reply"},
   request : Requests \union {NoForm},
   notice  : Notices \union {NoForm},
   result  : Results \union SiteStatus \union {NoForm}]

Idle == [at |-> "idle", request |-> NoForm, notice |-> NoForm, result |-> NoForm]

\* What each variable may be, for each thread what its request may hold.
TypeOK ==
  /\ agencies \in [Sites -> AgencyRow \union {NoRow}]
  /\ siteInfo \subseteq Sites
  /\ handler \in [Handlers -> HandlerState]
  /\ confirmed \subseteq Sites \X Companies
  /\ told \subseteq Notices

\* Some sites may stand in SITE_INFO already.
Init ==
  /\ agencies = [s \in Sites |-> NoRow]
  /\ siteInfo \in SUBSET Sites
  /\ handler = [h \in Handlers |-> Idle]
  /\ confirmed = {}
  /\ told = {}

-----------------------------------------------------------------------------
(* The checks every endpoint makes before it looks at its table. *)

\* verifyMessageType compares the type with the one it derives from that type.
\* It fails, with an exception, only for the two it asks EnumAgency.getMsgType for
\* under names ("paymentInfo", "notification") that the latter does not know.
verifyMessageType(msgType) ==
  msgType \in {"SiteStatus", "RegAgencySiteInfo", "CancelSiteInfo"}

\* ValidateService.validateHmacAndMsgType, then isSiteIdStartWithInitial, which
\* asks for the agency of the envelope.
Check(e, r) ==
  IF ~e.hmac THEN "HmacError"
  ELSE IF ~verifyMessageType(e.msgType) THEN "ERROR"
  ELSE IF SiteAgency[r.site] # e.agency THEN "IllegalArgument"
  ELSE "SUCCESS"

Accepted(h, e, r, endpoint) ==
  handler[h].at = "idle" /\ r.endpoint = endpoint /\ Check(e, r) = "SUCCESS"

Reply(h, r, result) ==
  handler' = [handler EXCEPT ![h] = [Idle EXCEPT !.at = "reply", !.request = r,
                                                 !.result = result]]

Announce(h, r, kind, agency) ==
  handler' = [handler EXCEPT ![h] =
    [Idle EXCEPT !.at = "notify", !.request = r,
                 !.notice = [kind |-> kind, site |-> r.site, agency |-> agency]]]

refuse(h, e, r) ==
  /\ handler[h].at = "idle" /\ Check(e, r) # "SUCCESS"
  /\ Reply(h, r, Check(e, r))
  /\ UNCHANGED <<agencies, siteInfo, confirmed, told>>

-----------------------------------------------------------------------------
(* getSiteStatus and cancelSiteInfo read AGENCY_INFO once.  Both hand the row *)
(* to generateTargetData, which dereferences it in every branch.              *)

getStatus(h, e, r) ==
  /\ Accepted(h, e, r, "getSiteStatus")
  /\ Reply(h, r, IF agencies[r.site] = NoRow THEN "ERROR" ELSE agencies[r.site].status)
  /\ UNCHANGED <<agencies, siteInfo, confirmed, told>>

cancel(h, e, r) ==
  /\ Accepted(h, e, r, "cancelSiteInfo")
  /\ IF agencies[r.site] = NoRow
       THEN Reply(h, r, "ERROR")
       ELSE Announce(h, r, "cancel", FormAgency[agencies[r.site].company])
  /\ UNCHANGED <<agencies, siteInfo, confirmed, told>>

-----------------------------------------------------------------------------
(* regSiteInfo *)

\* Mutant of save: the administrators are told before the row is stored.
save_tellsFirst(h, e, r) ==
  /\ Accepted(h, e, r, "regSiteInfo")
  /\ IF r.form \notin Complete
       THEN Reply(h, r, "NoSuchFieldError") /\ UNCHANGED told
     ELSE IF agencies[r.site] # NoRow \/ r.site \in siteInfo
       THEN Reply(h, r, "DuplicateMember") /\ UNCHANGED told
     ELSE /\ handler' = [handler EXCEPT ![h] = [Idle EXCEPT !.at = "insert", !.request = r]]
          /\ told' = told \union {[kind |-> "register", site |-> r.site,
                                   agency |-> FormAgency[r.form]]}
  /\ UNCHANGED <<agencies, siteInfo, confirmed>>

\* AgencyService.save, up to its commit.
save(h, e, r) ==
  /\ Accepted(h, e, r, "regSiteInfo")
  /\ IF r.form \notin Complete
       THEN Reply(h, r, "NoSuchFieldError")
     ELSE IF agencies[r.site] # NoRow \/ r.site \in siteInfo
       THEN Reply(h, r, "DuplicateMember")
     ELSE handler' = [handler EXCEPT ![h] = [Idle EXCEPT !.at = "insert", !.request = r]]
  /\ UNCHANGED <<agencies, siteInfo, confirmed, told>>

\* Mutant of CommitInsert: the merge finds the row and updates it.
CommitInsert_updates(h) ==
  LET r == handler[h].request IN
  /\ handler[h].at = "insert"
  /\ agencies' = [agencies EXCEPT ![r.site] = addSite(r.form)]
  /\ Announce(h, r, "register", FormAgency[r.form])
  /\ UNCHANGED <<siteInfo, confirmed, told>>

\* The commit inserts the row, unless its key is taken by now.  The notice it
\* leads to names the agency of the form.
CommitInsert(h) ==
  LET r == handler[h].request IN
  /\ handler[h].at = "insert"
  /\ IF agencies[r.site] # NoRow
       THEN Reply(h, r, "ERROR") /\ UNCHANGED agencies
       ELSE /\ agencies' = [agencies EXCEPT ![r.site] = addSite(r.form)]
            /\ Announce(h, r, "register", FormAgency[r.form])
  /\ UNCHANGED <<siteInfo, confirmed, told>>

-----------------------------------------------------------------------------
(* The call of the administrators' tool, and the answer. *)

\* NotificationSender.sendNotification: delivered, or lost without anybody
\* noticing.  It may also never return: nothing bounds its wait for an answer.
sendNotification(h) ==
  /\ handler[h].at = "notify"
  /\ told' \in {told, told \union {handler[h].notice}}
  /\ Reply(h, handler[h].request, "SUCCESS")
  /\ UNCHANGED <<agencies, siteInfo, confirmed>>

\* Mutant of respond: every SUCCESS counts as that of a registration.
respond_anyEndpoint(h) ==
  LET r == handler[h].request IN
  /\ handler[h].at = "reply"
  /\ confirmed' = IF handler[h].result = "SUCCESS"
                    THEN confirmed \union {<<r.site, r.form>>} ELSE confirmed
  /\ handler' = [handler EXCEPT ![h] = Idle]
  /\ UNCHANGED <<agencies, siteInfo, told>>

\* The partner gets the answer.
respond(h) ==
  LET r == handler[h].request IN
  /\ handler[h].at = "reply"
  /\ confirmed' = IF r.endpoint = "regSiteInfo" /\ handler[h].result = "SUCCESS"
                    THEN confirmed \union {<<r.site, r.form>>} ELSE confirmed
  /\ handler' = [handler EXCEPT ![h] = Idle]
  /\ UNCHANGED <<agencies, siteInfo, told>>

\* The connection breaks or the server stops: an open transaction is rolled back,
\* a committed one stays, and the partner may send its request again.
abandon(h) ==
  /\ handler[h].at # "idle"
  /\ handler' = [handler EXCEPT ![h] = Idle]
  /\ UNCHANGED <<agencies, siteInfo, confirmed, told>>

-----------------------------------------------------------------------------
(* The administrators' tool (external) reviews a registered site and adds it  *)
(* to SITE_INFO.                                                              *)

SetStatus(s, status) ==
  /\ agencies[s] # NoRow /\ agencies[s].status # status
  /\ agencies' = [agencies EXCEPT ![s].status = status]
  /\ UNCHANGED <<siteInfo, handler, confirmed, told>>

AddSiteInfo(s) ==
  /\ agencies[s] # NoRow /\ s \notin siteInfo
  /\ siteInfo' = siteInfo \union {s}
  /\ UNCHANGED <<agencies, handler, confirmed, told>>

Administrator ==
  \E s \in Sites : AddSiteInfo(s) \/ \E status \in {"Y", "N", "R"} : SetStatus(s, status)

Serve(h, e, r) == refuse(h, e, r) \/ getStatus(h, e, r) \/ cancel(h, e, r) \/ save(h, e, r)

Server ==
  \E h \in Handlers :
    \/ \E e \in Envelopes, r \in Requests : Serve(h, e, r)
    \/ CommitInsert(h) \/ sendNotification(h) \/ respond(h) \/ abandon(h)

Next == Server \/ Administrator

Spec == Init /\ [][Next]_vars

-----------------------------------------------------------------------------
(* Properties. *)

\* A registration the partner saw succeed is the one that is stored, whatever
\* other registrations of the same site ran beside it or came after it.
ConfirmedIsRegistered ==
  \A c \in confirmed : agencies[c[1]] # NoRow /\ agencies[c[1]].company = c[2]

\* What a request knows behind its commit is what the table says, and stays so.
RequestMatches(h) ==
  LET r == handler[h].request
      stored == agencies[r.site] # NoRow /\ agencies[r.site].company = r.form IN
  /\ handler[h].at # "idle" => r \in Requests
  /\ handler[h].at = "insert" => r.endpoint = "regSiteInfo"
  /\ handler[h].at = "notify" =>
       /\ agencies[r.site] # NoRow
       /\ handler[h].notice \in Notices
       /\ handler[h].notice.site = r.site
       /\ handler[h].notice.agency = FormAgency[agencies[r.site].company]
       /\ r.endpoint = "regSiteInfo" => stored
  /\ handler[h].at = "reply" /\ handler[h].result = "SUCCESS" /\ r.endpoint = "regSiteInfo" =>
       stored

Inv == TypeOK /\ ConfirmedIsRegistered /\ \A h \in Handlers : RequestMatches(h)

\* The registry the table stands for.
form == [s \in Sites |-> IF agencies[s] = NoRow THEN NoForm ELSE agencies[s].company]

R == INSTANCE Registry WITH Forms <- Companies, AgencyOf <- FormAgency

\* Any number of requests at once implement the registry: the first form stands,
\* and the tool hears only of registered sites, under the agency of their form.
RegistrySpec == R!Spec
=============================================================================
