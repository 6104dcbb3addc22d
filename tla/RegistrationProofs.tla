-------------------------- MODULE RegistrationProofs --------------------------
(***************************************************************************)
(* Theorems of Registration, for any sites, agencies, forms and threads.   *)
(* The inductive invariant Inv adds to the properties what a request knows *)
(* between its commit and its answer (RequestMatches).                     *)
(***************************************************************************)
EXTENDS Registration, TLAPS

USE NullsAreNoValues, RegistrationAssumption

\* The fields of a request.
LEMMA RequestType ==
  ASSUME NEW r \in Requests
  PROVE  /\ r.site \in Sites
         /\ r.form \in Companies \union {NoForm}
         /\ r.endpoint \in Endpoints
         /\ r.endpoint = "regSiteInfo" => r.form \in Companies
  BY DEF Requests

\* addSite builds a row of its form.
LEMMA AddSiteType ==
  ASSUME NEW c \in Companies
  PROVE  /\ addSite(c) \in AgencyRow
         /\ addSite(c) # NoRow
         /\ addSite(c).company = c
  BY DEF addSite, AgencyRow, SiteStatus, ExtensionStatus

\* The states a thread can be put in have their type.
LEMMA IdleType == Idle \in HandlerState
  BY DEF Idle, HandlerState

\* A thread that replies is well typed.
LEMMA ReplyType ==
  ASSUME NEW r \in Requests, NEW x \in Results \union SiteStatus
  PROVE  [Idle EXCEPT !.at = "reply", !.request = r, !.result = x] \in HandlerState
  BY DEF Idle, HandlerState

\* A thread that is about to call the administrators' tool is well typed.
LEMMA AnnounceType ==
  ASSUME NEW r \in Requests, NEW kind \in {"register", "cancel"}, NEW a \in Agencies
  PROVE  [Idle EXCEPT !.at = "notify", !.request = r,
                      !.notice = [kind |-> kind, site |-> r.site, agency |-> a]]
           \in HandlerState
  BY RequestType DEF Idle, HandlerState, Notices

\* The checks of an envelope end in a result code.
LEMMA CheckType ==
  ASSUME NEW e \in Envelopes, NEW r \in Requests
  PROVE  Check(e, r) \in Results
  BY DEF Check, Results

-----------------------------------------------------------------------------
(* What keeps the invariant: a thread's own step, and the table it leaves.   *)

\* A stored form stays stored: the table only gains rows and changes statuses.
Grows ==
  \A s \in Sites : agencies[s] # NoRow =>
    agencies'[s] # NoRow /\ agencies'[s].company = agencies[s].company

\* A step that only lets the table grow keeps what a request it leaves alone knows.
LEMMA OthersKept ==
  ASSUME Inv, Grows, NEW h \in Handlers, handler'[h] = handler[h]
  PROVE  RequestMatches(h)'
  <1>1. RequestMatches(h)
    BY DEF Inv
  <1>2. handler[h].at # "idle" => handler[h].request \in Requests
    BY <1>1 DEF RequestMatches
  <1>3. handler[h].at # "idle" => handler[h].request.site \in Sites
    BY <1>2, RequestType
  <1> QED
    BY <1>1, <1>2, <1>3 DEF RequestMatches, Grows

\* So it is enough to look at the thread that took the step.
LEMMA StepKeepsRequests ==
  ASSUME Inv, Grows, NEW h \in Handlers, NEW state,
         handler' = [handler EXCEPT ![h] = state],
         RequestMatches(h)'
  PROVE  \A k \in Handlers : RequestMatches(k)'
  <1> SUFFICES ASSUME NEW k \in Handlers, k # h
               PROVE  RequestMatches(k)'
    OBVIOUS
  <1>1. handler'[k] = handler[k]
    BY DEF Inv, TypeOK
  <1> QED
    BY <1>1, OthersKept

\* What has been confirmed stays true.
LEMMA ConfirmedKept ==
  ASSUME Inv, Grows, confirmed' = confirmed
  PROVE  ConfirmedIsRegistered'
  BY DEF Inv, TypeOK, ConfirmedIsRegistered, Grows

\* An answer that confirms nothing.
LEMMA ReplyKeeps ==
  ASSUME Inv, NEW h \in Handlers, NEW r \in Requests, NEW x \in Results \union SiteStatus,
         Reply(h, r, x), x # "SUCCESS",
         UNCHANGED <<agencies, siteInfo, confirmed, told>>
  PROVE  Inv'
  <1> DEFINE state == [Idle EXCEPT !.at = "reply", !.request = r, !.result = x]
  <1>1. handler' = [handler EXCEPT ![h] = state] /\ handler'[h] = state
    BY DEF Reply, Inv, TypeOK
  <1>2. TypeOK'
    BY <1>1, ReplyType DEF Inv, TypeOK
  <1>3. Grows
    BY DEF Grows
  <1>4. state.at = "reply" /\ state.request = r /\ state.result # "SUCCESS"
    BY DEF Idle
  <1>5. RequestMatches(h)'
    BY <1>1, <1>4 DEF RequestMatches
  <1> QED
    BY <1>1, <1>2, <1>3, <1>5, StepKeepsRequests, ConfirmedKept DEF Inv

\* A step behind which the thread announces what the table says of the site.
LEMMA AnnounceKeeps ==
  ASSUME Inv, TypeOK', Grows, NEW h \in Handlers, NEW r \in Requests,
         NEW kind \in {"register", "cancel"}, NEW a \in Agencies,
         Announce(h, r, kind, a),
         agencies'[r.site] # NoRow, FormAgency[agencies'[r.site].company] = a,
         r.endpoint = "regSiteInfo" => agencies'[r.site].company = r.form,
         confirmed' = confirmed
  PROVE  Inv'
  <1> DEFINE notice == [kind |-> kind, site |-> r.site, agency |-> a]
             state == [Idle EXCEPT !.at = "notify", !.request = r, !.notice = notice]
  <1>1. handler' = [handler EXCEPT ![h] = state] /\ handler'[h] = state
    BY DEF Announce, Inv, TypeOK
  <1>2. state.at = "notify" /\ state.request = r /\ state.notice = notice
    BY DEF Idle
  <1>3. notice \in Notices /\ notice.site = r.site /\ notice.agency = a
    BY RequestType DEF Notices
  <1>4. RequestMatches(h)'
    BY <1>1, <1>2, <1>3 DEF RequestMatches
  <1> QED
    BY <1>1, <1>4, StepKeepsRequests, ConfirmedKept DEF Inv

-----------------------------------------------------------------------------
(* One lemma per action. *)

\* The inductive invariant holds at the start.
LEMMA InitInv == Init => Inv
  BY IdleType DEF Init, Inv, TypeOK, ConfirmedIsRegistered, RequestMatches, Idle

\* A refused envelope changes no row.
LEMMA RefuseKeeps ==
  ASSUME Inv, NEW h \in Handlers, NEW e \in Envelopes, NEW r \in Requests, refuse(h, e, r)
  PROVE  Inv'
  BY ReplyKeeps, CheckType DEF refuse

\* A status query changes no row, and confirms nothing.
LEMMA GetStatusKeeps ==
  ASSUME Inv, NEW h \in Handlers, NEW e \in Envelopes, NEW r \in Requests, getStatus(h, e, r)
  PROVE  Inv'
  <1> DEFINE x == IF agencies[r.site] = NoRow THEN "ERROR" ELSE agencies[r.site].status
  <1>1. x \in Results \union SiteStatus /\ x # "SUCCESS"
    BY RequestType DEF Inv, TypeOK, AgencyRow, SiteStatus, Results
  <1>2. Reply(h, r, x) /\ UNCHANGED <<agencies, siteInfo, confirmed, told>>
    BY DEF getStatus
  <1> HIDE DEF x
  <1> QED
    BY <1>1, <1>2, ReplyKeeps

\* A cancellation announces what the table says of its site.
LEMMA CancelKeeps ==
  ASSUME Inv, NEW h \in Handlers, NEW e \in Envelopes, NEW r \in Requests, cancel(h, e, r)
  PROVE  Inv'
  <1>1. UNCHANGED <<agencies, siteInfo, confirmed, told>> /\ Grows
    BY DEF cancel, Grows
  <1>2. CASE agencies[r.site] = NoRow
    BY <1>1, <1>2, ReplyKeeps DEF cancel, Results
  <1>3. CASE agencies[r.site] # NoRow
    <2>1. FormAgency[agencies[r.site].company] \in Agencies
      BY <1>3, RequestType DEF Inv, TypeOK, AgencyRow
    <2>2. Announce(h, r, "cancel", FormAgency[agencies[r.site].company])
      BY <1>3 DEF cancel
    <2>3. r.endpoint # "regSiteInfo"
      BY DEF cancel, Accepted
    <2>4. TypeOK'
      BY <1>1, <2>1, <2>2, AnnounceType DEF Announce, Inv, TypeOK
    <2> QED
      BY <1>1, <1>3, <2>1, <2>2, <2>3, <2>4, AnnounceKeeps DEF Inv
  <1> QED
    BY <1>2, <1>3

\* A registration that has made its look-ups holds a form.
LEMMA SaveKeeps ==
  ASSUME Inv, NEW h \in Handlers, NEW e \in Envelopes, NEW r \in Requests, save(h, e, r)
  PROVE  Inv'
  <1> DEFINE state == [Idle EXCEPT !.at = "insert", !.request = r]
  <1>1. UNCHANGED <<agencies, siteInfo, confirmed, told>> /\ Grows
    BY DEF save, Grows
  <1>2. CASE Reply(h, r, "NoSuchFieldError") \/ Reply(h, r, "DuplicateMember")
    BY <1>1, <1>2, ReplyKeeps DEF Results
  <1>3. CASE handler' = [handler EXCEPT ![h] = state]
    <2>1. state \in HandlerState /\ state.at = "insert" /\ state.request = r
      BY DEF Idle, HandlerState
    <2>2. r.endpoint = "regSiteInfo"
      BY DEF save, Accepted
    <2>3. handler'[h] = state /\ TypeOK'
      BY <1>1, <1>3, <2>1 DEF Inv, TypeOK
    <2>4. RequestMatches(h)'
      BY <2>1, <2>2, <2>3 DEF RequestMatches
    <2> QED
      BY <1>1, <1>3, <2>3, <2>4, StepKeepsRequests, ConfirmedKept DEF Inv
  <1> QED
    BY <1>2, <1>3 DEF save

\* A thread that is about to insert holds a registration.
LEMMA InsertHolds ==
  ASSUME Inv, NEW h \in Handlers, handler[h].at = "insert"
  PROVE  /\ handler[h].request \in Requests
         /\ handler[h].request.endpoint = "regSiteInfo"
         /\ handler[h].request.form \in Companies
  BY RequestType DEF Inv, RequestMatches

\* The commit of a registration stores the form it then announces.
LEMMA CommitInsertKeeps ==
  ASSUME Inv, NEW h \in Handlers, CommitInsert(h)
  PROVE  Inv'
  <1>1. handler[h].at = "insert"
    BY DEF CommitInsert
  <1>2. PICK r \in Requests : r = handler[h].request
    BY <1>1, InsertHolds
  <1>3. r.endpoint = "regSiteInfo" /\ r.form \in Companies /\ r.site \in Sites
    BY <1>1, <1>2, InsertHolds, RequestType
  <1>4. CASE agencies[r.site] # NoRow
    BY <1>2, <1>4, ReplyKeeps DEF CommitInsert, Results
  <1>5. CASE agencies[r.site] = NoRow
    <2>1. /\ agencies' = [agencies EXCEPT ![r.site] = addSite(r.form)]
          /\ Announce(h, r, "register", FormAgency[r.form])
          /\ UNCHANGED <<siteInfo, confirmed, told>>
      BY <1>2, <1>5 DEF CommitInsert
    <2>2. agencies'[r.site] = addSite(r.form)
      BY <1>3, <2>1 DEF Inv, TypeOK
    <2>3. Grows
      BY <1>3, <1>5, <2>1 DEF Grows, Inv, TypeOK
    <2>4. FormAgency[r.form] \in Agencies
      BY <1>3
    <2>5. agencies' \in [Sites -> AgencyRow \union {NoRow}]
      BY <1>3, <2>1, AddSiteType DEF Inv, TypeOK
    <2>6. TypeOK'
      BY <2>1, <2>4, <2>5, AnnounceType DEF Announce, Inv, TypeOK
    <2> QED
      BY <1>3, <2>1, <2>2, <2>3, <2>4, <2>6, AddSiteType, AnnounceKeeps
  <1> QED
    BY <1>4, <1>5

\* A registration is answered SUCCESS only behind its commit.
LEMMA SendKeeps ==
  ASSUME Inv, NEW h \in Handlers, sendNotification(h)
  PROVE  Inv'
  <1>1. handler[h].at = "notify" /\ RequestMatches(h)
    BY DEF sendNotification, Inv
  <1>2. PICK r \in Requests : r = handler[h].request
    BY <1>1 DEF RequestMatches
  <1> DEFINE state == [Idle EXCEPT !.at = "reply", !.request = r, !.result = "SUCCESS"]
  <1>3. handler' = [handler EXCEPT ![h] = state] /\ handler'[h] = state
    BY <1>2 DEF sendNotification, Reply, Inv, TypeOK
  <1>4. state.at = "reply" /\ state.request = r /\ state \in HandlerState
    BY ReplyType DEF Idle, Results
  <1>5. UNCHANGED <<agencies, siteInfo, confirmed>> /\ Grows
    BY DEF sendNotification, Grows
  <1>6. told' \subseteq Notices
    BY <1>1 DEF sendNotification, RequestMatches, Inv, TypeOK
  <1>7. TypeOK'
    BY <1>3, <1>4, <1>5, <1>6 DEF Inv, TypeOK
  <1>8. r.endpoint = "regSiteInfo" => agencies[r.site] # NoRow /\ agencies[r.site].company = r.form
    BY <1>1, <1>2 DEF RequestMatches
  <1>9. RequestMatches(h)'
    BY <1>3, <1>4, <1>5, <1>8 DEF RequestMatches
  <1> QED
    BY <1>3, <1>5, <1>7, <1>9, StepKeepsRequests, ConfirmedKept DEF Inv

\* A thread that becomes idle knows nothing.
LEMMA IdleKeeps ==
  ASSUME Inv, Grows, NEW h \in Handlers, handler' = [handler EXCEPT ![h] = Idle]
  PROVE  \A k \in Handlers : RequestMatches(k)'
  <1>1. handler'[h] = Idle /\ Idle.at = "idle"
    BY DEF Idle, Inv, TypeOK
  <1>2. RequestMatches(h)'
    BY <1>1 DEF RequestMatches
  <1> QED
    BY <1>2, StepKeepsRequests

\* What the partner is told is stored.
LEMMA RespondKeeps ==
  ASSUME Inv, NEW h \in Handlers, respond(h)
  PROVE  Inv'
  <1>1. /\ UNCHANGED <<agencies, siteInfo, told>> /\ Grows
        /\ handler' = [handler EXCEPT ![h] = Idle]
    BY DEF respond, Grows
  <1>2. handler[h].at = "reply" /\ RequestMatches(h)
    BY DEF respond, Inv
  <1>3. PICK r \in Requests : r = handler[h].request
    BY <1>2 DEF RequestMatches
  <1>4. CASE r.endpoint = "regSiteInfo" /\ handler[h].result = "SUCCESS"
    <2>1. confirmed' = confirmed \union {<<r.site, r.form>>}
      BY <1>3, <1>4 DEF respond
    <2>2. agencies[r.site] # NoRow /\ agencies[r.site].company = r.form
      BY <1>2, <1>3, <1>4 DEF RequestMatches
    <2>3. confirmed' \subseteq Sites \X Companies
      BY <1>4, <2>1, RequestType DEF Inv, TypeOK
    <2>4. TypeOK'
      BY <1>1, <2>3, IdleType DEF Inv, TypeOK
    <2>5. ConfirmedIsRegistered'
      BY <1>1, <2>1, <2>2 DEF Inv, ConfirmedIsRegistered
    <2> QED
      BY <1>1, <2>4, <2>5, IdleKeeps DEF Inv
  <1>5. CASE ~(r.endpoint = "regSiteInfo" /\ handler[h].result = "SUCCESS")
    <2>1. confirmed' = confirmed
      BY <1>3, <1>5 DEF respond
    <2>2. TypeOK'
      BY <1>1, <2>1, IdleType DEF Inv, TypeOK
    <2> QED
      BY <1>1, <2>1, <2>2, IdleKeeps, ConfirmedKept DEF Inv
  <1> QED
    BY <1>4, <1>5

\* A broken request leaves its committed row and nothing else.
LEMMA AbandonKeeps ==
  ASSUME Inv, NEW h \in Handlers, abandon(h)
  PROVE  Inv'
  <1>1. Grows /\ TypeOK' /\ handler' = [handler EXCEPT ![h] = Idle] /\ confirmed' = confirmed
    BY IdleType DEF abandon, Grows, Inv, TypeOK
  <1> QED
    BY <1>1, IdleKeeps, ConfirmedKept DEF Inv

\* The administrators' writes keep the form of every row.
LEMMA AdministratorKeeps ==
  ASSUME Inv, Administrator
  PROVE  Inv'
  <1>1. UNCHANGED <<handler, confirmed, told>>
    BY DEF Administrator, SetStatus, AddSiteInfo
  <1>2. Grows /\ TypeOK'
    <2>1. ASSUME NEW s \in Sites, AddSiteInfo(s)
          PROVE  Grows /\ TypeOK'
      BY <2>1 DEF AddSiteInfo, Grows, Inv, TypeOK
    <2>2. ASSUME NEW s \in Sites, NEW x \in {"Y", "N", "R"}, SetStatus(s, x)
          PROVE  Grows /\ TypeOK'
      <3> DEFINE row == [agencies[s] EXCEPT !.status = x]
      <3>1. agencies[s] \in AgencyRow /\ agencies' = [agencies EXCEPT ![s] = row]
        BY <2>2 DEF SetStatus, Inv, TypeOK
      <3>2. row \in AgencyRow /\ row.company = agencies[s].company /\ row # NoRow
        BY <3>1 DEF AgencyRow, SiteStatus
      <3>3. UNCHANGED <<siteInfo, handler, confirmed, told>>
        BY <2>2 DEF SetStatus
      <3> HIDE DEF row
      <3> QED
        BY <3>1, <3>2, <3>3 DEF Grows, Inv, TypeOK
    <2> QED
      BY <2>1, <2>2 DEF Administrator
  <1> QED
    BY <1>1, <1>2, OthersKept, ConfirmedKept DEF Inv

-----------------------------------------------------------------------------
(* The theorems. *)

\* Every step preserves the inductive invariant.
LEMMA NextKeeps == Inv /\ [Next]_vars => Inv'
  <1> SUFFICES ASSUME Inv, [Next]_vars PROVE Inv'
    OBVIOUS
  <1>1. ASSUME NEW h \in Handlers, NEW e \in Envelopes, NEW r \in Requests, Serve(h, e, r)
        PROVE  Inv'
    BY <1>1, RefuseKeeps, GetStatusKeeps, CancelKeeps, SaveKeeps DEF Serve
  <1>2. ASSUME Server PROVE Inv'
    BY <1>1, <1>2, CommitInsertKeeps, SendKeeps, RespondKeeps, AbandonKeeps DEF Server
  <1>3. CASE UNCHANGED vars
    BY <1>3, OthersKept, ConfirmedKept DEF vars, Grows, Inv, TypeOK
  <1> QED
    BY <1>2, <1>3, AdministratorKeeps DEF Next

\* Inv holds in every reachable state.
THEOREM Invariance == Spec => []Inv
  BY InitInv, NextKeeps, PTL DEF Spec

\* The tables, the threads and the partner's knowledge keep their types.
THEOREM TypeCorrect == Spec => []TypeOK
  <1>1. Inv => TypeOK
    BY DEF Inv
  <1> QED
    BY <1>1, Invariance, PTL

\* A registration that was answered SUCCESS is the stored one and stays so, with
\* any number of requests for the same site at once.
THEOREM ConfirmedStands == Spec => []ConfirmedIsRegistered
  <1>1. Inv => ConfirmedIsRegistered
    BY DEF Inv
  <1> QED
    BY <1>1, Invariance, PTL

-----------------------------------------------------------------------------
(* Registration implements Registry: CommitInsert is Register,               *)
(* sendNotification is Tell or a stutter, every other step is a stutter.     *)

\* A step that keeps every row's form keeps the registry's.
LEMMA FormKept ==
  ASSUME \A s \in Sites : /\ agencies'[s] = NoRow <=> agencies[s] = NoRow
                          /\ agencies[s] # NoRow => agencies'[s].company = agencies[s].company
  PROVE  form' = form
  BY DEF form

\* The commit of a registration registers its form, or is a stutter.
LEMMA InsertRegisters ==
  ASSUME Inv, NEW h \in Handlers, CommitInsert(h)
  PROVE  [R!Next]_(R!registry)
  <1>1. handler[h].at = "insert" /\ UNCHANGED told
    BY DEF CommitInsert
  <1>2. PICK r \in Requests : r = handler[h].request
    BY <1>1, InsertHolds
  <1>3. r.form \in Companies /\ r.site \in Sites
    BY <1>1, <1>2, InsertHolds, RequestType
  <1>4. CASE agencies[r.site] # NoRow
    <2>1. UNCHANGED agencies
      BY <1>2, <1>4 DEF CommitInsert
    <2> QED
      BY <1>1, <2>1 DEF R!registry, form
  <1>5. CASE agencies[r.site] = NoRow
    <2>1. agencies' = [agencies EXCEPT ![r.site] = addSite(r.form)]
      BY <1>2, <1>5 DEF CommitInsert
    <2>2. agencies'[r.site] = addSite(r.form)
      BY <1>3, <2>1 DEF Inv, TypeOK
    <2>3. \A s \in Sites : s # r.site => agencies'[s] = agencies[s]
      BY <2>1 DEF Inv, TypeOK
    <2>4. form' = [form EXCEPT ![r.site] = r.form]
      <3>1. form'[r.site] = r.form
        BY <1>3, <2>2, AddSiteType DEF form
      <3>2. \A s \in Sites : s # r.site => form'[s] = form[s]
        BY <2>3 DEF form
      <3>3. form = [s \in Sites |-> form[s]] /\ form' = [s \in Sites |-> form'[s]]
        BY DEF form
      <3> QED
        BY <1>3, <3>1, <3>2, <3>3
    <2>5. form[r.site] = NoForm
      BY <1>3, <1>5 DEF form
    <2>6. R!Register(r.site, r.form)
      BY <1>1, <2>4, <2>5 DEF R!Register
    <2> QED
      BY <1>3, <2>6 DEF R!Next
  <1> QED
    BY <1>4, <1>5

\* The administrators' tool is told of a registered site, or the notice is lost.
LEMMA SendTells ==
  ASSUME Inv, NEW h \in Handlers, sendNotification(h)
  PROVE  [R!Next]_(R!registry)
  <1>1. handler[h].at = "notify" /\ RequestMatches(h) /\ UNCHANGED form
    BY DEF sendNotification, Inv, form
  <1>2. PICK r \in Requests : r = handler[h].request
    BY <1>1 DEF RequestMatches
  <1>3. PICK n \in Notices : n = handler[h].notice
    BY <1>1 DEF RequestMatches
  <1>4. /\ n.site = r.site /\ r.site \in Sites /\ agencies[r.site] # NoRow
        /\ n.agency = FormAgency[agencies[r.site].company]
    BY <1>1, <1>2, <1>3, RequestType DEF RequestMatches
  <1>5. /\ form[r.site] = agencies[r.site].company
        /\ form[r.site] # NoForm
    BY <1>4 DEF form, Inv, TypeOK, AgencyRow
  <1>6. n = [kind |-> n.kind, site |-> r.site, agency |-> FormAgency[form[r.site]]]
        /\ n.kind \in {"register", "cancel"}
    BY <1>4, <1>5 DEF Notices
  <1>7. CASE told' = told
    BY <1>1, <1>7 DEF R!registry
  <1>8. CASE told' = told \union {n}
    <2>1. R!Tell(r.site, n.kind)
      BY <1>1, <1>5, <1>6, <1>8 DEF R!Tell
    <2> QED
      BY <1>4, <1>6, <2>1 DEF R!Next
  <1> QED
    BY <1>3, <1>7, <1>8 DEF sendNotification

\* The registry does not see the administrators' writes.
LEMMA AdministratorStutters ==
  ASSUME Inv, Administrator
  PROVE  UNCHANGED R!registry
  <1>1. ASSUME NEW s \in Sites, AddSiteInfo(s)
        PROVE  UNCHANGED R!registry
    BY <1>1 DEF AddSiteInfo, R!registry, form
  <1>2. ASSUME NEW s \in Sites, NEW x \in {"Y", "N", "R"}, SetStatus(s, x)
        PROVE  UNCHANGED R!registry
    <2> DEFINE row == [agencies[s] EXCEPT !.status = x]
    <2>1. agencies[s] \in AgencyRow /\ agencies' = [agencies EXCEPT ![s] = row]
          /\ UNCHANGED told
      BY <1>2 DEF SetStatus, Inv, TypeOK
    <2>2. row \in AgencyRow /\ row.company = agencies[s].company /\ row # NoRow
      BY <2>1 DEF AgencyRow, SiteStatus
    <2> HIDE DEF row
    <2>3. form' = form
      BY <2>1, <2>2, FormKept DEF Inv, TypeOK
    <2> QED
      BY <2>1, <2>3 DEF R!registry
  <1> QED
    BY <1>1, <1>2 DEF Administrator

\* Registration, with any number of threads, implements the registry: the first
\* form of a site stands, and the administrators hear of registered sites only.
THEOREM ImplementsRegistry == Spec => RegistrySpec
  <1>1. Init => R!Init
    BY DEF Init, R!Init, form
  <1>2. Inv /\ [Next]_vars => [R!Next]_(R!registry)
    <2> SUFFICES ASSUME Inv, [Next]_vars PROVE [R!Next]_(R!registry)
      OBVIOUS
    <2>1. CASE UNCHANGED <<agencies, told>>
      BY <2>1 DEF R!registry, form
    <2>2. ASSUME NEW h \in Handlers, NEW e \in Envelopes, NEW r \in Requests, Serve(h, e, r)
          PROVE  UNCHANGED <<agencies, told>>
      BY <2>2 DEF Serve, refuse, getStatus, cancel, save
    <2>3. ASSUME NEW h \in Handlers, respond(h) \/ abandon(h)
          PROVE  UNCHANGED <<agencies, told>>
      BY <2>3 DEF respond, abandon
    <2>4. ASSUME Server PROVE [R!Next]_(R!registry)
      BY <2>1, <2>2, <2>3, <2>4, InsertRegisters, SendTells DEF Server
    <2>5. CASE UNCHANGED vars
      BY <2>1, <2>5 DEF vars
    <2> QED
      BY <2>4, <2>5, AdministratorStutters DEF Next
  <1> QED
    BY <1>1, <1>2, Invariance, PTL DEF Spec, RegistrySpec, R!Spec
=============================================================================
