------------------------------ MODULE Tenancy -------------------------------
(***************************************************************************)
(* Sign-in, and the routing of every statement to the schema of its user:  *)
(* db/engine.py, db/tenant_session.py, db/tenant.py, core/auth.py and      *)
(* routes/auth.py, with the handlers that use a tenant session.            *)
(*                                                                         *)
(* A handler is the sequence of what it does with its session.  A session  *)
(* takes a connection of its worker's pool at its first statement and      *)
(* gives it back at a commit, a rollback or its end; the tenant is a note  *)
(* on the connection ("info"), with a context variable as the fallback.    *)
(* Handlers declared async hold the event loop of their worker while they  *)
(* query; the end of a dependency's session is scheduled by that loop.     *)
(***************************************************************************)
EXTENDS Naturals, Sequences, FiniteSets

CONSTANTS
    Identities,   \* people, as an OAuth provider names them
    Registered,   \* those with an account at the start
    EmailOf,      \* [Identities -> their address at the provider]
    Workers,      \* uvicorn worker processes
    Conns,        \* pooled connections
    PoolOf,       \* [Conns -> Workers]
    Requests,     \* requests in flight together
    DevMode,      \* no OAuth provider is configured
    Free,         \* "nobody"
    Unset,        \* no tenant, no cookie
    Public,       \* the public schema
    MaxRequests, MaxFaults    \* bounds on those events

ASSUME TenancyAssumption ==
    /\ Registered \subseteq Identities
    /\ DevMode \in BOOLEAN
    /\ PoolOf \in [Conns -> Workers]
    /\ {MaxRequests, MaxFaults} \subseteq Nat
    /\ Requests \subseteq Nat
    /\ Free \notin Requests
    /\ Unset # Public
    /\ {Unset, Public} \cap (Identities \X (0 .. MaxRequests)) = {}

\* mint_schema_name: a schema is named by who registered, and by which try.
Schemas == Identities \X (0 .. MaxRequests)

Tables == {"notes", "processing_jobs", "user_preferences", "concept_registry",
           "concept_insight_cache", "note_assets"}
-----------------------------------------------------------------------------
\* What _run_processing_job does with its sessions: the status write, the
\* preferences, process_note (snapshot, then graph and registry; it sets the
\* context variable and clears it), the last status write.  Mutant: the last
\* session is not bound.
RunProcessingJobUnbound ==
    <<"set", "bind", "processing_jobs", "commit", "bind", "read", "end",
      "set", "read", "end", "concept_registry", "commit", "clear",
      "processing_jobs", "commit", "clear">>

RunProcessingJob ==
    <<"set", "bind", "processing_jobs", "commit", "bind", "read", "end",
      "set", "read", "end", "concept_registry", "commit", "clear",
      "bind", "processing_jobs", "commit", "clear">>

\* The same for an import, which reads no preferences.
RunProcessing ==
    <<"set", "bind", "processing_jobs", "commit",
      "set", "read", "end", "concept_registry", "commit", "clear",
      "bind", "processing_jobs", "commit", "clear">>

\* _process_tenant for one note of the backfill: no session is bound.
ProcessTenant ==
    <<"set", "set", "read", "end", "concept_registry", "commit", "clear", "clear">>

\* The routes, each with what it does with the session of its request.
ListNotes == <<"bind", "read", "close">>
PutNote == <<"bind", "notes", "probe", "commit", "close">>
UploadMedia == <<"bind", "enter", "probe", "read", "note_assets", "commit", "leave", "close">>
UpdatePreferences == <<"bind", "read", "user_preferences", "commit", "close">>
ProcessNote == <<"bind", "read", "processing_jobs", "commit", "close">> \o RunProcessingJob
ImportNote ==
    <<"bind", "notes", "commit", "processing_jobs", "commit", "close">> \o RunProcessing
GetConceptInsight ==
    <<"bind", "enter", "read", "cached", "await", "enter", "concept_insight_cache", "commit",
      "leave", "close">>
AuthRefresh == <<"lookup", "answer", "close">>
AuthLogout == <<"forget">>
DevLogin == <<"lookup", "account", "provision", "commit", "answer", "close">>
OAuthCallback ==
    <<"enter", "lookup", "account", "provision", "commit", "answer", "leave", "close">>

Handlers == [
    list_notes |-> ListNotes, put_note |-> PutNote, upload_media |-> UploadMedia,
    update_preferences |-> UpdatePreferences, process_note |-> ProcessNote,
    import_note |-> ImportNote, get_concept_insight |-> GetConceptInsight,
    auth_refresh |-> AuthRefresh, auth_logout |-> AuthLogout, dev_login |-> DevLogin,
    oauth_callback |-> OAuthCallback, backfill |-> ProcessTenant, idle |-> <<>>]

Kinds == DOMAIN Handlers
SignIns == {"dev_login", "oauth_callback"}
-----------------------------------------------------------------------------
VARIABLES
    account,   \* public.users: [who, schema]
    ready,     \* schemas with their tables, graph and inbox, committed
    jar,       \* the cookies of each person: the schema the access token
               \* names, and whether there is a refresh token
    holder,    \* who has each connection
    info,      \* the tenant noted on each connection
    loop,      \* who holds each worker's event loop
    req,       \* the requests
    rows,      \* the committed rows, each with how it was written
    left       \* remaining bounded events

vars == <<account, ready, jar, holder, info, loop, req, rows, left>>

Idle == [kind |-> "idle", who |-> Unset, home |-> Unset, sign |-> Unset, worker |-> Unset,
         step |-> 1, var |-> Unset, gave |-> FALSE, pend |-> {}, new |-> {}, made |-> {}]

AccountOf(i) == {a \in account : a.who = i}

\* What request r does next.
Op(r) == IF req[r].step \in DOMAIN Handlers[req[r].kind]
         THEN Handlers[req[r].kind][req[r].step] ELSE "done"

Spend(what) == left[what] > 0 /\ left' = [left EXCEPT ![what] = @ - 1]

\* The connections a statement of r may run on: its own, or any free one.
Holds(r) == {c \in Conns : holder[c] = r}
Spare(r) == {c \in Conns : holder[c] = Free /\ PoolOf[c] = req[r].worker}
Usable(r) == IF Holds(r) # {} THEN Holds(r) ELSE Spare(r)

\* before_cursor_execute: where unqualified table names lead.
Target(r, c) == IF info[c] # Unset THEN info[c]
                ELSE IF req[r].var # Unset THEN req[r].var
                ELSE Public

\* Mutant: a connection keeps its tenant in the pool.
CheckinTagged(r) ==
    /\ holder' = [c \in Conns |-> IF holder[c] = r THEN Free ELSE holder[c]]
    /\ UNCHANGED info

\* The connection of r, if any, goes back to the pool; _clear_tenant_on_checkin.
Checkin(r) ==
    /\ holder' = [c \in Conns |-> IF holder[c] = r THEN Free ELSE holder[c]]
    /\ info' = [c \in Conns |-> IF holder[c] = r THEN Unset ELSE info[c]]

Checkout(r, c) == c \in Usable(r) /\ holder' = [holder EXCEPT ![c] = r]

NextStep(r) == req' = [req EXCEPT ![r].step = @ + 1]
NewSession(r) == req' = [req EXCEPT ![r].step = @ + 1, ![r].gave = FALSE]

Init ==
    /\ account = {[who |-> i, schema |-> <<i, 0>>] : i \in Registered}
    /\ ready = {<<i, 0>> : i \in Registered}
    /\ jar = [i \in Identities |->
                 IF i \in Registered THEN [access |-> <<i, 0>>, refresh |-> TRUE]
                 ELSE [access |-> Unset, refresh |-> FALSE]]
    /\ holder = [c \in Conns |-> Free]
    /\ info = [c \in Conns |-> Unset]
    /\ loop = [w \in Workers |-> Free]
    /\ req = [r \in Requests |-> Idle]
    /\ rows = {}
    /\ left = [request |-> MaxRequests, fault |-> MaxFaults]
-----------------------------------------------------------------------------
(******************************** requests *********************************)

\* Requests are interchangeable: a new one takes the first free place.
Arrive(r, i, w, kind, home, sign) ==
    /\ req[r].kind = "idle"
    /\ \A q \in Requests : q < r => req[q].kind # "idle"
    /\ Spend("request")
    /\ req' = [req EXCEPT ![r] = [Idle EXCEPT !.kind = kind, !.who = i,
                                              !.home = home, !.sign = sign, !.worker = w]]
    /\ UNCHANGED <<account, ready, jar, holder, info, loop, rows>>

\* A request with an access token: get_current_user takes the schema from it.
\* With one that has expired it is refused and nothing happens.
Authenticated(r, i, w, kind) ==
    /\ kind \notin SignIns \cup {"auth_refresh", "auth_logout", "backfill", "idle"}
    /\ jar[i].access # Unset
    /\ Arrive(r, i, w, kind, jar[i].access, Unset)

\* A sign-in: dev_login is refused when a provider is configured, and the
\* other way round.
Login(r, i, w, kind) ==
    /\ kind = (IF DevMode THEN "dev_login" ELSE "oauth_callback")
    /\ Arrive(r, i, w, kind, Unset, <<i, left["request"]>>)

Refresh(r, i, w) ==
    /\ jar[i].refresh
    /\ Arrive(r, i, w, "auth_refresh", Unset, Unset)

\* The backfill takes the schemas from public.users.
Backfill(r, w) ==
    \E a \in account : Arrive(r, a.who, w, "backfill", a.schema, Unset)

\* auth_logout needs no token.
Logout(r, i, w) == Arrive(r, i, w, "auth_logout", Unset, Unset)
-----------------------------------------------------------------------------
(************************** what a session does ****************************)

\* bind_session_to_tenant.
Bind(r) ==
    /\ Op(r) = "bind"
    /\ \E c \in Conns : Checkout(r, c) /\ info' = [info EXCEPT ![c] = req[r].home]
    /\ NewSession(r)
    /\ UNCHANGED <<account, ready, jar, loop, rows, left>>

Query(r) ==
    /\ Op(r) = "read"
    /\ \E c \in Conns : Checkout(r, c)
    /\ NextStep(r)
    /\ UNCHANGED <<account, ready, jar, info, loop, rows, left>>

Write(r) ==
    /\ Op(r) \in Tables
    /\ \E c \in Conns :
        /\ Checkout(r, c)
        /\ req' = [req EXCEPT ![r].step = @ + 1,
                              ![r].pend = @ \cup {[table |-> Op(r), by |-> req[r].kind,
                                   home |-> req[r].home, schema |-> Target(r, c),
                                   gave |-> req[r].gave]}]
    /\ UNCHANGED <<account, ready, jar, info, loop, rows, left>>

\* The transaction ends; the pool has the connection again.
Commit(r) ==
    /\ Op(r) = "commit"
    /\ Checkin(r)
    /\ rows' = rows \cup req[r].pend
    /\ account' = account \cup req[r].new
    /\ ready' = ready \cup req[r].made
    /\ req' = [req EXCEPT ![r].step = @ + 1, ![r].gave = TRUE,
                          ![r].pend = {}, ![r].new = {}, ![r].made = {}]
    /\ UNCHANGED <<jar, loop, left>>

LetGo(r) == loop' = [w \in Workers |-> IF loop[w] = r THEN Free ELSE loop[w]]

\* An exception: nothing is committed, the session is closed, the context
\* variable cleared, the client gets an error.
Fails(r) ==
    /\ Checkin(r)
    /\ LetGo(r)
    /\ req' = [req EXCEPT ![r] = Idle]
    /\ UNCHANGED <<account, ready, jar, rows>>

\* _get_cached_insight: found (the answer needs nothing more), not found, or
\* an error, which rolls back: the notes read before are expired by it, and
\* _build_context fails to read them again on an unbound connection.
Cached(r) ==
    /\ Op(r) = "cached"
    /\ \/ /\ \E c \in Conns : Checkout(r, c)
          /\ \/ NextStep(r)
             \/ req' = [req EXCEPT ![r].step = @ + 5]
          /\ UNCHANGED <<info, left>>
          /\ UNCHANGED <<account, ready, jar, loop, rows>>
       \/ Spend("fault") /\ Fails(r)

\* An async handler runs on the loop, and lets it go at an await and its end.
Enter(r) ==
    /\ Op(r) = "enter"
    /\ loop[req[r].worker] = Free
    /\ loop' = [loop EXCEPT ![req[r].worker] = r]
    /\ NextStep(r)
    /\ UNCHANGED <<account, ready, jar, holder, info, rows, left>>

Leave(r) ==
    /\ Op(r) \in {"await", "leave"}
    /\ LetGo(r)
    /\ NextStep(r)
    /\ UNCHANGED <<account, ready, jar, holder, info, rows, left>>

\* The session of a dependency is closed by the loop, that of a task in its
\* own thread.
Close(r) ==
    /\ \/ Op(r) = "close" /\ loop[req[r].worker] = Free
       \/ Op(r) = "end"
    /\ Checkin(r)
    /\ NewSession(r)
    /\ UNCHANGED <<account, ready, jar, loop, rows, left>>

\* note_assets_table_exists asks on a second connection while the request
\* keeps its own.  When the pool has none left its timeout is caught: the save
\* goes on without touching its images, the upload ends with a 503.
Probe(r) ==
    /\ Op(r) = "probe"
    /\ IF Spare(r) # {} \/ req[r].kind = "put_note" THEN NextStep(r)
       ELSE req' = [req EXCEPT ![r].step = @ + 4]
    /\ UNCHANGED <<account, ready, jar, holder, info, loop, rows, left>>

\* set_tenant_schema.
SetTenant(r) ==
    /\ Op(r) \in {"set", "clear"}
    /\ req' = [req EXCEPT ![r].step = @ + 1, ![r].gave = FALSE,
                          ![r].var = IF Op(r) = "set" THEN req[r].home ELSE Unset]
    /\ UNCHANGED <<account, ready, jar, holder, info, loop, rows, left>>

Done(r) ==
    /\ Op(r) = "done"
    /\ req[r].kind # "idle"
    /\ req' = [req EXCEPT ![r] = Idle]
    /\ UNCHANGED <<account, ready, jar, holder, info, loop, rows, left>>

\* Mutant: a request waits for a connection as long as it takes.
PoolWait(r) ==
    /\ Op(r) \in Tables \cup {"bind", "read", "lookup"}
    /\ Usable(r) = {}
    /\ UNCHANGED vars

\* No connection came free within the pool's timeout.
PoolTimeout(r) ==
    /\ Op(r) \in Tables \cup {"bind", "read", "lookup"}
    /\ Usable(r) = {}
    /\ Fails(r)
    /\ UNCHANGED left
-----------------------------------------------------------------------------
(**************************** signing in, refresh **************************)

\* The SELECT on public.users.  A sign-in goes on to the INSERT of a new user
\* or to the commit of a returning one's row; the refresh refuses a user it
\* does not find.
Lookup(r) ==
    /\ Op(r) = "lookup"
    /\ \E c \in Conns : Checkout(r, c)
    /\ LET known == AccountOf(req[r].who)
       IN  IF known = {}
           THEN req' = [req EXCEPT ![r].step = @ + (IF req[r].kind \in SignIns THEN 1 ELSE 2)]
           ELSE \E a \in known :
                   req' = [req EXCEPT ![r].step = @ + (IF req[r].kind \in SignIns THEN 3 ELSE 1),
                                      ![r].sign = a.schema]
    /\ UNCHANGED <<account, ready, jar, info, loop, rows, left>>

Taken(i) == {a \in account : a.who = i \/ EmailOf[a.who] = EmailOf[i]}
Pending(r) == UNION {req[q].new : q \in Requests \ {r}}

\* The INSERT into public.users.  The unique constraints make it wait for a
\* transaction that has inserted the same identity or address, and fail if
\* one has committed.
InsertAccount(r) ==
    /\ Op(r) = "account"
    /\ \A a \in Pending(r) : a.who # req[r].who /\ EmailOf[a.who] # EmailOf[req[r].who]
    /\ IF Taken(req[r].who) # {}
       THEN Fails(r) /\ UNCHANGED left
       ELSE /\ req' = [req EXCEPT ![r].step = @ + 1,
                                  ![r].new = {[who |-> req[r].who, schema |-> req[r].sign]}]
            /\ UNCHANGED <<account, ready, jar, holder, info, loop, rows, left>>

\* Mutant: the error of the graph extension is swallowed for good.
ProvisionSwallowed(r) ==
    /\ Op(r) = "provision"
    /\ \/ /\ req' = [req EXCEPT ![r].step = @ + 1, ![r].made = {req[r].sign}]
          /\ UNCHANGED left
       \/ Spend("fault") /\ NextStep(r)
    /\ UNCHANGED <<account, ready, jar, holder, info, loop, rows>>

\* create_user_schema: schema, tables, graph, inbox.  An error of the graph
\* extension is caught but leaves the transaction aborted, so the statement
\* for the inbox fails.
Provision(r) ==
    /\ Op(r) = "provision"
    /\ \/ /\ req' = [req EXCEPT ![r].step = @ + 1, ![r].made = {req[r].sign}]
          /\ UNCHANGED <<account, ready, jar, holder, info, loop, rows, left>>
       \/ Spend("fault") /\ Fails(r)

\* The response sets the cookies; auth_refresh only that of the access token.
Answer(r) ==
    /\ Op(r) = "answer"
    /\ jar' = [jar EXCEPT ![req[r].who] =
                  [access |-> req[r].sign,
                   refresh |-> IF req[r].kind \in SignIns THEN TRUE ELSE @.refresh]]
    /\ NextStep(r)
    /\ UNCHANGED <<account, ready, holder, info, loop, rows, left>>

\* _clear_auth_cookies.
Forget(r) ==
    /\ Op(r) = "forget"
    /\ jar' = [jar EXCEPT ![req[r].who] = [access |-> Unset, refresh |-> FALSE]]
    /\ NextStep(r)
    /\ UNCHANGED <<account, ready, holder, info, loop, rows, left>>
-----------------------------------------------------------------------------
Client ==
    \/ \E r \in Requests, i \in Identities, w \in Workers, kind \in Kinds :
          Authenticated(r, i, w, kind) \/ Login(r, i, w, kind)
    \/ \E r \in Requests, i \in Identities, w \in Workers : Refresh(r, i, w) \/ Logout(r, i, w)
    \/ \E r \in Requests, w \in Workers : Backfill(r, w)

Server(r) ==
    \/ Bind(r) \/ Query(r) \/ Write(r) \/ Commit(r) \/ Cached(r)
    \/ Enter(r) \/ Leave(r) \/ Probe(r) \/ Close(r) \/ SetTenant(r) \/ Done(r)
    \/ Lookup(r) \/ InsertAccount(r) \/ Provision(r) \/ Answer(r) \/ Forget(r)
    \/ PoolTimeout(r)

Next == Client \/ \E r \in Requests : Server(r)

Spec == Init /\ [][Next]_vars

\* Some thread goes on while one can, and no wait for a connection lasts: the
\* pool gives up after 30 seconds.
FairSpec == Spec /\ WF_vars(\E r \in Requests : Server(r))
-----------------------------------------------------------------------------
(******************************** properties *******************************)

Row == [table : Tables, by : Kinds, home : Schemas,
        schema : Schemas \cup {Public}, gave : BOOLEAN]
Account == [who : Identities, schema : Schemas]

\* Connections, cookies and requests keep their shape, and a connection in
\* the pool carries no tenant.
TypeOK ==
    /\ account \subseteq Account
    /\ ready \subseteq Schemas
    /\ jar \in [Identities -> [access : Schemas \cup {Unset}, refresh : BOOLEAN]]
    /\ holder \in [Conns -> Requests \cup {Free}]
    /\ info \in [Conns -> Schemas \cup {Unset}]
    /\ \A c \in Conns : holder[c] = Free => info[c] = Unset
    /\ loop \in [Workers -> Requests \cup {Free}]
    /\ req \in [Requests -> [kind : Kinds, who : Identities \cup {Unset},
                             home : Schemas \cup {Unset},
                             sign : Schemas \cup {Unset}, worker : Workers \cup {Unset},
                             step : Nat, var : Schemas \cup {Unset}, gave : BOOLEAN,
                             pend : SUBSET Row, new : SUBSET Account, made : SUBSET Schemas]]
    /\ rows \subseteq Row
    /\ left \in [{"request", "fault"} -> Nat]

\* Nothing a request or task writes ever lands in the schema of another user,
\* whatever connection it gets and whoever had it before
\* (tenant_session.py:33-34).
NeverAnotherTenant == \A x \in rows : x.schema \in {x.home, Public}

\* What a session writes before it first gives its connection back lands in
\* the user's own schema: that of a handler, and each of those a background
\* task or the backfill opens one after the other, although process_note
\* clears the context variable in the middle of a task (process.py:52-59).
BoundWritesAtHome == \A x \in rows : ~x.gave => x.schema = x.home

\* A person's access token names the schema of an account of theirs that was
\* provisioned with all its tables, whatever sign-ins raced or failed.
TokenNamesAccount ==
    \A i \in Identities : jar[i].access # Unset =>
        jar[i].access \in ready /\ jar[i].access \in {a.schema : a \in AccountOf(i)}

\* Every request ends: requests that hold connections while they wait for the
\* loop and one that holds the loop while it waits for a connection do not
\* block each other for good.
EveryRequestEnds == \A r \in Requests : req[r].kind # "idle" ~> req[r].kind = "idle"

\* "The caller is responsible for binding that session to the correct tenant
\* schema before calling" (core/job_store.py:9-14): job rows are written in
\* the tenant's own schema.  The import's are not.
JobRowsAtHome == \A x \in rows : x.table = "processing_jobs" => x.schema = x.home
=============================================================================
