--------------------------- MODULE Tenancy_proofs ---------------------------
(* Proofs about Tenancy: the tag of a connection is its holder's, so no    *)
(* statement is ever routed to another tenant.                             *)
EXTENDS Tenancy, TLAPS

OpAt(k, n) == IF n \in DOMAIN Handlers[k] THEN Handlers[k][n] ELSE "done"

Homeless == SignIns \cup {"auth_refresh", "auth_logout", "idle"}
Takes == Tables \cup {"bind", "read", "lookup", "cached"}
Releases == {"commit", "close", "end"}

\* Where each handler gives its connection back for the last time.
LastRelease == [
    list_notes |-> 3, put_note |-> 5, update_preferences |-> 5, process_note |-> 21,
    import_note |-> 19, get_concept_insight |-> 10, auth_refresh |-> 3, auth_logout |-> 0,
    dev_login |-> 6, oauth_callback |-> 8, upload_media |-> 8,
    backfill |-> 6, idle |-> 0]

\* What the proofs use of the program of a handler k at its step n.
Program(k, n) ==
    /\ LastRelease[k] \in Nat
    /\ OpAt(k, n) \in Takes => n < LastRelease[k]
    /\ OpAt(k, n) = "cached" => n + 5 <= LastRelease[k]
    /\ OpAt(k, n) = "lookup" => n + 2 <= LastRelease[k] /\ (k \in SignIns => n + 3 <= LastRelease[k])
    /\ OpAt(k, n) = "probe" => k = "put_note" \/ n + 4 <= LastRelease[k]
    /\ n = LastRelease[k] => OpAt(k, n) \in Releases
    /\ OpAt(k, n) = "done" => n > LastRelease[k]
    /\ OpAt(k, n) \in Tables \cup {"bind", "set"} => k \notin Homeless
    /\ OpAt(k, n) \in {"account", "provision"} => k \in SignIns

LEMMA Programs == \A k \in Kinds, n \in Nat \ {0} : Program(k, n)
<1> SUFFICES ASSUME NEW k \in Kinds, NEW n \in Nat \ {0} PROVE Program(k, n)
  OBVIOUS
<1> USE DEF Program, OpAt, Homeless, Takes, Releases, LastRelease, SignIns, Tables
<1>1. CASE k = "list_notes" BY <1>1, SMT DEF Handlers, ListNotes
<1>2. CASE k = "put_note" BY <1>2, SMT DEF Handlers, PutNote
<1>3. CASE k = "update_preferences" BY <1>3, SMT DEF Handlers, UpdatePreferences
<1>4. CASE k = "process_note" BY <1>4, SMTT(60) DEF Handlers, ProcessNote, RunProcessingJob
<1>5. CASE k = "import_note" BY <1>5, SMTT(60) DEF Handlers, ImportNote, RunProcessing
<1>6. CASE k = "get_concept_insight" BY <1>6, SMT DEF Handlers, GetConceptInsight
<1>7. CASE k = "auth_refresh" BY <1>7, SMT DEF Handlers, AuthRefresh
<1>8. CASE k = "auth_logout" BY <1>8, SMT DEF Handlers, AuthLogout
<1>9. CASE k = "dev_login" BY <1>9, SMT DEF Handlers, DevLogin
<1>10. CASE k = "oauth_callback" BY <1>10, SMT DEF Handlers, OAuthCallback
<1>11. CASE k = "backfill" BY <1>11, SMT DEF Handlers, ProcessTenant
<1>12. CASE k = "idle" BY <1>12, SMT DEF Handlers
<1>13. CASE k = "upload_media" BY <1>13, SMT DEF Handlers, UploadMedia
<1> QED BY <1>1, <1>2, <1>3, <1>4, <1>5, <1>6, <1>7, <1>8, <1>9, <1>10, <1>11, <1>12,
            <1>13 DEF Kinds, Handlers
-----------------------------------------------------------------------------
RequestType ==
    [kind : Kinds, who : Identities \cup {Unset}, home : Schemas \cup {Unset},
     sign : Schemas \cup {Unset}, worker : Workers \cup {Unset},
     step : Nat, var : Schemas \cup {Unset}, gave : BOOLEAN,
     pend : SUBSET Row, new : SUBSET Account, made : SUBSET Schemas]

\* A request in flight has a person and a worker; a tenant, unless it is one
\* of those that write to no tenant's tables; and nothing pending for others.
Wired(x) ==
    /\ x.step >= 1
    /\ x.kind # "idle" => x.who \in Identities /\ x.worker \in Workers
    /\ x.home = Unset => x.kind \in Homeless
    /\ x.kind \in SignIns => x.sign \in Schemas
    /\ x.var \in {Unset, x.home}
    /\ \A y \in x.pend : y.schema \in {y.home, Public}

\* Whoever holds a connection will give it back.
Returns(x) == x.step <= LastRelease[x.kind]

\* A connection carries no tenant but its holder's.
Tagged(c) ==
    holder[c] \in Requests =>
        /\ info[c] \in {Unset, req[holder[c]].home}
        /\ Returns(req[holder[c]])

\* The type invariant of all but the requests.
Rest ==
    /\ account \subseteq Account
    /\ ready \subseteq Schemas
    /\ jar \in [Identities -> [access : Schemas \cup {Unset}, refresh : BOOLEAN]]
    /\ holder \in [Conns -> Requests \cup {Free}]
    /\ info \in [Conns -> Schemas \cup {Unset}]
    /\ \A c \in Conns : holder[c] = Free => info[c] = Unset
    /\ loop \in [Workers -> Requests \cup {Free}]
    /\ rows \subseteq Row
    /\ left \in [{"request", "fault"} -> Nat]
    /\ left["request"] <= MaxRequests

IInv ==
    /\ Rest
    /\ req \in [Requests -> RequestType]
    /\ \A r \in Requests : Wired(req[r])
    /\ \A c \in Conns : Tagged(c)
    /\ NeverAnotherTenant

LEMMA Parts == IInv => TypeOK /\ NeverAnotherTenant
BY DEF IInv, Rest, TypeOK, RequestType

\* Changing a field of a request to a value of its type.
LEMMA Fields ==
    ASSUME NEW x \in RequestType
    PROVE  /\ \A n \in Nat : [x EXCEPT !.step = n] \in RequestType
           /\ \A b \in BOOLEAN : [x EXCEPT !.gave = b] \in RequestType
           /\ \A v \in Schemas \cup {Unset} : [x EXCEPT !.var = v] \in RequestType
           /\ \A v \in Schemas \cup {Unset} : [x EXCEPT !.sign = v] \in RequestType
           /\ \A v \in Schemas \cup {Unset} : [x EXCEPT !.home = v] \in RequestType
           /\ \A v \in Identities : [x EXCEPT !.who = v] \in RequestType
           /\ \A v \in Workers : [x EXCEPT !.worker = v] \in RequestType
           /\ \A v \in Kinds : [x EXCEPT !.kind = v] \in RequestType
           /\ \A v \in SUBSET Row : [x EXCEPT !.pend = v] \in RequestType
           /\ \A v \in SUBSET Account : [x EXCEPT !.new = v] \in RequestType
           /\ \A v \in SUBSET Schemas : [x EXCEPT !.made = v] \in RequestType
BY SMT DEF RequestType

LEMMA IdleFits == Idle \in RequestType /\ Idle.kind = "idle" /\ Wired(Idle)
<1>1. Idle \in RequestType
  BY SMT DEF Idle, RequestType, Kinds, Handlers
<1>2. Idle.kind = "idle" /\ Idle.step = 1 /\ Idle.home = Unset /\ Idle.var = Unset
      /\ Idle.pend = {}
  BY DEF Idle
<1> QED BY <1>1, <1>2 DEF Wired, Homeless, SignIns

LEMMA InitIInv == Init => IInv
<1> SUFFICES ASSUME Init PROVE IInv
  OBVIOUS
<1>1. \A i \in Registered : <<i, 0>> \in Schemas
  BY TenancyAssumption, SMT DEF Schemas
<1>2. account \subseteq Account /\ ready \subseteq Schemas
  BY <1>1, TenancyAssumption, SMT DEF Init, Account
<1>3. jar \in [Identities -> [access : Schemas \cup {Unset}, refresh : BOOLEAN]]
  BY <1>1, SMT DEF Init
<1>4. Rest
  BY <1>2, <1>3, TenancyAssumption, SMT DEF Init, Rest
<1>5. req \in [Requests -> RequestType] /\ \A r \in Requests : req[r] = Idle
  BY IdleFits, SMT DEF Init
<1>6. \A c \in Conns : Tagged(c)
  BY TenancyAssumption, SMT DEF Init, Tagged
<1> QED BY <1>4, <1>5, <1>6, IdleFits DEF IInv, NeverAnotherTenant, Init
-----------------------------------------------------------------------------
\* A step of request r to the record new: what it does to its connections.
Moves(r, new, c) ==
    \/ holder'[c] = Free
    \/ holder'[c] = r /\ info'[c] \in {Unset, new.home} /\ Returns(new)
    \/ holder[c] # r /\ holder'[c] = holder[c] /\ info'[c] = info[c]

LEMMA StepIInv ==
    ASSUME IInv, NEW r \in Requests, NEW new \in RequestType, Wired(new),
           req' = [req EXCEPT ![r] = new], Rest', \A c \in Conns : Moves(r, new, c),
           rows' \subseteq rows \cup req[r].pend
    PROVE  IInv'
<1>1. req' \in [Requests -> RequestType] /\ req'[r] = new
      /\ \A q \in Requests \ {r} : req'[q] = req[q]
  BY DEF IInv
<1>2. \A q \in Requests : Wired(req'[q])
  BY <1>1 DEF IInv
<1>3. ASSUME NEW c \in Conns PROVE Tagged(c)'
  <2>1. CASE holder'[c] = Free
    BY <2>1, TenancyAssumption DEF Tagged
  <2>2. CASE holder'[c] = r /\ info'[c] \in {Unset, new.home} /\ Returns(new)
    BY <2>2, <1>1 DEF Tagged
  <2>3. CASE holder[c] # r /\ holder'[c] = holder[c] /\ info'[c] = info[c]
    BY <2>3, <1>1 DEF Tagged, IInv
  <2> QED BY <2>1, <2>2, <2>3 DEF Moves
<1>4. NeverAnotherTenant'
  BY DEF NeverAnotherTenant, IInv, Wired
<1>5. (\A q \in Requests : Wired(req[q]))'
  BY <1>2
<1>6. (\A c \in Conns : Tagged(c))'
  BY <1>3
<1> QED BY <1>1, <1>5, <1>6, <1>4 DEF IInv

\* What is known of a request before its step.
LEMMA Before ==
    ASSUME IInv, NEW r \in Requests
    PROVE  /\ req[r] \in RequestType /\ Wired(req[r]) /\ req[r].step \in Nat \ {0}
           /\ Op(r) = OpAt(req[r].kind, req[r].step)
           /\ Program(req[r].kind, req[r].step)
           /\ LastRelease[req[r].kind] \in Nat
           /\ \A c \in Conns : holder[c] = r => Returns(req[r]) /\ info[c] \in {Unset, req[r].home}
<1>1. req[r] \in RequestType /\ Wired(req[r])
  BY DEF IInv
<1>2. req[r].step \in Nat \ {0} /\ req[r].kind \in Kinds
  BY <1>1, SMT DEF Wired, RequestType
<1>3. Program(req[r].kind, req[r].step)
  BY <1>2, Programs
<1>4. \A c \in Conns : holder[c] = r => Returns(req[r]) /\ info[c] \in {Unset, req[r].home}
  BY DEF IInv, Tagged
<1> QED BY <1>1, <1>2, <1>3, <1>4 DEF Op, OpAt, Program

\* A step that is no release: its connections stay, and so does their tag.
LEMMA KeepsIInv ==
    ASSUME IInv, NEW r \in Requests, NEW new \in RequestType, Wired(new),
           req' = [req EXCEPT ![r] = new], Rest',
           new.kind = req[r].kind, new.home = req[r].home, new.step = req[r].step + 1,
           Op(r) \notin Releases, Op(r) # "done",
           UNCHANGED <<holder, info, rows>>
    PROVE  IInv'
<1>1. ASSUME NEW c \in Conns PROVE Moves(r, new, c)
  <2>1. CASE holder[c] # r
    BY <2>1 DEF Moves
  <2>2. CASE holder[c] = r
    <3>1. Returns(req[r]) /\ info[c] \in {Unset, req[r].home}
      BY <2>2, Before
    <3>2. req[r].step # LastRelease[req[r].kind]
      BY Before DEF Program
    <3>3. Returns(new)
      BY <3>1, <3>2, Before, SMT DEF Returns
    <3> QED BY <2>2, <3>1, <3>3 DEF Moves
  <2> QED BY <2>1, <2>2
<1> QED BY <1>1, StepIInv

\* A step that takes a connection, or goes on with the one it has.
LEMMA TakesIInv ==
    ASSUME IInv, NEW r \in Requests, NEW new \in RequestType, Wired(new),
           req' = [req EXCEPT ![r] = new], NEW c \in Conns, Checkout(r, c),
           new.home = req[r].home, Returns(new),
           \/ info' = info
           \/ info' = [info EXCEPT ![c] = new.home],
           UNCHANGED <<account, ready, jar, loop, rows, left>>
    PROVE  IInv'
<1>1. holder \in [Conns -> Requests \cup {Free}] /\ info \in [Conns -> Schemas \cup {Unset}]
      /\ \A d \in Conns : holder[d] = Free => info[d] = Unset
  BY DEF IInv, Rest
<1>2. holder' = [holder EXCEPT ![c] = r] /\ (holder[c] = r \/ holder[c] = Free)
  BY DEF Checkout, Usable, Spare, Holds
<1>3. new.home \in Schemas \cup {Unset}
  BY DEF RequestType
<1>4. Rest'
  <2>1. holder' \in [Conns -> Requests \cup {Free}]
    BY <1>1, <1>2
  <2>2. info' \in [Conns -> Schemas \cup {Unset}]
    BY <1>1, <1>3
  <2>3. \A d \in Conns : holder'[d] = Free => info'[d] = Unset
    BY <1>1, <1>2, TenancyAssumption
  <2> QED BY <2>1, <2>2, <2>3 DEF IInv, Rest
<1>5. ASSUME NEW d \in Conns PROVE Moves(r, new, d)
  <2>1. CASE d = c
    <3>1. info[c] \in {Unset, req[r].home}
      BY <1>1, <1>2, Before
    <3> QED BY <2>1, <3>1, <1>1, <1>2 DEF Moves
  <2>2. CASE d # c /\ holder[d] = r
    BY <2>2, <1>1, <1>2, Before DEF Moves
  <2>3. CASE d # c /\ holder[d] # r
    BY <2>3, <1>1, <1>2 DEF Moves
  <2> QED BY <2>1, <2>2, <2>3
<1> QED BY <1>4, <1>5, StepIInv

\* A step that gives the connection of r back.
LEMMA CheckinMoves ==
    ASSUME IInv, NEW r \in Requests, Checkin(r), NEW new
    PROVE  /\ holder' \in [Conns -> Requests \cup {Free}]
           /\ info' \in [Conns -> Schemas \cup {Unset}]
           /\ \A c \in Conns : holder'[c] = Free => info'[c] = Unset
           /\ \A c \in Conns : Moves(r, new, c)
BY Zenon, TenancyAssumption DEF Checkin, IInv, Rest, Moves
-----------------------------------------------------------------------------
(****************************** one per action *****************************)

LEMMA ArriveIInv ==
    ASSUME IInv, NEW r \in Requests, NEW i \in Identities, NEW w \in Workers,
           NEW kind \in Kinds, NEW home \in Schemas \cup {Unset},
           NEW sign \in Schemas \cup {Unset},
           Arrive(r, i, w, kind, home, sign),
           home = Unset => kind \in Homeless,
           kind \in SignIns => sign \in Schemas
    PROVE  IInv'
<1> DEFINE new == [Idle EXCEPT !.kind = kind, !.who = i, !.home = home, !.sign = sign,
                               !.worker = w]
<1>1. new \in RequestType
  <2>1. [[[[[Idle EXCEPT !.kind = kind] EXCEPT !.who = i] EXCEPT !.home = home]
            EXCEPT !.sign = sign] EXCEPT !.worker = w] \in RequestType
    BY IdleFits, Fields
  <2> QED BY <2>1
<1>2. /\ new.kind = kind /\ new.who = i /\ new.home = home /\ new.sign = sign
      /\ new.worker = w /\ new.step = 1 /\ new.var = Unset /\ new.pend = {}
  BY DEF Idle
<1>3. Wired(new)
  BY <1>2, SMT DEF Wired
<1>4. \A c \in Conns : holder[c] # r
  <2>1. req[r].kind = "idle"
    BY DEF Arrive
  <2>2. ~Returns(req[r])
    BY <2>1, Before, SMT DEF Returns, LastRelease
  <2> QED BY <2>2, Before
<1>5. Rest'
  BY TenancyAssumption, SMT DEF Arrive, Spend, IInv, Rest
<1>6. \A c \in Conns : Moves(r, new, c)
  BY <1>4 DEF Moves, Arrive
<1>7. req' = [req EXCEPT ![r] = new] /\ rows' \subseteq rows \cup req[r].pend
  BY DEF Arrive
<1> HIDE DEF new
<1> QED BY <1>1, <1>3, <1>5, <1>6, <1>7, StepIInv

LEMMA ClientIInv == IInv /\ Client => IInv'
<1> SUFFICES ASSUME IInv, Client PROVE IInv'
  OBVIOUS
<1>1. jar \in [Identities -> [access : Schemas \cup {Unset}, refresh : BOOLEAN]]
      /\ left["request"] \in 0 .. MaxRequests /\ account \subseteq Account
  BY TenancyAssumption, SMT DEF IInv, Rest
<1>2. Unset \notin Schemas
  BY TenancyAssumption DEF Schemas
<1>3. ASSUME NEW r \in Requests, NEW i \in Identities, NEW w \in Workers, NEW kind \in Kinds,
             Authenticated(r, i, w, kind)
      PROVE  IInv'
  <2>1. jar[i].access \in Schemas /\ jar[i].access # Unset
    BY <1>1, <1>3 DEF Authenticated
  <2> QED BY <2>1, <1>3, ArriveIInv DEF Authenticated
<1>4. ASSUME NEW r \in Requests, NEW i \in Identities, NEW w \in Workers, NEW kind \in Kinds,
             Login(r, i, w, kind)
      PROVE  IInv'
  <2>1. <<i, left["request"]>> \in Schemas
    BY <1>1 DEF Schemas
  <2>2. kind \in SignIns
    BY <1>4 DEF Login, SignIns
  <2> QED BY <2>1, <2>2, <1>4, ArriveIInv DEF Login, Homeless
<1>5. ASSUME NEW r \in Requests, NEW i \in Identities, NEW w \in Workers, Refresh(r, i, w)
      PROVE  IInv'
  <2>1. "auth_refresh" \in Kinds /\ "auth_refresh" \in Homeless /\ "auth_refresh" \notin SignIns
    BY DEF Kinds, Handlers, Homeless, SignIns
  <2> QED BY <2>1, <1>5, ArriveIInv DEF Refresh
<1>6. ASSUME NEW r \in Requests, NEW i \in Identities, NEW w \in Workers, Logout(r, i, w)
      PROVE  IInv'
  <2>1. "auth_logout" \in Kinds /\ "auth_logout" \in Homeless /\ "auth_logout" \notin SignIns
    BY DEF Kinds, Handlers, Homeless, SignIns
  <2> QED BY <2>1, <1>6, ArriveIInv DEF Logout
<1>7. ASSUME NEW r \in Requests, NEW w \in Workers, Backfill(r, w)
      PROVE  IInv'
  <2>1. PICK a \in account : Arrive(r, a.who, w, "backfill", a.schema, Unset)
    BY <1>7 DEF Backfill
  <2>2. a.who \in Identities /\ a.schema \in Schemas /\ a.schema # Unset
    BY <1>1, <1>2 DEF Account
  <2>3. "backfill" \in Kinds /\ "backfill" \notin SignIns
    BY DEF Kinds, Handlers, SignIns
  <2> QED BY <2>1, <2>2, <2>3, ArriveIInv
<1> QED BY <1>3, <1>4, <1>5, <1>6, <1>7 DEF Client

\* Records of a request one step further.
LEMMA Further ==
    ASSUME IInv, NEW r \in Requests, NEW n \in Nat,
           NEW gave \in BOOLEAN
    PROVE  /\ [req[r] EXCEPT !.step = @ + n] \in RequestType
           /\ Wired([req[r] EXCEPT !.step = @ + n])
           /\ [req[r] EXCEPT !.step = @ + n, !.gave = gave] \in RequestType
           /\ Wired([req[r] EXCEPT !.step = @ + n, !.gave = gave])
<1> DEFINE to == req[r].step + n
           far == [req[r] EXCEPT !.step = to]
<1>1. to \in Nat /\ to >= 1
  BY Before, SMT
<1> HIDE DEF to
<1>2. far \in RequestType /\ [far EXCEPT !.gave = gave] \in RequestType
  BY <1>1, Before, Fields
<1>3. Wired(far)
  BY <1>1, Before, SMT DEF RequestType, Wired
<1>4. Wired([far EXCEPT !.gave = gave])
  BY <1>2, <1>3, SMT DEF RequestType, Wired
<1> QED BY <1>2, <1>3, <1>4 DEF to

LEMMA NextStepIs == ASSUME IInv, NEW r \in Requests, NextStep(r)
                    PROVE  req' = [req EXCEPT ![r] = [req[r] EXCEPT !.step = @ + 1]]
BY DEF NextStep, IInv

LEMMA NewSessionIs == ASSUME IInv, NEW r \in Requests, NewSession(r)
    PROVE  req' = [req EXCEPT ![r] = [req[r] EXCEPT !.step = @ + 1, !.gave = FALSE]]
BY DEF NewSession, IInv

LEMMA BindIInv == ASSUME IInv, NEW r \in Requests, Bind(r) PROVE IInv'
<1> DEFINE new == [req[r] EXCEPT !.step = @ + 1, !.gave = FALSE]
<1>1. new \in RequestType /\ Wired(new)
  BY Further
<1>2. new.home = req[r].home /\ new.kind = req[r].kind /\ new.step = req[r].step + 1
  BY Before DEF RequestType
<1>3. Returns(new)
  BY <1>2, Before, SMT DEF Bind, Returns, Program, Takes
<1>4. req' = [req EXCEPT ![r] = new]
  BY NewSessionIs DEF Bind
<1>5. PICK c \in Conns : Checkout(r, c) /\ info' = [info EXCEPT ![c] = req[r].home]
  BY DEF Bind
<1>6. UNCHANGED <<account, ready, jar, loop, rows, left>>
  BY DEF Bind
<1> HIDE DEF new
<1> QED BY <1>1, <1>2, <1>3, <1>4, <1>5, <1>6, TakesIInv

LEMMA QueryIInv == ASSUME IInv, NEW r \in Requests, Query(r) PROVE IInv'
<1> DEFINE new == [req[r] EXCEPT !.step = @ + 1]
<1>1. new \in RequestType /\ Wired(new)
  BY Further
<1>2. new.home = req[r].home /\ new.kind = req[r].kind /\ new.step = req[r].step + 1
  BY Before DEF RequestType
<1>3. Returns(new)
  BY <1>2, Before, SMT DEF Query, Returns, Program, Takes
<1>4. req' = [req EXCEPT ![r] = new]
  BY NextStepIs DEF Query
<1>5. PICK c \in Conns : Checkout(r, c)
  BY DEF Query
<1>6. info' = info /\ UNCHANGED <<account, ready, jar, loop, rows, left>>
  BY DEF Query
<1> HIDE DEF new
<1> QED BY <1>1, <1>2, <1>3, <1>4, <1>5, <1>6, TakesIInv

\* Where a statement leads is its user's schema or the public one.
LEMMA TargetOwn ==
    ASSUME IInv, NEW r \in Requests, NEW c \in Usable(r)
    PROVE  Target(r, c) \in {req[r].home, Public}
<1>1. info[c] \in {Unset, req[r].home}
  BY Before DEF Usable, Spare, Holds, IInv, Rest
<1> QED BY <1>1, Before DEF Target, Wired

LEMMA WriteIInv == ASSUME IInv, NEW r \in Requests, Write(r) PROVE IInv'
<1>1. PICK c \in Conns :
        /\ Checkout(r, c)
        /\ req' = [req EXCEPT ![r].step = @ + 1,
                              ![r].pend = @ \cup {[table |-> Op(r), by |-> req[r].kind,
                                   home |-> req[r].home, schema |-> Target(r, c),
                                   gave |-> req[r].gave]}]
  BY DEF Write
<1> DEFINE row == [table |-> Op(r), by |-> req[r].kind, home |-> req[r].home,
                   schema |-> Target(r, c), gave |-> req[r].gave]
           new == [req[r] EXCEPT !.step = @ + 1, !.pend = @ \cup {row}]
<1>2. Op(r) \in Tables /\ req[r].kind \notin Homeless
  BY Before DEF Write, Program
<1>3. req[r].home \in Schemas
  BY <1>2, Before DEF Wired, RequestType
<1>4. row.schema \in {row.home, Public} /\ row.home = req[r].home
  BY <1>1, TargetOwn DEF Checkout
<1>5. row \in Row
  <2>1. req[r].kind \in Kinds /\ req[r].gave \in BOOLEAN
    BY Before DEF RequestType
  <2>2. Target(r, c) \in Schemas \cup {Public}
    BY <1>1, <1>3, TargetOwn DEF Checkout
  <2> QED BY <2>1, <2>2, <1>2, <1>3 DEF Row
<1> HIDE DEF row
<1>6. new \in RequestType
  <2>1. req[r].step + 1 \in Nat /\ req[r].pend \cup {row} \in SUBSET Row
    BY <1>5, Before DEF RequestType
  <2>2. [[req[r] EXCEPT !.step = @ + 1] EXCEPT !.pend = req[r].pend \cup {row}] \in RequestType
    BY <2>1, Before, Fields
  <2> QED BY <2>2, Before DEF RequestType
<1>7. new.home = req[r].home /\ new.kind = req[r].kind /\ new.step = req[r].step + 1
      /\ new.pend = req[r].pend \cup {row} /\ new.who = req[r].who
      /\ new.worker = req[r].worker /\ new.sign = req[r].sign /\ new.var = req[r].var
  BY Before DEF RequestType
<1>8. Wired(new)
  BY <1>4, <1>7, Before, SMT DEF Wired
<1>9. Returns(new)
  BY <1>2, <1>7, Before, SMT DEF Returns, Program, Takes
<1>10. req' = [req EXCEPT ![r] = new]
  BY <1>1 DEF row, IInv
<1>11. info' = info /\ UNCHANGED <<account, ready, jar, loop, rows, left>>
  BY DEF Write
<1> HIDE DEF new
<1> QED BY <1>1, <1>6, <1>7, <1>8, <1>9, <1>10, <1>11, TakesIInv

LEMMA CommitIInv == ASSUME IInv, NEW r \in Requests, Commit(r) PROVE IInv'
<1> DEFINE new == [req[r] EXCEPT !.step = @ + 1, !.gave = TRUE,
                                 !.pend = {}, !.new = {}, !.made = {}]
<1>1. new \in RequestType
  <2>1. [[[[[req[r] EXCEPT !.step = @ + 1] EXCEPT !.gave = TRUE] EXCEPT !.pend = {}]
            EXCEPT !.new = {}] EXCEPT !.made = {}] \in RequestType
    <3>1. req[r].step + 1 \in Nat
      BY Before
    <3> QED BY <3>1, Before, Fields
  <2> QED BY <2>1
<1>2. Wired(new)
  BY Before, SMT DEF RequestType, Wired
<1>3. req' = [req EXCEPT ![r] = new] /\ rows' = rows \cup req[r].pend
  BY DEF Commit, IInv
<1>4. Checkin(r)
  BY DEF Commit
<1>5. Rest'
  <2>1. account' \subseteq Account /\ ready' \subseteq Schemas /\ rows' \subseteq Row
    BY Before DEF Commit, IInv, Rest, RequestType
  <2> QED BY <2>1, <1>4, CheckinMoves DEF Commit, IInv, Rest
<1>6. \A c \in Conns : Moves(r, new, c)
  BY <1>4, CheckinMoves
<1> HIDE DEF new
<1> QED BY <1>1, <1>2, <1>3, <1>5, <1>6, StepIInv

\* Whichever of its steps a request fails in.
LEMMA FailsIInv ==
    ASSUME IInv, NEW r \in Requests, Fails(r),
           left' = left \/ Spend("fault")
    PROVE  IInv'
<1>1. Checkin(r) /\ req' = [req EXCEPT ![r] = Idle] /\ rows' = rows
  BY DEF Fails
<1>2. left' \in [{"request", "fault"} -> Nat] /\ left'["request"] <= MaxRequests
  BY SMT DEF Spend, IInv, Rest
<1>3. loop' \in [Workers -> Requests \cup {Free}]
  BY DEF Fails, LetGo, IInv, Rest
<1>4. Rest'
  BY <1>1, <1>2, <1>3, CheckinMoves DEF Fails, IInv, Rest
<1>5. \A c \in Conns : Moves(r, Idle, c)
  BY <1>1, CheckinMoves
<1> QED BY <1>1, <1>4, <1>5, IdleFits, StepIInv

LEMMA CachedIInv == ASSUME IInv, NEW r \in Requests, Cached(r) PROVE IInv'
<1>1. CASE Spend("fault") /\ Fails(r)
  BY <1>1, FailsIInv
<1>2. ASSUME NEW c \in Conns, Checkout(r, c), info' = info,
             UNCHANGED <<account, ready, jar, loop, rows, left>>,
             NEW n \in {1, 5}, req' = [req EXCEPT ![r].step = @ + n]
      PROVE  IInv'
  <2> DEFINE new == [req[r] EXCEPT !.step = @ + n]
  <2>1. new \in RequestType /\ Wired(new)
    BY Further
  <2>2. new.home = req[r].home /\ new.kind = req[r].kind /\ new.step = req[r].step + n
    BY Before DEF RequestType
  <2>3. Returns(new)
    BY <2>2, Before, SMT DEF Cached, Returns, Program
  <2>4. req' = [req EXCEPT ![r] = new]
    BY <1>2 DEF IInv
  <2> HIDE DEF new
  <2> QED BY <1>2, <2>1, <2>2, <2>3, <2>4, TakesIInv
<1> QED BY <1>1, <1>2 DEF Cached, NextStep

LEMMA LookupIInv == ASSUME IInv, NEW r \in Requests, Lookup(r) PROVE IInv'
<1>1. PICK c \in Conns : Checkout(r, c)
  BY DEF Lookup
<1>2. info' = info /\ UNCHANGED <<account, ready, jar, loop, rows, left>>
  BY DEF Lookup
<1>3. Op(r) = "lookup"
  BY DEF Lookup
<1>4. ASSUME NEW n \in {1, 2, 3}, n = 3 => req[r].kind \in SignIns,
             NEW sign \in Schemas \cup {Unset},
             req[r].kind \in SignIns => sign \in Schemas,
             req' = [req EXCEPT ![r].step = @ + n, ![r].sign = sign]
      PROVE  IInv'
  <2> DEFINE new == [req[r] EXCEPT !.step = @ + n, !.sign = sign]
  <2>1. new \in RequestType
    <3>1. [[req[r] EXCEPT !.step = @ + n] EXCEPT !.sign = sign] \in RequestType
      <4>1. req[r].step + n \in Nat
        BY <1>4, Before
      <4> QED BY <1>4, <4>1, Before, Fields
    <3> QED BY <3>1
  <2>2. Wired(new)
    BY Before, <1>4, SMT DEF Wired, RequestType
  <2>3. new.home = req[r].home /\ new.kind = req[r].kind /\ new.step = req[r].step + n
    BY Before DEF RequestType
  <2>4. Returns(new)
    BY <1>3, <1>4, <2>3, Before, SMT DEF Returns, Program
  <2>5. req' = [req EXCEPT ![r] = new]
    BY <1>4 DEF IInv
  <2> HIDE DEF new
  <2> QED BY <1>1, <1>2, <2>1, <2>2, <2>3, <2>4, <2>5, TakesIInv
<1>5. CASE AccountOf(req[r].who) = {}
  <2>1. req[r].sign \in Schemas \cup {Unset} /\ (req[r].kind \in SignIns => req[r].sign \in Schemas)
    BY Before DEF RequestType, Wired
  <2>2. PICK n \in {1, 2} : req' = [req EXCEPT ![r].step = @ + n]
    BY <1>5, Zenon DEF Lookup
  <2> DEFINE far == [req[r] EXCEPT !.step = @ + n]
  <2>3. [far EXCEPT !.sign = req[r].sign] = far
    BY Before DEF RequestType
  <2>4. req' = [req EXCEPT ![r].step = @ + n, ![r].sign = req[r].sign]
    BY <2>2, <2>3 DEF IInv
  <2>5. n \in {1, 2, 3} /\ n # 3
    OBVIOUS
  <2> QED BY <2>1, <2>4, <2>5, <1>4
<1>6. CASE AccountOf(req[r].who) # {}
  <2>1. PICK a \in AccountOf(req[r].who) :
           req' = [req EXCEPT ![r].step = @ + (IF req[r].kind \in SignIns THEN 3 ELSE 1),
                              ![r].sign = a.schema]
    BY <1>6, Zenon DEF Lookup
  <2>2. a.schema \in Schemas
    BY DEF AccountOf, IInv, Rest, Account
  <2>3. CASE req[r].kind \in SignIns
    BY <2>1, <2>2, <2>3, <1>4
  <2>4. CASE req[r].kind \notin SignIns
    <3>1. req' = [req EXCEPT ![r].step = @ + 1, ![r].sign = a.schema]
      BY <2>1, <2>4
    <3>2. 1 \in {1, 2, 3} /\ 1 # 3
      OBVIOUS
    <3> QED BY <3>1, <3>2, <2>2, <2>4, <1>4
  <2> QED BY <2>3, <2>4
<1> QED BY <1>5, <1>6

LEMMA CloseIInv == ASSUME IInv, NEW r \in Requests, Close(r) PROVE IInv'
<1> DEFINE new == [req[r] EXCEPT !.step = @ + 1, !.gave = FALSE]
<1>1. new \in RequestType /\ Wired(new)
  BY Further
<1>2. req' = [req EXCEPT ![r] = new] /\ rows' = rows /\ Checkin(r)
  BY NewSessionIs DEF Close
<1>3. Rest'
  BY <1>2, CheckinMoves DEF Close, IInv, Rest
<1>4. \A c \in Conns : Moves(r, new, c)
  BY <1>2, CheckinMoves
<1> HIDE DEF new
<1> QED BY <1>1, <1>2, <1>3, <1>4, StepIInv

LEMMA DoneIInv == ASSUME IInv, NEW r \in Requests, Done(r) PROVE IInv'
<1>1. \A c \in Conns : holder[c] # r
  BY Before, SMT DEF Done, Program, Returns
<1>2. \A c \in Conns : Moves(r, Idle, c)
  BY <1>1 DEF Moves, Done
<1>3. Rest'
  BY DEF Done, IInv, Rest
<1> QED BY <1>2, <1>3, IdleFits, StepIInv DEF Done

\* The steps that neither take nor give back a connection.
LEMMA OtherIInv ==
    ASSUME IInv, NEW r \in Requests,
           \/ Enter(r) \/ Leave(r) \/ SetTenant(r) \/ Answer(r) \/ Forget(r)
    PROVE  IInv'
<1> USE DEF Releases
<1>1. CASE Enter(r)
  <2>1. Rest'
    BY <1>1 DEF Enter, IInv, Rest
  <2> DEFINE new == [req[r] EXCEPT !.step = @ + 1]
  <2>2. new \in RequestType /\ Wired(new)
    BY Further
  <2>3. new.kind = req[r].kind /\ new.home = req[r].home /\ new.step = req[r].step + 1
    BY Before DEF RequestType
  <2>4. req' = [req EXCEPT ![r] = new]
    BY <1>1, NextStepIs DEF Enter
  <2> HIDE DEF new
  <2> QED BY <1>1, <2>1, <2>2, <2>3, <2>4, KeepsIInv DEF Enter
<1>2. CASE Leave(r)
  <2>1. Rest'
    BY <1>2 DEF Leave, LetGo, IInv, Rest
  <2> DEFINE new == [req[r] EXCEPT !.step = @ + 1]
  <2>2. new \in RequestType /\ Wired(new)
    BY Further
  <2>3. new.kind = req[r].kind /\ new.home = req[r].home /\ new.step = req[r].step + 1
    BY Before DEF RequestType
  <2>4. req' = [req EXCEPT ![r] = new]
    BY <1>2, NextStepIs DEF Leave
  <2> HIDE DEF new
  <2> QED BY <1>2, <2>1, <2>2, <2>3, <2>4, KeepsIInv DEF Leave
<1>3. CASE SetTenant(r)
  <2>1. Rest'
    BY <1>3 DEF SetTenant, IInv, Rest
  <2> DEFINE var == IF Op(r) = "set" THEN req[r].home ELSE Unset
             new == [req[r] EXCEPT !.step = @ + 1, !.gave = FALSE, !.var = var]
  <2>2. var \in {Unset, req[r].home}
    OBVIOUS
  <2> HIDE DEF var
  <2>3. new \in RequestType
    <3>1. [[[req[r] EXCEPT !.step = @ + 1] EXCEPT !.gave = FALSE] EXCEPT !.var = var]
            \in RequestType
      <4>1. req[r].step + 1 \in Nat /\ var \in Schemas \cup {Unset}
        BY <2>2, Before DEF RequestType
      <4> QED BY <4>1, Before, Fields
    <3> QED BY <3>1
  <2>4. Wired(new)
    BY <2>2, Before, SMT DEF RequestType, Wired
  <2>5. new.kind = req[r].kind /\ new.home = req[r].home /\ new.step = req[r].step + 1
    BY Before DEF RequestType
  <2>6. req' = [req EXCEPT ![r] = new]
    BY <1>3 DEF SetTenant, var, IInv
  <2> HIDE DEF new
  <2> QED BY <1>3, <2>1, <2>3, <2>4, <2>5, <2>6, KeepsIInv DEF SetTenant
<1>4. CASE Answer(r) \/ Forget(r)
  <2>1. jar' \in [Identities -> [access : Schemas \cup {Unset}, refresh : BOOLEAN]]
    <3>1. req[r].sign \in Schemas \cup {Unset}
      BY Before DEF RequestType
    <3>2. jar \in [Identities -> [access : Schemas \cup {Unset}, refresh : BOOLEAN]]
      BY DEF IInv, Rest
    <3>3. CASE Answer(r)
      <4> DEFINE got == [access |-> req[r].sign,
                         refresh |-> IF req[r].kind \in SignIns THEN TRUE
                                     ELSE jar[req[r].who].refresh]
      <4>1. CASE req[r].who \in Identities
        <5>1. got \in [access : Schemas \cup {Unset}, refresh : BOOLEAN]
          <6>1. jar[req[r].who].refresh \in BOOLEAN
            BY <3>2, <4>1
          <6> QED BY <3>1, <6>1, Zenon
        <5>2. jar' = [jar EXCEPT ![req[r].who] = got]
          BY <3>3, Zenon DEF Answer
        <5> HIDE DEF got
        <5> QED BY <5>1, <5>2, <3>2
      <4>2. CASE req[r].who \notin Identities
        BY <3>2, <3>3, <4>2, Zenon DEF Answer
      <4> QED BY <4>1, <4>2
    <3>4. CASE Forget(r)
      <4>1. jar' = [jar EXCEPT ![req[r].who] = [access |-> Unset, refresh |-> FALSE]]
        BY <3>4, Zenon DEF Forget
      <4>2. [access |-> Unset, refresh |-> FALSE] \in [access : Schemas \cup {Unset},
                                                      refresh : BOOLEAN]
        BY Zenon
      <4> QED BY <3>2, <4>1, <4>2
    <3> QED BY <1>4, <3>3, <3>4
  <2>2. Rest'
    BY <1>4, <2>1 DEF Answer, Forget, IInv, Rest
  <2> DEFINE new == [req[r] EXCEPT !.step = @ + 1]
  <2>3. new \in RequestType /\ Wired(new)
    BY Further
  <2>4. new.kind = req[r].kind /\ new.home = req[r].home /\ new.step = req[r].step + 1
    BY Before DEF RequestType
  <2>5. req' = [req EXCEPT ![r] = new]
    BY <1>4, NextStepIs DEF Answer, Forget
  <2> HIDE DEF new
  <2> QED BY <1>4, <2>2, <2>3, <2>4, <2>5, KeepsIInv DEF Answer, Forget
<1> QED BY <1>1, <1>2, <1>3, <1>4

LEMMA ProbeIInv == ASSUME IInv, NEW r \in Requests, Probe(r) PROVE IInv'
<1>1. PICK n \in {1, 4} : /\ req' = [req EXCEPT ![r].step = @ + n]
                          /\ n = 4 => req[r].kind # "put_note"
  BY DEF Probe, NextStep
<1>2. Op(r) = "probe" /\ UNCHANGED <<account, ready, jar, holder, info, loop, rows, left>>
  BY DEF Probe
<1> DEFINE new == [req[r] EXCEPT !.step = @ + n]
<1>3. new \in RequestType /\ Wired(new)
  BY Further
<1>4. new.kind = req[r].kind /\ new.home = req[r].home /\ new.step = req[r].step + n
  BY Before DEF RequestType
<1>5. req' = [req EXCEPT ![r] = new]
  BY <1>1 DEF IInv
<1>6. Rest'
  BY <1>2 DEF IInv, Rest
<1> HIDE DEF new
<1>7. CASE n = 1
  BY <1>2, <1>3, <1>4, <1>5, <1>6, <1>7, KeepsIInv DEF Releases
<1>8. CASE n = 4
  <2>1. Returns(new)
    BY <1>1, <1>2, <1>4, <1>8, Before, SMT DEF Returns, Program
  <2>2. \A c \in Conns : Moves(r, new, c)
    BY <1>2, <1>4, <2>1, Before DEF Moves
  <2> QED BY <1>2, <1>3, <1>5, <1>6, <2>2, StepIInv
<1> QED BY <1>7, <1>8

LEMMA SigningInIInv ==
    ASSUME IInv, NEW r \in Requests, InsertAccount(r) \/ Provision(r)
    PROVE  IInv'
<1>1. Op(r) \in {"account", "provision"} /\ Op(r) \notin Releases
  BY DEF InsertAccount, Provision, Releases
<1>2. req[r].kind \in SignIns
  BY <1>1, Before DEF Program
<1>3. req[r].sign \in Schemas /\ req[r].who \in Identities
  BY <1>2, Before DEF Wired, SignIns
<1>4. ASSUME NEW add \in SUBSET Account, NEW made \in SUBSET Schemas,
             req' = [req EXCEPT ![r] = [req[r] EXCEPT !.step = @ + 1, !.new = add, !.made = made]],
             UNCHANGED <<account, ready, jar, holder, info, loop, rows, left>>
      PROVE  IInv'
  <2> DEFINE new == [req[r] EXCEPT !.step = @ + 1, !.new = add, !.made = made]
  <2>1. new \in RequestType
    <3>1. [[[req[r] EXCEPT !.step = @ + 1] EXCEPT !.new = add] EXCEPT !.made = made]
            \in RequestType
      <4>1. req[r].step + 1 \in Nat
        BY Before
      <4> QED BY <1>4, <4>1, Before, Fields
    <3> QED BY <3>1
  <2>2. Wired(new)
    BY Before, SMT DEF RequestType, Wired
  <2>3. new.kind = req[r].kind /\ new.home = req[r].home /\ new.step = req[r].step + 1
    BY Before DEF RequestType
  <2>4. Rest'
    BY <1>4 DEF IInv, Rest
  <2>5. req' = [req EXCEPT ![r] = new]
    BY <1>4
  <2> HIDE DEF new
  <2> QED BY <1>1, <1>4, <2>1, <2>2, <2>3, <2>4, <2>5, KeepsIInv
<1>5. req[r].new \in SUBSET Account /\ req[r].made \in SUBSET Schemas
  BY Before DEF RequestType
<1>6. CASE InsertAccount(r)
  <2>1. CASE Fails(r) /\ left' = left
    BY <2>1, FailsIInv
  <2> DEFINE add == {[who |-> req[r].who, schema |-> req[r].sign]}
  <2>2. CASE /\ req' = [req EXCEPT ![r].step = @ + 1, ![r].new = add]
             /\ UNCHANGED <<account, ready, jar, holder, info, loop, rows, left>>
    <3>1. add \in SUBSET Account
      BY <1>3 DEF Account
    <3>2. req' = [req EXCEPT ![r] = [req[r] EXCEPT !.step = @ + 1, !.new = add,
                                                   !.made = req[r].made]]
      BY <2>2, Before DEF IInv, RequestType
    <3> HIDE DEF add
    <3> QED BY <2>2, <3>1, <3>2, <1>4, <1>5
  <2> QED BY <1>6, <2>1, <2>2, Zenon DEF InsertAccount
<1>7. CASE Provision(r)
  <2>1. CASE Spend("fault") /\ Fails(r)
    BY <2>1, FailsIInv
  <2>2. CASE /\ req' = [req EXCEPT ![r].step = @ + 1, ![r].made = {req[r].sign}]
             /\ UNCHANGED <<account, ready, jar, holder, info, loop, rows, left>>
    <3>1. req' = [req EXCEPT ![r] = [req[r] EXCEPT !.step = @ + 1, !.new = req[r].new,
                                                   !.made = {req[r].sign}]]
      BY <2>2, Before DEF IInv, RequestType
    <3>2. {req[r].sign} \in SUBSET Schemas
      BY <1>3
    <3> QED BY <2>2, <3>1, <3>2, <1>4, <1>5
  <2> QED BY <1>7, <2>1, <2>2, Zenon DEF Provision
<1> QED BY <1>6, <1>7

LEMMA StutterIInv == IInv /\ UNCHANGED vars => IInv'
BY DEF vars, IInv, Rest, Tagged, NeverAnotherTenant

LEMMA NextIInv == IInv /\ [Next]_vars => IInv'
<1> SUFFICES ASSUME IInv, [Next]_vars PROVE IInv'
  OBVIOUS
<1>1. CASE Client
  BY <1>1, ClientIInv
<1>2. ASSUME NEW r \in Requests, Server(r) PROVE IInv'
  <2>1. CASE PoolTimeout(r)
    BY <2>1, FailsIInv DEF PoolTimeout
  <2> QED BY <1>2, <2>1, BindIInv, QueryIInv, WriteIInv, CommitIInv, CachedIInv, CloseIInv,
             DoneIInv, LookupIInv, OtherIInv, ProbeIInv, SigningInIInv DEF Server
<1>3. CASE UNCHANGED vars
  BY <1>3, StutterIInv, ZenonT(40)
<1> QED BY <1>1, <1>2, <1>3 DEF Next
-----------------------------------------------------------------------------
(****************************** signing in *********************************)

\* Where a sign-in looks its person up; the account, the provisioning, the
\* commit and the answer are its next steps.
First == [dev_login |-> 1, oauth_callback |-> 2]

SignInOps == {"lookup", "account", "provision", "commit", "answer"}

Course(k, n) ==
    /\ k \in SignIns =>
        /\ First[k] \in Nat
        /\ OpAt(k, n) = "lookup" <=> n = First[k]
        /\ OpAt(k, n) = "account" <=> n = First[k] + 1
        /\ OpAt(k, n) = "provision" <=> n = First[k] + 2
        /\ OpAt(k, n) = "commit" <=> n = First[k] + 3
        /\ OpAt(k, n) = "answer" <=> n = First[k] + 4
    /\ k = "auth_refresh" => (OpAt(k, n) = "lookup" <=> n = 1) /\ (OpAt(k, n) = "answer" <=> n = 2)
    /\ k \notin SignIns /\ k # "auth_refresh" => OpAt(k, n) \notin {"lookup", "answer"}
    /\ OpAt(k, n) \in {"account", "provision"} => k \in SignIns
    /\ OpAt(k, n) \in {"cached", "probe"} => k \notin SignIns /\ k # "auth_refresh"

LEMMA Courses == \A k \in Kinds, n \in Nat \ {0} : Course(k, n)
<1> SUFFICES ASSUME NEW k \in Kinds, NEW n \in Nat \ {0} PROVE Course(k, n)
  OBVIOUS
<1> USE DEF Course, OpAt, First, SignIns
<1>1. CASE k = "list_notes" BY <1>1, SMT DEF Handlers, ListNotes
<1>2. CASE k = "put_note" BY <1>2, SMT DEF Handlers, PutNote
<1>3. CASE k = "update_preferences" BY <1>3, SMT DEF Handlers, UpdatePreferences
<1>4. CASE k = "process_note" BY <1>4, SMTT(60) DEF Handlers, ProcessNote, RunProcessingJob
<1>5. CASE k = "import_note" BY <1>5, SMTT(60) DEF Handlers, ImportNote, RunProcessing
<1>6. CASE k = "get_concept_insight" BY <1>6, SMT DEF Handlers, GetConceptInsight
<1>7. CASE k = "auth_refresh" BY <1>7, SMT DEF Handlers, AuthRefresh
<1>8. CASE k = "auth_logout" BY <1>8, SMT DEF Handlers, AuthLogout
<1>9. CASE k = "dev_login" BY <1>9, SMT DEF Handlers, DevLogin
<1>10. CASE k = "oauth_callback" BY <1>10, SMT DEF Handlers, OAuthCallback
<1>11. CASE k = "backfill" BY <1>11, SMT DEF Handlers, ProcessTenant
<1>12. CASE k = "idle" BY <1>12, SMT DEF Handlers
<1>13. CASE k = "upload_media" BY <1>13, SMT DEF Handlers, UploadMedia
<1> QED BY <1>1, <1>2, <1>3, <1>4, <1>5, <1>6, <1>7, <1>8, <1>9, <1>10, <1>11, <1>12,
            <1>13 DEF Kinds, Handlers

Own(x) == [who |-> x.who, schema |-> x.sign]

\* What a request has pending among the accounts at each of its steps.
FlowOf(x, accounts) ==
    \/ x.new = {} /\ x.made = {}
       /\ (x.kind \in SignIns => x.step \notin {First[x.kind] + 2, First[x.kind] + 3, First[x.kind] + 4})
       /\ (x.kind = "auth_refresh" => x.step # 2)
    \/ x.new = {} /\ x.made = {} /\ Own(x) \in accounts
       /\ (x.kind \in SignIns => x.step \in {First[x.kind] + 3, First[x.kind] + 4})
    \/ x.kind \in SignIns /\ x.step = First[x.kind] + 2 /\ x.new = {Own(x)} /\ x.made = {}
    \/ x.kind \in SignIns /\ x.step = First[x.kind] + 3 /\ x.new = {Own(x)} /\ x.made = {x.sign}

FlowInv ==
    /\ IInv
    /\ \A r \in Requests : FlowOf(req[r], account)
    /\ \A a \in account : a.schema \in ready
    /\ TokenNamesAccount

LEMMA IdleFlows == \A accounts : FlowOf(Idle, accounts)
BY DEF FlowOf, Idle, SignIns

LEMMA FlowGrows == \A x, A, B : A \subseteq B /\ FlowOf(x, A) => FlowOf(x, B)
BY DEF FlowOf

LEMMA InitFlow == Init => FlowInv
<1> SUFFICES ASSUME Init PROVE FlowInv
  OBVIOUS
<1>1. \A r \in Requests : FlowOf(req[r], account)
  BY IdleFlows DEF Init
<1>2. \A a \in account : a.schema \in ready
  BY DEF Init
<1>3. TokenNamesAccount
  <2> SUFFICES ASSUME NEW i \in Identities, jar[i].access # Unset
               PROVE  /\ jar[i].access \in ready
                      /\ \E a \in account : a.who = i /\ a.schema = jar[i].access
    BY DEF TokenNamesAccount, AccountOf
  <2>1. i \in Registered /\ jar[i].access = <<i, 0>>
    BY DEF Init
  <2>2. [who |-> i, schema |-> <<i, 0>>] \in account
    BY <2>1 DEF Init
  <2> QED BY <2>1, <2>2 DEF Init
<1> QED BY <1>1, <1>2, <1>3, InitIInv DEF FlowInv

\* A step of one request.
LEMMA StepFlow ==
    ASSUME FlowInv, IInv', NEW r \in Requests, NEW new,
           req' = [req EXCEPT ![r] = new],
           account \subseteq account', ready \subseteq ready',
           FlowOf(new, account'),
           \A a \in account' \ account : a.schema \in ready',
           \/ jar' = jar
           \/ jar' = [jar EXCEPT ![req[r].who] = [access |-> Unset, refresh |-> FALSE]]
           \/ /\ Own(req[r]) \in account
              /\ \E b \in BOOLEAN : jar' = [jar EXCEPT ![req[r].who] =
                                             [access |-> req[r].sign, refresh |-> b]]
    PROVE  FlowInv'
<1>1. \A q \in Requests : FlowOf(req'[q], account')
  BY FlowGrows DEF FlowInv, IInv
<1>2. \A a \in account' : a.schema \in ready'
  BY DEF FlowInv
<1>3. ASSUME NEW i \in Identities, jar'[i].access # Unset
      PROVE  /\ jar'[i].access \in ready'
             /\ \E a \in account' : a.who = i /\ a.schema = jar'[i].access
  <2>1. jar \in [Identities -> [access : Schemas \cup {Unset}, refresh : BOOLEAN]]
    BY DEF FlowInv, IInv, Rest
  <2>2. CASE jar'[i] = jar[i]
    BY <1>3, <2>2 DEF FlowInv, TokenNamesAccount, AccountOf
  <2>3. CASE /\ jar'[i].access = req[r].sign /\ i = req[r].who
             /\ Own(req[r]) \in account
    BY <2>3, <1>2 DEF Own
  <2>4. CASE jar'[i].access = Unset
    BY <2>4, <1>3
  <2>5. CASE jar' = [jar EXCEPT ![req[r].who] = [access |-> Unset, refresh |-> FALSE]]
    BY <2>1, <2>2, <2>4, <2>5
  <2>6. CASE /\ Own(req[r]) \in account
             /\ \E b \in BOOLEAN : jar' = [jar EXCEPT ![req[r].who] =
                                            [access |-> req[r].sign, refresh |-> b]]
    <3>1. PICK b \in BOOLEAN : jar' = [jar EXCEPT ![req[r].who] =
                                           [access |-> req[r].sign, refresh |-> b]]
      BY <2>6
    <3> DEFINE got == [access |-> req[r].sign, refresh |-> b]
    <3>2. got.access = req[r].sign
      OBVIOUS
    <3> HIDE DEF got
    <3>3. jar' = [jar EXCEPT ![req[r].who] = got]
      BY <3>1 DEF got
    <3>4. CASE i = req[r].who
      BY <2>1, <2>3, <2>6, <3>2, <3>3, <3>4
    <3>5. CASE i # req[r].who
      BY <2>1, <2>2, <3>3, <3>5
    <3> QED BY <3>4, <3>5
  <2> QED BY <2>2, <2>5, <2>6
<1>4. TokenNamesAccount'
  BY <1>3 DEF TokenNamesAccount, AccountOf
<1> QED BY <1>1, <1>2, <1>4 DEF FlowInv

\* What is known of a request before its step.
LEMMA FlowBefore ==
    ASSUME FlowInv, NEW r \in Requests
    PROVE  /\ req[r] \in RequestType /\ req[r].step \in Nat \ {0} /\ req[r].kind \in Kinds
           /\ Course(req[r].kind, req[r].step) /\ FlowOf(req[r], account)
           /\ Op(r) = OpAt(req[r].kind, req[r].step)
<1>1. IInv
  BY DEF FlowInv
<1>2. req[r] \in RequestType /\ req[r].step \in Nat \ {0} /\ Op(r) = OpAt(req[r].kind, req[r].step)
  BY <1>1, Before
<1>3. req[r].kind \in Kinds
  BY <1>2 DEF RequestType
<1> QED BY <1>2, <1>3, Courses DEF FlowInv

\* A step of a request outside of its signing in.
LEMMA AsideFlow ==
    ASSUME FlowInv, IInv', NEW r \in Requests, NEW new,
           req' = [req EXCEPT ![r] = new],
           Op(r) \notin SignInOps,
           new.kind = req[r].kind, new.new = req[r].new, new.made = req[r].made,
           \/ new.step = req[r].step + 1
           \/ Op(r) \in {"cached", "probe"} /\ new.step \in Nat,
           UNCHANGED <<account, ready>>,
           \/ jar' = jar
           \/ jar' = [jar EXCEPT ![req[r].who] = [access |-> Unset, refresh |-> FALSE]]
    PROVE  FlowInv'
<1>1. req[r].kind \in SignIns => First[req[r].kind] \in Nat
  BY FlowBefore DEF Course
<1>2. CASE req[r].kind \in SignIns
  <2>1. req[r].step \notin First[req[r].kind] .. First[req[r].kind] + 4
    BY <1>1, <1>2, FlowBefore, SMT DEF Course, SignInOps
  <2>2. req[r].new = {} /\ req[r].made = {}
    BY <1>1, <1>2, <2>1, FlowBefore, SMT DEF FlowOf
  <2>3. new.step = req[r].step + 1
    BY <1>2, FlowBefore DEF Course
  <2>4. FlowOf(new, account)
    BY <1>1, <1>2, <2>1, <2>2, <2>3, FlowBefore, SMT DEF FlowOf, SignIns
  <2> QED BY <2>4, StepFlow
<1>3. CASE req[r].kind \notin SignIns
  <2>1. req[r].new = {} /\ req[r].made = {}
    BY <1>3, FlowBefore DEF FlowOf
  <2>2. new.kind = "auth_refresh" => new.step # 2
    <3>1. CASE new.step = req[r].step + 1
      <4>1. req[r].kind = "auth_refresh" => req[r].step # 1
        BY FlowBefore DEF Course, SignInOps
      <4> QED BY <3>1, <4>1, FlowBefore, SMT
    <3>2. CASE Op(r) \in {"cached", "probe"}
      BY <3>2, FlowBefore DEF Course
    <3> QED BY <3>1, <3>2
  <2>3. FlowOf(new, account)
    BY <1>3, <2>1, <2>2 DEF FlowOf
  <2> QED BY <2>3, StepFlow
<1> QED BY <1>2, <1>3

LEMMA FailsFlow ==
    ASSUME FlowInv, IInv', NEW r \in Requests, Fails(r)
    PROVE  FlowInv'
BY IdleFlows, StepFlow DEF Fails

LEMMA ClientFlow == FlowInv /\ Client => FlowInv'
<1> SUFFICES ASSUME FlowInv, Client PROVE FlowInv'
  OBVIOUS
<1>1. IInv'
  BY ClientIInv DEF FlowInv
<1>2. ASSUME NEW r \in Requests, NEW i, NEW w, NEW kind, NEW home, NEW sign,
             Arrive(r, i, w, kind, home, sign)
      PROVE  FlowInv'
  <2> DEFINE new == [Idle EXCEPT !.kind = kind, !.who = i, !.home = home, !.sign = sign,
                                 !.worker = w]
  <2>1. new.new = {} /\ new.made = {} /\ new.kind = kind /\ new.step = 1
    BY DEF Idle
  <2>2. kind \in SignIns => 1 \notin {First[kind] + 2, First[kind] + 3, First[kind] + 4}
    BY SMT DEF SignIns, First
  <2>3. FlowOf(new, account')
    BY <2>1, <2>2 DEF FlowOf
  <2>4. req' = [req EXCEPT ![r] = new] /\ UNCHANGED <<account, ready, jar>>
    BY <1>2 DEF Arrive
  <2> HIDE DEF new
  <2> QED BY <1>1, <2>3, <2>4, StepFlow
<1> QED BY <1>2 DEF Client, Authenticated, Login, Refresh, Logout, Backfill

\* The steps that take no part in signing in.
LEMMA OtherFlow ==
    ASSUME FlowInv, IInv', NEW r \in Requests,
           \/ Bind(r) \/ Query(r) \/ Write(r) \/ Enter(r) \/ Leave(r)
           \/ Close(r) \/ SetTenant(r) \/ Forget(r)
    PROVE  FlowInv'
<1>1. Op(r) \notin SignInOps /\ UNCHANGED <<account, ready>>
  BY DEF Bind, Query, Write, Enter, Leave, Close, SetTenant, Forget, SignInOps, Tables
<1>2. \/ jar' = jar
      \/ jar' = [jar EXCEPT ![req[r].who] = [access |-> Unset, refresh |-> FALSE]]
  BY DEF Bind, Query, Write, Enter, Leave, Close, SetTenant, Forget
<1>3. \E new : /\ req' = [req EXCEPT ![r] = new]
               /\ new.kind = req[r].kind /\ new.new = req[r].new /\ new.made = req[r].made
               /\ new.step = req[r].step + 1
  <2>1. req[r] \in RequestType /\ req \in [Requests -> RequestType]
    BY FlowBefore DEF FlowInv, IInv
  <2>2. CASE NextStep(r)
    <3> DEFINE new == [req[r] EXCEPT !.step = @ + 1]
    <3>1. req' = [req EXCEPT ![r] = new]
      BY <2>1, <2>2 DEF NextStep
    <3>2. new.kind = req[r].kind /\ new.new = req[r].new /\ new.made = req[r].made
          /\ new.step = req[r].step + 1
      BY <2>1 DEF RequestType
    <3> QED BY <3>1, <3>2
  <2>3. CASE NewSession(r)
    <3> DEFINE new == [req[r] EXCEPT !.step = @ + 1, !.gave = FALSE]
    <3>1. req' = [req EXCEPT ![r] = new]
      BY <2>1, <2>3 DEF NewSession
    <3>2. new.kind = req[r].kind /\ new.new = req[r].new /\ new.made = req[r].made
          /\ new.step = req[r].step + 1
      BY <2>1 DEF RequestType
    <3> QED BY <3>1, <3>2
  <2>4. CASE SetTenant(r)
    <3> DEFINE new == [req[r] EXCEPT !.step = @ + 1, !.gave = FALSE,
                                     !.var = IF Op(r) = "set" THEN req[r].home ELSE Unset]
    <3>1. req' = [req EXCEPT ![r] = new]
      BY <2>1, <2>4 DEF SetTenant
    <3>2. new.kind = req[r].kind /\ new.new = req[r].new /\ new.made = req[r].made
          /\ new.step = req[r].step + 1
      BY <2>1 DEF RequestType
    <3> QED BY <3>1, <3>2
  <2>5. CASE Write(r)
    <3>1. PICK row : req' = [req EXCEPT ![r].step = @ + 1, ![r].pend = @ \cup {row}]
      BY <2>5 DEF Write
    <3> DEFINE new == [req[r] EXCEPT !.step = @ + 1, !.pend = @ \cup {row}]
    <3>2. req' = [req EXCEPT ![r] = new]
      BY <2>1, <3>1
    <3>3. new.kind = req[r].kind /\ new.new = req[r].new /\ new.made = req[r].made
          /\ new.step = req[r].step + 1
      BY <2>1 DEF RequestType
    <3> QED BY <3>2, <3>3
  <2> QED BY <2>2, <2>3, <2>4, <2>5 DEF Bind, Query, Enter, Leave, Close, Forget
<1>4. PICK new : /\ req' = [req EXCEPT ![r] = new]
                 /\ new.kind = req[r].kind /\ new.new = req[r].new /\ new.made = req[r].made
                 /\ new.step = req[r].step + 1
  BY <1>3
<1> QED BY <1>1, <1>2, <1>4, AsideFlow

LEMMA SkipFlow ==
    ASSUME FlowInv, IInv', NEW r \in Requests, Cached(r) \/ Probe(r)
    PROVE  FlowInv'
<1>1. CASE Fails(r)
  BY <1>1, FailsFlow
<1>2. ASSUME NEW n \in {1, 4, 5}, req' = [req EXCEPT ![r].step = @ + n],
             UNCHANGED <<account, ready, jar>>
      PROVE  FlowInv'
  <2> DEFINE new == [req[r] EXCEPT !.step = @ + n]
  <2>1. req' = [req EXCEPT ![r] = new]
    BY <1>2 DEF FlowInv, IInv
  <2>2. new.kind = req[r].kind /\ new.new = req[r].new /\ new.made = req[r].made
        /\ new.step = req[r].step + n /\ new.step \in Nat
    BY FlowBefore DEF RequestType
  <2>3. Op(r) \in {"cached", "probe"} /\ Op(r) \notin SignInOps
    BY DEF Cached, Probe, SignInOps
  <2> HIDE DEF new
  <2> QED BY <1>2, <2>1, <2>2, <2>3, AsideFlow
<1> QED BY <1>1, <1>2 DEF Cached, Probe, NextStep

LEMMA LookupFlow ==
    ASSUME FlowInv, IInv', NEW r \in Requests, Lookup(r)
    PROVE  FlowInv'
<1>1. Op(r) = "lookup" /\ UNCHANGED <<account, ready, jar>>
  BY DEF Lookup
<1>2. req[r] \in RequestType /\ req \in [Requests -> RequestType]
  BY FlowBefore DEF FlowInv, IInv
<1>3. \/ req[r].kind \in SignIns /\ First[req[r].kind] \in Nat /\ req[r].step = First[req[r].kind]
      \/ req[r].kind \notin SignIns /\ req[r].kind = "auth_refresh" /\ req[r].step = 1
  BY <1>1, FlowBefore DEF Course, SignIns
<1>4. req[r].new = {} /\ req[r].made = {}
  BY <1>3, FlowBefore, SMT DEF FlowOf
<1>5. ASSUME NEW n \in {1, 2}, n = (IF req[r].kind \in SignIns THEN 1 ELSE 2),
             req' = [req EXCEPT ![r].step = @ + n]
      PROVE  FlowInv'
  <2> DEFINE new == [req[r] EXCEPT !.step = @ + n]
  <2>1. req' = [req EXCEPT ![r] = new]
    BY <1>2, <1>5
  <2>2. new.kind = req[r].kind /\ new.new = {} /\ new.made = {} /\ new.step = req[r].step + n
    BY <1>2, <1>4 DEF RequestType
  <2>3. FlowOf(new, account')
    <3>1. CASE req[r].kind \in SignIns /\ First[req[r].kind] \in Nat /\ req[r].step = First[req[r].kind]
      <4>1. new.step = First[new.kind] + 1 /\ new.kind # "auth_refresh"
        BY <1>5, <2>2, <3>1 DEF SignIns
      <4>2. new.step \notin {First[new.kind] + 2, First[new.kind] + 3, First[new.kind] + 4}
        BY <2>2, <3>1, <4>1, SMT
      <4> QED BY <2>2, <4>1, <4>2 DEF FlowOf
    <3>2. CASE req[r].kind \notin SignIns /\ req[r].step = 1
      BY <1>5, <2>2, <3>2, SMT DEF FlowOf
    <3> QED BY <1>3, <3>1, <3>2
  <2> HIDE DEF new
  <2> QED BY <1>1, <2>1, <2>3, StepFlow
<1>6. ASSUME NEW a \in AccountOf(req[r].who), NEW n \in {1, 3},
             n = (IF req[r].kind \in SignIns THEN 3 ELSE 1),
             req' = [req EXCEPT ![r].step = @ + n, ![r].sign = a.schema]
      PROVE  FlowInv'
  <2> DEFINE new == [req[r] EXCEPT !.step = @ + n, !.sign = a.schema]
  <2>1. req' = [req EXCEPT ![r] = new]
    BY <1>2, <1>6
  <2>2. new.kind = req[r].kind /\ new.new = {} /\ new.made = {} /\ new.step = req[r].step + n
        /\ new.who = req[r].who /\ new.sign = a.schema
    BY <1>2, <1>4 DEF RequestType
  <2>3. Own(new) \in account
    <3>1. a \in account /\ a.who = req[r].who /\ account \subseteq Account
      BY DEF AccountOf, FlowInv, IInv, Rest
    <3>2. a = [who |-> a.who, schema |-> a.schema]
      BY <3>1 DEF Account
    <3> QED BY <2>2, <3>1, <3>2 DEF Own
  <2>4. new.kind \in SignIns => new.step \in {First[new.kind] + 3, First[new.kind] + 4}
    BY <1>3, <1>6, <2>2, SMT
  <2>5. FlowOf(new, account')
    BY <1>1, <2>2, <2>3, <2>4 DEF FlowOf
  <2> HIDE DEF new
  <2> QED BY <1>1, <2>1, <2>5, StepFlow
<1>7. CASE AccountOf(req[r].who) = {}
  <2>1. PICK n \in {1, 2} : /\ n = (IF req[r].kind \in SignIns THEN 1 ELSE 2)
                            /\ req' = [req EXCEPT ![r].step = @ + n]
    BY <1>7, Zenon DEF Lookup
  <2> QED BY <2>1, <1>5
<1>8. CASE AccountOf(req[r].who) # {}
  <2>1. PICK a \in AccountOf(req[r].who) :
           req' = [req EXCEPT ![r].step = @ + (IF req[r].kind \in SignIns THEN 3 ELSE 1),
                              ![r].sign = a.schema]
    BY <1>8, Zenon DEF Lookup
  <2>2. CASE req[r].kind \in SignIns
    BY <2>1, <2>2, <1>6
  <2>3. CASE req[r].kind \notin SignIns
    BY <2>1, <2>3, <1>6
  <2> QED BY <2>2, <2>3
<1> QED BY <1>7, <1>8

LEMMA InsertFlow ==
    ASSUME FlowInv, IInv', NEW r \in Requests, InsertAccount(r)
    PROVE  FlowInv'
<1>1. CASE Fails(r)
  BY <1>1, FailsFlow
<1> DEFINE add == {[who |-> req[r].who, schema |-> req[r].sign]}
<1>2. CASE /\ req' = [req EXCEPT ![r].step = @ + 1, ![r].new = add]
           /\ UNCHANGED <<account, ready, jar, holder, info, loop, rows, left>>
  <2> DEFINE new == [req[r] EXCEPT !.step = @ + 1, !.new = add]
  <2>1. req[r].kind \in SignIns /\ First[req[r].kind] \in Nat
        /\ req[r].step = First[req[r].kind] + 1
    BY FlowBefore DEF InsertAccount, Course
  <2>2. req[r].made = {}
    BY <2>1, FlowBefore, SMT DEF FlowOf
  <2>3. /\ new.kind = req[r].kind /\ new.new = {Own(req[r])} /\ new.made = {}
        /\ new.step = req[r].step + 1 /\ Own(new) = Own(req[r])
    BY <2>2, FlowBefore DEF RequestType, Own
  <2>4. new.step = First[new.kind] + 2
    BY <2>1, <2>3, SMT
  <2>5. FlowOf(new, account')
    BY <2>1, <2>3, <2>4 DEF FlowOf
  <2>6. req' = [req EXCEPT ![r] = new]
    BY <1>2 DEF FlowInv, IInv
  <2> HIDE DEF new
  <2> QED BY <1>2, <2>5, <2>6, StepFlow
<1> QED BY <1>1, <1>2, Zenon DEF InsertAccount

LEMMA ProvisionFlow ==
    ASSUME FlowInv, IInv', NEW r \in Requests, Provision(r)
    PROVE  FlowInv'
<1>1. CASE Fails(r)
  BY <1>1, FailsFlow
<1>2. CASE /\ req' = [req EXCEPT ![r].step = @ + 1, ![r].made = {req[r].sign}]
           /\ UNCHANGED <<account, ready, jar, holder, info, loop, rows, left>>
  <2> DEFINE new == [req[r] EXCEPT !.step = @ + 1, !.made = {req[r].sign}]
  <2>1. req[r].kind \in SignIns /\ First[req[r].kind] \in Nat
        /\ req[r].step = First[req[r].kind] + 2
    BY FlowBefore DEF Provision, Course
  <2>2. req[r].new = {Own(req[r])}
    BY <2>1, FlowBefore, SMT DEF FlowOf
  <2>3. /\ new.kind = req[r].kind /\ new.new = {Own(req[r])} /\ new.made = {new.sign}
        /\ new.step = req[r].step + 1 /\ Own(new) = Own(req[r])
    BY <2>2, FlowBefore DEF RequestType, Own
  <2>4. new.step = First[new.kind] + 3
    BY <2>1, <2>3, SMT
  <2>5. FlowOf(new, account')
    BY <2>1, <2>3, <2>4 DEF FlowOf
  <2>6. req' = [req EXCEPT ![r] = new]
    BY <1>2 DEF FlowInv, IInv
  <2> HIDE DEF new
  <2> QED BY <1>2, <2>5, <2>6, StepFlow
<1> QED BY <1>1, <1>2, Zenon DEF Provision

LEMMA CommitFlow ==
    ASSUME FlowInv, IInv', NEW r \in Requests, Commit(r)
    PROVE  FlowInv'
<1> DEFINE new == [req[r] EXCEPT !.step = @ + 1, !.gave = TRUE,
                                 !.pend = {}, !.new = {}, !.made = {}]
<1>1. /\ req' = [req EXCEPT ![r] = new] /\ account' = account \cup req[r].new
      /\ ready' = ready \cup req[r].made /\ jar' = jar
  BY DEF Commit, FlowInv, IInv
<1>2. /\ new.kind = req[r].kind /\ new.new = {} /\ new.made = {} /\ Own(new) = Own(req[r])
      /\ new.step = req[r].step + 1
  BY FlowBefore DEF RequestType, Own
<1>3. CASE req[r].kind \in SignIns
  <2>1. First[req[r].kind] \in Nat /\ req[r].step = First[req[r].kind] + 3
    BY <1>3, FlowBefore DEF Commit, Course
  <2>2. \/ req[r].new = {} /\ Own(req[r]) \in account
        \/ req[r].new = {Own(req[r])} /\ req[r].made = {req[r].sign}
    BY <1>3, <2>1, FlowBefore, SMT DEF FlowOf
  <2>3. Own(new) \in account' /\ \A a \in account' \ account : a.schema \in ready'
    BY <1>1, <1>2, <2>2 DEF Own
  <2>4. new.step = First[new.kind] + 4
    BY <1>2, <2>1, SMT
  <2>5. FlowOf(new, account')
    BY <1>2, <2>3, <2>4 DEF FlowOf
  <2> HIDE DEF new
  <2> QED BY <1>1, <2>3, <2>5, StepFlow
<1>4. CASE req[r].kind \notin SignIns
  <2>1. req[r].new = {}
    BY <1>4, FlowBefore DEF FlowOf
  <2>2. req[r].kind = "auth_refresh" => req[r].step # 1
    BY FlowBefore DEF Course, Commit
  <2>3. new.kind = "auth_refresh" => new.step # 2
    BY <1>2, <2>2, FlowBefore, SMT
  <2>4. FlowOf(new, account')
    BY <1>2, <1>4, <2>3 DEF FlowOf
  <2> HIDE DEF new
  <2> QED BY <1>1, <2>1, <2>4, StepFlow
<1> QED BY <1>3, <1>4

LEMMA AnswerFlow ==
    ASSUME FlowInv, IInv', NEW r \in Requests, Answer(r)
    PROVE  FlowInv'
<1> DEFINE new == [req[r] EXCEPT !.step = @ + 1]
<1>1. req' = [req EXCEPT ![r] = new] /\ UNCHANGED <<account, ready>>
  BY DEF Answer, NextStep, FlowInv, IInv
<1>2. /\ new.kind = req[r].kind /\ new.new = req[r].new /\ new.made = req[r].made
      /\ new.step = req[r].step + 1
  BY FlowBefore DEF RequestType
<1>3. \/ /\ req[r].kind \in SignIns /\ req[r].kind # "auth_refresh"
         /\ First[req[r].kind] \in Nat /\ req[r].step = First[req[r].kind] + 4
      \/ req[r].kind \notin SignIns /\ req[r].kind = "auth_refresh" /\ req[r].step = 2
  BY FlowBefore DEF Course, Answer, SignIns
<1>4. req[r].new = {} /\ req[r].made = {} /\ Own(req[r]) \in account
  BY <1>3, FlowBefore, SMT DEF FlowOf
<1>5. FlowOf(new, account')
  <2>1. CASE /\ req[r].kind \in SignIns /\ req[r].kind # "auth_refresh"
             /\ First[req[r].kind] \in Nat /\ req[r].step = First[req[r].kind] + 4
    <3>1. new.step \notin {First[new.kind] + 2, First[new.kind] + 3, First[new.kind] + 4}
      BY <1>2, <2>1, SMT
    <3> QED BY <1>2, <1>4, <2>1, <3>1 DEF FlowOf
  <2>2. CASE req[r].kind \notin SignIns /\ req[r].step = 2
    <3>1. new.step # 2
      BY <1>2, <2>2, SMT
    <3> QED BY <1>2, <1>4, <2>2, <3>1 DEF FlowOf
  <2> QED BY <1>3, <2>1, <2>2
<1> HIDE DEF new
<1>6. \E b \in BOOLEAN : jar' = [jar EXCEPT ![req[r].who] = [access |-> req[r].sign, refresh |-> b]]
  <2>1. jar \in [Identities -> [access : Schemas \cup {Unset}, refresh : BOOLEAN]]
    BY DEF FlowInv, IInv, Rest
  <2>2. CASE req[r].kind \in SignIns
    BY <2>2, Zenon DEF Answer
  <2>3. CASE req[r].kind \notin SignIns /\ req[r].who \in Identities
    <3>1. jar[req[r].who].refresh \in BOOLEAN
      BY <2>1, <2>3
    <3> QED BY <2>3, <3>1, Zenon DEF Answer
  <2>4. CASE req[r].who \notin Identities
    <3>1. req[r].kind # "idle"
      BY <1>3 DEF SignIns
    <3> QED BY <2>4, <3>1 DEF FlowInv, IInv, Wired
  <2> QED BY <2>2, <2>3, <2>4
<1> QED BY <1>1, <1>4, <1>5, <1>6, StepFlow

LEMMA NextFlow == FlowInv /\ [Next]_vars => FlowInv'
<1> SUFFICES ASSUME FlowInv, [Next]_vars PROVE FlowInv'
  OBVIOUS
<1>1. IInv'
  BY NextIInv DEF FlowInv
<1>2. CASE Client
  BY <1>2, ClientFlow
<1>3. ASSUME NEW r \in Requests, Server(r) PROVE FlowInv'
  <2>1. CASE PoolTimeout(r)
    BY <1>1, <2>1, FailsFlow DEF PoolTimeout
  <2>2. CASE Done(r)
    BY <1>1, <2>2, IdleFlows, StepFlow DEF Done
  <2> QED BY <1>1, <1>3, <2>1, <2>2, OtherFlow, SkipFlow, LookupFlow, InsertFlow, ProvisionFlow,
             CommitFlow, AnswerFlow DEF Server
<1>4. CASE UNCHANGED vars
  BY <1>1, <1>4 DEF FlowInv, vars, TokenNamesAccount, AccountOf
<1> QED BY <1>2, <1>3, <1>4 DEF Next
-----------------------------------------------------------------------------
(************************ writes of a bound session ************************)

\* The steps of each handler at which its session is bound and has not given
\* its connection back, at which the context variable holds its tenant, and
\* at which the session has given its connection back since it was bound.
Bound == [
    list_notes |-> {2, 3}, put_note |-> {2, 3, 4}, update_preferences |-> {2, 3, 4},
    process_note |-> {2, 3, 4, 8, 9, 11, 12, 20, 21},
    import_note |-> {2, 3, 9, 10, 18, 19}, get_concept_insight |-> 2 .. 8,
    auth_refresh |-> {}, auth_logout |-> {}, dev_login |-> {}, oauth_callback |-> {},
    upload_media |-> 2 .. 6, backfill |-> {}, idle |-> {}]

HomeVar == [
    list_notes |-> {}, put_note |-> {}, update_preferences |-> {},
    process_note |-> 7 .. 18, import_note |-> 8 .. 16, get_concept_insight |-> {},
    auth_refresh |-> {}, auth_logout |-> {}, dev_login |-> {}, oauth_callback |-> {},
    upload_media |-> {}, backfill |-> 2 .. 7, idle |-> {}]

GaveBack == [
    list_notes |-> {}, put_note |-> {}, update_preferences |-> {},
    process_note |-> {}, import_note |-> {4, 5}, get_concept_insight |-> {},
    auth_refresh |-> {}, auth_logout |-> {}, dev_login |-> {}, oauth_callback |-> {},
    upload_media |-> {}, backfill |-> {}, idle |-> {}]

Nowhere(k, n) == n \notin Bound[k] /\ n \notin HomeVar[k] /\ n \notin GaveBack[k]

\* What the proofs use of these steps: how each begins and what ends it.
Standing(k, n) ==
    /\ Nowhere(k, 1)
    /\ OpAt(k, n) \in Tables => ~Nowhere(k, n)
    /\ n + 1 \in Bound[k] =>
          OpAt(k, n) = "bind" \/ (n \in Bound[k] /\ OpAt(k, n) \notin Releases)
    /\ n + 1 \in HomeVar[k] =>
          OpAt(k, n) = "set" \/ (n \in HomeVar[k] /\ OpAt(k, n) # "clear")
    /\ n + 1 \in GaveBack[k] =>
          \/ OpAt(k, n) = "commit"
          \/ n \in GaveBack[k] /\ OpAt(k, n) \notin {"bind", "set", "clear", "close", "end"}
    /\ OpAt(k, n) = "cached" => Nowhere(k, n + 5)
    /\ OpAt(k, n) = "probe" => Nowhere(k, n + 4) \/ k = "put_note"
    /\ OpAt(k, n) = "lookup" => Nowhere(k, n + 1) /\ Nowhere(k, n + 2) /\ Nowhere(k, n + 3)

LEMMA Standings == \A k \in Kinds, n \in Nat \ {0} : Standing(k, n)
<1> SUFFICES ASSUME NEW k \in Kinds, NEW n \in Nat \ {0} PROVE Standing(k, n)
  OBVIOUS
<1> USE DEF Standing, Nowhere, OpAt, Bound, HomeVar, GaveBack, Releases, Tables
<1>1. CASE k = "list_notes" BY <1>1, SMT DEF Handlers, ListNotes
<1>2. CASE k = "put_note" BY <1>2, SMT DEF Handlers, PutNote
<1>3. CASE k = "update_preferences" BY <1>3, SMT DEF Handlers, UpdatePreferences
<1>4. CASE k = "process_note" BY <1>4, SMTT(60) DEF Handlers, ProcessNote, RunProcessingJob
<1>5. CASE k = "import_note" BY <1>5, SMTT(60) DEF Handlers, ImportNote, RunProcessing
<1>6. CASE k = "get_concept_insight" BY <1>6, SMT DEF Handlers, GetConceptInsight
<1>7. CASE k = "auth_refresh" BY <1>7, SMT DEF Handlers, AuthRefresh
<1>8. CASE k = "auth_logout" BY <1>8, SMT DEF Handlers, AuthLogout
<1>9. CASE k = "dev_login" BY <1>9, SMT DEF Handlers, DevLogin
<1>10. CASE k = "oauth_callback" BY <1>10, SMT DEF Handlers, OAuthCallback
<1>11. CASE k = "backfill" BY <1>11, SMT DEF Handlers, ProcessTenant
<1>12. CASE k = "idle" BY <1>12, SMT DEF Handlers
<1>13. CASE k = "upload_media" BY <1>13, SMT DEF Handlers, UploadMedia
<1> QED BY <1>1, <1>2, <1>3, <1>4, <1>5, <1>6, <1>7, <1>8, <1>9, <1>10, <1>11, <1>12,
            <1>13 DEF Kinds, Handlers

\* A request as it is routed at its step, given who holds what with which tag.
RoutedOn(r, x, held, tags) ==
    /\ x.step \in Bound[x.kind] => \E c \in Conns : held[c] = r /\ tags[c] = x.home
    /\ x.step \in HomeVar[x.kind] => x.var = x.home
    /\ x.step \in GaveBack[x.kind] => x.gave = TRUE
    /\ \A y \in x.pend : ~y.gave => y.schema = y.home

\* A session never has two connections at a time.
OneEach == \A c, d \in Conns : holder[c] \in Requests /\ holder[c] = holder[d] => c = d

RouteInv ==
    /\ IInv
    /\ \A r \in Requests : RoutedOn(r, req[r], holder, info)
    /\ OneEach
    /\ BoundWritesAtHome

LEMMA IdleRouted == \A r, held, tags : RoutedOn(r, Idle, held, tags)
BY SMT DEF RoutedOn, Idle, Bound, HomeVar, GaveBack

LEMMA InitRoute == Init => RouteInv
<1> SUFFICES ASSUME Init PROVE RouteInv
  OBVIOUS
<1>1. \A r \in Requests : RoutedOn(r, req[r], holder, info)
  BY IdleRouted DEF Init
<1>2. OneEach /\ BoundWritesAtHome
  BY TenancyAssumption DEF Init, OneEach, BoundWritesAtHome
<1> QED BY <1>1, <1>2, InitIInv DEF RouteInv

\* What a step of r does to connections: those of the others are left alone.
Apart(r) ==
    /\ OneEach'
    /\ \A q \in Requests \ {r}, c \in Conns :
          holder[c] = q => holder'[c] = q /\ info'[c] = info[c]

LEMMA StepRoute ==
    ASSUME RouteInv, IInv', NEW r \in Requests, NEW new,
           req' = [req EXCEPT ![r] = new], RoutedOn(r, new, holder', info'),
           Apart(r), rows' \subseteq rows \cup req[r].pend
    PROVE  RouteInv'
<1>1. req'[r] = new /\ \A q \in Requests \ {r} : req'[q] = req[q]
  BY DEF RouteInv, IInv
<1>2. ASSUME NEW q \in Requests PROVE RoutedOn(q, req'[q], holder', info')
  <2>1. CASE q = r
    BY <1>1, <2>1
  <2>2. CASE q # r
    BY <1>1, <2>2 DEF RouteInv, RoutedOn, Apart
  <2> QED BY <2>1, <2>2
<1>3. BoundWritesAtHome'
  BY DEF RouteInv, RoutedOn, BoundWritesAtHome
<1>4. (\A q \in Requests : RoutedOn(q, req[q], holder, info))'
  BY <1>2
<1> QED BY <1>3, <1>4 DEF RouteInv, Apart

LEMMA RouteBefore ==
    ASSUME RouteInv, NEW r \in Requests
    PROVE  /\ IInv /\ req[r] \in RequestType /\ req[r].step \in Nat \ {0} /\ req[r].kind \in Kinds
           /\ Standing(req[r].kind, req[r].step) /\ RoutedOn(r, req[r], holder, info)
           /\ Op(r) = OpAt(req[r].kind, req[r].step)
           /\ holder \in [Conns -> Requests \cup {Free}]
           /\ info \in [Conns -> Schemas \cup {Unset}]
<1>1. IInv
  BY DEF RouteInv
<1>2. req[r] \in RequestType /\ req[r].step \in Nat \ {0} /\ Op(r) = OpAt(req[r].kind, req[r].step)
  BY <1>1, Before
<1>3. req[r].kind \in Kinds
  BY <1>2 DEF RequestType
<1> QED BY <1>1, <1>2, <1>3, Standings DEF RouteInv, IInv, Rest

LEMMA KeptApart == ASSUME RouteInv, NEW r \in Requests, UNCHANGED <<holder, info>> PROVE Apart(r)
BY DEF RouteInv, OneEach, Apart

LEMMA TakenApart ==
    ASSUME RouteInv, NEW r \in Requests, NEW c \in Conns, Checkout(r, c),
           \/ info' = info
           \/ \E tag : info' = [info EXCEPT ![c] = tag]
    PROVE  /\ Apart(r) /\ holder'[c] = r
           /\ Holds(r) # {} => holder[c] = r /\ holder' = holder
<1>1. holder' = [holder EXCEPT ![c] = r] /\ holder \in [Conns -> Requests \cup {Free}]
      /\ info \in [Conns -> Schemas \cup {Unset}]
  BY RouteBefore DEF Checkout
<1>2. \/ holder[c] = r
      \/ holder[c] = Free /\ \A d \in Conns : holder[d] # r
  BY DEF Checkout, Usable, Holds, Spare
<1>3. OneEach'
  BY <1>1, <1>2 DEF OneEach, RouteInv
<1>4. \A q \in Requests \ {r}, d \in Conns : holder[d] = q => holder'[d] = q /\ info'[d] = info[d]
  BY <1>1, <1>2, TenancyAssumption
<1> QED BY <1>1, <1>2, <1>3, <1>4 DEF Apart, Holds

LEMMA GivenApart == ASSUME RouteInv, NEW r \in Requests, Checkin(r) PROVE Apart(r)
<1>1. holder \in [Conns -> Requests \cup {Free}]
  BY RouteBefore
<1>2. \A c \in Conns : /\ holder'[c] = (IF holder[c] = r THEN Free ELSE holder[c])
                       /\ info'[c] = (IF holder[c] = r THEN Unset ELSE info[c])
  BY DEF Checkin
<1>3. OneEach'
  BY <1>2, TenancyAssumption DEF OneEach, RouteInv
<1> QED BY <1>2, <1>3 DEF Apart

\* A step that neither binds, releases nor sets: what holds goes on holding.
LEMMA OnwardRouted ==
    ASSUME RouteInv, NEW r \in Requests, NEW new,
           new.kind = req[r].kind, new.home = req[r].home, new.var = req[r].var,
           new.gave = req[r].gave, new.step = req[r].step + 1,
           \A y \in new.pend : ~y.gave => y.schema = y.home,
           Op(r) \notin Releases \cup {"bind", "set", "clear"},
           NEW held, NEW tags,
           \A c \in Conns : holder[c] = r => held[c] = r /\ tags[c] = info[c]
    PROVE  RoutedOn(r, new, held, tags)
<1> DEFINE k == req[r].kind
           n == req[r].step
<1>1. /\ OpAt(k, n) \notin Releases \cup {"bind", "set", "clear"}
      /\ Standing(k, n) /\ RoutedOn(r, req[r], holder, info)
  BY RouteBefore
<1>2. n + 1 \in Bound[k] => n \in Bound[k]
  BY <1>1 DEF Standing
<1>3. n + 1 \in HomeVar[k] => n \in HomeVar[k]
  BY <1>1 DEF Standing
<1>4. n + 1 \in GaveBack[k] => n \in GaveBack[k]
  BY <1>1 DEF Standing, Releases
<1>5. new.kind = k /\ new.step = n + 1
  OBVIOUS
<1> HIDE DEF k, n
<1> QED BY <1>1, <1>2, <1>3, <1>4, <1>5, Zenon DEF RoutedOn, k, n

LEMMA OnwardRoute ==
    ASSUME RouteInv, IInv', NEW r \in Requests,
           \/ Query(r) \/ Enter(r) \/ Leave(r) \/ Answer(r) \/ Forget(r)
    PROVE  RouteInv'
<1> DEFINE new == [req[r] EXCEPT !.step = @ + 1]
<1>1. req' = [req EXCEPT ![r] = new] /\ rows' = rows
  BY RouteBefore DEF Query, Enter, Leave, Answer, Forget, NextStep, IInv
<1>2. /\ new.kind = req[r].kind /\ new.home = req[r].home /\ new.var = req[r].var
      /\ new.gave = req[r].gave /\ new.step = req[r].step + 1 /\ new.pend = req[r].pend
  BY RouteBefore DEF RequestType
<1>3. Op(r) \notin Releases \cup {"bind", "set", "clear"}
  BY DEF Query, Enter, Leave, Answer, Forget, Releases
<1>4. \A y \in req[r].pend : ~y.gave => y.schema = y.home
  BY RouteBefore DEF RoutedOn
<1> HIDE DEF new
<1>5. Apart(r) /\ \A c \in Conns : holder[c] = r => holder'[c] = r /\ info'[c] = info[c]
  <2>1. CASE Query(r)
    <3>1. info' = info /\ \E c \in Conns : Checkout(r, c)
      BY <2>1 DEF Query
    <3> QED BY <3>1, TakenApart DEF Holds
  <2>2. CASE UNCHANGED <<holder, info>>
    BY <2>2, KeptApart
  <2> QED BY <2>1, <2>2 DEF Enter, Leave, Answer, Forget
<1>6. RoutedOn(r, new, holder', info')
  BY <1>2, <1>3, <1>4, <1>5, OnwardRouted
<1> QED BY <1>1, <1>5, <1>6, StepRoute

LEMMA BindRoute == ASSUME RouteInv, IInv', NEW r \in Requests, Bind(r) PROVE RouteInv'
<1> DEFINE new == [req[r] EXCEPT !.step = @ + 1, !.gave = FALSE]
<1>1. req' = [req EXCEPT ![r] = new] /\ rows' = rows
  BY RouteBefore, NewSessionIs DEF Bind
<1>2. /\ new.kind = req[r].kind /\ new.home = req[r].home /\ new.var = req[r].var
      /\ new.step = req[r].step + 1 /\ new.pend = req[r].pend
  BY RouteBefore DEF RequestType
<1> HIDE DEF new
<1>3. PICK c \in Conns : Checkout(r, c) /\ info' = [info EXCEPT ![c] = req[r].home]
  BY DEF Bind
<1>4. Apart(r) /\ holder'[c] = r /\ info'[c] = req[r].home
  BY <1>3, TakenApart, RouteBefore
<1>5. OpAt(req[r].kind, req[r].step) = "bind"
  BY RouteBefore DEF Bind
<1>6. RoutedOn(r, new, holder', info')
  BY <1>2, <1>4, <1>5, RouteBefore, ZenonT(60) DEF RoutedOn, Standing
<1> QED BY <1>1, <1>4, <1>6, StepRoute

LEMMA SetRoute == ASSUME RouteInv, IInv', NEW r \in Requests, SetTenant(r) PROVE RouteInv'
<1> DEFINE var == IF Op(r) = "set" THEN req[r].home ELSE Unset
           new == [req[r] EXCEPT !.step = @ + 1, !.gave = FALSE, !.var = var]
<1>1. req' = [req EXCEPT ![r] = new] /\ rows' = rows /\ UNCHANGED <<holder, info>>
  BY RouteBefore DEF SetTenant, IInv
<1>2. /\ new.kind = req[r].kind /\ new.home = req[r].home /\ new.var = var
      /\ new.step = req[r].step + 1 /\ new.pend = req[r].pend
  BY RouteBefore DEF RequestType
<1> HIDE DEF new
<1>3. /\ OpAt(req[r].kind, req[r].step) \in {"set", "clear"}
      /\ OpAt(req[r].kind, req[r].step) = "set" => var = req[r].home
  BY RouteBefore DEF SetTenant
<1> HIDE DEF var
<1> DEFINE k == req[r].kind
           n == req[r].step
<1>4. Standing(k, n) /\ RoutedOn(r, req[r], holder, info)
  BY RouteBefore
<1>5. n + 1 \in Bound[k] => n \in Bound[k]
  BY <1>3, <1>4 DEF Standing
<1>6. n + 1 \in HomeVar[k] => var = req[r].home
  BY <1>3, <1>4 DEF Standing
<1>7. n + 1 \notin GaveBack[k]
  BY <1>3, <1>4 DEF Standing
<1>8. new.kind = k /\ new.step = n + 1
  BY <1>2
<1> HIDE DEF k, n
<1>9. RoutedOn(r, new, holder', info')
  BY <1>1, <1>2, <1>4, <1>5, <1>6, <1>7, <1>8, Zenon DEF RoutedOn, k, n
<1> QED BY <1>1, <1>9, KeptApart, StepRoute

\* A statement of a session that has not given its connection back since it
\* was bound leads to its user's schema.
LEMMA TargetHome ==
    ASSUME RouteInv, NEW r \in Requests, Op(r) \in Tables, req[r].gave # TRUE,
           NEW c \in Usable(r)
    PROVE  Target(r, c) = req[r].home
<1>1. req[r].home # Unset
  BY RouteBefore, Before DEF Program, Wired
<1>2. info[c] \in {Unset, req[r].home}
  BY RouteBefore, Before DEF Usable, Spare, Holds, IInv, Rest
<1>3. \/ req[r].step \in Bound[req[r].kind]
      \/ req[r].step \in HomeVar[req[r].kind]
  <2>1. OpAt(req[r].kind, req[r].step) \in Tables /\ Standing(req[r].kind, req[r].step)
    BY RouteBefore
  <2>2. ~Nowhere(req[r].kind, req[r].step)
    BY <2>1 DEF Standing
  <2>3. req[r].step \notin GaveBack[req[r].kind]
    BY RouteBefore DEF RoutedOn
  <2> QED BY <2>2, <2>3 DEF Nowhere
<1>4. CASE req[r].step \in Bound[req[r].kind]
  <2>1. PICK d \in Conns : holder[d] = r /\ info[d] = req[r].home
    BY <1>4, RouteBefore DEF RoutedOn
  <2>2. c = d
    BY <2>1 DEF Usable, Holds, RouteInv, OneEach
  <2> QED BY <1>1, <2>1, <2>2 DEF Target
<1>5. CASE req[r].step \in HomeVar[req[r].kind]
  BY <1>1, <1>2, <1>5, RouteBefore DEF RoutedOn, Target
<1> QED BY <1>3, <1>4, <1>5

LEMMA WriteRoute == ASSUME RouteInv, IInv', NEW r \in Requests, Write(r) PROVE RouteInv'
<1>1. PICK c \in Conns :
        /\ Checkout(r, c)
        /\ req' = [req EXCEPT ![r].step = @ + 1,
                              ![r].pend = @ \cup {[table |-> Op(r), by |-> req[r].kind,
                                   home |-> req[r].home, schema |-> Target(r, c),
                                   gave |-> req[r].gave]}]
  BY DEF Write
<1> DEFINE row == [table |-> Op(r), by |-> req[r].kind, home |-> req[r].home,
                   schema |-> Target(r, c), gave |-> req[r].gave]
           new == [req[r] EXCEPT !.step = @ + 1, !.pend = @ \cup {row}]
<1>2. Op(r) \in Tables /\ info' = info /\ rows' = rows
  BY DEF Write
<1>3. ~row.gave => row.schema = row.home
  <2>1. req[r].gave \in BOOLEAN
    BY RouteBefore DEF RequestType
  <2>2. /\ row.gave = req[r].gave
        /\ row.schema = Target(r, c) /\ row.home = req[r].home
    BY Zenon
  <2>3. req[r].gave # TRUE => Target(r, c) = req[r].home
    BY <1>1, <1>2, TargetHome DEF Checkout
  <2> HIDE DEF row
  <2> QED BY <2>1, <2>2, <2>3
<1>4. req' = [req EXCEPT ![r] = new]
  BY <1>1, RouteBefore DEF IInv
<1> HIDE DEF row
<1>5. /\ new.kind = req[r].kind /\ new.home = req[r].home /\ new.var = req[r].var
      /\ new.gave = req[r].gave /\ new.step = req[r].step + 1
      /\ new.pend = req[r].pend \cup {row}
  BY RouteBefore DEF RequestType
<1> HIDE DEF new
<1>6. \A y \in new.pend : ~y.gave => y.schema = y.home
  BY <1>3, <1>5, RouteBefore DEF RoutedOn
<1>7. Op(r) \notin Releases \cup {"bind", "set", "clear"}
  BY <1>2 DEF Tables, Releases
<1>8. Apart(r) /\ \A d \in Conns : holder[d] = r => holder'[d] = r /\ info'[d] = info[d]
  BY <1>1, <1>2, TakenApart DEF Holds
<1>9. RoutedOn(r, new, holder', info')
  BY <1>5, <1>6, <1>7, <1>8, OnwardRouted
<1> QED BY <1>2, <1>4, <1>8, <1>9, StepRoute

\* A release: what was pending is committed or forgotten.
LEMMA GivenRoute ==
    ASSUME RouteInv, IInv', NEW r \in Requests, Commit(r) \/ Close(r)
    PROVE  RouteInv'
<1> DEFINE k == req[r].kind
           n == req[r].step
<1>1. Checkin(r) /\ OpAt(k, n) \in Releases
  BY RouteBefore DEF Commit, Close, Releases
<1>4. Standing(k, n) /\ RoutedOn(r, req[r], holder, info)
  BY RouteBefore
<1>2. CASE Commit(r)
  <2> DEFINE new == [req[r] EXCEPT !.step = @ + 1, !.gave = TRUE,
                                   !.pend = {}, !.new = {}, !.made = {}]
  <2>1. req' = [req EXCEPT ![r] = new] /\ rows' = rows \cup req[r].pend
    BY <1>2, RouteBefore DEF Commit, IInv
  <2>2. /\ new.kind = req[r].kind /\ new.home = req[r].home /\ new.var = req[r].var
        /\ new.gave = TRUE /\ new.step = req[r].step + 1 /\ new.pend = {}
    BY RouteBefore DEF RequestType
  <2> HIDE DEF new
  <2>4. n + 1 \notin Bound[k]
    BY <1>1, <1>4 DEF Standing, Releases
  <2>5. n + 1 \in HomeVar[k] => n \in HomeVar[k]
    BY <1>1, <1>4 DEF Standing, Releases
  <2>6. new.kind = k /\ new.step = n + 1
    BY <2>2
  <2> HIDE DEF k, n
  <2>3. RoutedOn(r, new, holder', info')
    BY <2>2, <1>4, <2>4, <2>5, <2>6, Zenon DEF RoutedOn, k, n
  <2> QED BY <1>1, <2>1, <2>3, GivenApart, StepRoute
<1>3. CASE Close(r)
  <2> DEFINE new == [req[r] EXCEPT !.step = @ + 1, !.gave = FALSE]
  <2>1. req' = [req EXCEPT ![r] = new] /\ rows' = rows
    BY <1>3, RouteBefore, NewSessionIs DEF Close
  <2>2. /\ new.kind = req[r].kind /\ new.home = req[r].home /\ new.var = req[r].var
        /\ new.step = req[r].step + 1 /\ new.pend = req[r].pend
    BY RouteBefore DEF RequestType
  <2> HIDE DEF new
  <2>3. OpAt(req[r].kind, req[r].step) \in {"close", "end"}
    BY <1>3, RouteBefore DEF Close
  <2>5. n + 1 \notin Bound[k]
    BY <1>1, <2>3, <1>4 DEF Standing, Releases
  <2>6. n + 1 \in HomeVar[k] => n \in HomeVar[k]
    BY <2>3, <1>4 DEF Standing
  <2>7. n + 1 \notin GaveBack[k]
    BY <2>3, <1>4 DEF Standing
  <2>8. new.kind = k /\ new.step = n + 1
    BY <2>2
  <2> HIDE DEF k, n
  <2>4. RoutedOn(r, new, holder', info')
    BY <2>2, <1>4, <2>5, <2>6, <2>7, <2>8, Zenon DEF RoutedOn, k, n
  <2> QED BY <1>1, <2>1, <2>4, GivenApart, StepRoute
<1> QED BY <1>2, <1>3

LEMMA FailsRoute == ASSUME RouteInv, IInv', NEW r \in Requests, Fails(r) PROVE RouteInv'
BY IdleRouted, GivenApart, StepRoute DEF Fails

LEMMA DoneRoute == ASSUME RouteInv, IInv', NEW r \in Requests, Done(r) PROVE RouteInv'
BY IdleRouted, KeptApart, StepRoute DEF Done

\* A jump lands where nothing is asked of the request.
LEMMA JumpRouted ==
    ASSUME RouteInv, NEW r \in Requests, NEW new, NEW held, NEW tags,
           Nowhere(new.kind, new.step), new.pend = req[r].pend
    PROVE  RoutedOn(r, new, held, tags)
BY RouteBefore DEF RoutedOn, Nowhere

LEMMA SkipRoute ==
    ASSUME RouteInv, IInv', NEW r \in Requests, Cached(r) \/ Probe(r)
    PROVE  RouteInv'
<1>1. CASE Fails(r)
  BY <1>1, FailsRoute
<1>2. ASSUME NEW n \in {1, 4, 5}, req' = [req EXCEPT ![r].step = @ + n], rows' = rows,
             info' = info,
             \/ holder' = holder
             \/ \E c \in Conns : Checkout(r, c),
             n # 1 => Nowhere(req[r].kind, req[r].step + n)
      PROVE  RouteInv'
  <2> DEFINE new == [req[r] EXCEPT !.step = @ + n]
  <2>1. req' = [req EXCEPT ![r] = new]
    BY <1>2, RouteBefore DEF IInv
  <2>2. /\ new.kind = req[r].kind /\ new.home = req[r].home /\ new.var = req[r].var
        /\ new.gave = req[r].gave /\ new.step = req[r].step + n /\ new.pend = req[r].pend
    BY RouteBefore DEF RequestType
  <2> HIDE DEF new
  <2>3. Apart(r) /\ \A d \in Conns : holder[d] = r => holder'[d] = r /\ info'[d] = info[d]
    BY <1>2, KeptApart, TakenApart DEF Holds
  <2>4. Op(r) \notin Releases \cup {"bind", "set", "clear"}
    BY DEF Cached, Probe, Releases
  <2>5. \A y \in req[r].pend : ~y.gave => y.schema = y.home
    BY RouteBefore DEF RoutedOn
  <2>6. RoutedOn(r, new, holder', info')
    <3>1. CASE n = 1
      BY <2>2, <2>3, <2>4, <2>5, <3>1, OnwardRouted
    <3>2. CASE n # 1
      BY <1>2, <2>2, <3>2, JumpRouted
    <3> QED BY <3>1, <3>2
  <2> QED BY <1>2, <2>1, <2>3, <2>6, StepRoute
<1>3. CASE Cached(r) /\ ~Fails(r)
  <2>1. Nowhere(req[r].kind, req[r].step + 5)
    BY <1>3, RouteBefore DEF Cached, Standing
  <2> QED BY <1>2, <1>3, <2>1 DEF Cached, NextStep
<1>4. CASE Probe(r)
  <2>1. Nowhere(req[r].kind, req[r].step + 4) \/ req[r].kind = "put_note"
    BY <1>4, RouteBefore DEF Probe, Standing
  <2>2. \E n \in {1, 4} : req' = [req EXCEPT ![r].step = @ + n]
                          /\ (n = 4 => req[r].kind # "put_note")
    BY <1>4 DEF Probe, NextStep
  <2>3. rows' = rows /\ info' = info /\ holder' = holder
    BY <1>4 DEF Probe
  <2> QED BY <1>2, <2>1, <2>2, <2>3
<1> QED BY <1>1, <1>3, <1>4

\* Signing in writes to no tenant's table.
LEMMA SigningRoute ==
    ASSUME RouteInv, IInv', NEW r \in Requests, Lookup(r) \/ InsertAccount(r) \/ Provision(r)
    PROVE  RouteInv'
<1>1. CASE Fails(r)
  BY <1>1, FailsRoute
<1>2. CASE Lookup(r)
  <2>1. PICK n \in {1, 2, 3} : \E sign : req' = [req EXCEPT ![r].step = @ + n, ![r].sign = sign]
    <3>1. CASE AccountOf(req[r].who) = {}
      <4>1. PICK n \in {1, 2} : req' = [req EXCEPT ![r].step = @ + n]
        BY <1>2, <3>1, Zenon DEF Lookup
      <4> DEFINE far == [req[r] EXCEPT !.step = @ + n]
      <4>2. [far EXCEPT !.sign = req[r].sign] = far
        BY RouteBefore DEF RequestType
      <4>3. req' = [req EXCEPT ![r].step = @ + n, ![r].sign = req[r].sign]
        BY <4>1, <4>2, RouteBefore DEF IInv
      <4>4. n \in {1, 2, 3}
        OBVIOUS
      <4> QED BY <4>3, <4>4
    <3>2. CASE AccountOf(req[r].who) # {}
      <4>1. PICK a \in AccountOf(req[r].who) :
               req' = [req EXCEPT ![r].step = @ + (IF req[r].kind \in SignIns THEN 3 ELSE 1),
                                  ![r].sign = a.schema]
        BY <1>2, <3>2, Zenon DEF Lookup
      <4> QED BY <4>1
    <3> QED BY <3>1, <3>2
  <2>7. PICK sign : req' = [req EXCEPT ![r].step = @ + n, ![r].sign = sign]
    BY <2>1
  <2> DEFINE new == [req[r] EXCEPT !.step = @ + n, !.sign = sign]
  <2>2. req' = [req EXCEPT ![r] = new] /\ rows' = rows
    BY <1>2, <2>7, RouteBefore DEF Lookup, IInv
  <2>3. new.kind = req[r].kind /\ new.step = req[r].step + n /\ new.pend = req[r].pend
    BY RouteBefore DEF RequestType
  <2>4. Nowhere(req[r].kind, req[r].step + n)
    BY <1>2, RouteBefore DEF Lookup, Standing
  <2>5. Apart(r)
    <3>1. info' = info /\ \E c \in Conns : Checkout(r, c)
      BY <1>2 DEF Lookup
    <3> QED BY <3>1, TakenApart
  <2> HIDE DEF new
  <2>6. RoutedOn(r, new, holder', info')
    BY <2>3, <2>4, JumpRouted
  <2> QED BY <2>2, <2>5, <2>6, StepRoute
<1>3. ASSUME NEW add, NEW made,
             req' = [req EXCEPT ![r] = [req[r] EXCEPT !.step = @ + 1, !.new = add, !.made = made]],
             UNCHANGED <<holder, info, rows>>,
             Op(r) \in {"account", "provision"}
      PROVE  RouteInv'
  <2> DEFINE new == [req[r] EXCEPT !.step = @ + 1, !.new = add, !.made = made]
  <2>1. /\ new.kind = req[r].kind /\ new.home = req[r].home /\ new.var = req[r].var
        /\ new.gave = req[r].gave /\ new.step = req[r].step + 1 /\ new.pend = req[r].pend
    BY RouteBefore DEF RequestType
  <2>2. req' = [req EXCEPT ![r] = new]
    BY <1>3
  <2>3. \A y \in req[r].pend : ~y.gave => y.schema = y.home
    BY RouteBefore DEF RoutedOn
  <2>4. Op(r) \notin Releases \cup {"bind", "set", "clear"}
    BY <1>3 DEF Releases
  <2> HIDE DEF new
  <2>5. RoutedOn(r, new, holder', info')
    BY <1>3, <2>1, <2>3, <2>4, OnwardRouted
  <2> QED BY <1>3, <2>2, <2>5, KeptApart, StepRoute
<1>4. CASE InsertAccount(r) /\ ~Fails(r)
  <2> DEFINE add == {[who |-> req[r].who, schema |-> req[r].sign]}
  <2>1. /\ req' = [req EXCEPT ![r].step = @ + 1, ![r].new = add]
        /\ UNCHANGED <<account, ready, jar, holder, info, loop, rows, left>>
    BY <1>4, Zenon DEF InsertAccount
  <2> HIDE DEF add
  <2>2. req' = [req EXCEPT ![r] = [req[r] EXCEPT !.step = @ + 1, !.new = add,
                                                 !.made = req[r].made]]
    BY <2>1, RouteBefore, ZenonT(60) DEF IInv, RequestType
  <2> QED BY <1>3, <1>4, <2>1, <2>2 DEF InsertAccount
<1>5. CASE Provision(r) /\ ~Fails(r)
  <2>1. /\ req' = [req EXCEPT ![r].step = @ + 1, ![r].made = {req[r].sign}]
        /\ UNCHANGED <<account, ready, jar, holder, info, loop, rows, left>>
    BY <1>5, Zenon DEF Provision
  <2>2. req' = [req EXCEPT ![r] = [req[r] EXCEPT !.step = @ + 1, !.new = req[r].new,
                                                 !.made = {req[r].sign}]]
    BY <2>1, RouteBefore, ZenonT(60) DEF IInv, RequestType
  <2> QED BY <1>3, <1>5, <2>1, <2>2 DEF Provision
<1> QED BY <1>1, <1>2, <1>4, <1>5

LEMMA ClientRoute == RouteInv /\ Client => RouteInv'
<1> SUFFICES ASSUME RouteInv, Client PROVE RouteInv'
  OBVIOUS
<1>1. IInv'
  BY ClientIInv DEF RouteInv
<1>2. ASSUME NEW r \in Requests, NEW i, NEW w, NEW kind \in Kinds, NEW home, NEW sign,
             Arrive(r, i, w, kind, home, sign)
      PROVE  RouteInv'
  <2> DEFINE new == [Idle EXCEPT !.kind = kind, !.who = i, !.home = home, !.sign = sign,
                                 !.worker = w]
  <2>1. new.pend = {} /\ new.kind = kind /\ new.step = 1
    BY DEF Idle
  <2>2. req' = [req EXCEPT ![r] = new] /\ UNCHANGED <<holder, info, rows>>
    BY <1>2 DEF Arrive
  <2> HIDE DEF new
  <2>3. Nowhere(kind, 1)
    <3>1. Standing(kind, 1)
      BY Standings
    <3> QED BY <3>1 DEF Standing
  <2>4. RoutedOn(r, new, holder', info')
    BY <2>1, <2>3 DEF RoutedOn, Nowhere
  <2> QED BY <1>1, <2>2, <2>4, KeptApart, StepRoute
<1>3. {"auth_refresh", "auth_logout", "backfill"} \subseteq Kinds
  BY DEF Kinds, Handlers
<1> QED BY <1>2, <1>3 DEF Client, Authenticated, Login, Refresh, Logout, Backfill

LEMMA NextRoute == RouteInv /\ [Next]_vars => RouteInv'
<1> SUFFICES ASSUME RouteInv, [Next]_vars PROVE RouteInv'
  OBVIOUS
<1>1. IInv'
  BY NextIInv DEF RouteInv
<1>2. CASE Client
  BY <1>2, ClientRoute
<1>3. ASSUME NEW r \in Requests, Server(r) PROVE RouteInv'
  <2>1. CASE PoolTimeout(r)
    BY <1>1, <2>1, FailsRoute DEF PoolTimeout
  <2> QED BY <1>1, <1>3, <2>1, OnwardRoute, BindRoute, SetRoute, WriteRoute, GivenRoute, DoneRoute,
             SkipRoute, SigningRoute DEF Server
<1>4. CASE UNCHANGED vars
  BY <1>1, <1>4 DEF RouteInv, vars, OneEach, BoundWritesAtHome
<1> QED BY <1>2, <1>3, <1>4 DEF Next
-----------------------------------------------------------------------------
(******************************** theorems *********************************)

\* The tag of a connection is its holder's, and a holder gives it back, in
\* every behaviour.
THEOREM TenancyInvariance == Spec => []IInv
<1>1. Init => IInv
  BY InitIInv
<1>2. IInv /\ [Next]_vars => IInv'
  BY NextIInv
<1> QED BY <1>1, <1>2, PTL DEF Spec

\* Requests, connections, cookies and rows keep their shape; a connection in
\* the pool carries no tenant.
THEOREM TenancyTypeCorrect == Spec => []TypeOK
BY TenancyInvariance, Parts, PTL

\* No row of a user's is ever written to the schema of another user
\* (tenant_session.py:33-34), for any pools, workers and number of requests.
THEOREM NeverAnotherTenantHolds == Spec => []NeverAnotherTenant
BY TenancyInvariance, Parts, PTL

\* An access token names a provisioned schema of an account of its person
\* (routes/auth.py:292-337, db/tenant.py:232-240), whatever sign-ins race.
THEOREM TokenNamesAccountHolds == Spec => []TokenNamesAccount
<1>1. Init => FlowInv
  BY InitFlow
<1>2. FlowInv /\ [Next]_vars => FlowInv'
  BY NextFlow
<1>3. FlowInv => TokenNamesAccount
  BY DEF FlowInv
<1> QED BY <1>1, <1>2, <1>3, PTL DEF Spec

\* What a session writes before it first gives its connection back lands in
\* its user's schema (db/tenant_session.py:38-44): by the tag of the connection
\* that a bound session holds, or by the context variable of a background
\* task, wherever its program is.
THEOREM BoundWritesAtHomeHolds == Spec => []BoundWritesAtHome
<1>1. Init => RouteInv
  BY InitRoute
<1>2. RouteInv /\ [Next]_vars => RouteInv'
  BY NextRoute
<1>3. RouteInv => BoundWritesAtHome
  BY DEF RouteInv
<1> QED BY <1>1, <1>2, <1>3, PTL DEF Spec
=============================================================================
