---------------------------- MODULE ControlPlane ----------------------------
(***************************************************************************)
(* The front of the HTTP server: a request is authenticated against the    *)
(* registry of accounts, users and agents, and admin requests change it.   *)
(* The registry is JSON files in AGFS, which every request reads and       *)
(* writes whole, without a lock; a worker enrols the accounts that have a  *)
(* configured key before it serves its first request.  Sources:            *)
(*   src/server/*.py, src/code-version/server/app.py, and build_context of *)
(*   src/code-version/server/memory_service.py                             *)
(*                                                                         *)
(* One step is one call of AGFS, where calls on a file exclude each other; *)
(* authenticating, which only reads, is one too.  Role control is on:      *)
(* without it admin requests are refused and the others pass.  The key of  *)
(* a user is the number of the request that made it.                       *)
(***************************************************************************)
EXTENDS Naturals, Sequences

CONSTANTS
    Account, UserName, AgentName,
    Enrolled,         \* accounts with a configured admin key, in order
    SharedAgents,     \* agents that every user may use
    CodeMode,         \* code_toggle
    Worker,           \* processes that serve requests
    Visitor,          \* clients, with one request at a time
    Asked,            \* admin requests to try
    Presented,        \* credentials to try
    MaxAsked,         \* bound on the requests
    RegistryBudgets   \* whether nothing is stored yet, and bounds: requests, restarts, AGFS calls that fail

Ops == {"create user", "delete user", "set role", "create agent", "update agent", "look"}

ASSUME ControlAssumption ==
    /\ Enrolled \in Seq(Account) /\ SharedAgents \subseteq AgentName
    /\ \A i, j \in DOMAIN Enrolled : Enrolled[i] = Enrolled[j] => i = j
    /\ "admin" \in UserName /\ {"none", "root"} \cap (UserName \cup AgentName) = {}
    /\ CodeMode \in BOOLEAN /\ Worker \cap Visitor = {} /\ MaxAsked \in Nat
    /\ Asked \subseteq [op : Ops, account : Account, user : UserName \cup {"none"},
                        agent : AgentName \cup {"none"}, role : {"admin", "user"}]
    /\ \A ask \in Asked :
          /\ ask.op \in {"create user", "delete user", "set role"} => ask.user # "none"
          /\ ask.op \in {"create agent", "update agent"} => ask.agent # "none"
    /\ Presented \subseteq [kind : {"root", "admin", "user"}, account : Account \cup {"none"}, key : Nat]
    /\ \A who \in Presented : who.kind # "root" => who.account \in Account
    /\ RegistryBudgets \subseteq [fresh : BOOLEAN, requests : 0..MaxAsked, restarts : Nat, faults : Nat]

VARIABLES
    accounts,    \* accounts.json
    registry,    \* the files of the accounts: [file -> [account -> [name -> entry]]]
    actor,       \* [Worker \cup Visitor -> what it does]
    held,        \* [Worker \cup Visitor -> the file that it has read to write it]
    credit,      \* what is left of the bounds
    \* History, read by properties only:
    meant,       \* the registry as the changes made to it meant it
    reverted     \* entries changed, and accounts listed, between another's read and its
                 \* write of the file

controlVars == <<accounts, registry, actor, held, credit, meant, reverted>>

Actor == Worker \cup Visitor
Key == 1..MaxAsked
Files == {"users", "agents", "audit"}
NamesIn(file) == CASE file = "users" -> UserName [] file = "agents" -> AgentName
                   [] file = "audit" -> Key
NoUser == [role |-> "none", key |-> 0]
Missing(file) == IF file = "users" THEN NoUser ELSE "none"

NoRequest == [op |-> "none"]
NoCopy == [of |-> <<>>, exposed |-> {}]
AtRest == [at |-> "idle", ask |-> NoRequest, id |-> 0, by |-> "none", worker |-> "none", status |-> 0]
Down == [at |-> "down", todo |-> {}, seen |-> {}]

\* The registry is new, or as the workers left it before.
ControlInit ==
    /\ credit \in RegistryBudgets
    /\ accounts = {Enrolled[i] : i \in {j \in DOMAIN Enrolled : ~credit.fresh}}
    /\ registry = [file \in Files |-> [a \in Account |-> [n \in NamesIn(file) |->
          IF file = "users" /\ n = "admin" /\ a \in accounts THEN [role |-> "admin", key |-> 0]
          ELSE Missing(file)]]]
    /\ actor = [x \in Actor |-> IF x \in Worker THEN Down ELSE AtRest]
    /\ held = [x \in Actor |-> NoCopy]
    /\ meant = registry /\ reverted = {}

Pays(what) == credit[what] > 0 /\ credit' = [credit EXCEPT ![what] = @ - 1]
MovesTo(x, at) == actor' = [actor EXCEPT ![x].at = at]
AnswersWith(c, status) == actor' = [actor EXCEPT ![c] = [AtRest EXCEPT !.status = status]]
-----------------------------------------------------------------------------
\* Mutant: the file is started anew.
ReadsNothing(x, file, a, name, entry) ==
    held' = [held EXCEPT ![x] = [of |-> <<file, a, name, [n \in NamesIn(file) |->
                                            IF n = name THEN entry ELSE Missing(file)]>>,
                                 exposed |-> {}]]

\* read_json of a file of account a, and the change of one entry in memory:
\* the copy is <<file, account, entry's name, content>>.
Reads(x, file, a, name, entry) ==
    held' = [held EXCEPT ![x] = [of |-> <<file, a, name, [registry[file][a] EXCEPT ![name] = entry]>>,
                                 exposed |-> {}]]

SameFile(h, k) == h # NoCopy /\ k # NoCopy /\ k.of[1] = h.of[1] /\ k.of[2] = h.of[2]

\* write_json of the whole file.
WritesBack(x) ==
    LET h == held[x]
        file == h.of[1]
        a == h.of[2]
        name == h.of[3]
        content == h.of[4]
    IN /\ registry' = [registry EXCEPT ![file][a] = content]
       /\ meant' = [meant EXCEPT ![file][a][name] = content[name]]
       /\ reverted' = (reverted \cup h.exposed) \ {<<file, a, name>>}
       /\ held' = [y \in Actor |-> IF y = x THEN NoCopy
                                   ELSE IF SameFile(held[y], h)
                                   THEN [held[y] EXCEPT !.exposed = @ \cup {<<file, a, name>>}]
                                   ELSE held[y]]
-----------------------------------------------------------------------------
\* A worker is to enrol these, by their places in Enrolled.
Enrols(w, todo) ==
    /\ actor[w].at = "down"
    /\ actor' = [actor EXCEPT ![w] = [at |-> IF todo = {} THEN "up" ELSE "account",
                                      todo |-> todo, seen |-> {}]]
    /\ UNCHANGED <<accounts, registry, held, credit, meant, reverted>>

\* Mutant: a registry with accounts is taken for complete.
EnrolOnce(w) == Enrols(w, IF accounts = {} THEN DOMAIN Enrolled ELSE {})

\* _ensure_admin_accounts, by the constructor of AuthService.
EnrolBegin(w) == Enrols(w, {i \in DOMAIN Enrolled : Enrolled[i] \notin accounts})

\* The next place, and what follows it; create_account raises if the account or
\* its admin is there, which is passed over.
PlaceOf(w) == CHOOSE i \in actor[w].todo : \A j \in actor[w].todo : i <= j
NextAccount(w) ==
    LET rest == actor[w].todo \ {PlaceOf(w)} IN
    actor' = [actor EXCEPT ![w] = [at |-> IF rest = {} THEN "up" ELSE "account",
                                   todo |-> rest, seen |-> {}]]

EnrolAccount(w) ==
    /\ actor[w].at = "account"
    /\ LET a == Enrolled[PlaceOf(w)] IN
       IF a \in accounts THEN NextAccount(w)
       ELSE actor' = [actor EXCEPT ![w].at = "write account", ![w].seen = accounts \cup {a}]
    /\ UNCHANGED <<accounts, registry, held, credit, meant, reverted>>

\* What others have listed since the file was read is listed no more.
EnrolWrite(w) ==
    /\ actor[w].at = "write account"
    /\ accounts' = actor[w].seen /\ MovesTo(w, "admin")
    /\ reverted' = (reverted \cup {<<"accounts", a>> : a \in accounts})
                      \ {<<"accounts", a>> : a \in actor[w].seen}
    /\ UNCHANGED <<registry, held, credit, meant>>

\* register_user of its admin, with a key that nobody is told.
EnrolAdmin(w) ==
    /\ actor[w].at = "admin"
    /\ LET a == Enrolled[PlaceOf(w)] IN
       IF registry["users"][a]["admin"] # NoUser THEN NextAccount(w) /\ UNCHANGED held
       ELSE Reads(w, "users", a, "admin", [role |-> "admin", key |-> 0]) /\ MovesTo(w, "write admin")
    /\ UNCHANGED <<accounts, registry, credit, meant, reverted>>

EnrolAdminWrite(w) ==
    /\ actor[w].at = "write admin"
    /\ WritesBack(w) /\ NextAccount(w)
    /\ UNCHANGED <<accounts, credit>>
-----------------------------------------------------------------------------
\* resolve_identity: the root key, the admin key of an account, a user's key.
Nobody == [role |-> "none", user |-> "none", account |-> "none"]

\* resolve_user_key looks where the client says, or in every account listed.
HolderOf(who, hinted) ==
    IF hinted \/ who.account \in accounts
    THEN {u \in UserName : registry["users"][who.account][u].key = who.key} ELSE {}

AdminKey(who) == who.kind = "admin" /\ \E i \in DOMAIN Enrolled : Enrolled[i] = who.account

Identity(who, hinted) ==
    CASE who.kind = "root" -> [role |-> "root", user |-> "root", account |-> "none"]
      [] AdminKey(who) ->
            [role |-> "admin", user |-> "admin", account |-> who.account]
      [] who.kind = "user" /\ HolderOf(who, hinted) # {} ->
            LET u == CHOOSE v \in HolderOf(who, hinted) : TRUE
            IN [role |-> registry["users"][who.account][u].role, user |-> u, account |-> who.account]
      [] OTHER -> Nobody

\* _require_root, _require_account_admin.
Admits(id, ask) ==
    \/ id.role = "root"
    \/ ask.op # "set role" /\ id.role = "admin" /\ id.account = ask.account

FirstStep(ask) ==
    CASE ask.op = "create user" -> "account"
      [] ask.op \in {"create agent", "update agent"} /\ ask.user # "none" -> "owner"
      [] OTHER -> "read"

\* An admin request comes to a worker that is up.
AdminRequest(c, ask, who, hinted) ==
    /\ actor[c].at = "idle" /\ Pays("requests")
    /\ LET id == Identity(who, hinted) IN
       \E w \in Worker :
          /\ actor[w].at = "up"
          /\ IF id = Nobody THEN AnswersWith(c, 401)
             ELSE IF ~Admits(id, ask) THEN AnswersWith(c, 403)
             ELSE IF ask.op = "look" THEN \E status \in {200, 404} : AnswersWith(c, status)
             ELSE actor' = [actor EXCEPT ![c] = [at |-> FirstStep(ask), ask |-> ask, by |-> id.user,
                                                 id |-> credit.requests, worker |-> w, status |-> 0]]
    /\ UNCHANGED <<accounts, registry, held, meant, reverted>>

\* build_context: an agent that is named must be the user's own, or shared.
Visible(id, agent) ==
    \/ agent = "none" \/ agent \in SharedAgents
    \/ id.account \in Account /\ registry["agents"][id.account][agent] = id.user

\* Code handlers are hidden without code mode; the session handlers catch no errors.
Hidden(kind) == kind = "code" /\ ~CodeMode
Refusal(kind, status) == IF kind = "session" THEN 500 ELSE status

\* The other requests leave the registry alone; what they do then is the
\* business of their service.
ServiceRequest(c, kind, who, agent) ==
    /\ actor[c].at = "idle" /\ Pays("requests")
    /\ \E w \in Worker : actor[w].at = "up"
    /\ LET id == Identity(who, FALSE) IN
       IF Hidden(kind) THEN AnswersWith(c, 404)
       ELSE IF id = Nobody THEN AnswersWith(c, Refusal(kind, 401))
       ELSE IF ~Visible(id, agent) THEN AnswersWith(c, Refusal(kind, 403))
       ELSE \E status \in {200, 400, 404, 500} : AnswersWith(c, status)
    /\ UNCHANGED <<accounts, registry, held, meant, reverted>>

\* create_user: the account must be listed.
CheckAccount(c) ==
    /\ actor[c].at = "account"
    /\ IF actor[c].ask.account \in accounts THEN MovesTo(c, "read") ELSE AnswersWith(c, 400)
    /\ UNCHANGED <<accounts, registry, held, credit, meant, reverted>>

\* create_agent, update_agent: an owner that is named must be there.
CheckOwner(c) ==
    /\ actor[c].at = "owner"
    /\ LET ask == actor[c].ask IN
       IF registry["users"][ask.account][ask.user] # NoUser THEN MovesTo(c, "read") ELSE AnswersWith(c, 400)
    /\ UNCHANGED <<accounts, registry, held, credit, meant, reverted>>

\* What the request makes of the entry.
Changed(c, entry) ==
    LET ask == actor[c].ask IN
    CASE ask.op = "create user" -> [role |-> ask.role, key |-> actor[c].id]
      [] ask.op = "delete user" -> NoUser
      [] ask.op = "set role" -> [entry EXCEPT !.role = ask.role]
      [] ask.op = "create agent" -> IF ask.user = "none" THEN actor[c].by ELSE ask.user
      [] ask.op = "update agent" -> IF ask.user = "none" THEN entry ELSE ask.user

\* The file is read: nothing is there twice, and nothing is done to what is not there.
ReadRegistry(c) ==
    /\ actor[c].at = "read"
    /\ LET ask == actor[c].ask
           file == IF ask.op \in {"create agent", "update agent"} THEN "agents" ELSE "users"
           name == IF file = "agents" THEN ask.agent ELSE ask.user
           entry == registry[file][ask.account][name]
           there == entry # Missing(file)
           making == ask.op \in {"create user", "create agent"}
       IN \/ there # making /\ Reads(c, file, ask.account, name, Changed(c, entry)) /\ MovesTo(c, "write")
          \/ there /\ making /\ AnswersWith(c, 400) /\ UNCHANGED held
          \/ ~there /\ ask.op = "update agent" /\ AnswersWith(c, 404) /\ UNCHANGED held
          \/ ~there /\ ask.op \in {"delete user", "set role"} /\ MovesTo(c, "log") /\ UNCHANGED held
    /\ UNCHANGED <<accounts, registry, credit, meant, reverted>>

WriteRegistry(c) ==
    /\ actor[c].at = "write"
    /\ WritesBack(c) /\ MovesTo(c, "log")
    /\ UNCHANGED <<accounts, credit>>

\* AuditService.record, and the answer.
ReadLog(c) ==
    /\ actor[c].at = "log"
    /\ Reads(c, "audit", actor[c].ask.account, actor[c].id, "kept") /\ MovesTo(c, "append")
    /\ UNCHANGED <<accounts, registry, credit, meant, reverted>>

WriteLog(c) ==
    /\ actor[c].at = "append"
    /\ WritesBack(c) /\ AnswersWith(c, 200)
    /\ UNCHANGED <<accounts, credit>>
-----------------------------------------------------------------------------
\* A call of AGFS fails: the request is answered, a worker has no AuthService
\* and tries again with its next request.
CallFails(x) ==
    /\ actor[x].at \notin {"idle", "down", "up"} /\ Pays("faults")
    /\ IF x \in Worker THEN actor' = [actor EXCEPT ![x] = Down] ELSE AnswersWith(x, 500)
    /\ held' = [held EXCEPT ![x] = NoCopy]
    /\ UNCHANGED <<accounts, registry, meant, reverted>>

\* A worker is restarted; its requests are lost.
WorkerRestart(w) ==
    LET its == {w} \cup {c \in Visitor : actor[c].worker = w} IN
    /\ actor[w].at # "down" /\ Pays("restarts")
    /\ actor' = [x \in Actor |-> IF x = w THEN Down ELSE IF x \in its THEN AtRest ELSE actor[x]]
    /\ held' = [x \in Actor |-> IF x \in its THEN NoCopy ELSE held[x]]
    /\ UNCHANGED <<accounts, registry, meant, reverted>>

ControlNext ==
    \/ \E w \in Worker : \/ EnrolBegin(w) \/ EnrolAccount(w) \/ EnrolWrite(w) \/ EnrolAdmin(w)
                         \/ EnrolAdminWrite(w) \/ WorkerRestart(w)
    \/ \E c \in Visitor, who \in Presented :
          \/ \E ask \in Asked, hinted \in BOOLEAN : AdminRequest(c, ask, who, hinted)
          \/ \E kind \in {"lifecycle", "code", "session"}, agent \in AgentName \cup {"none"} :
                ServiceRequest(c, kind, who, agent)
    \/ \E c \in Visitor : \/ CheckAccount(c) \/ CheckOwner(c) \/ ReadRegistry(c) \/ WriteRegistry(c)
                          \/ ReadLog(c) \/ WriteLog(c)
    \/ \E x \in Actor : CallFails(x)

ControlSpec == ControlInit /\ [][ControlNext]_controlVars
-----------------------------------------------------------------------------
EntriesOf(file) == CASE file = "users" -> [role : {"none", "admin", "user"}, key : 0..MaxAsked]
                     [] file = "agents" -> UserName \cup {"root", "none"}
                     [] file = "audit" -> {"kept", "none"}
Contents(file) == [NamesIn(file) -> EntriesOf(file)]

ControlTypeOK ==
    /\ accounts \subseteq Account /\ credit.requests \in 0..MaxAsked
    /\ \A file \in Files, a \in Account : {registry[file][a], meant[file][a]} \subseteq Contents(file)
    /\ \A w \in Worker :
          /\ actor[w].at \in {"down", "account", "write account", "admin", "write admin", "up"}
          /\ actor[w].todo \subseteq DOMAIN Enrolled /\ actor[w].seen \subseteq Account
    /\ \A c \in Visitor :
          /\ actor[c].at \in {"idle", "account", "owner", "read", "write", "log", "append"}
          /\ actor[c].id \in 0..MaxAsked /\ actor[c].by \in UserName \cup {"none", "root"}
    /\ \A x \in Actor : held[x] # NoCopy => held[x].of[4] \in Contents(held[x].of[1])

(***************************************************************************)
(* Workers that start together, or again after a failure, write over each  *)
(* other's list of accounts, and each goes on from what it finds: as soon  *)
(* as one is up every account with a configured key is listed, but for one *)
(* that was listed while another worker had read the list and not yet      *)
(* written it; and the first always.  (auth.py:37-51, api_keys.py:25-33)   *)
(***************************************************************************)
AccountsListed ==
    (\E w \in Worker : actor[w].at = "up") =>
        /\ \A i \in DOMAIN Enrolled :
              Enrolled[i] \in accounts \/ <<"accounts", Enrolled[i]>> \in reverted
        /\ Enrolled # <<>> => Enrolled[1] \in accounts

(***************************************************************************)
(* A change that was made stands until the next change of the same entry:  *)
(* users with their keys and roles, owners of agents and audit records.    *)
(* Only a request that read the file before the change and wrote it after  *)
(* can set it back.  (api_keys.py:43-76, tenant_admin.py:109-165,          *)
(* audit.py:28-53)                                                         *)
(***************************************************************************)
ChangesStand ==
    \A file \in Files, a \in Account : \A n \in NamesIn(file) :
        <<file, a, n>> \in reverted \/ registry[file][a][n] = meant[file][a][n]
=============================================================================
