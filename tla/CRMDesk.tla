------------------------------- MODULE CRMDesk -------------------------------
(***************************************************************************)
(* Leads, accounts and tasks in the hands of staff (app/crm/service.py and *)
(* router.py, auth.py), and the automatic assignment of leads              *)
(* (app/crm/assignment.py).                                                *)
(*                                                                         *)
(* A request is authenticated, claims its idempotency key, runs one        *)
(* transaction that locks the row it is about, and completes its claim;    *)
(* the process may die between any two of these, and the client repeats    *)
(* the request with the same key and body.  The automatic assignment runs  *)
(* inside a transaction of the sales graph: it locks the lead when it      *)
(* reads, and writes what it chose when that transaction commits.          *)
(***************************************************************************)
EXTENDS Integers, Sequences, FiniteSets

CONSTANTS
    Users, Nobody,
    Role,          \* the role of a user's membership
    First,         \* the users that are members from the start
    Leads, Accounts,
    AccountOf,     \* the customer of a lead
    Tasks,
    Keys,          \* idempotency keys, one for each request
    Automatic,     \* stands for the automatic assignment among the keys
    Bodies,        \* what the requests may ask for
    MaxTries,      \* bound: repetitions of a request
    MaxLosses      \* bound: requests whose process dies

Roles == {"admin", "sales_manager", "salesperson", "finance_manager",
          "production_manager", "viewer"}

Permissions == [admin |-> {"*"},
                sales_manager |-> {"customer:assign", "lead:assign", "lead:close",
                                   "lead:reopen", "task:create", "task:edit_all"},
                salesperson |-> {"task:create", "task:edit_assigned"},
                finance_manager |-> {"task:create", "task:edit_assigned"},
                production_manager |-> {"task:create", "task:edit_assigned"},
                viewer |-> {}]

\* The permission the route of an operation requires; the tasks' routes ask
\* for none and leave it to the transaction.
RoutePermission == [assign_lead |-> "lead:assign", assign_account |-> "customer:assign",
                    close_lost |-> "lead:close", reopen |-> "lead:reopen",
                    create_member |-> "*", create_task |-> "task:create",
                    update_task |-> "", complete_task |-> "", cancel_task |-> ""]

TaskEdits == {"update_task", "complete_task", "cancel_task"}

ASSUME DeskAssumption ==
    /\ Nobody \notin Users
    /\ Role \in [Users -> Roles]
    /\ First \subseteq Users
    /\ AccountOf \in [Leads -> Accounts]
    /\ Bodies \subseteq [op : DOMAIN RoutePermission, by : Users,
                         on : Leads \cup Accounts \cup Tasks \cup Users, to : Users]
    /\ \A b \in Bodies :   \* what an operation is about is a row of its table
          /\ b.op \in {"assign_lead", "close_lost", "reopen"} => b.on \in Leads
          /\ b.op = "assign_account" => b.on \in Accounts
          /\ b.op \in TaskEdits \cup {"create_task"} => b.on \in Tasks
          /\ b.op = "create_member" => b.on \in Users
    /\ Automatic \notin Keys
    /\ MaxTries \in Nat /\ MaxLosses \in Nat

VARIABLES
    member,      \* business_memberships
    session,     \* auth_sessions
    lead, account,
    assignment,  \* lead_assignments
    choosing,    \* automatic assignments between their reads and their commit
    task,
    activity,    \* crm_activities of completed tasks
    edits,       \* history: the requests that changed a task
    request, claim,
    lost         \* history: how often a request died, or failed once applied

rowVars == <<lead, account, assignment, task, activity, edits>>
requestVars == <<request, claim, lost>>
deskVars == <<member, session, rowVars, choosing, requestVars>>

-----------------------------------------------------------------------------
Somebody == Users \cup {Nobody}
TaskStates == {"none", "open", "in_progress", "completed", "cancelled"}
OpenTask == {"open", "in_progress"}
ClaimStates == {"none", "processing", "stale", "completed", "failed"}
RequestStates == {"none", "sent", "claimed", "applied", "refused", "lost", "answered"}
NoBody == [op |-> "none"]

DeskTypeOK ==
    /\ member \in [Users -> {"none", "active", "inactive"}]
    /\ session \in [Users -> {"none", "open", "closed"}]
    /\ lead \in [Leads -> [owner : Somebody, lost : BOOLEAN]]
    /\ account \in [Accounts -> Somebody]
    /\ assignment \in [Leads -> Seq([to : Users, open : BOOLEAN, by : Keys \cup {Automatic}])]
    /\ choosing \in [Leads -> [pc : {"idle", "locked"}, pick : Somebody, free : BOOLEAN]]
    /\ task \in [Tasks -> [status : TaskStates, owner : Somebody, version : Nat]]
    /\ activity \in [Tasks -> Nat]
    /\ edits \in [Tasks -> Seq(Keys)]
    /\ request \in [Keys -> [pc : RequestStates, body : Bodies \cup {NoBody},
                             version : Nat, tries : 0..MaxTries]]
    /\ claim \in [Keys -> ClaimStates]
    /\ lost \in [Keys -> 0..MaxLosses]

Idle == [pc |-> "idle", pick |-> Nobody, free |-> FALSE]

DeskInit ==
    /\ member = [u \in Users |-> IF u \in First THEN "active" ELSE "none"]
    /\ session = [u \in Users |-> "none"]
    /\ lead = [l \in Leads |-> [owner |-> Nobody, lost |-> FALSE]]
    /\ account = [a \in Accounts |-> Nobody]
    /\ assignment = [l \in Leads |-> << >>]
    /\ choosing = [l \in Leads |-> Idle]
    /\ task = [t \in Tasks |-> [status |-> "none", owner |-> Nobody, version |-> 0]]
    /\ activity = [t \in Tasks |-> 0]
    /\ edits = [t \in Tasks |-> << >>]
    /\ request = [k \in Keys |-> [pc |-> "none", body |-> NoBody, version |-> 0, tries |-> 0]]
    /\ claim = [k \in Keys |-> "none"]
    /\ lost = [k \in Keys |-> 0]

Active(u) == member[u] = "active"
May(u, permission) == {"*", permission} \cap Permissions[Role[u]] # {}

-----------------------------------------------------------------------------
(* Members and sessions *)

LogIn(u) ==
    /\ session[u] # "open"
    /\ Active(u)
    /\ session' = [session EXCEPT ![u] = "open"]
    /\ UNCHANGED <<member, rowVars, choosing, requestVars>>

\* By the user, or by the hour.
LogOut(u) ==
    /\ session[u] = "open"
    /\ session' = [session EXCEPT ![u] = "closed"]
    /\ UNCHANGED <<member, rowVars, choosing, requestVars>>

Deactivate(u) ==
    /\ Active(u)
    /\ member' = [member EXCEPT ![u] = "inactive"]
    /\ UNCHANGED <<session, rowVars, choosing, requestVars>>

-----------------------------------------------------------------------------
(* Automatic assignment *)

Locked(l) == choosing[l].pc = "locked"

Load(u) == Cardinality({l \in Leads : lead[l].owner = u /\ ~lead[l].lost})

\* The user with the least load; ids decide among equals, and they are random.
LeastLoaded ==
    LET candidates == {u \in Users : Role[u] = "salesperson" /\ Active(u)}
    IN  {u \in candidates : \A v \in candidates : Load(u) <= Load(v)}

Assignees(l) ==
    LET owner == account[AccountOf[l]]
    IN  IF owner # Nobody /\ Active(owner) THEN {owner} ELSE LeastLoaded

ChooseAssignee(l) ==
    /\ ~Locked(l)
    /\ lead[l].owner = Nobody
    /\ \E u \in Assignees(l) :
          choosing' = [choosing EXCEPT ![l] =
                          [pc |-> "locked", pick |-> u,
                           free |-> account[AccountOf[l]] = Nobody]]
    /\ UNCHANGED <<member, session, rowVars, requestVars>>

Entry(u, k) == [to |-> u, open |-> TRUE, by |-> k]

\* The account's row is not locked; it is written when it had no owner.
AutoAssign(l) ==
    LET u == choosing[l].pick
    IN  /\ Locked(l)
        /\ lead' = [lead EXCEPT ![l].owner = u]
        /\ account' = IF choosing[l].free THEN [account EXCEPT ![AccountOf[l]] = u]
                      ELSE account
        /\ assignment' = [assignment EXCEPT ![l] = Append(@, Entry(u, Automatic))]
        /\ choosing' = [choosing EXCEPT ![l] = Idle]
        /\ UNCHANGED <<member, session, task, activity, edits, requestVars>>

AutoRollsBack(l) ==
    /\ Locked(l)
    /\ choosing' = [choosing EXCEPT ![l] = Idle]
    /\ UNCHANGED <<member, session, rowVars, requestVars>>

-----------------------------------------------------------------------------
(* The transactions of the service, when they apply *)

Body(k) == request[k].body

Closed(history) == [i \in DOMAIN history |-> [history[i] EXCEPT !.open = FALSE]]

MutantReassigned(history, u, k) == Append(history, Entry(u, k))
Reassigned(history, u, k) == Append(Closed(history), Entry(u, k))

AssignLead(k) ==
    LET l == Body(k).on
        u == Body(k).to
    IN  /\ Body(k).op = "assign_lead"
        /\ Active(Body(k).to)
        /\ assignment' = [assignment EXCEPT ![l] = Reassigned(@, u, k)]
        /\ lead' = [lead EXCEPT ![l].owner = u]
        /\ UNCHANGED <<member, account, task, activity, edits>>

AssignAccount(k) ==
    /\ Body(k).op = "assign_account"
    /\ Active(Body(k).to)
    /\ account' = [account EXCEPT ![Body(k).on] = Body(k).to]
    /\ UNCHANGED <<member, lead, assignment, task, activity, edits>>

\* The rest of these handlers, and the won lead that is refused, belong to
\* SalesPipeline.
CloseOrReopen(k) ==
    LET l == Body(k).on
    IN  /\ \/ Body(k).op = "close_lost" /\ ~lead[l].lost
           \/ Body(k).op = "reopen" /\ lead[l].lost
        /\ lead' = [lead EXCEPT ![l].lost = ~@]
        /\ UNCHANGED <<member, account, assignment, task, activity, edits>>

CreateMember(k) ==
    /\ Body(k).op = "create_member"
    /\ member[Body(k).on] = "none"
    /\ member' = [member EXCEPT ![Body(k).on] = "active"]
    /\ UNCHANGED rowVars

\* A row of the table is a task of the model.
CreateTask(k) ==
    LET t == Body(k).on
    IN  /\ Body(k).op = "create_task"
        /\ task[t].status = "none"
        /\ Active(Body(k).to)
        /\ task' = [task EXCEPT ![t] = [status |-> "open", owner |-> Body(k).to,
                                        version |-> 1]]
        /\ UNCHANGED <<member, lead, account, assignment, activity, edits>>

MayEditTask(k, t) ==
    \/ May(Body(k).by, "task:edit_all")
    \/ May(Body(k).by, "task:edit_assigned") /\ task[t].owner = Body(k).by

MutantUpToDate(k, t) == task[t].status \in OpenTask
UpToDate(k, t) == task[t].version = request[k].version /\ task[t].status \in OpenTask

EditTask(k) ==
    LET t == Body(k).on
        update == Body(k).op = "update_task"
        complete == Body(k).op = "complete_task"
    IN  /\ Body(k).op \in TaskEdits
        /\ task[t].status # "none"
        /\ MayEditTask(k, t)
        /\ UpToDate(k, t)
        /\ update => Active(Body(k).to)
        /\ task' = [task EXCEPT ![t].version = @ + 1,
                                ![t].owner = IF update THEN Body(k).to ELSE @,
                                ![t].status = IF update THEN "in_progress"
                                              ELSE IF complete THEN "completed"
                                              ELSE "cancelled"]
        /\ activity' = IF complete THEN [activity EXCEPT ![t] = @ + 1] ELSE activity
        /\ edits' = [edits EXCEPT ![t] = Append(@, k)]
        /\ UNCHANGED <<member, lead, account, assignment>>

Transaction(k) ==
    \/ AssignLead(k)
    \/ AssignAccount(k)
    \/ CloseOrReopen(k)
    \/ CreateMember(k)
    \/ CreateTask(k)
    \/ EditTask(k)

\* A locked row is waited for, not refused.
Waits(k) == /\ Body(k).op \in {"assign_lead", "close_lost", "reopen"}
            /\ Locked(Body(k).on)

-----------------------------------------------------------------------------
(* Requests *)

Goto(k, pc) == request' = [request EXCEPT ![k].pc = pc]

Authenticated(u) == session[u] = "open" /\ Active(u)

\* Sent from what the user sees at the moment.
Send(k) ==
    /\ request[k].pc = "none"
    /\ \E b \in Bodies :
          /\ Authenticated(b.by)
          /\ RoutePermission[b.op] = "" \/ May(b.by, RoutePermission[b.op])
          /\ b.op \in TaskEdits => task[b.on].status # "none"
          /\ request' = [request EXCEPT ![k].pc = "sent", ![k].body = b,
                             ![k].version = IF b.op \in TaskEdits THEN task[b.on].version
                                            ELSE 0]
    /\ UNCHANGED <<member, session, rowVars, choosing, claim, lost>>

\* Again with the same key and body: after a loss, a refusal or an answer.
SendAgain(k) ==
    /\ request[k].pc \in {"lost", "answered"}
    /\ request[k].tries < MaxTries
    /\ Authenticated(Body(k).by)
    /\ request' = [request EXCEPT ![k].pc = "sent", ![k].tries = @ + 1]
    /\ UNCHANGED <<member, session, rowVars, choosing, claim, lost>>

MutantFree(k) == claim[k] \in {"none", "failed", "stale", "completed"}
Free(k) == claim[k] \in {"none", "failed", "stale"}

\* A completed claim returns its stored response, one in progress a conflict.
Claim(k) ==
    /\ request[k].pc = "sent"
    /\ IF Free(k) THEN claim' = [claim EXCEPT ![k] = "processing"] /\ Goto(k, "claimed")
       ELSE UNCHANGED claim /\ Goto(k, "answered")
    /\ UNCHANGED <<member, session, rowVars, choosing, lost>>

\* A transaction that raises, for a reason of its own or of the database,
\* changes nothing.
Execute(k) ==
    /\ request[k].pc = "claimed"
    /\ ~Waits(k)
    /\ \/ Transaction(k) /\ Goto(k, "applied")
       \/ UNCHANGED <<member, rowVars>> /\ Goto(k, "refused")
    /\ UNCHANGED <<session, choosing, claim, lost>>

Answer(k) ==
    /\ \/ request[k].pc = "applied" /\ claim' = [claim EXCEPT ![k] = "completed"]
       \/ request[k].pc = "refused" /\ claim' = [claim EXCEPT ![k] = "failed"]
    /\ Goto(k, "answered")
    /\ UNCHANGED <<member, session, rowVars, choosing, lost>>

Lose(k) ==
    /\ request[k].pc \in {"claimed", "applied", "refused"}
    /\ lost[k] < MaxLosses
    /\ lost' = [lost EXCEPT ![k] = @ + 1]
    /\ Goto(k, "lost")
    /\ UNCHANGED <<member, session, rowVars, choosing, claim>>

\* The transaction has committed when the row is read again for the response,
\* and when that is stored; a failure of either fails the claim.
AnswerFails(k) ==
    /\ request[k].pc = "applied"
    /\ lost[k] < MaxLosses
    /\ lost' = [lost EXCEPT ![k] = @ + 1]
    /\ claim' = [claim EXCEPT ![k] = "failed"]
    /\ Goto(k, "answered")
    /\ UNCHANGED <<member, session, rowVars, choosing>>

\* Of a request whose process died: the others end within the 900 seconds.
ClaimGrowsStale(k) ==
    /\ claim[k] = "processing"
    /\ request[k].pc \notin {"claimed", "applied", "refused"}
    /\ claim' = [claim EXCEPT ![k] = "stale"]
    /\ UNCHANGED <<member, session, rowVars, choosing, request, lost>>

-----------------------------------------------------------------------------
DeskNext ==
    \/ \E u \in Users : LogIn(u) \/ LogOut(u) \/ Deactivate(u)
    \/ \E l \in Leads : ChooseAssignee(l) \/ AutoAssign(l) \/ AutoRollsBack(l)
    \/ \E k \in Keys : \/ Send(k) \/ SendAgain(k) \/ Claim(k) \/ Execute(k)
                       \/ Answer(k) \/ AnswerFails(k) \/ Lose(k)
                       \/ ClaimGrowsStale(k)

DeskSpec == DeskInit /\ [][DeskNext]_deskVars

-----------------------------------------------------------------------------
(* Properties *)

\* A lead has one open assignment, its latest, and that is its owner's, however
\* staff and the automatic assignment get in each other's way
\* (CRMService.assign_lead, auto_assign_lead).
AssignmentAgrees ==
    \A l \in Leads :
        LET history == assignment[l]
        IN  /\ history = << >> <=> lead[l].owner = Nobody
            /\ \A i \in DOMAIN history :
                  IF i = Len(history) THEN history[i].open /\ history[i].to = lead[l].owner
                  ELSE ~history[i].open

\* A request that was answered is not executed again: its assignment is entered
\* once more only for each time it died or failed once applied (router._claim).
AssignedOncePerRequest ==
    \A k \in Keys, l \in Leads :
        Cardinality({i \in DOMAIN assignment[l] : assignment[l][i].by = k}) <= 1 + lost[k]

\* No edit of a task is lost and none is made twice, not even by a repeated
\* request: each was made against the version the one before it left
\* (CRMService.update_task, finish_task).
TaskEditedInOrder ==
    \A t \in Tasks :
        /\ task[t].version = (IF task[t].status = "none" THEN 0 ELSE 1) + Len(edits[t])
        /\ \A i \in DOMAIN edits[t] :
              /\ request[edits[t][i]].version = i
              /\ \A j \in DOMAIN edits[t] : edits[t][i] = edits[t][j] => i = j
        /\ activity[t] = IF task[t].status = "completed" THEN 1 ELSE 0

\* "Existing account ownership wins" (assignment.py:20): an account that has an
\* owner gets another one only from staff.
AccountOwnershipWins ==
    [][\A a \in Accounts :
          account[a] # Nobody /\ account'[a] # account[a] =>
              \E k \in Keys : Body(k).op = "assign_account" /\ Body(k).on = a
                              /\ request'[k].pc = "applied"]_deskVars
=============================================================================
