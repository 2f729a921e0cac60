----------------------------- MODULE MCBackOffice -----------------------------
(* The desk of the staff and Jarvis for TLC, in four parts of one run: leads  *)
(* and their assignment, tasks, members and sessions, and Jarvis.              *)
EXTENDS BackOffice

CONSTANTS founder, seller, newcomer, l1, l2, acme, t1

VARIABLE part

MCRole == [u \in Users |-> IF u = founder THEN "admin" ELSE "salesperson"]
MCAccountOf == [l \in Leads |-> acme]

Ask(op, by, on, to) == [op |-> op, by |-> by, on |-> on, to |-> to]

LeadBodies == {Ask("assign_lead", founder, l1, founder), Ask("assign_lead", founder, l1, seller),
               Ask("assign_account", founder, acme, founder),
               Ask("close_lost", founder, l2, founder), Ask("reopen", founder, l2, founder)}
TaskBodies == {Ask("create_task", seller, t1, seller), Ask("update_task", founder, t1, seller),
               Ask("complete_task", seller, t1, seller), Ask("cancel_task", founder, t1, founder)}
StaffBodies == {Ask("create_member", founder, newcomer, newcomer),
                Ask("assign_lead", founder, l1, newcomer)}
MCBodies == LeadBodies \cup TaskBodies \cup StaffBodies

MCInit == DeskInit /\ JarvisInit /\ part \in {"leads", "tasks", "staff", "jarvis"}

KeysInOrder == \A j, k \in Keys : j < k /\ request[j].pc = "none" => request[k].pc = "none"
Asking(bodies, n) ==
    /\ \A k \in Keys : request[k].body \in bodies \cup {NoBody}
    /\ \A k \in Keys : request[k].pc # "none" => k <= n
    /\ KeysInOrder
    /\ Cardinality({k \in Keys : lost[k] > 0}) <= 1
    /\ Cardinality({k \in Keys : request[k].tries > 0}) <= 1

\* Outside the part about them, members log in first and stay.
AllIn == \A u \in First : session[u] = "open"
AtWork == session' = session /\ member' = member /\ AllIn
Opening == ~AllIn /\ \E u \in Users : LogIn(u)

AutoOn(leads) == \A l \in Leads \ leads : lead'[l].owner = Nobody /\ ~Locked(l)'

LeadsPart == part = "leads" /\ (Opening \/ (DeskNext /\ AtWork)) /\ Asking(LeadBodies, 2)'
TasksPart == part = "tasks" /\ (Opening \/ (DeskNext /\ AtWork)) /\ Asking(TaskBodies, 3)' /\ AutoOn({})
StaffPart ==
    /\ part = "staff" /\ DeskNext /\ Asking(StaffBodies, 2)' /\ AutoOn({l1})
    /\ \A k \in Keys : lost'[k] = 0 /\ request'[k].tries = 0

Unresumed(r) == \A i \in DOMAIN ledger[r] : ledger'[r][i] = ledger[r][i]

\* A second run of a command makes one call at most, which nobody resumes.
JarvisPart ==
    /\ part = "jarvis" /\ JarvisNext
    /\ \A r \in Runs : r[2] > 1 => run'[r].plan <= 1 /\ Unresumed(r)
    /\ UNCHANGED deskVars

MCNext ==
    /\ \/ (LeadsPart \/ TasksPart \/ StaffPart) /\ UNCHANGED jarvisVars
       \/ JarvisPart
    /\ UNCHANGED part

MCSpec ==
    /\ MCInit /\ [][MCNext]_<<deskVars, jarvisVars, part>>
    /\ \A r \in Runs : WF_jarvisVars(part = "jarvis" /\ RunCommand(r))
=============================================================================
