------------------------------ MODULE JarvisRuns ------------------------------
(***************************************************************************)
(* The orchestrator of the founder's commands (app/jarvis).  A command     *)
(* claims its idempotency key, creates a run, lets the planner propose     *)
(* tool calls, makes them one after the other through the tool executor,   *)
(* keeps a message of each result, has an answer written and completes the *)
(* run and the claim.  A call is one step here: AIActionLedger is the      *)
(* module of what happens inside it.                                       *)
(***************************************************************************)
EXTENDS Integers, Sequences, FiniteSets

CONSTANTS
    Commands,    \* founder's commands, each with its idempotency key
    MaxCalls,    \* tool calls of a plan: at most 10 in the code
    MaxRuns,     \* bound: times a command is claimed
    MaxStops     \* bound: processes that die

ASSUME JarvisAssumption == MaxCalls \in Nat /\ MaxRuns \in Nat \ {0} /\ MaxStops \in Nat

Runs == Commands \X (1..MaxRuns)
Outcomes == {"completed", "pending_approval", "declined"}
Needs == {"nothing", "clarification"}

VARIABLES
    taken,      \* the claim of a command: how often it was taken, what it tells
    run,        \* the request that works for a run
    jarvis,     \* jarvis_runs
    ledger,     \* the results of the calls in the action ledger, for good
    messages,   \* jarvis_messages of a run, by role
    cut,        \* history: runs whose process died, or the database under them
    overtaken   \* history: runs that lost the claim, to the hour or to another run

dataVars == <<jarvis, ledger, messages>>
jarvisVars == <<taken, run, dataVars, cut, overtaken>>

-----------------------------------------------------------------------------
Statuses == {"none", "PLANNING", "COMPLETED", "AWAITING_APPROVAL", "BLOCKED", "FAILED"}
Points == {"idle", "claimed", "planning", "calling", "noting", "answering", "failing",
           "refusing", "returning"}

JarvisTypeOK ==
    /\ taken \in [Commands -> [status : {"none", "processing", "stale", "completed", "failed"},
                               tries : 0..MaxRuns, told : 0..MaxRuns]]
    /\ run \in [Runs -> [pc : Points, plan : 0..MaxCalls, needs : Needs,
                         results : Seq(Outcomes)]]
    /\ jarvis \in [Runs -> [status : Statuses, plan : 0..MaxCalls, needs : Needs,
                            results : Seq(Outcomes)]]
    /\ ledger \in [Runs -> Seq(Outcomes)]
    /\ messages \in [Runs -> [user : 0..1, tool : 0..MaxCalls, assistant : 0..1]]
    /\ cut \subseteq Runs
    /\ overtaken \subseteq Runs

JarvisInit ==
    /\ taken = [c \in Commands |-> [status |-> "none", tries |-> 0, told |-> 0]]
    /\ run = [r \in Runs |-> [pc |-> "idle", plan |-> 0, needs |-> "nothing",
                              results |-> << >>]]
    /\ jarvis = [r \in Runs |-> [status |-> "none", plan |-> 0, needs |-> "nothing",
                                 results |-> << >>]]
    /\ ledger = [r \in Runs |-> << >>]
    /\ messages = [r \in Runs |-> [user |-> 0, tool |-> 0, assistant |-> 0]]
    /\ cut = {}
    /\ overtaken = {}

At(r, pc) == run[r].pc = pc
To(r, pc) == run' = [run EXCEPT ![r].pc = pc]

Unclaimed(c) == taken[c].status \in {"none", "failed", "stale"}

\* A completed command returns its stored response without a run.
Command(c) ==
    LET i == taken[c].tries + 1
    IN  /\ Unclaimed(c)
        /\ i <= MaxRuns
        /\ taken' = [taken EXCEPT ![c].status = "processing", ![c].tries = i]
        /\ To(<<c, i>>, "claimed")
        /\ UNCHANGED <<dataVars, cut, overtaken>>

\* The run and the message that asks for it are one transaction; without a
\* principal or an active conversation there is none.
CreateRun(r) ==
    /\ At(r, "claimed")
    /\ \/ /\ jarvis' = [jarvis EXCEPT ![r].status = "PLANNING"]
          /\ messages' = [messages EXCEPT ![r].user = 1]
          /\ To(r, "planning")
       \/ To(r, "refusing") /\ UNCHANGED <<jarvis, messages>>
    /\ UNCHANGED <<taken, ledger, cut, overtaken>>

\* The calls that are due by a plan: none as long as it asks for clarification,
\* whatever calls it carries.
MutantDue(planned) == planned.plan
Due(planned) == IF planned.needs = "clarification" THEN 0 ELSE planned.plan

\* A tool that is not registered, a scope that is missing or arguments of a
\* wrong form fail the run, of a question, too.
Plan(r) ==
    /\ At(r, "planning")
    /\ \/ \E n \in 0..MaxCalls, needs \in Needs :
             run' = [run EXCEPT
                 ![r].pc = IF Due([plan |-> n, needs |-> needs]) = 0 THEN "answering" ELSE "calling",
                 ![r].plan = n,
                 ![r].needs = needs]
       \/ To(r, "failing")
    /\ UNCHANGED <<taken, dataVars, cut, overtaken>>

\* The executor keeps a result, or it raises; when it raises the action may
\* have been taken all the same.
CallTool(r) ==
    /\ At(r, "calling")
    /\ \/ \E o \in Outcomes :
             /\ ledger' = [ledger EXCEPT ![r] = Append(@, o)]
             /\ run' = [run EXCEPT ![r].pc = "noting", ![r].results = Append(@, o)]
       \/ /\ ledger' \in {ledger, [ledger EXCEPT ![r] = Append(@, "completed")]}
          /\ To(r, "failing")
    /\ UNCHANGED <<taken, jarvis, messages, cut, overtaken>>

NoteResult(r) ==
    /\ At(r, "noting")
    /\ \/ /\ messages' = [messages EXCEPT ![r].tool = @ + 1]
          /\ To(r, IF Len(run[r].results) = Due(run[r]) THEN "answering" ELSE "calling")
       \/ To(r, "failing") /\ UNCHANGED messages
    /\ UNCHANGED <<taken, jarvis, ledger, cut, overtaken>>

Has(results, outcome) == \E i \in DOMAIN results : results[i] = outcome

MutantStatusOf(results) ==
    IF Has(results, "declined") THEN "BLOCKED"
    ELSE IF Has(results, "pending_approval") THEN "AWAITING_APPROVAL"
    ELSE "COMPLETED"
StatusOf(results) ==
    IF Has(results, "pending_approval") THEN "AWAITING_APPROVAL"
    ELSE IF Has(results, "declined") THEN "BLOCKED"
    ELSE "COMPLETED"

\* The words of the answer come from the planner or, when it fails, from the
\* results; the run is completed either way, unless the database fails.
CompleteRun(r) ==
    LET results == run[r].results
    IN  /\ At(r, "answering")
        /\ \/ /\ jarvis' = [jarvis EXCEPT ![r] = [status |-> StatusOf(results),
                                                  plan |-> run[r].plan,
                                                  needs |-> run[r].needs,
                                                  results |-> results]]
              /\ messages' = [messages EXCEPT ![r].assistant = 1]
              /\ To(r, "returning") \/ To(r, "failing")
           \/ To(r, "failing") /\ UNCHANGED <<jarvis, messages>>
        /\ UNCHANGED <<taken, ledger, cut, overtaken>>

MutantFailRun(r) ==
    /\ At(r, "failing")
    /\ To(r, "refusing")
    /\ UNCHANGED <<taken, dataVars, cut, overtaken>>
FailRun(r) ==
    /\ At(r, "failing")
    /\ jarvis' = [jarvis EXCEPT ![r].status = "FAILED"]
    /\ To(r, "refusing")
    /\ UNCHANGED <<taken, ledger, messages, cut, overtaken>>

\* The claim is failed, or completed, whatever it has become meanwhile: a run
\* that was overtaken frees it under the others, even when one has answered.
FailClaim(r) ==
    /\ taken' = [taken EXCEPT ![r[1]].status = "failed"]
    /\ overtaken' = overtaken \cup
          {s \in Runs : s[1] = r[1] /\ s # r /\ s[2] <= taken[r[1]].tries}

Return(r) ==
    /\ \/ /\ At(r, "returning")
          /\ taken' = [taken EXCEPT ![r[1]].status = "completed", ![r[1]].told = r[2]]
          /\ UNCHANGED overtaken
       \/ At(r, "refusing") /\ FailClaim(r)
    /\ To(r, "idle")
    /\ UNCHANGED <<dataVars, cut>>

\* The process dies: its run stays in PLANNING, its claim in processing.
Stop(r) ==
    /\ ~At(r, "idle")
    /\ Cardinality(cut) < MaxStops
    /\ cut' = cut \cup {r}
    /\ To(r, "idle")
    /\ UNCHANGED <<taken, dataVars, overtaken>>

\* The database fails where no handler is left: a run that cannot be marked
\* stays in PLANNING, a response that cannot be stored fails the claim.
DatabaseFails(r) ==
    /\ Cardinality(cut) < MaxStops
    /\ cut' = cut \cup {r}
    /\ \/ At(r, "failing") /\ To(r, "refusing") /\ UNCHANGED <<taken, overtaken>>
       \/ At(r, "returning") /\ To(r, "idle") /\ FailClaim(r)
    /\ UNCHANGED dataVars

\* A claim of 900 seconds may be taken, whether or not its request still works.
GrowsStale(c) ==
    /\ taken[c].status = "processing"
    /\ taken' = [taken EXCEPT ![c].status = "stale"]
    /\ overtaken' = overtaken \cup {r \in Runs : r[1] = c /\ ~At(r, "idle")}
    /\ UNCHANGED <<run, dataVars, cut>>

\* An approved action is executed later on the founder's demand; the runs and
\* their results are left as they are.
ResumeAction(r) ==
    /\ \E i \in DOMAIN ledger[r] :
          /\ ledger[r][i] = "pending_approval"
          /\ \E o \in {"completed", "declined"} :
                ledger' = [ledger EXCEPT ![r][i] = o]
    /\ UNCHANGED <<taken, run, jarvis, messages, cut, overtaken>>

-----------------------------------------------------------------------------
RunCommand(r) ==
    \/ CreateRun(r) \/ Plan(r) \/ CallTool(r) \/ NoteResult(r)
    \/ CompleteRun(r) \/ FailRun(r) \/ Return(r)

JarvisNext ==
    \/ \E c \in Commands : Command(c) \/ GrowsStale(c)
    \/ \E r \in Runs : RunCommand(r) \/ Stop(r) \/ DatabaseFails(r) \/ ResumeAction(r)

JarvisSpec ==
    /\ JarvisInit /\ [][JarvisNext]_jarvisVars
    /\ \A r \in Runs : WF_jarvisVars(RunCommand(r))

-----------------------------------------------------------------------------
(* Properties *)

Answered(r) == jarvis[r].status \in {"COMPLETED", "AWAITING_APPROVAL", "BLOCKED"}

\* The calls a run has made by its plan: a question has made none.
Made(planned) == IF planned.needs = "clarification" THEN 0 ELSE planned.plan

\* A run that answered hides nothing: it records a result for every call it
\* planned, those the ledger has, and says so when one waits for an approval
\* or was not executed; an approval given later does not change what it says.
\* One that asks the founder for clarification has done none of the calls its
\* plan may carry (JarvisService.run_command).
AnswerHidesNothing ==
    \A r \in Runs :
        Answered(r) =>
            LET results == jarvis[r].results
            IN  /\ Len(results) = Made(jarvis[r])
                /\ messages[r] = [user |-> 1, tool |-> Made(jarvis[r]), assistant |-> 1]
                /\ Len(ledger[r]) = Len(results)
                /\ \A i \in DOMAIN results :
                      results[i] \in {ledger[r][i], "pending_approval"}
                /\ jarvis[r].status = "COMPLETED" =>
                      \A i \in DOMAIN results : ledger[r][i] = "completed"
                /\ Has(ledger[r], "pending_approval") => jarvis[r].status = "AWAITING_APPROVAL"

\* Whatever becomes of a run, what its calls did is in the conversation, all but
\* the last: a result is noted before the next call is made
\* (JarvisService.run_command, _persist_tool_message).
ResultsAreNoted ==
    \A r \in Runs : Len(ledger[r]) <= messages[r].tool + 1

\* A command acts once: after a run that answered no other is started, unless
\* its process died, it could not store the response, its claim went stale while
\* it worked, or a run that had lost the claim failed it; and a stored response
\* is that of a run that answered (router.execute_jarvis_command).
CommandActsOnce ==
    \A c \in Commands :
        /\ \A i \in 1..MaxRuns :
              i < taken[c].tries /\ Answered(<<c, i>>) => <<c, i>> \in cut \cup overtaken
        /\ taken[c].status = "completed" => Answered(<<c, taken[c].told>>)

\* What a command answers is what was done, once (JarvisService.run_command,
\* router.execute_jarvis_command).
CommandsAnswerTruly == AnswerHidesNothing /\ CommandActsOnce

\* Every run ends, unless its process or the database dies (JarvisService._fail_run).
EveryRunEnds ==
    \A r \in Runs :
        jarvis[r].status = "PLANNING" ~> jarvis[r].status # "PLANNING" \/ r \in cut
=============================================================================
