----------------------------- MODULE MCAuthority -----------------------------
(* What administrators lay down, for TLC, in parts: calls that initialise a   *)
(* business, administrators who publish versions, administrators who change   *)
(* the principal, approvals of two evaluations; the rules on a grid of        *)
(* policies and facts; and uploads of the master data that facts are read     *)
(* from.                                                                      *)
EXTENDS AuthorityControl, PolicyCases, StructuredDocuments

CONSTANTS e1, e2, u1

VARIABLES part, batch

Settings(mode, margin, discount, value, messages) ==
    [mode |-> mode, minimum_margin |-> margin, maximum_discount |-> discount,
     maximum_value |-> value, message_limit |-> messages]

Loose == Settings("execute_low_risk", 1, 2, 2, 2)
Tight == Settings("execute_low_risk", 1, 1, 2, 2)
MCDefaultSettings == Settings("recommend_only", 1, 1, 2, 2)
MCSettingsValues == {MCDefaultSettings, Loose, Tight}

MCPolicyValues ==
    {DefaultPolicies[Action], Rule("approval_required", "quotation:prepare", "finance_manager")}

Discount(d) ==
    [missing |-> "none", margin |-> 1, discount |-> d, value |-> 0, price |-> 1, floor |-> 1]
MCFacts == {Discount(2), Discount(3)}

-----------------------------------------------------------------------------
(* The grid *)

Missing == {"none", "information", "master_data"}

FactsOf(a) ==
    CASE a \in Messages ->
           [missing : Missing, opted_out : BOOLEAN, recipient : BOOLEAN, provider : BOOLEAN,
            sent_today : 0..2, commitment : BOOLEAN]
      [] a \in Commercial ->
           [missing : Missing, margin : {0, 1, 2, Unknown}, discount : 1..3, value : 1..3,
            price : {1, Unknown}, floor : {1, 2, Unknown}]
      [] a \in Orders \cup {"sales_order_create"} ->
           [missing : Missing, complete : BOOLEAN, critical : BOOLEAN, revalidated : BOOLEAN,
            minor : BOOLEAN, validated : BOOLEAN, allocated : BOOLEAN]
      [] a = "customer_merge" -> [missing : Missing, both_named : BOOLEAN, conflict : BOOLEAN]
      [] a \in Credits -> [missing : Missing, exposure_known : BOOLEAN]
      [] a \in Deals -> [missing : Missing, accepted : BOOLEAN, reason : BOOLEAN]
      [] OTHER -> [missing : Missing]

\* Of actions with the same rules one is enough.
Typical == {"message_send", "quotation_create", "discount_apply", "negotiation_response", "po_accept",
            "sales_order_create", "customer_merge", "credit_change", "deal_close_won",
            "deal_close_lost", "create_task"}

\* Settings of every mode, and limits that a fact keeps, meets or breaks.
Relaxed(mode) == Settings(mode, 1, 2, 2, 2)

MCCases ==
    UNION {[action : {a}, policy : [mode : DecisionModes], settings : {Relaxed(m) : m \in Modes},
            facts : FactsOf(a)] : a \in Typical}

-----------------------------------------------------------------------------
(* The uploads *)

\* Two versions of a stock file and the same as a spreadsheet; two catalogs under
\* one version; a text; customers, and orders of one of them.
Upload(name, table, version, content, catalog, refers, lists) ==
    [name |-> name, table |-> table, version |-> version, content |-> content,
     catalog |-> catalog, refers |-> refers, lists |-> lists]
MCFiles ==
    {Upload("stock.csv", "stock", v, "a", FALSE, {}, {}) : v \in {1, 2}}
      \cup {Upload("catalog.csv", "catalog", 1, c, TRUE, {}, {}) : c \in {"a", "b"}}
      \cup {Upload("stock.xlsx", "stock", 1, "a", FALSE, {}, {}),
            Upload("text.pdf", Absent, 1, "a", FALSE, {}, {}),
            Upload("crm.csv", CustomerTable, 1, "a", FALSE, {}, {"ann"}),
            Upload("orders.csv", "orders", 1, "a", FALSE, {"ann"}, {})}

\* What is uploaded side by side, by so many calls.
Batch(names, calls) ==
    [files |-> {f \in MCFiles : f.name \in names}, calls |-> calls]
Batches == {Batch({"stock.csv"}, 1..3), Batch({"stock.csv", "stock.xlsx"}, 1..2),
            Batch({"catalog.csv", "text.pdf"}, 1..2), Batch({"crm.csv", "orders.csv"}, 1..3)}

\* Calls are made, and keys are used, in their order, since they are alike, for
\* the files of one batch.
InOrder ==
    /\ \A c, d \in Calls : c < d /\ upload[c].pc = "idle" => upload[d].pc = "idle"
    /\ \A c \in Calls : upload[c].pc # "idle" => c \in batch.calls
    /\ \A c \in Calls : upload[c].file \in batch.files \cup {Absent}
    /\ \A j, k \in Keys : j < k /\ answered[j].status = "none" => answered[k].status = "none"

-----------------------------------------------------------------------------
NoCase == [action |-> Unknown]
NoBatch == Batch({}, {})

Initialised(versions) ==
    /\ settings = versions
    /\ policy = <<Version(DefaultPolicies[Action], 0)>> /\ approvals = << >>
    /\ starter = [i \in Starters |-> "done"]
    /\ admin = [u \in Admins |-> Off]
    /\ evaluation = [e \in Evaluators |-> Resting]

Published == <<Version(DefaultSettings, 0), Version(Loose, 1)>>
Able == [status |-> "active", scopes |-> Scopes]

AuthorityParts ==
    \/ part = "start" /\ case = NoCase /\ AuthorityInit
    \/ /\ part = "versions" /\ case = NoCase
       /\ Initialised(<<Version(DefaultSettings, 0)>>) /\ principal = Able
    \/ /\ part = "principal" /\ case = NoCase
       /\ Initialised(Published) /\ principal = [status |-> "absent", scopes |-> {}]
    \/ /\ part = "approvals" /\ case = NoCase
       /\ Initialised(Published) /\ principal = Able
    \/ part = "rules" /\ CasesInit /\ AuthorityInit
    \/ part = "imports" /\ case = NoCase /\ AuthorityInit

MCInit ==
    /\ AuthorityParts /\ ImportInit
    /\ IF part = "imports" THEN batch \in Batches ELSE batch = NoBatch

Quiet(e) == evaluation'[e] = evaluation[e]

MCAuthorityNext ==
    \/ /\ part = "start" /\ AuthorityNext
       /\ Quiet(e1) /\ approvals' = approvals /\ admin'[u1] = admin[u1]
       /\ principal'.scopes \in {{}, Scopes} /\ principal'.status # "revoked"
       /\ Len(settings') <= 2 /\ Len(policy') <= 1
    \/ /\ part = "versions" /\ AuthorityNext
       /\ Quiet(e1) /\ Quiet(e2) /\ principal' = principal
    \/ /\ part = "principal" /\ AuthorityNext
       /\ Quiet(e2) /\ settings' = settings /\ policy' = policy
    \/ /\ part = "approvals" /\ AuthorityNext
       /\ principal' = principal /\ \A u \in Admins \ {u1} : admin'[u] = admin[u]
       /\ Len(settings') + Len(policy') <= 4
       /\ Len(settings') + Len(policy') + Len(approvals') <= 5

MCNext ==
    /\ UNCHANGED <<part, case, batch>>
    /\ \/ part = "imports" /\ ImportNext /\ InOrder' /\ UNCHANGED authorityVars
       \/ UNCHANGED importVars /\ MCAuthorityNext

MCSpec == MCInit /\ [][MCNext]_<<authorityVars, importVars, part, case, batch>>
=============================================================================
