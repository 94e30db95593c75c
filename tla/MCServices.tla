------------------------------ MODULE MCServices ------------------------------
(***************************************************************************)
(* The services of the engines, each model-checked by itself: they have no *)
(* state in common here, so a behaviour takes the steps of one of them.    *)
(***************************************************************************)
EXTENDS LeaderLease, FileLocks, TestServices, EventStream, Mailbox, MergeClone, Dispatch,
        Reports, FixIntegrity, GraphEdits, Declaration, Accounting, Workspace, Interrogation,
        PeerGraphs, Sessions, InlineCriteria, Retrospective, Gateway, Telemetry, TLC

CONSTANTS w1, child, parent, other, t1, t2, t3, o, g1, g2, f1, n1, d1, k1, u1, u2, h1, h2, ga,
    gb, c1, c2, c3, a1, a2

VARIABLE service

MCWatchedBy == w1 :> child
MCGraphOf == (t1 :> g1) @@ (t2 :> g1) @@ (t3 :> g1)
MCClashes == {{t1, t2}, {t3, o}, {t1, o}}
MCLanguageOf == (n1 :> "node") @@ (d1 :> "dotnet")
MCDeclared == (ga :> ((<<"x", 0>> :> {}) @@ (<<"y", 0>> :> {<<"x", 0>>})))
              @@ (gb :> ((<<"u", 0>> :> {}) @@ (<<"x", 0>> :> {<<"u", 0>>})))
MCNewTasks == {<<"n", 0>>}

MCUnreviewed == [flag |-> "no", byDefault |-> "yes", autoApprove |-> FALSE, large |-> FALSE]

\* Nothing is claimed of a graph that was taken back or after a call was overtaken, nor of an
\* agent that has ended or overtaken itself: such states are not continued (nor those with three
\* calls under way, of a graph that ends while the detector's clock goes on, or of two removals
\* or a loss in a service's last tick).
MCClaimed ==
    /\ service = "test services" /\ clock = MaxTime =>
          losses = 0 /\ \E y \in Removers : remover[y] = Away
    /\ service = "edits" => ~late /\ ~readdressed
    /\ service = "peers" => stale = {} /\ revived = {}
    /\ service = "workspace" =>
          /\ gone = {} /\ outran = {}
          /\ \E c \in ToolCalls : agentCall[c].at = "idle"
          /\ agentCall[c3].at # "idle" => agentCall[c1].at # "idle"
    /\ service = "sessions" => \A k \in Clients : Cardinality(upset[k]) <= 1
    /\ service = "telemetry" => superseded = {}
    /\ service = "retro" =>
          \/ root = "active" /\ resolution = FALSE /\ review = MCUnreviewed
             /\ \A d \in CompletionDrives : completing[d] = "none"
          \/ moment = 0 /\ \A e \in DOMAIN matched : matched[e].group = g1

MCTask(id, deps, each, lv, i, t, it, sv) ==
    [id |-> <<id, 0>>, deps |-> deps, forEach |-> each, level |-> lv, service |-> sv,
     commands |-> [install |-> i, test |-> t, integrationTest |-> it]]
MCFirst ==
    {MCTask("a", {}, each, lv, i, t, it, sv) :
        each \in BOOLEAN, lv \in DOMAIN Priority, i \in {None, "a"}, t \in {None, "a", "installs"},
        it \in {None, "a"}, sv \in {None, "api"}}
    \cup {MCTask("a", {<<"b", 0>>}, FALSE, None, None, None, None, None)}
MCSecond ==
    {MCTask("b", deps, FALSE, lv, None, t, None, None) :
        deps \in {{}, {<<"a", 0>>}}, lv \in DOMAIN Priority, t \in {None, "b"}}
    \cup {MCTask("b", {<<"c", 0>>}, FALSE, None, None, None, None, None)}
MCNoInput == <<MCTask("a", {}, FALSE, None, None, None, None, None)>>
MCInputs ==
    LET first == {z \in MCFirst :
                     /\ z.level = "integration" \/ z.commands.integrationTest = None
                     /\ z.forEach => z.commands.install = None /\ z.service = None}
    IN  {MCNoInput} \cup {<<x, y>> : x \in first, y \in MCSecond}
MCCommands(i, t) == [install |-> i, test |-> t, integrationTest |-> None]
MCRecipes == {<<>>, [api |-> MCCommands("r", "r")],
              [web |-> MCCommands(None, "r"), lib |-> MCCommands("r", None)]}
MCDefaults == {MCCommands(None, "d")}
MCCriteria == {{}, {"agent"}, {"exec"}}
MCAgentOf == (c1 :> a1) @@ (c2 :> a2) @@ (c3 :> a1)
MCFootprints == {{}, {"f"}}
MCTail(edits) == [calls |-> 3, repeats |-> TRUE, edits |-> edits, errors |-> FALSE]
MCTranscripts == {MCTail(TRUE), MCTail(FALSE)}
MCCriterion(t, f, n) == [type |-> t, onFail |-> f, maxRetries |-> n]
MCPlain == MCCriterion("command", "fail", 1)
MCChecks == {MCPlain, MCCriterion("command", "retry", 2), MCCriterion("command", "fix", 1),
             MCCriterion("assertion", "fix", 1), MCCriterion("assertion", "retry", 1)}
MCLists == {<<a, b>> : a \in MCChecks, b \in MCChecks}
MCFound(category, filed) == [category |-> category, filed |-> filed]
MCFindings == {<<>>,
               <<MCFound("auto-improve", FALSE), MCFound("auto-improve", FALSE),
                 MCFound("ask-user", FALSE)>>,
               <<MCFound("investigate", FALSE), MCFound("ask-user", TRUE),
                 MCFound("auto-improve", FALSE)>>}
MCReviews == {[flag |-> f, byDefault |-> d, autoApprove |-> a, large |-> l] :
                 <<f, d, l>> \in {<<"yes", "no", FALSE>>, <<"no", "yes", FALSE>>,
                     <<"unset", "yes", FALSE>>, <<"unset", "no", FALSE>>,
                     <<"unset", "unset", FALSE>>, <<"unset", "unset", TRUE>>},
                 a \in BOOLEAN}

MCInit ==
    /\ service \in {"lease", "locks", "test services", "events", "mailbox", "clone", "dispatch",
                    "reports", "integrity", "edits", "declaration", "accounting", "workspace",
                    "interrogation", "peers", "sessions", "inline", "retro", "gateway",
                    "telemetry"}
    /\ LeaseInit
    /\ LocksInit
    /\ ServicesInit
    /\ EventsInit
    /\ MailboxInit
    /\ CloneInit
    /\ service # "clone" => policy = "promote"
    /\ DispatchInit
    /\ service # "dispatch" => setting = Plain
    /\ ReportsInit
    /\ IntegrityInit
    /\ service # "integrity" => gateKind = "suite" /\ toolchain = "node"
    /\ EditsInit
    /\ DeclarationInit
    /\ service = "declaration" => criteria = {} \/ recipe = <<>>
    /\ service # "declaration" => tasks = MCNoInput /\ recipe = <<>> /\ criteria = {}
    /\ AccountingInit
    /\ service # "accounting" => captured
    /\ WorkspaceInit
    /\ InterrogationInit
    /\ service # "interrogation" => tail = MCTail(TRUE)
    /\ PeersInit
    /\ SessionsInit
    /\ CriteriaInit
    /\ service # "inline" => criterionList = <<MCPlain, MCPlain>>
    /\ service # "inline" => ~execGate /\ cwdThere /\ children = <<>>
    /\ RetroInit
    /\ service = "retro" => review \in MCReviews
    /\ service # "retro" => review = MCUnreviewed
    /\ GatewayInit
    /\ TelemetryInit

MCNext ==
    /\ UNCHANGED service
    /\ \/ service = "lease" /\ LeaseNext
          /\ UNCHANGED <<lockVars, servicesVars, eventVars, mailboxVars, cloneVars,
                        dispatchVars, reportVars, integrityVars, editVars, declarationVars,
                        accountingVars, workspaceVars, interrogationVars, peerVars, sessionVars,
                        criteriaVars, retroVars, gatewayVars, telemetryVars>>
       \/ service = "locks" /\ LocksNext
          /\ UNCHANGED <<leaseVars, servicesVars, eventVars, mailboxVars, cloneVars,
                        dispatchVars, reportVars, integrityVars, editVars, declarationVars,
                        accountingVars, workspaceVars, interrogationVars, peerVars, sessionVars,
                        criteriaVars, retroVars, gatewayVars, telemetryVars>>
       \/ service = "test services" /\ ServicesNext
          /\ UNCHANGED <<leaseVars, lockVars, eventVars, mailboxVars, cloneVars, dispatchVars,
                        reportVars, integrityVars, editVars, declarationVars, accountingVars,
                        workspaceVars, interrogationVars, peerVars, sessionVars, criteriaVars,
                        retroVars, gatewayVars, telemetryVars>>
       \/ service = "events" /\ EventsNext
          /\ UNCHANGED <<leaseVars, lockVars, servicesVars, mailboxVars, cloneVars,
                        dispatchVars, reportVars, integrityVars, editVars, declarationVars,
                        accountingVars, workspaceVars, interrogationVars, peerVars, sessionVars,
                        criteriaVars, retroVars, gatewayVars, telemetryVars>>
       \/ service = "mailbox" /\ MailboxNext
          /\ UNCHANGED <<leaseVars, lockVars, servicesVars, eventVars, cloneVars, dispatchVars,
                        reportVars, integrityVars, editVars, declarationVars, accountingVars,
                        workspaceVars, interrogationVars, peerVars, sessionVars, criteriaVars,
                        retroVars, gatewayVars, telemetryVars>>
       \/ service = "clone" /\ CloneNext
          /\ UNCHANGED <<leaseVars, lockVars, servicesVars, eventVars, mailboxVars,
                        dispatchVars, reportVars, integrityVars, editVars, declarationVars,
                        accountingVars, workspaceVars, interrogationVars, peerVars, sessionVars,
                        criteriaVars, retroVars, gatewayVars, telemetryVars>>
       \/ service = "dispatch" /\ DispatchNext
          /\ UNCHANGED <<leaseVars, lockVars, servicesVars, eventVars, mailboxVars, cloneVars,
                        reportVars, integrityVars, editVars, declarationVars, accountingVars,
                        workspaceVars, interrogationVars, peerVars, sessionVars, criteriaVars,
                        retroVars, gatewayVars, telemetryVars>>
       \/ service = "reports" /\ ReportsNext
          /\ UNCHANGED <<leaseVars, lockVars, servicesVars, eventVars, mailboxVars, cloneVars,
                        dispatchVars, integrityVars, editVars, declarationVars, accountingVars,
                        workspaceVars, interrogationVars, peerVars, sessionVars, criteriaVars,
                        retroVars, gatewayVars, telemetryVars>>
       \/ service = "integrity" /\ IntegrityNext
          /\ UNCHANGED <<leaseVars, lockVars, servicesVars, eventVars, mailboxVars, cloneVars,
                        dispatchVars, reportVars, editVars, declarationVars, accountingVars,
                        workspaceVars, interrogationVars, peerVars, sessionVars, criteriaVars,
                        retroVars, gatewayVars, telemetryVars>>
       \/ service = "edits" /\ EditsNext
          /\ UNCHANGED <<leaseVars, lockVars, servicesVars, eventVars, mailboxVars, cloneVars,
                        dispatchVars, reportVars, integrityVars, declarationVars,
                        accountingVars, workspaceVars, interrogationVars, peerVars, sessionVars,
                        criteriaVars, retroVars, gatewayVars, telemetryVars>>
       \/ service = "declaration" /\ DeclarationNext
          /\ UNCHANGED <<leaseVars, lockVars, servicesVars, eventVars, mailboxVars, cloneVars,
                        dispatchVars, reportVars, integrityVars, editVars, accountingVars,
                        workspaceVars, interrogationVars, peerVars, sessionVars, criteriaVars,
                        retroVars, gatewayVars, telemetryVars>>
       \/ service = "accounting" /\ AccountingNext
          /\ UNCHANGED <<leaseVars, lockVars, servicesVars, eventVars, mailboxVars, cloneVars,
                        dispatchVars, reportVars, integrityVars, editVars, declarationVars,
                        workspaceVars, interrogationVars, peerVars, sessionVars, criteriaVars,
                        retroVars, gatewayVars, telemetryVars>>
       \/ service = "workspace" /\ WorkspaceNext
          /\ UNCHANGED <<leaseVars, lockVars, servicesVars, eventVars, mailboxVars, cloneVars,
                        dispatchVars, reportVars, integrityVars, editVars, declarationVars,
                        accountingVars, interrogationVars, peerVars, sessionVars, criteriaVars,
                        retroVars, gatewayVars, telemetryVars>>
       \/ service = "interrogation" /\ InterrogationNext
          /\ UNCHANGED <<leaseVars, lockVars, servicesVars, eventVars, mailboxVars, cloneVars,
                        dispatchVars, reportVars, integrityVars, editVars, declarationVars,
                        accountingVars, workspaceVars, peerVars, sessionVars, criteriaVars,
                        retroVars, gatewayVars, telemetryVars>>
       \/ service = "peers" /\ PeersNext
          /\ UNCHANGED <<leaseVars, lockVars, servicesVars, eventVars, mailboxVars, cloneVars,
                        dispatchVars, reportVars, integrityVars, editVars, declarationVars,
                        accountingVars, workspaceVars, interrogationVars, sessionVars,
                        criteriaVars, retroVars, gatewayVars, telemetryVars>>
       \/ service = "sessions" /\ SessionsNext
          /\ UNCHANGED <<leaseVars, lockVars, servicesVars, eventVars, mailboxVars, cloneVars,
                        dispatchVars, reportVars, integrityVars, editVars, declarationVars,
                        accountingVars, workspaceVars, interrogationVars, peerVars,
                        criteriaVars, retroVars, gatewayVars, telemetryVars>>
       \/ service = "inline" /\ CriteriaNext
          /\ UNCHANGED <<leaseVars, lockVars, servicesVars, eventVars, mailboxVars, cloneVars,
                        dispatchVars, reportVars, integrityVars, editVars, declarationVars,
                        accountingVars, workspaceVars, interrogationVars, peerVars, sessionVars,
                        retroVars, gatewayVars, telemetryVars>>
       \/ service = "retro" /\ RetroNext
          /\ UNCHANGED <<leaseVars, lockVars, servicesVars, eventVars, mailboxVars, cloneVars,
                        dispatchVars, reportVars, integrityVars, editVars, declarationVars,
                        accountingVars, workspaceVars, interrogationVars, peerVars, sessionVars,
                        criteriaVars, gatewayVars, telemetryVars>>
       \/ service = "gateway" /\ GatewayNext
          /\ UNCHANGED <<leaseVars, lockVars, servicesVars, eventVars, mailboxVars, cloneVars,
                        dispatchVars, reportVars, integrityVars, editVars, declarationVars,
                        accountingVars, workspaceVars, interrogationVars, peerVars, sessionVars,
                        criteriaVars, retroVars, telemetryVars>>
       \/ service = "telemetry" /\ TelemetryNext
          /\ UNCHANGED <<leaseVars, lockVars, servicesVars, eventVars, mailboxVars, cloneVars,
                        dispatchVars, reportVars, integrityVars, editVars, declarationVars,
                        accountingVars, workspaceVars, interrogationVars, peerVars, sessionVars,
                        criteriaVars, retroVars, gatewayVars>>

MCVars == <<service, leaseVars, lockVars, servicesVars, eventVars, mailboxVars, cloneVars,
            dispatchVars, reportVars, integrityVars, editVars, declarationVars, accountingVars,
            workspaceVars, interrogationVars, peerVars, sessionVars, criteriaVars, retroVars,
            gatewayVars, telemetryVars>>
MCSpec == MCInit /\ [][MCNext]_MCVars
=============================================================================
