------------------------------- MODULE Workspace -------------------------------
(***************************************************************************)
(* What the agents of a graph are told of each other: the intents they     *)
(* declare (workspace/ledger.ts), the discoveries they post                *)
(* (workspace/discovery.ts), and the notes that are added to the answers   *)
(* of their tool calls (workspace/enrichment.ts, the wrapper in            *)
(* mcp-server.ts).  All of it is in Redis, read and written command by     *)
(* command; the calls of one agent may overlap.                            *)
(*                                                                         *)
(* What an intent is about is the set of topics that match it: those its   *)
(* description mentions and those of its files.  That a call's answer      *)
(* reaches its agent is taken for granted; the advisory notes on other     *)
(* graphs, and the intents a child graph sees of its parent, are left out. *)
(***************************************************************************)
EXTENDS Naturals, Sequences

CONSTANTS
    ToolCalls, AgentOf,     \* the calls that may be under way, and whose each is
    Footprints, Topics,     \* sets of files that are declared, topics of discoveries
    MaxPosts, MaxToolCalls  \* bounds: discoveries posted, calls begun

Agents == {AgentOf[c] : c \in ToolCalls}

VARIABLES
    intent,      \* agent -> its intent
    discoveries, \* the stream of the graph: the topics of what was posted
    agentCall,   \* call -> where it is, and what it has read
    begun,       \* calls begun
    gone,        \* agents whose task has ended
    warned,      \* history: <<a, b, f>>: a has been told that b, too, has declared f
    noted,       \* history: agent -> the discoveries it has been shown
    steady,      \* history: agent -> the discoveries its intent has matched since their posting
    outran       \* history: agents that declared anew while a call of theirs was choosing notes

workspaceVars == <<intent, discoveries, agentCall, begun, gone, warned, noted, steady, outran>>

Blank == [live |-> FALSE, files |-> {}, about |-> {}, mark |-> 0]
NotCalling ==
    [at |-> "idle", kind |-> "none", files |-> {}, left |-> {}, read |-> Blank, found |-> {}]

WorkspaceInit ==
    /\ intent = [a \in Agents |-> Blank] /\ discoveries = <<>>
    /\ agentCall = [c \in ToolCalls |-> NotCalling] /\ begun = 0 /\ gone = {}
    /\ warned = {} /\ noted = [a \in Agents |-> {}] /\ steady = [a \in Agents |-> {}]
    /\ outran = {}

GetIntent(a) == intent[a]
Relevant(n, i) == discoveries[n] \in i.about

\* An intent that is declared anew starts from now: the mark moves to the end of the stream.
PublishIntent_Now(a, files, about, mark) ==
    LET new == [live |-> TRUE, files |-> files, about |-> about, mark |-> Len(discoveries)]
    IN  /\ intent' = [intent EXCEPT ![a] = new]
        /\ warned' = {t \in warned : a \in {t[1], t[2]} => t[3] \in files}
        /\ steady' = [steady EXCEPT ![a] = {n \in @ : Relevant(n, new)}]

\* Fields that are not given stay as they are; an intent that was not there is made.
PublishIntent(a, files, about, mark) ==
    LET new == [live |-> TRUE, files |-> files, about |-> about, mark |-> mark]
    IN  /\ intent' = [intent EXCEPT ![a] = new]
        /\ warned' = {t \in warned : a \in {t[1], t[2]} => t[3] \in files}
        /\ steady' = [steady EXCEPT ![a] = {n \in @ : Relevant(n, new)}]

RemoveIntent(a) ==
    /\ intent' = [intent EXCEPT ![a] = Blank]
    /\ warned' = {t \in warned : a \notin {t[1], t[2]}} /\ steady' = [steady EXCEPT ![a] = {}]

-----------------------------------------------------------------------------
(* The calls: declare_intent publishes and looks for conflicts; set_status publishes what its  *)
(* description says, and looks for conflicts and for discoveries; send_message and set_handoff *)
(* (here: talk) look for conflicts, check_messages for discoveries.                            *)

Choosing(a) == \E c \in ToolCalls : AgentOf[c] = a /\ agentCall[c].at \in {"stream", "mark"}

BeginCall(c, kind, at) ==
    /\ agentCall[c].at = "idle" /\ AgentOf[c] \notin gone /\ begun < MaxToolCalls
    /\ begun' = begun + 1
    /\ agentCall' = [agentCall EXCEPT ![c] = [NotCalling EXCEPT !.kind = kind, !.at = at]]
    /\ UNCHANGED <<discoveries, gone, noted>>

Declare(c, kind) ==
    \E files \in Footprints, about \in SUBSET Topics :
        LET a == AgentOf[c] IN
        /\ BeginCall(c, kind, "mine")
        /\ PublishIntent(a, IF kind = "status" /\ files = {} THEN intent[a].files ELSE files,
                         about, intent[a].mark)
        /\ outran' = IF Choosing(a) THEN outran \cup {a} ELSE outran

Ask(c) ==
    /\ BeginCall(c, "check", "intent") \/ BeginCall(c, "talk", "mine")
    /\ UNCHANGED <<intent, warned, steady, outran>>

AfterConflicts(c) == IF agentCall[c].kind = "status" THEN [NotCalling EXCEPT !.at = "intent"]
                                                    ELSE NotCalling

\* detectConflicts reads its own intent; without files there is nothing to compare.
ReadMine(c) ==
    LET files == GetIntent(AgentOf[c]).files IN
    /\ agentCall[c].at = "mine"
    /\ agentCall' = [agentCall EXCEPT ![c] =
          IF files # {} THEN [@ EXCEPT !.at = "scan", !.files = files] ELSE AfterConflicts(c)]
    /\ UNCHANGED <<intent, discoveries, begun, gone, warned, noted, steady, outran>>

\* The keys there are, and then what each of them holds; a file of both is a conflict.
ScanIntents(c) ==
    /\ agentCall[c].at = "scan"
    /\ agentCall' = [agentCall EXCEPT ![c].at = "others",
                       ![c].left = {b \in Agents \ {AgentOf[c]} : intent[b].live}]
    /\ UNCHANGED <<intent, discoveries, begun, gone, warned, noted, steady, outran>>

ReadOther(c, b) ==
    /\ agentCall[c].at = "others" /\ b \in agentCall[c].left
    /\ agentCall' = [agentCall EXCEPT ![c].left = @ \ {b}]
    /\ warned' = warned \cup
          {<<AgentOf[c], b, f>> : f \in agentCall[c].files \cap GetIntent(b).files}
    /\ UNCHANGED <<intent, discoveries, begun, gone, noted, steady, outran>>

ConflictsFound(c) ==
    /\ agentCall[c].at = "others" /\ agentCall[c].left = {}
    /\ agentCall' = [agentCall EXCEPT ![c] = AfterConflicts(c)]
    /\ UNCHANGED <<intent, discoveries, begun, gone, warned, noted, steady, outran>>

\* Discoveries are chosen after the mark of the intent; there are none for an agent without one.
ReadIntent(c) ==
    LET i == GetIntent(AgentOf[c]) IN
    /\ agentCall[c].at = "intent"
    /\ agentCall' = [agentCall EXCEPT ![c] =
          IF i.live THEN [@ EXCEPT !.at = "stream", !.read = i] ELSE NotCalling]
    /\ UNCHANGED <<intent, discoveries, begun, gone, warned, noted, steady, outran>>

GetNewDiscoveries(c) ==
    LET i == agentCall[c].read
        found == {n \in i.mark + 1 .. Len(discoveries) : Relevant(n, i)}
    IN  /\ agentCall[c].at = "stream"
        /\ agentCall' = [agentCall EXCEPT ![c] =
              IF found # {} THEN [NotCalling EXCEPT !.at = "mark", !.found = found] ELSE NotCalling]
        /\ UNCHANGED <<intent, discoveries, begun, gone, warned, noted, steady, outran>>

Latest(found) == CHOOSE n \in found : \A k \in found : k <= n

ShowDiscoveries(c) ==
    LET a == AgentOf[c]
        found == agentCall[c].found
    IN  /\ agentCall[c].at = "mark"
        /\ PublishIntent(a, intent[a].files, intent[a].about, Latest(found))
        /\ noted' = [noted EXCEPT ![a] = @ \cup found]
        /\ agentCall' = [agentCall EXCEPT ![c] = NotCalling]
        /\ UNCHANGED <<discoveries, begun, gone, outran>>

-----------------------------------------------------------------------------
PostDiscovery ==
    \E topic \in Topics :
        /\ Len(discoveries) < MaxPosts
        /\ discoveries' = Append(discoveries, topic)
        /\ steady' = [a \in Agents |-> IF topic \in intent[a].about
                         THEN steady[a] \cup {Len(discoveries) + 1} ELSE steady[a]]
        /\ UNCHANGED <<intent, agentCall, begun, gone, warned, noted, outran>>

\* The engine that sees the agent's exit removes its intent; a health sweep that does leaves it.
AgentEnds(a) ==
    /\ a \notin gone /\ gone' = gone \cup {a}
    /\ RemoveIntent(a) \/ UNCHANGED <<intent, warned, steady>>
    /\ UNCHANGED <<discoveries, agentCall, begun, noted, outran>>

\* An hour after it was last published.
Expire(a) ==
    /\ intent[a].live /\ RemoveIntent(a)
    /\ UNCHANGED <<discoveries, agentCall, begun, gone, noted, outran>>

WorkspaceNext ==
    \/ \E c \in ToolCalls :
          \/ Declare(c, "declare") \/ Declare(c, "status") \/ Ask(c)
          \/ ReadMine(c) \/ ScanIntents(c) \/ \E b \in Agents : ReadOther(c, b)
          \/ ConflictsFound(c) \/ ReadIntent(c) \/ GetNewDiscoveries(c) \/ ShowDiscoveries(c)
    \/ PostDiscovery \/ \E a \in Agents : AgentEnds(a) \/ Expire(a)

-----------------------------------------------------------------------------
Busy(a) == \E c \in ToolCalls : AgentOf[c] = a /\ agentCall[c].at # "idle"

\* Two agents that have both declared a file, with no call under way, do not both work on it
\* unawares: each publishes its intent before it reads the other's, so the later to publish has
\* been told of the earlier (ledger.ts, detectConflicts; declare-intent.ts).
ConflictsAreTold ==
    \A a, b \in Agents : \A f \in intent[a].files \cap intent[b].files :
        a # b /\ ~Busy(a) /\ ~Busy(b) => <<a, b, f>> \in warned \/ <<b, a, f>> \in warned

\* The mark never passes a discovery that has concerned the agent since it was posted and that
\* it was not shown, however its calls overlap (enrichment.ts, lastDiscoveryId) -- unless it
\* declared another intent while one of them was choosing, which goes by the older intent.
NoNoteIsSkipped ==
    \A a \in Agents \ outran : \A n \in steady[a] : n <= intent[a].mark => n \in noted[a]

WhatConcernsThemIsTold == ConflictsAreTold /\ NoNoteIsSkipped
=============================================================================
