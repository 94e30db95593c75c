------------------------------- MODULE Mailbox -------------------------------
(***************************************************************************)
(* What the engine slips into an agent's next tool result                  *)
(* (src/src/mcp-server.ts, messaging.ts, directives.ts): directives, from  *)
(* a Redis list that is read and then deleted, and messages of peers and   *)
(* broadcasts, from streams whose read positions the engine keeps in its   *)
(* memory.  One session, whose tool calls may overlap, and one project.    *)
(*                                                                         *)
(* A result whose first part is no text drops what was slipped in.         *)
(***************************************************************************)
EXTENDS Integers, FiniteSets

CONSTANTS
    Calls,            \* tool calls of the session under way
    MaxDirectives,    \* bound on the directives pushed
    MaxMessages,      \* bound on the messages sent
    MaxDrops          \* bound on results without text and on engines that end

ASSUME MailboxAssumption == MaxDirectives \in Nat /\ MaxMessages \in Nat /\ MaxDrops \in Nat

VARIABLES
    directives,     \* directive:<graph>:<task>, the list: the numbers of those in it
    pushed,         \* how many have been pushed
    inbox,          \* length of the stream inbox:<session>
    inboxCursor,    \* inboxCursors of the engine
    toolCall,       \* call -> how far its result is, and what it will carry
    shown,          \* what results have carried: directives and messages
    dropped,        \* history: what was read for a result that did not carry it
    drops

mailboxVars == <<directives, pushed, inbox, inboxCursor, toolCall, shown, dropped, drops>>

Directive(n) == <<"directive", n>>
Message(n) == <<"message", n>>
NoCall == [step |-> "none", carries |-> {}, upTo |-> 0]

MailboxInit ==
    /\ directives = {} /\ pushed = 0
    /\ inbox = 0 /\ inboxCursor = 0
    /\ toolCall = [c \in Calls |-> NoCall]
    /\ shown = {} /\ dropped = {} /\ drops = 0

\* pushDirective: rpush.
PushDirective ==
    /\ pushed < MaxDirectives
    /\ pushed' = pushed + 1
    /\ directives' = directives \cup {Directive(pushed + 1)}
    /\ UNCHANGED <<inbox, inboxCursor, toolCall, shown, dropped, drops>>

\* sendMessage: xadd.
SendMessage ==
    /\ inbox < MaxMessages
    /\ inbox' = inbox + 1
    /\ UNCHANGED <<directives, pushed, inboxCursor, toolCall, shown, dropped, drops>>

\* A tool has run: hasDirectives, and lrange if there are any.
ReadDirectives(c) ==
    /\ toolCall[c] = NoCall
    /\ toolCall' = [toolCall EXCEPT ![c] =
           [NoCall EXCEPT !.step = IF directives = {} THEN "inbox" ELSE "delete",
                          !.carries = directives]]
    /\ UNCHANGED <<directives, pushed, inbox, inboxCursor, shown, dropped, drops>>

\* del, in a second command.
DeleteDirectives(c) ==
    /\ toolCall[c].step = "delete"
    /\ directives' = {}
    /\ toolCall' = [toolCall EXCEPT ![c].step = "inbox"]
    /\ UNCHANGED <<pushed, inbox, inboxCursor, shown, dropped, drops>>

\* checkMessages: xread from the cursor on ...
ReadInbox(c) ==
    /\ toolCall[c].step = "inbox"
    /\ toolCall' = [toolCall EXCEPT
           ![c].step = "advance",
           ![c].carries = @ \cup {Message(n) : n \in inboxCursor + 1 .. inbox},
           ![c].upTo = IF inbox > inboxCursor THEN inbox ELSE 0]
    /\ UNCHANGED <<directives, pushed, inbox, inboxCursor, shown, dropped, drops>>

\* Mutant: the cursor is set to the end of the stream.
Advanced_Latest(c) == inbox

\* ... and the cursor set to the last message read, if any was: it may go back.
Advanced(c) == IF toolCall[c].upTo = 0 THEN inboxCursor ELSE toolCall[c].upTo

AdvanceCursor(c) ==
    /\ toolCall[c].step = "advance"
    /\ inboxCursor' = Advanced(c)
    /\ toolCall' = [toolCall EXCEPT ![c].step = "answer"]
    /\ UNCHANGED <<directives, pushed, inbox, shown, dropped, drops>>

AnswerCall(c) ==
    /\ toolCall[c].step = "answer"
    /\ toolCall' = [toolCall EXCEPT ![c] = NoCall]
    /\ \/ /\ shown' = shown \cup toolCall[c].carries
          /\ UNCHANGED <<dropped, drops>>
       \/ /\ toolCall[c].carries # {} /\ drops < MaxDrops /\ drops' = drops + 1
          /\ dropped' = dropped \cup toolCall[c].carries
          /\ UNCHANGED shown
    /\ UNCHANGED <<directives, pushed, inbox, inboxCursor>>

\* The engine ends, or another one takes the session over: the cursor starts again from
\* "0-0"; what the calls under way had in hand is lost with them.
EngineRestarts ==
    /\ drops < MaxDrops /\ drops' = drops + 1
    /\ inboxCursor' = 0
    /\ dropped' = dropped \cup UNION {toolCall[c].carries : c \in Calls}
    /\ toolCall' = [c \in Calls |-> NoCall]
    /\ UNCHANGED <<directives, pushed, inbox, shown>>

MailboxNext ==
    \/ PushDirective \/ SendMessage \/ EngineRestarts
    \/ \E c \in Calls :
           \/ ReadDirectives(c) \/ DeleteDirectives(c) \/ ReadInbox(c)
           \/ AdvanceCursor(c) \/ AnswerCall(c)

MailboxSpec == MailboxInit /\ [][MailboxNext]_mailboxVars

-----------------------------------------------------------------------------
(* Properties *)

Items == {Directive(n) : n \in 1 .. MaxDirectives} \cup {Message(n) : n \in 1 .. MaxMessages}

MailboxTypeOK ==
    /\ directives \subseteq Items /\ shown \subseteq Items /\ dropped \subseteq Items
    /\ pushed \in 0 .. MaxDirectives
    /\ inbox \in 0 .. MaxMessages /\ inboxCursor \in 0 .. MaxMessages
    /\ toolCall \in [Calls -> [step : {"none", "delete", "inbox", "advance", "answer"},
                               carries : SUBSET Items, upTo : 0 .. MaxMessages]]
    /\ drops \in 0 .. MaxDrops

InHand == UNION {toolCall[c].carries : c \in Calls}

\* What the inbox cursor has passed was shown to the agent, or is about to be, however
\* its calls overlap and the cursor jumps (messaging.ts:43-65); or a result without text,
\* or the end of an engine, dropped it.
MessagesAreShown ==
    \A n \in 1 .. inboxCursor : Message(n) \in shown \cup InHand \cup dropped

\* A directive that was pushed is waiting, or shown, or about to be, or dropped:
\* drainDirectives is to "atomically read and clear" (directives.ts:42).
DirectivesAreShown ==
    \A n \in 1 .. pushed : Directive(n) \in directives \cup shown \cup InHand \cup dropped
=============================================================================
