-------------------------- MODULE Messaging_proofs --------------------------
(*****************************************************************************)
(* Proofs about what is delivered and who is told: the messages slipped into *)
(* tool results, the events of a graph, what agents of one workspace tell    *)
(* each other and what graphs know of each other. For any number of calls,   *)
(* watchers, messages, events, agents and graphs.                            *)
(*****************************************************************************)
EXTENDS Mailbox, EventStream, Workspace, PeerGraphs, FiniteSetTheorems, WellFoundedInduction, TLAPS


-----------------------------------------------------------------------------
\* Messages. What a call will set the cursor to is covered up to there: shown, in a result
\* under way or dropped. Nothing covered becomes uncovered.

\* Nobody needs to see the message again: a result showed it, or carries it, or dropped it.
Covered(n) == Message(n) \in shown \cup InHand \cup dropped

\* What a call will set the cursor to is covered up to there, like what the cursor has passed.
MailInv ==
    /\ MailboxTypeOK
    /\ MessagesAreShown
    /\ \A c \in Calls : toolCall[c].step = "advance" =>
          \A n \in 1 .. toolCall[c].upTo : Covered(n)

CallStates == [step : {"none", "delete", "inbox", "advance", "answer"},
               carries : SUBSET Items, upTo : 0 .. MaxMessages]

LEMMA MailInitially == MailboxInit => MailInv
  BY MailboxAssumption
  DEF MailboxInit, MailInv, MailboxTypeOK, MessagesAreShown, Items, NoCall

\* A step that covers what was covered, moves no cursor forward and takes no call to "advance".
LEMMA Covering ==
    ASSUME MailInv, MailboxTypeOK',
           \A n \in 1 .. MaxMessages : Covered(n) => Covered(n)',
           inboxCursor' \in {0, inboxCursor},
           \A c \in Calls : toolCall'[c].step = "advance" =>
               toolCall[c].step = "advance" /\ toolCall'[c].upTo = toolCall[c].upTo
    PROVE  MailInv'
<1> USE MailboxAssumption
<1>1. MessagesAreShown'
  BY DEF MailInv, MailboxTypeOK, MessagesAreShown, Covered
<1>2. ASSUME NEW c \in Calls, toolCall'[c].step = "advance", NEW n \in 1 .. toolCall'[c].upTo
      PROVE Covered(n)'
  <2>1. toolCall[c].upTo \in 0 .. MaxMessages
    BY DEF MailInv, MailboxTypeOK
  <2> QED
    BY <1>2, <2>1 DEF MailInv
<1> QED
  BY <1>1, <1>2 DEF MailInv

LEMMA MailSteps == MailInv /\ [MailboxNext]_mailboxVars => MailInv'
<1> SUFFICES ASSUME MailInv, [MailboxNext]_mailboxVars PROVE MailInv'
  OBVIOUS
<1>t. MailboxTypeOK
  BY DEF MailInv
<1> USE MailboxAssumption
<1>1. CASE PushDirective \/ SendMessage
  <2>1. MailboxTypeOK'
    BY <1>1, <1>t DEF PushDirective, SendMessage, MailboxTypeOK, Items
  <2> QED
    BY <1>1, <2>1, Covering DEF PushDirective, SendMessage, Covered, InHand
<1>2. CASE EngineRestarts
  <2>1. MailboxTypeOK'
    BY <1>2, <1>t DEF EngineRestarts, MailboxTypeOK, NoCall
  <2>2. \A n \in 1 .. MaxMessages : Covered(n) => Covered(n)'
    BY <1>2 DEF EngineRestarts, Covered, InHand
  <2>3. inboxCursor' = 0 /\ \A c \in Calls : toolCall'[c].step # "advance"
    BY <1>2 DEF EngineRestarts, NoCall
  <2> QED
    BY <2>1, <2>2, <2>3, Covering
\* What one call has in hand grows.
<1>c. ASSUME NEW c \in Calls, NEW after, toolCall' = [toolCall EXCEPT ![c] = after],
             toolCall[c].carries \subseteq after.carries, UNCHANGED <<shown, dropped>>
      PROVE  \A n \in 1 .. MaxMessages : Covered(n) => Covered(n)'
  <2>1. \A d \in Calls : toolCall[d].carries \subseteq toolCall'[d].carries
    BY <1>c, <1>t DEF MailboxTypeOK
  <2> QED
    BY <1>c, <2>1 DEF Covered, InHand
<1>3. ASSUME NEW c \in Calls, ReadDirectives(c) PROVE MailInv'
  <2> DEFINE after == [NoCall EXCEPT !.step = IF directives = {} THEN "inbox" ELSE "delete",
                                     !.carries = directives]
  <2>1. toolCall' = [toolCall EXCEPT ![c] = after] /\ toolCall[c] = NoCall
        /\ UNCHANGED <<directives, pushed, inbox, inboxCursor, shown, dropped, drops>>
    BY <1>3 DEF ReadDirectives
  <2>2. NoCall \in CallStates /\ NoCall.carries = {}
    BY DEF NoCall, CallStates
  <2>3. after \in CallStates /\ after.step # "advance"
    BY <1>t, <2>2 DEF MailboxTypeOK, CallStates
  <2> HIDE DEF after
  <2>4. MailboxTypeOK'
    BY <1>t, <2>1, <2>3 DEF MailboxTypeOK, CallStates
  <2>5. \A n \in 1 .. MaxMessages : Covered(n) => Covered(n)'
    BY <1>c, <2>1, <2>2
  <2>6. \A d \in Calls : toolCall'[d].step = "advance" => toolCall'[d] = toolCall[d]
    BY <1>t, <2>1, <2>3 DEF MailboxTypeOK
  <2> QED
    BY <2>1, <2>4, <2>5, <2>6, Covering
<1>4. ASSUME NEW c \in Calls, DeleteDirectives(c) PROVE MailInv'
  <2> DEFINE after == [toolCall[c] EXCEPT !.step = "inbox"]
  <2>1. toolCall' = [toolCall EXCEPT ![c] = after] /\ directives' = {}
        /\ UNCHANGED <<pushed, inbox, inboxCursor, shown, dropped, drops>>
    BY <1>4 DEF DeleteDirectives
  <2>2. /\ after \in [step : {"inbox"}, carries : SUBSET Items, upTo : 0 .. MaxMessages]
        /\ after.carries = toolCall[c].carries
    BY <1>t DEF MailboxTypeOK
  <2> HIDE DEF after
  <2>3. MailboxTypeOK'
    BY <1>t, <2>1, <2>2 DEF MailboxTypeOK
  <2>4. \A n \in 1 .. MaxMessages : Covered(n) => Covered(n)'
    BY <1>c, <2>1, <2>2
  <2>5. \A d \in Calls : toolCall'[d].step = "advance" => toolCall'[d] = toolCall[d]
    BY <1>t, <2>1, <2>2 DEF MailboxTypeOK
  <2> QED
    BY <2>1, <2>3, <2>4, <2>5, Covering
<1>5. ASSUME NEW c \in Calls, ReadInbox(c) PROVE MailInv'
  <2> DEFINE read == {Message(n) : n \in inboxCursor + 1 .. inbox}
             last == IF inbox > inboxCursor THEN inbox ELSE 0
             after == [toolCall[c] EXCEPT
                 !.step = "advance", !.carries = @ \cup read, !.upTo = last]
  <2>1. toolCall' = [toolCall EXCEPT ![c] = after]
        /\ UNCHANGED <<directives, pushed, inbox, inboxCursor, shown, dropped, drops>>
    BY <1>5 DEF ReadInbox
  <2>2. read \subseteq Items /\ last \in 0 .. MaxMessages
    BY <1>t DEF MailboxTypeOK, Items
  <2>3. /\ after \in CallStates /\ after.upTo = last
        /\ after.carries = toolCall[c].carries \cup read
    BY <1>t, <2>2 DEF MailboxTypeOK, CallStates
  <2> HIDE DEF after, last, read
  <2>4. MailboxTypeOK'
    BY <1>t, <2>1, <2>3 DEF MailboxTypeOK, CallStates
  <2>5. \A n \in 1 .. MaxMessages : Covered(n) => Covered(n)'
    BY <1>c, <2>1, <2>3
  <2>6. \A n \in 1 .. inboxCursor : Covered(n)'
    BY <1>t, <2>5 DEF MailInv, MessagesAreShown, Covered, MailboxTypeOK
  <2>7. \A n \in 1 .. last : Covered(n)'
    <3> SUFFICES ASSUME NEW n \in 1 .. last PROVE Covered(n)'
      OBVIOUS
    <3>1. CASE n \in 1 .. inboxCursor
      BY <2>6, <3>1
    <3>2. CASE n \notin 1 .. inboxCursor
      <4>1. Message(n) \in read
        BY <1>t, <3>2 DEF MailboxTypeOK, read, last
      <4>2. toolCall'[c] = after
        BY <1>t, <2>1 DEF MailboxTypeOK
      <4>3. Message(n) \in InHand'
        BY <2>3, <4>1, <4>2 DEF InHand
      <4> QED
        BY <4>3 DEF Covered, Message
    <3> QED
      BY <3>1, <3>2
  <2>8. ASSUME NEW d \in Calls, toolCall'[d].step = "advance", NEW n \in 1 .. toolCall'[d].upTo
        PROVE Covered(n)'
    <3>1. CASE d = c
      BY <1>t, <2>1, <2>3, <2>7, <2>8, <3>1 DEF MailboxTypeOK
    <3>2. CASE d # c
      <4>1. toolCall'[d] = toolCall[d] /\ toolCall[d].upTo \in 0 .. MaxMessages
        BY <1>t, <2>1, <3>2 DEF MailboxTypeOK
      <4>2. Covered(n) /\ n \in 1 .. MaxMessages
        BY <2>8, <4>1 DEF MailInv
      <4> QED
        BY <2>5, <4>2
    <3> QED
      BY <3>1, <3>2
  <2>9. MessagesAreShown'
    BY <2>1, <2>6 DEF MessagesAreShown, Covered
  <2> QED
    BY <2>4, <2>8, <2>9 DEF MailInv
<1>6. ASSUME NEW c \in Calls, AdvanceCursor(c) PROVE MailInv'
  <2> DEFINE after == [toolCall[c] EXCEPT !.step = "answer"]
  <2>1. toolCall' = [toolCall EXCEPT ![c] = after] /\ toolCall[c].step = "advance"
        /\ inboxCursor' = Advanced(c)
        /\ UNCHANGED <<directives, pushed, inbox, shown, dropped, drops>>
    BY <1>6 DEF AdvanceCursor
  <2>2. /\ after \in [step : {"answer"}, carries : SUBSET Items, upTo : 0 .. MaxMessages]
        /\ after.carries = toolCall[c].carries
    BY <1>t DEF MailboxTypeOK
  <2> HIDE DEF after
  <2>3. MailboxTypeOK'
    BY <1>t, <2>1, <2>2 DEF MailboxTypeOK, Advanced
  <2>4. \A n \in 1 .. MaxMessages : Covered(n) => Covered(n)'
    BY <1>c, <2>1, <2>2
  <2>5. \A n \in 1 .. Advanced(c) : n \in 1 .. MaxMessages /\ Covered(n)
    BY <1>t, <2>1 DEF Advanced, MailInv, MessagesAreShown, Covered, MailboxTypeOK
  <2>6. MessagesAreShown'
    BY <2>1, <2>4, <2>5 DEF MessagesAreShown, Covered
  <2>7. ASSUME NEW d \in Calls, toolCall'[d].step = "advance", NEW n \in 1 .. toolCall'[d].upTo
        PROVE Covered(n)'
    <3>1. toolCall'[d] = toolCall[d] /\ toolCall[d].upTo \in 0 .. MaxMessages
      BY <1>t, <2>1, <2>2, <2>7 DEF MailboxTypeOK
    <3>2. Covered(n) /\ n \in 1 .. MaxMessages
      BY <2>7, <3>1 DEF MailInv
    <3> QED
      BY <2>4, <3>2
  <2> QED
    BY <2>3, <2>6, <2>7 DEF MailInv
<1>7. ASSUME NEW c \in Calls, AnswerCall(c) PROVE MailInv'
  <2>1. /\ toolCall' = [toolCall EXCEPT ![c] = NoCall]
        /\ \/ shown' = shown \cup toolCall[c].carries /\ UNCHANGED <<dropped, drops>>
           \/ /\ dropped' = dropped \cup toolCall[c].carries /\ UNCHANGED shown
              /\ drops < MaxDrops /\ drops' = drops + 1
        /\ UNCHANGED <<directives, pushed, inbox, inboxCursor>>
    BY <1>7 DEF AnswerCall
  <2>2. MailboxTypeOK'
    BY <1>t, <2>1 DEF MailboxTypeOK, NoCall
  <2>3. \A n \in 1 .. MaxMessages : Covered(n) => Covered(n)'
    <3>1. \A d \in Calls \ {c} : toolCall'[d] = toolCall[d]
      BY <1>t, <2>1 DEF MailboxTypeOK
    <3>2. InHand \subseteq InHand' \cup toolCall[c].carries
      BY <3>1 DEF InHand
    <3> QED
      BY <2>1, <3>2 DEF Covered, Message
  <2>4. \A d \in Calls : toolCall'[d].step = "advance" => toolCall'[d] = toolCall[d]
    BY <1>t, <2>1 DEF MailboxTypeOK, NoCall
  <2> QED
    BY <2>1, <2>2, <2>3, <2>4, Covering
<1>8. CASE UNCHANGED mailboxVars
  BY <1>8, <1>t, Covering DEF mailboxVars, MailboxTypeOK, Covered, InHand
<1> QED
  BY <1>1, <1>2, <1>3, <1>4, <1>5, <1>6, <1>7, <1>8 DEF MailboxNext

\* However the tool calls of a session overlap and wherever its cursor jumps, a message that the
\* cursor has passed was shown, or is in a result under way, or went with a result without text
\* or an engine that ended (mcp-server.ts, messaging.ts:43).
THEOREM MessagesAlwaysShown == MailboxSpec => []MessagesAreShown
<1>1. MailInv => MessagesAreShown
  BY DEF MailInv
<1> QED
  BY MailInitially, MailSteps, <1>1, PTL DEF MailboxSpec


-----------------------------------------------------------------------------
\* Events. A watcher alone in its project has read the stream up to a point that its group
\* has reached, and what it has read it was shown, unless it threw the answer away.

\* The order of the naturals has no endless descent: a set of them has a least element.
Below == {pair \in Nat \X Nat : pair[1] < pair[2]}

LEMMA MinIsLeast ==
    ASSUME NEW S \in SUBSET Nat, S # {}
    PROVE  Min(S) \in S /\ \A x \in S : Min(S) <= x
<1>1. IsWellFoundedOn(Below, Nat)
  BY NatLessThanWellFounded DEF OpToRel, Below
<1>2. PICK m \in S : \A y \in S : <<y, m>> \notin Below
  BY <1>1, WFMin
<1>3. ASSUME NEW y \in S PROVE m <= y
  <2>1. y \in Nat /\ m \in Nat
    OBVIOUS
  <2>2. <<y, m>> \in Below <=> y < m
    BY <2>1 DEF Below
  <2> QED
    BY <1>2, <2>1, <2>2
<1> QED
  BY <1>3 DEF Min

\* The first elements of an interval are one from its start.
LEMMA FirstOfInterval ==
    ASSUME NEW d \in Nat, NEW l \in Nat
    PROVE  FirstOf(d + 1 .. l) = {i \in d + 1 .. l : i <= d + Batch}
<1>1. ASSUME NEW i \in d + 1 .. l
      PROVE  Cardinality({j \in d + 1 .. l : j < i}) = i - 1 - d
  <2>1. {j \in d + 1 .. l : j < i} = d + 1 .. i - 1
    OBVIOUS
  <2> DEFINE size == Cardinality(d + 1 .. i - 1)
  <2>2. d + 1 \in Int /\ i - 1 \in Int
    OBVIOUS
  <2>3. size = IF d + 1 > i - 1 THEN 0 ELSE (i - 1) - (d + 1) + 1
    BY <2>2, FS_Interval
  <2> HIDE DEF size
  <2>4. size = i - 1 - d
    BY <2>3
  <2> QED
    BY <2>1, <2>4 DEF size
<1>2. ASSUME NEW i \in d + 1 .. l
      PROVE  i - 1 - d < Batch <=> i <= d + Batch
  BY EventsAssumption
<1> QED
  BY <1>1, <1>2 DEF FirstOf

-----------------------------------------------------------------------------
WaitStates == [step : {"none", "pending", "live"},
               batch : SUBSET Positions, matched : SUBSET Positions]

\* Where an event of the watcher's graph may be: see EventsReach.
Reached(w, i) ==
    \/ i > delivered
    \/ i \in received[w] \cup wait[w].matched \cup discarded
    \/ i \in pending[w] /\ (wait[w].step \in {"none", "pending"} \/ i \in wait[w].batch)

\* Nothing is delivered before it is emitted, and a call that has worked through its batch has
\* returned what it found.
EventsInv ==
    /\ EventsTypeOK
    /\ delivered <= Len(stream)
    /\ \A w \in Watchers : wait[w].batch = {} => wait[w].matched = {}
    /\ EventsReachAlone

LEMMA EventsInitially == EventsInit => EventsInv
  BY EventsAssumption
  DEF EventsInit, EventsInv, EventsTypeOK, EventsReachAlone, EventsReach, NoWait

\* A step that loses sight of no event and moves nothing in the stream.
LEMMA Sighted ==
    ASSUME EventsInv, EventsTypeOK', UNCHANGED <<stream, groupMade>>, delivered' <= Len(stream),
           \A w \in Watchers : wait'[w].batch = {} => wait'[w].matched = {},
           \A w \in Watchers : \A i \in 1 .. Len(stream) :
               Cardinality(Watchers) = 1 /\ stream[i] = WatchedBy[w] /\ Reached(w, i)
                   => Reached(w, i)'
    PROVE  EventsInv'
  BY DEF EventsInv, EventsReachAlone, EventsReach, Reached

LEMMA EventsSteps == EventsInv /\ [EventsNext]_eventVars => EventsInv'
<1> SUFFICES ASSUME EventsInv, [EventsNext]_eventVars PROVE EventsInv'
  OBVIOUS
<1> USE EventsAssumption
<1>t. EventsTypeOK /\ delivered <= Len(stream)
      /\ \A w \in Watchers : wait[w].batch = {} => wait[w].matched = {}
  BY DEF EventsInv
<1>1. ASSUME NEW g \in EventGraphs, Emit(g) PROVE EventsInv'
  <2>1. /\ Len(stream) + Len(Entries(g)) <= MaxEntries
        /\ stream' = stream \o Entries(g)
        /\ UNCHANGED <<groupMade, delivered, pending, wait, received, discarded, cursor, noticed,
                       aborts>>
    BY <1>1 DEF Emit
  <2>2. Entries(g) \in Seq(EventGraphs)
    <3>1. g \in EventGraphs /\ Parent \in EventGraphs
      BY DEF EventGraphs
    <3>2. <<g, Parent>> \in Seq(EventGraphs) /\ <<g>> \in Seq(EventGraphs)
      BY <3>1
    <3> QED
      BY <3>2 DEF Entries
  <2>3. /\ stream' \in Seq(EventGraphs) /\ Len(stream') = Len(stream) + Len(Entries(g))
        /\ \A i \in 1 .. Len(stream) : stream'[i] = stream[i]
    BY <1>t, <2>1, <2>2 DEF EventsTypeOK
  <2>4. EventsTypeOK'
    BY <1>t, <2>1, <2>3 DEF EventsTypeOK
  <2>5. EventsReachAlone'
    <3> SUFFICES ASSUME Cardinality(Watchers) = 1, NEW w \in Watchers,
                        NEW i \in 1 .. Len(stream'), groupMade # -1, i > groupMade,
                        stream'[i] = WatchedBy[w]
                 PROVE  Reached(w, i)'
      BY <2>1 DEF EventsReachAlone, EventsReach, Reached
    <3>1. CASE i \in 1 .. Len(stream)
      <4>1. Reached(w, i)
        BY <2>3, <3>1 DEF EventsInv, EventsReachAlone, EventsReach, Reached
      <4> QED
        BY <2>1, <4>1 DEF Reached
    <3>2. CASE i \notin 1 .. Len(stream)
      BY <1>t, <2>1, <2>3, <3>2 DEF Reached, EventsTypeOK
    <3> QED
      BY <3>1, <3>2
  <2>6. delivered' <= Len(stream')
    BY <1>t, <2>1, <2>2, <2>3 DEF EventsTypeOK
  <2> QED
    BY <1>t, <2>1, <2>4, <2>5, <2>6 DEF EventsInv
<1>2. ASSUME NEW w \in Watchers, BeginAwait(w) PROVE EventsInv'
  <2> DEFINE after == [NoWait EXCEPT !.step = FirstPhase]
  <2>1. /\ wait[w] = NoWait /\ wait' = [wait EXCEPT ![w] = after]
        /\ \/ groupMade = -1 /\ groupMade' = Len(stream) /\ delivered' = Len(stream)
           \/ UNCHANGED <<groupMade, delivered>>
        /\ UNCHANGED <<stream, pending, received, discarded, cursor, noticed, aborts>>
    BY <1>2 DEF BeginAwait
  <2>2. NoWait \in WaitStates /\ NoWait.matched = {} /\ NoWait.batch = {} /\ NoWait.step = "none"
    BY DEF NoWait, WaitStates
  <2>3. /\ after \in WaitStates /\ after.matched = {} /\ after.batch = {}
        /\ after.step = "pending"
    BY <2>2 DEF WaitStates, FirstPhase
  <2> HIDE DEF after
  <2>4. EventsTypeOK'
    BY <1>t, <2>1, <2>3 DEF EventsTypeOK, WaitStates
  <2>5. \A v \in Watchers : wait'[v].batch = {} => wait'[v].matched = {}
    BY <1>t, <2>1, <2>3 DEF EventsTypeOK
  <2>6. CASE groupMade' = Len(stream)
    <3>1. EventsReach'
      BY <1>t, <2>1, <2>6 DEF EventsReach, EventsTypeOK
    <3>2. delivered' <= Len(stream')
      BY <1>t, <2>1 DEF EventsTypeOK
    <3> QED
      BY <2>4, <2>5, <3>1, <3>2 DEF EventsInv, EventsReachAlone
  <2>7. CASE UNCHANGED <<groupMade, delivered>>
    <3>1. \A v \in Watchers : \A i \in 1 .. Len(stream) : Reached(v, i) => Reached(v, i)'
      BY <1>t, <2>1, <2>2, <2>3, <2>7 DEF Reached, EventsTypeOK
    <3> QED
      BY <1>t, <2>1, <2>4, <2>5, <2>7, <3>1, Sighted
  <2> QED
    BY <2>1, <2>6, <2>7
<1>3. ASSUME NEW w \in Watchers, ReadPending(w) PROVE EventsInv'
  <2>1. /\ wait[w].step = "pending" /\ wait[w].batch = {}
        /\ UNCHANGED <<stream, groupMade, delivered, pending, received, discarded, cursor,
                       noticed, aborts>>
    BY <1>3 DEF ReadPending
  <2>2. PICK after \in WaitStates :
           /\ wait' = [wait EXCEPT ![w] = after] /\ after.matched = wait[w].matched
           /\ \/ after.step = "live" /\ pending[w] = {}
              \/ after.step = "pending"
    <3>1. wait[w] \in WaitStates /\ FirstOf(pending[w]) \subseteq Positions
      BY <1>t DEF EventsTypeOK, WaitStates, FirstOf
    <3>2. /\ [wait[w] EXCEPT !.step = "live"] \in WaitStates
          /\ [wait[w] EXCEPT !.step = "live"].matched = wait[w].matched
          /\ [wait[w] EXCEPT !.step = "live"].step = "live"
      BY <3>1 DEF WaitStates
    <3>3. /\ [wait[w] EXCEPT !.batch = FirstOf(pending[w])] \in WaitStates
          /\ [wait[w] EXCEPT !.batch = FirstOf(pending[w])].matched = wait[w].matched
          /\ [wait[w] EXCEPT !.batch = FirstOf(pending[w])].step = "pending"
      BY <2>1, <3>1 DEF WaitStates
    <3> QED
      BY <1>3, <3>2, <3>3 DEF ReadPending
  <2>3. EventsTypeOK'
    BY <1>t, <2>1, <2>2 DEF EventsTypeOK, WaitStates
  <2>4. after.matched = {}
    BY <1>t, <2>1, <2>2
  <2>5. \A v \in Watchers : wait'[v].batch = {} => wait'[v].matched = {}
    BY <1>t, <2>2, <2>4 DEF EventsTypeOK
  <2>6. \A v \in Watchers : \A i \in 1 .. Len(stream) : Reached(v, i) => Reached(v, i)'
    BY <1>t, <2>1, <2>2 DEF Reached, EventsTypeOK
  <2> QED
    BY <1>t, <2>1, <2>3, <2>5, <2>6, Sighted
<1>4. ASSUME NEW w \in Watchers, ReadNew(w) PROVE EventsInv'
  <2> DEFINE entries == FirstOf(delivered + 1 .. Len(stream))
             after == [wait[w] EXCEPT !.batch = entries]
  <2>1. /\ wait[w].step = "live" /\ wait[w].batch = {} /\ entries # {}
        /\ delivered' = Max(entries)
        /\ pending' = [pending EXCEPT ![w] = @ \cup entries]
        /\ wait' = [wait EXCEPT ![w] = after]
        /\ UNCHANGED <<stream, groupMade, received, discarded, cursor, noticed, aborts>>
    BY <1>4 DEF ReadNew
  <2>2. entries = {i \in delivered + 1 .. Len(stream) : i <= delivered + Batch}
    BY <1>t, FirstOfInterval DEF EventsTypeOK
  <2> HIDE DEF entries
  <2>3. PICK m \in entries : \A i \in entries : i <= m
    <3> DEFINE last == IF delivered + Batch <= Len(stream) THEN delivered + Batch
                       ELSE Len(stream)
    <3>1. last \in entries /\ \A i \in entries : i <= last
      BY <1>t, <2>1, <2>2 DEF EventsTypeOK
    <3> QED
      BY <3>1
  <2>4. Max(entries) \in entries /\ \A i \in entries : i <= Max(entries)
    BY <2>3 DEF Max
  <2>5. /\ entries \subseteq Positions /\ delivered' \in delivered + 1 .. Len(stream)
        /\ \A i \in 1 .. Len(stream) : i > delivered /\ i <= delivered' => i \in entries
    <3>1. /\ stream \in Seq(EventGraphs) /\ Len(stream) \in 0 .. MaxEntries
          /\ delivered \in 0 .. MaxEntries
      BY <1>t DEF EventsTypeOK
    <3>2. entries \subseteq Positions
      BY <2>2, <3>1 DEF Positions
    <3>3. delivered' \in delivered + 1 .. Len(stream) /\ delivered' <= delivered + Batch
      BY <2>1, <2>2, <2>4
    <3>4. \A i \in 1 .. Len(stream) : i > delivered /\ i <= delivered' => i \in entries
      BY <2>2, <3>1, <3>3
    <3> QED
      BY <3>2, <3>3, <3>4
  <2>6. wait[w] \in WaitStates /\ wait[w].matched = {}
    BY <1>t, <2>1 DEF EventsTypeOK, WaitStates
  <2>7. /\ after \in WaitStates /\ after.batch = entries /\ after.matched = {}
    BY <2>5, <2>6 DEF WaitStates
  <2> HIDE DEF after
  <2>8. EventsTypeOK'
    BY <1>t, <2>1, <2>5, <2>7 DEF EventsTypeOK, WaitStates
  <2>9. \A v \in Watchers : wait'[v].batch = {} => wait'[v].matched = {}
    BY <1>t, <2>1, <2>7 DEF EventsTypeOK
  <2>10. ASSUME NEW v \in Watchers, NEW i \in 1 .. Len(stream), Cardinality(Watchers) = 1,
                Reached(v, i)
         PROVE  Reached(v, i)'
    <3>1. v = w
      BY <2>10, FS_Singleton
    <3>2. pending'[w] = pending[w] \cup entries /\ wait'[w] = after
      BY <1>t, <2>1 DEF EventsTypeOK
    <3>3. i \in pending[w] => i \notin wait[w].batch
      BY <2>1
    <3> QED
      BY <1>t, <2>1, <2>5, <2>6, <2>7, <2>10, <3>1, <3>2, <3>3 DEF Reached, EventsTypeOK
  <2> QED
    BY <1>t, <2>1, <2>5, <2>8, <2>9, <2>10, Sighted DEF EventsTypeOK
<1>5. ASSUME NEW w \in Watchers, Acknowledge(w) PROVE EventsInv'
  <2> DEFINE i == Min(wait[w].batch)
             batch == wait[w].batch \ {i}
             found == IF stream[i] = WatchedBy[w] THEN wait[w].matched \cup {i}
                      ELSE wait[w].matched
             after == [wait[w] EXCEPT !.batch = batch, !.matched = found]
  <2>1. /\ wait[w].batch # {}
        /\ pending' = [pending EXCEPT ![w] = @ \ {i}]
        /\ \/ /\ batch = {} /\ found # {}
              /\ received' = [received EXCEPT ![w] = @ \cup found]
              /\ wait' = [wait EXCEPT ![w] = NoWait]
           \/ /\ batch # {} \/ found = {}
              /\ wait' = [wait EXCEPT ![w] = after] /\ received' = received
        /\ UNCHANGED <<stream, groupMade, delivered, discarded, cursor, noticed, aborts>>
    BY <1>5 DEF Acknowledge
  <2>2. wait[w] \in WaitStates
    BY <1>t DEF EventsTypeOK, WaitStates
  <2>3. i \in wait[w].batch
    BY <2>1, <2>2, MinIsLeast DEF WaitStates, Positions
  <2> HIDE DEF i
  <2>4. batch \subseteq Positions /\ found \subseteq Positions
    BY <2>2, <2>3 DEF WaitStates
  <2>5. /\ after \in WaitStates /\ after.batch = batch /\ after.matched = found
        /\ after.step = wait[w].step
    BY <2>2, <2>4 DEF WaitStates
  <2>6. NoWait \in WaitStates /\ NoWait.step = "none" /\ NoWait.batch = {} /\ NoWait.matched = {}
    BY DEF NoWait, WaitStates
  <2>7. wait[w].matched \subseteq found /\ (stream[i] = WatchedBy[w] => i \in found)
    OBVIOUS
  <2>8. wait[w].batch = batch \cup {i}
    BY <2>3
  <2> HIDE DEF after, found, batch
  <2>9. EventsTypeOK'
    <3>1. wait' \in [Watchers -> WaitStates]
      BY <1>t, <2>1, <2>5, <2>6 DEF EventsTypeOK, WaitStates
    <3>2. received' \in [Watchers -> SUBSET Positions]
      BY <1>t, <2>1, <2>4 DEF EventsTypeOK
    <3>3. pending' \in [Watchers -> SUBSET Positions]
      BY <1>t, <2>1 DEF EventsTypeOK
    <3> QED
      BY <1>t, <2>1, <3>1, <3>2, <3>3 DEF EventsTypeOK, WaitStates
  <2>10. \A v \in Watchers : wait'[v].batch = {} => wait'[v].matched = {}
    BY <1>t, <2>1, <2>5, <2>6 DEF EventsTypeOK
  <2>11. ASSUME NEW v \in Watchers, NEW j \in 1 .. Len(stream), Reached(v, j),
                stream[j] = WatchedBy[v]
         PROVE  Reached(v, j)'
    <3>1. CASE v # w
      <4>1. pending'[v] = pending[v] /\ wait'[v] = wait[v] /\ received'[v] = received[v]
        BY <1>t, <2>1, <3>1 DEF EventsTypeOK
      <4> QED
        BY <2>1, <2>11, <4>1 DEF Reached
    <3>2. CASE v = w
      <4>1. pending'[w] = pending[w] \ {i}
        BY <1>t, <2>1 DEF EventsTypeOK
      <4>2. \/ wait'[w] = NoWait /\ received'[w] = received[w] \cup found
            \/ wait'[w] = after /\ received'[w] = received[w]
        BY <1>t, <2>1 DEF EventsTypeOK
      <4>3. j = i => j \in found
        BY <2>7, <2>11, <3>2
      <4> QED
        BY <2>1, <2>5, <2>6, <2>7, <2>8, <2>11, <3>2, <4>1, <4>2, <4>3 DEF Reached
    <3> QED
      BY <3>1, <3>2
  <2> QED
    BY <1>t, <2>1, <2>9, <2>10, <2>11, Sighted
<1>6. ASSUME NEW w \in Watchers, AwaitReturns(w) \/ AwaitAborted(w) PROVE EventsInv'
  <2>1. /\ wait' = [wait EXCEPT ![w] = NoWait]
        /\ wait[w].batch = {} \/ discarded' = discarded \cup wait[w].matched
        /\ discarded' \in {discarded, discarded \cup wait[w].matched}
        /\ aborts' \in {aborts, aborts + 1} /\ aborts' <= MaxAborts
        /\ UNCHANGED <<stream, groupMade, delivered, pending, received, cursor, noticed>>
    BY <1>6, <1>t DEF AwaitReturns, AwaitAborted, EventsTypeOK
  <2>2. NoWait \in WaitStates /\ NoWait.step = "none" /\ NoWait.batch = {} /\ NoWait.matched = {}
    BY DEF NoWait, WaitStates
  <2>3. EventsTypeOK'
    BY <1>t, <2>1, <2>2 DEF EventsTypeOK, WaitStates
  <2>4. \A v \in Watchers : wait'[v].batch = {} => wait'[v].matched = {}
    BY <1>t, <2>1, <2>2 DEF EventsTypeOK
  <2>5. \A v \in Watchers : \A j \in 1 .. Len(stream) : Reached(v, j) => Reached(v, j)'
    <3> SUFFICES ASSUME NEW v \in Watchers, NEW j \in 1 .. Len(stream), Reached(v, j)
                 PROVE  Reached(v, j)'
      OBVIOUS
    <3>1. v # w => wait'[v] = wait[v]
      BY <1>t, <2>1 DEF EventsTypeOK
    <3>2. wait'[w] = NoWait
      BY <1>t, <2>1 DEF EventsTypeOK
    <3>3. wait[w].matched \subseteq discarded' /\ discarded \subseteq discarded'
      BY <1>t, <2>1
    <3> QED
      BY <2>1, <2>2, <3>1, <3>2, <3>3 DEF Reached
  <2> QED
    BY <1>t, <2>1, <2>3, <2>4, <2>5, Sighted
<1>7. ASSUME NEW w \in Watchers, CheckEvents(w) PROVE EventsInv'
  <2>1. /\ \E from \in 0 .. MaxEntries :
              noticed' = [noticed EXCEPT ![w] = @ \cup (from + 1 .. Len(stream))]
        /\ cursor' = [cursor EXCEPT ![w] = Len(stream)]
        /\ UNCHANGED <<stream, groupMade, delivered, pending, wait, received, discarded, aborts>>
    <3> DEFINE from == IF cursor[w] = -1 THEN Len(stream) ELSE cursor[w]
    <3>1. from \in 0 .. MaxEntries
      BY <1>t DEF EventsTypeOK
    <3>2. noticed' = [noticed EXCEPT ![w] = @ \cup (from + 1 .. Len(stream))]
      BY <1>7 DEF CheckEvents
    <3> QED
      BY <1>7, <3>1, <3>2 DEF CheckEvents
  <2>2. EventsTypeOK'
    BY <1>t, <2>1 DEF EventsTypeOK, Positions
  <2> QED
    BY <1>t, <2>1, <2>2, Sighted DEF Reached
<1>8. CASE UNCHANGED eventVars
  BY <1>8, <1>t, Sighted DEF eventVars, EventsTypeOK, Reached
<1> QED
  BY <1>1, <1>2, <1>3, <1>4, <1>5, <1>6, <1>7, <1>8 DEF EventsNext

\* Whatever calls are cut short or run out of time, a watcher alone in its project gets each event
\* of its graph that it did not throw away itself (tools/await-graph-event.ts).
THEOREM EventsAlwaysReachAlone == EventsSpec => []EventsReachAlone
<1>1. EventsInv => EventsReachAlone
  BY DEF EventsInv
<1> QED
  BY EventsInitially, EventsSteps, <1>1, PTL DEF EventsSpec


-----------------------------------------------------------------------------
\* Notes. Of two agents whose intents meet, one was told or has a call under way that will
\* yet compare them; what a call chose to show stands until it shows it.

WorkspaceSpec == WorkspaceInit /\ [][WorkspaceNext]_workspaceVars

Paths == UNION Footprints
Intents == [live : BOOLEAN, files : SUBSET Paths, about : SUBSET Topics, mark : Nat]
AgentCalls ==
    [at : {"idle", "mine", "scan", "others", "intent", "stream", "mark"},
     kind : {"none", "declare", "status", "check", "talk"}, files : SUBSET Paths,
     left : SUBSET Agents, read : Intents, found : SUBSET Nat]

WorkspaceTypeOK ==
    /\ intent \in [Agents -> Intents] /\ discoveries \in Seq(Topics)
    /\ agentCall \in [ToolCalls -> AgentCalls]
    /\ warned \subseteq Agents \X Agents \X Paths
    /\ noted \in [Agents -> SUBSET Nat] /\ steady \in [Agents -> SUBSET Nat]
    /\ outran \subseteq Agents

\* A call of a will yet come to compare f with what b has declared.
Tells(call, b, f) ==
    \/ call.at = "mine"
    \/ call.at = "scan" /\ f \in call.files
    \/ call.at = "others" /\ f \in call.files /\ b \in call.left

WillTell(a, b, f) == \E c \in ToolCalls : AgentOf[c] = a /\ Tells(agentCall[c], b, f)

Told(a, b, f) ==
    \/ <<a, b, f>> \in warned \/ <<b, a, f>> \in warned
    \/ WillTell(a, b, f) \/ WillTell(b, a, f)

ConflictsInv ==
    /\ \A a \in Agents : intent[a].files # {} => intent[a].live
    /\ \A a, b \in Agents : \A f \in intent[a].files \cap intent[b].files :
          a # b => Told(a, b, f)

\* Up to n, the agent has been shown what concerns it, or will be with what the call has found.
ShownUpTo(a, n, found) == \A i \in steady[a] : i <= n => i \in noted[a] \cup found

\* While a call chooses, the agent's intent is as the call has read it but for the mark, or gone.
ChoosingInv(c) ==
    LET a == AgentOf[c]
        now == agentCall[c]
    IN  /\ now.at = "stream" => intent[a].about \subseteq now.read.about
                                /\ now.read.mark <= Len(discoveries)
                                /\ ShownUpTo(a, now.read.mark, {})
        /\ now.at = "mark" => ShownUpTo(a, Latest(now.found), now.found)

Matching(a) == \A n \in steady[a] : n \in 1 .. Len(discoveries) /\ Relevant(n, intent[a])

NotesInv ==
    /\ \A a \in Agents : Matching(a)
    /\ \A a \in Agents : intent[a].mark <= Len(discoveries)
    /\ \A c \in ToolCalls : AgentOf[c] \notin outran => ChoosingInv(c)
    /\ \A c \in ToolCalls : agentCall[c].at = "mark" =>
          agentCall[c].found # {} /\ agentCall[c].found \subseteq 1 .. Len(discoveries)
    /\ NoNoteIsSkipped

WsInv == WorkspaceTypeOK /\ ConflictsInv /\ NotesInv

LEMMA LatestIsLast ==
    ASSUME NEW n \in Nat, NEW S \in SUBSET (1 .. n), S # {}
    PROVE  Latest(S) \in S /\ \A k \in S : k <= Latest(S)
<1> DEFINE T == {n - k : k \in S}
<1>1. T \subseteq Nat /\ T # {}
  <2>1. \A k \in S : k \in Nat /\ k <= n
    OBVIOUS
  <2>2. \A k \in S : n - k \in Nat
    BY <2>1
  <2> QED
    BY <2>2
<1>2. Min(T) \in T /\ \A x \in T : Min(T) <= x
  BY <1>1, MinIsLeast
<1>3. PICK m \in S : Min(T) = n - m
  BY <1>2
<1>4. ASSUME NEW k \in S PROVE k <= m
  <2>1. n - m <= n - k
    BY <1>2, <1>3
  <2> QED
    BY <2>1
<1> QED
  BY <1>4 DEF Latest

LEMMA WorkspaceInitially == WorkspaceInit => WsInv
<1> SUFFICES ASSUME WorkspaceInit PROVE WsInv
  OBVIOUS
<1>1. Blank \in Intents /\ Blank.files = {} /\ Blank.mark = 0 /\ ~Blank.live
  BY DEF Blank, Intents
<1>2. NotCalling \in AgentCalls /\ NotCalling.at = "idle"
  BY <1>1 DEF NotCalling, AgentCalls
<1>3. WorkspaceTypeOK
  BY <1>1, <1>2 DEF WorkspaceInit, WorkspaceTypeOK
<1>4. ConflictsInv
  BY <1>1 DEF WorkspaceInit, ConflictsInv
<1>5. NotesInv
  BY <1>1, <1>2 DEF WorkspaceInit, NotesInv, Matching, ChoosingInv, NoNoteIsSkipped
<1> QED
  BY <1>3, <1>4, <1>5 DEF WsInv

\* Only calls that compare tell anybody of a conflict.
LEMMA StillTelling ==
    ASSUME NEW c \in ToolCalls, agentCall[c].at \notin {"mine", "scan", "others"},
           \A d \in ToolCalls \ {c} : agentCall'[d] = agentCall[d],
           NEW a, NEW b, NEW f, WillTell(a, b, f)
    PROVE  WillTell(a, b, f)'
  BY DEF WillTell, Tells

\* A step that declares nothing anew keeps conflicts told, if it ends no call that was to tell.
LEMMA StillTold ==
    ASSUME ConflictsInv,
           \A a \in Agents : /\ intent'[a].files \subseteq intent[a].files
                             /\ intent[a].live /\ intent'[a].files # {} => intent'[a].live,
           \A a, b \in Agents : \A f \in intent'[a].files \cap intent'[b].files :
               <<a, b, f>> \in warned => <<a, b, f>> \in warned',
           \A a, b \in Agents : \A f \in intent[a].files \cap intent[b].files :
               a # b /\ WillTell(a, b, f) => WillTell(a, b, f)' \/ <<a, b, f>> \in warned'
    PROVE  ConflictsInv'
<1>1. \A a \in Agents : intent'[a].files # {} => intent'[a].live
  BY DEF ConflictsInv
<1>2. ASSUME NEW a \in Agents, NEW b \in Agents, NEW f \in intent'[a].files \cap intent'[b].files,
             a # b
      PROVE  Told(a, b, f)'
  BY <1>2 DEF ConflictsInv, Told
<1> QED
  BY <1>1, <1>2 DEF ConflictsInv

\* A choice stands while nothing that it has passed comes to concern the agent.
LEMMA StillShown ==
    ASSUME WsInv, discoveries' \in Seq(Topics), Len(discoveries) <= Len(discoveries'),
           outran \subseteq outran',
           \A a \in Agents : \A n \in steady'[a] :
               n \in Nat /\ (n <= Len(discoveries) => n \in steady[a]),
           \A a \in Agents : noted[a] \subseteq noted'[a],
           NEW D \in SUBSET ToolCalls, \A d \in D : agentCall'[d] = agentCall[d],
           \A d \in D : AgentOf[d] \notin outran' =>
               \/ agentCall[d].at \notin {"stream", "mark"}
               \/ intent'[AgentOf[d]].about \subseteq intent[AgentOf[d]].about
    PROVE  \A d \in D : /\ AgentOf[d] \notin outran' => ChoosingInv(d)'
                        /\ agentCall'[d].at = "mark" => /\ agentCall'[d].found # {}
                                                        /\ agentCall'[d].found
                                                             \subseteq 1 .. Len(discoveries')
<1> SUFFICES ASSUME NEW d \in D
             PROVE  /\ AgentOf[d] \notin outran' => ChoosingInv(d)'
                    /\ agentCall'[d].at = "mark" => /\ agentCall'[d].found # {}
                                                    /\ agentCall'[d].found
                                                         \subseteq 1 .. Len(discoveries')
  OBVIOUS
<1>l. Len(discoveries) \in Nat /\ Len(discoveries') \in Nat /\ agentCall[d] \in AgentCalls
      /\ AgentOf[d] \in Agents
  BY DEF WsInv, WorkspaceTypeOK, Agents
<1> DEFINE now == agentCall[d]
           a == AgentOf[d]
<1>1. agentCall'[d] = agentCall[d]
  OBVIOUS
<1>2. now.at = "mark" => now.found # {} /\ now.found \subseteq 1 .. Len(discoveries)
  BY DEF WsInv, NotesInv
<1>3. now.at = "mark" => Latest(now.found) \in 1 .. Len(discoveries)
  BY <1>l, <1>2, LatestIsLast
<1>4. ASSUME a \notin outran' PROVE ChoosingInv(d)'
  <2>1. ChoosingInv(d) /\ a \notin outran
    BY <1>4 DEF WsInv, NotesInv
  <2>2. CASE now.at = "stream"
    <3>1. /\ intent[a].about \subseteq now.read.about /\ now.read.mark <= Len(discoveries)
          /\ ShownUpTo(a, now.read.mark, {}) /\ now.read.mark \in Nat
      BY <1>l, <2>1, <2>2 DEF ChoosingInv, AgentCalls, Intents
    <3>2. intent'[a].about \subseteq now.read.about
      BY <1>4, <2>2, <3>1
    <3>3. \A i \in steady'[a] : i <= now.read.mark => i \in noted'[a]
      <4> SUFFICES ASSUME NEW i \in steady'[a], i <= now.read.mark PROVE i \in noted'[a]
        OBVIOUS
      <4>1. i \in Nat /\ i <= Len(discoveries)
        BY <1>l, <3>1
      <4> QED
        BY <1>l, <3>1, <4>1 DEF ShownUpTo
    <3> QED
      BY <1>l, <1>1, <2>2, <3>1, <3>2, <3>3 DEF ChoosingInv, ShownUpTo
  <2>3. CASE now.at = "mark"
    <3>1. ShownUpTo(a, Latest(now.found), now.found)
      BY <2>1, <2>3 DEF ChoosingInv
    <3>2. ASSUME NEW i \in steady'[a], i <= Latest(now.found) PROVE i \in noted'[a] \cup now.found
      <4>1. i \in Nat /\ i <= Len(discoveries)
        BY <1>l, <1>3, <2>3, <3>2
      <4> QED
        BY <1>l, <3>1, <3>2, <4>1 DEF ShownUpTo
    <3> QED
      BY <1>l, <1>1, <2>3, <3>2 DEF ChoosingInv, ShownUpTo
  <2> QED
    BY <1>1, <2>2, <2>3 DEF ChoosingInv
<1>5. now.at = "mark" => now.found \subseteq 1 .. Len(discoveries')
  BY <1>l, <1>2
<1> QED
  BY <1>1, <1>2, <1>4, <1>5

\* What a call reads, compares or chooses changes nothing for the other calls.
LEMMA CallMoves ==
    ASSUME WsInv, NEW c \in ToolCalls, NEW now \in AgentCalls,
           agentCall' = [agentCall EXCEPT ![c] = now],
           UNCHANGED <<intent, discoveries, noted, steady, outran>>,
           warned' \subseteq Agents \X Agents \X Paths,
           AgentOf[c] \notin outran => ChoosingInv(c)',
           now.at = "mark" => now.found # {} /\ now.found \subseteq 1 .. Len(discoveries)
    PROVE  WorkspaceTypeOK' /\ NotesInv'
<1>1. WorkspaceTypeOK'
  BY DEF WsInv, WorkspaceTypeOK
<1>2. agentCall'[c] = now /\ \A d \in ToolCalls \ {c} : agentCall'[d] = agentCall[d]
  BY DEF WsInv, WorkspaceTypeOK
<1>3. \A d \in ToolCalls \ {c} :
          /\ AgentOf[d] \notin outran' => ChoosingInv(d)'
          /\ agentCall'[d].at = "mark" => /\ agentCall'[d].found # {}
                                          /\ agentCall'[d].found \subseteq 1 .. Len(discoveries')
  <2>1. discoveries' \in Seq(Topics) /\ Len(discoveries) <= Len(discoveries')
    BY DEF WsInv, WorkspaceTypeOK
  <2>2. \A a \in Agents : \A n \in steady'[a] :
            n \in Nat /\ (n <= Len(discoveries) => n \in steady[a])
    BY DEF WsInv, WorkspaceTypeOK
  <2> QED
    BY <1>2, <2>1, <2>2, StillShown
<1>4. \A d \in ToolCalls : AgentOf[d] \notin outran' => ChoosingInv(d)'
  BY <1>3
<1>5. \A d \in ToolCalls : agentCall'[d].at = "mark" =>
          agentCall'[d].found # {} /\ agentCall'[d].found \subseteq 1 .. Len(discoveries')
  BY <1>2, <1>3
<1>6. /\ \A a \in Agents : Matching(a)'
      /\ \A a \in Agents : intent'[a].mark <= Len(discoveries')
      /\ NoNoteIsSkipped'
  BY DEF WsInv, NotesInv, NoNoteIsSkipped, Relevant, Matching
<1> QED
  BY <1>1, <1>4, <1>5, <1>6 DEF NotesInv

\* An intent that is published or removed: what it still matches, its agent has matched before.
LEMMA IntentMoves ==
    ASSUME WsInv, NEW a \in Agents, NEW new \in Intents,
           UNCHANGED discoveries, outran \subseteq outran', outran' \subseteq Agents,
           intent' \in [Agents -> Intents], intent'[a] = new, new.mark <= Len(discoveries),
           \A b \in Agents \ {a} : intent'[b] = intent[b] /\ steady'[b] = steady[b],
           steady' \in [Agents -> SUBSET Nat], steady'[a] \subseteq steady[a],
           \A n \in steady'[a] : discoveries[n] \in new.about,
           noted' \in [Agents -> SUBSET Nat], \A b \in Agents : noted[b] \subseteq noted'[b],
           agentCall' \in [ToolCalls -> AgentCalls],
           \A d \in ToolCalls :
               \/ agentCall'[d].at \notin {"stream", "mark"}
               \/ /\ agentCall'[d] = agentCall[d]
                  /\ AgentOf[d] = a /\ a \notin outran' => new.about \subseteq intent[a].about,
           a \notin outran' => \A n \in steady[a] : n <= new.mark => n \in noted'[a],
           warned' \subseteq Agents \X Agents \X Paths
    PROVE  WorkspaceTypeOK' /\ NotesInv'
<1> DEFINE D == {d \in ToolCalls : agentCall'[d].at \in {"stream", "mark"}}
<1>1. /\ intent'[a] = new /\ steady'[a] \subseteq steady[a]
      /\ \A b \in Agents \ {a} : intent'[b] = intent[b] /\ steady'[b] = steady[b]
  OBVIOUS
<1>2. WorkspaceTypeOK'
  BY DEF WsInv, WorkspaceTypeOK
<1>3. \A d \in D :
          /\ AgentOf[d] \notin outran' => ChoosingInv(d)'
          /\ agentCall'[d].at = "mark" => /\ agentCall'[d].found # {}
                                          /\ agentCall'[d].found \subseteq 1 .. Len(discoveries')
  <2>1. discoveries' \in Seq(Topics) /\ Len(discoveries) <= Len(discoveries')
    BY DEF WsInv, WorkspaceTypeOK
  <2>2. \A b \in Agents : \A n \in steady'[b] :
            n \in Nat /\ (n <= Len(discoveries) => n \in steady[b])
    BY <1>1 DEF WsInv, WorkspaceTypeOK
  <2>3. \A d \in D : AgentOf[d] \in Agents
    BY DEF Agents
  <2>4. \A d \in D : AgentOf[d] \notin outran' =>
            \/ agentCall[d].at \notin {"stream", "mark"}
            \/ intent'[AgentOf[d]].about \subseteq intent[AgentOf[d]].about
    BY <1>1, <2>3
  <2>5. D \in SUBSET ToolCalls /\ \A d \in D : agentCall'[d] = agentCall[d]
    OBVIOUS
  <2> HIDE DEF D
  <2> QED
    BY <2>1, <2>2, <2>4, <2>5, StillShown
<1>4. \A d \in ToolCalls : AgentOf[d] \notin outran' => ChoosingInv(d)'
  <2>1. \A d \in ToolCalls \ D : ChoosingInv(d)'
    BY DEF ChoosingInv
  <2> QED
    BY <1>3, <2>1
<1>5. \A d \in ToolCalls : agentCall'[d].at = "mark" =>
          agentCall'[d].found # {} /\ agentCall'[d].found \subseteq 1 .. Len(discoveries')
  BY <1>3
<1>6. /\ \A b \in Agents : Matching(b)'
      /\ \A b \in Agents : intent'[b].mark <= Len(discoveries')
  BY <1>1 DEF WsInv, NotesInv, Matching, Relevant
<1>7. NoNoteIsSkipped'
  BY <1>1 DEF WsInv, NotesInv, NoNoteIsSkipped
<1> QED
  BY <1>2, <1>4, <1>5, <1>6, <1>7 DEF NotesInv

LEMMA IdleCalls ==
    /\ NotCalling \in AgentCalls /\ NotCalling.at = "idle"
    /\ \A c \in ToolCalls : /\ AfterConflicts(c) \in AgentCalls
                            /\ AfterConflicts(c).at \in {"idle", "intent"}
    /\ Blank \in Intents /\ Blank.files = {} /\ Blank.about = {} /\ Blank.mark = 0
  BY DEF NotCalling, AgentCalls, Intents, Blank, AfterConflicts

LEMMA DeclareSteps ==
    ASSUME WsInv, NEW c \in ToolCalls, NEW kind \in {"declare", "status"}, Declare(c, kind)
    PROVE  WsInv'
<1> USE DEF WsInv
<1> DEFINE a == AgentOf[c]
           now == [NotCalling EXCEPT !.kind = kind, !.at = "mine"]
<1>1. PICK fs \in Footprints, about \in SUBSET Topics :
          /\ BeginCall(c, kind, "mine")
          /\ PublishIntent(a, IF kind = "status" /\ fs = {} THEN intent[a].files ELSE fs,
                           about, intent[a].mark)
          /\ outran' = IF Choosing(a) THEN outran \cup {a} ELSE outran
  BY DEF Declare
<1> DEFINE files == IF kind = "status" /\ fs = {} THEN intent[a].files ELSE fs
           new == [live |-> TRUE, files |-> files, about |-> about, mark |-> intent[a].mark]
<1>2. a \in Agents
  BY DEF Agents
<1>3. files \in SUBSET Paths /\ intent[a].mark \in Nat
  BY <1>2 DEF Paths, WorkspaceTypeOK, Intents
<1>4. /\ agentCall[c].at = "idle" /\ agentCall' = [agentCall EXCEPT ![c] = now]
      /\ UNCHANGED <<discoveries, gone, noted>>
      /\ intent' = [intent EXCEPT ![a] = new]
      /\ warned' = {t \in warned : a \in {t[1], t[2]} => t[3] \in files}
      /\ steady' = [steady EXCEPT ![a] = {n \in @ : Relevant(n, new)}]
  BY <1>1 DEF BeginCall, PublishIntent
<1> HIDE DEF files
<1>5. new \in Intents /\ new.files = files /\ new.live /\ new.mark = intent[a].mark
  BY <1>3 DEF Intents
<1>6. now \in AgentCalls /\ now.at = "mine"
  BY <1>3 DEF AgentCalls, NotCalling, Blank, Intents
<1> HIDE DEF a, new, now
<1>7. WorkspaceTypeOK' /\ NotesInv'
  <2>1. /\ agentCall' \in [ToolCalls -> AgentCalls] /\ agentCall'[c].at = "mine"
        /\ \A d \in ToolCalls \ {c} : agentCall'[d] = agentCall[d]
    BY <1>4, <1>6 DEF WorkspaceTypeOK
  <2>2. outran \subseteq outran' /\ outran' \subseteq Agents
    BY <1>1, <1>2 DEF WorkspaceTypeOK
  <2>3. \A d \in ToolCalls :
            \/ agentCall'[d].at \notin {"stream", "mark"}
            \/ /\ agentCall'[d] = agentCall[d]
               /\ AgentOf[d] = a /\ a \notin outran' => new.about \subseteq intent[a].about
    BY <1>1, <2>1 DEF Choosing, a
  <2>4. a \notin outran' => \A n \in steady[a] : n <= new.mark => n \in noted'[a]
    BY <1>2, <1>4, <1>5, <2>2 DEF NotesInv, NoNoteIsSkipped
  <2>5. new.mark <= Len(discoveries)
    BY <1>2, <1>5 DEF NotesInv
  <2>6. /\ noted' \in [Agents -> SUBSET Nat] /\ \A b \in Agents : noted[b] \subseteq noted'[b]
        /\ warned' \subseteq Agents \X Agents \X Paths
        /\ UNCHANGED discoveries
    BY <1>4 DEF WorkspaceTypeOK
  <2>7. /\ intent' \in [Agents -> Intents] /\ intent'[a] = new
        /\ steady' \in [Agents -> SUBSET Nat] /\ steady'[a] \subseteq steady[a]
        /\ \A b \in Agents \ {a} : intent'[b] = intent[b] /\ steady'[b] = steady[b]
        /\ \A n \in steady'[a] : discoveries[n] \in new.about
    BY <1>2, <1>4, <1>5 DEF WorkspaceTypeOK, Relevant, Matching
  <2> QED
    BY <1>2, <1>5, <2>1, <2>2, <2>3, <2>4, <2>5, <2>6, <2>7, IntentMoves
<1>8. ConflictsInv'
  <2>1. /\ intent'[a] = new /\ \A b \in Agents \ {a} : intent'[b] = intent[b]
        /\ agentCall'[c].at = "mine" /\ \A d \in ToolCalls \ {c} : agentCall'[d] = agentCall[d]
    BY <1>2, <1>4, <1>6 DEF WorkspaceTypeOK
  <2>2. \A b \in Agents : intent'[b].files # {} => intent'[b].live
    BY <1>5, <2>1 DEF ConflictsInv
  <2>3. \A b, f : WillTell(a, b, f)'
    BY <2>1 DEF WillTell, Tells, a
  <2>4. ASSUME NEW x \in Agents, NEW y \in Agents,
               NEW f \in intent'[x].files \cap intent'[y].files, x # y
        PROVE  Told(x, y, f)'
    <3>1. CASE a \in {x, y}
      BY <2>3, <3>1 DEF Told
    <3>2. CASE a \notin {x, y}
      <4>1. Told(x, y, f)
        BY <2>1, <2>4, <3>2 DEF ConflictsInv
      <4>2. /\ WillTell(x, y, f) => WillTell(x, y, f)'
            /\ WillTell(y, x, f) => WillTell(y, x, f)'
        BY <1>4, <2>1, StillTelling
      <4>3. /\ <<x, y, f>> \in warned => <<x, y, f>> \in warned'
            /\ <<y, x, f>> \in warned => <<y, x, f>> \in warned'
        BY <1>4, <3>2
      <4> QED
        BY <4>1, <4>2, <4>3 DEF Told
    <3> QED
      BY <3>1, <3>2
  <2> QED
    BY <2>2, <2>4 DEF ConflictsInv
<1> QED
  BY <1>7, <1>8

\* A call that asks, compares or chooses, step by step.
LEMMA CallSteps ==
    ASSUME WsInv, NEW c \in ToolCalls,
           \/ Ask(c) \/ ReadMine(c) \/ ScanIntents(c) \/ (\E b \in Agents : ReadOther(c, b))
           \/ ConflictsFound(c) \/ ReadIntent(c) \/ GetNewDiscoveries(c)
    PROVE  WsInv'
<1> USE DEF WsInv
<1> DEFINE a == AgentOf[c]
<1>a. a \in Agents /\ intent[a] \in Intents /\ agentCall[c] \in AgentCalls
  BY DEF Agents, WorkspaceTypeOK
<1>l. Len(discoveries) \in Nat
  BY DEF WorkspaceTypeOK
<1>1. ASSUME NEW now \in AgentCalls, agentCall' = [agentCall EXCEPT ![c] = now],
             UNCHANGED <<intent, discoveries, noted, steady, outran>>, warned \subseteq warned',
             warned' \subseteq Agents \X Agents \X Paths, now.at \notin {"stream", "mark"},
             \A b \in Agents \ {a} : \A f \in intent[a].files \cap intent[b].files :
                 Tells(agentCall[c], b, f) => Tells(now, b, f) \/ <<a, b, f>> \in warned'
      PROVE  WsInv'
  <2>1. agentCall'[c] = now /\ \A d \in ToolCalls \ {c} : agentCall'[d] = agentCall[d]
    BY <1>1 DEF WorkspaceTypeOK
  <2>2. ChoosingInv(c)'
    BY <1>1, <2>1 DEF ChoosingInv
  <2>3. WorkspaceTypeOK' /\ NotesInv'
    BY <1>1, <2>2, CallMoves
  <2>4. ASSUME NEW x \in Agents, NEW y \in Agents, NEW f \in intent[x].files \cap intent[y].files,
               x # y, WillTell(x, y, f)
        PROVE  WillTell(x, y, f)' \/ <<x, y, f>> \in warned'
    <3>1. PICK d \in ToolCalls : AgentOf[d] = x /\ Tells(agentCall[d], y, f)
      BY <2>4 DEF WillTell
    <3>2. CASE d = c
      <4>1. Tells(now, y, f) \/ <<x, y, f>> \in warned'
        BY <1>1, <2>4, <3>1, <3>2
      <4> QED
        BY <2>1, <3>1, <3>2, <4>1 DEF WillTell
    <3>3. CASE d # c
      <4>1. agentCall'[d] = agentCall[d]
        BY <2>1, <3>3
      <4> QED
        BY <3>1, <4>1 DEF WillTell
    <3> QED
      BY <3>2, <3>3
  <2>5. ConflictsInv'
    BY <1>1, <2>4, StillTold
  <2> QED
    BY <2>3, <2>5
<1>2. CASE Ask(c)
  <2>1. PICK kind \in {"check", "talk"}, at \in {"intent", "mine"} : BeginCall(c, kind, at)
    BY <1>2 DEF Ask
  <2> DEFINE now == [NotCalling EXCEPT !.kind = kind, !.at = at]
  <2>2. now \in AgentCalls /\ now.at = at
    BY DEF AgentCalls, NotCalling, Blank, Intents
  <2>3. /\ agentCall[c].at = "idle" /\ agentCall' = [agentCall EXCEPT ![c] = now]
        /\ UNCHANGED <<intent, discoveries, noted, steady, outran, warned>>
    BY <1>2, <2>1 DEF Ask, BeginCall
  <2> HIDE DEF now
  <2> QED
    BY <1>1, <2>2, <2>3 DEF WorkspaceTypeOK, Tells
<1>3. CASE ReadMine(c)
  <2> DEFINE scanning == [agentCall[c] EXCEPT !.at = "scan", !.files = intent[a].files]
             now == IF intent[a].files # {} THEN scanning ELSE AfterConflicts(c)
  <2>1. /\ agentCall[c].at = "mine" /\ agentCall' = [agentCall EXCEPT ![c] = now]
        /\ UNCHANGED <<intent, discoveries, noted, steady, outran, warned>>
    BY <1>3 DEF ReadMine, GetIntent
  <2>2. scanning \in AgentCalls /\ scanning.at = "scan" /\ scanning.files = intent[a].files
    BY <1>a DEF AgentCalls, Intents
  <2> HIDE DEF scanning
  <2>3. /\ now \in AgentCalls /\ now.at \notin {"stream", "mark"}
        /\ intent[a].files # {} => now.at = "scan" /\ now.files = intent[a].files
    BY <2>2, IdleCalls
  <2> HIDE DEF now
  <2> QED
    BY <1>1, <2>1, <2>3 DEF WorkspaceTypeOK, Tells
<1>4. CASE ScanIntents(c)
  <2> DEFINE left == {b \in Agents \ {a} : intent[b].live}
             now == [agentCall[c] EXCEPT !.at = "others", !.left = left]
  <2>1. /\ agentCall[c].at = "scan" /\ agentCall' = [agentCall EXCEPT ![c] = now]
        /\ UNCHANGED <<intent, discoveries, noted, steady, outran, warned>>
    BY <1>4, <1>a DEF ScanIntents, WorkspaceTypeOK, AgentCalls
  <2>2. \A b \in Agents \ {a} : intent[b].files # {} => b \in left
    BY DEF ConflictsInv
  <2>3. left \in SUBSET Agents
    OBVIOUS
  <2> HIDE DEF left
  <2>4. /\ now \in AgentCalls /\ now.at = "others" /\ now.files = agentCall[c].files
        /\ now.left = left
    BY <1>a, <2>3 DEF AgentCalls
  <2> HIDE DEF now
  <2> QED
    BY <1>1, <2>1, <2>2, <2>4 DEF WorkspaceTypeOK, Tells
<1>5. ASSUME NEW b \in Agents, ReadOther(c, b) PROVE WsInv'
  <2> DEFINE both == agentCall[c].files \cap intent[b].files
             seen == {<<a, b, f>> : f \in both}
             left == agentCall[c].left \ {b}
             now == [agentCall[c] EXCEPT !.left = left]
  <2>1. /\ agentCall[c].at = "others" /\ agentCall' = [agentCall EXCEPT ![c] = now]
        /\ warned' = warned \cup seen
        /\ UNCHANGED <<intent, discoveries, noted, steady, outran>>
    BY <1>5 DEF ReadOther, GetIntent
  <2>2. left \in SUBSET Agents /\ both \subseteq Paths
    BY <1>a DEF AgentCalls
  <2>3. seen \subseteq Agents \X Agents \X Paths /\ \A f \in both : <<a, b, f>> \in seen
    BY <1>a, <2>2
  <2>4. \A d \in agentCall[c].left : d \in left \/ d = b
    OBVIOUS
  <2>5. \A f \in agentCall[c].files \cap intent[b].files : <<a, b, f>> \in warned'
    BY <2>1, <2>3
  <2> HIDE DEF left, both, seen
  <2>6. /\ now \in AgentCalls /\ now.at = agentCall[c].at /\ now.files = agentCall[c].files
        /\ now.left = left
    BY <1>a, <2>2 DEF AgentCalls
  <2> HIDE DEF now
  <2>7. warned' \subseteq Agents \X Agents \X Paths
    BY <2>1, <2>3 DEF WorkspaceTypeOK
  <2> QED
    BY <1>1, <2>1, <2>4, <2>5, <2>6, <2>7 DEF Tells
<1>6. CASE ConflictsFound(c)
  <2> DEFINE now == AfterConflicts(c)
  <2>1. /\ agentCall[c].at = "others" /\ agentCall[c].left = {}
        /\ agentCall' = [agentCall EXCEPT ![c] = now]
        /\ UNCHANGED <<intent, discoveries, noted, steady, outran, warned>>
    BY <1>6 DEF ConflictsFound
  <2>2. now \in AgentCalls /\ now.at \notin {"stream", "mark"}
    BY IdleCalls
  <2> HIDE DEF now
  <2> QED
    BY <1>1, <2>1, <2>2 DEF WorkspaceTypeOK, Tells
<1>7. ASSUME NEW now \in AgentCalls, agentCall' = [agentCall EXCEPT ![c] = now],
             agentCall[c].at \in {"intent", "stream"}, now.at \in {"idle", "stream", "mark"},
             UNCHANGED <<intent, discoveries, noted, steady, outran, warned>>,
             a \notin outran =>
                 /\ now.at = "stream" => now.read = intent[a]
                 /\ now.at = "mark" => ShownUpTo(a, Latest(now.found), now.found),
             now.at = "mark" => now.found # {} /\ now.found \subseteq 1 .. Len(discoveries)
      PROVE  WsInv'
  <2>1. agentCall'[c] = now /\ \A d \in ToolCalls \ {c} : agentCall'[d] = agentCall[d]
    BY <1>7 DEF WorkspaceTypeOK
  <2>2. a \notin outran => ChoosingInv(c)'
    <3> SUFFICES ASSUME a \notin outran PROVE ChoosingInv(c)'
      OBVIOUS
    <3>1. ShownUpTo(a, intent[a].mark, {}) /\ intent[a].mark <= Len(discoveries)
      BY <1>a DEF NotesInv, NoNoteIsSkipped, ShownUpTo
    <3> QED
      BY <1>7, <1>a, <2>1, <3>1 DEF ChoosingInv, ShownUpTo
  <2>3. WorkspaceTypeOK' /\ NotesInv'
    <3>1. warned' \subseteq Agents \X Agents \X Paths
      BY <1>7 DEF WorkspaceTypeOK
    <3> QED
      BY <1>7, <2>2, <3>1, CallMoves
  <2>4. \A x, y, f : WillTell(x, y, f) => WillTell(x, y, f)'
    BY <1>7, <2>1, StillTelling
  <2>5. ConflictsInv'
    BY <1>7, <2>4, StillTold
  <2> QED
    BY <2>3, <2>5
<1>8. CASE ReadIntent(c)
  <2> DEFINE reading == [agentCall[c] EXCEPT !.at = "stream", !.read = intent[a]]
             now == IF intent[a].live THEN reading ELSE NotCalling
  <2>1. /\ agentCall[c].at = "intent" /\ agentCall' = [agentCall EXCEPT ![c] = now]
        /\ UNCHANGED <<intent, discoveries, noted, steady, outran, warned>>
    BY <1>8 DEF ReadIntent, GetIntent
  <2>2. reading \in AgentCalls /\ reading.at = "stream" /\ reading.read = intent[a]
    BY <1>a DEF AgentCalls
  <2> HIDE DEF reading
  <2>3. /\ now \in AgentCalls /\ now.at \in {"idle", "stream"}
        /\ now.at = "stream" => now.read = intent[a]
    BY <2>2, IdleCalls
  <2> HIDE DEF now
  <2> QED
    BY <1>7, <2>1, <2>3
<1>9. CASE GetNewDiscoveries(c)
  <2> DEFINE i == agentCall[c].read
             found == {n \in i.mark + 1 .. Len(discoveries) : Relevant(n, i)}
             telling == [NotCalling EXCEPT !.at = "mark", !.found = found]
             now == IF found # {} THEN telling ELSE NotCalling
  <2>1. /\ agentCall[c].at = "stream" /\ agentCall' = [agentCall EXCEPT ![c] = now]
        /\ UNCHANGED <<intent, discoveries, noted, steady, outran, warned>>
    BY <1>9 DEF GetNewDiscoveries
  <2>2. i \in Intents /\ i.mark \in Nat
    BY <1>a DEF AgentCalls, Intents
  <2>3. found \subseteq 1 .. Len(discoveries) /\ found \in SUBSET Nat
    BY <1>l, <2>2
  <2>4. /\ telling \in AgentCalls /\ telling.at = "mark" /\ telling.found = found
    BY <2>3 DEF AgentCalls, NotCalling, Blank, Intents
  <2>5. a \notin outran /\ found # {} => ShownUpTo(a, Latest(found), found)
    <3> SUFFICES ASSUME a \notin outran, found # {}, NEW n \in steady[a], n <= Latest(found)
                 PROVE  n \in noted[a] \cup found
      BY DEF ShownUpTo
    <3>1. n \in 1 .. Len(discoveries) /\ discoveries[n] \in intent[a].about
      BY <1>a DEF NotesInv, Matching, Relevant
    <3>2. intent[a].about \subseteq i.about /\ ShownUpTo(a, i.mark, {})
      BY <2>1 DEF NotesInv, ChoosingInv
    <3>3. CASE n <= i.mark
      BY <3>2, <3>3 DEF ShownUpTo
    <3>4. CASE ~(n <= i.mark)
      BY <1>l, <2>2, <3>1, <3>2, <3>4 DEF Relevant, Matching
    <3> QED
      BY <3>3, <3>4
  <2> HIDE DEF i, found, telling
  <2>6. /\ now \in AgentCalls /\ now.at \in {"idle", "mark"}
        /\ now.at = "mark" => found # {} /\ now.found = found
    BY <2>4, IdleCalls
  <2> HIDE DEF now
  <2> QED
    BY <1>7, <2>1, <2>3, <2>5, <2>6
<1> QED
  BY <1>2, <1>3, <1>4, <1>5, <1>6, <1>8, <1>9

LEMMA ShowSteps ==
    ASSUME WsInv, NEW c \in ToolCalls, ShowDiscoveries(c)
    PROVE  WsInv'
<1> USE DEF WsInv
<1>0. PICK a : a = AgentOf[c]
  OBVIOUS
<1>1. PICK found : found = agentCall[c].found
  OBVIOUS
<1> DEFINE new == [live |-> TRUE, files |-> intent[a].files, about |-> intent[a].about,
                   mark |-> Latest(found)]
<1>2. /\ agentCall[c].at = "mark" /\ agentCall' = [agentCall EXCEPT ![c] = NotCalling]
      /\ intent' = [intent EXCEPT ![a] = new]
      /\ warned' = {t \in warned : a \in {t[1], t[2]} => t[3] \in intent[a].files}
      /\ steady' = [steady EXCEPT ![a] = {n \in @ : Relevant(n, new)}]
      /\ noted' = [noted EXCEPT ![a] = @ \cup found]
      /\ UNCHANGED <<discoveries, outran>>
  BY <1>0, <1>1 DEF ShowDiscoveries, PublishIntent
<1>3. a \in Agents /\ intent[a] \in Intents /\ Len(discoveries) \in Nat
  BY <1>0 DEF Agents, WorkspaceTypeOK
<1>4. found # {} /\ found \subseteq 1 .. Len(discoveries)
  BY <1>1, <1>2 DEF NotesInv
<1>5. Latest(found) \in 1 .. Len(discoveries) /\ Latest(found) \in Nat
  <2> DEFINE n == Len(discoveries)
  <2>1. n \in Nat /\ found \in SUBSET (1 .. n) /\ found # {}
    BY <1>3, <1>4
  <2> HIDE DEF n
  <2>2. Latest(found) \in 1 .. n
    BY <2>1, LatestIsLast
  <2> QED
    BY <2>1, <2>2 DEF n
<1>6. /\ new \in Intents /\ new.files = intent[a].files /\ new.about = intent[a].about
      /\ new.mark = Latest(found) /\ new.live
  BY <1>3, <1>5 DEF Intents
<1> HIDE DEF new
<1>7. /\ intent' \in [Agents -> Intents] /\ intent'[a] = new
      /\ steady' \in [Agents -> SUBSET Nat] /\ steady'[a] \subseteq steady[a]
      /\ \A b \in Agents \ {a} : intent'[b] = intent[b] /\ steady'[b] = steady[b]
      /\ \A n \in steady'[a] : discoveries[n] \in new.about
  BY <1>2, <1>3, <1>6 DEF WorkspaceTypeOK, Relevant, Matching
<1>8. /\ agentCall' \in [ToolCalls -> AgentCalls] /\ agentCall'[c].at = "idle"
      /\ \A d \in ToolCalls \ {c} : agentCall'[d] = agentCall[d]
  BY <1>2, IdleCalls DEF WorkspaceTypeOK
<1>9. WorkspaceTypeOK' /\ NotesInv'
  <2>1. \A d \in ToolCalls :
            \/ agentCall'[d].at \notin {"stream", "mark"}
            \/ /\ agentCall'[d] = agentCall[d]
               /\ AgentOf[d] = a /\ a \notin outran' => new.about \subseteq intent[a].about
    BY <1>6, <1>8
  <2>2. /\ noted' \in [Agents -> SUBSET Nat] /\ \A b \in Agents : noted[b] \subseteq noted'[b]
        /\ noted'[a] = noted[a] \cup found
        /\ warned' \subseteq Agents \X Agents \X Paths
    BY <1>2, <1>3, <1>4 DEF WorkspaceTypeOK
  <2>3. a \notin outran' => \A n \in steady[a] : n <= new.mark => n \in noted'[a]
    <3>1. a \notin outran => ShownUpTo(a, Latest(found), found)
      BY <1>0, <1>1, <1>2 DEF NotesInv, ChoosingInv
    <3> QED
      BY <1>2, <1>6, <2>2, <3>1 DEF ShownUpTo
  <2>4. outran \subseteq outran' /\ outran' \subseteq Agents /\ UNCHANGED discoveries
        /\ new.mark <= Len(discoveries)
    BY <1>2, <1>3, <1>5, <1>6 DEF WorkspaceTypeOK
  <2> QED
    BY <1>3, <1>6, <1>7, <1>8, <2>1, <2>2, <2>3, <2>4, IntentMoves
<1>10. ConflictsInv'
  <2>1. \A b \in Agents : /\ intent'[b].files \subseteq intent[b].files
                          /\ intent[b].live /\ intent'[b].files # {} => intent'[b].live
    BY <1>6, <1>7
  <2>2. ASSUME NEW x \in Agents, NEW y \in Agents,
               NEW f \in intent'[x].files \cap intent'[y].files, <<x, y, f>> \in warned
        PROVE  <<x, y, f>> \in warned'
    BY <1>2, <1>6, <1>7, <2>2
  <2>3. \A x, y, f : WillTell(x, y, f) => WillTell(x, y, f)'
    BY <1>2, <1>8, StillTelling
  <2> QED
    BY <2>1, <2>2, <2>3, StillTold
<1> QED
  BY <1>9, <1>10

LEMMA OtherSteps ==
    ASSUME WsInv,
           \/ PostDiscovery \/ \E a \in Agents : AgentEnds(a) \/ Expire(a)
           \/ UNCHANGED workspaceVars
    PROVE  WsInv'
<1> USE DEF WsInv
<1>l. Len(discoveries) \in Nat
  BY DEF WorkspaceTypeOK
<1>1. ASSUME PostDiscovery \/ UNCHANGED workspaceVars PROVE WsInv'
  <2>1. UNCHANGED <<intent, agentCall, warned, noted, outran>>
    BY <1>1 DEF PostDiscovery, workspaceVars
  <2>2. /\ discoveries' \in Seq(Topics) /\ steady' \in [Agents -> SUBSET Nat]
        /\ Len(discoveries) <= Len(discoveries') /\ Len(discoveries') \in Nat
        /\ \A n \in 1 .. Len(discoveries) : discoveries'[n] = discoveries[n]
        /\ \A a \in Agents : \A n \in steady'[a] :
              \/ n \in steady[a]
              \/ /\ n = Len(discoveries) + 1 /\ n = Len(discoveries')
                 /\ discoveries'[n] \in intent[a].about
    <3>1. CASE PostDiscovery
      <4>1. PICK topic \in Topics :
                /\ discoveries' = Append(discoveries, topic)
                /\ steady' = [a \in Agents |-> IF topic \in intent[a].about
                                  THEN steady[a] \cup {Len(discoveries) + 1} ELSE steady[a]]
        BY <3>1 DEF PostDiscovery
      <4> DEFINE last == Len(discoveries) + 1
      <4>2. /\ discoveries' \in Seq(Topics) /\ Len(discoveries') = last
            /\ \A n \in 1 .. Len(discoveries) : discoveries'[n] = discoveries[n]
            /\ discoveries'[last] = topic
        BY <4>1 DEF WorkspaceTypeOK
      <4>3. last \in Nat /\ Len(discoveries) <= last
        BY <1>l
      <4>4. steady' = [a \in Agents |-> IF topic \in intent[a].about
                           THEN steady[a] \cup {last} ELSE steady[a]]
        BY <4>1
      <4> HIDE DEF last
      <4>5. steady' \in [Agents -> SUBSET Nat]
        BY <4>3, <4>4 DEF WorkspaceTypeOK
      <4>6. \A a \in Agents : \A n \in steady'[a] :
                n \in steady[a] \/ (n = last /\ discoveries'[n] \in intent[a].about)
        <5> SUFFICES ASSUME NEW a \in Agents, NEW n \in steady'[a], n \notin steady[a]
                     PROVE  n = last /\ discoveries'[n] \in intent[a].about
          OBVIOUS
        <5>1. steady'[a] = IF topic \in intent[a].about THEN steady[a] \cup {last} ELSE steady[a]
          BY <4>4
        <5>2. topic \in intent[a].about /\ n = last
          BY <5>1
        <5> QED
          BY <4>2, <5>2
      <4> QED
        BY <4>2, <4>3, <4>5, <4>6 DEF last
    <3>2. CASE UNCHANGED workspaceVars
      BY <1>l, <3>2 DEF workspaceVars, WorkspaceTypeOK
    <3> QED
      BY <1>1, <3>1, <3>2
  <2>3. WorkspaceTypeOK'
    BY <2>1, <2>2 DEF WorkspaceTypeOK
  <2>4. ConflictsInv'
    BY <2>1 DEF ConflictsInv, Told, WillTell
  <2>5. \A a \in Agents : steady[a] \subseteq 1 .. Len(discoveries)
                          /\ \A n \in steady[a] : discoveries[n] \in intent[a].about
    BY DEF NotesInv, Matching, Relevant
  <2>6. \A a \in Agents : Matching(a)'
    BY <1>l, <2>1, <2>2, <2>5 DEF Relevant, Matching
  <2>7. \A a \in Agents : \A n \in steady'[a] :
            n \in Nat /\ (n <= Len(discoveries) => n \in steady[a])
    BY <1>l, <2>2, <2>5
  <2>8. \A d \in ToolCalls :
            /\ AgentOf[d] \notin outran' => ChoosingInv(d)'
            /\ agentCall'[d].at = "mark" => /\ agentCall'[d].found # {}
                                            /\ agentCall'[d].found \subseteq 1 .. Len(discoveries')
    BY <2>1, <2>2, <2>7, StillShown
  <2>9. \A a \in Agents : intent'[a].mark <= Len(discoveries')
    <3> SUFFICES ASSUME NEW a \in Agents PROVE intent'[a].mark <= Len(discoveries')
      OBVIOUS
    <3>1. intent[a].mark \in Nat /\ intent[a].mark <= Len(discoveries)
      BY DEF NotesInv, WorkspaceTypeOK, Intents
    <3> QED
      BY <1>l, <2>1, <2>2, <3>1
  <2>10. NoNoteIsSkipped'
    <3> SUFFICES ASSUME NEW a \in Agents \ outran', NEW n \in steady'[a], n <= intent'[a].mark
                 PROVE  n \in noted'[a]
      BY DEF NoNoteIsSkipped
    <3>1. intent[a].mark \in Nat /\ intent[a].mark <= Len(discoveries)
      BY DEF NotesInv, WorkspaceTypeOK, Intents
    <3>2. n \in steady[a]
      BY <1>l, <2>1, <2>7, <3>1
    <3> QED
      BY <2>1, <3>2 DEF NotesInv, NoNoteIsSkipped
  <2> QED
    BY <2>3, <2>4, <2>6, <2>8, <2>9, <2>10 DEF NotesInv
<1>2. ASSUME NEW a \in Agents, AgentEnds(a) \/ Expire(a) PROVE WsInv'
  <2>1. UNCHANGED <<discoveries, agentCall, noted, outran>>
        /\ (RemoveIntent(a) \/ UNCHANGED <<intent, warned, steady>>)
    BY <1>2 DEF AgentEnds, Expire
  <2>2. CASE UNCHANGED <<intent, warned, steady>>
    BY <2>1, <2>2 DEF WorkspaceTypeOK, ConflictsInv, Told, WillTell, NotesInv, ChoosingInv,
       ShownUpTo, NoNoteIsSkipped, Relevant, Matching
  <2>3. CASE RemoveIntent(a)
    <3>1. /\ intent' = [intent EXCEPT ![a] = Blank] /\ steady' = [steady EXCEPT ![a] = {}]
          /\ warned' = {t \in warned : a \notin {t[1], t[2]}}
      BY <2>3 DEF RemoveIntent
    <3>2. /\ intent' \in [Agents -> Intents] /\ intent'[a] = Blank
          /\ steady' \in [Agents -> SUBSET Nat] /\ steady'[a] = {}
          /\ \A b \in Agents \ {a} : intent'[b] = intent[b] /\ steady'[b] = steady[b]
      BY <3>1, IdleCalls DEF WorkspaceTypeOK
    <3>3. WorkspaceTypeOK' /\ NotesInv'
      <4>1. \A d \in ToolCalls :
                \/ agentCall'[d].at \notin {"stream", "mark"}
                \/ /\ agentCall'[d] = agentCall[d]
                   /\ AgentOf[d] = a /\ a \notin outran' => Blank.about \subseteq intent[a].about
        BY <2>1, IdleCalls
      <4>2. /\ noted' \in [Agents -> SUBSET Nat] /\ \A b \in Agents : noted[b] \subseteq noted'[b]
            /\ agentCall' \in [ToolCalls -> AgentCalls]
            /\ warned' \subseteq Agents \X Agents \X Paths
        BY <2>1, <3>1 DEF WorkspaceTypeOK
      <4>3. outran \subseteq outran' /\ outran' \subseteq Agents /\ UNCHANGED discoveries
            /\ Blank.mark <= Len(discoveries) /\ steady'[a] \subseteq steady[a]
            /\ \A n \in steady'[a] : discoveries[n] \in Blank.about
        BY <1>l, <2>1, <3>2, IdleCalls DEF WorkspaceTypeOK
      <4>4. \A n \in steady[a] : n <= Blank.mark => n \in noted'[a]
        <5>1. \A n \in steady[a] : n \in Nat /\ n >= 1
          BY <1>l DEF NotesInv, Matching
        <5> QED
          BY <5>1, IdleCalls
      <4> QED
        BY <3>2, <4>1, <4>2, <4>3, <4>4, IdleCalls, IntentMoves
    <3>4. ConflictsInv'
      <4>1. \A b \in Agents : /\ intent'[b].files \subseteq intent[b].files
                              /\ intent[b].live /\ intent'[b].files # {} => intent'[b].live
        BY <3>2, IdleCalls
      <4>2. ASSUME NEW x \in Agents, NEW y \in Agents,
                   NEW f \in intent'[x].files \cap intent'[y].files, <<x, y, f>> \in warned
            PROVE  <<x, y, f>> \in warned'
        <5>1. x # a /\ y # a
          BY <3>2, IdleCalls
        <5> QED
          BY <3>1, <4>2, <5>1
      <4>3. \A x, y, f : WillTell(x, y, f) => WillTell(x, y, f)'
        BY <2>1 DEF WillTell
      <4> QED
        BY <4>1, <4>2, <4>3, StillTold
    <3> QED
      BY <3>3, <3>4
  <2> QED
    BY <2>1, <2>2, <2>3
<1> QED
  BY <1>1, <1>2

LEMMA WorkspaceSteps == WsInv /\ [WorkspaceNext]_workspaceVars => WsInv'
  BY DeclareSteps, CallSteps, ShowSteps, OtherSteps DEF WorkspaceNext

\* However the calls of the agents of a graph overlap and whenever their intents are declared anew,
\* expire or are removed: of two agents that declared a file and are not in a call, one has been
\* told of the other (ledger.ts), and no agent's mark has passed a discovery that concerns it and
\* that it was not shown, unless it changed its intent under a call's hands (enrichment.ts).
THEOREM WhatConcernsThemIsAlwaysTold == WorkspaceSpec => []WhatConcernsThemIsTold
<1>1. WsInv => WhatConcernsThemIsTold
  <2> SUFFICES ASSUME WsInv PROVE ConflictsAreTold /\ NoNoteIsSkipped
    BY DEF WhatConcernsThemIsTold
  <2>1. ASSUME NEW a \in Agents, ~Busy(a), NEW b, NEW f PROVE ~WillTell(a, b, f)
    BY <2>1 DEF Busy, WillTell, Tells
  <2>2. ConflictsAreTold
    BY <2>1 DEF WsInv, ConflictsInv, Told, ConflictsAreTold
  <2> QED
    BY <2>2 DEF WsInv, NotesInv
<1> QED
  BY WorkspaceInitially, WorkspaceSteps, <1>1, PTL DEF WorkspaceSpec


-----------------------------------------------------------------------------
\* Peers. A summary that is not yet true of its graph's record has a handler on its way to
\* bring it right, and so have two live graphs of which neither was told.

PeersSpec == PeersInit /\ [][PeersNext]_peerVars

Failed == "validation_failed"
Ends == {"validated", Failed, "completed", "failed", "canceled"}
Summaries == LiveStatuses \cup {"none", "done", Failed}
Syncing == {"get", "set", "drop", "scan", "clear", "deregister"}
HandlerStates ==
    [at : Syncing \cup {"rest", "register", "peers", "exists", "add"},
     graph : PeerIds \cup {"none"}, to : LiveStatuses \cup Ends \cup {"none"}, read : Summaries,
     old : SUBSET PeerIds, cutoff : Nat]

PeersTypeOK ==
    /\ graphRecord \in [PeerIds -> LiveStatuses \cup Ends \cup {"none"}]
    /\ summary \in [PeerIds -> Summaries] /\ failedAt \in [PeerIds -> Nat]
    /\ footprint \subseteq PeerIds /\ handler \in [Handlers -> HandlerStates]
    /\ changes \in Nat /\ succeeded \in Nat /\ succeeded <= changes
    /\ knownTo \subseteq PeerIds \X PeerIds

\* A handler that is about to record the failure of g.
Failing(c, g) == c.graph = g /\ c.to = Failed /\ c.at \in {"get", "set"}

\* What a handler syncs has happened to its graph, and a failure is recorded once.
HandlerInv(h) ==
    LET c == handler[h]
        g == c.graph
    IN  /\ c.at # "rest" => g \in PeerIds /\ graphRecord[g] # "none"
        /\ c.at \in Syncing =>
              \/ c.to \in LiveStatuses
              \/ c.to \in Ends /\ graphRecord[g] = c.to
              \/ c.to \in {"failed", "canceled"} /\ g \in revived
        /\ c.at = "drop" => c.to = Failed
        /\ c.at \in {"scan", "clear"} => c.to \in Success
        /\ c.at = "deregister" => c.to \in Ends \ {Failed}
        /\ c.at \in Syncing /\ c.to \in Success => c.cutoff <= succeeded
        /\ c.at = "set" => c.read # "none"
        /\ Failing(c, g) => summary[g] # Failed
                            /\ \A k \in Handlers : Failing(handler[k], g) => k = h
        /\ c.at = "clear" => \A p \in c.old :
              /\ graphRecord[p] = Failed /\ failedAt[p] < c.cutoff
              /\ \A k \in Handlers : ~Failing(handler[k], p)

At(g, steps) == \E h \in Handlers : handler[h].graph = g /\ handler[h].at \in steps
Syncs(g, steps) ==
    \E h \in Handlers :
        handler[h].graph = g /\ handler[h].at \in steps /\ handler[h].to = graphRecord[g]

\* What is not yet true of the summary and the files of g is about to be brought right.
GraphInv(g) ==
    /\ graphRecord[g] \in LiveStatuses => summary[g] \in LiveStatuses \/ At(g, {"register"})
    /\ summary[g] \in LiveStatuses =>
          graphRecord[g] \in LiveStatuses \/ Syncs(g, {"get", "set"})
    /\ g \in footprint => summary[g] # "none"
    /\ g \in footprint => graphRecord[g] \in LiveStatuses \/ Syncs(g, Syncing)
    /\ summary[g] = "done" =>
          Syncs(g, {"scan", "clear", "deregister"}) /\ graphRecord[g] \notin LiveStatuses
    /\ graphRecord[g] = Failed =>
          \/ summary[g] = Failed \/ succeeded > failedAt[g] \/ At(g, {"register"})
          \/ summary[g] # "none" /\ Syncs(g, {"get", "set"})

\* Two live graphs know of each other, or one of them has yet to register or to look.
PairInv(g, p) ==
    g # p /\ {graphRecord[g], graphRecord[p]} \subseteq LiveStatuses =>
        \/ <<p, g>> \in knownTo \/ <<g, p>> \in knownTo
        \/ At(g, {"register", "peers"}) \/ At(p, {"register", "peers"})

Upright(g) == g \notin stale \cup revived

RegistryInv ==
    /\ \A g \in PeerIds : graphRecord[g] = "none" => summary[g] = "none" /\ g \notin footprint
    /\ \A g \in PeerIds : summary[g] = Failed => graphRecord[g] = Failed
    /\ \A g \in PeerIds : Upright(g) => GraphInv(g)
    /\ \A g, p \in PeerIds : Upright(g) /\ Upright(p) => PairInv(g, p)

PInv == PeersTypeOK /\ (\A h \in Handlers : HandlerInv(h)) /\ RegistryInv

LEMMA StatusesMove ==
    \A r, s : s \in NextStatus(r) => r \in LiveStatuses /\ s \in LiveStatuses \cup Ends
  BY DEF NextStatus, LiveStatuses, Ends, Failed

LEMMA Words ==
    /\ LiveStatuses \cap Ends = {} /\ "none" \notin LiveStatuses \cup Ends
    /\ Failed \in Ends /\ Success \subseteq Ends \ {Failed} /\ "done" \notin LiveStatuses
    /\ Success \cap {"failed", "canceled"} = {}
    /\ Failed \notin {"failed", "canceled", "none", "done"}
    /\ Ends = Success \cup {Failed, "failed", "canceled"} /\ "active" \in LiveStatuses
  BY DEF LiveStatuses, Ends, Failed, Success

LEMMA PeersInitially == PeersInit => PInv
<1> SUFFICES ASSUME PeersInit PROVE PInv
  OBVIOUS
<1>1. Resting \in HandlerStates /\ Resting.at = "rest"
  BY DEF Resting, HandlerStates, Summaries
<1>2. PeersTypeOK
  BY <1>1 DEF PeersInit, PeersTypeOK, Summaries
<1>3. \A h \in Handlers : HandlerInv(h)
  BY <1>1 DEF PeersInit, HandlerInv, Failing, Syncing
<1>4. RegistryInv
  <2>1. \A g \in PeerIds : graphRecord[g] = "none" /\ summary[g] = "none" /\ g \notin footprint
    BY DEF PeersInit
  <2> QED
    BY <2>1, Words DEF RegistryInv, GraphInv, PairInv
<1> QED
  BY <1>2, <1>3, <1>4 DEF PInv

\* A failure that is about to be recorded is the end of its graph.
LEMMA FailingHasFailed ==
    ASSUME NEW k \in Handlers, HandlerInv(k), NEW g, Failing(handler[k], g)
    PROVE  g \in PeerIds /\ graphRecord[g] = Failed /\ summary[g] # Failed
  BY Words DEF HandlerInv, Failing, Syncing

\* A handler that does not move, in a step that changes no end but by retry_task.
LEMMA Unmoved ==
    ASSUME PInv, NEW k \in Handlers, handler'[k] = handler[k], revived \subseteq revived',
           succeeded' \in Nat, succeeded <= succeeded',
           \A g \in PeerIds :
               \/ graphRecord'[g] = graphRecord[g]
               \/ /\ graphRecord[g] \notin Success \cup {Failed} /\ graphRecord'[g] # "none"
                  /\ graphRecord[g] \in {"failed", "canceled"} => g \in revived',
           \A g \in PeerIds : Failing(handler[k], g) /\ summary'[g] = Failed => summary[g] = Failed,
           \A g \in PeerIds :
               failedAt'[g] = failedAt[g] \/ \E j \in Handlers : Failing(handler[j], g),
           \A j \in Handlers : \A g \in PeerIds :
               Failing(handler'[j], g) => Failing(handler[j], g) \/ graphRecord[g] # Failed
    PROVE  HandlerInv(k)'
<1> DEFINE c == handler[k]
           g == handler[k].graph
<1>1. c \in HandlerStates /\ HandlerInv(k) /\ \A j \in Handlers : HandlerInv(j)
  BY DEF PInv, PeersTypeOK
<1>2. c.at \in Syncing \cup {"register", "peers", "exists", "add"} => g \in PeerIds
  BY <1>1 DEF HandlerInv, Syncing
<1>3. /\ c.at # "rest" => g \in PeerIds /\ graphRecord'[g] # "none"
      /\ c.at \in Syncing =>
            \/ c.to \in LiveStatuses
            \/ c.to \in Ends /\ graphRecord'[g] = c.to
            \/ c.to \in {"failed", "canceled"} /\ g \in revived'
  BY <1>1, <1>2, Words DEF HandlerInv, Syncing
<1>4. c.at \in Syncing /\ c.to \in Success => c.cutoff <= succeeded'
  BY <1>1 DEF HandlerInv, HandlerStates, PInv, PeersTypeOK
<1>5. Failing(c, g) => summary'[g] # Failed
                       /\ \A j \in Handlers : Failing(handler'[j], g) => j = k
  BY <1>1, FailingHasFailed DEF HandlerInv
<1>6. c.at = "clear" => \A p \in c.old :
          /\ graphRecord'[p] = Failed /\ failedAt'[p] < c.cutoff
          /\ \A j \in Handlers : ~Failing(handler'[j], p)
  <2> SUFFICES ASSUME c.at = "clear", NEW p \in c.old
               PROVE  /\ graphRecord'[p] = Failed /\ failedAt'[p] < c.cutoff
                      /\ \A j \in Handlers : ~Failing(handler'[j], p)
    OBVIOUS
  <2>1. p \in PeerIds
    BY <1>1 DEF HandlerStates
  <2>2. /\ graphRecord[p] = Failed /\ failedAt[p] < c.cutoff
        /\ \A j \in Handlers : ~Failing(handler[j], p)
    BY <1>1 DEF HandlerInv
  <2> QED
    BY <2>1, <2>2
<1> HIDE DEF c
<1>7. handler'[k] = c
  BY DEF c
<1> QED
  BY <1>1, <1>3, <1>4, <1>5, <1>6, <1>7 DEF HandlerInv, c

\* A graph that a step leaves alone.
LEMMA Elsewhere ==
    ASSUME NEW g \in PeerIds, GraphInv(g), summary'[g] = summary[g],
           graphRecord'[g] = graphRecord[g], failedAt'[g] = failedAt[g], failedAt[g] \in Nat,
           g \in footprint' => g \in footprint, succeeded \in Nat, succeeded' \in Nat,
           succeeded <= succeeded',
           \A k \in Handlers :
               handler[k].graph = g /\ handler[k].at \in Syncing \cup {"register"} =>
                   /\ handler'[k].graph = g /\ handler'[k].at = handler[k].at
                   /\ handler'[k].to = handler[k].to
    PROVE  GraphInv(g)'
<1>1. \A steps \in SUBSET (Syncing \cup {"register"}) :
          /\ At(g, steps) => At(g, steps)'
          /\ Syncs(g, steps) => Syncs(g, steps)'
  BY DEF At, Syncs
<1>2. /\ At(g, {"register"}) => At(g, {"register"})'
      /\ Syncs(g, {"get", "set"}) => Syncs(g, {"get", "set"})'
      /\ Syncs(g, {"scan", "clear", "deregister"}) => Syncs(g, {"scan", "clear", "deregister"})'
      /\ Syncs(g, Syncing) => Syncs(g, Syncing)'
  BY <1>1 DEF Syncing
<1> QED
  BY <1>2 DEF GraphInv

\* Pairs of graphs of which none comes to life and none is forgotten.
LEMMA PairsAlone ==
    ASSUME RegistryInv, \A g \in PeerIds : Upright(g)' => Upright(g), knownTo \subseteq knownTo',
           \A g \in PeerIds : graphRecord'[g] \in LiveStatuses /\ Upright(g)' =>
               graphRecord[g] \in LiveStatuses,
           \A k \in Handlers : handler[k].at \in {"register", "peers"} =>
               handler'[k].graph = handler[k].graph /\ handler'[k].at \in {"register", "peers"}
    PROVE  \A g, p \in PeerIds : Upright(g)' /\ Upright(p)' => PairInv(g, p)'
<1>1. \A g \in PeerIds : At(g, {"register", "peers"}) => At(g, {"register", "peers"})'
  BY DEF At
<1> QED
  BY <1>1 DEF RegistryInv, PairInv

\* A command of a handler that is under way, about the graph g.
LEMMA Commands ==
    ASSUME PInv, NEW h \in Handlers, NEW m \in HandlerStates, NEW g \in PeerIds,
           handler' = [handler EXCEPT ![h] = m],
           UNCHANGED <<graphRecord, changes, revived, succeeded>>, stale \subseteq stale',
           summary' \in [PeerIds -> Summaries], failedAt' \in [PeerIds -> Nat],
           footprint' \subseteq PeerIds, knownTo' \subseteq PeerIds \X PeerIds,
           HandlerInv(h)',
           \A x \in PeerIds : Failing(m, x) => Failing(handler[h], x),
           summary'[g] = Failed => summary[g] = Failed \/ Failing(handler[h], g),
           failedAt'[g] = failedAt[g] \/ Failing(handler[h], g),
           graphRecord[g] # "none",
           Upright(g)' => GraphInv(g)',
           \A x \in PeerIds \ {g} :
               /\ summary'[x] = summary[x] /\ failedAt'[x] = failedAt[x]
               /\ x \in footprint' => x \in footprint
               /\ handler[h].graph = x /\ handler[h].at \in Syncing \cup {"register"} =>
                     m.graph = x /\ m.at = handler[h].at /\ m.to = handler[h].to,
           \A x, y \in PeerIds : Upright(x)' /\ Upright(y)' => PairInv(x, y)'
    PROVE  PInv'
<1> USE DEF PInv
<1>1. handler'[h] = m /\ \A k \in Handlers \ {h} : handler'[k] = handler[k]
  BY DEF PeersTypeOK
<1>2. PeersTypeOK'
  BY DEF PeersTypeOK
<1>3. ASSUME NEW k \in Handlers \ {h} PROVE HandlerInv(k)'
  <2>1. handler'[k] = handler[k] /\ succeeded' \in Nat /\ succeeded <= succeeded'
    BY <1>1 DEF PeersTypeOK
  <2>2. \A x \in PeerIds : Failing(handler[k], x) /\ summary'[x] = Failed => summary[x] = Failed
    <3> SUFFICES ASSUME NEW x \in PeerIds, Failing(handler[k], x), summary'[x] = Failed,
                        summary[x] # Failed
                 PROVE  FALSE
      OBVIOUS
    <3>1. x = g /\ Failing(handler[h], g)
      OBVIOUS
    <3>2. handler[h].graph = g
      BY <3>1 DEF Failing
    <3> QED
      BY <3>1, <3>2 DEF HandlerInv
  <2>3. \A x \in PeerIds :
            failedAt'[x] = failedAt[x] \/ \E j \in Handlers : Failing(handler[j], x)
    OBVIOUS
  <2>4. \A j \in Handlers : \A x \in PeerIds :
            Failing(handler'[j], x) => Failing(handler[j], x) \/ graphRecord[x] # Failed
    BY <1>1
  <2> QED
    BY <2>1, <2>2, <2>3, <2>4, Unmoved
<1>4. ASSUME NEW x \in PeerIds \ {g}, Upright(x)' PROVE GraphInv(x)'
  <2>1. GraphInv(x) /\ failedAt[x] \in Nat /\ succeeded \in Nat
    BY <1>4 DEF Upright, RegistryInv, PeersTypeOK
  <2>2. \A k \in Handlers :
            handler[k].graph = x /\ handler[k].at \in Syncing \cup {"register"} =>
                /\ handler'[k].graph = x /\ handler'[k].at = handler[k].at
                /\ handler'[k].to = handler[k].to
    BY <1>1
  <2> QED
    BY <2>1, <2>2, Elsewhere
<1>5. \A x \in PeerIds : summary'[x] = Failed => graphRecord'[x] = Failed
  <2>1. Failing(handler[h], g) => graphRecord[g] = Failed
    BY FailingHasFailed
  <2> QED
    BY <2>1 DEF RegistryInv
<1>6. \A x \in PeerIds : graphRecord'[x] = "none" => summary'[x] = "none" /\ x \notin footprint'
  BY DEF RegistryInv
<1> QED
  BY <1>2, <1>3, <1>4, <1>5, <1>6 DEF RegistryInv

LEMMA RegisterSteps == ASSUME PInv, NEW h \in Handlers, Register(h) PROVE PInv'
<1> USE DEF PInv
<1>0. PICK g : g = handler[h].graph
  OBVIOUS
<1> DEFINE m == [handler[h] EXCEPT !.at = "peers"]
<1>1. /\ handler[h].at = "register" /\ handler' = [handler EXCEPT ![h] = m]
      /\ summary' = [summary EXCEPT ![g] = "active"]
      /\ stale' = IF graphRecord[g] \in LiveStatuses THEN stale ELSE stale \cup {g}
      /\ UNCHANGED <<graphRecord, changes, revived, failedAt, footprint, knownTo, succeeded>>
  BY <1>0 DEF Register, Kept, StandsAt, Goes
<1>2. handler[h] \in HandlerStates /\ g \in PeerIds /\ graphRecord[g] # "none"
  BY <1>0, <1>1 DEF PeersTypeOK, HandlerInv
<1>3. m \in HandlerStates /\ m.at = "peers" /\ m.graph = g
  BY <1>0, <1>2 DEF HandlerStates
<1> HIDE DEF m
<1>4. handler'[h] = m /\ \A k \in Handlers \ {h} : handler'[k] = handler[k]
  BY <1>1 DEF PeersTypeOK
<1>5. /\ summary' \in [PeerIds -> Summaries] /\ summary'[g] = "active"
      /\ \A x \in PeerIds \ {g} : summary'[x] = summary[x]
  BY <1>1, <1>2 DEF PeersTypeOK, Summaries, LiveStatuses
<1>6. HandlerInv(h)'
  BY <1>1, <1>2, <1>3, <1>4 DEF HandlerInv, Failing, Syncing
<1>7. Upright(g)' => GraphInv(g)'
  BY <1>1, <1>5, Words DEF Upright, GraphInv, Failed
<1>8. \A x, y \in PeerIds : Upright(x)' /\ Upright(y)' => PairInv(x, y)'
  BY <1>0, <1>1, <1>3, <1>4, PairsAlone DEF Upright
<1>9. \A x \in PeerIds : ~Failing(m, x)
  BY <1>3 DEF Failing
<1>10. failedAt' \in [PeerIds -> Nat] /\ footprint' \subseteq PeerIds
       /\ knownTo' \subseteq PeerIds \X PeerIds /\ stale \subseteq stale' /\ "active" # Failed
  BY <1>1 DEF PeersTypeOK, Failed
<1> QED
  BY <1>0, <1>1, <1>2, <1>3, <1>5, <1>6, <1>7, <1>8, <1>9, <1>10, Commands

LEMMA LookSteps == ASSUME PInv, NEW h \in Handlers, GetActiveGraphs(h) PROVE PInv'
<1> USE DEF PInv
<1>0. PICK g : g = handler[h].graph
  OBVIOUS
<1> DEFINE peers == {q \in PeerIds \ {g} : isActivePeer(summary[q])}
<1>1. /\ handler[h].at = "peers" /\ handler' = [handler EXCEPT ![h] = Resting]
      /\ knownTo' = knownTo \cup {<<p, g>> : p \in peers}
      /\ UNCHANGED <<graphRecord, changes, revived, summary, failedAt, footprint, succeeded, stale>>
  BY <1>0 DEF GetActiveGraphs, Kept, StandsAt, Finishes, ToldOf
<1>2. handler[h] \in HandlerStates /\ g \in PeerIds /\ graphRecord[g] # "none"
  BY <1>0, <1>1 DEF PeersTypeOK, HandlerInv
<1>3. Resting \in HandlerStates /\ Resting.at = "rest"
  BY DEF Resting, HandlerStates, Summaries
<1>4. handler'[h] = Resting /\ \A k \in Handlers \ {h} : handler'[k] = handler[k]
  BY <1>1 DEF PeersTypeOK
<1>5. knownTo' \subseteq PeerIds \X PeerIds
  BY <1>1, <1>2 DEF PeersTypeOK
<1>6. HandlerInv(h)'
  BY <1>3, <1>4 DEF HandlerInv, Failing, Syncing
<1>7. \A x \in PeerIds : Upright(x)' => GraphInv(x)'
  <2> SUFFICES ASSUME NEW x \in PeerIds, Upright(x)' PROVE GraphInv(x)'
    OBVIOUS
  <2>1. GraphInv(x) /\ failedAt[x] \in Nat /\ succeeded \in Nat
    BY <1>1 DEF Upright, RegistryInv, PeersTypeOK
  <2>2. \A k \in Handlers :
            handler[k].graph = x /\ handler[k].at \in Syncing \cup {"register"} =>
                /\ handler'[k].graph = x /\ handler'[k].at = handler[k].at
                /\ handler'[k].to = handler[k].to
    BY <1>1, <1>4 DEF Syncing
  <2> QED
    BY <1>1, <2>1, <2>2, Elsewhere
<1>8. \A x, y \in PeerIds : Upright(x)' /\ Upright(y)' => PairInv(x, y)'
  <2> SUFFICES ASSUME NEW x \in PeerIds, NEW y \in PeerIds, Upright(x)', Upright(y)', x # y,
                      {graphRecord[x], graphRecord[y]} \subseteq LiveStatuses
               PROVE  \/ <<y, x>> \in knownTo' \/ <<x, y>> \in knownTo'
                      \/ At(x, {"register", "peers"})' \/ At(y, {"register", "peers"})'
    BY <1>1 DEF PairInv
  <2>1. PairInv(x, y) /\ GraphInv(x) /\ GraphInv(y)
    BY <1>1 DEF RegistryInv, Upright
  <2>2. \A z \in PeerIds \ {g} :
            At(z, {"register", "peers"}) => At(z, {"register", "peers"})'
    BY <1>0, <1>4 DEF At
  <2>3. \A z \in PeerIds : At(z, {"register"}) => At(z, {"register", "peers"})'
    BY <1>1, <1>4 DEF At
  <2>4. \A z \in PeerIds \ {g} : summary[z] \in LiveStatuses => <<z, g>> \in knownTo'
    BY <1>1 DEF isActivePeer
  <2>5. CASE g \notin {x, y}
    BY <1>1, <2>1, <2>2, <2>5 DEF PairInv
  <2>6. CASE g = x
    BY <2>1, <2>3, <2>4, <2>6 DEF GraphInv
  <2>7. CASE g = y
    BY <2>1, <2>3, <2>4, <2>7 DEF GraphInv
  <2> QED
    BY <2>5, <2>6, <2>7
<1>9. \A x \in PeerIds : ~Failing(Resting, x)
  BY <1>3 DEF Failing
<1>10. /\ summary' \in [PeerIds -> Summaries] /\ failedAt' \in [PeerIds -> Nat]
       /\ footprint' \subseteq PeerIds
       /\ \A x \in PeerIds \ {g} : handler[h].graph # x
  BY <1>0, <1>1 DEF PeersTypeOK
<1> QED
  BY <1>1, <1>2, <1>3, <1>5, <1>6, <1>7, <1>8, <1>9, <1>10, Commands

\* The parts of a graph's invariant that follow a handler of its own.
LEMMA OwnHandler ==
    ASSUME NEW h \in Handlers, NEW g, handler[h].graph = g,
           \A k \in Handlers \ {h} : handler'[k] = handler[k],
           UNCHANGED graphRecord, handler[h].at # "register"
    PROVE  /\ At(g, {"register"}) => At(g, {"register"})'
           /\ \A steps \in SUBSET Syncing :
                 Syncs(g, steps) =>
                     \/ Syncs(g, steps)'
                     \/ handler[h].at \in steps /\ handler[h].to = graphRecord[g]
           /\ \A steps \in SUBSET Syncing :
                 handler'[h].graph = g /\ handler'[h].at \in steps
                         /\ handler'[h].to = graphRecord[g]
                     => Syncs(g, steps)'
  BY DEF At, Syncs

\* A command of a handler about its own graph, once that is registered.
LEMMA OwnCommand ==
    ASSUME PInv, NEW h \in Handlers, NEW m \in HandlerStates, NEW g, handler[h].graph = g,
           handler[h].at \notin {"rest", "register", "peers"},
           handler' = [handler EXCEPT ![h] = m],
           UNCHANGED <<graphRecord, changes, revived, succeeded, knownTo>>, stale \subseteq stale',
           summary' \in [PeerIds -> Summaries], failedAt' \in [PeerIds -> Nat],
           footprint' \subseteq PeerIds, HandlerInv(h)',
           \A x \in PeerIds : Failing(m, x) => Failing(handler[h], x),
           summary'[g] = Failed => summary[g] = Failed \/ Failing(handler[h], g),
           failedAt'[g] = failedAt[g] \/ Failing(handler[h], g),
           Upright(g)' => GraphInv(g)',
           \A x \in PeerIds \ {g} :
               /\ summary'[x] = summary[x] /\ failedAt'[x] = failedAt[x]
               /\ x \in footprint' => x \in footprint
    PROVE  PInv'
<1>1. \A k \in Handlers \ {h} : handler'[k] = handler[k]
  OBVIOUS
<1>2. g \in PeerIds /\ graphRecord[g] # "none"
  BY DEF PInv, HandlerInv
<1>3. \A k \in Handlers : handler[k].at \in {"register", "peers"} =>
          handler'[k].graph = handler[k].graph /\ handler'[k].at \in {"register", "peers"}
  BY <1>1
<1>4. \A x, y \in PeerIds : Upright(x)' /\ Upright(y)' => PairInv(x, y)'
  BY <1>3, PairsAlone DEF PInv, Upright
<1>5. knownTo' \subseteq PeerIds \X PeerIds
  BY DEF PInv, PeersTypeOK
<1> QED
  BY <1>2, <1>4, <1>5, Commands

LEMMA RestIsKnown ==
    /\ Resting \in HandlerStates /\ Resting.at = "rest" /\ Resting.graph = "none"
    /\ \A x : ~Failing(Resting, x)
  BY DEF Resting, HandlerStates, Summaries, Failing

\* A handler at rest has nothing to account for.
LEMMA RestHolds ==
    ASSUME NEW h \in Handlers, handler'[h] = Resting PROVE HandlerInv(h)'
  BY RestIsKnown DEF HandlerInv, Syncing, Failing

LEMMA GetSteps == ASSUME PInv, NEW h \in Handlers, GetSummary(h) PROVE PInv'
<1> USE DEF PInv
<1>0. PICK g : g = handler[h].graph
  OBVIOUS
<1>1. /\ handler[h].at = "get"
      /\ UNCHANGED <<graphRecord, changes, revived, summary, failedAt, footprint, knownTo,
                     succeeded, stale>>
  BY DEF GetSummary, Kept, StandsAt
<1>2. handler[h] \in HandlerStates /\ g \in PeerIds /\ graphRecord[g] # "none"
  BY <1>0, <1>1 DEF PeersTypeOK, HandlerInv
<1>3. \E m \in HandlerStates :
          /\ handler' = [handler EXCEPT ![h] = m]
          /\ \/ /\ summary[g] = "none" /\ m = Resting
                /\ handler[h].to \in LiveStatuses \cup {Failed}
             \/ /\ summary[g] = "none" /\ m.graph = g /\ m.to = handler[h].to
                /\ m.cutoff = handler[h].cutoff
                /\ \/ m.at = "scan" /\ m.to \in Success
                   \/ m.at = "deregister" /\ m.to \notin LiveStatuses \cup {Failed}
             \/ /\ summary[g] # "none" /\ m.graph = g /\ m.to = handler[h].to
                /\ m.cutoff = handler[h].cutoff /\ m.at = "set" /\ m.read = summary[g]
  <2>1. CASE summary[g] = "none" /\ handler[h].to \in LiveStatuses \cup {Failed}
    <3>1. handler' = [handler EXCEPT ![h] = Resting]
      BY <1>0, <2>1 DEF GetSummary, AfterSync, Finishes, Failed
    <3> QED
      BY <2>1, <3>1, RestIsKnown
  <2>2. CASE summary[g] = "none" /\ handler[h].to \notin LiveStatuses \cup {Failed}
    <3> DEFINE onward == IF handler[h].to \in Success THEN "scan" ELSE "deregister"
               m == [handler[h] EXCEPT !.at = onward]
    <3>1. handler' = [handler EXCEPT ![h] = m]
      BY <1>0, <2>2 DEF GetSummary, AfterSync, Goes, Failed
    <3>2. /\ m \in HandlerStates /\ m.at = onward /\ m.graph = g /\ m.to = handler[h].to
          /\ m.cutoff = handler[h].cutoff
      BY <1>0, <1>2 DEF HandlerStates, Syncing
    <3> QED
      BY <2>2, <3>1, <3>2
  <2>3. CASE summary[g] # "none"
    <3> DEFINE m == [handler[h] EXCEPT !.read = summary[g], !.at = "set"]
    <3>1. handler' = [handler EXCEPT ![h] = m]
      BY <1>0, <2>3 DEF GetSummary
    <3>2. /\ m \in HandlerStates /\ m.at = "set" /\ m.graph = g /\ m.to = handler[h].to
          /\ m.cutoff = handler[h].cutoff /\ m.read = summary[g]
      BY <1>0, <1>2 DEF HandlerStates, Syncing, PeersTypeOK
    <3> QED
      BY <2>3, <3>1, <3>2
  <2> QED
    BY <2>1, <2>2, <2>3
<1>4. PICK m \in HandlerStates :
          /\ handler' = [handler EXCEPT ![h] = m]
          /\ \/ /\ summary[g] = "none" /\ m = Resting
                /\ handler[h].to \in LiveStatuses \cup {Failed}
             \/ /\ summary[g] = "none" /\ m.graph = g /\ m.to = handler[h].to
                /\ m.cutoff = handler[h].cutoff
                /\ \/ m.at = "scan" /\ m.to \in Success
                   \/ m.at = "deregister" /\ m.to \notin LiveStatuses \cup {Failed}
             \/ /\ summary[g] # "none" /\ m.graph = g /\ m.to = handler[h].to
                /\ m.cutoff = handler[h].cutoff /\ m.at = "set" /\ m.read = summary[g]
  BY <1>3
<1>5. handler'[h] = m /\ \A k \in Handlers \ {h} : handler'[k] = handler[k]
  BY <1>4 DEF PeersTypeOK
<1>6. \A x : Failing(m, x) => Failing(handler[h], x)
  BY <1>0, <1>1, <1>4, RestIsKnown DEF Failing
<1>7. HandlerInv(h)'
  <2>1. HandlerInv(h)
    OBVIOUS
  <2>2. CASE m = Resting
    BY <1>5, <2>2, RestHolds
  <2>3. CASE m.at = "scan" /\ m.to \in Success /\ m.graph = g /\ m.to = handler[h].to
             /\ m.cutoff = handler[h].cutoff
    BY <1>0, <1>1, <1>2, <1>5, <2>1, <2>3, Words DEF HandlerInv, Syncing, Failing
  <2>4. CASE m.at = "deregister" /\ m.to \notin LiveStatuses \cup {Failed} /\ m.graph = g
             /\ m.to = handler[h].to /\ m.cutoff = handler[h].cutoff
    BY <1>0, <1>1, <1>2, <1>5, <2>1, <2>4, Words DEF HandlerInv, Syncing, Failing
  <2>5. CASE summary[g] # "none" /\ m.graph = g /\ m.to = handler[h].to
             /\ m.cutoff = handler[h].cutoff /\ m.at = "set" /\ m.read = summary[g]
    BY <1>0, <1>1, <1>2, <1>5, <2>1, <2>5, Words DEF HandlerInv, Syncing, Failing
  <2> QED
    BY <1>4, <2>2, <2>3, <2>4, <2>5
<1>8. ASSUME Upright(g)' PROVE GraphInv(g)'
  <2>1. GraphInv(g) /\ Upright(g)
    BY <1>1, <1>2, <1>8 DEF RegistryInv, Upright
  <2>2. At(g, {"register"}) => At(g, {"register"})'
    BY <1>0, <1>1, <1>5, OwnHandler
  <2>3. summary[g] # "none" => (Syncs(g, {"get", "set"}) => Syncs(g, {"get", "set"})')
                               /\ (Syncs(g, Syncing) => Syncs(g, Syncing)')
    BY <1>1, <1>4, <1>5 DEF Syncs, Syncing
  <2>4. Syncs(g, {"scan", "clear", "deregister"}) => Syncs(g, {"scan", "clear", "deregister"})'
    BY <1>1, <1>4, <1>5 DEF Syncs
  <2> QED
    BY <1>1, <2>1, <2>2, <2>3, <2>4, Words DEF GraphInv
<1> HIDE DEF PInv
<1>9. /\ summary' \in [PeerIds -> Summaries] /\ failedAt' \in [PeerIds -> Nat]
      /\ footprint' \subseteq PeerIds
  BY <1>1 DEF PInv, PeersTypeOK
<1> QED
  BY <1>0, <1>1, <1>4, <1>6, <1>7, <1>8, <1>9, OwnCommand

LEMMA SetSteps == ASSUME PInv, NEW h \in Handlers, SetSummary(h) PROVE PInv'
<1> USE DEF PInv
<1>0. PICK g : g = handler[h].graph
  OBVIOUS
<1>a. PICK to : to = handler[h].to
  OBVIOUS
<1>1. /\ handler[h].at = "set" /\ UNCHANGED <<graphRecord, changes, revived>>
      /\ UNCHANGED <<footprint, knownTo, succeeded>>
      /\ stale' = IF \/ handler[h].read = "none"
                     \/ summary[g] = handler[h].read /\ graphRecord[g] = to
                  THEN stale ELSE stale \cup {g}
      /\ summary' = [summary EXCEPT
            ![g] = IF to \in LiveStatuses \cup {Failed} THEN to ELSE "done"]
      /\ failedAt' = [failedAt EXCEPT ![g] = IF to = Failed THEN handler[h].cutoff ELSE @]
  BY <1>0, <1>a DEF SetSummary, Kept, StandsAt, Failed
<1>2. /\ handler[h] \in HandlerStates /\ g \in PeerIds /\ graphRecord[g] # "none"
      /\ handler[h].read # "none" /\ to \in LiveStatuses \cup Ends
  BY <1>0, <1>a, <1>1, Words DEF PeersTypeOK, HandlerInv, Syncing
<1>3. \E m \in HandlerStates :
          /\ handler' = [handler EXCEPT ![h] = m]
          /\ \/ m = Resting /\ to \in LiveStatuses
             \/ /\ m.graph = g /\ m.to = to /\ m.cutoff = handler[h].cutoff
                /\ \/ m.at = "drop" /\ to = Failed
                   \/ m.at = "scan" /\ to \in Success
                   \/ m.at = "deregister" /\ to \in Ends \ (Success \cup {Failed})
  <2>1. CASE to \in LiveStatuses
    <3>1. handler' = [handler EXCEPT ![h] = Resting]
      BY <1>a, <2>1 DEF SetSummary, AfterSync, Finishes
    <3> QED
      BY <2>1, <3>1, RestIsKnown
  <2>2. CASE to \notin LiveStatuses
    <3> DEFINE next == IF to = Failed THEN "drop"
                       ELSE IF to \in Success THEN "scan" ELSE "deregister"
               m == [handler[h] EXCEPT !.at = next]
    <3>1. handler' = [handler EXCEPT ![h] = m]
      BY <1>a, <2>2 DEF SetSummary, AfterSync, Goes, Failed
    <3>2. /\ m \in HandlerStates /\ m.at = next /\ m.graph = g /\ m.to = to
          /\ m.cutoff = handler[h].cutoff
      BY <1>0, <1>a, <1>2 DEF HandlerStates, Syncing
    <3> QED
      BY <1>2, <2>2, <3>1, <3>2
  <2> QED
    BY <2>1, <2>2
<1>4. PICK m \in HandlerStates :
          /\ handler' = [handler EXCEPT ![h] = m]
          /\ \/ m = Resting /\ to \in LiveStatuses
             \/ /\ m.graph = g /\ m.to = to /\ m.cutoff = handler[h].cutoff
                /\ \/ m.at = "drop" /\ to = Failed
                   \/ m.at = "scan" /\ to \in Success
                   \/ m.at = "deregister" /\ to \in Ends \ (Success \cup {Failed})
  BY <1>3
<1>5. handler'[h] = m /\ \A k \in Handlers \ {h} : handler'[k] = handler[k]
  BY <1>4 DEF PeersTypeOK
<1>6. \A x : ~Failing(m, x)
  BY <1>4, RestIsKnown DEF Failing
<1>7. HandlerInv(h)'
  <2>1. HandlerInv(h)
    OBVIOUS
  <2>2. CASE m = Resting
    BY <1>5, <2>2, RestHolds
  <2>3. CASE m # Resting
    BY <1>0, <1>a, <1>1, <1>2, <1>4, <1>5, <1>6, <2>1, <2>3, Words DEF HandlerInv, Syncing
  <2> QED
    BY <2>2, <2>3
<1>8. /\ summary'[g] = (IF to \in LiveStatuses \cup {Failed} THEN to ELSE "done")
      /\ failedAt'[g] = (IF to = Failed THEN handler[h].cutoff ELSE failedAt[g])
      /\ \A x \in PeerIds \ {g} : summary'[x] = summary[x] /\ failedAt'[x] = failedAt[x]
  BY <1>1, <1>2 DEF PeersTypeOK
<1>9. ASSUME Upright(g)' PROVE GraphInv(g)'
  <2>1. Upright(g) /\ graphRecord[g] = to /\ graphRecord'[g] = to
    BY <1>1, <1>2, <1>9 DEF Upright
  <2>2. GraphInv(g)
    BY <1>2, <2>1 DEF RegistryInv
  <2>3. to \in Ends => Syncs(g, {"drop", "scan", "deregister"})'
    BY <1>1, <1>4, <1>5, <2>1, RestIsKnown, Words DEF Syncs
  <2>4. Syncs(g, {"drop", "scan", "deregister"})' => Syncs(g, Syncing)'
    BY DEF Syncs, Syncing
  <2>5. to \in Ends \ {Failed} => Syncs(g, {"scan", "clear", "deregister"})'
    BY <1>1, <1>4, <1>5, <2>1, RestIsKnown, Words DEF Syncs
  <2> QED
    BY <1>1, <1>2, <1>8, <2>1, <2>2, <2>3, <2>4, <2>5, Words DEF GraphInv
<1>10. /\ \A x \in PeerIds : summary'[x] \in Summaries /\ failedAt'[x] \in Nat
       /\ footprint' \subseteq PeerIds
  BY <1>1, <1>2, <1>8 DEF PeersTypeOK, Summaries, HandlerStates
<1>11. summary' \in [PeerIds -> Summaries] /\ failedAt' \in [PeerIds -> Nat]
  BY <1>1, <1>10 DEF PeersTypeOK
<1>12. to = Failed => Failing(handler[h], g)
  BY <1>0, <1>a, <1>1 DEF Failing
<1>13. /\ summary'[g] = Failed => Failing(handler[h], g)
       /\ failedAt'[g] = failedAt[g] \/ Failing(handler[h], g)
  BY <1>8, <1>12, Words
<1>14. /\ stale \subseteq stale' /\ handler[h].at \notin {"rest", "register", "peers"}
       /\ UNCHANGED <<graphRecord, changes, revived, succeeded, knownTo>>
       /\ \A x \in PeerIds : x \in footprint' => x \in footprint
  BY <1>1
<1> HIDE DEF PInv
<1> QED
  BY <1>0, <1>14, <1>4, <1>6, <1>7, <1>8, <1>9, <1>10, <1>11, <1>13, OwnCommand

\* A handler that is not syncing goes on without a graph's invariant noticing.
LEMMA SameSyncs ==
    ASSUME NEW h \in Handlers, NEW g \in PeerIds, handler[h].graph = g,
           \A k \in Handlers \ {h} : handler'[k] = handler[k], UNCHANGED graphRecord,
           handler[h].at # "register",
           handler[h].at = "drop" => handler[h].to = Failed
    PROVE  /\ At(g, {"register"}) => At(g, {"register"})'
           /\ handler[h].at \in {"drop", "exists", "add"} =>
                 /\ Syncs(g, {"get", "set"}) => Syncs(g, {"get", "set"})'
                 /\ Syncs(g, {"scan", "clear", "deregister"}) =>
                       Syncs(g, {"scan", "clear", "deregister"})'
                 /\ handler[h].at # "drop" => (Syncs(g, Syncing) => Syncs(g, Syncing)')
  BY DEF At, Syncs, Syncing

LEMMA DropSteps == ASSUME PInv, NEW h \in Handlers, DropFiles(h) PROVE PInv'
<1> USE DEF PInv
<1>0. PICK g : g = handler[h].graph
  OBVIOUS
<1>1. /\ handler[h].at = "drop" /\ handler' = [handler EXCEPT ![h] = Resting]
      /\ footprint' = footprint \ {g}
      /\ UNCHANGED <<graphRecord, changes, revived, summary, failedAt, knownTo, succeeded, stale>>
  BY <1>0 DEF DropFiles, Kept, StandsAt, Finishes
<1>2. g \in PeerIds /\ handler[h].to = Failed /\ (graphRecord[g] = Failed \/ g \in revived)
  BY <1>0, <1>1, Words DEF HandlerInv, Syncing
<1>3. handler'[h] = Resting /\ \A k \in Handlers \ {h} : handler'[k] = handler[k]
  BY <1>1 DEF PeersTypeOK
<1>4. HandlerInv(h)'
  BY <1>3, RestHolds
<1>5. ASSUME Upright(g)' PROVE GraphInv(g)'
  <2>1. GraphInv(g) /\ graphRecord[g] = Failed /\ g \notin footprint'
    BY <1>1, <1>2, <1>5 DEF RegistryInv, Upright
  <2>2. /\ At(g, {"register"}) => At(g, {"register"})'
        /\ Syncs(g, {"get", "set"}) => Syncs(g, {"get", "set"})'
        /\ Syncs(g, {"scan", "clear", "deregister"}) =>
              Syncs(g, {"scan", "clear", "deregister"})'
    BY <1>0, <1>1, <1>2, <1>3, SameSyncs
  <2> QED
    BY <1>1, <2>1, <2>2 DEF GraphInv
<1>6. /\ summary' \in [PeerIds -> Summaries] /\ failedAt' \in [PeerIds -> Nat]
      /\ footprint' \subseteq PeerIds
  BY <1>1 DEF PeersTypeOK
<1> HIDE DEF PInv
<1> QED
  BY <1>0, <1>1, <1>4, <1>5, <1>6, RestIsKnown, OwnCommand

LEMMA ScanSteps == ASSUME PInv, NEW h \in Handlers, ScanFailures(h) PROVE PInv'
<1> USE DEF PInv
<1>0. PICK g : g = handler[h].graph
  OBVIOUS
<1>a. PICK old : old = {p \in PeerIds : summary[p] = Failed /\ failedAt[p] < handler[h].cutoff}
  OBVIOUS
<1> DEFINE m == [handler[h] EXCEPT !.at = "clear", !.old = old]
<1>1. /\ handler[h].at = "scan" /\ handler' = [handler EXCEPT ![h] = m]
      /\ UNCHANGED <<graphRecord, changes, revived, summary, failedAt, footprint, knownTo,
                     succeeded, stale>>
  BY <1>a DEF ScanFailures, Kept, StandsAt, Failed
<1>2. /\ handler[h] \in HandlerStates /\ HandlerInv(h) /\ g \in PeerIds
      /\ old \in SUBSET PeerIds
  BY <1>0, <1>a, <1>1 DEF PeersTypeOK, HandlerInv
<1>3. /\ m \in HandlerStates /\ m.at = "clear" /\ m.graph = g /\ m.to = handler[h].to
      /\ m.cutoff = handler[h].cutoff /\ m.old = old
  BY <1>0, <1>2 DEF HandlerStates, Syncing
<1> HIDE DEF m
<1>4. handler'[h] = m /\ \A k \in Handlers \ {h} : handler'[k] = handler[k]
  BY <1>1 DEF PeersTypeOK
<1>5. \A x : ~Failing(m, x)
  BY <1>3 DEF Failing
<1>6. \A p \in old : /\ graphRecord'[p] = Failed /\ failedAt'[p] < m.cutoff
                     /\ \A k \in Handlers : ~Failing(handler'[k], p)
  <2>1. \A p \in old : graphRecord[p] = Failed /\ summary[p] = Failed
    BY <1>a DEF RegistryInv
  <2>2. \A p \in old : \A k \in Handlers : ~Failing(handler[k], p)
    BY <2>1, FailingHasFailed
  <2> QED
    BY <1>1, <1>3, <1>4, <1>5, <1>a, <2>1, <2>2
<1>7. HandlerInv(h)'
  BY <1>0, <1>1, <1>2, <1>3, <1>4, <1>5, <1>6 DEF HandlerInv, Syncing
<1>8. ASSUME Upright(g)' PROVE GraphInv(g)'
  <2>1. GraphInv(g)
    BY <1>1, <1>2, <1>8 DEF RegistryInv, Upright
  <2>2. /\ At(g, {"register"}) => At(g, {"register"})'
        /\ Syncs(g, {"get", "set"}) => Syncs(g, {"get", "set"})'
        /\ Syncs(g, {"scan", "clear", "deregister"}) => Syncs(g, {"scan", "clear", "deregister"})'
        /\ Syncs(g, Syncing) => Syncs(g, Syncing)'
    BY <1>0, <1>1, <1>3, <1>4 DEF At, Syncs, Syncing
  <2> QED
    BY <1>1, <2>1, <2>2 DEF GraphInv
<1>9. /\ summary' \in [PeerIds -> Summaries] /\ failedAt' \in [PeerIds -> Nat]
      /\ footprint' \subseteq PeerIds
  BY <1>1 DEF PeersTypeOK
<1> HIDE DEF PInv
<1> QED
  BY <1>0, <1>1, <1>3, <1>5, <1>7, <1>8, <1>9, OwnCommand

LEMMA TeardownSteps == ASSUME PInv, NEW h \in Handlers, TeardownGraph(h) PROVE PInv'
<1> USE DEF PInv
<1>0. PICK g : g = handler[h].graph
  OBVIOUS
<1>1. /\ handler[h].at = "deregister" /\ handler' = [handler EXCEPT ![h] = Resting]
      /\ footprint' = footprint \ {g} /\ summary' = [summary EXCEPT ![g] = "none"]
      /\ UNCHANGED <<graphRecord, changes, revived, failedAt, knownTo, succeeded, stale>>
  BY <1>0 DEF TeardownGraph, Kept, StandsAt, Finishes, Deregister
<1>2. g \in PeerIds /\ (graphRecord[g] \in Ends \ {Failed} \/ g \in revived)
  BY <1>0, <1>1, Words DEF HandlerInv, Syncing
<1>3. handler'[h] = Resting
  BY <1>1 DEF PeersTypeOK
<1>4. HandlerInv(h)'
  BY <1>3, RestHolds
<1>5. /\ summary' \in [PeerIds -> Summaries] /\ summary'[g] = "none"
      /\ \A x \in PeerIds \ {g} : summary'[x] = summary[x]
  BY <1>1, <1>2 DEF PeersTypeOK, Summaries
<1>6. Upright(g)' => GraphInv(g)'
  BY <1>1, <1>2, <1>5, Words DEF Upright, GraphInv
<1>7. failedAt' \in [PeerIds -> Nat] /\ footprint' \subseteq PeerIds
  BY <1>1 DEF PeersTypeOK
<1> HIDE DEF PInv
<1> QED
  BY <1>0, <1>1, <1>4, <1>5, <1>6, <1>7, RestIsKnown, Words, OwnCommand

LEMMA ClearSteps == ASSUME PInv, NEW h \in Handlers, ClearFailure(h) PROVE PInv'
<1> USE DEF PInv
<1>0. PICK g : g = handler[h].graph
  OBVIOUS
<1>1. /\ handler[h].at = "clear"
      /\ UNCHANGED <<graphRecord, changes, revived, failedAt, knownTo, succeeded, stale>>
  BY DEF ClearFailure, Kept, StandsAt
<1>2. /\ handler[h] \in HandlerStates /\ HandlerInv(h) /\ g \in PeerIds
      /\ handler[h].to \in Success /\ graphRecord[g] # "none"
  BY <1>0, <1>1 DEF PeersTypeOK, HandlerInv
<1>3. CASE handler[h].old = {} /\ Goes(h, "deregister") /\ UNCHANGED <<summary, footprint>>
  <2> DEFINE m == [handler[h] EXCEPT !.at = "deregister"]
  <2>1. handler' = [handler EXCEPT ![h] = m]
    BY <1>3 DEF Goes
  <2>2. /\ m \in HandlerStates /\ m.at = "deregister" /\ m.graph = g /\ m.to = handler[h].to
        /\ m.cutoff = handler[h].cutoff
    BY <1>0, <1>2 DEF HandlerStates, Syncing
  <2> HIDE DEF m
  <2>3. handler'[h] = m /\ \A k \in Handlers \ {h} : handler'[k] = handler[k]
    BY <2>1 DEF PeersTypeOK
  <2>4. \A x : ~Failing(m, x)
    BY <2>2 DEF Failing
  <2>5. HandlerInv(h)'
    BY <1>0, <1>1, <1>2, <2>2, <2>3, <2>4, Words DEF HandlerInv, Syncing
  <2>6. ASSUME Upright(g)' PROVE GraphInv(g)'
    <3>1. GraphInv(g)
      BY <1>1, <1>2, <2>6 DEF RegistryInv, Upright
    <3>2. /\ At(g, {"register"}) => At(g, {"register"})'
          /\ Syncs(g, {"get", "set"}) => Syncs(g, {"get", "set"})'
          /\ Syncs(g, {"scan", "clear", "deregister"}) =>
                Syncs(g, {"scan", "clear", "deregister"})'
          /\ Syncs(g, Syncing) => Syncs(g, Syncing)'
      BY <1>0, <1>1, <2>2, <2>3 DEF At, Syncs, Syncing
    <3> QED
      BY <1>1, <1>3, <3>1, <3>2 DEF GraphInv
  <2>7. /\ summary' \in [PeerIds -> Summaries] /\ failedAt' \in [PeerIds -> Nat]
        /\ footprint' \subseteq PeerIds
    BY <1>1, <1>3 DEF PeersTypeOK
  <2> HIDE DEF PInv
  <2> QED
    BY <1>0, <1>1, <1>3, <2>1, <2>2, <2>4, <2>5, <2>6, <2>7, OwnCommand
<1>4. CASE \E p \in handler[h].old :
              Deregister(p) /\ handler' = [handler EXCEPT ![h].old = @ \ {p}]
  <2>1. PICK p \in handler[h].old :
                Deregister(p) /\ handler' = [handler EXCEPT ![h].old = @ \ {p}]
    BY <1>4
  <2> DEFINE m == [handler[h] EXCEPT !.old = handler[h].old \ {p}]
  <2>2. handler' = [handler EXCEPT ![h] = m]
    BY <2>1
  <2>3. /\ m \in HandlerStates /\ m.at = "clear" /\ m.graph = g /\ m.to = handler[h].to
        /\ m.cutoff = handler[h].cutoff /\ m.old \subseteq handler[h].old
    BY <1>0, <1>1, <1>2 DEF HandlerStates, Syncing
  <2> HIDE DEF m
  <2>4. handler'[h] = m /\ \A k \in Handlers \ {h} : handler'[k] = handler[k]
    BY <2>2 DEF PeersTypeOK
  <2>5. \A x : ~Failing(m, x)
    BY <2>3 DEF Failing
  <2>6. /\ p \in PeerIds /\ graphRecord[p] = Failed /\ failedAt[p] < handler[h].cutoff
        /\ handler[h].cutoff <= succeeded
    BY <1>1, <1>2, <2>1 DEF HandlerInv, HandlerStates, Syncing
  <2>7. /\ summary' \in [PeerIds -> Summaries] /\ summary'[p] = "none"
        /\ \A x \in PeerIds \ {p} : summary'[x] = summary[x]
        /\ footprint' = footprint \ {p}
    BY <2>1, <2>6 DEF PeersTypeOK, Summaries, Deregister
  <2>8. HandlerInv(h)'
    <3>1. \A q \in m.old : /\ graphRecord'[q] = Failed /\ failedAt'[q] < m.cutoff
                           /\ \A k \in Handlers : ~Failing(handler'[k], q)
      BY <1>1, <1>2, <2>3, <2>4, <2>5 DEF HandlerInv
    <3> QED
      BY <1>0, <1>1, <1>2, <2>3, <2>4, <2>5, <3>1 DEF HandlerInv, Syncing
  <2>9. succeeded > failedAt[p]
    BY <1>2, <2>6 DEF PeersTypeOK, HandlerStates
  <2>10. GraphInv(p)'
    BY <1>1, <2>6, <2>7, <2>9, Words DEF GraphInv
  <2>11. \A x, y \in PeerIds : Upright(x)' /\ Upright(y)' => PairInv(x, y)'
    <3>1. \A k \in Handlers : handler[k].at \in {"register", "peers"} =>
              handler'[k].graph = handler[k].graph /\ handler'[k].at \in {"register", "peers"}
      BY <1>1, <2>4
    <3> QED
      BY <1>1, <3>1, PairsAlone DEF Upright
  <2>12. /\ failedAt' \in [PeerIds -> Nat] /\ footprint' \subseteq PeerIds
         /\ knownTo' \subseteq PeerIds \X PeerIds /\ stale \subseteq stale'
         /\ \A x \in PeerIds : failedAt'[x] = failedAt[x]
         /\ graphRecord[p] # "none" /\ summary'[p] # Failed
    BY <1>1, <2>6, <2>7, Words DEF PeersTypeOK
  <2> HIDE DEF PInv
  <2> QED
    BY <1>0, <1>1, <2>2, <2>3, <2>5, <2>6, <2>7, <2>8, <2>10, <2>11, <2>12, Commands
<1> QED
  BY <1>3, <1>4 DEF ClearFailure

LEMMA ReportSteps ==
    ASSUME PInv, NEW h \in Handlers, CheckSummary(h) \/ AddActualFiles(h) PROVE PInv'
<1> USE DEF PInv
<1>0. PICK g : g = handler[h].graph
  OBVIOUS
<1>1. /\ handler[h].at \in {"exists", "add"}
      /\ UNCHANGED <<graphRecord, changes, revived, summary, failedAt, knownTo, succeeded>>
  BY DEF CheckSummary, AddActualFiles, Kept, StandsAt
<1>2. handler[h] \in HandlerStates /\ g \in PeerIds /\ graphRecord[g] # "none"
  BY <1>0, <1>1 DEF PeersTypeOK, HandlerInv
<1>3. \E m \in HandlerStates :
          /\ handler' = [handler EXCEPT ![h] = m]
          /\ m = Resting \/ (m.at = "add" /\ m.graph = g)
  <2>1. CASE handler' = [handler EXCEPT ![h] = Resting]
    <3> Resting \in HandlerStates
      BY RestIsKnown
    <3> WITNESS Resting \in HandlerStates
    <3> QED
      BY <2>1
  <2>2. CASE handler' = [handler EXCEPT ![h].at = "add"]
    <3> DEFINE m == [handler[h] EXCEPT !.at = "add"]
    <3>1. handler' = [handler EXCEPT ![h] = m]
      BY <2>2
    <3>2. m \in HandlerStates /\ m.at = "add" /\ m.graph = g
      BY <1>0, <1>2 DEF HandlerStates
    <3> QED
      BY <3>1, <3>2
  <2> QED
    BY <2>1, <2>2 DEF CheckSummary, AddActualFiles, Finishes, Goes
<1>4. PICK m \in HandlerStates :
          /\ handler' = [handler EXCEPT ![h] = m]
          /\ m = Resting \/ (m.at = "add" /\ m.graph = g)
  BY <1>3
<1>5. handler'[h] = m /\ \A k \in Handlers \ {h} : handler'[k] = handler[k]
  BY <1>4 DEF PeersTypeOK
<1>6. \A x : ~Failing(m, x)
  BY <1>4, RestIsKnown DEF Failing
<1>7. HandlerInv(h)'
  <2>1. CASE m = Resting
    BY <1>5, <2>1, RestHolds
  <2>2. CASE m.at = "add" /\ m.graph = g
    BY <1>1, <1>2, <1>5, <1>6, <2>2 DEF HandlerInv, Syncing
  <2> QED
    BY <1>4, <2>1, <2>2
<1>8. /\ footprint' \subseteq footprint \cup {g} /\ stale \subseteq stale'
      /\ Upright(g)' /\ g \in footprint' => g \in footprint \/ summary[g] \notin {"none", Failed}
  BY <1>0, <1>1 DEF CheckSummary, AddActualFiles, Upright, Failed
<1>9. ASSUME Upright(g)' PROVE GraphInv(g)'
  <2>1. GraphInv(g) /\ summary[g] \in Summaries
    BY <1>1, <1>2, <1>8, <1>9 DEF RegistryInv, Upright, PeersTypeOK
  <2>2. /\ At(g, {"register"}) => At(g, {"register"})'
        /\ Syncs(g, {"get", "set"}) => Syncs(g, {"get", "set"})'
        /\ Syncs(g, {"scan", "clear", "deregister"}) => Syncs(g, {"scan", "clear", "deregister"})'
        /\ Syncs(g, Syncing) => Syncs(g, Syncing)'
    BY <1>0, <1>1, <1>2, <1>5, SameSyncs
  <2>3. /\ Syncs(g, {"get", "set"}) => Syncs(g, Syncing)
        /\ Syncs(g, {"scan", "clear", "deregister"}) => Syncs(g, Syncing)
    BY DEF Syncs, Syncing
  <2>4. g \in footprint' => graphRecord[g] \in LiveStatuses \/ Syncs(g, Syncing)
    BY <1>8, <1>9, <2>1, <2>3 DEF GraphInv, Summaries
  <2>5. g \in footprint' => summary[g] # "none"
    BY <1>8, <1>9, <2>1 DEF GraphInv
  <2> QED
    BY <1>1, <2>1, <2>2, <2>4, <2>5 DEF GraphInv
<1>10. /\ summary' \in [PeerIds -> Summaries] /\ failedAt' \in [PeerIds -> Nat]
       /\ footprint' \subseteq PeerIds
       /\ \A x \in PeerIds \ {g} : x \in footprint' => x \in footprint
  BY <1>1, <1>2, <1>8 DEF PeersTypeOK
<1> HIDE DEF PInv
<1> QED
  BY <1>0, <1>1, <1>4, <1>6, <1>7, <1>8, <1>9, <1>10, OwnCommand

\* A handler begins about the graph g, whose status it may have changed.
LEMMA Beginnings ==
    ASSUME PInv, NEW h \in Handlers, NEW m \in HandlerStates, NEW g \in PeerIds,
           NEW r \in LiveStatuses \cup Ends, handler[h].at = "rest",
           handler' = [handler EXCEPT ![h] = m], changes' = changes + 1,
           UNCHANGED <<summary, failedAt, footprint, knownTo, stale, revived>>,
           graphRecord' = [graphRecord EXCEPT ![g] = r],
           graphRecord[g] = r \/ graphRecord[g] \in LiveStatuses \cup {"none"},
           succeeded' \in {succeeded, changes + 1}, HandlerInv(h)',
           \A x \in PeerIds : Failing(m, x) => graphRecord[x] # Failed,
           Upright(g) => GraphInv(g)',
           \A x, y \in PeerIds : Upright(x)' /\ Upright(y)' => PairInv(x, y)'
    PROVE  PInv'
<1> USE DEF PInv
<1>1. handler'[h] = m /\ \A k \in Handlers \ {h} : handler'[k] = handler[k]
  BY DEF PeersTypeOK
<1>2. graphRecord'[g] = r /\ \A x \in PeerIds \ {g} : graphRecord'[x] = graphRecord[x]
  BY DEF PeersTypeOK
<1>3. succeeded' \in Nat /\ succeeded <= succeeded' /\ succeeded' <= changes' /\ changes' \in Nat
  BY DEF PeersTypeOK
<1>4. PeersTypeOK'
  BY <1>3 DEF PeersTypeOK
<1>5. ASSUME NEW k \in Handlers \ {h} PROVE HandlerInv(k)'
  <2>1. \A x \in PeerIds :
            \/ graphRecord'[x] = graphRecord[x]
            \/ /\ graphRecord[x] \notin Success \cup {Failed} /\ graphRecord'[x] # "none"
               /\ graphRecord[x] \in {"failed", "canceled"} => x \in revived'
    BY <1>2, Words DEF LiveStatuses
  <2>2. \A j \in Handlers : \A x \in PeerIds :
            Failing(handler'[j], x) => Failing(handler[j], x) \/ graphRecord[x] # Failed
    BY <1>1
  <2>3. handler'[k] = handler[k] /\ revived \subseteq revived'
        /\ \A x \in PeerIds : summary'[x] = summary[x] /\ failedAt'[x] = failedAt[x]
    BY <1>1
  <2> HIDE DEF PInv
  <2> QED
    BY <1>3, <2>1, <2>2, <2>3, Unmoved
<1>6. ASSUME NEW x \in PeerIds \ {g}, Upright(x)' PROVE GraphInv(x)'
  <2>1. GraphInv(x) /\ failedAt[x] \in Nat /\ succeeded \in Nat
    BY <1>6 DEF Upright, RegistryInv, PeersTypeOK
  <2>2. \A k \in Handlers :
            handler[k].graph = x /\ handler[k].at \in Syncing \cup {"register"} =>
                /\ handler'[k].graph = x /\ handler'[k].at = handler[k].at
                /\ handler'[k].to = handler[k].to
    BY <1>1 DEF Syncing
  <2> QED
    BY <1>2, <1>3, <2>1, <2>2, Elsewhere
<1>7. Upright(g)' => GraphInv(g)'
  BY DEF Upright
<1>8. \A x \in PeerIds :
          /\ summary'[x] = Failed => graphRecord'[x] = Failed
          /\ graphRecord'[x] = "none" => summary'[x] = "none" /\ x \notin footprint'
  BY <1>2, Words DEF RegistryInv
<1> QED
  BY <1>1, <1>4, <1>5, <1>6, <1>7, <1>8 DEF RegistryInv

\* Where a handler that has begun starts from.
LEMMA Begun ==
    ASSUME PeersTypeOK, NEW h \in Handlers, NEW g \in PeerIds, NEW at, NEW to,
           at \in {"register", "get", "exists"}, to \in LiveStatuses \cup Ends \cup {"none"},
           Begins(h, g, at, to)
    PROVE  /\ handler[h].at = "rest" /\ changes' = changes + 1
           /\ UNCHANGED <<summary, failedAt, footprint, knownTo, stale>>
           /\ \A k \in Handlers \ {h} : handler'[k] = handler[k]
           /\ \E m \in HandlerStates :
                 /\ handler' = [handler EXCEPT ![h] = m] /\ handler'[h] = m
                 /\ m.at = at /\ m.graph = g /\ m.to = to /\ m.cutoff = changes + 1
<1> DEFINE m == [Resting EXCEPT !.at = at, !.graph = g, !.to = to, !.cutoff = changes + 1]
<1>1. handler' = [handler EXCEPT ![h] = m]
  BY DEF Begins
<1>2. /\ m \in HandlerStates /\ m.at = at /\ m.graph = g /\ m.to = to /\ m.cutoff = changes + 1
  <2>1. Resting \in HandlerStates /\ changes + 1 \in Nat
    BY RestIsKnown DEF PeersTypeOK
  <2> QED
    BY <2>1 DEF HandlerStates, Syncing
<1>3. handler'[h] = m /\ \A k \in Handlers \ {h} : handler'[k] = handler[k]
  BY <1>1 DEF PeersTypeOK
<1> QED
  BY <1>1, <1>2, <1>3 DEF Begins, StandsAt

LEMMA DeclarePeerSteps ==
    ASSUME PInv, NEW h \in Handlers, NEW g \in PeerIds, DeclarePeer(h, g) PROVE PInv'
<1> USE DEF PInv
<1>1. /\ graphRecord[g] = "none" /\ graphRecord' = [graphRecord EXCEPT ![g] = "active"]
      /\ Begins(h, g, "register", "active") /\ UNCHANGED <<succeeded, revived>>
  BY DEF DeclarePeer
<1>2. /\ handler[h].at = "rest" /\ changes' = changes + 1
      /\ UNCHANGED <<summary, failedAt, footprint, knownTo, stale>>
      /\ \A k \in Handlers \ {h} : handler'[k] = handler[k]
  BY <1>1, Begun, Words
<1>3. PICK m \in HandlerStates :
          /\ handler' = [handler EXCEPT ![h] = m] /\ handler'[h] = m
          /\ m.at = "register" /\ m.graph = g
  BY <1>1, Begun, Words
<1>4. graphRecord'[g] = "active" /\ \A x \in PeerIds \ {g} : graphRecord'[x] = graphRecord[x]
  BY <1>1 DEF PeersTypeOK
<1>5. \A x : ~Failing(m, x)
  BY <1>3 DEF Failing
<1>6. HandlerInv(h)'
  BY <1>3, <1>4, <1>5, Words DEF HandlerInv, Syncing
<1>7. At(g, {"register"})' /\ At(g, {"register", "peers"})'
  BY <1>3 DEF At
<1>8. GraphInv(g)'
  BY <1>1, <1>2, <1>4, <1>7, Words DEF GraphInv, RegistryInv
<1>9. ASSUME NEW x \in PeerIds, NEW y \in PeerIds, Upright(x)', Upright(y)' PROVE PairInv(x, y)'
  <2>1. CASE g \in {x, y}
    BY <1>7, <2>1 DEF PairInv
  <2>2. CASE g \notin {x, y}
    <3>1. \A z : At(z, {"register", "peers"}) => At(z, {"register", "peers"})'
      BY <1>2, <1>3 DEF At
    <3>2. PairInv(x, y)
      BY <1>1, <1>2, <1>9 DEF RegistryInv, Upright
    <3> QED
      BY <1>2, <1>4, <2>2, <3>1, <3>2 DEF PairInv
  <2> QED
    BY <2>1, <2>2
<1> HIDE DEF PInv
<1> QED
  BY <1>1, <1>2, <1>3, <1>5, <1>6, <1>8, <1>9, Words, Beginnings

LEMMA UpdateSteps ==
    ASSUME PInv, NEW h \in Handlers, NEW g \in PeerIds, NEW s, UpdateGraphStatus(h, g, s)
    PROVE  PInv'
<1> USE DEF PInv
<1>1. /\ graphRecord[g] \in LiveStatuses /\ s \in LiveStatuses \cup Ends
      /\ graphRecord' = [graphRecord EXCEPT ![g] = s]
      /\ succeeded' = (IF s \in Success THEN changes + 1 ELSE succeeded)
      /\ Begins(h, g, "get", s) /\ UNCHANGED revived
  BY StatusesMove DEF UpdateGraphStatus
<1>2. /\ handler[h].at = "rest" /\ changes' = changes + 1
      /\ UNCHANGED <<summary, failedAt, footprint, knownTo, stale>>
      /\ \A k \in Handlers \ {h} : handler'[k] = handler[k]
  BY <1>1, Begun
<1>3. PICK m \in HandlerStates :
          /\ handler' = [handler EXCEPT ![h] = m] /\ handler'[h] = m
          /\ m.at = "get" /\ m.graph = g /\ m.to = s /\ m.cutoff = changes + 1
  BY <1>1, Begun
<1>4. graphRecord'[g] = s /\ \A x \in PeerIds \ {g} : graphRecord'[x] = graphRecord[x]
  BY <1>1 DEF PeersTypeOK
<1>5. graphRecord[g] # Failed /\ summary[g] # Failed
  BY <1>1, Words DEF RegistryInv
<1>6. \A x : Failing(m, x) => graphRecord[x] # Failed
  BY <1>3, <1>5 DEF Failing
<1>7. \A k \in Handlers \ {h} : ~Failing(handler'[k], g)
  BY <1>2, <1>5, FailingHasFailed
<1>8. HandlerInv(h)'
  <2>1. m.to \in Success => m.cutoff <= succeeded'
    BY <1>1, <1>3 DEF PeersTypeOK
  <2> QED
    BY <1>1, <1>2, <1>3, <1>4, <1>5, <1>7, <2>1, Words DEF HandlerInv, Syncing
<1>9. ASSUME Upright(g) PROVE GraphInv(g)'
  <2>1. GraphInv(g)
    BY <1>9 DEF RegistryInv
  <2>2. Syncs(g, {"get", "set"})' /\ Syncs(g, Syncing)'
    BY <1>3, <1>4 DEF Syncs, Syncing
  <2>3. At(g, {"register"}) => At(g, {"register"})'
    BY <1>2 DEF At
  <2>4. summary[g] \in LiveStatuses \/ At(g, {"register"})
    BY <1>1, <2>1 DEF GraphInv
  <2>5. summary[g] # "done"
    BY <1>1, <2>1 DEF GraphInv
  <2> QED
    BY <1>1, <1>2, <1>4, <2>1, <2>2, <2>3, <2>4, <2>5, Words DEF GraphInv
<1>10. \A x, y \in PeerIds : Upright(x)' /\ Upright(y)' => PairInv(x, y)'
  <2>1. \A k \in Handlers : handler[k].at \in {"register", "peers"} =>
            handler'[k].graph = handler[k].graph /\ handler'[k].at \in {"register", "peers"}
    BY <1>2
  <2>2. \A x \in PeerIds : graphRecord'[x] \in LiveStatuses => graphRecord[x] \in LiveStatuses
    BY <1>1, <1>4
  <2> QED
    BY <1>1, <1>2, <2>1, <2>2, PairsAlone DEF Upright
<1>11. succeeded' \in {succeeded, changes + 1}
  BY <1>1
<1> HIDE DEF PInv
<1> QED
  BY <1>1, <1>2, <1>3, <1>6, <1>8, <1>9, <1>10, <1>11, Beginnings

LEMMA TaskReportSteps ==
    ASSUME PInv, NEW h \in Handlers, NEW g \in PeerIds, TaskReports(h, g) PROVE PInv'
<1> USE DEF PInv
<1>1. /\ graphRecord[g] # "none" /\ UNCHANGED <<graphRecord, succeeded, revived>>
      /\ Begins(h, g, "exists", "none")
  BY DEF TaskReports
<1>2. /\ handler[h].at = "rest" /\ changes' = changes + 1
      /\ UNCHANGED <<summary, failedAt, footprint, knownTo, stale>>
      /\ \A k \in Handlers \ {h} : handler'[k] = handler[k]
  BY <1>1, Begun
<1>3. PICK m \in HandlerStates :
          /\ handler' = [handler EXCEPT ![h] = m] /\ handler'[h] = m
          /\ m.at = "exists" /\ m.graph = g
  BY <1>1, Begun
<1>4. \A x : ~Failing(m, x)
  BY <1>3 DEF Failing
<1>5. HandlerInv(h)'
  BY <1>1, <1>3, <1>4 DEF HandlerInv, Syncing
<1>6. \A k \in Handlers :
          handler[k].at \in Syncing \cup {"register", "peers"} => handler'[k] = handler[k]
  BY <1>2 DEF Syncing
<1>7. ASSUME Upright(g) PROVE GraphInv(g)'
  <2>1. GraphInv(g) /\ failedAt[g] \in Nat /\ succeeded \in Nat
    BY <1>7 DEF RegistryInv, PeersTypeOK
  <2> QED
    BY <1>1, <1>2, <1>6, <2>1, Elsewhere
<1>8. \A x, y \in PeerIds : Upright(x)' /\ Upright(y)' => PairInv(x, y)'
  BY <1>1, <1>2, <1>6, PairsAlone DEF Upright
<1>9. PICK r \in LiveStatuses \cup Ends : r = graphRecord[g]
  BY <1>1 DEF PeersTypeOK
<1>10. graphRecord' = [graphRecord EXCEPT ![g] = r]
  BY <1>1, <1>9 DEF PeersTypeOK
<1> HIDE DEF PInv
<1> QED
  BY <1>1, <1>2, <1>3, <1>4, <1>5, <1>7, <1>8, <1>9, <1>10, Beginnings

LEMMA ReviveSteps == ASSUME PInv, NEW g \in PeerIds, ReviveGraph(g) PROVE PInv'
<1> USE DEF PInv
<1>1. /\ graphRecord[g] \in {"failed", "canceled"} /\ changes' = changes + 1
      /\ graphRecord' = [graphRecord EXCEPT ![g] = "active"] /\ revived' = revived \cup {g}
      /\ UNCHANGED <<summary, failedAt, footprint, handler, knownTo, succeeded, stale>>
  BY DEF ReviveGraph
<1>2. graphRecord'[g] = "active" /\ \A x \in PeerIds \ {g} : graphRecord'[x] = graphRecord[x]
  BY <1>1 DEF PeersTypeOK
<1>3. PeersTypeOK'
  BY <1>1, Words DEF PeersTypeOK
<1>4. ASSUME NEW k \in Handlers PROVE HandlerInv(k)'
  <2>1. \A x \in PeerIds :
            \/ graphRecord'[x] = graphRecord[x]
            \/ /\ graphRecord[x] \notin Success \cup {Failed} /\ graphRecord'[x] # "none"
               /\ graphRecord[x] \in {"failed", "canceled"} => x \in revived'
    BY <1>1, <1>2, Words
  <2>2. succeeded' \in Nat /\ succeeded <= succeeded'
    BY <1>1 DEF PeersTypeOK
  <2> HIDE DEF PInv
  <2> QED
    BY <1>1, <2>1, <2>2, Unmoved
<1>5. ASSUME NEW x \in PeerIds, Upright(x)' PROVE GraphInv(x)'
  <2>1. x # g /\ GraphInv(x) /\ failedAt[x] \in Nat /\ succeeded \in Nat
    BY <1>1, <1>5 DEF Upright, RegistryInv, PeersTypeOK
  <2> QED
    BY <1>1, <1>2, <2>1, Elsewhere
<1>6. \A x, y \in PeerIds : Upright(x)' /\ Upright(y)' => PairInv(x, y)'
  BY <1>1, <1>2, PairsAlone DEF Upright
<1>7. \A x \in PeerIds :
          /\ summary'[x] = Failed => graphRecord'[x] = Failed
          /\ graphRecord'[x] = "none" => summary'[x] = "none" /\ x \notin footprint'
  BY <1>1, <1>2, Words DEF RegistryInv
<1> QED
  BY <1>3, <1>4, <1>5, <1>6, <1>7 DEF RegistryInv

LEMMA PeersSteps == PInv /\ [PeersNext]_peerVars => PInv'
<1> SUFFICES ASSUME PInv, [PeersNext]_peerVars PROVE PInv'
  OBVIOUS
<1>1. CASE UNCHANGED peerVars
  BY <1>1 DEF peerVars, PInv, PeersTypeOK, HandlerInv, RegistryInv, GraphInv, PairInv, Upright,
              At, Syncs, Failing
<1>2. CASE PeersNext
  BY <1>2, DeclarePeerSteps, TaskReportSteps, UpdateSteps, ReviveSteps, RegisterSteps, LookSteps,
     GetSteps, SetSteps, DropSteps, ScanSteps, ClearSteps, TeardownSteps, ReportSteps DEF PeersNext
<1> QED
  BY <1>1, <1>2

\* The registry is true of every graph no handler is about, but of those outdated handlers wrote
\* to and those taken back by retry_task: what a summary lags behind is on some handler's way.
THEOREM PeersAreAlwaysKnown == PeersSpec => []PeersAreKnown
<1>1. PInv => PeersAreKnown
  <2> SUFFICES ASSUME PInv PROVE PeersAreKnown
    OBVIOUS
  <2>1. \A g \in PeerIds : InOrder(g) => /\ Upright(g) /\ \A steps : ~At(g, steps)
                                         /\ \A steps : ~Syncs(g, steps)
    BY DEF InOrder, Upright, At, Syncs
  <2>2. PeersAreTold
    BY <2>1 DEF PeersAreTold, PInv, RegistryInv, PairInv
  <2>3. RegistryIsTrue
    BY <2>1 DEF RegistryIsTrue, PInv, RegistryInv, GraphInv, isActivePeer, Failed
  <2> QED
    BY <2>2, <2>3 DEF PeersAreKnown
<1> QED
  BY <1>1, PeersInitially, PeersSteps, PTL DEF PeersSpec

=============================================================================
