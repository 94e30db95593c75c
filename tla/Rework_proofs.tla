----------------------------- MODULE Rework_proofs -----------------------------
(***************************************************************************)
(* Proofs about Rework for any number of drives, any settings and any      *)
(* disturbances: a graph's rework rounds are paid for from its budget and  *)
(* a round has one fix child; a refusal is final; and what is promoted is  *)
(* what was judged, all of it, and once.                                   *)
(*                                                                         *)
(* The first two rest on the SET-NX keys, which nobody gives back and      *)
(* which expire only while no drive is under way.  A drive on its way from *)
(* a failed verdict to the next round holds the completion key of the      *)
(* current round, so there is one such drive, and nobody else touches the  *)
(* round or the budget meanwhile; a drive that declares a round's fix      *)
(* holds that round's fix key, and it has found no fix.  Whoever decides   *)
(* on a graph holds that completion key as well, and leaves it behind for  *)
(* the drives that are still under way.  The last rests on the order of    *)
(* three things: the pin is read, a child clones, the head moves on.       *)
(***************************************************************************)
EXTENDS Rework, TLAPS

Judging == {"fail", "enter", "spend", "write"}

KeyType == {"completionlock", "reworkclaim", "reworkfix", "reworkreval"} \X Nat
KidType ==
    [kind : {"none", "gate", "fix", "reval"}, attempt : Nat, criterion : Int,
     st : {"empty", "live", "cloned", "passed", "fixable", "failed", "canceled"}, head : Nat]
MemoryFields == {"kind", "attempt", "todo", "ids", "pin", "head", "reason"}
RoundFields == {"attempt", "start", "ids", "pin"}
IsMemory(m) ==
    /\ DOMAIN m = MemoryFields
    /\ m.kind \in {"none", "gate", "fix", "reval"} /\ m.attempt \in Nat /\ m.todo \in Int

ReworkTypeOK ==
    /\ setting \in Settings /\ budget \in Nat /\ head \in Nat
    /\ DOMAIN round = RoundFields /\ round.attempt \in Nat
    /\ locks \in Seq(KeyType) /\ children \in Seq(KidType)
    /\ at \in [Drives -> Places]
    /\ my = [d \in Drives |-> my[d]] /\ \A d \in Drives : IsMemory(my[d])

JudgingInv ==
    /\ \A d \in Drives : at[d] \in Judging =>
           my[d].attempt = round.attempt /\ Taken(Completion(round.attempt))
    /\ \A d, e \in Drives : at[d] \in Judging /\ at[e] \in Judging => d = e
    /\ \A d \in Drives : at[d] = "spend" => budget < setting.maxAttempts
    /\ \A d \in Drives : at[d] = "write" => round.attempt < budget

FixesOf(n) == {i \in Kids : children[i].kind = "fix" /\ children[i].attempt = n}
Fixing(d) == at[d] = "declare" /\ my[d].kind = "fix"

FixingInv ==
    /\ \A d \in Drives : Fixing(d) =>
           /\ my[d].todo = 1 /\ Taken(FixClaim(my[d].attempt)) /\ FixesOf(my[d].attempt) = {}
    /\ \A d, e \in Drives : Fixing(d) /\ Fixing(e) /\ my[d].attempt = my[e].attempt => d = e
    /\ \A d \in Drives : at[d] = "launch" /\ my[d].kind = "fix" => my[d].todo = 0

RInv == ReworkTypeOK /\ JudgingInv /\ FixingInv /\ RoundsArePaidAndHadOnce

-----------------------------------------------------------------------------
LEMMA ReworkInitially == Init => RInv
<1> SUFFICES ASSUME Init PROVE RInv
  OBVIOUS
<1> USE ReworkAssumption DEF Init
<1>1. setting.maxAttempts \in Nat
  BY DEF SettingType
<1>2. \A d \in Drives : at[d] \in {"check", "idle"} /\ my[d] = Blank
  OBVIOUS
<1>3. ReworkTypeOK
  <2>1. IsMemory(Blank)
    BY DEF IsMemory, MemoryFields, Blank
  <2>2. DOMAIN round = RoundFields /\ round.attempt \in Nat
    BY DEF NoRound, RoundFields
  <2>3. /\ at \in [Drives -> Places] /\ my = [d \in Drives |-> my[d]]
        /\ \A d \in Drives : IsMemory(my[d])
    BY <1>2, <2>1 DEF Places
  <2>4. locks \in Seq(KeyType) /\ children \in Seq(KidType)
    OBVIOUS
  <2> QED
    BY <2>2, <2>3, <2>4 DEF ReworkTypeOK
<1>4. JudgingInv /\ FixingInv
  BY <1>2 DEF JudgingInv, FixingInv, Judging, Fixing
<1>5. RoundsArePaidAndHadOnce
  BY <1>1 DEF RoundsArePaidAndHadOnce, RoundsArePaid, OneFixPerRound, NoRound, Kids
<1> QED
  BY <1>3, <1>4, <1>5 DEF RInv

\* Nothing is spent, and nothing is declared.
Frame ==
    /\ UNCHANGED <<setting, budget>>
    /\ round'.attempt = round.attempt /\ DOMAIN round' = RoundFields
    /\ head' \in Nat /\ children' \in Seq(KidType) /\ DOMAIN children' = DOMAIN children
    /\ \A i \in Kids : children'[i].kind = children[i].kind
                        /\ children'[i].attempt = children[i].attempt

LEMMA SameFrame == RInv /\ UNCHANGED <<setting, round, children, budget, head>> => Frame
  BY DEF RInv, ReworkTypeOK, Frame

\* A drive d goes on to next with memory m, and keys are at most added: what it needs there.
LEMMA DriveMoves ==
    ASSUME RInv, NEW d \in Drives, NEW next \in Places, NEW m, IsMemory(m),
           at' = [at EXCEPT ![d] = next], my' = [my EXCEPT ![d] = m],
           locks' \in Seq(KeyType), \A key : Taken(key) => Taken(key)',
           Frame,
           next \in Judging => /\ at[d] \in Judging \/ ~Taken(Completion(round.attempt))
                               /\ m.attempt = round.attempt
                               /\ Taken(Completion(round.attempt))',
           next = "spend" => budget < setting.maxAttempts,
           next = "write" => round.attempt < budget,
           next = "declare" /\ m.kind = "fix" =>
               /\ m.todo = 1 /\ FixesOf(m.attempt) = {}
               /\ ~Taken(FixClaim(m.attempt)) /\ Taken(FixClaim(m.attempt))',
           next = "launch" /\ m.kind = "fix" => m.todo = 0
    PROVE  RInv'
<1> USE DEF RInv, Frame
<1>1. /\ at'[d] = next /\ my'[d] = m
      /\ \A e \in Drives \ {d} : at'[e] = at[e] /\ my'[e] = my[e]
  BY DEF ReworkTypeOK
<1>2. ReworkTypeOK'
  BY <1>1 DEF ReworkTypeOK, IsMemory
<1>3. \A n : Taken(Completion(n)) => Taken(Completion(n))'
  BY DEF Completion
<1>4. JudgingInv'
  <2>1. ASSUME NEW e \in Drives, at'[e] \in Judging
        PROVE  my'[e].attempt = round'.attempt /\ Taken(Completion(round.attempt))'
    BY <1>1, <1>3, <2>1 DEF JudgingInv, Completion
  <2>2. ASSUME NEW e \in Drives, NEW f \in Drives, at'[e] \in Judging, at'[f] \in Judging
        PROVE  e = f
    BY <1>1, <2>2 DEF JudgingInv
  <2>3. ASSUME NEW e \in Drives
        PROVE  /\ at'[e] = "spend" => budget' < setting'.maxAttempts
               /\ at'[e] = "write" => round'.attempt < budget'
    BY <1>1 DEF JudgingInv
  <2> QED
    BY <2>1, <2>2, <2>3 DEF JudgingInv
<1>5. \A n : FixesOf(n)' = FixesOf(n)
  BY DEF FixesOf, Kids
<1>6. FixingInv'
  <2>1. ASSUME NEW e \in Drives, Fixing(e)'
        PROVE  /\ my'[e].todo = 1 /\ Taken(FixClaim(my[e].attempt))'
               /\ FixesOf(my[e].attempt)' = {}
    BY <1>1, <1>5, <2>1 DEF FixingInv, Fixing, FixClaim
  <2>2. ASSUME NEW e \in Drives, NEW f \in Drives, Fixing(e)', Fixing(f)',
               my'[e].attempt = my'[f].attempt
        PROVE  e = f
    <3>1. ASSUME NEW g \in Drives \ {d}, Fixing(g)', my'[g].attempt = m.attempt, Fixing(d)'
          PROVE  FALSE
      <4>1. Fixing(g) /\ my[g].attempt = m.attempt /\ next = "declare" /\ m.kind = "fix"
        BY <1>1, <3>1 DEF Fixing
      <4> QED
        BY <4>1 DEF FixingInv
    <3>2. CASE e # d /\ f # d
      <4>1. Fixing(e) /\ Fixing(f) /\ my[e].attempt = my[f].attempt
        BY <1>1, <2>2, <3>2 DEF Fixing
      <4> QED
        BY <4>1 DEF FixingInv
    <3> QED
      BY <1>1, <2>2, <3>1, <3>2
  <2>3. ASSUME NEW e \in Drives, at'[e] = "launch", my'[e].kind = "fix"
        PROVE  my'[e].todo = 0
    BY <1>1, <2>3 DEF FixingInv
  <2> QED
    BY <2>1, <2>2, <2>3 DEF FixingInv
<1>7. RoundsArePaidAndHadOnce'
  BY DEF RoundsArePaidAndHadOnce, RoundsArePaid, OneFixPerRound, Kids
<1> QED
  BY <1>2, <1>4, <1>6, <1>7

LEMMA Moves ==
    ASSUME RInv, Frame, NEW d \in Drives, NEW next \in Places, NEW m, IsMemory(m),
           at' = [at EXCEPT ![d] = next], my' = [my EXCEPT ![d] = m], locks' = locks,
           next \notin {"spend", "write", "launch", "declare"},
           next \in Judging => at[d] \in Judging /\ m.attempt = round.attempt
    PROVE  RInv'
<1>1. \A key : Taken(key) => Taken(key)'
  BY DEF Taken
<1>2. locks' \in Seq(KeyType)
  BY DEF RInv, ReworkTypeOK
<1>3. next \in Judging => Taken(Completion(round.attempt))'
  BY <1>1 DEF Frame, RInv, JudgingInv, Completion
<1> QED
  BY <1>1, <1>2, <1>3, DriveMoves

LEMMA BlankMemory == IsMemory(Blank) /\ Blank.kind = "none"
  BY DEF IsMemory, MemoryFields, Blank

LEMMA Leaves ==
    ASSUME RInv, Frame, NEW d \in Drives, Leave(d) PROVE RInv'
  BY Moves, BlankMemory DEF Leave, Goto, Keep, Places, Judging

LEMMA Stays ==
    ASSUME RInv, Frame, NEW d \in Drives,
           NEW next \in Places \ {"spend", "write", "launch", "declare"},
           Goto(d, next), my' = my, locks' = locks, next \in Judging => at[d] \in Judging
    PROVE  RInv'
<1>1. my' = [my EXCEPT ![d] = my[d]] /\ IsMemory(my[d])
  BY DEF RInv, ReworkTypeOK
<1>2. next \in Judging => my[d].attempt = round.attempt
  BY DEF RInv, JudgingInv
<1> QED
  BY <1>1, <1>2, Moves DEF Goto

LEMMA Appended ==
    ASSUME locks \in Seq(KeyType), NEW key \in KeyType, locks' = Append(locks, key)
    PROVE  /\ locks' \in Seq(KeyType) /\ Taken(key)'
           /\ \A k : Taken(k) => Taken(k)'
  BY DEF Taken

\* What a claimed key is good for.
LEMMA Claims ==
    ASSUME RInv, Frame, NEW d \in Drives, NEW key \in KeyType,
           NEW next \in Places \ {"spend", "write", "launch"}, NEW m, IsMemory(m),
           Claim(d, key, next, m),
           next \in Judging => m.attempt = round.attempt /\ key = Completion(m.attempt),
           next = "declare" /\ m.kind = "fix" =>
               m.todo = 1 /\ FixesOf(m.attempt) = {} /\ key = FixClaim(m.attempt)
    PROVE  RInv'
<1>1. CASE Leave(d)
  BY <1>1, Leaves
<1>2. CASE ~Taken(key) /\ locks' = Append(locks, key) /\ Goto(d, next) /\ Keep(d, m)
  <2>1. locks' \in Seq(KeyType) /\ Taken(key)' /\ (\A k : Taken(k) => Taken(k)')
    BY <1>2, Appended DEF RInv, ReworkTypeOK
  <2>2. next \in Judging => ~Taken(Completion(round.attempt)) /\ Taken(Completion(round.attempt))'
    BY <1>2, <2>1 DEF Frame, Completion
  <2>3. next = "declare" /\ m.kind = "fix" =>
            ~Taken(FixClaim(m.attempt)) /\ Taken(FixClaim(m.attempt))'
    BY <1>2, <2>1 DEF FixClaim
  <2> QED
    BY <1>2, <2>1, <2>2, <2>3, DriveMoves DEF Goto, Keep
<1> QED
  BY <1>1, <1>2 DEF Claim

LEMMA Surroundings ==
    ASSUME RInv, Frame, UNCHANGED <<at, my, locks>> PROVE RInv'
<1>1. \A n : FixesOf(n)' = FixesOf(n)
  BY DEF Frame, FixesOf, Kids
<1>2. ReworkTypeOK' /\ JudgingInv'
  BY DEF Frame, RInv, ReworkTypeOK, JudgingInv, Taken, Completion
<1>3. FixingInv'
  BY <1>1 DEF RInv, FixingInv, Fixing, Taken, FixClaim
<1>4. RoundsArePaidAndHadOnce'
  BY DEF Frame, RInv, RoundsArePaidAndHadOnce, RoundsArePaid, OneFixPerRound, Kids
<1> QED
  BY <1>2, <1>3, <1>4 DEF RInv

KidStates == {"empty", "live", "cloned", "passed", "fixable", "failed", "canceled"}

LEMMA ChildMarked ==
    ASSUME children \in Seq(KidType), NEW c, NEW st \in KidStates, NEW h \in Nat,
           \/ children' = [children EXCEPT ![c].st = st]
           \/ children' = [children EXCEPT ![c].st = st, ![c].head = h]
    PROVE  /\ children' \in Seq(KidType) /\ DOMAIN children' = DOMAIN children
           /\ \A i \in Kids : children'[i].kind = children[i].kind
                               /\ children'[i].attempt = children[i].attempt
<1>1. DOMAIN children' = DOMAIN children
  OBVIOUS
<1>2. ASSUME NEW i \in Kids
      PROVE  /\ children'[i] \in KidType
             /\ children'[i].kind = children[i].kind /\ children'[i].attempt = children[i].attempt
  <2>1. children[i] \in KidType
    BY <1>2 DEF Kids
  <2>2. \/ children'[i] = children[i]
        \/ children'[i] = [children[i] EXCEPT !.st = st]
        \/ children'[i] = [children[i] EXCEPT !.st = st, !.head = h]
    BY <1>2 DEF Kids
  <2> QED
    BY <2>1, <2>2 DEF KidType, KidStates
<1>3. children' \in Seq(KidType)
  <2>1. PICK n \in Nat : children \in [1 .. n -> KidType]
    OBVIOUS
  <2>2. children' = [i \in DOMAIN children |-> children'[i]]
    OBVIOUS
  <2>3. children' \in [1 .. n -> KidType]
    BY <1>1, <1>2, <2>1, <2>2 DEF Kids
  <2> QED
    BY <2>1, <2>3
<1> QED
  BY <1>1, <1>2, <1>3


\* The steps of a drive around the gate and the promotion.
LEMMA GateSteps ==
    ASSUME RInv, NEW d \in Drives,
           Begin(d) \/ Check(d) \/ Gate(d) \/ Inline(d) \/ Mark(d) \/ Capture(d) \/ Pin(d)
               \/ Settle(d) \/ Refuse(d) \/ Promote(d) \/ Complete(d) \/ Crash(d)
    PROVE  RInv'
<1> USE DEF Places, Judging
<1>1. Frame
  BY SameFrame DEF Begin, Check, Gate, Inline, Mark, Capture, Pin, Settle, Refuse, Promote,
                   Complete, Crash, graph
<1>2. /\ IsMemory(my[d]) /\ my[d].attempt \in Nat /\ round.attempt \in Nat
      /\ at \in [Drives -> Places] /\ my = [e \in Drives |-> my[e]]
      /\ \A n \in Nat : Completion(n) \in KeyType
  BY DEF RInv, ReworkTypeOK, IsMemory, Completion, KeyType
<1>3. CASE Begin(d)
  BY <1>1, <1>3, Stays DEF Begin
<1>4. CASE Check(d)
  <2>1. CASE Leave(d)
    BY <1>1, <2>1, Leaves
  <2>2. CASE (Goto(d, "resume") \/ Goto(d, "reread")) /\ UNCHANGED <<my, locks>>
    BY <1>1, <2>2, Stays
  <2> QED
    BY <1>4, <2>1, <2>2 DEF Check
<1>5. CASE Gate(d)
  BY <1>1, <1>5, Stays DEF Gate
<1>6. CASE Inline(d)
  <2>1. CASE Claim(d, Completion(my[d].attempt), "pin", my[d])
    BY <1>1, <1>2, <2>1, Claims
  <2>2. CASE Goto(d, "mark") /\ UNCHANGED <<my, locks>>
    BY <1>1, <2>2, Stays
  <2> QED
    BY <1>6, <2>1, <2>2 DEF Inline
<1>7. CASE Mark(d)
  <2>1. CASE Goto(d, "resume") /\ UNCHANGED <<my, locks>>
    BY <1>1, <2>1, Stays
  <2>2. CASE Claim(d, Completion(round.attempt), "refuse", Blank)
    BY <1>1, <1>2, <2>2, Claims, BlankMemory
  <2> QED
    BY <1>7, <2>1, <2>2 DEF Mark
<1>8. CASE Capture(d)
  <2>1. PICK h : my' = [my EXCEPT ![d] = [my[d] EXCEPT !.head = h, !.kind = "gate",
                                              !.attempt = 0, !.todo = setting.criteria]]
    BY <1>8 DEF Capture, Keep
  <2>2. setting.criteria \in Int
    BY ReworkAssumption DEF RInv, ReworkTypeOK, SettingType
  <2> DEFINE m == [my[d] EXCEPT !.head = h, !.kind = "gate", !.attempt = 0,
                                !.todo = setting.criteria]
  <2>3. IsMemory(m) /\ m.kind = "gate"
    BY <1>2, <2>2 DEF IsMemory, MemoryFields
  <2>4. my' = [my EXCEPT ![d] = m] /\ at' = [at EXCEPT ![d] = "declare"] /\ locks' = locks
    BY <1>8, <2>1 DEF Capture, Goto
  <2>5. locks' \in Seq(KeyType) /\ \A key : Taken(key) => Taken(key)'
    BY <2>4 DEF Taken, RInv, ReworkTypeOK
  <2> HIDE DEF m
  <2> QED
    BY <1>1, <2>3, <2>4, <2>5, DriveMoves
<1>9. CASE Pin(d)
  <2>1. CASE Goto(d, "refuse") /\ UNCHANGED <<my, locks>>
    BY <1>1, <2>1, Stays
  <2>2. ASSUME NEW h, Goto(d, "settle"), Keep(d, [my[d] EXCEPT !.head = h]), locks' = locks
        PROVE  RInv'
    <3> DEFINE m == [my[d] EXCEPT !.head = h]
    <3>1. IsMemory(m)
      BY <1>2 DEF IsMemory, MemoryFields
    <3>2. my' = [my EXCEPT ![d] = m] /\ at' = [at EXCEPT ![d] = "settle"] /\ locks' = locks
      BY <2>2 DEF Goto, Keep
    <3> HIDE DEF m
    <3> QED
      BY <1>1, <3>1, <3>2, Moves
  <2> QED
    BY <1>9, <2>1, <2>2 DEF Pin
<1>10. CASE Settle(d)
  BY <1>1, <1>10, Stays DEF Settle
<1>11. CASE Refuse(d) \/ Complete(d) \/ Crash(d)
  BY <1>1, <1>11, Leaves DEF Refuse, Complete, Crash
<1>12. CASE Promote(d)
  <2>1. CASE Leave(d)
    BY <1>1, <2>1, Leaves
  <2>2. CASE Goto(d, "complete") /\ UNCHANGED <<my, locks>>
    BY <1>1, <2>2, Stays
  <2> QED
    BY <1>12, <2>1, <2>2 DEF Promote
<1> QED
  BY <1>3, <1>4, <1>5, <1>6, <1>7, <1>8, <1>9, <1>10, <1>11, <1>12


\* The steps by which the gate's and a round's children are declared.
LEMMA ChildSteps ==
    ASSUME RInv, NEW d \in Drives, Declare(d) \/ Launch(d) \/ Record(d) PROVE RInv'
<1> USE DEF Places, Judging
<1>1. /\ IsMemory(my[d]) /\ at \in [Drives -> Places] /\ my = [e \in Drives |-> my[e]]
      /\ locks \in Seq(KeyType) /\ children \in Seq(KidType)
  BY DEF RInv, ReworkTypeOK
<1>2. CASE Declare(d)
  <2> DEFINE kid == [kind |-> my[d].kind, attempt |-> my[d].attempt,
                     criterion |-> my[d].todo, st |-> "empty", head |-> 0]
             m == [my[d] EXCEPT !.ids = @ \cup {Len(children) + 1}, !.todo = @ - 1]
  <2>1. /\ children' = Append(children, kid) /\ my' = [my EXCEPT ![d] = m]
        /\ at[d] = "declare" /\ at' = [at EXCEPT ![d] = "launch"] /\ locks' = locks
        /\ UNCHANGED <<setting, round, budget, head>>
    BY <1>2 DEF Declare, Goto, Keep, graph
  <2>2. /\ kid \in KidType /\ kid.kind = my[d].kind /\ kid.attempt = my[d].attempt
    BY <1>1 DEF KidType, IsMemory
  <2>3. /\ IsMemory(m) /\ m.kind = my[d].kind /\ m.attempt = my[d].attempt
        /\ m.todo = my[d].todo - 1
    BY <1>1 DEF IsMemory, MemoryFields
  <2> HIDE DEF kid, m
  <2>4. /\ children' \in Seq(KidType) /\ Kids' = Kids \cup {Len(children) + 1}
        /\ \A i \in Kids : children'[i] = children[i]
        /\ children'[Len(children) + 1] = kid /\ Kids = 1 .. Len(children)
    BY <1>1, <2>1, <2>2 DEF Kids
  <2>5. /\ at'[d] = "launch" /\ my'[d] = m
        /\ \A e \in Drives \ {d} : at'[e] = at[e] /\ my'[e] = my[e]
    BY <1>1, <2>1
  <2>6. ReworkTypeOK'
    BY <2>1, <2>3, <2>4, <2>5 DEF RInv, ReworkTypeOK, IsMemory
  <2>7. JudgingInv'
    BY <2>1, <2>5 DEF RInv, JudgingInv, Taken, Completion
  <2>8. \A n : FixesOf(n)' = FixesOf(n) \cup
            (IF kid.kind = "fix" /\ kid.attempt = n THEN {Len(children) + 1} ELSE {})
    BY <2>4 DEF FixesOf
  <2>9. FixingInv'
    <3>1. ASSUME NEW e \in Drives, Fixing(e)'
          PROVE  /\ e # d /\ Fixing(e) /\ my'[e] = my[e]
                 /\ FixesOf(my[e].attempt)' = {}
      <4>1. e # d /\ Fixing(e) /\ my'[e] = my[e]
        BY <2>5, <3>1 DEF Fixing
      <4>2. FixesOf(my[e].attempt) = {}
        BY <4>1 DEF RInv, FixingInv
      <4>3. ~(kid.kind = "fix" /\ kid.attempt = my[e].attempt)
        BY <2>1, <2>2, <4>1 DEF RInv, FixingInv, Fixing
      <4>4. ASSUME NEW n, n = my[e].attempt PROVE FixesOf(n)' = {}
        <5>1. FixesOf(n)' = FixesOf(n)
          BY <2>8, <4>3, <4>4
        <5> QED
          BY <4>2, <4>4, <5>1
      <4>5. FixesOf(my[e].attempt)' = {}
        BY <4>1, <4>4 DEF FixesOf
      <4> QED
        BY <4>1, <4>5
    <3>2. ASSUME NEW e \in Drives, at'[e] = "launch", my'[e].kind = "fix"
          PROVE  my'[e].todo = 0
      BY <2>1, <2>3, <2>5, <3>2 DEF RInv, FixingInv, Fixing
    <3>3. ASSUME NEW e \in Drives, Fixing(e)'
          PROVE  my'[e].todo = 1 /\ Taken(FixClaim(my[e].attempt))'
      BY <2>1, <3>1, <3>3 DEF RInv, FixingInv, Taken, FixClaim
    <3>4. ASSUME NEW e \in Drives, NEW f \in Drives, Fixing(e)', Fixing(f)',
                 my'[e].attempt = my'[f].attempt
          PROVE  e = f
      BY <3>1, <3>4 DEF RInv, FixingInv
    <3> QED
      BY <3>1, <3>2, <3>3, <3>4 DEF FixingInv
  <2>10. RoundsArePaidAndHadOnce'
    <3>1. RoundsArePaid'
      BY <2>1 DEF RInv, RoundsArePaidAndHadOnce, RoundsArePaid
    <3>2. kid.kind = "fix" => FixesOf(kid.attempt) = {}
      BY <2>1, <2>2 DEF RInv, FixingInv, Fixing
    <3>3. OneFixPerRound'
      BY <2>4, <3>2 DEF RInv, RoundsArePaidAndHadOnce, OneFixPerRound, FixesOf
    <3> QED
      BY <3>1, <3>3 DEF RoundsArePaidAndHadOnce
  <2> QED
    BY <2>6, <2>7, <2>9, <2>10 DEF RInv
<1>3. CASE Launch(d)
  <2>1. Frame
    <3>1. PICK st \in {"live", "failed"} : \E c : children' = [children EXCEPT ![c].st = st]
      BY <1>3 DEF Launch
    <3>2. /\ children' \in Seq(KidType) /\ DOMAIN children' = DOMAIN children
          /\ \A i \in Kids : children'[i].kind = children[i].kind
                              /\ children'[i].attempt = children[i].attempt
      BY <1>1, <3>1, ChildMarked DEF KidStates
    <3> QED
      BY <1>3, <3>2 DEF Launch, Frame, graph, RInv, ReworkTypeOK
  <2>2. CASE Leave(d)
    BY <2>1, <2>2, Leaves
  <2>3. CASE my[d].todo > 0 /\ Goto(d, "declare") /\ UNCHANGED <<my, locks>>
    <3>1. my[d].kind # "fix"
      BY <1>3, <2>3 DEF Launch, RInv, FixingInv
    <3>2. my' = [my EXCEPT ![d] = my[d]] /\ \A key : Taken(key) => Taken(key)'
      BY <1>1, <2>3 DEF Taken
    <3> QED
      BY <1>1, <2>1, <2>3, <3>1, <3>2, DriveMoves DEF Goto
  <2>4. CASE Goto(d, "record") /\ UNCHANGED <<my, locks>>
    BY <2>1, <2>4, Stays
  <2> QED
    BY <1>3, <2>2, <2>3, <2>4 DEF Launch
<1>4. CASE Record(d)
  <2>1. Frame
    BY <1>4 DEF Record, Frame, RInv, ReworkTypeOK, RoundFields
  <2>2. CASE Leave(d)
    BY <2>1, <2>2, Leaves
  <2>3. CASE Goto(d, "mark") /\ UNCHANGED <<my, locks>>
    BY <2>1, <2>3, Stays
  <2> QED
    BY <1>4, <2>2, <2>3 DEF Record
<1> QED
  BY <1>2, <1>3, <1>4


\* A drive moves, and something is spent or a round begins.
LEMMA TypeKept ==
    ASSUME ReworkTypeOK, NEW d \in Drives, NEW next \in Places, NEW m, IsMemory(m),
           at' = [at EXCEPT ![d] = next], my' = [my EXCEPT ![d] = m],
           UNCHANGED <<setting, children, locks, head>>, budget' \in Nat,
           DOMAIN round' = RoundFields /\ round'.attempt \in Nat
    PROVE  ReworkTypeOK'
<1>1. /\ at'[d] = next /\ my'[d] = m
      /\ \A e \in Drives \ {d} : at'[e] = at[e] /\ my'[e] = my[e]
  BY DEF ReworkTypeOK
<1> QED
  BY <1>1 DEF ReworkTypeOK, IsMemory

\* The steps from a verdict into the next round.
LEMMA RoundSteps ==
    ASSUME RInv, NEW d \in Drives, Fail(d) \/ Enter(d) \/ Spend(d) \/ Write(d)
    PROVE  RInv'
<1> USE DEF Places, Judging
<1>1. /\ IsMemory(my[d]) /\ at \in [Drives -> Places] /\ my = [e \in Drives |-> my[e]]
      /\ locks \in Seq(KeyType) /\ round.attempt \in Nat /\ budget \in Nat
      /\ setting.maxAttempts \in Nat
  BY ReworkAssumption DEF RInv, ReworkTypeOK, SettingType
<1>2. at[d] \in Judging => my[d].attempt = round.attempt /\ Taken(Completion(round.attempt))
  BY DEF RInv, JudgingInv
<1>3. CASE Fail(d)
  <2>1. Frame
    BY <1>3, SameFrame DEF Fail, graph
  <2>2. CASE (Goto(d, "refuse") \/ Goto(d, "resume")) /\ UNCHANGED <<my, locks>>
    BY <2>1, <2>2, Stays
  <2>3. CASE /\ Goto(d, "enter") /\ Keep(d, [my[d] EXCEPT !.attempt = round.attempt])
             /\ locks' = locks
    <3> DEFINE m == [my[d] EXCEPT !.attempt = round.attempt]
    <3>1. IsMemory(m) /\ m.attempt = round.attempt
      BY <1>1 DEF IsMemory, MemoryFields
    <3>2. /\ my' = [my EXCEPT ![d] = m] /\ at' = [at EXCEPT ![d] = "enter"] /\ locks' = locks
          /\ at[d] \in Judging
      BY <1>3, <2>3 DEF Fail, Goto, Keep
    <3> HIDE DEF m
    <3> QED
      BY <2>1, <3>1, <3>2, Moves
  <2> QED
    BY <1>3, <2>2, <2>3 DEF Fail
<1>4. CASE Enter(d)
  <2>1. Frame /\ UNCHANGED my /\ my' = [my EXCEPT ![d] = my[d]]
    BY <1>1, <1>4, SameFrame DEF Enter, graph
  <2>2. CASE Goto(d, "refuse") /\ UNCHANGED locks
    BY <2>1, <2>2, Stays
  <2>3. CASE /\ budget < setting.maxAttempts
             /\ Goto(d, "spend") /\ locks' = Append(locks, RoundClaim(my[d].attempt + 1))
    <3>1. RoundClaim(my[d].attempt + 1) \in KeyType
      BY <1>1 DEF RoundClaim, KeyType, IsMemory
    <3>2. locks' \in Seq(KeyType) /\ \A k : Taken(k) => Taken(k)'
      BY <1>1, <2>3, <3>1, Appended
    <3>3. Taken(Completion(round.attempt))' /\ at[d] \in Judging
      BY <1>2, <1>4, <2>1, <3>2 DEF Enter, Frame, Completion
    <3> QED
      BY <1>1, <1>2, <2>1, <2>3, <3>2, <3>3, DriveMoves DEF Goto
  <2> QED
    BY <1>4, <2>2, <2>3 DEF Enter
<1>5. CASE Spend(d)
  <2>1. PICK h : my' = [my EXCEPT ![d] = [my[d] EXCEPT !.head = h]]
    BY <1>5 DEF Spend, Keep
  <2> DEFINE m == [my[d] EXCEPT !.head = h]
  <2>2. IsMemory(m) /\ m.attempt = my[d].attempt /\ m.kind = my[d].kind
    BY <1>1 DEF IsMemory, MemoryFields
  <2>3. /\ my' = [my EXCEPT ![d] = m] /\ at' = [at EXCEPT ![d] = "write"] /\ at[d] = "spend"
        /\ budget' = budget + 1 /\ UNCHANGED <<setting, round, children, locks, head>>
    BY <1>5, <2>1 DEF Spend, Goto, graph
  <2> HIDE DEF m
  <2>4. /\ at'[d] = "write" /\ my'[d] = m
        /\ \A e \in Drives \ {d} : at'[e] = at[e] /\ my'[e] = my[e]
    BY <1>1, <2>3
  <2>5. budget < setting.maxAttempts
    BY <2>3 DEF RInv, JudgingInv
  <2>6. ReworkTypeOK'
    <3>1. ReworkTypeOK /\ DOMAIN round' = RoundFields /\ round'.attempt \in Nat
      BY <1>1, <2>3 DEF RInv, ReworkTypeOK
    <3>2. budget' \in Nat /\ "write" \in Places
      BY <1>1, <2>3
    <3> QED
      BY <2>2, <2>3, <3>1, <3>2, TypeKept
  <2>7. JudgingInv'
    <3>1. \A e \in Drives \ {d} : at[e] \notin Judging
      BY <2>3 DEF RInv, JudgingInv
    <3>2. round.attempt < budget'
      BY <1>1, <2>3 DEF RInv, RoundsArePaidAndHadOnce, RoundsArePaid
    <3>3. m.attempt = round.attempt /\ Taken(Completion(round.attempt))'
      BY <1>2, <2>2, <2>3 DEF Taken, Completion
    <3> QED
      BY <2>3, <2>4, <3>1, <3>2, <3>3 DEF JudgingInv
  <2>8. FixingInv'
    <3>1. \A e \in Drives : Fixing(e)' => e # d /\ Fixing(e) /\ my'[e] = my[e]
      BY <2>4 DEF Fixing
    <3>2. \A n : FixesOf(n)' = FixesOf(n) /\ Taken(FixClaim(n))' = Taken(FixClaim(n))
      BY <2>3 DEF FixesOf, Kids, Taken, FixClaim
    <3>3. ASSUME NEW e \in Drives, Fixing(e)'
          PROVE  /\ my'[e].todo = 1 /\ Taken(FixClaim(my[e].attempt))'
                 /\ FixesOf(my[e].attempt)' = {}
      BY <3>1, <3>2, <3>3 DEF RInv, FixingInv, FixesOf, Taken, FixClaim, Kids
    <3>4. ASSUME NEW e \in Drives, NEW f \in Drives, Fixing(e)', Fixing(f)',
                 my'[e].attempt = my'[f].attempt
          PROVE  e = f
      BY <3>1, <3>4 DEF RInv, FixingInv
    <3>5. ASSUME NEW e \in Drives, at'[e] = "launch", my'[e].kind = "fix"
          PROVE  my'[e].todo = 0
      BY <2>4, <3>5 DEF RInv, FixingInv
    <3> QED
      BY <3>3, <3>4, <3>5 DEF FixingInv
  <2>9. RoundsArePaidAndHadOnce'
    BY <1>1, <2>3, <2>5
       DEF RInv, RoundsArePaidAndHadOnce, RoundsArePaid, OneFixPerRound, Kids
  <2> QED
    BY <2>6, <2>7, <2>8, <2>9 DEF RInv
<1>6. CASE Write(d)
  <2>1. /\ at' = [at EXCEPT ![d] = "resume"] /\ my' = [my EXCEPT ![d] = Blank]
        /\ at[d] = "write" /\ my[d].attempt = round.attempt
        /\ UNCHANGED <<setting, budget, children, locks, head>>
    BY <1>2, <1>6 DEF Write, Goto, Keep
  <2>2. DOMAIN round' = RoundFields /\ round'.attempt = round.attempt + 1
    BY <1>6, <2>1 DEF Write, NoRound, RoundFields
  <2>3. /\ at'[d] = "resume" /\ my'[d] = Blank
        /\ \A e \in Drives \ {d} : at'[e] = at[e] /\ my'[e] = my[e]
    BY <1>1, <2>1
  <2>4. ReworkTypeOK'
    <3>1. ReworkTypeOK /\ round'.attempt \in Nat /\ budget' \in Nat /\ "resume" \in Places
      BY <1>1, <2>1, <2>2 DEF RInv
    <3> QED
      BY <2>1, <2>2, <3>1, BlankMemory, TypeKept
  <2>5. JudgingInv'
    <3>1. \A e \in Drives : at'[e] \notin Judging
      BY <2>1, <2>3 DEF RInv, JudgingInv
    <3> QED
      BY <3>1 DEF JudgingInv
  <2>6. FixingInv'
    <3>1. \A e \in Drives : Fixing(e)' => e # d /\ Fixing(e) /\ my'[e] = my[e]
      BY <2>3 DEF Fixing
    <3>2. \A n : FixesOf(n)' = FixesOf(n) /\ Taken(FixClaim(n))' = Taken(FixClaim(n))
      BY <2>1 DEF FixesOf, Kids, Taken, FixClaim
    <3>3. ASSUME NEW e \in Drives, Fixing(e)'
          PROVE  /\ my'[e].todo = 1 /\ Taken(FixClaim(my[e].attempt))'
                 /\ FixesOf(my[e].attempt)' = {}
      BY <3>1, <3>2, <3>3, <2>1 DEF RInv, FixingInv, FixesOf, Taken, FixClaim, Kids
    <3>4. ASSUME NEW e \in Drives, NEW f \in Drives, Fixing(e)', Fixing(f)',
                 my'[e].attempt = my'[f].attempt
          PROVE  e = f
      BY <3>1, <3>4 DEF RInv, FixingInv
    <3>5. ASSUME NEW e \in Drives, at'[e] = "launch", my'[e].kind = "fix"
          PROVE  my'[e].todo = 0
      BY <2>3, <3>5 DEF RInv, FixingInv
    <3> QED
      BY <3>3, <3>4, <3>5 DEF FixingInv
  <2>7. RoundsArePaidAndHadOnce'
    <3>1. round.attempt < budget
      BY <2>1 DEF RInv, JudgingInv
    <3> QED
      BY <1>1, <2>1, <2>2, <3>1
         DEF RInv, RoundsArePaidAndHadOnce, RoundsArePaid, OneFixPerRound, Kids
  <2> QED
    BY <2>4, <2>5, <2>6, <2>7 DEF RInv
<1> QED
  BY <1>3, <1>4, <1>5, <1>6


\* The steps that read what the graph needs next.
LEMMA ReadingSteps ==
    ASSUME RInv, NEW d \in Drives, Reread(d) \/ Resume(d) \/ Guard(d) PROVE RInv'
<1> USE DEF Places, Judging
<1> DEFINE judged(n, ids, pin, reason) ==
        [Blank EXCEPT !.attempt = n, !.pin = pin, !.ids = ids, !.reason = reason]
<1>1. /\ Frame /\ round.attempt \in Nat /\ IsMemory(my[d]) /\ my[d].attempt \in Nat
      /\ locks \in Seq(KeyType)
  BY SameFrame DEF Reread, Resume, Guard, graph, RInv, ReworkTypeOK, IsMemory
<1>2. \A n \in Nat : {Completion(n), FixClaim(n), RevalClaim(n)} \subseteq KeyType
  BY DEF Completion, FixClaim, RevalClaim, KeyType
<1>3. \A n \in Nat : \A ids, pin, reason :
          /\ IsMemory(judged(n, ids, pin, reason)) /\ judged(n, ids, pin, reason).attempt = n
          /\ judged(n, ids, pin, reason).kind = "none"
  BY DEF IsMemory, MemoryFields, Blank
<1> HIDE DEF judged
\* A verdict is claimed, and acted upon.
<1>4. ASSUME NEW ids, NEW pin, NEW reason,
             NEW next \in {"pin", "fail", "promote", "enter", "refuse"},
             Claim(d, Completion(round.attempt), next, judged(round.attempt, ids, pin, reason))
      PROVE  RInv'
  BY <1>1, <1>2, <1>3, <1>4, Claims
<1>5. CASE Reread(d)
  <2>1. CASE Leave(d)
    BY <1>1, <2>1, Leaves
  <2>2. ASSUME NEW ids, NEW pin, NEW reason, Goto(d, "gate"), locks' = locks,
               Keep(d, judged(round.attempt, ids, pin, reason))
        PROVE  RInv'
    <3>1. IsMemory(judged(round.attempt, ids, pin, reason))
      BY <1>1, <1>3
    <3>2. /\ at' = [at EXCEPT ![d] = "gate"]
          /\ my' = [my EXCEPT ![d] = judged(round.attempt, ids, pin, reason)]
      BY <2>2 DEF Goto, Keep
    <3> QED
      BY <1>1, <2>2, <3>1, <3>2, Moves
  <2> QED
    BY <1>4, <1>5, <2>1, <2>2 DEF Reread, judged
<1>6. CASE Guard(d)
  <2>1. ASSUME NEW n \in Nat, Claim(d, Completion(n), "refuse", Blank) PROVE RInv'
    BY <1>1, <1>2, <2>1, Claims, BlankMemory
  <2>2. ASSUME NEW h, NEW n \in Nat,
               Claim(d, RevalClaim(n), "declare",
                     [Blank EXCEPT !.kind = "reval", !.attempt = n,
                                   !.todo = setting.criteria, !.head = h])
        PROVE  RInv'
    <3> DEFINE m == [Blank EXCEPT !.kind = "reval", !.attempt = n,
                                  !.todo = setting.criteria, !.head = h]
    <3>1. setting.criteria \in Int
      BY ReworkAssumption DEF RInv, ReworkTypeOK, SettingType
    <3>2. IsMemory(m) /\ m.kind = "reval"
      BY <3>1 DEF IsMemory, MemoryFields, Blank
    <3>3. Claim(d, RevalClaim(n), "declare", m)
      BY <2>2
    <3> HIDE DEF m
    <3> QED
      BY <1>1, <1>2, <3>2, <3>3, Claims
  <2> QED
    BY <1>1, <1>6, <2>1, <2>2 DEF Guard
<1>7. CASE Resume(d)
  <2> DEFINE fixer == [Blank EXCEPT !.kind = "fix", !.attempt = round.attempt, !.todo = 1,
                                    !.ids = {}]
  <2>1. IsMemory(fixer) /\ fixer.kind = "fix" /\ fixer.attempt = round.attempt /\ fixer.todo = 1
    BY <1>1 DEF IsMemory, MemoryFields, Blank
  <2> HIDE DEF fixer
  <2>2. CASE Leave(d)
    BY <1>1, <2>2, Leaves
  <2>3. CASE Fixes = {} /\ Claim(d, FixClaim(round.attempt), "declare", fixer)
    <3>1. FixesOf(round.attempt) = {}
      BY <2>3 DEF Fixes, FixesOf
    <3> QED
      BY <1>1, <1>2, <2>1, <2>3, <3>1, Claims
  <2>4. CASE Claim(d, Completion(round.attempt), "refuse", Blank)
    BY <1>1, <1>2, <2>4, Claims, BlankMemory
  <2>5. ASSUME NEW ids, NEW pin, NEW reason, NEW h, Goto(d, "guard"), locks' = locks,
               Keep(d, [judged(round.attempt, ids, pin, reason) EXCEPT !.head = h])
        PROVE  RInv'
    <3> DEFINE m == [judged(round.attempt, ids, pin, reason) EXCEPT !.head = h]
    <3>1. IsMemory(m)
      BY <1>1, <1>3 DEF IsMemory, MemoryFields
    <3>2. at' = [at EXCEPT ![d] = "guard"] /\ my' = [my EXCEPT ![d] = m]
      BY <2>5 DEF Goto, Keep
    <3> HIDE DEF m
    <3> QED
      BY <1>1, <2>5, <3>1, <3>2, Moves
  <2>6. \/ Leave(d)
        \/ Fixes = {} /\ Claim(d, FixClaim(round.attempt), "declare", fixer)
        \/ Claim(d, Completion(round.attempt), "refuse", Blank)
        \/ \E ids, pin, reason, h :
               /\ Goto(d, "guard") /\ locks' = locks
               /\ Keep(d, [judged(round.attempt, ids, pin, reason) EXCEPT !.head = h])
        \/ \E ids, pin, reason : \E next \in {"pin", "enter", "refuse"} :
               Claim(d, Completion(round.attempt), next,
                     judged(round.attempt, ids, pin, reason))
    BY <1>7 DEF Resume, judged, fixer
  <2> QED
    BY <1>4, <2>2, <2>3, <2>4, <2>5, <2>6
<1> QED
  BY <1>5, <1>6, <1>7


\* Child graphs go on, keys expire while nobody drives, and other things happen.
LEMMA OtherSteps ==
    ASSUME RInv,
           \/ \E c \in Kids : Clone(c) \/ Verdict(c) \/ Fix(c) \/ CancelChild(c)
           \/ Expire \/ Push \/ Cancel \/ Reap
    PROVE  RInv'
<1>1. children \in Seq(KidType) /\ head \in Nat /\ locks \in Seq(KeyType)
  BY DEF RInv, ReworkTypeOK
<1>2. ASSUME NEW c \in Kids, Clone(c) \/ Verdict(c) \/ Fix(c) \/ CancelChild(c)
      PROVE  RInv'
  <2>1. PICK st \in KidStates, h \in Nat :
            \/ children' = [children EXCEPT ![c].st = st]
            \/ children' = [children EXCEPT ![c].st = st, ![c].head = h]
    BY <1>1, <1>2 DEF Clone, Verdict, Fix, CancelChild, KidStates, Failed
  <2>2. /\ children' \in Seq(KidType) /\ DOMAIN children' = DOMAIN children
        /\ \A i \in Kids : children'[i].kind = children[i].kind
                            /\ children'[i].attempt = children[i].attempt
    BY <1>1, <2>1, ChildMarked
  <2>3. head' \in Nat
    BY <1>1, <1>2 DEF Clone, Verdict, Fix, CancelChild
  <2>4. Frame /\ UNCHANGED <<at, my, locks>>
    BY <1>2, <2>2, <2>3
       DEF Clone, Verdict, Fix, CancelChild, Frame, graph, RInv, ReworkTypeOK
  <2> QED
    BY <2>4, Surroundings
<1>3. CASE Push \/ Cancel \/ Reap
  <2>1. Frame /\ UNCHANGED <<at, my, locks>>
    BY <1>1, <1>3 DEF Push, Cancel, Reap, Frame, graph, RInv, ReworkTypeOK
  <2> QED
    BY <2>1, Surroundings
<1>4. CASE Expire
  <2>1. /\ UNCHANGED <<setting, round, children, budget, head, at, my>>
        /\ \A d \in Drives : at[d] = "idle"
        /\ locks' \in Seq(KeyType)
    BY <1>1, <1>4 DEF Expire, Quiet, graph
  <2>2. ReworkTypeOK' /\ JudgingInv' /\ FixingInv'
    BY <2>1 DEF RInv, ReworkTypeOK, JudgingInv, FixingInv, Fixing, Judging, IsMemory
  <2>3. RoundsArePaidAndHadOnce'
    BY <2>1 DEF RInv, RoundsArePaidAndHadOnce, RoundsArePaid, OneFixPerRound, Kids
  <2> QED
    BY <2>2, <2>3 DEF RInv
<1> QED
  BY <1>2, <1>3, <1>4

LEMMA ReworkSteps == RInv /\ [Next]_vars => RInv'
<1> SUFFICES ASSUME RInv, [Next]_vars PROVE RInv'
  OBVIOUS
<1>1. ASSUME NEW d \in Drives, Begin(d) \/ Step(d) \/ Crash(d) PROVE RInv'
  BY <1>1, GateSteps, ChildSteps, RoundSteps, ReadingSteps DEF Step
<1>2. CASE UNCHANGED vars
  BY <1>2, SameFrame, Surroundings DEF vars, graph
<1> QED
  BY <1>1, <1>2, OtherSteps DEF Next

\* However many drives run at once, whatever crashes, is canceled, pushed or unreadable,
\* and whichever keys expire between drives, a graph's rework rounds are paid for from
\* its budget, the budget is never overdrawn, and a round has one fix child
\* (enterReworkRound and resumeReworkRound, task-graph.ts).
THEOREM RoundsAlwaysPaid == Spec => []RoundsArePaidAndHadOnce
<1>1. RInv => RoundsArePaidAndHadOnce
  BY DEF RInv
<1> QED
  BY ReworkInitially, ReworkSteps, <1>1, PTL DEF Spec

-----------------------------------------------------------------------------
(* A refusal is final, and a branch is promoted once                        *)
(*                                                                          *)
(* Whoever decides on a graph holds the completion key of its round, so at  *)
(* most one drive does.  It leaves its key behind: keys outlive the drives  *)
(* that were under way, so none of these decides again, and once all have   *)
(* returned the status keeps any other from beginning.                      *)

Deciders == Judging \cup {"pin", "settle", "refuse", "promote", "complete"}
Remembering == {"gate", "inline", "guard"}
Live == {"active", "validating", "reworking"}

DecidingInv ==
    /\ \A d \in Drives : at[d] \in Deciders => Taken(Completion(round.attempt))
    /\ \A d, e \in Drives : at[d] \in Deciders /\ at[e] \in Deciders => d = e
    /\ \A d \in Drives : at[d] \in Remembering =>
           my[d].attempt = round.attempt \/ Taken(Completion(my[d].attempt))

NoGateInv ==
    setting.gate = "none" =>
        /\ status \notin {"validating", "reworking"}
        /\ \A d \in Drives : at[d] \in {"idle", "check", "reread", "promote", "complete"}

\* No drive that is under way can still claim a decision.
Sealed == Quiet \/ Taken(Completion(round.attempt))

FinalInv ==
    /\ cancelations = 0 /\ status \in {"validation_failed", "failed"} =>
           Sealed /\ \A d \in Drives : at[d] \notin Deciders
    /\ \A d \in Drives : at[d] = "promote" /\ setting.gate # "none" => status \notin Live
    /\ promotions # <<>> =>
           /\ Len(promotions) = 1 /\ Sealed
           /\ \A d \in Drives : at[d] \in Deciders => at[d] = "complete"
           /\ setting.gate # "none" => status \notin Live

DInv ==
    /\ cancelations \in Nat /\ regated \in BOOLEAN
    /\ DecidingInv /\ NoGateInv
    /\ ~regated => FinalInv

Goes(d, next) ==
    /\ at' = [at EXCEPT ![d] = next]
    /\ \A e \in Drives \ {d} : my'[e] = my[e]
    /\ \A k : Taken(k) => Taken(k)'

LEMMA Going ==
    ASSUME RInv, NEW d \in Drives, NEW next, Goto(d, next), locks' = locks,
           my' = my \/ \E m : Keep(d, m)
    PROVE  Goes(d, next)
  BY DEF RInv, ReworkTypeOK, Goto, Keep, Goes, Taken

LEMMA GoingAway ==
    ASSUME RInv, NEW d \in Drives, Leave(d) PROVE Goes(d, "idle")
  BY Going DEF Leave

LEMMA Claiming ==
    ASSUME RInv, NEW d \in Drives, NEW key \in KeyType, NEW next, NEW m, Claim(d, key, next, m)
    PROVE  \/ Goes(d, "idle")
           \/ Goes(d, next) /\ my'[d] = m /\ ~Taken(key) /\ Taken(key)'
<1>1. CASE Leave(d)
  BY <1>1, GoingAway
<1>2. CASE ~Taken(key) /\ locks' = Append(locks, key) /\ Goto(d, next) /\ Keep(d, m)
  <2>1. Taken(key)' /\ \A k : Taken(k) => Taken(k)'
    BY <1>2, Appended DEF RInv, ReworkTypeOK
  <2>2. my'[d] = m /\ at' = [at EXCEPT ![d] = next] /\ \A e \in Drives \ {d} : my'[e] = my[e]
    BY <1>2 DEF Goto, Keep, RInv, ReworkTypeOK
  <2> QED
    BY <1>2, <2>1, <2>2 DEF Goes
<1> QED
  BY <1>1, <1>2 DEF Claim

Undecided ==
    UNCHANGED <<status, promotions, regated>> /\ round'.attempt = round.attempt

\* A drive looks round, claims a decision, or goes on with the one it has claimed.
LooksRound(d, next) ==
    /\ Undecided /\ next \notin Deciders
    /\ next \in Remembering =>
           \/ my'[d].attempt = round.attempt
           \/ at[d] \in Remembering /\ my'[d].attempt = my[d].attempt
Decides(d, next) ==
    /\ Undecided /\ next \in Deciders \ {"settle", "complete"}
    /\ ~Taken(Completion(round.attempt)) /\ Taken(Completion(round.attempt))'
    /\ next = "promote" => setting.gate = "none"
GoesOn(d, next) ==
    Undecided /\ at[d] \in Deciders /\ next \in Deciders \ {"promote", "complete"}

\* What a drive's step means for the end of the graph.
Moved(d, next) ==
    \/ LooksRound(d, next) \/ Decides(d, next) \/ GoesOn(d, next)
    \/ Gate(d) \/ Settle(d) \/ Refuse(d) \/ Promote(d) \/ Complete(d) \/ Write(d)

LEMMA DriveSteps ==
    ASSUME RInv, DecidingInv, NEW d \in Drives, Begin(d) \/ Step(d) \/ Crash(d)
    PROVE  /\ UNCHANGED <<setting, cancelations>>
           /\ \E next \in Places : Goes(d, next) /\ Moved(d, next)
<1> USE DEF Places, Judging, Deciders, Remembering
<1>1. UNCHANGED <<setting, cancelations>>
  BY DEF Begin, Step, Crash, Check, Reread, Gate, Inline, Mark, Capture, Declare, Launch, Record,
         Pin, Settle, Refuse, Promote, Complete, Fail, Enter, Spend, Write, Resume, Guard, faults
<1>2. /\ \A n \in Nat : {Completion(n), FixClaim(n), RevalClaim(n)} \subseteq KeyType
      /\ round.attempt \in Nat /\ my[d].attempt \in Nat /\ at[d] \in Places
  BY DEF Completion, FixClaim, RevalClaim, KeyType, RInv, ReworkTypeOK, IsMemory
<1> DEFINE Goal == \E next \in Places : Goes(d, next) /\ Moved(d, next)
<1>0. ASSUME NEW next \in Places, Goes(d, next), Moved(d, next) PROVE Goal
  BY <1>0
<1> SUFFICES Goal
  BY <1>1
<1> HIDE DEF Goal
\* A step that decides nothing and leaves.
<1>3. ASSUME Undecided, Goes(d, "idle") PROVE Goal
  BY <1>0, <1>3 DEF LooksRound, Moved
\* A step that decides nothing and goes on to look.
<1>4. ASSUME Undecided, NEW next \in Places \ (Deciders \cup Remembering), Goes(d, next)
      PROVE  Goal
  BY <1>0, <1>4 DEF LooksRound, Moved
\* A claim of the completion key of the current round.
<1>5. ASSUME Undecided, NEW n \in Nat, NEW next \in Deciders \ {"settle", "complete"}, NEW m,
             Claim(d, Completion(n), next, m), n = round.attempt \/ Taken(Completion(n)),
             next = "promote" => setting.gate = "none"
      PROVE  Goal
  <2>1. \/ Goes(d, "idle")
        \/ Goes(d, next) /\ ~Taken(Completion(n)) /\ Taken(Completion(n))'
    BY <1>2, <1>5, Claiming
  <2>2. CASE Goes(d, next) /\ ~Taken(Completion(n)) /\ Taken(Completion(n))'
    <3>1. n = round.attempt /\ n = round'.attempt
      BY <1>5, <2>2 DEF Undecided
    <3>2. ~Taken(Completion(round.attempt)) /\ Taken(Completion(round.attempt))'
      BY <2>2, <3>1 DEF Completion, Taken
    <3> QED
      BY <1>0, <1>5, <2>2, <3>2 DEF Decides, Moved
  <2> QED
    BY <1>3, <1>5, <2>1, <2>2
<1>6. CASE Begin(d)
  BY <1>4, <1>6, Going DEF Begin, Undecided, graph, history
<1>7. CASE Crash(d)
  BY <1>3, <1>7, GoingAway DEF Crash, Undecided, graph, history
<1>8. CASE Check(d)
  <2>1. Undecided
    BY <1>8 DEF Check, Undecided, graph, history
  <2>2. \/ Leave(d)
        \/ (Goto(d, "resume") \/ Goto(d, "reread")) /\ UNCHANGED <<my, locks>>
    BY <1>8 DEF Check
  <2> QED
    BY <1>3, <1>4, <2>1, <2>2, Going, GoingAway
<1>9. CASE Reread(d)
  <2>1. Undecided
    BY <1>9 DEF Reread, Undecided, graph, history
  <2>2. \/ Leave(d)
        \/ \E m : \/ Claim(d, Completion(round.attempt), "pin", m)
                  \/ Claim(d, Completion(round.attempt), "fail", m)
                  \/ /\ Claim(d, Completion(round.attempt), "promote", m)
                     /\ setting.gate = "none"
        \/ /\ Goto(d, "gate") /\ UNCHANGED locks
           /\ \E ids, reason :
                  Keep(d, [Blank EXCEPT !.attempt = round.attempt, !.pin = dispatchHead,
                                        !.ids = ids, !.reason = reason])
    BY <1>9 DEF Reread
  <2>3. ASSUME NEW ids, NEW reason, Goto(d, "gate"), UNCHANGED locks,
               Keep(d, [Blank EXCEPT !.attempt = round.attempt, !.pin = dispatchHead,
                                     !.ids = ids, !.reason = reason])
        PROVE  Goal
    <3>1. my'[d].attempt = round.attempt
      BY <2>3 DEF Keep, Blank, RInv, ReworkTypeOK
    <3> QED
      BY <1>0, <2>1, <2>3, <3>1, Going DEF LooksRound, Moved
  <2> QED
    BY <1>2, <1>3, <1>5, <2>1, <2>2, <2>3, GoingAway
<1>10. CASE Gate(d)
  BY <1>0, <1>10, Going DEF Gate, Moved
<1>11. CASE Inline(d)
  <2>1. Undecided /\ at[d] = "inline"
    BY <1>11 DEF Inline, Undecided, graph, history
  <2>2. \/ Claim(d, Completion(my[d].attempt), "pin", my[d])
        \/ Goto(d, "mark") /\ UNCHANGED <<my, locks>>
    BY <1>11 DEF Inline
  <2>3. my[d].attempt = round.attempt \/ Taken(Completion(my[d].attempt))
    BY <2>1 DEF DecidingInv
  <2> QED
    BY <1>2, <1>4, <1>5, <2>1, <2>2, <2>3, Going
<1>12. CASE Mark(d)
  <2>1. Undecided
    BY <1>12 DEF Mark, Undecided, graph, history
  <2>2. \/ Goto(d, "resume") /\ UNCHANGED <<my, locks>>
        \/ Claim(d, Completion(round.attempt), "refuse", Blank)
    BY <1>12 DEF Mark
  <2> QED
    BY <1>2, <1>4, <1>5, <2>1, <2>2, Going
<1>13. CASE Capture(d)
  <2>1. Undecided
    BY <1>13 DEF Capture, Undecided, graph, history
  <2>2. Goto(d, "declare") /\ locks' = locks /\ \E m : Keep(d, m)
    BY <1>13 DEF Capture
  <2> QED
    BY <1>4, <2>1, <2>2, Going
<1>14. CASE Declare(d)
  <2>1. Undecided
    BY <1>14 DEF Declare, Undecided, graph, history
  <2>2. Goto(d, "launch") /\ locks' = locks /\ \E m : Keep(d, m)
    BY <1>14 DEF Declare
  <2> QED
    BY <1>4, <2>1, <2>2, Going
<1>15. CASE Launch(d)
  <2>1. Undecided
    BY <1>15 DEF Launch, Undecided, graph, history
  <2>2. \/ Leave(d)
        \/ (Goto(d, "declare") \/ Goto(d, "record")) /\ UNCHANGED <<my, locks>>
    BY <1>15 DEF Launch
  <2> QED
    BY <1>3, <1>4, <2>1, <2>2, Going, GoingAway
<1>16. CASE Record(d)
  <2>1. Undecided
    BY <1>16 DEF Record, Undecided, history, RInv, ReworkTypeOK, RoundFields
  <2>2. Leave(d) \/ (Goto(d, "mark") /\ UNCHANGED <<my, locks>>)
    BY <1>16 DEF Record
  <2> QED
    BY <1>3, <1>4, <2>1, <2>2, Going, GoingAway
<1>17. CASE Pin(d)
  <2>1. Undecided /\ at[d] = "pin"
    BY <1>17 DEF Pin, Undecided, graph, history
  <2>2. \/ Goto(d, "settle") /\ locks' = locks /\ \E m : Keep(d, m)
        \/ Goto(d, "refuse") /\ UNCHANGED <<my, locks>>
    BY <1>17 DEF Pin
  <2>3. Goes(d, "settle") \/ Goes(d, "refuse")
    BY <2>2, Going
  <2> QED
    BY <1>0, <2>1, <2>3 DEF GoesOn, Moved
<1>18. CASE Settle(d)
  BY <1>0, <1>18, Going DEF Settle, Moved
<1>19. CASE Refuse(d) \/ Complete(d)
  BY <1>0, <1>19, GoingAway DEF Refuse, Complete, Moved
<1>20. CASE Promote(d)
  <2>1. Leave(d) \/ (Goto(d, "complete") /\ UNCHANGED <<my, locks>>)
    BY <1>20 DEF Promote
  <2> QED
    BY <1>0, <1>20, <2>1, Going, GoingAway DEF Moved
<1>21. CASE Fail(d)
  <2>1. Undecided /\ at[d] = "fail"
    BY <1>21 DEF Fail, Undecided, graph, history
  <2>2. /\ locks' = locks /\ (my' = my \/ \E m : Keep(d, m))
        /\ Goto(d, "refuse") \/ Goto(d, "resume") \/ Goto(d, "enter")
    BY <1>21 DEF Fail
  <2>3. Goes(d, "refuse") \/ Goes(d, "resume") \/ Goes(d, "enter")
    BY <2>2, Going
  <2> QED
    BY <1>0, <1>4, <2>1, <2>3 DEF GoesOn, Moved
<1>22. CASE Enter(d)
  <2>1. Undecided /\ at[d] = "enter"
    BY <1>22 DEF Enter, Undecided, graph, history
  <2>2. CASE Goto(d, "refuse") /\ UNCHANGED locks
    BY <1>0, <1>22, <2>1, <2>2, Going DEF Enter, GoesOn, Moved
  <2>3. CASE Goto(d, "spend") /\ locks' = Append(locks, RoundClaim(my[d].attempt + 1))
    <3>1. RoundClaim(my[d].attempt + 1) \in KeyType
      <4>1. my[d].attempt + 1 \in Nat
        BY <1>2
      <4> QED
        BY <4>1 DEF RoundClaim, KeyType
    <3>2. \A k : Taken(k) => Taken(k)'
      BY <2>3, <3>1, Appended DEF RInv, ReworkTypeOK
    <3>3. Goes(d, "spend")
      BY <1>22, <2>3, <3>2 DEF Enter, Goes, Goto
    <3> QED
      BY <1>0, <2>1, <3>3 DEF GoesOn, Moved
  <2> QED
    BY <1>22, <2>2, <2>3 DEF Enter
<1>23. CASE Spend(d)
  <2>1. Undecided /\ at[d] = "spend"
    BY <1>23 DEF Spend, Undecided, graph, history
  <2>2. Goto(d, "write") /\ locks' = locks /\ \E m : Keep(d, m)
    BY <1>23 DEF Spend
  <2> QED
    BY <1>0, <2>1, <2>2, Going DEF GoesOn, Moved
<1>24. CASE Write(d)
  BY <1>0, <1>24, Going DEF Write, Moved
<1>25. CASE Resume(d)
  <2>1. Undecided
    BY <1>25 DEF Resume, Undecided, graph, history
  <2>2. \/ Leave(d)
        \/ \E m : Claim(d, FixClaim(round.attempt), "declare", m)
        \/ \E m : \E next \in {"refuse", "pin", "enter"} :
               Claim(d, Completion(round.attempt), next, m)
        \/ /\ Goto(d, "guard") /\ UNCHANGED locks
           /\ Keep(d, [[Blank EXCEPT !.attempt = round.attempt, !.pin = round.pin,
                                     !.ids = round.ids, !.reason = "none"]
                       EXCEPT !.head = round.start])
    BY <1>25 DEF Resume
  <2>3. ASSUME Goto(d, "guard"), UNCHANGED locks,
               Keep(d, [[Blank EXCEPT !.attempt = round.attempt, !.pin = round.pin,
                                      !.ids = round.ids, !.reason = "none"]
                        EXCEPT !.head = round.start])
        PROVE  Goal
    <3>1. my'[d].attempt = round.attempt
      BY <2>3 DEF Keep, Blank, RInv, ReworkTypeOK
    <3> QED
      BY <1>0, <2>1, <2>3, <3>1, Going DEF LooksRound, Moved
  <2>4. ASSUME NEW m, Claim(d, FixClaim(round.attempt), "declare", m) PROVE Goal
    BY <1>2, <1>3, <1>4, <2>1, <2>4, Claiming
  <2> QED
    BY <1>2, <1>3, <1>5, <2>1, <2>2, <2>3, <2>4, GoingAway
<1>26. CASE Guard(d)
  <2>1. Undecided /\ at[d] = "guard"
    BY <1>26 DEF Guard, Undecided, graph, history
  <2>2. \/ Claim(d, Completion(my[d].attempt), "refuse", Blank)
        \/ \E m : Claim(d, RevalClaim(my[d].attempt), "declare", m)
    BY <1>26 DEF Guard
  <2>3. my[d].attempt = round.attempt \/ Taken(Completion(my[d].attempt))
    BY <2>1 DEF DecidingInv
  <2>4. ASSUME NEW m, Claim(d, RevalClaim(my[d].attempt), "declare", m) PROVE Goal
    BY <1>2, <1>3, <1>4, <2>1, <2>4, Claiming
  <2> QED
    BY <1>2, <1>5, <2>1, <2>2, <2>3, <2>4
<1> QED
  BY <1>6, <1>7, <1>8, <1>9, <1>10, <1>11, <1>12, <1>13, <1>14, <1>15, <1>16, <1>17,
     <1>18, <1>19, <1>20, <1>21, <1>22, <1>23, <1>24, <1>25, <1>26 DEF Step

\* Which drives decide, when a drive has moved.
LEMMA DecidersMove ==
    ASSUME RInv, DecidingInv, NEW d \in Drives, NEW next \in Places, Goes(d, next),
           round'.attempt = round.attempt,
           next \in Deciders => \/ at[d] \in Deciders
                                \/ /\ ~Taken(Completion(round.attempt))
                                   /\ Taken(Completion(round.attempt))',
           next \in Remembering => \/ my'[d].attempt = round.attempt
                                   \/ at[d] \in Remembering /\ my'[d].attempt = my[d].attempt
    PROVE  DecidingInv'
<1>1. at'[d] = next /\ \A e \in Drives \ {d} : at'[e] = at[e] /\ my'[e] = my[e]
  BY DEF Goes, RInv, ReworkTypeOK
<1>2. \A n : Taken(Completion(n)) => Taken(Completion(n))'
  BY DEF Goes, Completion
<1>3. \A e \in Drives : at'[e] \in Deciders => Taken(Completion(round.attempt))'
  BY <1>1, <1>2 DEF DecidingInv, Completion
<1>4. \A e, f \in Drives : at'[e] \in Deciders /\ at'[f] \in Deciders => e = f
  BY <1>1 DEF DecidingInv
<1>5. ASSUME NEW e \in Drives, at'[e] \in Remembering
      PROVE  my'[e].attempt = round'.attempt \/ Taken(Completion(my[e].attempt))'
  <2>1. CASE my'[e] = my[e] /\ at[e] \in Remembering
    BY <1>2, <2>1 DEF DecidingInv, Completion
  <2>2. CASE e = d /\ my'[d].attempt = round.attempt
    BY <2>2
  <2>3. CASE e = d /\ at[d] \in Remembering /\ my'[d].attempt = my[d].attempt
    <3>1. CASE my[d].attempt = round.attempt
      BY <2>3, <3>1
    <3>2. CASE Taken(Completion(my[d].attempt))
      BY <1>2, <2>3, <3>2 DEF Completion
    <3> QED
      BY <2>3, <3>1, <3>2 DEF DecidingInv
  <2> QED
    BY <1>1, <1>5, <2>1, <2>2, <2>3
<1> QED
  BY <1>3, <1>4, <1>5 DEF DecidingInv, Completion

LEMMA DrivesKeepDeciding ==
    ASSUME RInv, DInv, NEW d \in Drives, Begin(d) \/ Step(d) \/ Crash(d)
    PROVE  DecidingInv'
<1> USE DEF Judging, Deciders, Remembering
<1>1. DecidingInv /\ round.attempt \in Nat
  BY DEF DInv, RInv, ReworkTypeOK
<1>2. PICK next \in Places : Goes(d, next) /\ Moved(d, next)
  BY <1>1, DriveSteps
<1>3. at'[d] = next /\ \A e \in Drives \ {d} : at'[e] = at[e] /\ my'[e] = my[e]
  BY <1>2 DEF Goes, RInv, ReworkTypeOK
<1>4. CASE LooksRound(d, next) \/ Decides(d, next) \/ GoesOn(d, next)
  BY <1>1, <1>2, <1>4, DecidersMove DEF LooksRound, Decides, GoesOn, Undecided
<1>5. CASE Gate(d)
  <2>1. /\ next \in {"inline", "capture"} /\ at[d] = "gate" /\ my' = my
        /\ round'.attempt = round.attempt
    BY <1>3, <1>5 DEF Gate, Goto, RInv, ReworkTypeOK
  <2> QED
    BY <1>1, <1>2, <2>1, DecidersMove
<1>6. CASE Settle(d) \/ Refuse(d) \/ Promote(d) \/ Complete(d)
  <2>1. /\ next \in {"promote", "idle", "complete"} /\ at[d] \in Deciders
        /\ round'.attempt = round.attempt
    BY <1>3, <1>6 DEF Settle, Refuse, Promote, Complete, Leave, Goto, RInv, ReworkTypeOK
  <2> QED
    BY <1>1, <1>2, <2>1, DecidersMove
<1>7. CASE Write(d)
  <2>1. /\ next = "resume" /\ at[d] = "write" /\ locks' = locks
        /\ Taken(Completion(round.attempt))
    BY <1>1, <1>3, <1>7 DEF Write, Goto, RInv, ReworkTypeOK, DecidingInv
  <2>2. \A e \in Drives : at'[e] \notin Deciders
    BY <1>1, <1>3, <2>1 DEF DecidingInv
  <2>3. ASSUME NEW e \in Drives, at'[e] \in Remembering
        PROVE  Taken(Completion(my[e].attempt))'
    <3>1. at[e] \in Remembering /\ my'[e] = my[e]
      BY <1>3, <2>1, <2>3
    <3>2. Taken(Completion(my[e].attempt))
      BY <1>1, <2>1, <3>1 DEF DecidingInv, Completion
    <3> QED
      BY <2>1, <3>1, <3>2 DEF Taken, Completion
  <2> QED
    BY <2>2, <2>3 DEF DecidingInv
<1> QED
  BY <1>2, <1>4, <1>5, <1>6, <1>7 DEF Moved

LEMMA NoGateKept ==
    ASSUME RInv, NoGateInv, [Next]_vars
    PROVE  NoGateInv'
<1> SUFFICES ASSUME setting.gate = "none", setting' = setting PROVE NoGateInv'
  <2>1. setting' = setting
    BY DEF Next, Begin, Step, Crash, Check, Reread, Gate, Inline, Mark, Capture, Declare, Launch,
       Record, Pin, Settle, Refuse, Promote, Complete, Fail, Enter, Spend, Write, Resume, Guard,
       Clone, Verdict, Fix, CancelChild, Expire, Push, Cancel, Reap, vars
  <2> QED
    BY <2>1 DEF NoGateInv
<1> DEFINE P == {"idle", "check", "reread", "promote", "complete"}
<1>1. /\ status \notin {"validating", "reworking"} /\ \A d \in Drives : at[d] \in P
      /\ at \in [Drives -> Places]
  BY DEF NoGateInv, RInv, ReworkTypeOK
<1>2. ASSUME NEW d \in Drives, Begin(d) \/ Step(d) \/ Crash(d)
      PROVE  /\ status' \notin {"validating", "reworking"}
             /\ \E next \in P : at' = [at EXCEPT ![d] = next]
  <2>1. at[d] \in P /\ ~Begin(d)
    BY <1>1 DEF Begin
  <2>2. Check(d) \/ Reread(d) \/ Promote(d) \/ Complete(d) \/ Crash(d)
    BY <1>2, <2>1 DEF Step, Gate, Inline, Mark, Capture, Declare, Launch, Record, Pin, Settle,
       Refuse, Fail, Enter, Spend, Write, Resume, Guard
  <2>3. CASE Check(d)
    BY <1>1, <2>3 DEF Check, Leave, Goto, graph
  <2>4. CASE Reread(d)
    BY <1>1, <2>4 DEF Reread, Claim, Leave, Goto, graph
  <2>5. CASE Promote(d) \/ Complete(d) \/ Crash(d)
    BY <1>1, <2>5 DEF Promote, Complete, Crash, Leave, Goto, graph
  <2> QED
    BY <2>2, <2>3, <2>4, <2>5
<1>3. CASE \E d \in Drives : Begin(d) \/ Step(d) \/ Crash(d)
  BY <1>1, <1>2, <1>3 DEF NoGateInv
<1>4. CASE \/ \E c \in Kids : Clone(c) \/ Verdict(c) \/ Fix(c) \/ CancelChild(c)
           \/ Expire \/ Push \/ Cancel \/ Reap \/ UNCHANGED vars
  <2>1. at' = at /\ (status' = status \/ status' \in {"canceled", "failed"})
    BY <1>4 DEF Clone, Verdict, Fix, CancelChild, Expire, Push, Cancel, Reap, vars, graph
  <2> QED
    BY <1>1, <2>1 DEF NoGateInv
<1> QED
  BY <1>3, <1>4 DEF Next

\* The records of an end keep their types.
LEMMA EndTypes ==
    ASSUME RInv, DInv, [Next]_vars
    PROVE  cancelations' \in Nat /\ regated' \in BOOLEAN
<1>1. cancelations \in Nat /\ regated \in BOOLEAN
  BY DEF DInv
<1>2. /\ cancelations' \in {cancelations, cancelations + 1}
      /\ regated' = regated \/ regated' = (regated \/ status \notin {"active", "validating"})
  BY DEF Next, Begin, Step, Crash, Check, Reread, Gate, Inline, Mark, Capture, Declare, Launch,
     Record, Pin, Settle, Refuse, Promote, Complete, Fail, Enter, Spend, Write, Resume, Guard,
     Clone, Verdict, Fix, CancelChild, Expire, Push, Cancel, Reap, vars, faults, history
<1>3. cancelations' \in Nat
  BY <1>1, <1>2
<1>4. regated' \in BOOLEAN
  BY <1>1, <1>2
<1> QED
  BY <1>3, <1>4

\* A drive's step, seen from the end of the graph.
LEMMA DrivesKeepTheEnd ==
    ASSUME RInv, DInv, DecidingInv', NEW d \in Drives, Begin(d) \/ Step(d) \/ Crash(d), ~regated'
    PROVE  FinalInv'
<1> USE DEF Judging, Deciders
<1>1. DecidingInv /\ NoGateInv /\ round.attempt \in Nat
  BY DEF DInv, RInv, ReworkTypeOK
<1>2. UNCHANGED <<setting, cancelations>>
  BY <1>1, DriveSteps
<1>3. PICK next \in Places : Goes(d, next) /\ Moved(d, next)
  BY <1>1, DriveSteps
<1>4. /\ at'[d] = next /\ \A e \in Drives \ {d} : at'[e] = at[e]
      /\ \A n : Taken(Completion(n)) => Taken(Completion(n))'
  BY <1>3 DEF Goes, RInv, ReworkTypeOK, Completion
<1>5. ~regated
  BY DEF Begin, Step, Crash, Check, Reread, Gate, Inline, Mark, Capture, Declare, Launch, Record,
     Pin, Settle, Refuse, Promote, Complete, Fail, Enter, Spend, Write, Resume, Guard, history, DInv
<1>6. FinalInv
  BY <1>5 DEF DInv
\* A drive that is under way finds the completion key, where the end is sealed.
<1>7. Sealed => \/ Taken(Completion(round.attempt))
                \/ at[d] = "idle" /\ status \in {"validating", "reworking"}
  <2>1. CASE at[d] # "idle"
    BY <2>1 DEF Sealed, Quiet
  <2>2. CASE at[d] = "idle"
    BY <2>2 DEF Begin, Step, Crash, Check, Reread, Gate, Inline, Mark, Capture, Declare, Launch,
       Record, Pin, Settle, Refuse, Promote, Complete, Fail, Enter, Spend, Write, Resume, Guard
  <2> QED
    BY <2>1, <2>2
<1>8. promotions # <<>> => status \notin {"validating", "reworking"}
  BY <1>1, <1>6 DEF FinalInv, NoGateInv, Live
<1>9. CASE LooksRound(d, next) \/ Decides(d, next) \/ GoesOn(d, next)
  <2>1. Undecided /\ round'.attempt = round.attempt
    BY <1>9 DEF LooksRound, Decides, GoesOn, Undecided
  <2>2. next \in Deciders =>
            \/ at[d] \in Deciders /\ next \notin {"promote", "complete"}
            \/ /\ ~Taken(Completion(round.attempt)) /\ next # "complete"
               /\ next = "promote" => setting.gate = "none"
    BY <1>9 DEF LooksRound, Decides, GoesOn
  <2>3. Taken(Completion(round.attempt)) => Taken(Completion(round.attempt))'
    BY <1>4, <2>1 DEF Completion, Taken
  <2>4. ASSUME cancelations' = 0, status' \in {"validation_failed", "failed"}
        PROVE  Sealed' /\ \A e \in Drives : at'[e] \notin Deciders
    <3>1. Taken(Completion(round.attempt)) /\ \A e \in Drives : at[e] \notin Deciders
      BY <1>2, <1>6, <1>7, <2>1, <2>4 DEF FinalInv, Undecided
    <3> QED
      BY <1>4, <2>2, <2>3, <3>1 DEF Sealed
  <2>5. ASSUME NEW e \in Drives, at'[e] = "promote", setting'.gate # "none"
        PROVE  status' \notin Live
    BY <1>2, <1>4, <1>6, <2>1, <2>2, <2>5 DEF FinalInv, Undecided
  <2>6. ASSUME promotions' # <<>>
        PROVE  /\ Len(promotions') = 1 /\ Sealed'
               /\ \A e \in Drives : at'[e] \in Deciders => at'[e] = "complete"
               /\ setting'.gate # "none" => status' \notin Live
    <3>1. /\ promotions # <<>> /\ Len(promotions') = 1
          /\ setting'.gate # "none" => status' \notin Live
      BY <1>2, <1>6, <2>1, <2>6 DEF FinalInv, Undecided
    <3>2. /\ Taken(Completion(round.attempt))
          /\ \A e \in Drives : at[e] \in Deciders => at[e] = "complete"
      BY <1>6, <1>7, <1>8, <3>1 DEF FinalInv
    <3>3. next \in Deciders => at[d] = "complete" /\ Undecided
      BY <2>1, <2>2, <3>2
    <3>4. next \notin Deciders
      <4>1. CASE at[d] = "complete"
        BY <4>1, <1>1, <1>4, <2>1, <3>2 DEF Begin, Step, Crash, Check, Reread, Gate, Inline, Mark,
           Capture, Declare, Launch, Record, Pin, Settle, Refuse, Promote, Complete, Fail, Enter,
           Spend, Write, Resume, Guard, Leave, Goto, RInv, ReworkTypeOK
      <4> QED
        BY <3>3, <4>1
    <3> QED
      BY <1>4, <2>3, <3>1, <3>2, <3>4 DEF Sealed
  <2> QED
    BY <2>4, <2>5, <2>6 DEF FinalInv
<1>10. CASE Gate(d)
  <2>1. /\ status \in {"active", "validating"} /\ status' = "validating" /\ at[d] = "gate"
        /\ next \in {"inline", "capture"} /\ promotions' = promotions
    BY <1>3, <1>4, <1>10 DEF Gate, Goto, RInv, ReworkTypeOK
  <2>2. promotions = <<>> /\ setting.gate # "none"
    BY <1>1, <1>6, <2>1 DEF FinalInv, NoGateInv, Live
  <2>3. \A e \in Drives : at'[e] # "promote"
    BY <1>4, <1>6, <2>1, <2>2 DEF FinalInv, Live
  <2> QED
    BY <2>1, <2>2, <2>3 DEF FinalInv
\* The drive that decides is alone with the decision.
<1>11. ASSUME at[d] \in Deciders
       PROVE  /\ \A e \in Drives \ {d} : at'[e] \notin Deciders
              /\ round' = round => Taken(Completion(round.attempt))'
              /\ at[d] # "complete" => promotions = <<>>
  <2>1. \A e \in Drives : at[e] \in Deciders => e = d
    BY <1>1, <1>11 DEF DecidingInv
  <2>2. \A e \in Drives \ {d} : at'[e] \notin Deciders
    BY <1>4, <2>1
  <2>3. Taken(Completion(round.attempt))
    BY <1>1, <1>11 DEF DecidingInv
  <2>4. round' = round => Taken(Completion(round.attempt))'
    BY <1>1, <1>4, <2>3 DEF Taken, Completion
  <2>5. at[d] # "complete" => promotions = <<>>
    BY <1>6, <1>11 DEF FinalInv
  <2> QED
    BY <2>2, <2>4, <2>5
<1>12. CASE Settle(d)
  <2>1. /\ at[d] = "settle" /\ next = "promote" /\ status' = "validated"
        /\ promotions' = promotions
    BY <1>3, <1>4, <1>12 DEF Settle, Goto, RInv, ReworkTypeOK, history
  <2> QED
    BY <1>11, <2>1 DEF FinalInv, Live
<1>13. CASE Refuse(d)
  <2>1. /\ at[d] = "refuse" /\ next = "idle" /\ status' = "validation_failed"
        /\ UNCHANGED <<promotions, round>>
    BY <1>3, <1>4, <1>13 DEF Refuse, Leave, Goto, RInv, ReworkTypeOK, history
  <2>2. \A e \in Drives : at'[e] \notin Deciders
    BY <1>4, <1>11, <2>1
  <2>3. Taken(Completion(round.attempt))' /\ promotions' = <<>>
    BY <1>11, <2>1
  <2> QED
    BY <2>1, <2>2, <2>3 DEF FinalInv, Sealed
<1>14. CASE Promote(d)
  <2>1. /\ at[d] = "promote" /\ UNCHANGED <<round, setting>>
        /\ next \in {"idle", "complete"}
        /\ \/ promotions' = promotions /\ status' = "failed" /\ next = "idle"
           \/ (\E p : promotions' = Append(promotions, p)) /\ status' = status
    BY <1>2, <1>3, <1>4, <1>14 DEF Promote, Leave, Goto, RInv, ReworkTypeOK
  <2>2. /\ \A e \in Drives : at'[e] \in Deciders => at'[e] = "complete"
        /\ Taken(Completion(round.attempt))' /\ promotions = <<>>
        /\ setting.gate # "none" => status \notin Live
    BY <1>4, <1>6, <1>11, <2>1 DEF FinalInv
  <2>3. promotions' # <<>> => Len(promotions') = 1
    <3>1. ASSUME NEW p, promotions' = Append(promotions, p) PROVE Len(promotions') = 1
      BY <2>2, <3>1
    <3> QED
      BY <2>1, <2>2, <3>1
  <2>4. status' \in {"validation_failed", "failed"} /\ cancelations' = 0 =>
            \A e \in Drives : at'[e] \notin Deciders
    <3>1. CASE status' = "failed" /\ next = "idle"
      BY <1>4, <1>11, <2>1, <3>1
    <3>2. CASE status' = status
      BY <1>2, <1>6, <2>1, <3>2 DEF FinalInv
    <3> QED
      BY <2>1, <3>1, <3>2
  <2> QED
    BY <2>1, <2>2, <2>3, <2>4 DEF FinalInv, Sealed, Live
<1>15. CASE Complete(d)
  <2>1. /\ at[d] = "complete" /\ next = "idle" /\ status' = "completed"
        /\ UNCHANGED <<promotions, round>>
    BY <1>3, <1>4, <1>15 DEF Complete, Leave, Goto, RInv, ReworkTypeOK, history
  <2>2. \A e \in Drives : at'[e] \notin Deciders
    BY <1>4, <1>11, <2>1
  <2>3. Taken(Completion(round.attempt))'
    BY <1>11, <2>1
  <2>4. promotions' # <<>> => Len(promotions') = 1
    BY <1>6, <2>1 DEF FinalInv
  <2> QED
    BY <2>1, <2>2, <2>3, <2>4 DEF FinalInv, Sealed, Live
<1>16. CASE Write(d)
  <2>1. at[d] = "write" /\ next = "resume" /\ status' = "reworking" /\ promotions' = promotions
    BY <1>3, <1>4, <1>16 DEF Write, Goto, RInv, ReworkTypeOK, history
  <2>2. \A e \in Drives : at'[e] \notin Deciders
    BY <1>4, <1>11, <2>1
  <2> QED
    BY <1>11, <2>1, <2>2 DEF FinalInv
<1> QED
  BY <1>3, <1>9, <1>10, <1>12, <1>13, <1>14, <1>15, <1>16 DEF Moved

\* What is no drive's step, seen from the end of the graph.
LEMMA OthersKeepTheEnd ==
    ASSUME RInv, DInv,
           \/ \E c \in Kids : Clone(c) \/ Verdict(c) \/ Fix(c) \/ CancelChild(c)
           \/ Expire \/ Push \/ Cancel \/ Reap \/ UNCHANGED vars
    PROVE  DecidingInv' /\ (~regated' => FinalInv')
<1> USE DEF Judging, Deciders, Remembering
<1>1. /\ UNCHANGED <<at, my, promotions, regated, setting, round>>
      /\ cancelations' \in {cancelations, cancelations + 1} /\ cancelations \in Nat
  BY DEF Clone, Verdict, Fix, CancelChild, Expire, Push, Cancel, Reap, vars, graph, history, faults,
         DInv
<1>2. locks' = locks \/ (Quiet /\ locks # <<>> /\ status \notin Terminal /\ status' = status)
  BY DEF Clone, Verdict, Fix, CancelChild, Expire, Push, Cancel, Reap, vars, graph
<1>3. \/ status' = status /\ cancelations' \in {cancelations, cancelations + 1}
      \/ cancelations' = cancelations + 1 /\ status' = "canceled"
      \/ Quiet /\ status' = "failed"
  BY DEF Clone, Verdict, Fix, CancelChild, Expire, Push, Cancel, Reap, vars, graph, faults
<1>4. locks' = locks => \A n : Taken(Completion(n))' = Taken(Completion(n))
  BY DEF Taken, Completion
<1>5. Quiet' = Quiet /\ (Quiet => \A d \in Drives : at[d] \notin Deciders \cup Remembering)
  BY <1>1 DEF Quiet
<1>6. DecidingInv'
  <2>1. CASE locks' = locks
    BY <1>1, <2>1 DEF DInv, DecidingInv, Taken, Completion
  <2>2. CASE Quiet
    BY <1>1, <1>5, <2>2 DEF DecidingInv
  <2> QED
    BY <1>2, <2>1, <2>2
<1>7. Sealed => Sealed'
  BY <1>1, <1>2, <1>5 DEF Sealed, Taken, Completion
<1>8. ASSUME ~regated' PROVE FinalInv'
  <2>1. FinalInv
    BY <1>1, <1>8 DEF DInv
  <2>2. ASSUME cancelations' = 0, status' \in {"validation_failed", "failed"}
        PROVE  Sealed' /\ \A d \in Drives : at'[d] \notin Deciders
    <3>1. cancelations = 0
      BY <1>1, <2>2
    <3>2. CASE status' = status
      BY <1>1, <1>7, <2>1, <2>2, <3>1, <3>2 DEF FinalInv
    <3>3. CASE Quiet
      BY <1>1, <1>5, <3>3 DEF Sealed
    <3> QED
      BY <1>1, <1>3, <2>2, <3>2, <3>3
  <2>3. status \notin Live => status' \notin Live
    BY <1>3 DEF Live
  <2>4. ASSUME promotions' # <<>>
        PROVE  /\ Len(promotions') = 1 /\ Sealed'
               /\ \A d \in Drives : at'[d] \in Deciders => at'[d] = "complete"
               /\ setting'.gate # "none" => status' \notin Live
    BY <1>1, <1>7, <2>1, <2>3, <2>4 DEF FinalInv
  <2>5. \A d \in Drives : at'[d] = "promote" /\ setting'.gate # "none" => status' \notin Live
    BY <1>1, <2>1, <2>3 DEF FinalInv
  <2> QED
    BY <2>2, <2>4, <2>5 DEF FinalInv
<1> QED
  BY <1>6, <1>8

LEMMA EndsInitially == Init => DInv
<1> SUFFICES ASSUME Init PROVE DInv
  OBVIOUS
<1>1. /\ \A d \in Drives : at[d] \in {"check", "idle"}
      /\ status = "active" /\ promotions = <<>> /\ cancelations = 0 /\ regated = FALSE
  BY DEF Init
<1>2. DecidingInv /\ NoGateInv /\ FinalInv
  BY <1>1 DEF DecidingInv, NoGateInv, FinalInv, Deciders, Judging, Remembering
<1> QED
  BY <1>1, <1>2 DEF DInv

LEMMA EndsKept == RInv /\ DInv /\ [Next]_vars => DInv'
<1> SUFFICES ASSUME RInv, DInv, [Next]_vars PROVE DInv'
  OBVIOUS
<1>1. cancelations' \in Nat /\ regated' \in BOOLEAN /\ NoGateInv'
  BY EndTypes, NoGateKept DEF DInv
<1>2. CASE \E d \in Drives : Begin(d) \/ Step(d) \/ Crash(d)
  <2>1. DecidingInv' /\ (~regated' => FinalInv')
    BY <1>2, DrivesKeepDeciding, DrivesKeepTheEnd
  <2> QED
    BY <1>1, <2>1 DEF DInv
<1>3. CASE \/ \E c \in Kids : Clone(c) \/ Verdict(c) \/ Fix(c) \/ CancelChild(c)
           \/ Expire \/ Push \/ Cancel \/ Reap \/ UNCHANGED vars
  <2>1. DecidingInv' /\ (~regated' => FinalInv')
    BY <1>3, OthersKeepTheEnd
  <2> QED
    BY <1>1, <2>1 DEF DInv
<1> QED
  BY <1>2, <1>3 DEF Next

LEMMA RefusedStays ==
    ASSUME RInv, DInv, [Next]_vars,
           ~regated', cancelations' = 0, status \in {"validation_failed", "failed"}
    PROVE  status' = status /\ promotions' = promotions
<1> USE DEF Judging, Deciders
<1>1. CASE \/ \E c \in Kids : Clone(c) \/ Verdict(c) \/ Fix(c) \/ CancelChild(c)
           \/ Expire \/ Push \/ Cancel \/ Reap \/ UNCHANGED vars
  <2>1. promotions' = promotions
    BY <1>1 DEF Clone, Verdict, Fix, CancelChild, Expire, Push, Cancel, Reap, vars, history
  <2>2. status' = status \/ cancelations' = cancelations + 1
    BY <1>1 DEF Clone, Verdict, Fix, CancelChild, Expire, Push, Cancel, Reap, vars, graph
  <2>3. cancelations' # cancelations + 1
    BY DEF DInv
  <2> QED
    BY <2>1, <2>2, <2>3
<1>2. ASSUME NEW d \in Drives, Begin(d) \/ Step(d) \/ Crash(d)
      PROVE  status' = status /\ promotions' = promotions
  <2>1. DecidingInv
    BY DEF DInv
  <2>2. PICK next \in Places : Goes(d, next) /\ Moved(d, next)
    BY <1>2, <2>1, DriveSteps
  <2>3. cancelations = 0
    BY <1>2, <2>1, DriveSteps
  <2>4. ~Gate(d) /\ ~regated
    <3>1. ~Gate(d)
      BY DEF Gate
    <3>2. regated' = regated
      BY <2>2, <3>1 DEF Moved, LooksRound, Decides, GoesOn, Undecided, Settle, Refuse,
         Promote, Complete, Write, history
    <3> QED
      BY <3>1, <3>2
  <2>5. at[d] \notin Deciders
    BY <2>3, <2>4 DEF DInv, FinalInv
  <2>6. ~Settle(d) /\ ~Refuse(d) /\ ~Promote(d) /\ ~Complete(d) /\ ~Write(d)
    BY <2>5 DEF Settle, Refuse, Promote, Complete, Write
  <2> QED
    BY <2>2, <2>4, <2>6 DEF Moved, LooksRound, Decides, GoesOn, Undecided
<1> QED
  BY <1>1, <1>2 DEF Next

\* However many drives are under way, and whatever crashes: once a graph has been
\* refused, no drive overwrites the verdict and nothing of it is promoted, unless
\* somebody cancels it or it is gated again (resolveReworkTerminal, task-graph.ts).
THEOREM RefusalIsAlwaysFinal == Spec => RefusalIsFinal
<1>1. RInv /\ DInv /\ [Next]_vars =>
        [~regated' /\ cancelations' = 0 /\ status \in {"validation_failed", "failed"} =>
             status' = status /\ promotions' = promotions]_vars
  BY RefusedStays
<1> QED
  BY ReworkInitially, ReworkSteps, EndsInitially, EndsKept, <1>1, PTL DEF Spec, RefusalIsFinal

-----------------------------------------------------------------------------
(* What is promoted is what was judged                                      *)
(*                                                                          *)
(* The pin is read before the first child of a gate is declared, children   *)
(* clone later, and the head only moves on: where the head still is the pin *)
(* when a verdict is acted upon, the children under that pin have cloned    *)
(* that very head.  No child has a verdict while its gate is being          *)
(* dispatched, so where all have passed, all have been declared.            *)

Gated == {"exec", "mixed"}
AtWork == {"declare", "launch", "record"}
Crits(ids) == {children[i].criterion : i \in ids}
Since(i, h) ==
    children[i].kind # "fix" /\ (children[i].st \in {"cloned", "passed"} => h <= children[i].head)
FailedKid == \E i \in Kids : children[i].st \in Failed

Childless == {"idle", "check", "reread", "gate", "inline", "mark", "pin", "settle", "refuse",
              "promote", "complete"}

\* Without a gate of child graphs there are no children, and inline criteria alone decide
\* only there.
ChildlessInv ==
    /\ \A d \in Drives : at[d] = "inline" => setting.gate \notin Gated
    /\ setting.gate \notin Gated =>
           /\ children = <<>> /\ status # "reworking"
           /\ \A d \in Drives : at[d] \in Childless

\* A round, and so a fix, comes after a failure, and a gate's children come together,
\* unless the engine dies that is declaring them.
KidsInv ==
    /\ \A i \in Kids : children[i].criterion \in Criteria /\ children[i].head <= head
    /\ Kids # {} => \E i \in Kids : children[i].kind # "fix"
    /\ \/ FailedKid
       \/ /\ status # "reworking" /\ round.attempt = 0
          /\ \A d \in Drives : at[d] \notin Judging /\ ~Fixing(d)
    /\ \A i \in Kids : \/ children[i].kind = "fix" \/ crashes > 0
                       \/ Criteria \subseteq Crits(Kids)
                       \/ \E d \in Drives : at[d] \in AtWork /\ i \in my[d].ids

\* A drive at work has declared the criteria from the last one down, its children have
\* no verdict yet and have cloned nothing older than the head it has read.
Working(d) ==
    /\ my[d].ids \subseteq Kids
    /\ my[d].todo \in 0 .. setting.criteria
    /\ at[d] = "declare" => my[d].todo > 0
    /\ at[d] = "record" => my[d].todo = 0 /\ my[d].kind # "fix"
    /\ at[d] = "launch" => \E i \in my[d].ids : children[i].st = "empty"
    /\ my[d].kind = "fix" =>
           my[d].head \notin Nat /\ \A i \in my[d].ids : children[i].kind = "fix"
    /\ my[d].kind # "fix" => Crits(my[d].ids) = (my[d].todo + 1) .. setting.criteria
    /\ \A i \in my[d].ids : children[i].st \notin {"passed", "fixable"}
    /\ my[d].head \in Nat =>
           my[d].head <= head /\ \A i \in my[d].ids : Since(i, my[d].head)

WorkInv ==
    /\ \A d \in Drives : at[d] \in {"gate", "inline", "capture"} => my[d].ids = {}
    /\ \A d \in Drives : at[d] \in AtWork => Working(d)
    /\ \A d, e \in Drives :
           at[d] \in AtWork /\ at[e] \in AtWork /\ d # e => my[d].ids \cap my[e].ids = {}

\* For each criterion one of the children named has not cloned an older head than h.
Covered(ids, h) ==
    h <= head /\ \A c \in Criteria : \E i \in ids : children[i].criterion = c /\ Since(i, h)

\* A recorded pin covers the children it has been recorded for.
PinsInv ==
    /\ dispatchHead \in Nat => Covered(Kids, dispatchHead)
    /\ round.ids \subseteq Kids /\ (round.ids # {} => Crits(round.ids) = Criteria)
    /\ round.pin \in Nat => Covered(round.ids, round.pin)

\* A drive on its way to a promotion has children that passed, on each criterion, and
\* one for each on the head that it compared with the pin.
Judged(d) ==
    /\ my[d].ids \subseteq Kids /\ \A i \in my[d].ids : children[i].st = "passed"
    /\ setting.gate \in Gated /\ (my[d].attempt > 0 \/ crashes = 0) =>
           Crits(my[d].ids) = Criteria
    /\ my[d].pin \in Nat /\ at[d] = "pin" =>
           \A i \in my[d].ids : \E j \in my[d].ids :
               children[j].criterion = children[i].criterion /\ my[d].pin <= children[j].head
    /\ my[d].pin \in Nat /\ my[d].head \in Nat /\ at[d] # "pin" =>
           \A i \in my[d].ids : \E j \in my[d].ids :
               children[j].criterion = children[i].criterion /\ children[j].head = my[d].head

JudgedInv == \A d \in Drives : at[d] \in {"pin", "settle", "promote"} => Judged(d)

JInv ==
    /\ crashes \in Nat /\ promotions \in Seq(Range(promotions))
    /\ ChildlessInv /\ KidsInv /\ WorkInv /\ PinsInv /\ JudgedInv
    /\ PinIsWhatWasJudged /\ EveryCriterionJudged

-----------------------------------------------------------------------------
(* How children change *)

\* A child is dispatched, clones, has its verdict or is canceled.
Turned(c) ==
    /\ children'[c].kind = children[c].kind /\ children'[c].attempt = children[c].attempt
    /\ children'[c].criterion = children[c].criterion
    /\ \/ /\ children[c].st = "live" /\ children'[c].st = "cloned"
          /\ children[c].kind # "fix" /\ children'[c].head = head
       \/ /\ children'[c].head = children[c].head
          /\ \/ children[c].st = "empty" /\ children'[c].st \in {"live", "failed"}
             \/ children[c].st = "cloned" /\ children'[c].st \in {"passed", "fixable", "failed"}
             \/ /\ children[c].kind = "fix"
                /\ children[c].st = "live" /\ children'[c].st \in {"passed", "failed"}
             \/ children[c].st \in {"live", "cloned"} /\ children'[c].st = "canceled"

OneTurned(c) ==
    Kids' = Kids /\ (\A i \in Kids \ {c} : children'[i] = children[i]) /\ Turned(c)

LEMMA StatusSet ==
    ASSUME children \in Seq(KidType), NEW c \in Kids, NEW st,
           children' = [children EXCEPT ![c].st = st]
    PROVE  /\ Kids' = Kids /\ \A i \in Kids \ {c} : children'[i] = children[i]
           /\ children'[c].kind = children[c].kind /\ children'[c].attempt = children[c].attempt
           /\ children'[c].criterion = children[c].criterion
           /\ children'[c].st = st /\ children'[c].head = children[c].head
<1>1. children[c] \in KidType
  BY DEF Kids
<1>2. children'[c] = [children[c] EXCEPT !.st = st]
  BY DEF Kids
<1>3. Kids' = Kids /\ \A i \in Kids \ {c} : children'[i] = children[i]
  BY DEF Kids
<1> QED
  BY <1>1, <1>2, <1>3 DEF KidType

LEMMA CloneSet ==
    ASSUME children \in Seq(KidType), NEW c \in Kids, head \in Nat,
           children' = [children EXCEPT ![c].st = "cloned", ![c].head = head]
    PROVE  /\ Kids' = Kids /\ \A i \in Kids \ {c} : children'[i] = children[i]
           /\ children'[c].kind = children[c].kind /\ children'[c].attempt = children[c].attempt
           /\ children'[c].criterion = children[c].criterion
           /\ children'[c].st = "cloned" /\ children'[c].head = head
<1>1. children[c] \in KidType
  BY DEF Kids
<1>2. children'[c] = [children[c] EXCEPT !.st = "cloned", !.head = head]
  BY DEF Kids
<1>3. Kids' = Kids /\ \A i \in Kids \ {c} : children'[i] = children[i]
  BY DEF Kids
<1>4. children'[c] = [k \in {"kind", "attempt", "criterion", "st", "head"} |->
                          IF k = "st" THEN "cloned" ELSE IF k = "head" THEN head ELSE children[c][k]]
  BY <1>1, <1>2 DEF KidType
<1>5. children'[c].st = "cloned"
  BY <1>4
<1>6. children'[c].head = head
  BY <1>4
<1>7. children'[c].kind = children[c].kind
  BY <1>4
<1>8. children'[c].attempt = children[c].attempt
  BY <1>4
<1>9. children'[c].criterion = children[c].criterion
  BY <1>4
<1> QED
  BY <1>3, <1>5, <1>6, <1>7, <1>8, <1>9

\* The child that a drive launches is one of its own that has no task yet.
LEMMA Launched ==
    ASSUME RInv, WorkInv, NEW d \in Drives, Launch(d)
    PROVE  \E c \in my[d].ids : c \in Kids /\ children[c].st = "empty" /\ OneTurned(c)
<1>1. /\ my[d].ids \subseteq Kids /\ \E i \in my[d].ids : children[i].st = "empty"
      /\ children \in Seq(KidType)
  BY DEF Launch, WorkInv, Working, AtWork, RInv, ReworkTypeOK
<1> DEFINE c == CHOOSE i \in my[d].ids : children[i].st = "empty"
<1>2. c \in my[d].ids /\ children[c].st = "empty" /\ c \in Kids
  BY <1>1
<1>3. PICK st \in {"live", "failed"} : children' = [children EXCEPT ![c].st = st]
  BY DEF Launch
<1> HIDE DEF c
<1>4. /\ Kids' = Kids /\ \A i \in Kids \ {c} : children'[i] = children[i]
      /\ children'[c].kind = children[c].kind /\ children'[c].attempt = children[c].attempt
      /\ children'[c].criterion = children[c].criterion
      /\ children'[c].st = st /\ children'[c].head = children[c].head
  BY <1>1, <1>2, <1>3, StatusSet
<1> QED
  BY <1>2, <1>3, <1>4 DEF OneTurned, Turned

LEMMA Declared ==
    ASSUME RInv, NEW d \in Drives, Declare(d)
    PROVE  LET n == Len(children) + 1
           IN  /\ Kids' = Kids \cup {n} /\ n \notin Kids
               /\ \A i \in Kids : children'[i] = children[i]
               /\ children'[n].kind = my[d].kind /\ children'[n].attempt = my[d].attempt
               /\ children'[n].criterion = my[d].todo
               /\ children'[n].st = "empty" /\ children'[n].head = 0
               /\ my'[d].ids = my[d].ids \cup {n} /\ my'[d].todo = my[d].todo - 1
               /\ my'[d].kind = my[d].kind /\ my'[d].head = my[d].head
<1>1. children \in Seq(KidType) /\ IsMemory(my[d]) /\ my = [e \in Drives |-> my[e]]
  BY DEF RInv, ReworkTypeOK
<1> DEFINE kid == [kind |-> my[d].kind, attempt |-> my[d].attempt,
                   criterion |-> my[d].todo, st |-> "empty", head |-> 0]
<1>2. kid \in KidType
  BY <1>1 DEF KidType, IsMemory
<1>3. children' = Append(children, kid)
  BY DEF Declare
<1>4. /\ Kids' = Kids \cup {Len(children) + 1} /\ Len(children) + 1 \notin Kids
      /\ \A i \in Kids : children'[i] = children[i]
      /\ children'[Len(children) + 1] = kid
  <2> HIDE DEF kid
  <2> QED
    BY <1>1, <1>2, <1>3 DEF Kids
<1>5. my'[d] = [my[d] EXCEPT !.ids = @ \cup {Len(children) + 1}, !.todo = @ - 1]
  BY <1>1 DEF Declare, Keep
<1>6. /\ my'[d].ids = my[d].ids \cup {Len(children) + 1} /\ my'[d].todo = my[d].todo - 1
      /\ my'[d].kind = my[d].kind /\ my'[d].head = my[d].head
  BY <1>1, <1>5 DEF IsMemory, MemoryFields
<1> QED
  BY <1>4, <1>6

\* No other step of a drive touches the children.
LEMMA DriveChildren ==
    ASSUME NEW d \in Drives, Begin(d) \/ Step(d) \/ Crash(d), ~Declare(d), ~Launch(d)
    PROVE  children' = children
  BY DEF Begin, Step, Crash, Check, Reread, Gate, Inline, Mark, Capture, Record, Pin, Settle,
         Refuse, Promote, Complete, Fail, Enter, Spend, Write, Resume, Guard

\* A child's own step.
LEMMA ChildTurns ==
    ASSUME RInv, NEW c \in Kids, Clone(c) \/ Verdict(c) \/ Fix(c) \/ CancelChild(c)
    PROVE  OneTurned(c)
<1>1. children \in Seq(KidType) /\ head \in Nat
  BY DEF RInv, ReworkTypeOK
<1>2. CASE Clone(c)
  <2>1. children' = [children EXCEPT ![c].st = "cloned", ![c].head = head]
    BY <1>2 DEF Clone
  <2> QED
    <3>1. /\ Kids' = Kids /\ \A i \in Kids \ {c} : children'[i] = children[i]
          /\ children'[c].kind = children[c].kind /\ children'[c].attempt = children[c].attempt
          /\ children'[c].criterion = children[c].criterion
          /\ children'[c].st = "cloned" /\ children'[c].head = head
      BY <1>1, <2>1, CloneSet
    <3> QED
      BY <1>2, <2>1, <3>1 DEF OneTurned, Turned, Clone
<1>3. CASE Verdict(c)
  <2>1. PICK st \in {"passed", "fixable", "failed"} : children' = [children EXCEPT ![c].st = st]
    BY <1>3 DEF Verdict, Failed
  <2> QED
    <3>1. /\ Kids' = Kids /\ \A i \in Kids \ {c} : children'[i] = children[i]
          /\ children'[c].kind = children[c].kind /\ children'[c].attempt = children[c].attempt
          /\ children'[c].criterion = children[c].criterion
          /\ children'[c].st = st /\ children'[c].head = children[c].head
      BY <1>1, <2>1, StatusSet
    <3> QED
      BY <1>3, <2>1, <3>1 DEF OneTurned, Turned, Verdict
<1>4. CASE Fix(c)
  <2>1. PICK st \in {"passed", "failed"} : children' = [children EXCEPT ![c].st = st]
    BY <1>4 DEF Fix
  <2> QED
    <3>1. /\ Kids' = Kids /\ \A i \in Kids \ {c} : children'[i] = children[i]
          /\ children'[c].kind = children[c].kind /\ children'[c].attempt = children[c].attempt
          /\ children'[c].criterion = children[c].criterion
          /\ children'[c].st = st /\ children'[c].head = children[c].head
      BY <1>1, <2>1, StatusSet
    <3> QED
      BY <1>4, <2>1, <3>1 DEF OneTurned, Turned, Fix
<1>5. CASE CancelChild(c)
  <2>1. children' = [children EXCEPT ![c].st = "canceled"]
    BY <1>5 DEF CancelChild
  <2> QED
    <3>1. /\ Kids' = Kids /\ \A i \in Kids \ {c} : children'[i] = children[i]
          /\ children'[c].kind = children[c].kind /\ children'[c].attempt = children[c].attempt
          /\ children'[c].criterion = children[c].criterion
          /\ children'[c].st = "canceled" /\ children'[c].head = children[c].head
      BY <1>1, <2>1, StatusSet
    <3> QED
      BY <1>5, <2>1, <3>1 DEF OneTurned, Turned, CancelChild
<1> QED
  BY <1>2, <1>3, <1>4, <1>5

\* What is never taken back.
Advance ==
    /\ setting' = setting /\ crashes' \in {crashes, crashes + 1}
    /\ head' \in {head, head + 1} /\ Kids \subseteq Kids'
    /\ \A i \in Kids :
           /\ children'[i].kind = children[i].kind
           /\ children'[i].criterion = children[i].criterion
           /\ children[i].st = "passed" =>
                  children'[i].st = "passed" /\ children'[i].head = children[i].head
           /\ children[i].st \in Failed => children'[i].st = children[i].st
           /\ children'[i].head \in {children[i].head, head}
           /\ children'[i].st \in {"cloned", "passed"} =>
                  \/ children[i].st \in {"cloned", "passed"} /\ children'[i].head = children[i].head
                  \/ children[i].kind # "fix" /\ children'[i].head = head
                  \/ children[i].kind = "fix" /\ children[i].st = "live"

LEMMA Advances ==
    ASSUME RInv, WorkInv, [Next]_vars PROVE Advance
<1>1. /\ setting' = setting /\ crashes' \in {crashes, crashes + 1} /\ head' \in {head, head + 1}
  BY DEF Next, Begin, Step, Crash, Check, Reread, Gate, Inline, Mark, Capture, Declare, Launch,
     Record, Pin, Settle, Refuse, Promote, Complete, Fail, Enter, Spend, Write, Resume, Guard,
     Clone, Verdict, Fix, CancelChild, Expire, Push, Cancel, Reap, vars, faults
<1>2. CASE children' = children
  BY <1>1, <1>2 DEF Advance, Kids
<1>3. ASSUME NEW c \in Kids, OneTurned(c) PROVE Advance
  BY <1>1, <1>3 DEF Advance, OneTurned, Turned, Failed
<1>4. ASSUME NEW d \in Drives, Declare(d) PROVE Advance
  BY <1>1, <1>4, Declared DEF Advance
<1>5. ASSUME NEW d \in Drives, Begin(d) \/ Step(d) \/ Crash(d) PROVE Advance
  BY <1>2, <1>3, <1>4, <1>5, Launched, DriveChildren
<1>6. ASSUME NEW c \in Kids, Clone(c) \/ Verdict(c) \/ Fix(c) \/ CancelChild(c) PROVE Advance
  BY <1>3, <1>6, ChildTurns
<1>7. CASE Expire \/ Push \/ Cancel \/ Reap \/ UNCHANGED vars
  BY <1>2, <1>7 DEF Expire, Push, Cancel, Reap, vars
<1> QED
  BY <1>5, <1>6, <1>7 DEF Next

-----------------------------------------------------------------------------
LEMMA JudgedInitially == Init => JInv
<1> SUFFICES ASSUME Init PROVE JInv
  OBVIOUS
<1>1. /\ \A d \in Drives : at[d] \in {"check", "idle"}
      /\ status = "active" /\ promotions = <<>> /\ crashes = 0 /\ children = <<>>
      /\ dispatchHead \notin Nat /\ round = NoRound
  BY ReworkAssumption DEF Init
<1>2. Kids = {} /\ Range(promotions) = {}
  BY <1>1 DEF Kids, Range
<1>3. ChildlessInv /\ KidsInv /\ WorkInv
  BY <1>1, <1>2 DEF ChildlessInv, Childless, KidsInv, WorkInv, AtWork, Judging, Fixing, NoRound,
     Kids
<1>4. PinsInv /\ JudgedInv
  BY <1>1, <1>2, ReworkAssumption DEF PinsInv, JudgedInv, NoRound
<1>5. PinIsWhatWasJudged /\ EveryCriterionJudged /\ promotions \in Seq(Range(promotions))
  BY <1>1, <1>2 DEF PinIsWhatWasJudged, EveryCriterionJudged
<1> QED
  BY <1>1, <1>3, <1>4, <1>5 DEF JInv

LEMMA ChildlessKept ==
    ASSUME RInv, DInv, ChildlessInv, [Next]_vars, setting' = setting
    PROVE  ChildlessInv'
<1>0. at \in [Drives -> Places] /\ setting \in SettingType /\ NoGateInv
  BY ReworkAssumption DEF RInv, ReworkTypeOK, DInv
<1>1. ASSUME NEW d \in Drives, at'[d] = "inline", at[d] # "inline" PROVE setting.gate \notin Gated
  <2>1. PICK e \in Drives : Begin(e) \/ Step(e) \/ Crash(e)
    BY <1>1 DEF Next, Clone, Verdict, Fix, CancelChild, Expire, Push, Cancel, Reap, vars
  <2>2. PICK next \in Places : at' = [at EXCEPT ![e] = next]
    BY <2>1, DriveSteps DEF DInv, Goes
  <2>3. e = d /\ next = "inline"
    BY <1>0, <1>1, <2>2
  <2>4. Gate(d)
    BY <1>0, <1>1, <2>1, <2>3 DEF Begin, Step, Crash, Check, Reread, Inline, Mark, Capture, Declare,
       Launch, Record, Pin, Settle, Refuse, Promote, Complete, Fail, Enter, Spend, Write, Resume,
       Guard, Claim, Leave, Goto
  <2> QED
    BY <1>0, <1>1, <2>4 DEF Gate, Goto, Gated
<1>2. ASSUME setting.gate \notin Gated
      PROVE  /\ children' = <<>> /\ status' # "reworking"
             /\ \A d \in Drives : at'[d] \in Childless
  <2>1. /\ children = <<>> /\ Kids = {} /\ status # "reworking"
        /\ \A d \in Drives : at[d] \in Childless
    BY <1>2 DEF ChildlessInv, Kids
  <2>2. setting.gate \in {"inline", "none"}
    BY <1>0, <1>2 DEF SettingType, Gated
  <2>3. ASSUME NEW d \in Drives, Begin(d) \/ Step(d) \/ Crash(d)
        PROVE  /\ children' = <<>> /\ status' # "reworking"
               /\ \E next \in Childless : at' = [at EXCEPT ![d] = next]
    <3>1. \/ Begin(d) \/ Check(d) \/ Reread(d) \/ Gate(d) \/ Inline(d) \/ Mark(d)
          \/ Pin(d) \/ Settle(d) \/ Refuse(d) \/ Promote(d) \/ Complete(d) \/ Crash(d)
      BY <2>1, <2>3 DEF Childless, Step, Capture, Declare, Launch, Record, Fail, Enter, Spend,
         Write, Resume, Guard
    <3>2. CASE Begin(d) \/ Check(d)
      BY <2>1, <3>2 DEF Childless, Begin, Check, Leave, Goto, graph
    <3>3. CASE Reread(d)
      <4>1. \/ Leave(d) \/ Goto(d, "gate")
            \/ \E m : \/ Claim(d, Completion(round.attempt), "pin", m)
                      \/ Claim(d, Completion(round.attempt), "promote", m)
        BY <2>1, <3>3 DEF Reread
      <4> QED
        BY <2>1, <3>3, <4>1 DEF Reread, Childless, Claim, Leave, Goto, graph
    <3>4. CASE Gate(d)
      <4>1. setting.gate = "inline"
        BY <2>2, <3>4, <1>0 DEF Gate, NoGateInv
      <4> QED
        BY <2>1, <3>4, <4>1 DEF Gate, Childless, Goto
    <3>5. CASE Inline(d) \/ Mark(d)
      BY <2>1, <3>5 DEF Childless, Inline, Mark, Claim, Leave, Goto, graph
    <3>6. CASE Pin(d) \/ Settle(d) \/ Refuse(d)
      BY <2>1, <3>6 DEF Childless, Pin, Settle, Refuse, Leave, Goto, graph
    <3>7. CASE Promote(d) \/ Complete(d) \/ Crash(d)
      BY <2>1, <3>7 DEF Childless, Promote, Complete, Crash, Leave, Goto, graph
    <3> QED
      BY <3>1, <3>2, <3>3, <3>4, <3>5, <3>6, <3>7
  <2>4. CASE \E d \in Drives : Begin(d) \/ Step(d) \/ Crash(d)
    BY <1>0, <2>1, <2>3, <2>4
  <2>5. CASE Expire \/ Push \/ Cancel \/ Reap \/ UNCHANGED vars
    BY <2>1, <2>5 DEF Expire, Push, Cancel, Reap, vars, graph
  <2> QED
    BY <2>1, <2>4, <2>5 DEF Next
<1>3. ASSUME NEW d \in Drives, at'[d] = "inline" PROVE setting.gate \notin Gated
  BY <1>1, <1>3 DEF ChildlessInv
<1> QED
  BY <1>2, <1>3 DEF ChildlessInv

\* A drive at work that does not move keeps its work, whatever another does.
Undisturbed(e) ==
    /\ at'[e] = at[e] /\ my'[e] = my[e]
    /\ \A i \in my[e].ids :
           /\ children[i].st = "empty" => children'[i].st = "empty"
           /\ children[i].st \notin {"passed", "fixable"} =>
                  children'[i].st \notin {"passed", "fixable"}

LEMMA StillWorking ==
    ASSUME RInv, RInv', Advance, NEW e \in Drives, Undisturbed(e), Working(e)
    PROVE  Working(e)'
<1>1. /\ my[e].ids \subseteq Kids /\ Kids \subseteq Kids' /\ head \in Nat /\ head' \in Nat
      /\ head <= head'
  BY DEF Working, Advance, RInv, ReworkTypeOK
<1>2. Crits(my[e].ids)' = Crits(my[e].ids)
  BY <1>1 DEF Crits, Advance, Undisturbed
<1>3. ASSUME my[e].head \in Nat
      PROVE  my[e].head <= head' /\ \A i \in my[e].ids : Since(i, my[e].head)'
  <2>1. my[e].head <= head /\ \A i \in my[e].ids : Since(i, my[e].head)
    BY <1>3 DEF Working
  <2>2. ASSUME NEW i \in my[e].ids PROVE Since(i, my[e].head)'
    BY <1>1, <1>3, <2>1, <2>2 DEF Since, Advance, Undisturbed
  <2> QED
    BY <1>1, <1>3, <2>1, <2>2
<1>4. my'[e].ids \subseteq Kids' /\ my'[e].todo \in 0 .. setting'.criteria
  BY <1>1 DEF Working, Undisturbed, Advance
<1>5. /\ at'[e] = "declare" => my'[e].todo > 0
      /\ at'[e] = "record" => my'[e].todo = 0 /\ my'[e].kind # "fix"
      /\ at'[e] = "launch" => \E i \in my'[e].ids : children'[i].st = "empty"
  BY DEF Working, Undisturbed
<1>6. /\ my'[e].kind = "fix" =>
             my'[e].head \notin Nat /\ \A i \in my'[e].ids : children'[i].kind = "fix"
      /\ my'[e].kind # "fix" => Crits(my[e].ids)' = (my'[e].todo + 1) .. setting'.criteria
      /\ \A i \in my'[e].ids : children'[i].st \notin {"passed", "fixable"}
  BY <1>1, <1>2 DEF Working, Undisturbed, Advance
<1> QED
  BY <1>3, <1>4, <1>5, <1>6 DEF Working, Crits, Since, Undisturbed

\* A drive begins to dispatch a gate, or a fix.
Starts(d) ==
    /\ at'[d] = "declare" /\ my'[d].ids = {} /\ UNCHANGED <<setting, children, head>>
    /\ \/ my'[d].kind = "fix" /\ my'[d].todo = 1 /\ my'[d].head = Absent
       \/ /\ my'[d].kind \in {"gate", "reval"} /\ my'[d].todo = setting.criteria
          /\ my'[d].head \in {head, Unknown}

LEMMA Worked ==
    ASSUME RInv, DInv, WorkInv, NEW d \in Drives, Begin(d) \/ Step(d) \/ Crash(d),
           at'[d] \in AtWork
    PROVE  \/ Declare(d) /\ at'[d] = "launch"
           \/ Launch(d) /\ my' = my /\ at'[d] = (IF my[d].todo > 0 THEN "declare" ELSE "record")
                        /\ (at'[d] = "record" => my[d].kind # "fix")
           \/ Starts(d) /\ (Capture(d) \/ Resume(d) \/ Guard(d))
<1>1. at \in [Drives -> Places] /\ my = [e \in Drives |-> my[e]] /\ IsMemory(my[d])
  BY DEF RInv, ReworkTypeOK
<1>2. CASE Capture(d)
  <2>1. PICK h \in {head, Unknown} :
            Keep(d, [my[d] EXCEPT !.head = h, !.kind = "gate", !.attempt = 0,
                                  !.todo = setting.criteria])
    BY <1>2 DEF Capture
  <2>2. /\ my'[d].ids = my[d].ids /\ my'[d].kind = "gate" /\ my'[d].todo = setting.criteria
        /\ my'[d].head = h
    BY <1>1, <2>1 DEF Keep, IsMemory, MemoryFields
  <2>3. my[d].ids = {} /\ at'[d] = "declare" /\ UNCHANGED <<setting, children, head>>
    BY <1>1, <1>2 DEF Capture, WorkInv, Goto
  <2> QED
    BY <1>2, <2>2, <2>3 DEF Starts
<1>3. CASE Declare(d)
  BY <1>1, <1>3 DEF Declare, Goto
<1>4. CASE Launch(d)
  <2>1. \/ my[d].todo > 0 /\ Goto(d, "declare") /\ my' = my
        \/ Leave(d)
        \/ my[d].todo = 0 /\ my[d].kind # "fix" /\ Goto(d, "record") /\ my' = my
    BY <1>4 DEF Launch
  <2> QED
    BY <1>1, <1>4, <2>1 DEF Goto, Leave, AtWork, IsMemory
<1>5. CASE Resume(d)
  <2>1. UNCHANGED <<setting, children, head>> /\ at[d] \notin AtWork
    BY <1>5 DEF Resume, AtWork
  <2>2. \/ Leave(d)
        \/ Claim(d, FixClaim(round.attempt), "declare",
                 [Blank EXCEPT !.kind = "fix", !.attempt = round.attempt, !.todo = 1, !.ids = {}])
        \/ \E m : \E next \in {"refuse", "pin", "enter"} :
               Claim(d, Completion(round.attempt), next, m)
        \/ Goto(d, "guard")
    BY <1>5 DEF Resume
  <2>3. CASE Claim(d, FixClaim(round.attempt), "declare",
                   [Blank EXCEPT !.kind = "fix", !.attempt = round.attempt, !.todo = 1,
                                 !.ids = {}])
    BY <1>1, <1>5, <2>1, <2>3 DEF Claim, Leave, Goto, Keep, Blank, Starts, AtWork
  <2> QED
    BY <1>1, <2>2, <2>3 DEF Claim, Leave, Goto, AtWork
<1>6. CASE Guard(d)
  <2>1. UNCHANGED <<setting, children, head>>
    BY <1>6 DEF Guard
  <2>2. PICK h \in {head, Unknown} :
            \/ Claim(d, Completion(my[d].attempt), "refuse", Blank)
            \/ Claim(d, RevalClaim(my[d].attempt), "declare",
                     [Blank EXCEPT !.kind = "reval", !.attempt = my[d].attempt,
                                   !.todo = setting.criteria, !.head = h])
    BY <1>6 DEF Guard
  <2> QED
    BY <1>1, <1>6, <2>1, <2>2 DEF Claim, Leave, Goto, Keep, Blank, Starts, AtWork
<1>7. CASE Begin(d) \/ Crash(d) \/ Check(d) \/ Gate(d) \/ Inline(d) \/ Mark(d)
  BY <1>1, <1>7 DEF Begin, Crash, Check, Gate, Inline, Mark, Claim, Leave, Goto, AtWork
<1>8. CASE Reread(d)
  <2>1. \/ Leave(d) \/ Goto(d, "gate")
        \/ \E m : \E next \in {"pin", "fail", "promote"} :
               Claim(d, Completion(round.attempt), next, m)
    BY <1>8 DEF Reread
  <2> QED
    BY <1>1, <2>1 DEF Claim, Leave, Goto, AtWork
<1>9. CASE Record(d) \/ Pin(d) \/ Settle(d) \/ Refuse(d) \/ Promote(d) \/ Complete(d)
  BY <1>1, <1>9 DEF Record, Pin, Settle, Refuse, Promote, Complete, Leave, Goto, AtWork
<1>10. CASE Fail(d) \/ Enter(d) \/ Spend(d) \/ Write(d)
  BY <1>1, <1>10 DEF Fail, Enter, Spend, Write, Goto, AtWork
<1> QED
  BY <1>2, <1>3, <1>4, <1>5, <1>6, <1>7, <1>8, <1>9, <1>10 DEF Step

\* A step of one drive does not disturb another at work.
LEMMA OthersUndisturbed ==
    ASSUME RInv, DInv, WorkInv, NEW d \in Drives, Begin(d) \/ Step(d) \/ Crash(d),
           NEW e \in Drives \ {d}, at[e] \in AtWork
    PROVE  Undisturbed(e)
<1>1. at'[e] = at[e] /\ my'[e] = my[e]
  BY DriveSteps DEF DInv, Goes, RInv, ReworkTypeOK
<1>2. my[e].ids \subseteq Kids
  BY DEF WorkInv, Working
<1>3. CASE children' = children
  BY <1>1, <1>3 DEF Undisturbed
<1>4. CASE Declare(d)
  BY <1>1, <1>2, <1>4, Declared DEF Undisturbed
<1>5. CASE Launch(d)
  <2>1. PICK c \in my[d].ids : c \in Kids /\ OneTurned(c)
    BY <1>5, Launched
  <2>2. c \notin my[e].ids
    BY <1>5, <2>1 DEF WorkInv, AtWork, Launch
  <2> QED
    BY <1>1, <1>2, <2>1, <2>2 DEF Undisturbed, OneTurned
<1> QED
  BY <1>3, <1>4, <1>5, DriveChildren

\* Nor does a child's own step.
LEMMA AllUndisturbed ==
    ASSUME RInv, WorkInv, NEW e \in Drives, at[e] \in AtWork,
           \/ \E c \in Kids : Clone(c) \/ Verdict(c) \/ Fix(c) \/ CancelChild(c)
           \/ Expire \/ Push \/ Cancel \/ Reap \/ UNCHANGED vars
    PROVE  Undisturbed(e)
<1>1. UNCHANGED <<at, my>>
  BY DEF Clone, Verdict, Fix, CancelChild, Expire, Push, Cancel, Reap, vars
<1>2. Dispatching
  BY DEF Dispatching, AtWork
<1>3. ASSUME NEW c \in Kids, Clone(c) \/ CancelChild(c) PROVE Undisturbed(e)
  <2>1. OneTurned(c) /\ my[e].ids \subseteq Kids
    BY <1>3, ChildTurns DEF WorkInv, Working
  <2>2. children[c].st \in {"live", "cloned"}
    BY <1>3 DEF Clone, CancelChild
  <2>3. children'[c].st \in {"cloned", "canceled"}
    <3>1. children \in Seq(KidType) /\ head \in Nat
      BY DEF RInv, ReworkTypeOK
    <3>2. CASE Clone(c)
      <4>1. children' = [children EXCEPT ![c].st = "cloned", ![c].head = head]
        BY <3>2 DEF Clone
      <4> QED
        BY <3>1, <4>1, CloneSet
    <3>3. CASE CancelChild(c)
      <4>1. children' = [children EXCEPT ![c].st = "canceled"]
        BY <3>3 DEF CancelChild
      <4> QED
        BY <3>1, <4>1, StatusSet
    <3> QED
      BY <1>3, <3>2, <3>3
  <2> QED
    BY <1>1, <2>1, <2>2, <2>3 DEF Undisturbed, OneTurned
<1>4. ASSUME NEW c \in Kids PROVE ~Verdict(c) /\ ~Fix(c)
  BY <1>2 DEF Verdict, Fix
<1>5. CASE Expire \/ Push \/ Cancel \/ Reap \/ UNCHANGED vars
  BY <1>1, <1>5 DEF Expire, Push, Cancel, Reap, vars, Undisturbed
<1> QED
  BY <1>3, <1>4, <1>5

LEMMA WorkKept ==
    ASSUME RInv, RInv', DInv, JInv, [Next]_vars
    PROVE  WorkInv'
<1>1. Advance /\ WorkInv /\ ChildlessInv
  BY Advances DEF JInv
<1>2. /\ at \in [Drives -> Places] /\ setting \in Settings /\ setting.criteria \in Nat
      /\ my = [e \in Drives |-> my[e]] /\ \A d \in Drives : IsMemory(my[d])
      /\ head \in Nat
  BY ReworkAssumption DEF RInv, ReworkTypeOK, SettingType
<1>3. CASE \/ \E c \in Kids : Clone(c) \/ Verdict(c) \/ Fix(c) \/ CancelChild(c)
           \/ Expire \/ Push \/ Cancel \/ Reap \/ UNCHANGED vars
  <2>1. UNCHANGED <<at, my>>
    BY <1>3 DEF Clone, Verdict, Fix, CancelChild, Expire, Push, Cancel, Reap, vars
  <2>2. ASSUME NEW e \in Drives, at'[e] \in AtWork PROVE Working(e)'
    BY <1>1, <1>3, <2>1, <2>2, AllUndisturbed, StillWorking DEF WorkInv
  <2> QED
    BY <1>1, <2>1, <2>2 DEF WorkInv
<1>4. ASSUME NEW d \in Drives, Begin(d) \/ Step(d) \/ Crash(d) PROVE WorkInv'
  <2>1. \A e \in Drives \ {d} : at'[e] = at[e] /\ my'[e] = my[e]
    BY <1>4, DriveSteps DEF DInv, Goes, RInv, ReworkTypeOK
  <2>2. ASSUME NEW e \in Drives \ {d}, at'[e] \in AtWork
        PROVE  Working(e) /\ Working(e)'
    BY <1>1, <1>4, <2>1, <2>2, OthersUndisturbed, StillWorking DEF WorkInv
  <2>3. ASSUME at'[d] \in {"gate", "inline", "capture"} PROVE my'[d].ids = {}
    <3>1. CASE Gate(d)
      BY <1>1, <1>2, <3>1 DEF Gate, WorkInv
    <3>2. CASE Reread(d)
      <4>1. \/ Leave(d)
            \/ \E m : \E next \in {"pin", "fail", "promote"} :
                   Claim(d, Completion(round.attempt), next, m)
            \/ \E reason : Keep(d, [Blank EXCEPT !.attempt = round.attempt,
                                    !.pin = dispatchHead, !.ids = {}, !.reason = reason])
        BY <3>2 DEF Reread
      <4> QED
        BY <1>2, <2>3, <4>1 DEF Claim, Leave, Goto, Keep, Blank
    <3>3. CASE ~Gate(d) /\ ~Reread(d)
      BY <1>2, <1>4, <2>3, <3>3 DEF Begin, Step, Crash, Check, Inline, Mark, Capture, Declare,
         Launch, Record, Pin, Settle, Refuse, Promote, Complete, Fail, Enter, Spend, Write, Resume,
         Guard, Claim, Leave, Goto
    <3> QED
      BY <3>1, <3>2, <3>3
  <2>4. ASSUME at'[d] \in AtWork
        PROVE  /\ Working(d)'
               /\ \A e \in Drives \ {d} : at'[e] \in AtWork => my'[d].ids \cap my'[e].ids = {}
    <3>1. CASE Declare(d) /\ at'[d] = "launch"
      <4> DEFINE n == Len(children) + 1
      <4>1. /\ Kids' = Kids \cup {n} /\ n \notin Kids
            /\ \A i \in Kids : children'[i] = children[i]
            /\ children'[n].kind = my[d].kind
            /\ children'[n].criterion = my[d].todo
            /\ children'[n].st = "empty" /\ children'[n].head = 0
            /\ my'[d].ids = my[d].ids \cup {n} /\ my'[d].todo = my[d].todo - 1
            /\ my'[d].kind = my[d].kind /\ my'[d].head = my[d].head
        BY <3>1, Declared
      <4> HIDE DEF n
      <4>2. Working(d) /\ my[d].ids \subseteq Kids /\ my[d].todo \in 1 .. setting.criteria
            /\ setting' = setting /\ head' = head
        BY <1>1, <3>1 DEF Declare, WorkInv, AtWork, Working
      <4>3. my'[d].ids \subseteq Kids' /\ my'[d].todo \in 0 .. setting'.criteria
        BY <1>2, <4>1, <4>2
      <4>4. my'[d].kind # "fix" =>
                {children'[i].criterion : i \in my'[d].ids} = my[d].todo .. setting.criteria
        <5>1. {children'[i].criterion : i \in my'[d].ids}
                  = {children[i].criterion : i \in my[d].ids} \cup {my[d].todo}
          BY <4>1, <4>2
        <5>2. my[d].kind # "fix" =>
                  {children[i].criterion : i \in my[d].ids}
                      = (my[d].todo + 1) .. setting.criteria
          BY <4>2 DEF Working, Crits
        <5>3. \A k \in 1 .. setting.criteria :
                  {k} \cup ((k + 1) .. setting.criteria) = k .. setting.criteria
          BY <1>2
        <5> QED
          BY <4>1, <4>2, <5>1, <5>2, <5>3
      <4>5. my'[d].todo + 1 = my[d].todo
        BY <1>2, <4>1, <4>2
      <4>6. ASSUME my'[d].head \in Nat
            PROVE  /\ my'[d].head <= head'
                   /\ \A i \in my'[d].ids :
                          /\ children'[i].kind # "fix"
                          /\ children'[i].st \in {"cloned", "passed"} =>
                                 my'[d].head <= children'[i].head
        <5>1. my[d].kind # "fix" /\ my[d].head \in Nat
          BY <4>1, <4>2, <4>6 DEF Working
        <5>2. my[d].head <= head /\ \A i \in my[d].ids : Since(i, my[d].head)
          BY <4>2, <5>1 DEF Working
        <5> QED
          BY <4>1, <4>2, <5>1, <5>2 DEF Since
      <4>7. /\ my'[d].kind = "fix" =>
                   my'[d].head \notin Nat /\ \A i \in my'[d].ids : children'[i].kind = "fix"
            /\ \A i \in my'[d].ids : children'[i].st \notin {"passed", "fixable"}
            /\ \E i \in my'[d].ids : children'[i].st = "empty"
        BY <4>1, <4>2 DEF Working
      <4>8. Working(d)'
        <5>1. my'[d].kind # "fix" =>
                  Crits(my[d].ids)' = (my'[d].todo + 1) .. setting'.criteria
          BY <4>2, <4>4, <4>5 DEF Crits
        <5>2. my'[d].head \in Nat => \A i \in my'[d].ids : Since(i, my[d].head)'
          BY <4>6 DEF Since
        <5> QED
          BY <3>1, <4>3, <4>6, <4>7, <5>1, <5>2 DEF Working
      <4>9. ASSUME NEW e \in Drives \ {d}, at'[e] \in AtWork
            PROVE  my'[d].ids \cap my'[e].ids = {}
        <5>1. my[e].ids \subseteq Kids /\ my'[e] = my[e] /\ my[d].ids \cap my[e].ids = {}
          BY <1>1, <2>1, <2>2, <3>1, <4>9 DEF WorkInv, Working, AtWork, Declare
        <5> QED
          BY <4>1, <5>1
      <4> QED
        BY <4>8, <4>9
    <3>2. CASE /\ Launch(d) /\ my' = my
               /\ at'[d] = (IF my[d].todo > 0 THEN "declare" ELSE "record")
               /\ at'[d] = "record" => my[d].kind # "fix"
      <4>1. PICK c \in my[d].ids : c \in Kids /\ children[c].st = "empty" /\ OneTurned(c)
        BY <1>1, <3>2, Launched
      <4>2. /\ Working(d) /\ my[d].ids \subseteq Kids /\ my[d].todo \in 0 .. setting.criteria
            /\ Kids' = Kids /\ setting' = setting /\ head' = head
        BY <1>1, <3>2, <4>1 DEF Launch, WorkInv, AtWork, Working, OneTurned
      <4>3. \A i \in my[d].ids :
                /\ children'[i].kind = children[i].kind
                /\ children'[i].criterion = children[i].criterion
                /\ children'[i].st \notin {"passed", "fixable"}
                /\ children'[i].head = children[i].head
                /\ children'[i].st = "cloned" => children[i].st = "cloned"
        <5>1. children'[c].st \in {"live", "failed"} /\ children'[c].head = children[c].head
              /\ children'[c].kind = children[c].kind
              /\ children'[c].criterion = children[c].criterion
          BY <4>1 DEF OneTurned, Turned
        <5>2. \A i \in my[d].ids \ {c} : children'[i] = children[i]
          BY <4>1, <4>2 DEF OneTurned
        <5> QED
          BY <4>2, <5>1, <5>2 DEF Working
      <4>4. Crits(my[d].ids)' = Crits(my[d].ids)
        BY <3>2, <4>3 DEF Crits
      <4>5. my[d].head \in Nat => \A i \in my[d].ids : Since(i, my[d].head)'
        BY <3>2, <4>2, <4>3 DEF Working, Since
      <4>6. Working(d)'
        BY <1>2, <3>2, <4>2, <4>3, <4>4, <4>5 DEF Working
      <4>7. \A e \in Drives \ {d} : at'[e] \in AtWork => my'[d].ids \cap my'[e].ids = {}
        BY <1>1, <2>1, <3>2 DEF WorkInv, AtWork, Launch
      <4> QED
        BY <4>6, <4>7
    <3>3. CASE Starts(d) /\ (Capture(d) \/ Resume(d) \/ Guard(d))
      <4>1. setting.criteria > 0
        <5>1. at[d] \in {"capture", "resume", "guard"}
          BY <3>3 DEF Capture, Resume, Guard
        <5>2. setting.gate \in Gated
          BY <1>1, <5>1 DEF ChildlessInv, Childless
        <5> QED
          BY <1>2, <5>2, ReworkAssumption DEF Gated
      <4>2. Crits(my[d].ids)' = {}
        BY <3>3 DEF Starts, Crits
      <4>3. (setting.criteria + 1) .. setting.criteria = {}
        BY <1>2
      <4> QED
        <5>1. /\ at'[d] = "declare" /\ my'[d].ids = {} /\ setting' = setting /\ head' = head
          BY <3>3 DEF Starts
        <5>2. /\ my'[d].todo \in 0 .. setting'.criteria /\ my'[d].todo > 0
              /\ my'[d].head \in Nat => my'[d].head <= head' /\ my'[d].kind # "fix"
              /\ my'[d].kind # "fix" => my'[d].todo = setting'.criteria
          BY <1>2, <3>3, <4>1, ReworkAssumption DEF Starts
        <5>3. Working(d)'
          BY <4>2, <4>3, <5>1, <5>2 DEF Working
        <5> QED
          BY <5>1, <5>3
    <3> QED
      BY <1>1, <1>4, <2>4, <3>1, <3>2, <3>3, Worked
  <2> QED
    BY <1>1, <2>1, <2>2, <2>3, <2>4 DEF WorkInv
<1> QED
  BY <1>3, <1>4 DEF Next

\* What is covered after a step.
StillCovered(ids, h) ==
    /\ h <= head'
    /\ \A c \in Criteria : \E i \in ids :
           /\ children'[i].criterion = c /\ children'[i].kind # "fix"
           /\ children'[i].st \in {"cloned", "passed"} => h <= children'[i].head

LEMMA CoveredKept ==
    ASSUME RInv, Advance, NEW ids \in SUBSET Kids, NEW h \in Nat, Covered(ids, h)
    PROVE  StillCovered(ids, h)
<1>1. h <= head /\ h <= head'
  BY DEF Covered, Advance, RInv, ReworkTypeOK
<1>2. ASSUME NEW c \in Criteria
      PROVE  \E i \in ids :
                 /\ children'[i].criterion = c /\ children'[i].kind # "fix"
                 /\ children'[i].st \in {"cloned", "passed"} => h <= children'[i].head
  <2>1. PICK i \in ids : children[i].criterion = c /\ Since(i, h)
    BY DEF Covered
  <2>2. /\ children'[i].criterion = c /\ children'[i].kind # "fix"
        /\ children'[i].st \in {"cloned", "passed"} => h <= children'[i].head
    BY <1>1, <2>1 DEF Since, Advance, RInv, ReworkTypeOK
  <2> QED
    BY <2>2
<1> QED
  BY <1>1, <1>2 DEF StillCovered

\* A drive has recorded the pin that it has read: its children cover it.
LEMMA RecordCovers ==
    ASSUME RInv, WorkInv, NEW d \in Drives, Record(d)
    PROVE  /\ my[d].ids \subseteq Kids /\ Crits(my[d].ids) = Criteria
           /\ my[d].head \in Nat => Covered(my[d].ids, my[d].head)
<1>1. /\ Working(d) /\ my[d].kind # "fix" /\ my[d].todo = 0
  BY DEF Record, WorkInv, AtWork, Working
<1>2. my[d].ids \subseteq Kids /\ Crits(my[d].ids) = Criteria
  BY <1>1, ReworkAssumption DEF Working, Criteria, RInv, ReworkTypeOK, SettingType
<1>3. ASSUME my[d].head \in Nat PROVE Covered(my[d].ids, my[d].head)
  <2>1. my[d].head <= head /\ \A i \in my[d].ids : Since(i, my[d].head)
    BY <1>1, <1>3 DEF Working
  <2> QED
    BY <1>2, <2>1 DEF Covered, Crits
<1> QED
  BY <1>2, <1>3

LEMMA PinsKept ==
    ASSUME RInv, DInv, JInv, [Next]_vars
    PROVE  PinsInv'
<1>1. Advance /\ WorkInv /\ PinsInv /\ Kids \subseteq Kids' /\ Criteria' = Criteria
  BY Advances DEF JInv, Advance, Criteria
<1>2. DOMAIN round = RoundFields
  BY DEF RInv, ReworkTypeOK
<1>3. ASSUME dispatchHead' = dispatchHead, dispatchHead' \in Nat
      PROVE  Covered(Kids, dispatchHead)'
  <2>1. StillCovered(Kids, dispatchHead)
    BY <1>1, <1>3, CoveredKept DEF PinsInv
  <2> QED
    BY <1>1, <1>3, <2>1 DEF StillCovered, Covered, Since
<1>4. CASE round' = round
  <2>1. round'.ids \subseteq Kids' /\ (round'.ids # {} => Crits(round.ids)' = Criteria')
    BY <1>1, <1>4 DEF PinsInv, Crits, Advance
  <2>2. round'.pin \in Nat => Covered(round.ids, round.pin)'
    <3>1. round.pin \in Nat => StillCovered(round.ids, round.pin)
      BY <1>1, CoveredKept DEF PinsInv
    <3> QED
      BY <1>1, <1>4, <3>1 DEF StillCovered, Covered, Since
  <2>3. CASE dispatchHead' = dispatchHead
    BY <1>3, <2>1, <2>2, <2>3 DEF PinsInv
  <2>4. ASSUME NEW d \in Drives, Record(d), dispatchHead' = my[d].head
        PROVE  PinsInv'
    <3>1. /\ my[d].ids \subseteq Kids
          /\ my[d].head \in Nat => Covered(my[d].ids, my[d].head)
      BY <1>1, <2>4, RecordCovers
    <3>2. my[d].head \in Nat => Covered(Kids, my[d].head)
      BY <3>1 DEF Covered
    <3>3. dispatchHead' \in Nat => Covered(Kids, dispatchHead)'
      <4>1. my[d].head \in Nat => StillCovered(Kids, my[d].head)
        BY <1>1, <3>2, CoveredKept
      <4> QED
        BY <1>1, <2>4, <4>1 DEF StillCovered, Covered, Since
    <3> QED
      BY <2>1, <2>2, <3>3 DEF PinsInv
  <2>5. dispatchHead' = dispatchHead
        \/ \E d \in Drives : Record(d) /\ dispatchHead' = my[d].head
    BY DEF Next, Begin, Step, Crash, Check, Reread, Gate, Inline, Mark, Capture, Declare, Launch,
       Record, Pin, Settle, Refuse, Promote, Complete, Fail, Enter, Spend, Write, Resume, Guard,
       Clone, Verdict, Fix, CancelChild, Expire, Push, Cancel, Reap, vars, graph
  <2> QED
    BY <2>3, <2>4, <2>5
<1>5. ASSUME NEW d \in Drives, Record(d), dispatchHead' = dispatchHead,
             round' = [round EXCEPT !.ids = my[d].ids, !.pin = my[d].head]
      PROVE  PinsInv'
  <2>1. round'.ids = my[d].ids /\ round'.pin = my[d].head
    BY <1>2, <1>5 DEF RoundFields
  <2>2. /\ my[d].ids \subseteq Kids /\ Crits(my[d].ids) = Criteria
        /\ my[d].head \in Nat => Covered(my[d].ids, my[d].head)
    BY <1>1, <1>5, RecordCovers
  <2>3. Crits(round.ids)' = Criteria' /\ round'.ids \subseteq Kids'
    BY <1>1, <2>1, <2>2 DEF Crits, Advance
  <2>4. round'.pin \in Nat => Covered(round.ids, round.pin)'
    <3>1. my[d].head \in Nat => StillCovered(my[d].ids, my[d].head)
      BY <1>1, <2>2, CoveredKept
    <3> QED
      BY <1>1, <2>1, <3>1 DEF StillCovered, Covered, Since
  <2> QED
    BY <1>3, <1>5, <2>3, <2>4 DEF PinsInv
<1>6. ASSUME NEW d \in Drives, Write(d) PROVE PinsInv'
  <2>1. dispatchHead' = dispatchHead /\ round'.ids = {} /\ round'.pin = Absent
    BY <1>6 DEF Write, NoRound
  <2> QED
    BY <1>3, <2>1, ReworkAssumption DEF PinsInv
<1>7. \/ round' = round
      \/ \E d \in Drives :
             \/ Write(d)
             \/ /\ Record(d) /\ dispatchHead' = dispatchHead
                /\ round' = [round EXCEPT !.ids = my[d].ids, !.pin = my[d].head]
  BY DEF Next, Begin, Step, Crash, Check, Reread, Gate, Inline, Mark, Capture, Declare, Launch,
     Record, Pin, Settle, Refuse, Promote, Complete, Fail, Enter, Spend, Write, Resume, Guard,
     Clone, Verdict, Fix, CancelChild, Expire, Push, Cancel, Reap, vars, graph
<1> QED
  BY <1>4, <1>5, <1>6, <1>7

LEMMA KidsKept ==
    ASSUME RInv, RInv', DInv, JInv, [Next]_vars
    PROVE  KidsInv'
<1>1. Advance /\ WorkInv /\ KidsInv /\ Kids \subseteq Kids' /\ Criteria' = Criteria
  BY Advances DEF JInv, Advance, Criteria
<1>2. /\ at \in [Drives -> Places] /\ crashes \in Nat /\ head \in Nat /\ head' \in Nat
      /\ setting.criteria \in Nat /\ \A d \in Drives : IsMemory(my[d])
      /\ \A i \in Kids : children[i].head \in Nat
  <2>1. \A i \in Kids : children[i] \in KidType
    BY DEF RInv, ReworkTypeOK, Kids
  <2>2. \A i \in Kids : children[i].head \in Nat
    BY <2>1 DEF KidType
  <2> QED
    BY <2>2, ReworkAssumption DEF RInv, ReworkTypeOK, JInv, SettingType
\* The only new child is one that a drive declares.
<1>3. ASSUME ~\E d \in Drives : Declare(d) PROVE Kids' = Kids
  <2>1. CASE \E d \in Drives : Begin(d) \/ Step(d) \/ Crash(d)
    <3>1. PICK d \in Drives : Begin(d) \/ Step(d) \/ Crash(d)
      BY <2>1
    <3>2. CASE Launch(d)
      BY <1>1, <3>2, Launched DEF OneTurned
    <3>3. CASE ~Launch(d)
      BY <1>3, <3>1, <3>3, DriveChildren DEF Kids
    <3> QED
      BY <3>2, <3>3
  <2>2. ASSUME NEW c \in Kids, Clone(c) \/ Verdict(c) \/ Fix(c) \/ CancelChild(c)
        PROVE  Kids' = Kids
    BY <2>2, ChildTurns DEF OneTurned
  <2>3. CASE Expire \/ Push \/ Cancel \/ Reap \/ UNCHANGED vars
    BY <2>3 DEF Expire, Push, Cancel, Reap, vars, Kids
  <2> QED
    BY <2>1, <2>2, <2>3 DEF Next
<1>4. ASSUME NEW d \in Drives, Declare(d)
      PROVE  \E n \in Kids' :
                 /\ Kids' = Kids \cup {n} /\ n \notin Kids
                 /\ children'[n].kind = my[d].kind
                 /\ children'[n].criterion \in Criteria /\ children'[n].head = 0
                 /\ my'[d].ids = my[d].ids \cup {n} /\ at'[d] = "launch"
  <2>1. Working(d) /\ my[d].todo > 0
    BY <1>1, <1>4 DEF Declare, WorkInv, AtWork, Working
  <2>2. my[d].todo \in Criteria
    BY <1>2, <2>1 DEF Working, Criteria
  <2>3. at'[d] = "launch"
    BY <1>2, <1>4 DEF Declare, Goto
  <2> QED
    BY <1>4, <2>2, <2>3, Declared
<1>5. ASSUME NEW i \in Kids' PROVE children'[i].criterion \in Criteria' /\ children'[i].head <= head'
  <2>1. CASE i \in Kids
    BY <1>1, <1>2, <2>1 DEF KidsInv, Advance
  <2>2. CASE i \notin Kids
    <3>1. PICK d \in Drives : Declare(d)
      BY <1>3, <1>5, <2>2
    <3> QED
      BY <1>1, <1>2, <1>4, <2>2, <3>1
  <2> QED
    BY <2>1, <2>2
<1>6. Kids' # {} => \E i \in Kids' : children'[i].kind # "fix"
  <2>1. CASE Kids # {}
    BY <1>1, <2>1 DEF KidsInv, Advance
  <2>2. CASE Kids = {}
    <3>1. ASSUME NEW d \in Drives, Declare(d) PROVE my[d].kind # "fix"
      BY <1>1, <2>2, <3>1 DEF KidsInv, FailedKid, Fixing, Declare
    <3> QED
      BY <1>3, <1>4, <2>2, <3>1
  <2> QED
    BY <2>1, <2>2
<1>7. FailedKid => FailedKid'
  BY <1>1 DEF FailedKid, Advance
<1>8. ASSUME ~FailedKid'
      PROVE  /\ status' # "reworking" /\ round'.attempt = 0
             /\ \A d \in Drives : at'[d] \notin Judging /\ ~Fixing(d)'
  <2>1. /\ status # "reworking" /\ round.attempt = 0 /\ ~FailedKid
        /\ \A d \in Drives : at[d] \notin Judging /\ ~Fixing(d)
    BY <1>1, <1>7, <1>8 DEF KidsInv
  <2>2. ASSUME NEW d \in Drives, Begin(d) \/ Step(d) \/ Crash(d)
        PROVE  /\ status' # "reworking" /\ round'.attempt = round.attempt
               /\ at'[d] \notin Judging /\ ~Fixing(d)'
    <3>1. ~Fail(d) /\ ~Enter(d) /\ ~Spend(d) /\ ~Write(d)
      BY <2>1 DEF Fail, Enter, Spend, Write, Judging
    <3>2. status' # "reworking"
      BY <2>1, <2>2, <3>1 DEF Begin, Step, Crash, Check, Reread, Gate, Inline, Mark, Capture,
         Declare, Launch, Record, Pin, Settle, Refuse, Promote, Complete, Resume, Guard, graph
    <3>3. round'.attempt = round.attempt
      BY <2>1, <2>2, <3>1 DEF Begin, Step, Crash, Check, Reread, Gate, Inline, Mark, Capture,
         Declare, Launch, Record, Pin, Settle, Refuse, Promote, Complete, Resume, Guard, graph,
         RInv, ReworkTypeOK, RoundFields
    <3>4. at'[d] \notin Judging
      <4>1. CASE Reread(d)
        <5>1. \/ Leave(d) \/ Goto(d, "gate")
              \/ \E m : \E next \in {"pin", "promote"} : Claim(d, Completion(round.attempt), next, m)
          BY <2>1, <4>1 DEF Reread, FailedKid
        <5> QED
          BY <1>2, <5>1 DEF Claim, Leave, Goto, Judging
      <4>2. CASE Resume(d)
        BY <1>2, <2>1, <4>2 DEF Resume, Leave, Goto, Judging
      <4>3. CASE ~Reread(d) /\ ~Resume(d)
        BY <1>2, <2>1, <2>2, <3>1, <4>3 DEF Begin, Step, Crash, Check, Gate, Inline, Mark, Capture,
           Declare, Launch, Record, Pin, Settle, Refuse, Promote, Complete, Guard, Claim, Leave,
           Goto, Judging
      <4> QED
        BY <4>1, <4>2, <4>3
    <3>5. ~Fixing(d)'
      <4> SUFFICES ASSUME at'[d] = "declare", my'[d].kind = "fix" PROVE FALSE
        BY DEF Fixing
      <4>1. \/ Launch(d) /\ my' = my /\ my[d].todo > 0
            \/ Starts(d) /\ (Capture(d) \/ Resume(d) \/ Guard(d))
        BY <1>1, <1>2, <2>2, Worked DEF AtWork
      <4>2. CASE Launch(d) /\ my' = my /\ my[d].todo > 0
        BY <4>2 DEF Launch, RInv, FixingInv
      <4>3. CASE Starts(d) /\ Capture(d)
        <5>1. my'[d].kind = "gate"
          BY <1>2, <4>3 DEF Capture, Keep, IsMemory, MemoryFields, RInv, ReworkTypeOK
        <5> QED
          BY <5>1
      <4>4. CASE Starts(d) /\ Resume(d)
        <5>1. Leave(d)
          BY <2>1, <4>4 DEF Resume
        <5> QED
          BY <1>2, <5>1 DEF Leave, Goto
      <4>5. CASE Starts(d) /\ Guard(d)
        <5>1. \/ Claim(d, Completion(my[d].attempt), "refuse", Blank)
              \/ \E h : Claim(d, RevalClaim(my[d].attempt), "declare",
                     [Blank EXCEPT !.kind = "reval", !.attempt = my[d].attempt,
                                   !.todo = setting.criteria, !.head = h])
          BY <4>5 DEF Guard
        <5> QED
          BY <1>2, <5>1 DEF Claim, Leave, Goto, Keep, Blank, RInv, ReworkTypeOK
      <4> QED
        BY <4>1, <4>2, <4>3, <4>4, <4>5
    <3> QED
      BY <3>2, <3>3, <3>4, <3>5
  <2>3. CASE \E d \in Drives : Begin(d) \/ Step(d) \/ Crash(d)
    <3>1. PICK d \in Drives : Begin(d) \/ Step(d) \/ Crash(d)
      BY <2>3
    <3>2. \A e \in Drives \ {d} : at'[e] = at[e] /\ my'[e] = my[e]
      BY <3>1, DriveSteps DEF DInv, Goes, RInv, ReworkTypeOK
    <3> QED
      BY <2>1, <2>2, <3>1, <3>2 DEF Fixing
  <2>4. CASE \/ \E c \in Kids : Clone(c) \/ Verdict(c) \/ Fix(c) \/ CancelChild(c)
             \/ Expire \/ Push \/ Cancel \/ Reap \/ UNCHANGED vars
    <3>1. UNCHANGED <<at, my, round>> /\ (status' = status \/ status' \in {"canceled", "failed"})
      BY <2>4 DEF Clone, Verdict, Fix, CancelChild, Expire, Push, Cancel, Reap, vars, graph
    <3> QED
      BY <2>1, <3>1 DEF Fixing
  <2> QED
    BY <2>3, <2>4 DEF Next
\* A child that stands for a criterion has all the others beside it, or the drive that
\* declares them is still at work.
<1>9. ASSUME NEW i \in Kids', children'[i].kind # "fix", ~(crashes' > 0)
      PROVE  \/ Criteria' \subseteq Crits(Kids)'
             \/ \E d \in Drives : at'[d] \in AtWork /\ i \in my'[d].ids
  <2>1. crashes = 0 /\ crashes' = crashes
    BY <1>1, <1>2, <1>9 DEF Advance
  <2>2. Crits(Kids) \subseteq Crits(Kids)'
    BY <1>1 DEF Crits, Advance
  <2>3. CASE i \notin Kids
    BY <1>3, <1>4, <2>3 DEF AtWork
  <2>4. ASSUME i \in Kids, NEW d \in Drives, at[d] \in AtWork, i \in my[d].ids
        PROVE  \/ Criteria' \subseteq Crits(Kids)'
               \/ at'[d] \in AtWork /\ i \in my'[d].ids
    <3>1. CASE at'[d] = at[d] /\ my'[d] = my[d]
      BY <2>4, <3>1
    <3>2. CASE Declare(d)
      BY <1>4, <2>4, <3>2 DEF AtWork
    <3>3. CASE Launch(d)
      <4>1. my[d].kind # "fix"
        BY <1>1, <1>9, <2>4 DEF WorkInv, Working, Advance
      <4>2. \/ my[d].todo > 0 /\ Goto(d, "declare") /\ my' = my
            \/ my[d].todo = 0 /\ Goto(d, "record") /\ my' = my
        BY <3>3, <4>1 DEF Launch
      <4> QED
        BY <1>2, <2>4, <4>2 DEF Goto, AtWork
    <3>4. CASE Record(d)
      <4>1. my[d].ids \subseteq Kids /\ Crits(my[d].ids) = Criteria
        BY <1>1, <3>4, RecordCovers
      <4> QED
        BY <1>1, <2>2, <4>1 DEF Crits
    <3>5. CASE Crash(d)
      BY <1>2, <2>1, <3>5 DEF Crash
    <3>6. ASSUME NEW e \in Drives, Begin(e) \/ Step(e) \/ Crash(e), e # d
          PROVE  at'[d] = at[d] /\ my'[d] = my[d]
      BY <3>6, DriveSteps DEF DInv, Goes, RInv, ReworkTypeOK
    <3>7. Begin(d) \/ Step(d) \/ Crash(d) => Declare(d) \/ Launch(d) \/ Record(d) \/ Crash(d)
      BY <2>4 DEF AtWork, Begin, Step, Check, Reread, Gate, Inline, Mark, Capture, Pin, Settle,
         Refuse, Promote, Complete, Fail, Enter, Spend, Write, Resume, Guard
    <3>8. CASE \/ \E c \in Kids : Clone(c) \/ Verdict(c) \/ Fix(c) \/ CancelChild(c)
               \/ Expire \/ Push \/ Cancel \/ Reap \/ UNCHANGED vars
      BY <3>1, <3>8 DEF Clone, Verdict, Fix, CancelChild, Expire, Push, Cancel, Reap, vars
    <3> QED
      BY <3>1, <3>2, <3>3, <3>4, <3>5, <3>6, <3>7, <3>8 DEF Next
  <2>5. CASE i \in Kids
    <3>1. children[i].kind # "fix"
      BY <1>1, <1>9, <2>5 DEF Advance
    <3>2. \/ Criteria \subseteq Crits(Kids)
          \/ \E d \in Drives : at[d] \in AtWork /\ i \in my[d].ids
      BY <1>1, <1>2, <2>1, <2>5, <3>1 DEF KidsInv
    <3> QED
      BY <1>1, <2>2, <2>4, <2>5, <3>2
  <2> QED
    BY <2>3, <2>5
<1> QED
  BY <1>5, <1>6, <1>8, <1>9 DEF KidsInv

LEMMA JudgedKept ==
    ASSUME RInv, DInv, JInv, [Next]_vars
    PROVE  JudgedInv'
<1>1. /\ Advance /\ WorkInv /\ KidsInv /\ PinsInv /\ JudgedInv /\ ChildlessInv
      /\ Kids \subseteq Kids' /\ Criteria' = Criteria /\ setting' = setting
  BY Advances DEF JInv, Advance, Criteria
<1>2. /\ at \in [Drives -> Places] /\ crashes \in Nat /\ head \in Nat
      /\ my = [e \in Drives |-> my[e]] /\ \A d \in Drives : IsMemory(my[d])
  BY DEF RInv, ReworkTypeOK, JInv
\* Passed children stay passed, on the head that they cloned.
<1>3. ASSUME NEW d \in Drives, Judged(d), my'[d] = my[d], at'[d] = "pin" => at[d] = "pin",
             at'[d] # "pin" => at[d] # "pin"
      PROVE  Judged(d)'
  <2>1. /\ my[d].ids \subseteq Kids
        /\ \A i \in my[d].ids : /\ children[i].st = "passed" /\ children'[i].st = "passed"
                                /\ children'[i].head = children[i].head
                                /\ children'[i].criterion = children[i].criterion
    BY <1>1, <1>3 DEF Judged, Advance
  <2>2. Crits(my[d].ids)' = Crits(my[d].ids)
    BY <1>3, <2>1 DEF Crits
  <2>3. crashes' = 0 => crashes = 0
    BY <1>1, <1>2 DEF Advance
  <2>4. setting'.gate \in Gated /\ (my'[d].attempt > 0 \/ crashes' = 0) =>
            Crits(my[d].ids)' = Criteria'
    BY <1>1, <1>3, <2>2, <2>3 DEF Judged
  <2>5. my'[d].pin \in Nat /\ at'[d] = "pin" =>
            \A i \in my'[d].ids : \E j \in my'[d].ids :
                /\ children'[j].criterion = children'[i].criterion
                /\ my'[d].pin <= children'[j].head
    BY <1>3, <2>1 DEF Judged
  <2>6. my'[d].pin \in Nat /\ my'[d].head \in Nat /\ at'[d] # "pin" =>
            \A i \in my'[d].ids : \E j \in my'[d].ids :
                /\ children'[j].criterion = children'[i].criterion
                /\ children'[j].head = my'[d].head
    BY <1>3, <2>1 DEF Judged
  <2> QED
    BY <1>1, <1>3, <2>1, <2>4, <2>5, <2>6 DEF Judged
<1>4. ASSUME NEW d \in Drives, Begin(d) \/ Step(d) \/ Crash(d),
             at'[d] \in {"pin", "settle", "promote"}
      PROVE  Judged(d)'
  <2>1. CASE Reread(d) /\ at'[d] = "pin"
    <3>1. /\ Kids # {} /\ Ends(Kids) = {"passed"} /\ my'[d].ids = Kids
          /\ my'[d].attempt = round.attempt /\ my'[d].pin = dispatchHead
      <4>1. /\ Kids # {} /\ Ends(Kids) = {"passed"}
            /\ Keep(d, [Blank EXCEPT !.attempt = round.attempt, !.pin = dispatchHead,
                                     !.ids = Kids, !.reason = "none"])
        <5>1. \/ Leave(d) \/ Goto(d, "gate")
              \/ \E m : \E next \in {"fail", "promote"} : Claim(d, Completion(round.attempt), next, m)
              \/ /\ Kids # {} /\ Ends(Kids) = {"passed"}
                 /\ Claim(d, Completion(round.attempt), "pin",
                          [Blank EXCEPT !.attempt = round.attempt, !.pin = dispatchHead,
                                        !.ids = Kids, !.reason = "none"])
          BY <2>1 DEF Reread
        <5> QED
          BY <1>2, <2>1, <5>1 DEF Claim, Leave, Goto
      <4> QED
        BY <1>2, <4>1 DEF Keep, Blank
    <3>2. UNCHANGED <<children, head, crashes>>
      BY <2>1 DEF Reread, faults
    <3>3. \A i \in Kids : children[i].st = "passed"
      BY <3>1 DEF Ends
    <3>4. ASSUME round.attempt > 0 \/ crashes = 0 PROVE Crits(Kids) = Criteria
      <4>1. ~FailedKid
        BY <3>3 DEF FailedKid, Failed
      <4>2. crashes = 0
        BY <1>1, <3>4, <4>1 DEF KidsInv
      <4>3. PICK i \in Kids : children[i].kind # "fix"
        BY <1>1, <3>1 DEF KidsInv
      <4>4. \A d1 \in Drives : at[d1] \in AtWork => i \notin my[d1].ids
        BY <1>1, <3>3 DEF WorkInv, Working
      <4>5. Criteria \subseteq Crits(Kids)
        BY <1>1, <1>2, <4>2, <4>3, <4>4 DEF KidsInv
      <4> QED
        BY <1>1, <4>5 DEF KidsInv, Crits
    <3>5. dispatchHead \in Nat =>
              \A i \in Kids : \E j \in Kids :
                  children[j].criterion = children[i].criterion /\ dispatchHead <= children[j].head
      BY <1>1, <3>3 DEF PinsInv, Covered, Since, KidsInv
    <3>6. Crits(my[d].ids)' = Crits(Kids) /\ Kids' = Kids
      BY <3>1, <3>2 DEF Crits, Kids
    <3> QED
      BY <1>1, <2>1, <3>1, <3>2, <3>3, <3>4, <3>5, <3>6 DEF Judged
  <2>2. CASE Resume(d) /\ at'[d] = "pin"
    <3>1. /\ Ends(round.ids) = {"passed"} /\ my'[d].ids = round.ids
          /\ my'[d].attempt = round.attempt /\ my'[d].pin = round.pin
      <4>1. /\ Ends(round.ids) = {"passed"}
            /\ Keep(d, [Blank EXCEPT !.attempt = round.attempt, !.pin = round.pin,
                                     !.ids = round.ids, !.reason = "none"])
        <5>1. \/ Leave(d) \/ Goto(d, "guard")
              \/ \E m : Claim(d, FixClaim(round.attempt), "declare", m)
              \/ \E m : \E next \in {"refuse", "enter"} :
                     Claim(d, Completion(round.attempt), next, m)
              \/ /\ Ends(round.ids) = {"passed"}
                 /\ Claim(d, Completion(round.attempt), "pin",
                          [Blank EXCEPT !.attempt = round.attempt, !.pin = round.pin,
                                        !.ids = round.ids, !.reason = "none"])
          BY <2>2 DEF Resume
        <5> QED
          BY <1>2, <2>2, <5>1 DEF Claim, Leave, Goto
      <4> QED
        BY <1>2, <4>1 DEF Keep, Blank
    <3>2. UNCHANGED <<children, head, crashes>>
      BY <2>2 DEF Resume, faults
    <3>3. round.ids # {} /\ \A i \in round.ids : children[i].st = "passed"
      BY <3>1 DEF Ends
    <3>4. round.ids \subseteq Kids /\ Crits(round.ids) = Criteria
      BY <1>1, <3>3 DEF PinsInv
    <3>5. round.pin \in Nat =>
              \A i \in round.ids : \E j \in round.ids :
                  children[j].criterion = children[i].criterion /\ round.pin <= children[j].head
      BY <1>1, <3>3, <3>4 DEF PinsInv, Covered, Since, KidsInv
    <3>6. Crits(my[d].ids)' = Crits(round.ids) /\ Kids' = Kids
      BY <3>1, <3>2 DEF Crits, Kids
    <3> QED
      BY <1>1, <2>2, <3>1, <3>2, <3>3, <3>4, <3>5, <3>6 DEF Judged
  <2>3. ASSUME my'[d].ids = {}, setting.gate \notin Gated PROVE Judged(d)'
    BY <1>1, <2>3 DEF Judged
  <2>4. CASE Inline(d)
    <3>1. my[d].ids = {} /\ setting.gate \notin Gated
      BY <1>1, <2>4 DEF Inline, WorkInv, ChildlessInv
    <3>2. my'[d] = my[d] \/ at'[d] = "idle"
      BY <1>2, <2>4 DEF Inline, Claim, Leave, Goto, Keep
    <3> QED
      BY <1>4, <2>3, <3>1, <3>2
  <2>5. CASE Reread(d) /\ at'[d] = "promote"
    <3>1. setting.gate = "none" /\ my'[d].ids = {}
      <4>1. \/ Leave(d) \/ Goto(d, "gate")
            \/ \E m : \E next \in {"fail", "pin"} : Claim(d, Completion(round.attempt), next, m)
            \/ /\ setting.gate = "none"
               /\ Claim(d, Completion(round.attempt), "promote",
                        [Blank EXCEPT !.attempt = round.attempt, !.pin = dispatchHead,
                                      !.ids = {}, !.reason = "none"])
        BY <2>5 DEF Reread
      <4> QED
        BY <1>2, <2>5, <4>1 DEF Claim, Leave, Goto, Keep, Blank
    <3> QED
      BY <2>3, <3>1 DEF Gated
  <2>6. CASE Pin(d)
    <3>1. PICK live \in {head, Unknown} :
              /\ PinAllows(my[d].pin, live)
              /\ Keep(d, [my[d] EXCEPT !.head = live])
      BY <1>2, <1>4, <2>6 DEF Pin, Goto
    <3>2. /\ my'[d].ids = my[d].ids /\ my'[d].attempt = my[d].attempt
          /\ my'[d].pin = my[d].pin /\ my'[d].head = live
      BY <1>2, <3>1 DEF Keep, IsMemory, MemoryFields
    <3>3. at[d] = "pin" /\ at'[d] # "pin" /\ UNCHANGED <<children, crashes>> /\ Judged(d)
      BY <1>1, <1>2, <1>4, <2>6 DEF Pin, Goto, JudgedInv
    <3>4. my[d].pin \in Nat /\ live \in Nat => my[d].pin = head /\ live = head
      BY <3>1, ReworkAssumption DEF PinAllows
    <3>5. my[d].ids \subseteq Kids /\ \A i \in my[d].ids : children[i].head \in Nat
      <4>1. \A i \in Kids : children[i] \in KidType
        BY DEF RInv, ReworkTypeOK, Kids
      <4> QED
        BY <3>3, <4>1 DEF Judged, KidType
    <3>6. ASSUME my[d].pin \in Nat, live \in Nat, NEW i \in my[d].ids
          PROVE  \E j \in my[d].ids :
                     children[j].criterion = children[i].criterion /\ children[j].head = live
      <4>1. PICK j \in my[d].ids :
                children[j].criterion = children[i].criterion /\ my[d].pin <= children[j].head
        BY <3>3, <3>6 DEF Judged
      <4>2. children[j].head <= head
        BY <1>1, <3>5 DEF KidsInv
      <4>3. children[j].head = live
        BY <1>2, <3>4, <3>5, <3>6, <4>1, <4>2
      <4> QED
        BY <4>1, <4>3
    <3>7. Crits(my[d].ids)' = Crits(my[d].ids) /\ Kids' = Kids
      BY <3>2, <3>3 DEF Crits, Kids
    <3> QED
      BY <1>1, <3>2, <3>3, <3>6, <3>7 DEF Judged
  <2>7. CASE Settle(d)
    BY <1>1, <1>2, <1>3, <2>7 DEF Settle, Goto, JudgedInv
  <2>8. Reread(d) \/ Resume(d) \/ Inline(d) \/ Pin(d) \/ Settle(d)
    BY <1>2, <1>4 DEF Begin, Step, Crash, Check, Gate, Mark, Capture, Declare, Launch, Record,
       Refuse, Promote, Complete, Fail, Enter, Spend, Write, Guard, Claim, Leave, Goto
  <2>9. Reread(d) => at'[d] # "settle"
    <3> SUFFICES ASSUME Reread(d) PROVE at'[d] # "settle"
      OBVIOUS
    <3>1. \/ Leave(d) \/ Goto(d, "gate")
          \/ \E m : \E next \in {"fail", "pin", "promote"} :
                 Claim(d, Completion(round.attempt), next, m)
      BY DEF Reread
    <3> QED
      BY <1>2, <3>1 DEF Claim, Leave, Goto
  <2>10. Resume(d) => at'[d] = "pin"
    <3> SUFFICES ASSUME Resume(d) PROVE at'[d] = "pin"
      OBVIOUS
    <3>1. \/ Leave(d) \/ Goto(d, "guard")
          \/ \E m : Claim(d, FixClaim(round.attempt), "declare", m)
          \/ \E m : \E next \in {"refuse", "pin", "enter"} :
                 Claim(d, Completion(round.attempt), next, m)
      BY DEF Resume
    <3> QED
      BY <1>2, <1>4, <3>1 DEF Claim, Leave, Goto
  <2> QED
    BY <1>4, <2>1, <2>2, <2>4, <2>5, <2>6, <2>7, <2>8, <2>9, <2>10
<1>5. CASE \E d \in Drives : Begin(d) \/ Step(d) \/ Crash(d)
  <2>1. PICK d \in Drives : Begin(d) \/ Step(d) \/ Crash(d)
    BY <1>5
  <2>2. \A e \in Drives \ {d} : at'[e] = at[e] /\ my'[e] = my[e]
    BY <2>1, DriveSteps DEF DInv, Goes, RInv, ReworkTypeOK
  <2>3. ASSUME NEW e \in Drives \ {d}, at'[e] \in {"pin", "settle", "promote"} PROVE Judged(e)'
    BY <1>1, <1>3, <2>2, <2>3 DEF JudgedInv
  <2> QED
    BY <1>4, <2>1, <2>3 DEF JudgedInv
<1>6. CASE \/ \E c \in Kids : Clone(c) \/ Verdict(c) \/ Fix(c) \/ CancelChild(c)
           \/ Expire \/ Push \/ Cancel \/ Reap \/ UNCHANGED vars
  <2>1. UNCHANGED <<at, my>>
    BY <1>6 DEF Clone, Verdict, Fix, CancelChild, Expire, Push, Cancel, Reap, vars
  <2> QED
    BY <1>1, <1>3, <2>1 DEF JudgedInv
<1> QED
  BY <1>5, <1>6 DEF Next

\* Only Promote adds a record of what has been promoted.
LEMMA PromotionsKept ==
    ASSUME RInv, DInv, JInv, [Next]_vars
    PROVE  /\ promotions' \in Seq(Range(promotions'))
           /\ PinIsWhatWasJudged' /\ EveryCriterionJudged'
<1>1. /\ Advance /\ JudgedInv /\ PinIsWhatWasJudged /\ EveryCriterionJudged
      /\ promotions \in Seq(Range(promotions)) /\ crashes \in Nat
      /\ Criteria' = Criteria /\ setting' = setting
  BY Advances DEF JInv, Advance, Criteria
<1>2. crashes' = 0 => crashes = 0
  BY <1>1 DEF Advance
<1>3. CASE promotions' = promotions
  <2>1. Range(promotions)' = Range(promotions)
    BY <1>3 DEF Range
  <2> QED
    BY <1>1, <1>2, <1>3, <2>1 DEF PinIsWhatWasJudged, EveryCriterionJudged, Range
<1>4. ASSUME NEW d \in Drives, Promote(d), promotions' # promotions
      PROVE  /\ promotions' \in Seq(Range(promotions'))
             /\ PinIsWhatWasJudged' /\ EveryCriterionJudged'
  <2> DEFINE verdicts == {[criterion |-> children[i].criterion, head |-> children[i].head] :
                             i \in my[d].ids}
             p == [head |-> head, attempt |-> my[d].attempt, pin |-> my[d].pin,
                   checked |-> my[d].head, verdicts |-> verdicts]
  <2>1. promotions' = Append(promotions, p) /\ at[d] = "promote" /\ Judged(d)
    BY <1>1, <1>4 DEF Promote, JudgedInv
  <2>2. p.pin \in Nat /\ p.checked \in Nat =>
            \A v \in p.verdicts : [v EXCEPT !.head = p.checked] \in p.verdicts
    <3>1. ASSUME my[d].pin \in Nat, my[d].head \in Nat, NEW i \in my[d].ids
          PROVE  [criterion |-> children[i].criterion, head |-> my[d].head] \in verdicts
      <4>1. PICK j \in my[d].ids :
                children[j].criterion = children[i].criterion /\ children[j].head = my[d].head
        BY <2>1, <3>1 DEF Judged
      <4> QED
        BY <4>1
    <3>2. ASSUME NEW v \in verdicts
          PROVE  \E i \in my[d].ids :
                     [v EXCEPT !.head = my[d].head]
                         = [criterion |-> children[i].criterion, head |-> my[d].head]
      OBVIOUS
    <3> HIDE DEF verdicts
    <3> QED
      BY <3>1, <3>2
  <2>3. setting.gate \in Gated /\ (p.attempt > 0 \/ crashes = 0) =>
            {v.criterion : v \in p.verdicts} = Criteria
    <3>1. {v.criterion : v \in verdicts} = Crits(my[d].ids)
      <4>1. ASSUME NEW i \in my[d].ids
            PROVE  \E v \in verdicts : v.criterion = children[i].criterion
        <5>1. [criterion |-> children[i].criterion, head |-> children[i].head] \in verdicts
          OBVIOUS
        <5> QED
          BY <5>1
      <4>2. ASSUME NEW v \in verdicts
            PROVE  \E i \in my[d].ids : v.criterion = children[i].criterion
        OBVIOUS
      <4> HIDE DEF verdicts
      <4> QED
        BY <4>1, <4>2 DEF Crits
    <3> HIDE DEF verdicts
    <3> QED
      BY <2>1, <3>1 DEF Judged
  <2> HIDE DEF p
  <2>4. /\ promotions' \in Seq(Range(promotions'))
        /\ \A q \in Range(promotions') : q = p \/ q \in Range(promotions)
    <3>1. promotions \in Seq(Range(promotions) \cup {p})
      BY <1>1
    <3>2. /\ DOMAIN promotions' = 1 .. Len(promotions) + 1
          /\ promotions'[Len(promotions) + 1] = p
          /\ \A k \in 1 .. Len(promotions) : promotions'[k] = promotions[k]
          /\ promotions' \in Seq(Range(promotions) \cup {p})
      BY <2>1, <3>1
    <3>3. Len(promotions) \in Nat /\ DOMAIN promotions = 1 .. Len(promotions)
      BY <1>1
    <3>4. \A q \in Range(promotions') : q = p \/ q \in Range(promotions)
      BY <3>2, <3>3 DEF Range
    <3>5. \A k \in DOMAIN promotions' : promotions'[k] \in Range(promotions')
      BY DEF Range
    <3>6. /\ Len(promotions') \in Nat /\ DOMAIN promotions' = 1 .. Len(promotions')
          /\ promotions' = [k \in 1 .. Len(promotions') |-> promotions'[k]]
      BY <3>2
    <3> QED
      BY <3>4, <3>5, <3>6
  <2>5. PinIsWhatWasJudged'
    BY <1>1, <2>2, <2>4 DEF PinIsWhatWasJudged
  <2>6. EveryCriterionJudged'
    BY <1>1, <1>2, <2>3, <2>4 DEF EveryCriterionJudged, Gated
  <2> QED
    BY <2>4, <2>5, <2>6
<1>5. promotions' = promotions \/ \E d \in Drives : Promote(d)
  BY DEF Next, Begin, Step, Crash, Check, Reread, Gate, Inline, Mark, Capture, Declare, Launch,
     Record, Pin, Settle, Refuse, Promote, Complete, Fail, Enter, Spend, Write, Resume, Guard,
     Clone, Verdict, Fix, CancelChild, Expire, Push, Cancel, Reap, vars, history
<1> QED
  BY <1>3, <1>4, <1>5

LEMMA JudgedStep == RInv /\ DInv /\ JInv /\ [Next]_vars => JInv'
<1> SUFFICES ASSUME RInv, DInv, JInv, [Next]_vars PROVE JInv'
  OBVIOUS
<1>1. RInv' /\ Advance
  BY ReworkSteps, Advances DEF JInv
<1>2. crashes' \in Nat /\ setting' = setting
  BY <1>1 DEF Advance, JInv
<1>3. ChildlessInv' /\ KidsInv' /\ WorkInv' /\ PinsInv' /\ JudgedInv'
  BY <1>1, <1>2, ChildlessKept, KidsKept, WorkKept, PinsKept, JudgedKept DEF JInv
<1> QED
  BY <1>2, <1>3, PromotionsKept DEF JInv

\* However many drives run the gate at once, and whatever crashes, is canceled or pushed:
\* what is promoted past a comparison with the pin has a verdict for every criterion on
\* that very head, unless an engine died dispatching the first gate it was judged on each
\* criterion, and it is promoted once, unless it is gated again
\* (checkValidationDispatchPin, checkHeadPinForPromote, promoteIntegrationIfPod).
THEOREM AlwaysPromotedAsJudged == Spec => []PromotedAsJudged
<1>1. DInv /\ JInv => PromotedAsJudged
  <2> SUFFICES ASSUME DInv, JInv PROVE PromotedAsJudged
    OBVIOUS
  <2>1. ~regated => Len(promotions) <= 1
    <3>1. CASE promotions = <<>>
      BY <3>1
    <3>2. CASE promotions # <<>>
      <4>1. ~regated => FinalInv
        BY DEF DInv
      <4>2. FinalInv => Len(promotions) = 1
        BY <3>2 DEF FinalInv
      <4> QED
        BY <4>1, <4>2
    <3> QED
      BY <3>1, <3>2
  <2> QED
    BY <2>1 DEF JInv, PromotedAsJudged, PromotedOnce
<1> QED
  BY ReworkInitially, ReworkSteps, EndsInitially, EndsKept, JudgedInitially, JudgedStep, <1>1, PTL
  DEF Spec
================================================================================
