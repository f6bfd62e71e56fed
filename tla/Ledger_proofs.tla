---------------------------- MODULE Ledger_proofs ----------------------------
(***************************************************************************)
(* Proofs about Ledger: its type invariant; that a call is left open only  *)
(* when its request was cancelled after the answer, its end could not be   *)
(* written, or the agent panicked; that a budget is passed only with leave,*)
(* where nobody is asked, or when the spending could not be read; and that *)
(* a session's stored totals are those of its calls: for every number of   *)
(* turns, sessions and calls, every budget and any failing statements.     *)
(***************************************************************************)
EXTENDS Ledger, SequenceTheorems, FiniteSetTheorems, TLAPS

\* A turn and its calls: one that has not begun has none, the call of a turn is
\* its own, and a turn waits in its tools for the subagents it has.
Kin(t) ==
  /\ pc[t] = "idle" =>
       of[t] = None /\ call[t] = 0 /\ \A i \in DOMAIN calls : calls[i].turn # t
  /\ pc[t] # "idle" => sess[t] # None
  /\ call[t] # 0 => call[t] \in DOMAIN calls /\ calls[call[t]].turn = t
  /\ of[t] # None /\ InProgress(t) => pc[of[t]] = "tools"

KinTrue == \A t \in Turns : Kin(t)

\* A call that is about to be closed was answered, unless its stream just ended.
Finishing(t) ==
  pc[t] = "finish" => t \in detached \/ call[t] = 0 \/ call[t] \in answered

FinishingTrue == \A t \in Turns : Finishing(t)

\* What lets a task make a call beyond its budget.
HasLeave(t) == approved[t] = TaskTotals(t) \/ Granted(t) \/ AutoApproved(t) \/ t \in unread

\* What was checked, approved or granted still holds when the call is made.
Allowed(t) == pc[t] = "open" /\ TaskTotals(t) >= Budget => HasLeave(t)

AllowedTrue == \A t \in Turns : Allowed(t)

IInv == TypeOK /\ KinTrue /\ FinishingTrue /\ AllowedTrue /\ OpenOnlyIfCut

\* A turn of a session a user opened.
Opens(t, s) == Begin(t, s) \/ BeginHeadless(t, s)

\* The two ways FinishCall goes.
Closed(i, status, charge) ==
  /\ calls' = IF i = 0 THEN calls
              ELSE [calls EXCEPT ![i] = [@ EXCEPT !.status = status, !.cost = charge]]
  /\ UNCHANGED <<faults, lost>>

Missed(i) == i # 0 /\ Fault /\ lost' = lost \cup {i} /\ UNCHANGED calls

\* The calls a task has paid for, itself or by its subagents.
PaidBy(t) ==
  {i \in DOMAIN calls : /\ calls[i].turn = t \/ of[calls[i].turn] = t
                        /\ calls[i].cost = 1 /\ calls[i].status # "started"}
------------------------------------------------------------------------------
LEMMA TotalsAreCounts == \A t \in Turns : TaskTotals(t) = Cardinality(PaidBy(t))
<1> TAKE t \in Turns
<1> DEFINE own == {i \in DOMAIN calls : calls[i].turn = t \/ of[calls[i].turn] = t}
<1>1. {i \in own : calls[i].cost = 1 /\ calls[i].status # "started"} = PaidBy(t)
  BY DEF PaidBy
<1> QED
  BY <1>1 DEF TaskTotals, Charged

\* The set of paid calls decides the totals, before a step and after it.
LEMMA SameTotals ==
  ASSUME NEW t \in Turns, PaidBy(t)' = PaidBy(t)
  PROVE  TaskTotals(t)' = TaskTotals(t)
<1> DEFINE own == {i \in DOMAIN calls' : calls'[i].turn = t \/ of'[calls'[i].turn] = t}
<1>1. {i \in own : calls'[i].cost = 1 /\ calls'[i].status # "started"} = PaidBy(t)'
  BY DEF PaidBy
<1>2. TaskTotals(t)' = Cardinality(PaidBy(t)')
  BY <1>1 DEF TaskTotals, Charged
<1> QED
  BY <1>2, TotalsAreCounts

\* Every count is a number, and no task pays for more calls than there are.
LEMMA CountsAreNumbers ==
  ASSUME TypeOK
  PROVE  /\ \A t \in Turns : TaskTotals(t) \in 0 .. MaxCalls
         /\ \A s \in Sessions : SessionTotals(s) \in Nat
<1>1. /\ Len(calls) \in Nat /\ DOMAIN calls = 1 .. Len(calls) /\ Len(calls) <= MaxCalls
      /\ MaxCalls \in Nat
  BY LedgerAssumption DEF TypeOK
<1>2. ASSUME NEW S \in SUBSET (DOMAIN calls)
      PROVE  Cardinality(S) \in Nat /\ Cardinality(S) <= Len(calls)
  <2>1. IsFiniteSet(DOMAIN calls) /\ Cardinality(DOMAIN calls) = Len(calls)
    <3>1. 1 \in Int /\ Len(calls) \in Int /\ Len(calls) >= 0
      BY <1>1
    <3>2. /\ IsFiniteSet(1 .. Len(calls))
          /\ Cardinality(1 .. Len(calls)) = IF 1 > Len(calls) THEN 0 ELSE Len(calls) - 1 + 1
      BY <3>1, FS_Interval
    <3> QED
      BY <1>1, <3>1, <3>2
  <2> QED
    BY <2>1, FS_Subset, FS_CardinalityType
<1>3. ASSUME NEW t \in Turns PROVE TaskTotals(t) \in 0 .. MaxCalls
  <2>1. PaidBy(t) \in SUBSET (DOMAIN calls)
    BY DEF PaidBy
  <2> QED
    BY <1>1, <1>2, <2>1, TotalsAreCounts
<1>4. ASSUME NEW s \in Sessions PROVE SessionTotals(s) \in Nat
  <2> DEFINE paid == {i \in CallsOf(s) : calls[i].cost = 1 /\ calls[i].status # "started"}
             units == {p \in ChildrenOf(s) \X Ids : p[2] <= cost[p[1]]}
  <2>1. Cardinality(paid) \in Nat
    <3>1. paid \in SUBSET (DOMAIN calls)
      BY DEF CallsOf
    <3> QED
      BY <1>2, <3>1
  <2>2. Cardinality(units) \in Nat
    <3>1. IsFiniteSet(Sessions) /\ IsFiniteSet(Ids)
      BY <1>1, LedgerAssumption, FS_Interval DEF Ids
    <3>2. IsFiniteSet(Sessions \X Ids)
      BY <3>1, FS_Product
    <3>3. units \in SUBSET (Sessions \X Ids)
      BY DEF ChildrenOf
    <3>4. IsFiniteSet(units)
      BY <3>2, <3>3, FS_Subset
    <3> QED
      BY <3>4, FS_CardinalityType
  <2>3. SessionTotals(s) = Cardinality(paid) + Cardinality(units)
    BY DEF SessionTotals, Charged, ChildCost
  <2> HIDE DEF paid, units
  <2> QED
    BY <2>1, <2>2, <2>3
<1> QED
  BY <1>3, <1>4

LEMMA FinishCallWays ==
  \A i, status, charge : FinishCall(i, status, charge) <=> Closed(i, status, charge) \/ Missed(i)
BY DEF FinishCall, Closed, Missed

LEMMA FaultTyped ==
  ASSUME TypeOK, Fault \/ UNCHANGED faults
  PROVE  faults' \in 0 .. MaxFaults
BY LedgerAssumption DEF Fault, TypeOK

\* The call a tracker points to.
LEMMA CallIsId ==
  ASSUME TypeOK, NEW t \in Turns
  PROVE  {call[t]} \ {0} \subseteq Ids
<1>1. call[t] \in 0 .. MaxCalls /\ MaxCalls \in Nat
  BY LedgerAssumption DEF TypeOK
<1>2. call[t] # 0 => call[t] \in 1 .. MaxCalls
  BY <1>1
<1> QED
  BY <1>2 DEF Ids

\* Leave once given lasts as long as what is spent, and the session, are the same.
LEMMA LeaveStays ==
  ASSUME NEW t \in Turns, HasLeave(t), TaskTotals(t)' = TaskTotals(t),
         sess'[t] = sess[t], parent'[sess[t]] = parent[sess[t]], approved'[t] = approved[t],
         granted \subseteq granted', auto \subseteq auto', t \in unread => t \in unread'
  PROVE  HasLeave(t)'
BY DEF HasLeave, Granted, AutoApproved

LEMMA CallTyped ==
  ASSUME TypeOK, NEW i \in DOMAIN calls
  PROVE  calls[i] \in Call /\ calls[i].turn \in Turns
<1>1. calls \in Seq(Call) /\ i \in 1 .. Len(calls)
  BY DEF TypeOK
<1>2. calls[i] \in Call
  BY <1>1
<1> QED
  BY <1>2 DEF Call

LEMMA InitIInv == Init => IInv
<1> SUFFICES ASSUME Init PROVE IInv
  OBVIOUS
<1>1. calls \in Seq(Call) /\ Len(calls) = 0 /\ DOMAIN calls = {}
  BY DEF Init
<1>2. TypeOK
  <2>1. pc \in [Turns -> States]
    BY DEF Init, States
  <2>2. 0 \in 0 .. MaxFaults /\ 0 \in 0 .. MaxCalls
    BY LedgerAssumption
  <2> QED
    BY <1>1, <2>1, <2>2, LedgerAssumption DEF Init, TypeOK
<1>3. KinTrue /\ FinishingTrue /\ AllowedTrue /\ OpenOnlyIfCut
  BY <1>1 DEF Init, KinTrue, Kin, InProgress, FinishingTrue, Finishing, AllowedTrue, Allowed,
              OpenOnlyIfCut
<1> QED
  BY <1>2, <1>3 DEF IInv
------------------------------------------------------------------------------
\* A turn moves on, and no call changes.
LEMMA MoveKeeps ==
  ASSUME IInv, TypeOK', NEW t \in Turns, NEW to \in States, pc' = [pc EXCEPT ![t] = to],
         UNCHANGED <<calls, call, of, dead, parent>>,
         pc[t] # "over", to # "idle", sess'[t] # None,
         \A u \in Turns \ {t} :
           /\ sess'[u] = sess[u] /\ approved'[u] = approved[u]
           /\ u \in detached => u \in detached'
           /\ u \in unread => u \in unread',
         answered \subseteq answered', lost \subseteq lost', granted \subseteq granted',
         auto \subseteq auto' \/ \A u \in Turns : pc[u] # "open",
         pc[t] = "tools" => \A v \in Turns : of[v] = t => ~InProgress(v),
         pc[t] \in {"stream", "finish"} =>
           to = "finish" \/ call[t] = 0 \/ call[t] \in lost' \/ (call[t] \in answered /\ Dead(t)),
         to = "finish" => t \in detached' \/ call[t] = 0 \/ call[t] \in answered',
         to = "open" /\ TaskTotals(t) >= Budget =>
           \/ approved'[t] = TaskTotals(t) \/ <<sess'[t], TaskTotals(t)>> \in granted'
           \/ {sess'[t], parent'[sess'[t]]} \cap auto' # {} \/ t \in unread'
  PROVE  IInv'
<1> USE DEF IInv
<1>1. pc'[t] = to /\ \A u \in Turns \ {t} : pc'[u] = pc[u]
  BY DEF TypeOK
<1>2. \A u \in Turns : TaskTotals(u)' = TaskTotals(u)
  BY SameTotals DEF PaidBy
<1>3. KinTrue'
  <2>1. ASSUME NEW u \in Turns, of[u] # None, InProgress(u)' PROVE pc'[of[u]] = "tools"
    <3>1. InProgress(u)
      BY <1>1, <2>1 DEF InProgress, KinTrue, Kin
    <3>2. of[u] \in Turns /\ pc[of[u]] = "tools"
      BY <2>1, <3>1 DEF KinTrue, Kin, TypeOK
    <3>3. of[u] # t
      BY <3>1, <3>2
    <3> QED
      BY <1>1, <3>2, <3>3
  <2> QED
    BY <1>1, <2>1 DEF KinTrue, Kin
<1>4. FinishingTrue'
  BY <1>1 DEF FinishingTrue, Finishing
<1>5. AllowedTrue'
  <2>1. ASSUME NEW u \in Turns, u # t PROVE Allowed(u)'
    BY <1>1, <1>2, <2>1, LeaveStays DEF AllowedTrue, Allowed
  <2>2. Allowed(t)'
    BY <1>1, <1>2 DEF Allowed, HasLeave, Granted, AutoApproved
  <2> QED
    BY <2>1, <2>2 DEF AllowedTrue
<1>6. OpenOnlyIfCut'
  <2> SUFFICES ASSUME NEW i \in DOMAIN calls, calls[i].status = "started"
               PROVE  LET u == calls[i].turn
                      IN \/ call[u] = i /\ pc'[u] \in {"stream", "finish"}
                         \/ i \in answered' /\ Dead(u)'
                         \/ i \in lost'
    BY DEF OpenOnlyIfCut
  <2>1. calls[i].turn \in Turns
    BY CallTyped
  <2>0. i # 0
    BY DEF TypeOK
  <2>2. CASE call[calls[i].turn] = i /\ pc[calls[i].turn] \in {"stream", "finish"}
    BY <1>1, <2>0, <2>1, <2>2 DEF Dead
  <2>3. CASE (i \in answered /\ Dead(calls[i].turn)) \/ i \in lost
    BY <2>3 DEF Dead
  <2> QED
    BY <2>2, <2>3 DEF OpenOnlyIfCut
<1> QED
  BY <1>3, <1>4, <1>5, <1>6

\* What a call's end does to the calls when it is written.
LEMMA ClosedFacts ==
  ASSUME TypeOK, NEW i, i = 0 \/ i \in DOMAIN calls, NEW to \in {"completed", "failed", "cancelled"},
         NEW charge \in 0 .. 1, Closed(i, to, charge)
  PROVE  /\ calls' \in Seq(Call) /\ Len(calls') = Len(calls) /\ DOMAIN calls' = DOMAIN calls
         /\ \A j \in DOMAIN calls : calls'[j].turn = calls[j].turn /\ calls'[j].sess = calls[j].sess
         /\ \A j \in DOMAIN calls : IF j = i THEN calls'[j].status = to /\ calls'[j].cost = charge
                                             ELSE calls'[j] = calls[j]
<1>1. CASE i = 0
  <2>1. 0 \notin DOMAIN calls
    BY DEF TypeOK
  <2> QED
    BY <1>1, <2>1 DEF Closed, TypeOK
<1>2. CASE i # 0
  <2> DEFINE new == [calls[i] EXCEPT !.status = to, !.cost = charge]
  <2>1. i \in 1 .. Len(calls) /\ calls[i] \in Call /\ calls \in Seq(Call)
    BY <1>2 DEF TypeOK
  <2>2. new \in Call /\ new.turn = calls[i].turn /\ new.sess = calls[i].sess
        /\ new.status = to /\ new.cost = charge
    BY <2>1 DEF Call
  <2> HIDE DEF new
  <2>3. calls' = [calls EXCEPT ![i] = new]
    BY <1>2 DEF Closed, new
  <2>4. /\ calls' \in Seq(Call) /\ Len(calls') = Len(calls)
        /\ \A j \in 1 .. Len(calls) : calls'[j] = IF j = i THEN new ELSE calls[j]
    BY <2>1, <2>2, <2>3, ExceptSeq
  <2>5. DOMAIN calls' = 1 .. Len(calls) /\ DOMAIN calls = 1 .. Len(calls)
    BY <2>1, <2>4
  <2> QED
    BY <2>2, <2>4, <2>5
<1> QED
  BY <1>1, <1>2

\* A turn's call is closed, and the turn goes on or is over.
LEMMA CloseKeeps ==
  ASSUME IInv, NEW t \in Turns, pc[t] \in {"stream", "finish"}, NEW to \in {"totals", "over"},
         pc' = [pc EXCEPT ![t] = to],
         NEW status \in {"completed", "failed", "cancelled"}, NEW charge \in 0 .. 1,
         FinishCall(call[t], status, charge),
         UNCHANGED <<cost, parent, who, call, dead, detached, held, sides, leave, spoilt, answered>>
  PROVE  IInv'
<1> USE DEF IInv, who, leave
<1>0. CASE Missed(call[t])
  <2>1. lost' \subseteq Ids
    BY <1>0, CallIsId DEF Missed, TypeOK
  <2>2. faults' \in 0 .. MaxFaults
    BY <1>0, FaultTyped DEF Missed
  <2>3. TypeOK'
    <3>1. pc' \in [Turns -> States]
      BY DEF TypeOK, States
    <3> QED
      BY <1>0, <2>1, <2>2, <3>1 DEF TypeOK, sides, Missed
  <2>4. sess[t] # None
    BY DEF KinTrue, Kin
  <2> QED
    BY <1>0, <2>3, <2>4, MoveKeeps DEF Missed, States
<1> SUFFICES ASSUME Closed(call[t], status, charge) PROVE IInv'
  BY <1>0, FinishCallWays
<1> UNCHANGED <<faults, lost>>
  BY DEF Closed
<1>1. pc'[t] = to /\ \A u \in Turns \ {t} : pc'[u] = pc[u]
  BY DEF TypeOK
<1>2. call[t] = 0 \/ (call[t] \in DOMAIN calls /\ calls[call[t]].turn = t)
  BY DEF KinTrue, Kin
<1>3. /\ calls' \in Seq(Call) /\ Len(calls') = Len(calls) /\ DOMAIN calls' = DOMAIN calls
      /\ \A j \in DOMAIN calls : calls'[j].turn = calls[j].turn
      /\ \A j \in DOMAIN calls :
           IF j = call[t] THEN calls'[j].status = status ELSE calls'[j] = calls[j]
  BY <1>2, ClosedFacts
<1>4. TypeOK'
  <2>1. pc' \in [Turns -> States]
    BY DEF TypeOK, States
  <2> QED
    BY <1>3, <2>1 DEF TypeOK, sides
<1>5. KinTrue'
  <2>1. ASSUME NEW u \in Turns, of[u] # None, InProgress(u)' PROVE pc'[of[u]] = "tools"
    <3>1. InProgress(u)
      BY <1>1, <2>1 DEF InProgress
    <3>2. of[u] \in Turns /\ pc[of[u]] = "tools"
      BY <2>1, <3>1 DEF KinTrue, Kin, TypeOK
    <3> QED
      BY <1>1, <3>2
  <2> QED
    BY <1>1, <1>3, <2>1 DEF KinTrue, Kin
<1>6. FinishingTrue'
  BY <1>1 DEF FinishingTrue, Finishing
<1>7. AllowedTrue'
  <2>1. ASSUME NEW u \in Turns, pc'[u] = "open" PROVE TaskTotals(u)' = TaskTotals(u)
    <3>1. u # t /\ of[t] # u
      BY <1>1, <2>1, LedgerAssumption DEF KinTrue, Kin, InProgress
    <3>2. PaidBy(u)' = PaidBy(u)
      BY <1>2, <1>3, <3>1 DEF PaidBy
    <3> QED
      BY <3>2, SameTotals
  <2> QED
    BY <1>1, <2>1, LeaveStays DEF AllowedTrue, Allowed
<1>8. OpenOnlyIfCut'
  <2> SUFFICES ASSUME NEW i \in DOMAIN calls, calls'[i].status = "started"
               PROVE  LET u == calls[i].turn
                      IN \/ call[u] = i /\ pc'[u] \in {"stream", "finish"}
                         \/ i \in answered /\ Dead(u)
                         \/ i \in lost
    BY <1>3 DEF OpenOnlyIfCut, Dead
  <2>1. calls[i].turn \in Turns /\ i # call[t] /\ calls[i].status = "started"
    BY <1>3, CallTyped
  <2> QED
    BY <1>1, <2>1 DEF OpenOnlyIfCut
<1> QED
  BY <1>4, <1>5, <1>6, <1>7, <1>8

LEMMA StartCallKeeps == ASSUME IInv, NEW t \in Turns, StartCall(t) PROVE IInv'
<1> USE DEF IInv, who
<1>1. /\ pc[t] = "open" /\ pc' = [pc EXCEPT ![t] = "stream"]
      /\ approved' = [approved EXCEPT ![t] = 0] /\ unread' = unread \ {t}
      /\ UNCHANGED <<cost, parent, who, dead, detached, held, sides, auto, granted,
                     spoilt, answered, lost>>
      /\ Fault \/ UNCHANGED faults
  BY DEF StartCall, Goto, Fault
<1>2. pc'[t] = "stream" /\ \A u \in Turns \ {t} : pc'[u] = pc[u] /\ approved'[u] = approved[u]
  BY <1>1 DEF TypeOK
<1>3. /\ Len(calls) \in Nat /\ DOMAIN calls = 1 .. Len(calls) /\ MaxCalls \in Nat
      /\ calls \in Seq(Call)
  BY LedgerAssumption DEF TypeOK
<1>4. /\ calls' \in Seq(Call) /\ Len(calls') <= MaxCalls /\ DOMAIN calls \subseteq DOMAIN calls'
      /\ \A i \in DOMAIN calls : calls'[i] = calls[i]
      /\ \A i \in DOMAIN calls' \ DOMAIN calls :
           calls'[i].turn = t /\ calls'[i].cost = 0 /\ call'[t] = i
      /\ call'[t] # 0 => call'[t] \in DOMAIN calls' /\ calls'[call'[t]].turn = t
      /\ call' \in [Turns -> 0 .. MaxCalls]
      /\ \A u \in Turns \ {t} : call'[u] = call[u]
  <2>1. CASE calls' = calls /\ call' = [call EXCEPT ![t] = 0]
    <3>1. calls' = calls /\ call' = [call EXCEPT ![t] = 0]
      BY <2>1
    <3>2. 0 \in 0 .. MaxCalls
      BY <1>3
    <3>3. call' \in [Turns -> 0 .. MaxCalls] /\ call'[t] = 0 /\ \A u \in Turns \ {t} : call'[u] = call[u]
      BY <3>1, <3>2 DEF TypeOK
    <3> QED
      BY <1>3, <3>1, <3>3 DEF TypeOK
  <2>2. CASE /\ Len(calls) < MaxCalls
             /\ calls' = Append(calls, [turn |-> t, sess |-> sess[t], cost |-> 0,
                                        status |-> "started"])
             /\ call' = [call EXCEPT ![t] = Len(calls) + 1]
    <3> DEFINE new == [turn |-> t, sess |-> sess[t], cost |-> 0, status |-> "started"]
    <3>1. new \in Call /\ new.turn = t /\ new.cost = 0
      BY <1>1 DEF Call, TypeOK, KinTrue, Kin
    <3>2. /\ calls' = Append(calls, new) /\ call' = [call EXCEPT ![t] = Len(calls) + 1]
          /\ Len(calls) < MaxCalls
      BY <2>2
    <3> HIDE DEF new
    <3>3. /\ calls' \in Seq(Call) /\ Len(calls') = Len(calls) + 1
          /\ \A i \in 1 .. Len(calls) : calls'[i] = calls[i]
          /\ calls'[Len(calls) + 1] = new
      BY <1>3, <3>1, <3>2, AppendProperties
    <3>4. DOMAIN calls' = 1 .. (Len(calls) + 1)
      BY <3>3
    <3>5. /\ call' \in [Turns -> 0 .. MaxCalls] /\ call'[t] = Len(calls) + 1
          /\ \A u \in Turns \ {t} : call'[u] = call[u]
      BY <1>3, <3>2 DEF TypeOK
    <3> QED
      BY <1>3, <3>1, <3>2, <3>3, <3>4, <3>5
  <2> QED
    BY <2>1, <2>2 DEF StartCall
<1>5. TypeOK'
  <2>1. pc' \in [Turns -> States] /\ approved' \in [Turns -> 0 .. MaxCalls]
    BY <1>1, <1>3 DEF TypeOK, States
  <2>2. faults' \in 0 .. MaxFaults
    BY <1>1, FaultTyped
  <2> QED
    BY <1>1, <1>4, <2>1, <2>2 DEF TypeOK, sides
<1>6. KinTrue'
  <2>1. ASSUME NEW u \in Turns, of[u] # None, InProgress(u)' PROVE pc'[of[u]] = "tools"
    <3>1. InProgress(u)
      BY <1>1, <1>2, <2>1 DEF InProgress
    <3>2. of[u] \in Turns /\ pc[of[u]] = "tools"
      BY <2>1, <3>1 DEF KinTrue, Kin, TypeOK
    <3> QED
      BY <1>1, <1>2, <3>2
  <2>2. ASSUME NEW u \in Turns, pc'[u] = "idle"
        PROVE  of[u] = None /\ call'[u] = 0 /\ \A i \in DOMAIN calls' : calls'[i].turn # u
    BY <1>1, <1>2, <1>4, <2>2 DEF KinTrue, Kin
  <2>3. ASSUME NEW u \in Turns, call'[u] # 0
        PROVE  call'[u] \in DOMAIN calls' /\ calls'[call'[u]].turn = u
    BY <1>4, <2>3 DEF KinTrue, Kin
  <2> QED
    BY <1>1, <1>2, <2>1, <2>2, <2>3 DEF KinTrue, Kin
<1>7. FinishingTrue'
  BY <1>1, <1>2, <1>4 DEF FinishingTrue, Finishing
<1>8. AllowedTrue'
  <2>1. ASSUME NEW u \in Turns PROVE TaskTotals(u)' = TaskTotals(u)
    <3>1. PaidBy(u)' = PaidBy(u)
      BY <1>1, <1>4 DEF PaidBy
    <3> QED
      BY <3>1, SameTotals
  <2> QED
    BY <1>1, <1>2, <2>1, LeaveStays DEF AllowedTrue, Allowed
<1>9. OpenOnlyIfCut'
  <2> SUFFICES ASSUME NEW i \in DOMAIN calls', NEW u, u = calls'[i].turn,
                      calls'[i].status = "started"
               PROVE  \/ call'[u] = i /\ pc'[u] \in {"stream", "finish"}
                      \/ i \in answered /\ Dead(u)
                      \/ i \in lost
    BY <1>1 DEF OpenOnlyIfCut, Dead
  <2>1. CASE i \in DOMAIN calls
    <3>1. calls[i].turn = u /\ u \in Turns /\ calls[i].status = "started"
      BY <1>4, <2>1, CallTyped
    <3>2. \/ call[u] = i /\ pc[u] \in {"stream", "finish"}
          \/ i \in answered /\ Dead(u)
          \/ i \in lost
      BY <2>1, <3>1 DEF OpenOnlyIfCut
    <3> QED
      BY <1>1, <1>2, <1>4, <3>1, <3>2
  <2>2. CASE i \notin DOMAIN calls
    BY <1>2, <1>4, <2>2
  <2> QED
    BY <2>1, <2>2
<1> QED
  BY <1>5, <1>6, <1>7, <1>8, <1>9

LEMMA CompleteCallKeeps == ASSUME IInv, NEW t \in Turns, CompleteCall(t) PROVE IInv'
<1>1. /\ pc[t] = "finish" /\ pc' = [pc EXCEPT ![t] = "totals"]
      /\ UNCHANGED <<cost, parent, who, call, dead, detached, held, sides, leave, spoilt, answered>>
  BY DEF CompleteCall, Goto
<1>2. CASE ~Cut(t)
  <2>1. PICK charge \in 0 .. 1 : FinishCall(call[t], "completed", charge)
    BY <1>2 DEF CompleteCall
  <2> QED
    BY <1>1, <2>1, CloseKeeps
<1>3. CASE Cut(t)
  <2>1. UNCHANGED <<calls, faults, lost>>
    BY <1>3 DEF CompleteCall
  <2>2. call[t] = 0 \/ (call[t] \in answered /\ Dead(t))
    BY <1>1, <1>3 DEF IInv, FinishingTrue, Finishing, Cut
  <2>3. TypeOK'
    <3>1. pc' \in [Turns -> States]
      BY <1>1 DEF IInv, TypeOK, States
    <3> QED
      BY <1>1, <2>1, <3>1 DEF IInv, TypeOK, who, sides, leave
  <2>4. sess[t] # None
    BY <1>1 DEF IInv, KinTrue, Kin
  <2> QED
    BY <1>1, <2>1, <2>2, <2>3, <2>4, MoveKeeps DEF States, who, leave
<1> QED
  BY <1>2, <1>3

\* A subagent's turn begins, in a session of its own.
LEMMA DelegateKeeps ==
  ASSUME IInv, NEW t \in Turns, NEW u \in Turns, NEW c \in Sessions, Delegate(t, u, c)
  PROVE  IInv'
<1> USE DEF IInv
<1>1. /\ pc[t] = "tools" /\ of[t] = None /\ pc[u] = "idle" /\ sess[t] \in Sessions
      /\ pc' = [pc EXCEPT ![u] = "loop"]
      /\ sess' = [sess EXCEPT ![u] = c] /\ of' = [of EXCEPT ![u] = t]
      /\ parent' = [parent EXCEPT ![c] = sess[t]]
      /\ UNCHANGED <<calls, cost, call, dead, detached, held, sides, leave, ghost>>
      /\ \A v \in Turns : sess[v] # c
  BY DEF Delegate, Goto, KinTrue, Kin, TypeOK
<1>2. u # t /\ of[u] = None /\ call[u] = 0 /\ \A i \in DOMAIN calls : calls[i].turn # u
  BY <1>1 DEF KinTrue, Kin
<1>3. /\ pc'[u] = "loop" /\ of'[u] = t /\ sess'[u] = c
      /\ \A v \in Turns \ {u} : pc'[v] = pc[v] /\ of'[v] = of[v] /\ sess'[v] = sess[v]
  BY <1>1 DEF TypeOK
<1>4. TypeOK'
  <2>1. pc' \in [Turns -> States]
    BY <1>1 DEF TypeOK, States
  <2> QED
    BY <1>1, <2>1 DEF TypeOK, sides, leave, ghost
<1>5. KinTrue'
  <2>1. ASSUME NEW v \in Turns, of'[v] # None, InProgress(v)' PROVE pc'[of'[v]] = "tools"
    <3>1. CASE v = u
      BY <1>1, <1>2, <1>3, <3>1
    <3>2. CASE v # u
      <4>1. of[v] \in Turns /\ pc[of[v]] = "tools" /\ of'[v] = of[v]
        <5>1. pc'[v] = pc[v] /\ of'[v] = of[v]
          BY <1>3, <3>2
        <5>2. of[v] # None /\ InProgress(v)
          BY <2>1, <5>1 DEF InProgress
        <5>3. of[v] \in Turns
          BY <5>2 DEF TypeOK
        <5> QED
          BY <5>1, <5>2, <5>3 DEF KinTrue, Kin
      <4>2. of[v] # u
        BY <1>1, <4>1
      <4> QED
        BY <1>3, <4>1, <4>2
    <3> QED
      BY <3>1, <3>2
  <2>2. \A v \in Turns : pc'[v] # "idle" => sess'[v] # None
    BY <1>3, LedgerAssumption DEF KinTrue, Kin
  <2>3. \A v \in Turns : pc'[v] = "idle" => of'[v] = None /\ call[v] = 0 /\ \A i \in DOMAIN calls : calls[i].turn # v
    BY <1>3 DEF KinTrue, Kin
  <2> QED
    BY <1>1, <2>1, <2>2, <2>3 DEF KinTrue, Kin
<1>6. FinishingTrue'
  BY <1>1, <1>3 DEF FinishingTrue, Finishing, ghost
<1>7. AllowedTrue'
  <2>1. ASSUME NEW v \in Turns PROVE TaskTotals(v)' = TaskTotals(v)
    <3>1. \A i \in DOMAIN calls : of'[calls[i].turn] = of[calls[i].turn]
      BY <1>2, <1>3, CallTyped
    <3>2. PaidBy(v)' = PaidBy(v)
      BY <1>1, <3>1 DEF PaidBy
    <3> QED
      BY <3>2, SameTotals
  <2>2. ASSUME NEW v \in Turns, pc'[v] = "open" PROVE v # u /\ sess[v] \in Sessions
    BY <1>3, <2>2 DEF KinTrue, Kin, TypeOK
  <2>3. ASSUME NEW v \in Turns, pc'[v] = "open" PROVE parent'[sess[v]] = parent[sess[v]]
    BY <1>1, <2>2, <2>3 DEF TypeOK
  <2> QED
    BY <1>1, <1>3, <2>1, <2>2, <2>3, LeaveStays DEF AllowedTrue, Allowed, leave
<1>8. OpenOnlyIfCut'
  <2> SUFFICES ASSUME NEW i \in DOMAIN calls, NEW v, v = calls[i].turn, calls[i].status = "started"
               PROVE  \/ call[v] = i /\ pc'[v] \in {"stream", "finish"}
                      \/ i \in answered /\ Dead(v)'
                      \/ i \in lost
    BY <1>1 DEF OpenOnlyIfCut, ghost
  <2>1. v \in Turns /\ v # u
    BY <1>2, CallTyped
  <2> QED
    BY <1>1, <1>3, <2>1 DEF OpenOnlyIfCut, Dead
<1> QED
  BY <1>4, <1>5, <1>6, <1>7, <1>8

LEMMA CancelKeeps == ASSUME IInv, NEW t \in Turns, Cancel(t) PROVE IInv'
<1> USE DEF IInv, who, leave, ghost
<1>1. /\ dead' = dead \cup {t}
      /\ UNCHANGED <<books, pc, who, call, detached, held, sides, leave, ghost>>
  BY DEF Cancel
<1>2. TypeOK'
  BY <1>1 DEF TypeOK, books, sides
<1>3. KinTrue' /\ FinishingTrue'
  BY <1>1 DEF KinTrue, Kin, InProgress, FinishingTrue, Finishing, books
<1>4. AllowedTrue'
  <2>1. \A v \in Turns : TaskTotals(v)' = TaskTotals(v)
    BY <1>1, SameTotals DEF PaidBy, books
  <2> QED
    BY <1>1, <2>1, LeaveStays DEF AllowedTrue, Allowed, books
<1>5. OpenOnlyIfCut'
  BY <1>1 DEF OpenOnlyIfCut, Dead, books
<1> QED
  BY <1>2, <1>3, <1>4, <1>5

\* The title and the compaction of a session touch no call and no turn.
LEMMA SidesKeep ==
  ASSUME IInv, NEW s \in Sessions,
         SetTitle(s) \/ Summarize(s) \/ ReadSession(s) \/ SaveSummary(s) \/ FailSummary(s)
  PROVE  IInv'
<1> USE DEF IInv, who, leave
<1>1. UNCHANGED <<calls, parent, pc, who, call, dead, detached, held, leave, faults, answered, lost>>
  BY DEF SetTitle, Summarize, ReadSession, SaveSummary, FailSummary, books, ghost
<1>2. TypeOK'
  <2>1. /\ title' \in [Sessions -> {"none", "asking", "set"}]
        /\ compact' \in [Sessions -> {"none", "asking", "read", "over"}]
    BY DEF SetTitle, Summarize, ReadSession, SaveSummary, FailSummary, TypeOK
  <2>2. copy' \in [Sessions -> Nat] /\ cost' \in [Sessions -> Nat] /\ spoilt' \in [Sessions -> BOOLEAN]
    <3>1. CASE SaveSummary(s)
      BY <3>1 DEF SaveSummary, TypeOK
    <3>2. CASE SetTitle(s) \/ Summarize(s) \/ ReadSession(s) \/ FailSummary(s)
      <4>1. cost' = cost /\ spoilt' = spoilt
        BY <3>2 DEF SetTitle, Summarize, ReadSession, FailSummary, books, ghost
      <4>2. copy' = copy \/ copy' = [copy EXCEPT ![s] = cost[s]] \/ copy' = [copy EXCEPT ![s] = 0]
        BY <3>2 DEF SetTitle, Summarize, ReadSession, FailSummary
      <4>3. /\ cost \in [Sessions -> Nat] /\ copy \in [Sessions -> Nat]
            /\ spoilt \in [Sessions -> BOOLEAN]
        BY DEF TypeOK
      <4>4. copy' \in [Sessions -> Nat]
        <5> HIDE DEF leave
        <5> QED
          BY <4>2, <4>3
      <4> QED
        BY <4>1, <4>3, <4>4
    <3> QED
      BY <3>1, <3>2
  <2> QED
    BY <1>1, <2>1, <2>2 DEF TypeOK
<1>3. KinTrue' /\ FinishingTrue'
  BY <1>1 DEF KinTrue, Kin, InProgress, FinishingTrue, Finishing
<1>4. AllowedTrue'
  <2>1. \A v \in Turns : TaskTotals(v)' = TaskTotals(v)
    BY <1>1, SameTotals DEF PaidBy
  <2> QED
    BY <1>1, <2>1, LeaveStays DEF AllowedTrue, Allowed
<1>5. OpenOnlyIfCut'
  BY <1>1 DEF OpenOnlyIfCut, Dead
<1> QED
  BY <1>2, <1>3, <1>4, <1>5

\* The other steps of a turn, which only move it.
LEMMA TurnKeeps == ASSUME IInv, NEW t \in Turns, Turn(t) PROVE IInv'
<1> USE DEF who, sides, books, leave, ghost
<1>1. ASSUME NEW to \in States, pc' = [pc EXCEPT ![t] = to] PROVE pc' \in [Turns -> States]
  BY <1>1 DEF IInv, TypeOK
<1>2. States = {"idle", "loop", "budget", "ask", "open", "stream", "finish", "totals", "save",
                "tools", "over"}
  BY DEF States
<1>3. pc[t] # "idle" => sess[t] # None
  BY DEF IInv, KinTrue, Kin
<1>4. CASE CheckDone(t)
  <2>1. PICK to \in {"over", "budget"} : pc[t] = "loop" /\ pc' = [pc EXCEPT ![t] = to]
    BY <1>4 DEF CheckDone, Goto
  <2>2. UNCHANGED <<books, who, call, dead, detached, held, sides, leave, ghost>>
    BY <1>4 DEF CheckDone
  <2>3. TypeOK'
    BY <1>1, <1>2, <2>1, <2>2 DEF IInv, TypeOK
  <2> QED
    BY <1>2, <1>3, <2>1, <2>2, <2>3, MoveKeeps
<1>5. CASE BudgetStop(t)
  <2>1. PICK to \in {"ask", "open"} :
          /\ pc[t] = "budget" /\ pc' = [pc EXCEPT ![t] = to]
          /\ to = "open" => ~(TaskTotals(t) >= Budget)
    BY <1>5 DEF BudgetStop, Goto
  <2>2. UNCHANGED <<books, who, call, dead, detached, held, sides, leave, ghost>>
    BY <1>5 DEF BudgetStop
  <2>3. TypeOK'
    BY <1>1, <1>2, <2>1, <2>2 DEF IInv, TypeOK
  <2> QED
    BY <1>2, <1>3, <2>1, <2>2, <2>3, MoveKeeps
<1>6. CASE BudgetUnread(t)
  <2>1. /\ pc[t] = "budget" /\ pc' = [pc EXCEPT ![t] = "open"] /\ unread' = unread \cup {t}
        /\ UNCHANGED <<books, who, call, dead, detached, held, sides, auto, granted, approved,
                       spoilt, answered, lost>>
    BY <1>6 DEF BudgetUnread, Goto
  <2>2. faults' \in 0 .. MaxFaults
    <3>1. Fault \/ UNCHANGED faults
      BY <1>6 DEF BudgetUnread
    <3> QED
      BY <3>1, FaultTyped DEF IInv
  <2>3. TypeOK'
    BY <1>1, <1>2, <2>1, <2>2 DEF IInv, TypeOK
  <2> QED
    BY <1>2, <1>3, <2>1, <2>3, MoveKeeps
<1>7. CASE PassUnasked(t)
  <2>1. /\ pc[t] = "ask" /\ pc' = [pc EXCEPT ![t] = "open"] /\ (AutoApproved(t) \/ Granted(t))
        /\ UNCHANGED <<books, who, call, dead, detached, held, sides, leave, ghost>>
    BY <1>7 DEF PassUnasked, Goto
  <2>2. TypeOK'
    BY <1>1, <1>2, <2>1 DEF IInv, TypeOK
  <2>3. <<sess'[t], TaskTotals(t)>> \in granted' \/ {sess'[t], parent'[sess'[t]]} \cap auto' # {}
    BY <2>1 DEF AutoApproved, Granted
  <2> QED
    BY <1>2, <1>3, <2>1, <2>2, <2>3, MoveKeeps
<1>8. ASSUME NEW how \in {"deny", "once", "session"}, Answer(t, how) PROVE IInv'
  <2>1. PICK to \in {"over", "open"} :
          /\ pc[t] = "ask" /\ pc' = [pc EXCEPT ![t] = to] /\ (how # "deny" <=> to = "open")
    BY <1>8 DEF Answer, Goto
  <2>2. /\ UNCHANGED <<books, who, call, dead, detached, held, sides, auto, unread, ghost>>
        /\ approved' = IF how = "deny" THEN approved ELSE [approved EXCEPT ![t] = TaskTotals(t)]
        /\ granted' \in {granted, granted \cup {<<sess[t], TaskTotals(t)>>}}
    BY <1>8 DEF Answer
  <2>3. TaskTotals(t) \in 0 .. MaxCalls
    BY CountsAreNumbers DEF IInv
  <2>4. /\ approved' \in [Turns -> 0 .. MaxCalls] /\ (how # "deny" => approved'[t] = TaskTotals(t))
        /\ \A u \in Turns \ {t} : approved'[u] = approved[u]
    BY <2>2, <2>3 DEF IInv, TypeOK
  <2>5. granted' \subseteq Sessions \X (0 .. MaxCalls)
    <3>1. sess[t] \in Sessions
      BY <1>3, <2>1 DEF IInv, TypeOK
    <3>2. granted \subseteq Sessions \X (0 .. MaxCalls)
      BY DEF IInv, TypeOK
    <3> HIDE DEF who, sides, books, leave, ghost
    <3> QED
      BY <2>2, <2>3, <3>1, <3>2
  <2>6. TypeOK'
    BY <1>1, <1>2, <2>1, <2>2, <2>4, <2>5 DEF IInv, TypeOK
  <2> QED
    BY <1>2, <1>3, <2>1, <2>2, <2>4, <2>6, MoveKeeps
<1>9. CASE Abort(t)
  <2>1. /\ pc[t] = "stream" /\ pc' = [pc EXCEPT ![t] = "over"]
        /\ UNCHANGED <<cost, parent, who, call, dead, detached, held, sides, leave, spoilt, answered>>
    BY <1>9 DEF Abort, Goto
  <2>2. PICK status \in {"completed", "failed", "cancelled"} : FinishCall(call[t], status, 0)
    BY <1>9 DEF Abort
  <2>3. 0 \in 0 .. 1 /\ pc[t] \in {"stream", "finish"}
    BY <2>1
  <2> QED
    BY <2>1, <2>2, <2>3, CloseKeeps
<1>10. CASE Panic(t)
  <2>1. /\ pc[t] = "stream" /\ pc' = [pc EXCEPT ![t] = "over"]
        /\ lost' = lost \cup ({call[t]} \ {0})
        /\ UNCHANGED <<books, who, call, dead, detached, held, sides, leave, faults, spoilt, answered>>
    BY <1>10 DEF Panic, Goto
  <2>2. lost' \subseteq Ids
    BY <2>1, CallIsId DEF IInv, TypeOK
  <2>3. TypeOK'
    BY <1>1, <1>2, <2>1, <2>2 DEF IInv, TypeOK
  <2> QED
    BY <1>2, <1>3, <2>1, <2>3, MoveKeeps
<1>11. CASE Complete(t)
  <2>1. /\ pc[t] = "stream" /\ pc' = [pc EXCEPT ![t] = "finish"]
        /\ answered' = answered \cup ({call[t]} \ {0})
        /\ UNCHANGED <<books, who, call, dead, detached, held, sides, leave, faults, spoilt, lost>>
    BY <1>11 DEF Complete, Goto
  <2>2. answered' \subseteq Ids
    BY <2>1, CallIsId DEF IInv, TypeOK
  <2>3. TypeOK'
    BY <1>1, <1>2, <2>1, <2>2 DEF IInv, TypeOK
  <2> QED
    BY <1>2, <1>3, <2>1, <2>3, MoveKeeps
<1>12. CASE EndStream(t)
  <2>1. /\ pc[t] = "stream" /\ pc' = [pc EXCEPT ![t] = "finish"] /\ detached' = detached \cup {t}
        /\ UNCHANGED <<books, who, call, dead, held, sides, leave, ghost>>
    BY <1>12 DEF EndStream, Goto
  <2>2. TypeOK'
    BY <1>1, <1>2, <2>1 DEF IInv, TypeOK
  <2> QED
    BY <1>2, <1>3, <2>1, <2>2, MoveKeeps
<1>13. CASE Fail(t)
  <2>1. /\ pc[t] \in {"totals", "save"} /\ held' = [held EXCEPT ![t] = 0]
        /\ detached' = detached \ {t}
        /\ UNCHANGED <<books, who, call, dead, sides, leave, answered, lost>>
    BY <1>13 DEF Fail
  <2>2. PICK to \in {"tools", "over"} : pc' = [pc EXCEPT ![t] = to]
    BY <1>13 DEF Fail
  <2>3. faults' \in 0 .. MaxFaults
    <3>1. Fault \/ UNCHANGED faults
      BY <1>13 DEF Fail
    <3> QED
      BY <3>1, FaultTyped DEF IInv
  <2>4. spoilt' \in [Sessions -> BOOLEAN]
    <3>1. spoilt' = spoilt \/ spoilt' = [spoilt EXCEPT ![sess[t]] = TRUE]
      BY <1>13 DEF Fail
    <3>2. spoilt \in [Sessions -> BOOLEAN]
      BY DEF IInv, TypeOK
    <3> HIDE DEF who, sides, books, leave, ghost
    <3> QED
      BY <3>1, <3>2
  <2>5. TypeOK'
    BY <1>1, <1>2, <2>1, <2>2, <2>3, <2>4 DEF IInv, TypeOK
  <2> QED
    BY <1>2, <1>3, <2>1, <2>2, <2>5, MoveKeeps
<1>14. CASE ReadTotals(t)
  <2>1. /\ pc[t] = "totals" /\ pc' = [pc EXCEPT ![t] = "save"]
        /\ held' = [held EXCEPT ![t] = SessionTotals(sess[t])]
        /\ UNCHANGED <<books, who, call, dead, detached, sides, leave, ghost>>
    BY <1>14 DEF ReadTotals, Goto
  <2>2. sess[t] \in Sessions
    BY <1>3, <2>1 DEF IInv, TypeOK
  <2>3. held' \in [Turns -> Nat]
    BY <2>1, <2>2, CountsAreNumbers DEF IInv, TypeOK
  <2>4. TypeOK'
    BY <1>1, <1>2, <2>1, <2>3 DEF IInv, TypeOK
  <2> QED
    BY <1>2, <1>3, <2>1, <2>4, MoveKeeps
<1>15. CASE SaveTotals(t)
  <2>1. /\ pc[t] = "save" /\ pc' = [pc EXCEPT ![t] = "tools"]
        /\ cost' = [cost EXCEPT ![sess[t]] = held[t]] /\ held' = [held EXCEPT ![t] = 0]
        /\ detached' = detached \ {t}
        /\ UNCHANGED <<calls, parent, who, call, dead, sides, leave, faults, answered, lost>>
    BY <1>15 DEF SaveTotals, Goto
  <2>2. cost' \in [Sessions -> Nat] /\ held' \in [Turns -> Nat]
    BY <2>1 DEF IInv, TypeOK
  <2>3. spoilt' \in [Sessions -> BOOLEAN]
    <3>1. Dead(t) \in BOOLEAN /\ spoilt' = [spoilt EXCEPT ![sess[t]] = Dead(t)]
      BY <1>15 DEF SaveTotals, Dead
    <3>2. spoilt \in [Sessions -> BOOLEAN]
      BY DEF IInv, TypeOK
    <3> HIDE DEF ghost, who, sides, books, leave
    <3> QED
      BY <3>1, <3>2, Zenon
  <2>4. TypeOK'
    BY <1>1, <1>2, <2>1, <2>2, <2>3 DEF IInv, TypeOK
  <2> QED
    BY <1>2, <1>3, <2>1, <2>4, MoveKeeps
<1>16. ASSUME NEW to \in {"loop", "over"}, EndTools(t, to) PROVE IInv'
  <2>1. /\ pc[t] = "tools" /\ pc' = [pc EXCEPT ![t] = to]
        /\ \A v \in Turns : of[v] = t => ~InProgress(v)
        /\ UNCHANGED <<books, who, call, dead, detached, held, sides, leave, ghost>>
    BY <1>16 DEF EndTools, Goto
  <2>2. TypeOK'
    BY <1>1, <1>2, <2>1 DEF IInv, TypeOK
  <2> QED
    BY <1>2, <1>3, <2>1, <2>2, MoveKeeps
<1> QED
  BY <1>4, <1>5, <1>6, <1>7, <1>8, <1>9, <1>10, <1>11, <1>12, <1>13, <1>14, <1>15, <1>16,
     StartCallKeeps, CompleteCallKeeps DEF Turn, Reconcile

LEMMA BeginKeeps == ASSUME IInv, NEW t \in Turns, NEW s \in Sessions, Opens(t, s) PROVE IInv'
<1>1. /\ pc[t] = "idle" /\ pc' = [pc EXCEPT ![t] = "loop"] /\ sess' = [sess EXCEPT ![t] = s]
      /\ UNCHANGED <<books, of, call, dead, detached, held, compact, copy, granted, approved,
                     unread, ghost>>
      /\ auto' \subseteq Sessions
  BY DEF Opens, Begin, BeginHeadless, Goto, leave, IInv, TypeOK
<1>2. title' \in [Sessions -> {"none", "asking", "set"}]
  BY DEF Opens, Begin, BeginHeadless, IInv, TypeOK
<1>3. TypeOK'
  <2>1. pc' \in [Turns -> States]
    BY <1>1 DEF IInv, TypeOK, States
  <2> QED
    BY <1>1, <1>2, <2>1 DEF IInv, TypeOK, books, ghost
<1>4. sess'[t] # None /\ \A u \in Turns \ {t} : sess'[u] = sess[u]
  BY <1>1, LedgerAssumption DEF IInv, TypeOK
<1>5. auto \subseteq auto' \/ \A u \in Turns : pc[u] # "open"
  BY DEF Opens, Begin, BeginHeadless, leave, IInv, KinTrue, Kin
<1> QED
  BY <1>1, <1>3, <1>4, <1>5, MoveKeeps DEF States, books, ghost
------------------------------------------------------------------------------
LEMMA NextKeeps == IInv /\ [Next]_vars => IInv'
<1> SUFFICES ASSUME IInv, [Next]_vars PROVE IInv'
  OBVIOUS
<1>1. CASE UNCHANGED vars
  <2> USE <1>1 DEF vars, books, who, sides, leave, ghost, IInv
  <2>1. TypeOK' /\ KinTrue' /\ FinishingTrue'
    BY DEF TypeOK, KinTrue, Kin, InProgress, FinishingTrue, Finishing
  <2>2. \A v \in Turns : TaskTotals(v)' = TaskTotals(v)
    BY SameTotals DEF PaidBy
  <2>3. AllowedTrue' /\ OpenOnlyIfCut'
    BY <2>2, LeaveStays DEF AllowedTrue, Allowed, OpenOnlyIfCut, Dead
  <2> QED
    BY <2>1, <2>3
<1> QED
  BY <1>1, BeginKeeps, DelegateKeeps, CancelKeeps, TurnKeeps, SidesKeep DEF Next, Opens

\* The inductive invariant: kin, what closes a call and what allows one.
THEOREM Invariant == Spec => []IInv
  BY InitIInv, NextKeeps, PTL DEF Spec

\* Every record, row and count keeps its type (session.go 117-137,
\* cost/store.go 55-117).
THEOREM TypeCorrect == Spec => []TypeOK
<1>1. IInv => TypeOK
  BY DEF IInv
<1> QED
  BY <1>1, Invariant, PTL

\* A call stays started only when its request was cancelled after the answer, when
\* its end could not be written, or when the agent panicked (agent.go 321, 557-559,
\* 640-655, 814-846, 871-913).
THEOREM OpenOnlyIfCutAlways == Spec => []OpenOnlyIfCut
<1>1. IInv => OpenOnlyIfCut
  BY DEF IInv
<1> QED
  BY <1>1, Invariant, PTL

\* No step opens a call beyond its task's budget without leave.
LEMMA StepsApproved ==
  ASSUME IInv, [Next]_vars, NEW t \in Turns, Len(calls') > Len(calls),
         calls'[Len(calls')].turn = t, TaskTotals(t) >= Budget
  PROVE  HasLeave(t)
<1>1. ASSUME NEW u \in Turns, NEW i, NEW to \in {"completed", "failed", "cancelled"},
             NEW charge \in 0 .. 1, i = call[u], FinishCall(i, to, charge)
      PROVE  FALSE
  <2>1. i = 0 \/ i \in DOMAIN calls
    BY <1>1 DEF IInv, KinTrue, Kin
  <2>2. Len(calls') = Len(calls)
    BY <1>1, <2>1, ClosedFacts, FinishCallWays DEF IInv, Missed
  <2> QED
    BY <2>2 DEF IInv, TypeOK
<1>2. calls' # calls
  BY DEF IInv, TypeOK
<1>3. PICK u \in Turns : Turn(u)
  BY <1>2 DEF Next, vars, books, Begin, BeginHeadless, Delegate, Cancel, SetTitle, Summarize, ReadSession,
              SaveSummary, FailSummary
<1>4. ~Abort(u) /\ ~CompleteCall(u)
  BY <1>1, <1>2 DEF Abort, CompleteCall
<1>5. StartCall(u)
  BY <1>2, <1>3, <1>4 DEF Turn, Reconcile, CheckDone, BudgetStop, BudgetUnread, PassUnasked, Answer,
                          Panic, Complete, EndStream, Fail, ReadTotals, SaveTotals, EndTools, books
<1>6. u = t
  <2> DEFINE new == [turn |-> u, sess |-> sess[u], cost |-> 0, status |-> "started"]
  <2>1. calls' = Append(calls, new) /\ calls \in Seq(Call) /\ new \in Call
    BY <1>2, <1>5 DEF StartCall, Goto, IInv, KinTrue, Kin, TypeOK, Call
  <2>2. new.turn = u
    OBVIOUS
  <2> HIDE DEF new
  <2>3. Len(calls') = Len(calls) + 1 /\ calls'[Len(calls) + 1] = new
    BY <2>1, AppendProperties
  <2> QED
    BY <2>2, <2>3
<1> QED
  BY <1>5, <1>6 DEF StartCall, Goto, IInv, AllowedTrue, Allowed

\* A task makes a call beyond its budget only with the user's leave, at that very
\* spending or for the session, in a session that asks for none, or when what it
\* spent could not be read (agent.go 921-980; permission.go 145-204).
THEOREM OverBudgetOnlyIfApprovedAlways == Spec => OverBudgetOnlyIfApproved
<1>1. IInv /\ [Next]_vars =>
        [\A t \in Turns :
           Len(calls') > Len(calls) /\ calls'[Len(calls')].turn = t /\ TaskTotals(t) >= Budget =>
             approved[t] = TaskTotals(t) \/ Granted(t) \/ AutoApproved(t) \/ t \in unread]_vars
  BY StepsApproved DEF HasLeave
<1> QED
  BY <1>1, Invariant, PTL DEF Spec, OverBudgetOnlyIfApproved

------------------------------------------------------------------------------
\* The totals of a session.

\* Who works in which session: a call is booked on the session of its turn; a
\* subagent has a session to itself, below that of the turn it works for, and
\* none below; a session nobody works in has cost nothing; only a session of
\* turns is compacted.
Families ==
  /\ \A i \in DOMAIN calls : calls[i].sess = sess[calls[i].turn]
  /\ \A t \in Turns : of[t] # None =>
       /\ pc[of[t]] # "idle" /\ of[of[t]] = None /\ parent[sess[t]] = sess[of[t]]
       /\ \A u \in Turns : sess[u] = sess[t] => u = t
  /\ \A t \in Turns : of[t] = None /\ sess[t] # None => parent[sess[t]] = None
  /\ \A t \in Turns : pc[t] = "idle" => sess[t] = None
  /\ \A c \in Sessions : parent[c] # None => \E t \in Turns : of[t] # None /\ sess[t] = c
  /\ \A c \in Sessions : parent[c] # None => c \notin UserSessions
  /\ \A c \in Sessions : compact[c] # "none" => \E t \in Turns : of[t] = None /\ sess[t] = c
  /\ \A c \in Sessions : (\A t \in Turns : sess[t] # c) => cost[c] = 0

Live(t) == InProgress(t) /\ ~Dead(t)

OneLive == \A t, u \in Turns : Live(t) /\ Live(u) /\ sess[t] = sess[u] => t = u

\* A live turn's calls are its session's last, a live subagent has made its calls
\* after those of the session above it, and a tracker points to the last call of
\* its turn.
InOrder ==
  \A i, j \in DOMAIN calls :
    LET t == calls[i].turn
        u == calls[j].turn
    IN /\ i < j /\ Live(t) /\ calls[j].sess = calls[i].sess => u = t
       /\ Live(u) /\ of[u] # None /\ sess[of[u]] = calls[i].sess => i < j
       /\ call[t] # 0 /\ u = t => j <= call[t]

\* A call that has its record is open until it is closed.
CallsMade ==
  \A t \in Turns :
    pc[t] \in {"stream", "finish"} /\ call[t] # 0 => calls[call[t]].status = "started"

\* A subagent's session has its total stored, but for the call that it is
\* about to account for.
SubagentsPaid ==
  \A t \in Turns :
    /\ of[t] # None
    /\ \/ pc[t] \in {"loop", "budget", "ask", "open", "stream", "finish", "tools"}
       \/ pc[t] \in {"totals", "save"} /\ (t \in detached \/ call[t] = 0)
    => cost[sess[t]] = SessionTotals(sess[t])

\* What a live turn, or a subagent's, is about to store is true.
HeldTrue ==
  \A t \in Turns : pc[t] = "save" /\ (~Dead(t) \/ of[t] # None) =>
    held[t] = SessionTotals(sess[t])

\* A session's total is stored once its last call is closed, unless that call is
\* still to be accounted for, or the total was written over or never written.
TotalsKept ==
  \A s \in Sessions, i \in DOMAIN calls :
    LET t == calls[i].turn
    IN LastCall(s, i) /\ ~Dead(t) /\ calls[i].status = "completed" /\ ~spoilt[s] =>
         (pc[t] \in {"totals", "save"} /\ call[t] = i) \/ cost[s] = SessionTotals(s)

TotalsInv ==
  /\ Families /\ OneLive /\ InOrder /\ CallsMade /\ SubagentsPaid /\ HeldTrue /\ TotalsKept

\* The two parts of a session's totals.
PaidIn(s) == {i \in CallsOf(s) : calls[i].cost = 1 /\ calls[i].status # "started"}
UnitsOf(s) == {p \in ChildrenOf(s) \X Ids : p[2] <= cost[p[1]]}

LEMMA SameSession ==
  ASSUME NEW s, PaidIn(s)' = PaidIn(s), UnitsOf(s)' = UnitsOf(s)
  PROVE  SessionTotals(s)' = SessionTotals(s)
<1>1. SessionTotals(s) = Cardinality(PaidIn(s)) + Cardinality(UnitsOf(s))
  BY DEF SessionTotals, Charged, ChildCost, PaidIn, UnitsOf
<1>2. SessionTotals(s)' = Cardinality(PaidIn(s)') + Cardinality(UnitsOf(s)')
  BY DEF SessionTotals, Charged, ChildCost, PaidIn, UnitsOf
<1> QED
  BY <1>1, <1>2

\* The costs of a session's children decide the second.
LEMMA SameUnits ==
  ASSUME NEW s, ChildrenOf(s)' = ChildrenOf(s), \A c \in ChildrenOf(s) : cost'[c] = cost[c]
  PROVE  UnitsOf(s)' = UnitsOf(s)
BY DEF UnitsOf

\* A turn that has begun.
LEMMA Begun ==
  ASSUME IInv, NEW t \in Turns, pc[t] # "idle"
  PROVE  sess[t] \in Sessions
BY DEF IInv, TypeOK, KinTrue, Kin

\* No session is its own child, a subagent's has none, and who works in a child
\* is a subagent.
LEMMA KinOfSessions ==
  ASSUME IInv, Families
  PROVE  /\ \A s \in Sessions : s \notin ChildrenOf(s)
         /\ \A t \in Turns : of[t] # None => ChildrenOf(sess[t]) = {}
         /\ \A s \in Sessions, t \in Turns : sess[t] \in ChildrenOf(s) =>
              of[t] \in Turns /\ sess[of[t]] = s
<1> USE DEF Families, ChildrenOf
<1>0. /\ of \in [Turns -> Turns \cup {None}] /\ sess \in [Turns -> Sessions \cup {None}]
      /\ parent \in [Sessions -> Sessions \cup {None}]
      /\ None \notin Turns /\ None \notin Sessions
  BY LedgerAssumption DEF IInv, TypeOK
<1>1. ASSUME NEW s \in Sessions, NEW c \in Sessions, parent[c] = s
      PROVE  \E t \in Turns : of[t] \in Turns /\ sess[t] = c /\ sess[of[t]] = s /\ of[of[t]] = None
  BY <1>0, <1>1
<1>2. ASSUME NEW s \in Sessions, parent[s] = s PROVE FALSE
  BY <1>0, <1>1, <1>2
<1>3. ASSUME NEW t \in Turns, of[t] # None, NEW c \in Sessions, parent[c] = sess[t] PROVE FALSE
  <2>1. sess[t] \in Sessions
    BY <1>0, <1>3, Begun DEF IInv, KinTrue, Kin
  <2>2. PICK u \in Turns : of[u] \in Turns /\ sess[of[u]] = sess[t] /\ of[of[u]] = None
    BY <1>1, <1>3, <2>1
  <2>3. of[u] = t
    BY <1>3, <2>2
  <2> QED
    BY <1>3, <2>2, <2>3
<1>4. ASSUME NEW s \in Sessions, NEW t \in Turns, sess[t] \in Sessions, parent[sess[t]] = s
      PROVE  of[t] \in Turns /\ sess[of[t]] = s
  BY <1>0, <1>4
<1> QED
  BY <1>2, <1>3, <1>4

LEMMA Callers ==
  ASSUME IInv, NEW i \in DOMAIN calls
  PROVE  /\ calls[i].turn \in Turns /\ calls[i].sess \in Sessions
         /\ pc[calls[i].turn] # "idle" /\ i \in Nat
<1>1. calls[i] \in Call /\ calls[i].turn \in Turns
  BY CallTyped DEF IInv
<1>2. i \in Nat
  BY DEF IInv, TypeOK
<1> QED
  BY <1>1, <1>2 DEF Call, IInv, KinTrue, Kin
------------------------------------------------------------------------------
\* The shapes of a step.

\* It changes nothing but sides, or cancels.
Rests ==
  /\ UNCHANGED <<calls, cost, parent, pc, sess, of, call, detached, held, spoilt>>
  /\ dead \subseteq dead'

\* A turn goes on with its calls and the stored totals as they are.
Moves(t, from, to) ==
  /\ pc[t] = from /\ pc' = [pc EXCEPT ![t] = to]
  /\ \/ from \in {"loop", "budget", "ask"} /\ to \in {"budget", "ask", "open", "over"}
     \/ from = "tools" /\ to \in {"loop", "over"}
     \/ from = "stream" /\ to \in {"finish", "over"}
     \/ from = "finish" /\ to = "totals"
     \/ /\ from \in {"totals", "save"} /\ to \in {"tools", "over"}
        /\ to = "tools" => t \in detached
        /\ Dead(t) \/ spoilt'[sess[t]]
  /\ \A u \in Turns \ {t} : held'[u] = held[u] /\ (u \in detached' <=> u \in detached)
  /\ \A s \in Sessions : spoilt[s] => spoilt'[s]
  /\ t \in detached => from \in {"totals", "save"} \/ t \in detached'
  /\ UNCHANGED <<calls, cost, parent, sess, of, call, dead>>

\* It closes its call, and charges it when it was answered in full.
Closes(t, to, said, charge) ==
  /\ pc[t] \in {"stream", "finish"} /\ pc' = [pc EXCEPT ![t] = to]
  /\ Closed(call[t], said, charge)
  /\ \/ to = "over" /\ said \in {"failed", "cancelled"} /\ charge = 0
     \/ to = "totals" /\ said = "completed" /\ charge = 0 /\ t \in detached
     \/ to = "totals" /\ said = "completed" /\ charge = 1 /\ t \notin detached /\ ~Dead(t)
  /\ UNCHANGED <<cost, parent, sess, of, call, dead, detached, held, spoilt>>

LEMMA StepIs ==
  ASSUME IInv, [Next]_vars
  PROVE  \/ Rests
         \/ \E t \in Turns, s \in Sessions : Opens(t, s)
         \/ \E t \in Turns, u \in Turns, c \in Sessions : Delegate(t, u, c)
         \/ \E t \in Turns, from, to \in States : Moves(t, from, to)
         \/ \E t \in Turns : StartCall(t)
         \/ \E t \in Turns, to \in States, said \in {"completed", "failed", "cancelled"},
               charge \in 0 .. 1 : Closes(t, to, said, charge)
         \/ \E t \in Turns : ReadTotals(t)
         \/ \E t \in Turns : SaveTotals(t)
         \/ \E s \in Sessions : SaveSummary(s)
<1> USE DEF books, who, sides, leave, ghost
<1>0. held \in [Turns -> Nat] /\ spoilt \in [Sessions -> BOOLEAN]
  BY DEF IInv, TypeOK
<1>1. CASE UNCHANGED vars
  BY <1>1 DEF Rests, vars
<1>2. ASSUME NEW t \in Turns, Cancel(t) PROVE Rests
  BY <1>2 DEF Rests, Cancel
<1>3. ASSUME NEW s \in Sessions, SetTitle(s) \/ Summarize(s) \/ ReadSession(s) \/ FailSummary(s)
      PROVE  Rests
  BY <1>3 DEF Rests, SetTitle, Summarize, ReadSession, FailSummary
<1> DEFINE Moved == \E t \in Turns, from, to \in States : Moves(t, from, to)
           Quiet == UNCHANGED <<calls, cost, parent, sess, of, call, dead, held, spoilt>>
<1>4. ASSUME NEW t \in Turns, NEW from \in States, NEW to \in States, Goto(t, from, to), Quiet,
             \A u \in Turns \ {t} : u \in detached' <=> u \in detached,
             t \in detached => t \in detached',
             \/ from \in {"loop", "budget", "ask"} /\ to \in {"budget", "ask", "open", "over"}
             \/ from = "tools" /\ to \in {"loop", "over"}
             \/ from = "stream" /\ to \in {"finish", "over"}
             \/ from = "finish" /\ to = "totals"
      PROVE  Moved
  <2>1. Moves(t, from, to)
    BY <1>4 DEF Moves, Goto
  <2> HIDE DEF Moves
  <2> QED
    BY <2>1
<1>5. ASSUME NEW t \in Turns,
             \/ CheckDone(t) \/ BudgetStop(t) \/ BudgetUnread(t) \/ PassUnasked(t)
             \/ \E how \in {"deny", "once", "session"} : Answer(t, how)
      PROVE  Moved
  <2> PICK from \in {"loop", "budget", "ask"}, to \in {"budget", "ask", "open", "over"} :
             Goto(t, from, to)
    BY <1>5 DEF CheckDone, BudgetStop, BudgetUnread, PassUnasked, Answer
  <2>1. Quiet /\ detached' = detached
    BY <1>5 DEF CheckDone, BudgetStop, BudgetUnread, PassUnasked, Answer
  <2>2. from \in States /\ to \in States
    BY DEF States
  <2> HIDE DEF Moved, Quiet
  <2> QED
    BY <1>4, <2>1, <2>2
<1>6. ASSUME NEW t \in Turns, Panic(t) \/ Complete(t) \/ EndStream(t) PROVE Moved
  <2> PICK to \in {"finish", "over"} : Goto(t, "stream", to)
    BY <1>6 DEF Panic, Complete, EndStream
  <2>1. /\ Quiet /\ \A u \in Turns \ {t} : u \in detached' <=> u \in detached
        /\ t \in detached => t \in detached'
    BY <1>6 DEF Panic, Complete, EndStream
  <2>2. "stream" \in States /\ to \in States
    BY DEF States
  <2> HIDE DEF Moved, Quiet
  <2> QED
    BY <1>4, <2>1, <2>2
<1>7. ASSUME NEW t \in Turns, NEW to \in {"loop", "over"}, EndTools(t, to) PROVE Moved
  <2>1. Goto(t, "tools", to) /\ Quiet /\ detached' = detached
    BY <1>7 DEF EndTools
  <2>2. "tools" \in States /\ to \in States
    BY DEF States
  <2> HIDE DEF Moved, Quiet
  <2> QED
    BY <1>4, <2>1, <2>2
<1>8. ASSUME NEW t \in Turns, Fail(t) PROVE Moved
  <2> DEFINE to == IF t \in detached THEN "tools" ELSE "over"
  <2>1. pc[t] \in {"totals", "save"} /\ sess[t] \in Sessions
    BY <1>8, Begun DEF Fail
  <2>2. spoilt' = spoilt \/ spoilt' = [spoilt EXCEPT ![sess[t]] = TRUE]
    BY <1>8 DEF Fail
  <2>3. \A s \in Sessions : spoilt[s] => spoilt'[s]
    BY <1>0, <2>1, <2>2
  <2>4. Dead(t) \/ spoilt'[sess[t]]
    BY <1>0, <1>8, <2>1 DEF Fail, Cut
  <2>5. /\ pc' = [pc EXCEPT ![t] = to]
        /\ \A u \in Turns \ {t} : held'[u] = held[u] /\ (u \in detached' <=> u \in detached)
        /\ UNCHANGED <<calls, cost, parent, sess, of, call, dead>>
    BY <1>0, <1>8 DEF Fail
  <2>6. Moves(t, pc[t], to)
    BY <2>1, <2>3, <2>4, <2>5 DEF Moves
  <2>7. pc[t] \in States /\ to \in States
    BY <2>1 DEF States
  <2> HIDE DEF Moves, to
  <2> QED
    BY <2>6, <2>7
<1>9. ASSUME NEW t \in Turns, Abort(t)
      PROVE  \/ Moved
             \/ \E to \in States, said \in {"completed", "failed", "cancelled"}, charge \in 0 .. 1 :
                  Closes(t, to, said, charge)
  <2>1. PICK said \in {"failed", "cancelled"} : FinishCall(call[t], said, 0)
    BY <1>9 DEF Abort
  <2>2. "stream" \in States /\ "over" \in States /\ 0 \in 0 .. 1
    BY DEF States
  <2>3. CASE Closed(call[t], said, 0)
    <3>1. Closes(t, "over", said, 0)
      BY <1>9, <2>3 DEF Abort, Goto, Closes
    <3> HIDE DEF Closes
    <3> QED
      BY <2>2, <3>1
  <2>4. CASE Missed(call[t])
    <3>1. Goto(t, "stream", "over") /\ Quiet /\ detached' = detached
      BY <1>9, <2>4 DEF Abort, Missed
    <3> HIDE DEF Moved, Quiet
    <3> QED
      BY <1>4, <2>2, <3>1
  <2> QED
    BY <2>1, <2>3, <2>4, FinishCallWays
<1>10. ASSUME NEW t \in Turns, CompleteCall(t)
       PROVE  \/ Moved
              \/ \E to \in States, said \in {"completed", "failed", "cancelled"}, charge \in 0 .. 1 :
                   Closes(t, to, said, charge)
  <2> DEFINE charge == IF t \in detached THEN 0 ELSE 1
  <2>1. "finish" \in States /\ "totals" \in States /\ charge \in 0 .. 1
    BY DEF States
  <2>2. CASE Cut(t) \/ Missed(call[t])
    <3>1. Goto(t, "finish", "totals") /\ Quiet /\ detached' = detached
      BY <1>10, <2>2 DEF CompleteCall, Missed, FinishCall
    <3> HIDE DEF Moved, Quiet
    <3> QED
      BY <1>4, <2>1, <3>1
  <2>3. CASE ~Cut(t) /\ Closed(call[t], "completed", charge)
    <3>1. Closes(t, "totals", "completed", charge)
      BY <1>10, <2>3 DEF CompleteCall, Goto, Cut, Closes
    <3> HIDE DEF Closes, charge
    <3> QED
      BY <2>1, <3>1
  <2>4. Cut(t) \/ FinishCall(call[t], "completed", charge)
    BY <1>10 DEF CompleteCall
  <2> QED
    BY <2>2, <2>3, <2>4, FinishCallWays
<1> QED
  BY <1>1, <1>2, <1>3, <1>5, <1>6, <1>7, <1>8, <1>9, <1>10 DEF Next, Opens, Turn, Reconcile

\* Opening a call: it has a record, or it has none.
LEMMA StartCallIs ==
  ASSUME IInv, NEW t \in Turns, StartCall(t)
  PROVE  /\ pc[t] = "open" /\ pc' = [pc EXCEPT ![t] = "stream"]
         /\ UNCHANGED <<cost, parent, sess, of, dead, detached, held, spoilt, compact>>
         /\ \A u \in Turns \ {t} : call'[u] = call[u]
         /\ DOMAIN calls \subseteq DOMAIN calls' /\ \A i \in DOMAIN calls : calls'[i] = calls[i]
         /\ \/ calls' = calls /\ call'[t] = 0
            \/ /\ ~Dead(t) /\ call'[t] = Len(calls) + 1 /\ call'[t] # 0
               /\ DOMAIN calls' = DOMAIN calls \cup {Len(calls) + 1}
               /\ calls'[Len(calls) + 1].turn = t /\ calls'[Len(calls) + 1].sess = sess[t]
               /\ calls'[Len(calls) + 1].status = "started"
         /\ \A i \in DOMAIN calls : i < Len(calls) + 1
<1>1. /\ pc[t] = "open" /\ pc' = [pc EXCEPT ![t] = "stream"]
      /\ UNCHANGED <<cost, parent, sess, of, dead, detached, held, spoilt, compact>>
  BY DEF StartCall, Goto, who, sides
<1>2. /\ Len(calls) \in Nat /\ DOMAIN calls = 1 .. Len(calls) /\ calls \in Seq(Call)
      /\ call \in [Turns -> 0 .. MaxCalls]
  BY DEF IInv, TypeOK
<1>3. CASE calls' = calls /\ call' = [call EXCEPT ![t] = 0]
  BY <1>1, <1>2, <1>3
<1>4. CASE /\ ~Dead(t)
           /\ calls' = Append(calls, [turn |-> t, sess |-> sess[t], cost |-> 0,
                                      status |-> "started"])
           /\ call' = [call EXCEPT ![t] = Len(calls) + 1]
  <2> DEFINE new == [turn |-> t, sess |-> sess[t], cost |-> 0, status |-> "started"]
  <2>1. new \in Call /\ new.turn = t /\ new.sess = sess[t] /\ new.status = "started"
    BY <1>1, Begun DEF Call
  <2>2. calls' = Append(calls, new) /\ call' = [call EXCEPT ![t] = Len(calls) + 1]
    BY <1>4
  <2> HIDE DEF new
  <2>3. /\ Len(calls') = Len(calls) + 1 /\ calls' \in Seq(Call)
        /\ \A i \in 1 .. Len(calls) : calls'[i] = calls[i]
        /\ calls'[Len(calls) + 1] = new
    BY <1>2, <2>1, <2>2, AppendProperties
  <2>4. DOMAIN calls' = 1 .. (Len(calls) + 1)
    BY <2>3
  <2>5. DOMAIN calls' = DOMAIN calls \cup {Len(calls) + 1}
    BY <1>2, <2>4
  <2>6. call'[t] = Len(calls) + 1 /\ \A u \in Turns \ {t} : call'[u] = call[u]
    BY <1>2, <2>2
  <2>7. Len(calls) + 1 # 0 /\ \A i \in DOMAIN calls : i < Len(calls) + 1
    BY <1>2
  <2> QED
    BY <1>1, <1>2, <1>4, <2>1, <2>3, <2>5, <2>6, <2>7
<1> QED
  BY <1>3, <1>4 DEF StartCall

LEMMA BeginIs ==
  ASSUME IInv, NEW t \in Turns, NEW s \in Sessions, Opens(t, s)
  PROVE  /\ pc[t] = "idle" /\ pc'[t] = "loop" /\ sess'[t] = s
         /\ \A u \in Turns \ {t} : pc'[u] = pc[u] /\ sess'[u] = sess[u]
         /\ s \in UserSessions
         /\ \A u \in Turns : sess[u] = s => ~Live(u)
         /\ UNCHANGED <<calls, cost, parent, of, call, dead, detached, held, spoilt, compact>>
BY LedgerAssumption DEF Opens, Begin, BeginHeadless, Goto, Live, IInv, TypeOK, books, sides, ghost

LEMMA DelegateIs ==
  ASSUME IInv, NEW t \in Turns, NEW u \in Turns, NEW c \in Sessions, Delegate(t, u, c)
  PROVE  /\ pc[t] = "tools" /\ of[t] = None /\ u # t
         /\ \A v \in Turns : of[v] = t => ~InProgress(v)
         /\ c # sess[t] /\ c \notin UserSessions
         /\ \A v \in Turns : sess[v] # c
         /\ pc[u] = "idle" /\ pc'[u] = "loop" /\ sess'[u] = c /\ of'[u] = t
         /\ \A v \in Turns \ {u} : pc'[v] = pc[v] /\ sess'[v] = sess[v] /\ of'[v] = of[v]
         /\ parent'[c] = sess[t] /\ \A d \in Sessions \ {c} : parent'[d] = parent[d]
         /\ UNCHANGED <<calls, cost, call, dead, detached, held, spoilt, compact>>
BY DEF Delegate, Goto, IInv, TypeOK, sides, ghost

\* The session of a new subagent is below no other, and none is below it.
LEMMA DelegateFresh ==
  ASSUME IInv, Families, NEW t \in Turns, NEW u \in Turns, NEW c \in Sessions, Delegate(t, u, c)
  PROVE  parent[c] = None /\ ChildrenOf(c) = {}
<1>1. \A v \in Turns : sess[v] # c
  BY DelegateIs
<1>2. parent[c] = None
  BY <1>1 DEF Families
<1>3. ASSUME NEW d \in Sessions, parent[d] = c PROVE FALSE
  <2>1. PICK v \in Turns : of[v] # None /\ sess[v] = d
    BY <1>3, LedgerAssumption DEF Families
  <2>2. of[v] \in Turns /\ sess[of[v]] = c
    BY <1>3, <2>1 DEF Families, IInv, TypeOK
  <2> QED
    BY <1>1, <2>2
<1> QED
  BY <1>2, <1>3 DEF ChildrenOf

LEMMA ClosesIs ==
  ASSUME IInv, CallsMade, NEW t \in Turns, NEW to \in States,
         NEW said \in {"completed", "failed", "cancelled"}, NEW charge \in 0 .. 1,
         Closes(t, to, said, charge)
  PROVE  /\ DOMAIN calls' = DOMAIN calls
         /\ \A j \in DOMAIN calls : calls'[j].turn = calls[j].turn /\ calls'[j].sess = calls[j].sess
         /\ \A j \in DOMAIN calls : j # call[t] => calls'[j] = calls[j]
         /\ call[t] # 0 =>
              /\ call[t] \in DOMAIN calls /\ calls[call[t]].turn = t
              /\ calls[call[t]].status = "started"
              /\ calls'[call[t]].status = said /\ calls'[call[t]].cost = charge
<1>1. call[t] = 0 \/ (call[t] \in DOMAIN calls /\ calls[call[t]].turn = t)
  BY DEF IInv, KinTrue, Kin
<1>2. /\ calls' \in Seq(Call) /\ Len(calls') = Len(calls) /\ DOMAIN calls' = DOMAIN calls
      /\ \A j \in DOMAIN calls : calls'[j].turn = calls[j].turn /\ calls'[j].sess = calls[j].sess
      /\ \A j \in DOMAIN calls : IF j = call[t] THEN calls'[j].status = said /\ calls'[j].cost = charge
                                                ELSE calls'[j] = calls[j]
  BY <1>1, ClosedFacts DEF IInv, Closes
<1> QED
  BY <1>1, <1>2 DEF CallsMade, Closes

LEMMA SaveTotalsIs ==
  ASSUME IInv, NEW t \in Turns, SaveTotals(t)
  PROVE  /\ pc[t] = "save" /\ pc'[t] = "tools" /\ ~Cut(t) /\ sess[t] \in Sessions
         /\ \A u \in Turns \ {t} : pc'[u] = pc[u] /\ held'[u] = held[u]
                                   /\ (u \in detached' <=> u \in detached)
         /\ cost'[sess[t]] = held[t] /\ spoilt'[sess[t]] = Dead(t)
         /\ \A s \in Sessions \ {sess[t]} : cost'[s] = cost[s] /\ spoilt'[s] = spoilt[s]
         /\ UNCHANGED <<calls, parent, sess, of, call, dead, compact>>
<1>1. pc[t] = "save" /\ sess[t] \in Sessions
  BY Begun DEF SaveTotals, Goto
<1> QED
  BY <1>1 DEF SaveTotals, Goto, IInv, TypeOK, who, sides

LEMMA ReadTotalsIs ==
  ASSUME IInv, NEW t \in Turns, ReadTotals(t)
  PROVE  /\ pc[t] = "totals" /\ pc'[t] = "save" /\ ~Cut(t) /\ sess[t] \in Sessions
         /\ held'[t] = SessionTotals(sess[t])
         /\ \A u \in Turns \ {t} : pc'[u] = pc[u] /\ held'[u] = held[u]
         /\ UNCHANGED <<calls, cost, parent, sess, of, call, dead, detached, spoilt, compact>>
<1>1. pc[t] = "totals" /\ sess[t] \in Sessions
  BY Begun DEF ReadTotals, Goto
<1> QED
  BY <1>1 DEF ReadTotals, Goto, IInv, TypeOK, books, who, sides, ghost

LEMMA SaveSummaryIs ==
  ASSUME IInv, NEW s \in Sessions, SaveSummary(s)
  PROVE  /\ compact[s] = "read" /\ spoilt'[s]
         /\ \A c \in Sessions : compact'[c] # "none" => compact[c] # "none"
         /\ \A c \in Sessions \ {s} : cost'[c] = cost[c] /\ spoilt'[c] = spoilt[c]
         /\ UNCHANGED <<calls, parent, pc, sess, of, call, dead, detached, held>>
BY DEF SaveSummary, IInv, TypeOK, who

\* Only a session of its own is compacted.
LEMMA Compacted ==
  ASSUME IInv, Families, [Next]_vars, NEW c \in Sessions, compact'[c] # "none", compact[c] = "none"
  PROVE  \E t \in Turns : of[t] = None /\ sess[t] = c
<1> USE DEF sides, IInv, TypeOK
<1>1. ~UNCHANGED compact
  OBVIOUS
<1>2. PICK s \in Sessions : Summarize(s) \/ ReadSession(s) \/ SaveSummary(s) \/ FailSummary(s)
  <2> HIDE DEF IInv, TypeOK
  <2>1. ASSUME NEW t \in Turns, Turn(t) PROVE UNCHANGED compact
    BY <2>1 DEF Turn, CheckDone, BudgetStop, BudgetUnread, PassUnasked, Answer, StartCall, Abort,
                Panic, Complete, EndStream, CompleteCall, Reconcile, Fail, ReadTotals, SaveTotals,
                EndTools
  <2>2. ASSUME NEW t \in Turns, NEW x \in Sessions, Opens(t, x) PROVE UNCHANGED compact
    BY <2>2 DEF Opens, Begin, BeginHeadless
  <2>3. ASSUME NEW t \in Turns, NEW u \in Turns, NEW x \in Sessions, Delegate(t, u, x)
        PROVE  UNCHANGED compact
    BY <2>3 DEF Delegate
  <2>4. ASSUME NEW t \in Turns, Cancel(t) PROVE UNCHANGED compact
    BY <2>4 DEF Cancel
  <2>5. ASSUME NEW x \in Sessions, SetTitle(x) PROVE UNCHANGED compact
    BY <2>5 DEF SetTitle
  <2>6. UNCHANGED vars => UNCHANGED compact
    BY DEF vars
  <2> QED
    BY <1>1, <2>1, <2>2, <2>3, <2>4, <2>5, <2>6 DEF Next, Opens
<1>3. CASE Summarize(s)
  <2>1. c = s /\ s \in UserSessions /\ \E t \in Turns : sess[t] = s
    BY <1>3 DEF Summarize
  <2>2. PICK t \in Turns : sess[t] = c
    BY <2>1
  <2>3. ASSUME of[t] # None PROVE FALSE
    <3>1. of[t] \in Turns /\ pc[of[t]] # "idle" /\ parent[c] = sess[of[t]]
      BY <2>2, <2>3 DEF Families
    <3>2. parent[c] # None
      BY <3>1 DEF KinTrue, Kin
    <3> QED
      BY <2>1, <3>2 DEF Families
  <2> QED
    BY <2>2, <2>3
<1>4. CASE ReadSession(s) \/ SaveSummary(s) \/ FailSummary(s)
  BY <1>4 DEF ReadSession, SaveSummary, FailSummary
<1> QED
  BY <1>2, <1>3, <1>4

\* What a turn that has begun does not lose, whatever the step.
LEMMA Grows ==
  ASSUME IInv, [Next]_vars
  PROVE  /\ \A v \in Turns : pc[v] # "idle" =>
              /\ pc'[v] # "idle" /\ sess'[v] = sess[v] /\ of'[v] = of[v]
              /\ pc[v] = "over" => pc'[v] = "over"
         /\ \A v \in Turns : Dead(v) => Dead(v)'
         /\ \A v \in Turns : Live(v)' => Live(v) \/ pc[v] = "idle"
<1>0. /\ pc \in [Turns -> States] /\ "idle" \in States
      /\ \A v \in Turns : pc[v] = "idle" => of[v] = None
      /\ dead \subseteq Turns /\ None \notin Turns
  BY LedgerAssumption DEF IInv, TypeOK, KinTrue, Kin, States
<1> DEFINE Claim ==
      /\ \A v \in Turns : pc[v] # "idle" =>
           /\ pc'[v] # "idle" /\ sess'[v] = sess[v] /\ of'[v] = of[v]
           /\ pc[v] = "over" => pc'[v] = "over"
      /\ \A v \in Turns : Dead(v) => Dead(v)'
      /\ \A v \in Turns : Live(v)' => Live(v) \/ pc[v] = "idle"
<1> USE DEF Live, InProgress, Dead
<1>1. ASSUME Rests PROVE Claim
  BY <1>0, <1>1 DEF Rests
<1>2. ASSUME NEW t \in Turns, NEW s \in Sessions, Opens(t, s) PROVE Claim
  BY <1>0, <1>2, BeginIs
<1>3. ASSUME NEW t \in Turns, NEW u \in Turns, NEW c \in Sessions, Delegate(t, u, c) PROVE Claim
  BY <1>0, <1>3, DelegateIs
<1>4. ASSUME NEW t \in Turns, NEW from \in States, NEW to \in States, Moves(t, from, to) PROVE Claim
  BY <1>0, <1>4 DEF Moves
<1>5. ASSUME NEW t \in Turns, StartCall(t) PROVE Claim
  BY <1>0, <1>5, StartCallIs
<1>6. ASSUME NEW t \in Turns, NEW to \in States, NEW said \in {"completed", "failed", "cancelled"},
             NEW charge \in 0 .. 1, Closes(t, to, said, charge)
      PROVE  Claim
  BY <1>0, <1>6 DEF Closes
<1>7. ASSUME NEW t \in Turns, ReadTotals(t) PROVE Claim
  BY <1>0, <1>7, ReadTotalsIs
<1>8. ASSUME NEW t \in Turns, SaveTotals(t) PROVE Claim
  BY <1>0, <1>8, SaveTotalsIs
<1>9. ASSUME NEW s \in Sessions, SaveSummary(s) PROVE Claim
  BY <1>0, <1>9, SaveSummaryIs
<1> HIDE DEF Claim
<1> Claim
  BY StepIs, <1>1, <1>2, <1>3, <1>4, <1>5, <1>6, <1>7, <1>8, <1>9
<1> QED
  BY DEF Claim

------------------------------------------------------------------------------
LEMMA FamiliesStep ==
  ASSUME IInv, Families, CallsMade, [Next]_vars
  PROVE  Families'
<1>0. /\ pc \in [Turns -> States] /\ sess \in [Turns -> Sessions \cup {None}]
      /\ of \in [Turns -> Turns \cup {None}] /\ parent \in [Sessions -> Sessions \cup {None}]
      /\ None \notin Turns /\ None \notin Sessions
      /\ \A v \in Turns : pc[v] = "idle" => of[v] = None
      /\ \A v \in Turns : pc[v] # "idle" => sess[v] \in Sessions
  BY Begun, LedgerAssumption DEF IInv, TypeOK, KinTrue, Kin
<1>00. \A i \in DOMAIN calls : calls[i].turn \in Turns /\ pc[calls[i].turn] # "idle"
  BY Callers
<1> DEFINE Booked == \A i \in DOMAIN calls : calls[i].sess = sess[calls[i].turn]
           Subagents == \A t \in Turns : of[t] # None =>
             /\ pc[of[t]] # "idle" /\ of[of[t]] = None /\ parent[sess[t]] = sess[of[t]]
             /\ \A u \in Turns : sess[u] = sess[t] => u = t
           Tops == \A t \in Turns : of[t] = None /\ sess[t] # None => parent[sess[t]] = None
           Idle == \A t \in Turns : pc[t] = "idle" => sess[t] = None
           Below == \A c \in Sessions : parent[c] # None => \E t \in Turns : of[t] # None /\ sess[t] = c
           Apart == \A c \in Sessions : parent[c] # None => c \notin UserSessions
           Rows == \A c \in Sessions : compact[c] # "none" => \E t \in Turns : of[t] = None /\ sess[t] = c
           Unused == \A c \in Sessions : (\A t \in Turns : sess[t] # c) => cost[c] = 0
           Most == Booked /\ Subagents /\ Tops /\ Idle /\ Below /\ Apart /\ Unused
<1>f. Most /\ Rows
  BY DEF Families
<1>1. ASSUME UNCHANGED <<parent, sess, of, cost>>, NEW t \in Turns, pc'[t] # "idle",
             \A v \in Turns \ {t} : pc'[v] = pc[v],
             \/ calls' = calls
             \/ /\ DOMAIN calls' = DOMAIN calls
                /\ \A j \in DOMAIN calls : calls'[j].turn = calls[j].turn /\ calls'[j].sess = calls[j].sess
             \/ /\ DOMAIN calls' = DOMAIN calls \cup {Len(calls) + 1}
                /\ \A j \in DOMAIN calls : calls'[j] = calls[j]
                /\ calls'[Len(calls) + 1].turn = t /\ calls'[Len(calls) + 1].sess = sess[t]
      PROVE  Most'
  <2>1. Booked'
    BY <1>1, <1>f
  <2>2. Subagents' /\ Idle'
    BY <1>0, <1>1, <1>f
  <2>3. Tops' /\ Below' /\ Apart' /\ Unused'
    BY <1>1, <1>f
  <2> QED
    BY <2>1, <2>2, <2>3
<1>2. ASSUME Rests PROVE Most'
  BY <1>2, <1>f DEF Rests
<1>3. ASSUME NEW t \in Turns, NEW s \in Sessions, Opens(t, s) PROVE Most'
  <2> USE BeginIs, <1>3, <1>0
  <2>1. of[t] = None /\ sess[t] = None /\ parent[s] = None /\ \A v \in Turns : of[v] # t
    BY <1>f
  <2>2. Booked'
    BY <1>f, <1>00
  <2>3. Subagents'
    <3> SUFFICES ASSUME NEW v \in Turns, of[v] # None
                 PROVE  /\ pc'[of[v]] # "idle" /\ of[of[v]] = None /\ parent[sess'[v]] = sess'[of[v]]
                        /\ \A u \in Turns : sess'[u] = sess'[v] => u = v
      OBVIOUS
    <3>1. v # t /\ of[v] # t /\ of[v] \in Turns
      BY <2>1
    <3>2. parent[sess[v]] \in Sessions /\ sess[v] # s
      BY <3>1, <1>f
    <3> QED
      BY <3>1, <3>2, <1>f
  <2>4. Tops' /\ Idle' /\ Unused'
    BY <1>f, <2>1
  <2>5. Below' /\ Apart'
    BY <1>f, <2>1
  <2> QED
    BY <2>2, <2>3, <2>4, <2>5
<1>4. ASSUME NEW t \in Turns, NEW u \in Turns, NEW c \in Sessions, Delegate(t, u, c) PROVE Most'
  <2> USE DelegateIs, DelegateFresh, <1>4, <1>0
  <2>1. of[u] = None /\ sess[u] = None /\ (\A v \in Turns : of[v] # u) /\ sess[t] \in Sessions
    BY <1>f
  <2>2. Booked'
    BY <1>f, <1>00
  <2>3. Subagents'
    <3> SUFFICES ASSUME NEW v \in Turns, of'[v] # None
                 PROVE  /\ pc'[of'[v]] # "idle" /\ of'[of'[v]] = None
                        /\ parent'[sess'[v]] = sess'[of'[v]]
                        /\ \A w \in Turns : sess'[w] = sess'[v] => w = v
      OBVIOUS
    <3>1. CASE v = u
      BY <3>1, <2>1, <1>f
    <3>2. CASE v # u
      <4>1. of'[v] = of[v] /\ of[v] \in Turns /\ of[v] # u /\ sess[v] # c /\ sess[v] \in Sessions
        BY <3>2, <2>1
      <4> QED
        BY <3>2, <4>1, <1>f
    <3> QED
      BY <3>1, <3>2
  <2>t. \A v \in Turns : v # u => sess'[v] = sess[v] /\ of'[v] = of[v] /\ sess[v] # c
    OBVIOUS
  <2>s. sess'[u] = c /\ of'[u] = t /\ t # None /\ pc'[u] # "idle"
    OBVIOUS
  <2>p. parent'[c] # None /\ \A d \in Sessions : d # c => parent'[d] = parent[d]
    BY <2>1
  <2>4. Tops' /\ Idle' /\ Unused'
    <3>1. Tops'
      <4> SUFFICES ASSUME NEW v \in Turns, of'[v] = None, sess'[v] # None
                   PROVE  parent'[sess'[v]] = None
        OBVIOUS
      <4>1. v # u /\ sess[v] \in Sessions /\ sess'[v] = sess[v] /\ sess[v] # c
        BY <2>s, <2>t
      <4> QED
        BY <1>f, <2>p, <2>t, <4>1
    <3>2. Idle'
      BY <1>f, <2>s, <2>t
    <3>3. Unused'
      <4> SUFFICES ASSUME NEW d \in Sessions, \A v \in Turns : sess'[v] # d
                   PROVE  cost[d] = 0
        BY DelegateIs, <1>4
      <4>1. \A v \in Turns : sess[v] # d
        BY <2>1, <2>t
      <4> QED
        BY <1>f, <4>1
    <3> QED
      BY <3>1, <3>2, <3>3
  <2>5. Below'
    <3> SUFFICES ASSUME NEW d \in Sessions, parent'[d] # None
                 PROVE  \E v \in Turns : of'[v] # None /\ sess'[v] = d
      OBVIOUS
    <3>1. CASE d = c
      BY <2>s, <3>1
    <3>2. CASE d # c
      <4>1. PICK v \in Turns : of[v] # None /\ sess[v] = d
        BY <1>f, <2>p, <3>2
      <4>2. v # u
        BY <2>1, <4>1
      <4> QED
        BY <2>t, <4>1, <4>2
    <3> QED
      BY <3>1, <3>2
  <2>6. Apart'
    BY <1>f, <2>p
  <2> QED
    BY <2>2, <2>3, <2>4, <2>5, <2>6
<1>5. ASSUME NEW t \in Turns, NEW from \in States, NEW to \in States, Moves(t, from, to) PROVE Most'
  BY <1>0, <1>1, <1>5 DEF Moves
<1>6. ASSUME NEW t \in Turns, StartCall(t) PROVE Most'
  <2>1. /\ UNCHANGED <<parent, sess, of, cost>> /\ pc'[t] # "idle"
        /\ \A v \in Turns \ {t} : pc'[v] = pc[v]
    BY <1>0, <1>6, StartCallIs
  <2>2. \/ calls' = calls
        \/ /\ DOMAIN calls' = DOMAIN calls \cup {Len(calls) + 1}
           /\ \A j \in DOMAIN calls : calls'[j] = calls[j]
           /\ calls'[Len(calls) + 1].turn = t /\ calls'[Len(calls) + 1].sess = sess[t]
    BY <1>6, StartCallIs
  <2> HIDE DEF Most
  <2> QED
    BY <1>1, <2>1, <2>2
<1>7. ASSUME NEW t \in Turns, NEW to \in States, NEW said \in {"completed", "failed", "cancelled"},
             NEW charge \in 0 .. 1, Closes(t, to, said, charge)
      PROVE  Most'
  <2>1. /\ UNCHANGED <<parent, sess, of, cost>> /\ pc'[t] # "idle"
        /\ \A v \in Turns \ {t} : pc'[v] = pc[v]
    BY <1>0, <1>7 DEF Closes
  <2>2. /\ DOMAIN calls' = DOMAIN calls
        /\ \A j \in DOMAIN calls : calls'[j].turn = calls[j].turn /\ calls'[j].sess = calls[j].sess
    BY <1>7, ClosesIs
  <2> HIDE DEF Most
  <2> QED
    BY <1>1, <2>1, <2>2
<1>8. ASSUME NEW t \in Turns, ReadTotals(t) PROVE Most'
  BY <1>0, <1>1, <1>8, ReadTotalsIs
<1>9. ASSUME NEW t \in Turns, SaveTotals(t) PROVE Most'
  BY <1>0, <1>9, <1>f, SaveTotalsIs
<1>10. ASSUME NEW s \in Sessions, SaveSummary(s) PROVE Most'
  BY <1>0, <1>10, <1>f, SaveSummaryIs
<1>11. Rows'
  <2> SUFFICES ASSUME NEW c \in Sessions, compact'[c] # "none"
               PROVE  \E t \in Turns : of'[t] = None /\ sess'[t] = c
    OBVIOUS
  <2>1. PICK t \in Turns : of[t] = None /\ sess[t] = c
    <3>1. CASE compact[c] # "none"
      BY <3>1, <1>f
    <3>2. CASE compact[c] = "none"
      BY <3>2, Compacted
    <3> QED
      BY <3>1, <3>2
  <2> QED
    BY <1>0, <1>f, <2>1, Grows
<1> HIDE DEF Most, Rows
<1>12. Most'
  BY StepIs, <1>2, <1>3, <1>4, <1>5, <1>6, <1>7, <1>8, <1>9, <1>10
<1> QED
  BY <1>11, <1>12 DEF Families, Most, Rows

------------------------------------------------------------------------------
\* Who begins was asked to, or was delegated to.
LEMMA Begins ==
  ASSUME IInv, [Next]_vars, NEW v \in Turns, pc[v] = "idle", pc'[v] # "idle"
  PROVE  \/ \E s \in Sessions : Opens(v, s)
         \/ \E t \in Turns, c \in Sessions : Delegate(t, v, c)
<1>0. pc \in [Turns -> States]
  BY DEF IInv, TypeOK
<1>1. ~Rests
  BY DEF Rests
<1>2. ASSUME NEW t \in Turns, NEW s \in Sessions, Opens(t, s) PROVE t = v
  BY <1>2, BeginIs
<1>3. ASSUME NEW t \in Turns, NEW u \in Turns, NEW c \in Sessions, Delegate(t, u, c) PROVE u = v
  BY <1>3, DelegateIs
<1>4. ASSUME NEW t \in Turns, NEW from \in States, NEW to \in States, Moves(t, from, to) PROVE FALSE
  BY <1>0, <1>4 DEF Moves
<1>5. ASSUME NEW t \in Turns, StartCall(t) PROVE FALSE
  BY <1>0, <1>5, StartCallIs
<1>6. ASSUME NEW t \in Turns, NEW to \in States, NEW said \in {"completed", "failed", "cancelled"},
             NEW charge \in 0 .. 1, Closes(t, to, said, charge)
      PROVE  FALSE
  BY <1>0, <1>6 DEF Closes
<1>7. ASSUME NEW t \in Turns, ReadTotals(t) PROVE FALSE
  BY <1>7, ReadTotalsIs
<1>8. ASSUME NEW t \in Turns, SaveTotals(t) PROVE FALSE
  BY <1>8, SaveTotalsIs
<1>9. ASSUME NEW s \in Sessions, SaveSummary(s) PROVE FALSE
  BY <1>9, SaveSummaryIs
<1> QED
  BY StepIs, <1>1, <1>2, <1>3, <1>4, <1>5, <1>6, <1>7, <1>8, <1>9

\* A session does not take a turn while another of its turns goes on, unless
\* that one is cancelled.
LEMMA OneLiveStep ==
  ASSUME IInv, OneLive, [Next]_vars
  PROVE  OneLive'
<1>1. ASSUME NEW v \in Turns, NEW w \in Turns, v # w, pc[v] = "idle", Live(v)', Live(w)',
             sess'[v] = sess'[w]
      PROVE  FALSE
  <2>1. pc'[v] # "idle"
    BY <1>1 DEF Live, InProgress
  <2>2. ASSUME NEW s \in Sessions, Opens(v, s) PROVE FALSE
    <3>1. pc'[w] = pc[w] /\ sess'[w] = sess[w] /\ sess'[v] = s /\ ~(sess[w] = s /\ Live(w))
      BY <1>1, <2>2, BeginIs
    <3>2. pc[w] # "idle"
      BY <1>1, <3>1 DEF Live, InProgress
    <3>3. Live(w)
      BY <1>1, <3>2, Grows
    <3> QED
      BY <1>1, <3>1, <3>3
  <2>3. ASSUME NEW t \in Turns, NEW c \in Sessions, Delegate(t, v, c) PROVE FALSE
    BY <1>1, <2>3, DelegateIs
  <2> QED
    BY <1>1, <2>1, <2>2, <2>3, Begins
<1> SUFFICES ASSUME NEW v \in Turns, NEW w \in Turns, Live(v)', Live(w)', sess'[v] = sess'[w], v # w
             PROVE  FALSE
  BY DEF OneLive
<1>2. pc[v] # "idle" /\ pc[w] # "idle"
  BY <1>1
<1>3. Live(v) /\ Live(w) /\ sess[v] = sess[w]
  BY <1>2, Grows
<1> QED
  BY <1>3 DEF OneLive

LEMMA CallsMadeStep ==
  ASSUME IInv, CallsMade, [Next]_vars
  PROVE  CallsMade'
<1>0. /\ pc \in [Turns -> States]
      /\ \A v \in Turns : call[v] # 0 => call[v] \in DOMAIN calls /\ calls[call[v]].turn = v
  BY DEF IInv, TypeOK, KinTrue, Kin
<1> DEFINE Made(t) ==
      pc[t] \in {"stream", "finish"} /\ call[t] # 0 => calls[call[t]].status = "started"
<1>1. \A v \in Turns : Made(v)
  BY DEF CallsMade
<1>2. ASSUME NEW v \in Turns, pc'[v] = pc[v], call'[v] = call[v],
             call[v] # 0 => calls'[call[v]] = calls[call[v]]
      PROVE  Made(v)'
  BY <1>1, <1>2
<1>3. ASSUME NEW v \in Turns, pc'[v] \notin {"stream", "finish"} PROVE Made(v)'
  BY <1>3
<1>4. ASSUME Rests PROVE \A v \in Turns : Made(v)'
  BY <1>2, <1>4 DEF Rests
<1>5. ASSUME NEW t \in Turns, NEW s \in Sessions, Opens(t, s) PROVE \A v \in Turns : Made(v)'
  BY <1>2, <1>3, <1>5, BeginIs
<1>6. ASSUME NEW t \in Turns, NEW u \in Turns, NEW c \in Sessions, Delegate(t, u, c)
      PROVE  \A v \in Turns : Made(v)'
  BY <1>2, <1>3, <1>6, DelegateIs
<1>7. ASSUME NEW t \in Turns, NEW from \in States, NEW to \in States, Moves(t, from, to)
      PROVE  \A v \in Turns : Made(v)'
  <2>1. pc'[t] = to /\ \A v \in Turns \ {t} : pc'[v] = pc[v]
    BY <1>0, <1>7 DEF Moves
  <2>2. Made(t)'
    BY <1>1, <1>3, <1>7, <2>1 DEF Moves, Dead
  <2> QED
    BY <1>2, <1>7, <2>1, <2>2 DEF Moves
<1>8. ASSUME NEW t \in Turns, StartCall(t) PROVE \A v \in Turns : Made(v)'
  <2>1. pc'[t] = "stream" /\ \A v \in Turns \ {t} : pc'[v] = pc[v] /\ call'[v] = call[v]
    BY <1>0, <1>8, StartCallIs
  <2>2. call'[t] # 0 => calls'[call'[t]].status = "started"
    BY <1>8, StartCallIs
  <2>3. \A v \in Turns : call[v] # 0 => calls'[call[v]] = calls[call[v]]
    BY <1>0, <1>8, StartCallIs
  <2> QED
    BY <1>2, <2>1, <2>2, <2>3
<1>9. ASSUME NEW t \in Turns, NEW to \in States, NEW said \in {"completed", "failed", "cancelled"},
             NEW charge \in 0 .. 1, Closes(t, to, said, charge)
      PROVE  \A v \in Turns : Made(v)'
  <2>1. /\ pc[t] \in {"stream", "finish"} /\ pc'[t] \in {"over", "totals"} /\ call' = call
        /\ UNCHANGED <<of, dead>>
        /\ \A v \in Turns \ {t} : pc'[v] = pc[v]
    BY <1>0, <1>9 DEF Closes
  <2>2. \A j \in DOMAIN calls : j # call[t] => calls'[j] = calls[j]
    BY <1>9, ClosesIs
  <2>3. Made(t)'
    BY <1>1, <2>1 DEF Dead
  <2>4. \A v \in Turns \ {t} : Made(v)'
    BY <1>0, <1>2, <2>1, <2>2
  <2> HIDE DEF Made
  <2> QED
    BY <2>3, <2>4
<1>10. ASSUME NEW t \in Turns, ReadTotals(t) PROVE \A v \in Turns : Made(v)'
  <2>1. Made(t)'
    BY <1>1, <1>10, ReadTotalsIs DEF Dead
  <2> QED
    BY <1>2, <1>10, <2>1, ReadTotalsIs
<1>11. ASSUME NEW t \in Turns, SaveTotals(t) PROVE \A v \in Turns : Made(v)'
  <2>1. Made(t)'
    BY <1>1, <1>11, SaveTotalsIs DEF Dead
  <2> QED
    BY <1>2, <1>11, <2>1, SaveTotalsIs
<1>12. ASSUME NEW s \in Sessions, SaveSummary(s) PROVE \A v \in Turns : Made(v)'
  BY <1>2, <1>12, SaveSummaryIs
<1> HIDE DEF Made
<1> \A v \in Turns : Made(v)'
  BY StepIs, <1>4, <1>5, <1>6, <1>7, <1>8, <1>9, <1>10, <1>11, <1>12
<1> QED
  BY DEF CallsMade, Made

\* Calls are added at the end, by a live turn.
LEMMA CallsAfter ==
  ASSUME IInv, CallsMade, [Next]_vars
  PROVE  \/ /\ DOMAIN calls' = DOMAIN calls
            /\ \A j \in DOMAIN calls : calls'[j].turn = calls[j].turn /\ calls'[j].sess = calls[j].sess
            /\ \A v \in Turns : call'[v] # 0 => call'[v] = call[v]
         \/ \E t \in Turns : StartCall(t) /\ calls' # calls
<1> DEFINE Same ==
      /\ DOMAIN calls' = DOMAIN calls
      /\ \A j \in DOMAIN calls : calls'[j].turn = calls[j].turn /\ calls'[j].sess = calls[j].sess
      /\ \A v \in Turns : call'[v] # 0 => call'[v] = call[v]
<1>1. ASSUME UNCHANGED <<calls, call>> PROVE Same
  BY <1>1
<1>2. ASSUME NEW t \in Turns, StartCall(t), calls' = calls PROVE Same
  <2>1. call'[t] = 0 \/ Len(calls) + 1 \in DOMAIN calls
    BY <1>2, StartCallIs
  <2>2. Len(calls) + 1 \notin DOMAIN calls
    BY DEF IInv, TypeOK
  <2> QED
    BY <1>2, <2>1, <2>2, StartCallIs
<1>3. ASSUME NEW t \in Turns, NEW to \in States, NEW said \in {"completed", "failed", "cancelled"},
             NEW charge \in 0 .. 1, Closes(t, to, said, charge)
      PROVE  Same
  BY <1>3, ClosesIs DEF Closes
<1>4. ASSUME Rests \/ \E t \in Turns, from, to \in States : Moves(t, from, to) PROVE Same
  BY <1>1, <1>4 DEF Rests, Moves
<1>5. ASSUME \/ \E t \in Turns, s \in Sessions : Opens(t, s)
             \/ \E t \in Turns, u \in Turns, c \in Sessions : Delegate(t, u, c)
      PROVE  Same
  BY <1>1, <1>5, BeginIs, DelegateIs
<1>6. ASSUME \/ \E t \in Turns : ReadTotals(t)
             \/ \E t \in Turns : SaveTotals(t)
             \/ \E s \in Sessions : SaveSummary(s)
      PROVE  Same
  BY <1>1, <1>6, ReadTotalsIs, SaveTotalsIs, SaveSummaryIs
<1> HIDE DEF Same
<1>7. Same \/ \E t \in Turns : StartCall(t) /\ calls' # calls
  BY StepIs, <1>2, <1>3, <1>4, <1>5, <1>6
<1> QED
  BY <1>7 DEF Same

LEMMA InOrderStep ==
  ASSUME IInv, Families, OneLive, InOrder, CallsMade, [Next]_vars
  PROVE  InOrder'
<1> DEFINE First(i, j) ==
             i < j /\ Live(calls[i].turn) /\ calls[j].sess = calls[i].sess =>
               calls[j].turn = calls[i].turn
           Second(i, j) ==
             Live(calls[j].turn) /\ of[calls[j].turn] # None
               /\ sess[of[calls[j].turn]] = calls[i].sess => i < j
           Third(i, j) ==
             call[calls[i].turn] # 0 /\ calls[j].turn = calls[i].turn => j <= call[calls[i].turn]
<1>1. \A i, j \in DOMAIN calls : First(i, j) /\ Second(i, j) /\ Third(i, j)
  BY DEF InOrder
<1>2. \A i \in DOMAIN calls : calls[i].turn \in Turns /\ pc[calls[i].turn] # "idle" /\ i \in Nat
  BY Callers
<1>3. \A v \in Turns : pc[v] # "idle" =>
        /\ of'[v] = of[v] /\ (Live(v)' => Live(v))
        /\ of[v] # None => sess'[of[v]] = sess[of[v]]
  <2>1. \A v \in Turns : of[v] # None => of[v] \in Turns /\ pc[of[v]] # "idle"
    BY DEF Families, IInv, TypeOK
  <2> QED
    BY <2>1, Grows
<1>4. ASSUME NEW i \in DOMAIN calls, NEW j \in DOMAIN calls,
             calls'[i].turn = calls[i].turn, calls'[j].turn = calls[j].turn,
             calls'[i].sess = calls[i].sess, calls'[j].sess = calls[j].sess
      PROVE  First(i, j)' /\ Second(i, j)'
  BY <1>1, <1>2, <1>3, <1>4
<1>5. ASSUME NEW i \in DOMAIN calls, NEW j \in DOMAIN calls,
             calls'[i].turn = calls[i].turn, calls'[j].turn = calls[j].turn,
             call'[calls[i].turn] # 0 => call'[calls[i].turn] = call[calls[i].turn]
      PROVE  Third(i, j)'
  BY <1>1, <1>2, <1>5
<1>6. CASE /\ DOMAIN calls' = DOMAIN calls
           /\ \A j \in DOMAIN calls : calls'[j].turn = calls[j].turn /\ calls'[j].sess = calls[j].sess
           /\ \A v \in Turns : call'[v] # 0 => call'[v] = call[v]
  <2> SUFFICES ASSUME NEW i \in DOMAIN calls, NEW j \in DOMAIN calls
               PROVE  First(i, j)' /\ Second(i, j)' /\ Third(i, j)'
    BY <1>6 DEF InOrder
  <2> QED
    BY <1>2, <1>4, <1>5, <1>6
<1>7. ASSUME NEW t \in Turns, StartCall(t), calls' # calls PROVE InOrder'
  <2> DEFINE n == Len(calls) + 1
  <2>1. /\ pc[t] = "open" /\ DOMAIN calls' = DOMAIN calls \cup {n}
        /\ \A i \in DOMAIN calls : calls'[i] = calls[i] /\ i < n
        /\ calls'[n].turn = t /\ calls'[n].sess = sess[t] /\ call'[t] = n
        /\ \A v \in Turns \ {t} : call'[v] = call[v]
    BY <1>7, StartCallIs
  <2>2. n \in Nat /\ Live(t) /\ sess[t] \in Sessions
    <3>1. ~Dead(t)
      BY <1>7, StartCallIs
    <3>2. pc[t] # "idle" /\ Live(t)
      BY <2>1, <3>1 DEF Live, InProgress
    <3>3. n \in Nat
      BY DEF IInv, TypeOK
    <3> QED
      BY <3>2, <3>3, Begun
  <2> HIDE DEF n
  <2> SUFFICES ASSUME NEW i \in DOMAIN calls', NEW j \in DOMAIN calls'
               PROVE  First(i, j)' /\ Second(i, j)' /\ Third(i, j)'
    BY DEF InOrder
  <2>3. First(i, j)'
    <3>1. CASE i \in DOMAIN calls /\ j \in DOMAIN calls
      BY <1>4, <2>1, <3>1
    <3>2. CASE i \in DOMAIN calls /\ j = n
      <4>1. calls[i].sess = sess[calls[i].turn]
        BY <3>2 DEF Families
      <4>2. PICK w \in Turns : w = calls[i].turn /\ pc[w] # "idle"
        BY <1>2, <3>2
      <4>3. Live(w)' => Live(w)
        BY <1>3, <4>2
      <4>4. calls'[i].turn = w /\ calls'[i].sess = sess[w] /\ calls'[j].turn = t /\ calls'[j].sess = sess[t]
        BY <2>1, <3>2, <4>1, <4>2
      <4>5. Live(w) /\ sess[w] = sess[t] => w = t
        BY <2>2 DEF OneLive
      <4> QED
        BY <4>3, <4>4, <4>5
    <3>3. CASE i = n
      BY <1>2, <2>1, <2>2, <3>3
    <3> QED
      BY <2>1, <3>1, <3>2, <3>3
  <2>4. Second(i, j)'
    <3>1. CASE i \in DOMAIN calls /\ j \in DOMAIN calls
      BY <1>4, <2>1, <3>1
    <3>2. CASE i \in DOMAIN calls /\ j = n
      BY <2>1, <3>2
    <3>3. CASE i = n
      <4> SUFFICES ASSUME NEW u, u = calls'[j].turn, Live(u)', of'[u] # None, sess'[of'[u]] = sess[t]
                   PROVE  FALSE
        BY <2>1, <3>3
      <4>1. u \in Turns /\ pc[u] # "idle"
        BY <1>2, <2>1
      <4>2. Live(u) /\ of[u] # None /\ sess[of[u]] = sess[t]
        BY <1>3, <4>1
      <4> PICK p \in Turns : p = of[u]
        BY <4>1, <4>2 DEF IInv, TypeOK
      <4>3. pc[p] = "tools" /\ of[p] = None
        BY <4>1, <4>2 DEF IInv, KinTrue, Kin, Live, Families
      <4>4. Live(p)
        BY <4>2, <4>3, LedgerAssumption DEF Live, InProgress, Dead, IInv, TypeOK
      <4>5. p = t
        BY <2>2, <4>2, <4>4 DEF OneLive
      <4> QED
        BY <2>1, <4>3, <4>5
    <3> QED
      BY <2>1, <3>1, <3>2, <3>3
  <2>5. Third(i, j)'
    <3>1. CASE calls'[i].turn = t
      BY <1>2, <2>1, <2>2, <3>1
    <3>2. CASE calls'[i].turn # t
      <4>1. i \in DOMAIN calls /\ (calls'[j].turn = calls'[i].turn => j \in DOMAIN calls)
        BY <2>1, <3>2
      <4>2. calls[i].turn \in Turns \ {t} /\ calls'[i].turn = calls[i].turn
        BY <1>2, <2>1, <3>2, <4>1
      <4> QED
        BY <1>1, <2>1, <4>1, <4>2
    <3> QED
      BY <3>1, <3>2
  <2> HIDE DEF First, Second, Third
  <2> QED
    BY <2>3, <2>4, <2>5
<1> QED
  BY <1>6, <1>7, CallsAfter

------------------------------------------------------------------------------
\* A session's calls cost the same after a step, unless it is one of its turns
\* that closes a call.
LEMMA PaidChanges ==
  ASSUME IInv, Families, CallsMade, [Next]_vars, NEW s
  PROVE  \/ PaidIn(s)' = PaidIn(s)
         \/ \E t \in Turns, said \in {"completed", "failed", "cancelled"} :
              sess[t] = s /\ ~Dead(t) /\ call[t] # 0 /\ Closes(t, "totals", said, 1)
<1> DEFINE Same == PaidIn(s)' = PaidIn(s)
           Charges == \E t \in Turns, said \in {"completed", "failed", "cancelled"} :
                        sess[t] = s /\ ~Dead(t) /\ call[t] # 0 /\ Closes(t, "totals", said, 1)
<1>1. ASSUME calls' = calls PROVE Same
  BY <1>1 DEF PaidIn, CallsOf
<1>2. ASSUME NEW t \in Turns, StartCall(t) PROVE Same
  BY <1>1, <1>2, StartCallIs DEF PaidIn, CallsOf
<1>3. ASSUME NEW t \in Turns, NEW to \in States, NEW said \in {"completed", "failed", "cancelled"},
             NEW charge \in 0 .. 1, Closes(t, to, said, charge)
      PROVE  Same \/ Charges
  <2>1. CASE call[t] # 0 /\ charge = 1 /\ sess[t] = s
    <3>1. to = "totals" /\ ~Dead(t)
      BY <1>3, <2>1 DEF Closes
    <3>2. Closes(t, "totals", said, 1)
      BY <1>3, <2>1, <3>1
    <3> HIDE DEF Closes
    <3> QED
      BY <2>1, <3>1, <3>2
  <2>2. CASE ~(call[t] # 0 /\ charge = 1 /\ sess[t] = s)
    <3>1. \A i \in DOMAIN calls : i \in PaidIn(s)' <=> i \in PaidIn(s)
      <4> SUFFICES ASSUME NEW i \in DOMAIN calls PROVE i \in PaidIn(s)' <=> i \in PaidIn(s)
        OBVIOUS
      <4>1. CASE i # call[t]
        BY <1>3, <4>1, ClosesIs DEF PaidIn, CallsOf
      <4>2. CASE i = call[t]
        <5>1. call[t] # 0
          BY <4>2, Callers DEF IInv, TypeOK
        <5>2. calls[i].status = "started" /\ calls[i].turn = t /\ calls[i].sess = sess[t]
          BY <1>3, <4>2, <5>1, ClosesIs DEF Families
        <5>3. calls'[i].sess = sess[t] /\ calls'[i].cost = charge
          BY <1>3, <4>2, <5>1, <5>2, ClosesIs
        <5> QED
          BY <2>2, <5>1, <5>2, <5>3 DEF PaidIn, CallsOf
      <4> QED
        BY <4>1, <4>2
    <3>2. DOMAIN calls' = DOMAIN calls
      BY <1>3, ClosesIs
    <3> QED
      BY <3>1, <3>2 DEF PaidIn, CallsOf
  <2> QED
    BY <2>1, <2>2
<1>4. ASSUME Rests \/ \E t \in Turns, from, to \in States : Moves(t, from, to) PROVE Same
  BY <1>1, <1>4 DEF Rests, Moves
<1>5. ASSUME \/ \E t \in Turns, c \in Sessions : Opens(t, c)
             \/ \E t \in Turns, u \in Turns, c \in Sessions : Delegate(t, u, c)
      PROVE  Same
  BY <1>1, <1>5, BeginIs, DelegateIs
<1>6. ASSUME \/ \E t \in Turns : ReadTotals(t)
             \/ \E t \in Turns : SaveTotals(t)
             \/ \E c \in Sessions : SaveSummary(c)
      PROVE  Same
  BY <1>1, <1>6, ReadTotalsIs, SaveTotalsIs, SaveSummaryIs
<1> HIDE DEF Same, Charges
<1>7. Same \/ Charges
  BY StepIs, <1>2, <1>3, <1>4, <1>5, <1>6
<1> QED
  BY <1>7 DEF Same, Charges

\* Only the agent tool makes a subagent, and sets a session's parent.
LEMMA OnlyDelegates ==
  ASSUME [Next]_vars
  PROVE  UNCHANGED <<parent, of>> \/ \E t, u \in Turns, c \in Sessions : Delegate(t, u, c)
<1>1. ASSUME NEW t \in Turns, Turn(t) PROVE UNCHANGED <<parent, of>>
  <2>1. CASE Reconcile(t)
    BY <2>1 DEF Reconcile, Fail, ReadTotals, SaveTotals, books, who
  <2>2. CASE \/ CheckDone(t) \/ BudgetStop(t) \/ BudgetUnread(t) \/ PassUnasked(t)
             \/ \E how \in {"deny", "once", "session"} : Answer(t, how)
    BY <2>2 DEF CheckDone, BudgetStop, BudgetUnread, PassUnasked, Answer, books, who
  <2>3. CASE \/ StartCall(t) \/ Abort(t) \/ Panic(t) \/ Complete(t) \/ EndStream(t)
             \/ CompleteCall(t) \/ \E to \in {"loop", "over"} : EndTools(t, to)
    BY <2>3 DEF StartCall, Abort, Panic, Complete, EndStream, CompleteCall, EndTools, books, who
  <2> QED
    BY <1>1, <2>1, <2>2, <2>3 DEF Turn
<1>2. ASSUME NEW t \in Turns, NEW s \in Sessions, Begin(t, s) \/ BeginHeadless(t, s)
      PROVE  UNCHANGED <<parent, of>>
  BY <1>2 DEF Begin, BeginHeadless, books
<1>3. ASSUME NEW t \in Turns, Cancel(t) PROVE UNCHANGED <<parent, of>>
  BY <1>3 DEF Cancel, books, who
<1>4. ASSUME NEW s \in Sessions,
             SetTitle(s) \/ Summarize(s) \/ ReadSession(s) \/ SaveSummary(s) \/ FailSummary(s)
      PROVE  UNCHANGED <<parent, of>>
  BY <1>4 DEF SetTitle, Summarize, ReadSession, SaveSummary, FailSummary, books, who
<1> QED
  BY <1>1, <1>2, <1>3, <1>4 DEF Next, vars, books, who

\* A subagent's session has no children, and gets none.
LEMMA Childless ==
  ASSUME IInv, Families, [Next]_vars, NEW v \in Turns, of[v] # None, NEW s, s = sess[v]
  PROVE  UnitsOf(s) = {} /\ UnitsOf(s)' = {}
<1>0. s \in Sessions /\ ChildrenOf(s) = {}
  BY KinOfSessions, Begun DEF IInv, KinTrue, Kin
<1>1. ASSUME NEW t \in Turns, NEW u \in Turns, NEW c \in Sessions, Delegate(t, u, c), sess[t] = s
      PROVE  FALSE
  <2>1. of[t] = None
    BY <1>1, DelegateIs
  <2>2. t = v
    BY <1>1 DEF Families
  <2> QED
    BY <2>1, <2>2
<1>2. ChildrenOf(s)' = {}
  <2>1. CASE parent' = parent
    BY <1>0, <2>1 DEF ChildrenOf
  <2>2. ASSUME NEW t \in Turns, NEW u \in Turns, NEW c \in Sessions, Delegate(t, u, c)
        PROVE  ChildrenOf(s)' = {}
    BY <1>0, <1>1, <2>2, DelegateIs DEF ChildrenOf
  <2>3. parent' = parent \/ \E t, u \in Turns, c \in Sessions : Delegate(t, u, c)
    BY OnlyDelegates
  <2> QED
    BY <2>1, <2>2, <2>3
<1> QED
  BY <1>0, <1>2 DEF UnitsOf

LEMMA SubagentsPaidStep ==
  ASSUME IInv, Families, CallsMade, SubagentsPaid, HeldTrue, [Next]_vars
  PROVE  SubagentsPaid'
<1> DEFINE Spent(v) ==
             \/ pc[v] \in {"loop", "budget", "ask", "open", "stream", "finish", "tools"}
             \/ pc[v] \in {"totals", "save"} /\ (v \in detached \/ call[v] = 0)
           Paid(v, s) == Spent(v) => cost[s] = SessionTotals(s)
<1> SUFFICES ASSUME NEW v \in Turns, of'[v] # None PROVE Paid(v, sess[v])'
  BY DEF SubagentsPaid
<1>0. pc \in [Turns -> States] /\ (pc[v] = "idle" => of[v] = None)
  BY DEF IInv, TypeOK, KinTrue, Kin
<1>1. CASE pc[v] = "idle"
  <2>1. pc'[v] # "idle"
    <3>1. ~Rests
      BY <1>0, <1>1 DEF Rests
    <3>2. of'[v] # of[v]
      BY <1>0, <1>1
    <3>3. ~UNCHANGED of
      BY <3>2
    <3>4. PICK t \in Turns, u \in Turns, c \in Sessions : Delegate(t, u, c)
      BY <3>3, OnlyDelegates
    <3> QED
      BY <3>2, <3>4, DelegateIs
  <2>2. PICK t \in Turns, c \in Sessions : Delegate(t, v, c)
    <3>1. ASSUME NEW c \in Sessions, Opens(v, c) PROVE FALSE
      BY <1>0, <1>1, <3>1, BeginIs
    <3> QED
      BY <1>1, <2>1, <3>1, Begins
  <2>3. PaidIn(c)' = {}
    <3>1. \A i \in DOMAIN calls : calls[i].sess # c
      BY <2>2, Callers, DelegateIs DEF Families
    <3> QED
      BY <2>2, <3>1, DelegateIs DEF PaidIn, CallsOf
  <2>4. UnitsOf(c)' = {}
    BY <2>2, DelegateIs, DelegateFresh DEF UnitsOf, ChildrenOf
  <2>5. cost'[c] = 0 /\ pc'[v] = "loop" /\ sess'[v] = c
    BY <2>2, DelegateIs DEF Families
  <2>6. SessionTotals(c)' = Cardinality(PaidIn(c)') + Cardinality(UnitsOf(c)')
    BY DEF SessionTotals, Charged, ChildCost, PaidIn, UnitsOf
  <2>7. SessionTotals(c)' = 0
    BY <2>3, <2>4, <2>6, FS_EmptySet
  <2> QED
    BY <2>5, <2>7
<1>2. CASE pc[v] # "idle"
  <2> PICK s \in Sessions : s = sess[v]
    BY <1>2, Begun
  <2>0. of[v] # None /\ sess'[v] = s /\ of'[v] = of[v]
    BY <1>2, Grows
  <2> SUFFICES Paid(v, s)'
    BY <2>0
  <2>1. Paid(v, s)
    BY <2>0 DEF SubagentsPaid
  <2>2. \A u \in Turns : sess[u] = s => u = v
    BY <2>0 DEF Families
  <2>3. PaidIn(s)' = PaidIn(s) => SessionTotals(s)' = SessionTotals(s)
    BY <2>0, Childless, SameSession
  <2>4. ASSUME UNCHANGED <<calls, cost>>, pc'[v] = pc[v], call'[v] = call[v],
               v \in detached' <=> v \in detached
        PROVE  Paid(v, s)'
    <3>1. SessionTotals(s)' = SessionTotals(s)
      BY <2>3, <2>4 DEF PaidIn, CallsOf
    <3> HIDE DEF SessionTotals
    <3> QED
      BY <2>1, <2>4, <3>1
  <2>5. ASSUME Rests PROVE Paid(v, s)'
    BY <2>4, <2>5 DEF Rests
  <2>6. ASSUME NEW t \in Turns, NEW c \in Sessions, Opens(t, c) PROVE Paid(v, s)'
    BY <1>2, <2>4, <2>6, BeginIs
  <2>7. ASSUME NEW t \in Turns, NEW u \in Turns, NEW c \in Sessions, Delegate(t, u, c)
        PROVE  Paid(v, s)'
    BY <1>2, <2>4, <2>7, DelegateIs
  <2>8. ASSUME NEW t \in Turns, NEW from \in States, NEW to \in States, Moves(t, from, to)
        PROVE  Paid(v, s)'
    <3>1. CASE t # v
      BY <1>0, <2>4, <2>8, <3>1 DEF Moves
    <3>2. CASE t = v
      <4>1. SessionTotals(s)' = SessionTotals(s) /\ cost' = cost
        BY <2>3, <2>8 DEF PaidIn, CallsOf, Moves
      <4>2. Spent(v)' => Spent(v)
        BY <1>0, <2>8, <3>2 DEF Moves
      <4> HIDE DEF Spent
      <4> QED
        BY <2>1, <4>1, <4>2
    <3> QED
      BY <3>1, <3>2
  <2>9. ASSUME NEW t \in Turns, StartCall(t) PROVE Paid(v, s)'
    <3>1. PaidIn(s)' = PaidIn(s)
      BY <2>9, StartCallIs DEF PaidIn, CallsOf
    <3>2. /\ SessionTotals(s)' = SessionTotals(s) /\ cost' = cost
          /\ detached' = detached
      BY <2>3, <2>9, <3>1, StartCallIs
    <3>3. (pc'[v] = pc[v] /\ call'[v] = call[v]) \/ (pc[v] = "open" /\ pc'[v] = "stream")
      BY <1>0, <2>9, StartCallIs
    <3> QED
      BY <2>1, <3>2, <3>3
  <2>10. ASSUME NEW t \in Turns, NEW to \in States,
                NEW said \in {"completed", "failed", "cancelled"},
                NEW charge \in 0 .. 1, Closes(t, to, said, charge)
         PROVE  Paid(v, s)'
    <3>1. cost' = cost /\ call' = call /\ detached' = detached
      BY <2>10 DEF Closes
    <3>2. ASSUME PaidIn(s)' = PaidIn(s), pc'[v] = pc[v] \/ pc'[v] = "over"
                   \/ (pc[v] \in {"stream", "finish"} /\ pc'[v] = "totals")
          PROVE  Paid(v, s)'
      <4>1. SessionTotals(s)' = SessionTotals(s)
        BY <2>3, <3>2
      <4> HIDE DEF SessionTotals
      <4> QED
        BY <2>1, <3>1, <3>2, <4>1
    <3>3. pc'[v] = pc[v] \/ pc'[v] = "over" \/ (pc[v] \in {"stream", "finish"} /\ pc'[v] = "totals")
      BY <1>0, <2>10 DEF Closes
    <3>4. ASSUME NEW u \in Turns, NEW how \in {"completed", "failed", "cancelled"},
                 sess[u] = s, call[u] # 0, Closes(u, "totals", how, 1)
          PROVE  Paid(v, s)'
      <4>1. u = v
        BY <2>2, <3>4
      <4>2. pc'[v] = "totals" /\ v \notin detached' /\ call'[v] # 0
        BY <1>0, <3>4, <4>1 DEF Closes
      <4> QED
        BY <4>2
    <3> QED
      BY <3>2, <3>3, <3>4, PaidChanges
  <2>11. ASSUME NEW t \in Turns, ReadTotals(t) PROVE Paid(v, s)'
    <3>1. CASE t # v
      BY <2>4, <2>11, <3>1, ReadTotalsIs
    <3>2. CASE t = v
      <4>1. /\ pc[v] = "totals" /\ pc'[v] = "save"
            /\ UNCHANGED <<calls, cost, call, detached>>
        BY <2>11, <3>2, ReadTotalsIs
      <4>2. SessionTotals(s)' = SessionTotals(s)
        BY <2>3, <4>1 DEF PaidIn, CallsOf
      <4> HIDE DEF SessionTotals
      <4> QED
        BY <2>1, <4>1, <4>2
    <3> QED
      BY <3>1, <3>2
  <2>12. ASSUME NEW t \in Turns, SaveTotals(t) PROVE Paid(v, s)'
    <3>0. SessionTotals(s)' = SessionTotals(s)
      BY <2>3, <2>12, SaveTotalsIs DEF PaidIn, CallsOf
    <3>1. CASE t # v
      <4>1. /\ pc'[v] = pc[v] /\ call'[v] = call[v] /\ (v \in detached' <=> v \in detached)
            /\ cost'[s] = cost[s]
        BY <2>2, <2>12, <3>1, SaveTotalsIs
      <4> QED
        BY <2>1, <3>0, <4>1
    <3>2. CASE t = v
      <4>1. pc[v] = "save" /\ cost'[s] = held[v]
        BY <2>12, <3>2, SaveTotalsIs
      <4>2. held[v] = SessionTotals(s)
        BY <2>0, <4>1 DEF HeldTrue
      <4> QED
        BY <3>0, <4>1, <4>2
    <3> QED
      BY <3>1, <3>2
  <2>13. ASSUME NEW c \in Sessions, SaveSummary(c) PROVE Paid(v, s)'
    <3>1. c # s
      BY <2>0, <2>2, <2>13, SaveSummaryIs DEF Families
    <3>2. SessionTotals(s)' = SessionTotals(s)
      BY <2>3, <2>13, SaveSummaryIs DEF PaidIn, CallsOf
    <3>3. /\ pc'[v] = pc[v] /\ call'[v] = call[v] /\ (v \in detached' <=> v \in detached)
          /\ cost'[s] = cost[s]
      BY <2>13, <3>1, SaveSummaryIs
    <3> QED
      BY <2>1, <3>2, <3>3
  <2> HIDE DEF Paid
  <2> QED
    BY StepIs, <2>5, <2>6, <2>7, <2>8, <2>9, <2>10, <2>11, <2>12, <2>13
<1> QED
  BY <1>1, <1>2

------------------------------------------------------------------------------
\* A live turn with a call in the session has made its last call.
LEMMA LastTurn ==
  ASSUME IInv, Families, InOrder, NEW s \in Sessions, NEW i \in DOMAIN calls, LastCall(s, i),
         NEW u \in Turns, Live(u), sess[u] = s, call[u] # 0
  PROVE  calls[i].turn = u /\ i = call[u]
<1> PICK m \in DOMAIN calls : m = call[u] /\ calls[m].turn = u /\ calls[m].sess = s
  BY DEF IInv, KinTrue, Kin, Families
<1>1. i \in Nat /\ m \in Nat /\ calls[i].sess = s /\ ~(m > i)
  BY Callers DEF LastCall, CallsOf
<1>2. m < i => calls[i].turn = u
  BY <1>1 DEF InOrder
<1>3. calls[i].turn = u => i <= m
  BY DEF InOrder
<1> QED
  BY <1>1, <1>2, <1>3

\* The children of a session cost what they cost, but for a live subagent that
\* accounts for a call.
LEMMA UnitsStay ==
  ASSUME IInv, Families, SubagentsPaid, HeldTrue, [Next]_vars, NEW s \in Sessions,
         \A x \in Turns : pc[x] = "save" /\ ~Dead(x) /\ call[x] # 0 => sess[x] \notin ChildrenOf(s)
  PROVE  UnitsOf(s)' = UnitsOf(s)
<1>0. \A t \in Turns : sess[t] \in ChildrenOf(s) => of[t] \in Turns /\ sess[of[t]] = s
  BY KinOfSessions
<1>1. ASSUME parent' = parent, \A c \in ChildrenOf(s) : cost'[c] = cost[c]
      PROVE  UnitsOf(s)' = UnitsOf(s)
  BY <1>1, SameUnits DEF ChildrenOf
<1>2. ASSUME NEW t \in Turns, NEW u \in Turns, NEW c \in Sessions, Delegate(t, u, c)
      PROVE  UnitsOf(s)' = UnitsOf(s)
  <2>1. cost[c] = 0 /\ cost' = cost /\ c \notin ChildrenOf(s)
    BY <1>2, DelegateIs, DelegateFresh, LedgerAssumption DEF Families, ChildrenOf
  <2>2. \A d \in Sessions \ {c} : d \in ChildrenOf(s)' <=> d \in ChildrenOf(s)
    BY <1>2, DelegateIs DEF ChildrenOf
  <2>3. \A n \in Ids : ~(n <= cost[c])
    BY <2>1 DEF Ids
  <2>4. ChildrenOf(s) \subseteq Sessions /\ ChildrenOf(s)' \subseteq Sessions
    BY DEF ChildrenOf
  <2>5. \A p \in Sessions \X Ids : p \in UnitsOf(s)' <=> p \in UnitsOf(s)
    BY <2>1, <2>2, <2>3, <2>4 DEF UnitsOf
  <2>6. UnitsOf(s) \subseteq Sessions \X Ids /\ UnitsOf(s)' \subseteq Sessions \X Ids
    BY <2>4 DEF UnitsOf
  <2> QED
    BY <2>5, <2>6
<1>3. ASSUME NEW x \in Turns, SaveTotals(x) PROVE UnitsOf(s)' = UnitsOf(s)
  <2>0. /\ pc[x] = "save" /\ ~Cut(x) /\ cost'[sess[x]] = held[x] /\ parent' = parent
        /\ \A c \in Sessions \ {sess[x]} : cost'[c] = cost[c]
    BY <1>3, SaveTotalsIs
  <2>1. CASE sess[x] \notin ChildrenOf(s)
    BY <1>1, <2>0, <2>1 DEF ChildrenOf
  <2>2. CASE sess[x] \in ChildrenOf(s)
    <3>1. of[x] # None
      BY <1>0, <2>2, LedgerAssumption
    <3>2. x \in detached \/ call[x] = 0
      BY <2>0, <2>2 DEF Cut
    <3>3. cost[sess[x]] = held[x]
      BY <2>0, <3>1, <3>2 DEF SubagentsPaid, HeldTrue
    <3> QED
      BY <1>1, <2>0, <3>3 DEF ChildrenOf
  <2> QED
    BY <2>1, <2>2
<1>4. ASSUME NEW z \in Sessions, SaveSummary(z) PROVE UnitsOf(s)' = UnitsOf(s)
  <2>1. PICK t \in Turns : of[t] = None /\ sess[t] = z
    BY <1>4, SaveSummaryIs DEF Families
  <2>2. z \notin ChildrenOf(s)
    BY <1>0, <2>1, LedgerAssumption
  <2> QED
    BY <1>1, <1>4, <2>2, SaveSummaryIs DEF ChildrenOf
<1>5. ASSUME \/ Rests
             \/ \E t \in Turns, from, to \in States : Moves(t, from, to)
             \/ \E t \in Turns, to \in States, said \in {"completed", "failed", "cancelled"},
                   charge \in 0 .. 1 : Closes(t, to, said, charge)
      PROVE  UnitsOf(s)' = UnitsOf(s)
  BY <1>1, <1>5 DEF Rests, Moves, Closes
<1>6. ASSUME \/ \E t \in Turns, c \in Sessions : Opens(t, c)
             \/ \E t \in Turns : StartCall(t)
             \/ \E t \in Turns : ReadTotals(t)
      PROVE  UnitsOf(s)' = UnitsOf(s)
  BY <1>1, <1>6, BeginIs, StartCallIs, ReadTotalsIs
<1> QED
  BY StepIs, <1>2, <1>3, <1>4, <1>5, <1>6

\* The totals of a session do not change once its last call is closed.
LEMMA TotalsStay ==
  ASSUME IInv, Families, InOrder, CallsMade, SubagentsPaid, HeldTrue, [Next]_vars,
         NEW s \in Sessions, NEW i \in DOMAIN calls, LastCall(s, i), calls[i].status = "completed"
  PROVE  SessionTotals(s)' = SessionTotals(s)
<1>1. ASSUME NEW u \in Turns, NEW how \in {"completed", "failed", "cancelled"},
             sess[u] = s, ~Dead(u), call[u] # 0, Closes(u, "totals", how, 1)
      PROVE  FALSE
  <2>1. pc[u] \in {"stream", "finish"}
    BY <1>1 DEF Closes
  <2>2. Live(u) /\ calls[call[u]].status = "started"
    BY <1>1, <2>1 DEF Live, InProgress, CallsMade
  <2>3. i = call[u]
    BY <1>1, <2>2, LastTurn
  <2> QED
    BY <2>2, <2>3
<1>2. PaidIn(s)' = PaidIn(s)
  BY <1>1, PaidChanges
<1>3. ASSUME NEW x \in Turns, pc[x] = "save", ~Dead(x), call[x] # 0, sess[x] \in ChildrenOf(s)
      PROVE  FALSE
  <2>1. of[x] # None /\ sess[of[x]] = s /\ Live(x)
    BY <1>3, KinOfSessions, LedgerAssumption DEF Live, InProgress
  <2>2. PICK k \in DOMAIN calls : k = call[x] /\ calls[k].turn = x /\ calls[k].sess = sess[x]
    BY <1>3 DEF IInv, KinTrue, Kin, Families
  <2>3. k \in Nat /\ i \in Nat /\ ~(k > i)
    BY <1>3, <2>2, Callers DEF LastCall, ChildrenOf
  <2>4. calls[i].sess = s
    BY DEF LastCall, CallsOf
  <2>5. i < k
    BY <2>1, <2>2, <2>4 DEF InOrder
  <2> QED
    BY <2>3, <2>5
<1>4. UnitsOf(s)' = UnitsOf(s)
  BY <1>3, UnitsStay
<1> QED
  BY <1>2, <1>4, SameSession

\* Nor do those of a session whose turn is about to store them.
LEMMA TotalsAtSave ==
  ASSUME IInv, Families, OneLive, SubagentsPaid, HeldTrue, CallsMade, [Next]_vars,
         NEW t \in Turns, pc[t] = "save", ~Dead(t) \/ of[t] # None, NEW s \in Sessions, s = sess[t]
  PROVE  SessionTotals(s)' = SessionTotals(s)
<1>1. PaidIn(s)' = PaidIn(s)
  <2> SUFFICES ASSUME NEW u \in Turns, NEW how \in {"completed", "failed", "cancelled"},
                      sess[u] = s, ~Dead(u), Closes(u, "totals", how, 1)
               PROVE  FALSE
    BY PaidChanges
  <2>1. pc[u] \in {"stream", "finish"} /\ u # t
    BY DEF Closes
  <2>2. of[t] = None
    BY <2>1 DEF Families
  <2>3. Live(t) /\ Live(u)
    BY <2>1, <2>2 DEF Live, InProgress
  <2> QED
    BY <2>1, <2>3 DEF OneLive
<1>2. UnitsOf(s)' = UnitsOf(s)
  <2>1. CASE of[t] # None
    BY <2>1, Childless
  <2>2. CASE of[t] = None
    <3>1. Live(t)
      BY <2>2 DEF Live, InProgress
    <3>2. ASSUME NEW x \in Turns, pc[x] = "save", ~Dead(x), sess[x] \in ChildrenOf(s) PROVE FALSE
      <4> PICK p \in Turns : p = of[x] /\ sess[p] = s
        BY <3>2, KinOfSessions
      <4>1. of[x] # None /\ InProgress(x)
        BY <3>2, LedgerAssumption DEF InProgress
      <4>2. pc[p] = "tools" /\ of[p] = None
        BY <4>1 DEF IInv, KinTrue, Kin, Families
      <4>3. Live(p)
        BY <3>2, <4>2, LedgerAssumption DEF Live, InProgress, Dead, IInv, TypeOK
      <4> QED
        BY <3>1, <4>2, <4>3 DEF OneLive
    <3> QED
      BY <3>2, UnitsStay
  <2> QED
    BY <2>1, <2>2
<1> QED
  BY <1>1, <1>2, SameSession

\* Who is about to store the totals was so before, or has just read them.
LEMMA Saves ==
  ASSUME IInv, [Next]_vars, NEW v \in Turns, pc'[v] = "save"
  PROVE  (pc[v] = "save" /\ held'[v] = held[v]) \/ ReadTotals(v)
<1>0. pc \in [Turns -> States]
  BY DEF IInv, TypeOK
<1> DEFINE Claim == (pc[v] = "save" /\ held'[v] = held[v]) \/ ReadTotals(v)
<1>1. ASSUME Rests PROVE Claim
  BY <1>1 DEF Rests
<1>2. ASSUME NEW t \in Turns, NEW s \in Sessions, Opens(t, s) PROVE Claim
  BY <1>2, BeginIs
<1>3. ASSUME NEW t \in Turns, NEW u \in Turns, NEW c \in Sessions, Delegate(t, u, c) PROVE Claim
  BY <1>3, DelegateIs
<1>4. ASSUME NEW t \in Turns, NEW from \in States, NEW to \in States, Moves(t, from, to) PROVE Claim
  BY <1>0, <1>4 DEF Moves
<1>5. ASSUME NEW t \in Turns, StartCall(t) PROVE Claim
  BY <1>0, <1>5, StartCallIs
<1>6. ASSUME NEW t \in Turns, NEW to \in States, NEW said \in {"completed", "failed", "cancelled"},
             NEW charge \in 0 .. 1, Closes(t, to, said, charge)
      PROVE  Claim
  BY <1>0, <1>6 DEF Closes
<1>7. ASSUME NEW t \in Turns, ReadTotals(t) PROVE Claim
  <2>1. CASE t = v
    BY <1>7, <2>1
  <2>2. CASE t # v
    BY <1>7, <2>2, ReadTotalsIs
  <2> QED
    BY <2>1, <2>2
<1>8. ASSUME NEW t \in Turns, SaveTotals(t) PROVE Claim
  BY <1>8, SaveTotalsIs
<1>9. ASSUME NEW s \in Sessions, SaveSummary(s) PROVE Claim
  BY <1>9, SaveSummaryIs
<1> HIDE DEF Claim
<1> Claim
  BY StepIs, <1>1, <1>2, <1>3, <1>4, <1>5, <1>6, <1>7, <1>8, <1>9
<1> QED
  BY DEF Claim

LEMMA HeldTrueStep ==
  ASSUME IInv, Families, OneLive, CallsMade, SubagentsPaid, HeldTrue, [Next]_vars
  PROVE  HeldTrue'
<1> SUFFICES ASSUME NEW t \in Turns, pc'[t] = "save", ~Dead(t)' \/ of'[t] # None
             PROVE  held'[t] = SessionTotals(sess[t])'
  BY DEF HeldTrue
<1>1. CASE pc[t] = "save" /\ held'[t] = held[t]
  <2> PICK s \in Sessions : s = sess[t]
    BY <1>1, Begun
  <2>1. sess'[t] = s /\ (~Dead(t) \/ of[t] # None)
    BY <1>1, Grows
  <2>2. held[t] = SessionTotals(s)
    BY <1>1, <2>1 DEF HeldTrue
  <2>3. SessionTotals(s)' = SessionTotals(s)
    BY <1>1, <2>1, TotalsAtSave
  <2> HIDE DEF SessionTotals
  <2>4. SessionTotals(sess[t])' = SessionTotals(s)'
    BY <2>1
  <2> QED
    BY <1>1, <2>2, <2>3, <2>4
<1>2. CASE ReadTotals(t)
  <2> PICK s \in Sessions : s = sess[t]
    BY <1>2, ReadTotalsIs
  <2>1. held'[t] = SessionTotals(s) /\ UNCHANGED <<calls, cost, parent, sess>>
    BY <1>2, ReadTotalsIs
  <2>2. PaidIn(s)' = PaidIn(s) /\ UnitsOf(s)' = UnitsOf(s)
    BY <2>1 DEF PaidIn, CallsOf, UnitsOf, ChildrenOf
  <2>3. SessionTotals(s)' = SessionTotals(s)
    BY <2>2, SameSession
  <2>4. SessionTotals(sess[t])' = SessionTotals(s)'
    BY <2>1
  <2> QED
    BY <2>1, <2>3, <2>4
<1> QED
  BY <1>1, <1>2, Saves

\* No session changes its parent.
LEMMA ParentsStay ==
  ASSUME IInv, Families, [Next]_vars, NEW c \in Sessions, parent[c] # None
  PROVE  parent'[c] = parent[c]
<1>1. ASSUME NEW t \in Turns, NEW u \in Turns, NEW d \in Sessions, Delegate(t, u, d)
      PROVE  parent'[c] = parent[c]
  BY <1>1, DelegateIs, DelegateFresh
<1>2. parent' = parent \/ \E t, u \in Turns, d \in Sessions : Delegate(t, u, d)
  BY OnlyDelegates
<1> QED
  BY <1>1, <1>2

\* What is a session's last call after a step, and closed, was so before, unless
\* its turn just closed it.
LEMMA StillLast ==
  ASSUME IInv, Families, CallsMade, [Next]_vars, NEW s \in Sessions, NEW i \in DOMAIN calls',
         LastCall(s, i)', calls'[i].status = "completed"
  PROVE  /\ i \in DOMAIN calls /\ LastCall(s, i) /\ calls'[i].turn = calls[i].turn
         /\ \/ calls[i].status = "completed"
            \/ pc'[calls[i].turn] = "totals" /\ call'[calls[i].turn] = i
<1> DEFINE Same ==
             /\ DOMAIN calls \subseteq DOMAIN calls'
             /\ \A j \in DOMAIN calls :
                  calls'[j].turn = calls[j].turn /\ calls'[j].sess = calls[j].sess
             /\ i \in DOMAIN calls
             /\ \/ calls[i].status = "completed"
                \/ pc'[calls[i].turn] = "totals" /\ call'[calls[i].turn] = i
<1>0. pc \in [Turns -> States]
  BY DEF IInv, TypeOK
<1>1. ASSUME calls' = calls PROVE Same
  BY <1>1
<1>2. ASSUME NEW t \in Turns, StartCall(t) PROVE Same
  <2>1. i \in DOMAIN calls /\ calls'[i] = calls[i]
    BY <1>2, StartCallIs
  <2>2. DOMAIN calls \subseteq DOMAIN calls' /\ \A j \in DOMAIN calls : calls'[j] = calls[j]
    BY <1>2, StartCallIs
  <2> QED
    BY <2>1, <2>2
<1>3. ASSUME NEW t \in Turns, NEW to \in States, NEW said \in {"completed", "failed", "cancelled"},
             NEW charge \in 0 .. 1, Closes(t, to, said, charge)
      PROVE  Same
  <2>1. /\ DOMAIN calls' = DOMAIN calls
        /\ \A j \in DOMAIN calls : calls'[j].turn = calls[j].turn /\ calls'[j].sess = calls[j].sess
        /\ \A j \in DOMAIN calls : j # call[t] => calls'[j] = calls[j]
    BY <1>3, ClosesIs
  <2>2. CASE i = call[t]
    <3>1. call[t] # 0
      BY <2>1, <2>2, Callers DEF IInv, TypeOK
    <3>2. calls[i].turn = t /\ said = "completed"
      BY <1>3, <2>2, <3>1, ClosesIs
    <3>3. pc'[t] = "totals" /\ call'[t] = i
      BY <1>0, <1>3, <2>2, <3>2 DEF Closes
    <3> QED
      BY <2>1, <3>2, <3>3
  <2>3. CASE i # call[t]
    BY <2>1, <2>3
  <2> QED
    BY <2>2, <2>3
<1>4. ASSUME Rests \/ \E t \in Turns, from, to \in States : Moves(t, from, to) PROVE Same
  BY <1>1, <1>4 DEF Rests, Moves
<1>5. ASSUME \/ \E t \in Turns, c \in Sessions : Opens(t, c)
             \/ \E t \in Turns, u \in Turns, c \in Sessions : Delegate(t, u, c)
      PROVE  Same
  BY <1>1, <1>5, BeginIs, DelegateIs
<1>6. ASSUME \/ \E t \in Turns : ReadTotals(t)
             \/ \E t \in Turns : SaveTotals(t)
             \/ \E c \in Sessions : SaveSummary(c)
      PROVE  Same
  BY <1>1, <1>6, ReadTotalsIs, SaveTotalsIs, SaveSummaryIs
<1> HIDE DEF Same
<1>7. Same
  BY StepIs, <1>2, <1>3, <1>4, <1>5, <1>6
<1>8. LastCall(s, i)
  <2>1. calls[i].sess = s
    BY <1>7 DEF LastCall, CallsOf, Same
  <2>2. ASSUME NEW j \in DOMAIN calls, j > i, calls[j].sess = s \/ parent[calls[j].sess] = s
        PROVE  FALSE
    <3>1. j \in DOMAIN calls' /\ calls'[j].sess = calls[j].sess /\ calls[j].sess \in Sessions
      BY <1>7, Callers DEF Same
    <3>2. calls[j].sess # s /\ parent'[calls[j].sess] # s
      BY <2>2, <3>1 DEF LastCall
    <3>3. parent[calls[j].sess] = s /\ s # None
      BY <2>2, <3>2, LedgerAssumption
    <3> QED
      BY <3>1, <3>2, <3>3, ParentsStay
  <2> QED
    BY <1>7, <2>1, <2>2 DEF LastCall, CallsOf, Same
<1> QED
  BY <1>7, <1>8 DEF Same

LEMMA TotalsKeptStep ==
  ASSUME IInv, Families, OneLive, InOrder, CallsMade, SubagentsPaid, HeldTrue, TotalsKept,
         [Next]_vars
  PROVE  TotalsKept'
<1> SUFFICES ASSUME NEW s \in Sessions, NEW i \in DOMAIN calls', NEW t, t = calls'[i].turn,
                    LastCall(s, i)', ~Dead(t)', calls'[i].status = "completed"
             PROVE  ~spoilt'[s] =>
                      (pc'[t] \in {"totals", "save"} /\ call'[t] = i) \/ cost'[s] = SessionTotals(s)'
  BY DEF TotalsKept
<1> DEFINE Kept(b) == (pc[t] \in {"totals", "save"} /\ call[t] = i) \/ spoilt[s] \/ cost[s] = b
<1>1. /\ i \in DOMAIN calls /\ LastCall(s, i) /\ t = calls[i].turn
      /\ calls[i].status = "completed" \/ (pc'[t] = "totals" /\ call'[t] = i)
  BY StillLast
<1>2. CASE pc'[t] = "totals" /\ call'[t] = i
  BY <1>2
<1>3. CASE calls[i].status = "completed"
  <2>0. /\ t \in Turns /\ pc[t] # "idle" /\ ~Dead(t) /\ sess[t] = s
        /\ pc \in [Turns -> States] /\ s # None
    <3>1. t \in Turns /\ pc[t] # "idle"
      BY <1>1, Callers
    <3>2. ~Dead(t)
      BY <3>1, Grows
    <3>3. calls[i].sess = s /\ sess[t] = s
      BY <1>1 DEF Families, LastCall, CallsOf
    <3>4. pc \in [Turns -> States] /\ s # None
      BY LedgerAssumption DEF IInv, TypeOK
    <3> QED
      BY <3>1, <3>2, <3>3, <3>4
  <2> DEFINE total == SessionTotals(s)
  <2>1. Kept(total)
    BY <1>1, <1>3, <2>0 DEF TotalsKept
  <2>2. SessionTotals(s)' = total
    BY <1>1, <1>3, TotalsStay
  <2>3. \A x \in Turns : pc[x] = "save" /\ ~Dead(x) /\ sess[x] = s => held[x] = total
    BY DEF HeldTrue
  <2> HIDE DEF total
  <2> DEFINE Claim == (pc'[t] \in {"totals", "save"} /\ call'[t] = i) \/ spoilt'[s] \/ cost'[s] = total
  <2> SUFFICES Claim
    BY <2>2
  <2>4. ASSUME pc'[t] = pc[t], call'[t] = call[t], cost'[s] = cost[s], spoilt[s] => spoilt'[s]
        PROVE  Claim
    BY <2>1, <2>4
  <2>5. ASSUME Rests PROVE Claim
    BY <2>4, <2>5 DEF Rests
  <2>6. ASSUME NEW x \in Turns, NEW c \in Sessions, Opens(x, c) PROVE Claim
    BY <2>0, <2>4, <2>6, BeginIs
  <2>7. ASSUME NEW x \in Turns, NEW u \in Turns, NEW c \in Sessions, Delegate(x, u, c)
        PROVE  Claim
    BY <2>0, <2>4, <2>7, DelegateIs
  <2>8. ASSUME NEW x \in Turns, NEW from \in States, NEW to \in States, Moves(x, from, to)
        PROVE  Claim
    <3>0. cost' = cost /\ call' = call /\ (spoilt[s] => spoilt'[s])
      BY <2>8 DEF Moves
    <3>1. CASE x # t
      BY <2>0, <2>4, <2>8, <3>0, <3>1 DEF Moves
    <3>2. CASE x = t
      <4>1. pc[t] \in {"totals", "save"} => spoilt'[s]
        BY <2>0, <2>8, <3>2 DEF Moves
      <4> QED
        BY <2>1, <3>0, <4>1
    <3> QED
      BY <3>1, <3>2
  <2>9. ASSUME NEW x \in Turns, StartCall(x) PROVE Claim
    <3>1. CASE x # t
      BY <2>0, <2>4, <2>9, <3>1, StartCallIs
    <3>2. CASE x = t
      BY <2>1, <2>9, <3>2, StartCallIs
    <3> QED
      BY <3>1, <3>2
  <2>10. ASSUME NEW x \in Turns, NEW to \in States,
                NEW said \in {"completed", "failed", "cancelled"},
                NEW charge \in 0 .. 1, Closes(x, to, said, charge)
         PROVE  Claim
    <3>1. CASE x # t
      BY <2>0, <2>4, <2>10, <3>1 DEF Closes
    <3>2. CASE x = t
      BY <2>1, <2>10, <3>2 DEF Closes
    <3> QED
      BY <3>1, <3>2
  <2>11. ASSUME NEW x \in Turns, ReadTotals(x) PROVE Claim
    <3>1. CASE x # t
      BY <2>0, <2>4, <2>11, <3>1, ReadTotalsIs
    <3>2. CASE x = t
      BY <2>1, <2>11, <3>2, ReadTotalsIs
    <3> QED
      BY <3>1, <3>2
  <2>12. ASSUME NEW x \in Turns, SaveTotals(x) PROVE Claim
    <3>0. /\ pc[x] = "save" /\ cost'[sess[x]] = held[x] /\ spoilt'[sess[x]] = Dead(x)
          /\ \A c \in Sessions \ {sess[x]} : cost'[c] = cost[c] /\ spoilt'[c] = spoilt[c]
          /\ \A u \in Turns \ {x} : pc'[u] = pc[u]
          /\ call' = call
      BY <2>12, SaveTotalsIs
    <3>1. CASE sess[x] # s
      BY <2>0, <2>4, <3>0, <3>1
    <3>2. CASE sess[x] = s
      BY <2>3, <3>0, <3>2
    <3> QED
      BY <3>1, <3>2
  <2>13. ASSUME NEW z \in Sessions, SaveSummary(z) PROVE Claim
    <3>1. CASE z # s
      BY <2>4, <2>13, <3>1, SaveSummaryIs
    <3>2. CASE z = s
      BY <2>13, <3>2, SaveSummaryIs
    <3> QED
      BY <3>1, <3>2
  <2> HIDE DEF Claim
  <2> QED
    BY StepIs, <2>5, <2>6, <2>7, <2>8, <2>9, <2>10, <2>11, <2>12, <2>13
<1> QED
  BY <1>1, <1>2, <1>3

LEMMA InitTotals == Init => TotalsInv
<1> SUFFICES ASSUME Init PROVE TotalsInv
  OBVIOUS
<1>1. /\ DOMAIN calls = {} /\ \A t \in Turns : pc[t] = "idle" /\ of[t] = None /\ sess[t] = None
      /\ \A c \in Sessions : parent[c] = None /\ compact[c] = "none" /\ cost[c] = 0
  BY DEF Init
<1>2. Families
  BY <1>1 DEF Families
<1>3. OneLive /\ InOrder
  BY <1>1 DEF OneLive, InOrder, Live, InProgress
<1>4. CallsMade /\ SubagentsPaid /\ HeldTrue /\ TotalsKept
  BY <1>1 DEF CallsMade, SubagentsPaid, HeldTrue, TotalsKept
<1> QED
  BY <1>2, <1>3, <1>4 DEF TotalsInv

\* The totals reconcile from call to task to session (cost/store.go 13-14):
\* once the turn of a session's last call has run to its end, the row says what
\* the ledger says.
THEOREM TotalsReconcileAlways == Spec => []TotalsReconcile
<1>1. IInv /\ TotalsInv /\ [Next]_vars => TotalsInv'
  BY FamiliesStep, OneLiveStep, InOrderStep, CallsMadeStep, SubagentsPaidStep, HeldTrueStep,
     TotalsKeptStep
     DEF TotalsInv
<1>2. TotalsInv => TotalsReconcile
  BY DEF TotalsInv, TotalsKept, TotalsReconcile, SessionTotals
<1> QED
  BY <1>1, <1>2, InitTotals, Invariant, PTL DEF Spec
==============================================================================
