--------------------------- MODULE AggregatesProofs ---------------------------
(***************************************************************************)
(* Proofs about modules Aggregates and RangeQueries: the derived tables    *)
(* are exact whatever fails or stops, and the answers to ranges are        *)
(* complete.                                                               *)
(***************************************************************************)
EXTENDS RangeQueries, SeriesProofs, TLAPS

\* Later blocks have later times.
LEMMA TimeGrows ==
    ASSUME NEW h \in 0..MaxHeight, NEW k \in 0..MaxHeight
    PROVE  /\ TimeOf(h) \in Nat
           /\ h < k => TimeOf(h) < TimeOf(k)
           /\ h <= k => TimeOf(h) <= TimeOf(k)
           /\ 1 <= h => TimeOf(h) = BlockTime[h]
  <1>1. \A i \in 1..MaxHeight : TimeOf(i) = BlockTime[i] /\ BlockTime[i] \in Nat \ {0}
    BY AggregatesAssumption DEF TimeOf
  <1>2. TimeOf(0) = 0
    BY DEF TimeOf
  <1>3. MaxHeight \in Nat
    BY AggregatesAssumption
  <1>4. \A i \in 0..MaxHeight : TimeOf(i) \in Nat
    BY <1>1, <1>2, <1>3
  <1>5. h < k => TimeOf(h) < TimeOf(k)
    BY <1>1, <1>2, <1>3, AggregatesAssumption
  <1> QED
    BY <1>1, <1>3, <1>4, <1>5

\* What refreshAggregates computes before it calls the procedures.
LEMMA RefreshComputed ==
    ASSUME TypeOK
    PROVE  /\ RefreshEnd \in Nat
           /\ RefreshEnd <= TimeOf(visible) + 1
           /\ Target \in BlockIds
           /\ Behind \in BOOLEAN
           /\ FirstTime \in Nat
  <1>1. TimeOf(visible) \in Nat /\ visible \in 0..MaxHeight
    BY TimeGrows DEF TypeOK
  <1>2. FirstTime \in Nat
    BY AggregatesAssumption DEF FirstTime
  <1>3. From \in Nat
    BY <1>2 DEF From, TypeOK, BlockIds
  <1>4. MaxStep \in Nat /\ MaxHeight \in Nat
    BY AggregatesAssumption
  <1>5. RefreshEnd \in Nat /\ RefreshEnd <= TimeOf(visible) + 1
    BY <1>1, <1>3, <1>4 DEF RefreshEnd, Behind
  <1>6. Target \in BlockIds
    BY <1>1, <1>3, <1>4 DEF Target, BlockIds
  <1> QED
    BY <1>2, <1>5, <1>6 DEF Behind

LEMMA InitAgg == Init => AggInv
  <1> SUFFICES ASSUME Init PROVE AggInv
    OBVIOUS
  <1> USE AggregatesAssumption
  <1>1. TypeOK
    <2>1. watermark \in [Names -> Nat] /\ counted \in [Names -> [Heights -> Nat]]
      BY DEF Init
    <2>2. NoRefresh \in Refreshes /\ NoBlock \in BlockIds
      BY DEF NoRefresh, Refreshes, NoBlock, BlockIds
    <2>3. /\ top \in 0..MaxHeight /\ visible \in 0..MaxHeight
          /\ requests \in 0..1 /\ pings \in 0..2
          /\ failures \in 0..MaxFailures /\ stops \in 0..MaxStops /\ trims \in 0..MaxTrims
      BY DEF Init
    <2>4. alive \in BOOLEAN /\ firstKnown \in BOOLEAN /\ ctxDone \in BOOLEAN
      BY Zenon DEF Init
    <2>5. lastAggregated \in BlockIds /\ pc \in {"idle", "refresh", "calls"} /\ refresh \in Refreshes
      BY <2>2, Zenon DEF Init
    <2> QED
      BY <2>1, <2>3, <2>4, <2>5, Zenon DEF TypeOK
  <1>2. AggregatesAreExact
    BY DEF Init, AggregatesAreExact, Heights
  <1> QED
    BY <1>1, <1>2 DEF Init, AggInv, TimeOf

\* A step that leaves the tables and the visible block alone or lets the process die.
LEMMA Calls ==
    ASSUME AggInv, CallProcedure
    PROVE  AggInv'
  <1> DEFINE p == Procedure
  <1>0. TypeOK /\ p \in Names /\ pc = "calls" /\ refresh.end \in Nat /\ refresh.next \in Nat \ {0}
    BY DEF AggInv, TypeOK, Refreshes, CallProcedure, Calling, Procedure, Names
  <1>1. UNCHANGED <<top, writerVars, lastAggregated, pc, requests, pings, ctxDone, bounds>>
    BY DEF CallProcedure
  <1>2. refresh' = [refresh EXCEPT !.next = @ + 1] /\ refresh' \in Refreshes /\ refresh'.end = refresh.end
    BY <1>0 DEF CallProcedure, Refreshes, TypeOK
  <1>3. visible \in 0..MaxHeight /\ top \in 0..MaxHeight /\ visible <= top
    BY DEF AggInv, TypeOK
  <1>4. refresh.end <= TimeOf(top) + 1
    BY <1>0, <1>3, TimeGrows DEF AggInv
  <1>5. CASE watermark[p] < refresh.end
    <2>1. watermark' = [watermark EXCEPT ![p] = refresh.end]
          /\ counted' = [counted EXCEPT ![p] = [h \in Heights |-> CountAfter(p, h)]]
      BY <1>5 DEF CallProcedure
    <2>2. \A h \in Heights : CountAfter(p, h) \in Nat
      BY <1>0 DEF CountAfter, TypeOK
    <2>3. watermark' \in [Names -> Nat] /\ counted' \in [Names -> [Heights -> Nat]]
      BY <1>0, <2>1, <2>2 DEF TypeOK
    <2>4. ASSUME NEW q \in Names, NEW h \in Heights
          PROVE  counted'[q][h] = IF h <= top' /\ (BlockTime[h] < watermark'[q]) THEN 1 ELSE 0
      <3>1. BlockTime[h] \in Nat /\ h \in Nat /\ watermark[q] \in Nat
        BY <1>0, AggregatesAssumption, SMTT(60) DEF TypeOK, Heights
      <3>2. counted[q][h] = IF h <= top /\ BlockTime[h] < watermark[q] THEN 1 ELSE 0
        BY DEF AggInv, AggregatesAreExact, Aggregated
      <3>3. CASE q = p
        <4>1. counted'[q][h] = CountAfter(p, h) /\ watermark'[q] = refresh.end
          BY <1>0, <2>1, <3>3 DEF TypeOK
        <4> QED
          BY <1>0, <1>1, <1>3, <1>5, <3>1, <3>2, <3>3, <4>1 DEF CountAfter, TakesIn
      <3>4. CASE q # p
        BY <1>0, <1>1, <2>1, <3>2, <3>4 DEF TypeOK
      <3> QED
        BY <3>3, <3>4
    <2>5. \A q \in Names : watermark'[q] <= TimeOf(top) + 1
      BY <1>0, <1>4, <2>1 DEF AggInv, TypeOK
    <2> QED
      BY <1>0, <1>1, <1>2, <2>3, <2>4, <2>5
         DEF AggInv, TypeOK, AggregatesAreExact, Aggregated, writerVars, bounds, TimeOf
  <1>6. CASE ~(watermark[p] < refresh.end)
    <2>1. UNCHANGED <<watermark, counted>>
      BY <1>6 DEF CallProcedure
    <2> QED
      BY <1>0, <1>1, <1>2, <2>1
         DEF AggInv, TypeOK, AggregatesAreExact, Aggregated, writerVars, bounds, TimeOf
  <1> QED
    BY <1>5, <1>6

\* New durable blocks are not before any watermark.
LEMMA Stores ==
    ASSUME AggInv, Store
    PROVE  AggInv'
  <1>1. top \in 0..MaxHeight /\ top' \in 0..MaxHeight /\ top < top' /\ visible \in 0..MaxHeight
        /\ MaxHeight \in Nat
    BY AggregatesAssumption DEF AggInv, TypeOK, Store
  <1>2. UNCHANGED <<watermark, counted, writerVars, jobVars, requests, pings, ctxDone, bounds>>
    BY DEF Store
  <1>3. TypeOK'
    BY <1>1, <1>2 DEF AggInv, TypeOK, writerVars, jobVars, bounds
  <1>4. ASSUME NEW p \in Names, NEW h \in Heights, top < h PROVE ~Aggregated(p, h)
    <2>1. h \in 0..MaxHeight /\ TimeOf(h) = BlockTime[h] /\ BlockTime[h] \in Nat
      BY <1>1, AggregatesAssumption DEF Heights, TimeOf
    <2>2. TimeOf(top) < TimeOf(h) /\ TimeOf(top) \in Nat
      BY <1>1, <1>4, <2>1, TimeGrows
    <2>3. watermark[p] <= TimeOf(top) + 1 /\ watermark[p] \in Nat
      BY DEF AggInv, TypeOK
    <2> QED
      BY <2>1, <2>2, <2>3 DEF Aggregated
  <1>5. AggregatesAreExact'
    BY <1>1, <1>2, <1>4 DEF AggInv, AggregatesAreExact, Aggregated, Heights
  <1>6. TimeOf(top) <= TimeOf(top') /\ TimeOf(top) \in Nat /\ TimeOf(top') \in Nat
    BY <1>1, TimeGrows
  <1>7. \A p \in Names : watermark'[p] <= TimeOf(top') + 1
    BY <1>2, <1>6 DEF AggInv, TypeOK
  <1>8. UNCHANGED <<visible, pc, refresh>>
    BY <1>2 DEF writerVars, jobVars
  <1> QED
    BY <1>1, <1>3, <1>5, <1>7, <1>8 DEF AggInv, TimeOf

LEMMA AggStep == ASSUME AggInv, [Next]_vars PROVE AggInv'
  <1> USE DEF AggregatesAreExact, Aggregated, TimeOf
  <1>0. MaxHeight \in Nat /\ MaxHeight # 0 /\ TypeOK
    BY AggregatesAssumption DEF AggInv
  <1>1. CASE Start
    <2>1. watermark["actions"] \in Nat
      BY <1>0, AggregatesAssumption DEF TypeOK
    <2>2. [height |-> 0, timestamp |-> watermark["actions"]] \in BlockIds
      BY <1>0, <2>1 DEF BlockIds
    <2>3. lastAggregated' \in BlockIds
      BY <1>1, <2>2, Zenon DEF Start
    <2>4. alive' \in BOOLEAN /\ firstKnown' \in BOOLEAN
      BY <1>1, Zenon DEF Start
    <2>5. visible' = top /\ UNCHANGED <<dbVars, requests, pings, pc, refresh, ctxDone, bounds>>
      BY <1>1, Zenon DEF Start
    <2>6. TypeOK'
      BY <1>0, <2>3, <2>4, <2>5, Zenon DEF TypeOK, dbVars, bounds
    <2>7. TimeOf(visible) <= TimeOf(visible') /\ TimeOf(visible) \in Nat /\ TimeOf(visible') \in Nat
      BY <1>0, <2>5, TimeGrows DEF TypeOK, AggInv
    <2>8. pc' # "idle" => refresh'.end <= TimeOf(visible') + 1
      BY <1>0, <2>5, <2>7 DEF AggInv, TypeOK, Refreshes
    <2>9. UNCHANGED <<top, watermark, counted>> /\ visible' <= top' /\ top \in 0..MaxHeight
      BY <1>0, <2>5 DEF dbVars, TypeOK
    <2> QED
      BY <2>6, <2>8, <2>9 DEF AggInv
  <1>2. CASE Store
    BY <1>2, Stores
  <1>3. CASE Publish
    <2>1. TimeOf(visible) <= TimeOf(visible') /\ TimeOf(visible) \in Nat /\ TimeOf(visible') \in Nat
      BY <1>0, <1>3, TimeGrows DEF Publish, TypeOK, AggInv
    <2>2. TypeOK'
      BY <1>0, <1>3 DEF Publish, TypeOK, dbVars, jobVars, bounds
    <2>3. UNCHANGED <<top, watermark, counted, pc, refresh>> /\ visible' <= top
      BY <1>0, <1>3 DEF Publish, dbVars, jobVars, TypeOK
    <2>4. pc # "idle" => refresh.end \in Nat /\ refresh.end <= TimeOf(visible) + 1
      BY <1>0 DEF AggInv, TypeOK, Refreshes
    <2>5. pc' # "idle" => refresh'.end <= TimeOf(visible') + 1
      BY <2>1, <2>3, <2>4
    <2> QED
      BY <2>2, <2>3, <2>5 DEF AggInv
  <1>4. CASE Request
    BY <1>0, <1>4 DEF AggInv, Request, TypeOK, dbVars, writerVars, jobVars, bounds
  <1>5. CASE TakeRequest \/ Timer
    <2>1. /\ RefreshEnd \in Nat /\ RefreshEnd <= TimeOf(visible) + 1
          /\ Target \in BlockIds /\ Behind \in BOOLEAN /\ FirstTime \in Nat
      BY <1>0, RefreshComputed
    <2>2. PICK bulk \in BOOLEAN : BeginRefresh(bulk)
      BY <1>5 DEF TakeRequest, Timer
    <2>3. /\ refresh' \in Refreshes /\ refresh'.end = RefreshEnd
          /\ lastAggregated' \in BlockIds /\ pc' = "refresh"
      BY <1>0, <2>1, <2>2 DEF BeginRefresh, Refreshes, TypeOK, BlockIds
    <2>4. UNCHANGED <<dbVars, writerVars, pings, ctxDone, bounds>>
      BY <1>5, Zenon DEF TakeRequest, Timer
    <2>5. requests' \in 0..1
      <3>1. requests' = 0 \/ requests' = requests
        BY <1>5, Zenon DEF TakeRequest, Timer
      <3> QED
        BY <1>0, <3>1 DEF TypeOK
    <2> QED
      BY <1>0, <2>1, <2>3, <2>4, <2>5 DEF AggInv, TypeOK, dbVars, writerVars, bounds
  <1>6. CASE ContinuousAggregates
    <2>1. NoRefresh \in Refreshes
      BY <1>0 DEF NoRefresh, Refreshes, NoBlock, BlockIds
    <2> QED
      BY <1>0, <1>6, <2>1 DEF AggInv, ContinuousAggregates, TypeOK, dbVars, writerVars, bounds
  <1>7. CASE CallProcedure
    BY <1>7, Calls
  <1>8. CASE CallFails
    <2>1. refresh' \in Refreshes /\ refresh'.end = refresh.end
      BY <1>0, <1>8 DEF CallFails, TypeOK, Refreshes
    <2>2. failures' \in 0..MaxFailures /\ UNCHANGED <<dbVars, writerVars, lastAggregated, pc, requests, pings, ctxDone, stops, trims>>
      BY <1>0, <1>8, AggregatesAssumption DEF CallFails, TypeOK
    <2> QED
      BY <1>0, <2>1, <2>2 DEF AggInv, TypeOK, dbVars, writerVars
  <1>9. CASE EndRefresh
    <2>1. NoRefresh \in Refreshes /\ lastAggregated' \in BlockIds /\ pings' \in 0..2
      BY <1>0, <1>9 DEF NoRefresh, Refreshes, NoBlock, BlockIds, EndRefresh, WithPing, TypeOK
    <2> QED
      BY <1>0, <1>9, <2>1 DEF AggInv, EndRefresh, TypeOK, dbVars, writerVars, bounds
  <1>10. CASE TakePing
    BY <1>0, <1>10 DEF AggInv, TakePing, TypeOK, dbVars, writerVars, jobVars, bounds
  <1>11. CASE Cancel
    <2>1. stops' \in 0..MaxStops /\ UNCHANGED <<failures, trims>>
      BY <1>0, <1>11, AggregatesAssumption DEF Cancel, Stop, TypeOK
    <2>2. ctxDone' \in BOOLEAN /\ UNCHANGED <<dbVars, writerVars, jobVars, requests, pings>>
      BY <1>11, Zenon DEF Cancel
    <2>3. TypeOK'
      BY <1>0, <2>1, <2>2, Zenon DEF TypeOK, dbVars, writerVars, jobVars
    <2> QED
      BY <2>2, <2>3 DEF AggInv, dbVars, writerVars, jobVars
  <1>12. CASE Exit \/ Crash
    <2>1. NoRefresh \in Refreshes /\ NoBlock \in BlockIds
      BY <1>0 DEF NoRefresh, Refreshes, NoBlock, BlockIds
    <2>2. Die /\ UNCHANGED dbVars
      BY <1>12 DEF Exit, Crash
    <2>3. failures' \in 0..MaxFailures /\ stops' \in 0..MaxStops /\ trims' \in 0..MaxTrims
      BY <1>0, <1>12, AggregatesAssumption DEF Exit, Crash, Stop, TypeOK, bounds
    <2>4. UNCHANGED <<top, watermark, counted>>
      BY <2>2 DEF dbVars
    <2>5. visible' = 0 /\ pc' = "idle" /\ requests' \in 0..1 /\ pings' \in 0..2
      BY <2>2 DEF Die
    <2>6. alive' \in BOOLEAN /\ firstKnown' \in BOOLEAN /\ ctxDone' \in BOOLEAN
      BY <2>2, Zenon DEF Die
    <2>7. lastAggregated' \in BlockIds /\ refresh' \in Refreshes
      BY <2>1, <2>2, Zenon DEF Die
    <2>8. visible' \in 0..MaxHeight /\ visible' <= top' /\ top \in 0..MaxHeight
      BY <1>0, <2>4, <2>5 DEF TypeOK
    <2>9. TypeOK'
      BY <1>0, <2>3, <2>4, <2>5, <2>6, <2>7, <2>8, Zenon DEF TypeOK
    <2> QED
      BY <2>4, <2>5, <2>8, <2>9 DEF AggInv
  <1>13. CASE UNCHANGED vars
    BY <1>0, <1>13 DEF AggInv, TypeOK, vars, dbVars, writerVars, jobVars, bounds
  <1> QED
    BY <1>1, <1>2, <1>3, <1>4, <1>5, <1>6, <1>7, <1>8, <1>9, <1>10, <1>11, <1>12, <1>13
       DEF Next, Writer, Job

\* The inductive invariant of the aggregates job, for every chain, step and procedure.
THEOREM AggInvHolds == Spec => []AggInv
  BY InitAgg, AggStep, PTL DEF Spec

\* Every aggregate holds the rows before its watermark exactly once: refreshAggregates
\* neither loses nor repeats a row, whatever calls fail and wherever the process stops.
THEOREM AggregatesExact == Spec => []AggregatesAreExact
  BY AggInvHolds, PTL DEF AggInv

-----------------------------------------------------------------------------
(* What the API and the websockets rely on.                                 *)

\* Nothing failed, and the process is not stopping.
Undisturbed == failures = 0 /\ ~ctxDone

\* While nothing fails, the procedures that were called have the rows up to the end of the
\* refresh, and the balances, called first, are never behind the actions a new process
\* resumes from.
FreshInv ==
    /\ requests = 1 => 1 <= visible
    /\ pc = "refresh" => refresh.next = 1
    /\ pc # "idle" => /\ refresh.target.timestamp <= refresh.end
                      /\ TimeOf(refresh.target.height) < refresh.end
                      /\ ~refresh.bulk /\ refresh.caughtUp => refresh.target.height \in Heights
    /\ failures = 0 => watermark["actions"] <= watermark["balances"]
    /\ Undisturbed /\ pc = "calls" =>
          \A i \in DOMAIN Procedures : i < refresh.next => refresh.end <= watermark[Procedures[i]]
    /\ Undisturbed =>
          \A h \in Heights :
             h <= lastAggregated.height \/ BlockTime[h] < lastAggregated.timestamp =>
                Aggregated("balances", h)

\* Where the balances are called, and that the actions are called later.
LEMMA Order ==
    /\ "balances" \in Names /\ "actions" \in Names
    /\ \A i \in DOMAIN Procedures :
          Procedures[i] = "actions" => \E j \in DOMAIN Procedures : j < i /\ Procedures[j] = "balances"
    /\ \A i \in DOMAIN Procedures : i \in Nat /\ Procedures[i] \in Names
    /\ \A p \in Names : \E i \in DOMAIN Procedures : Procedures[i] = p
  BY AggregatesAssumption DEF Names

\* The balances never refuse a call: no row is in them before its watermark.
LEMMA NoConflict == ASSUME AggInv PROVE \A p \in Names : ~Conflicts(p)
  <1> SUFFICES ASSUME NEW h \in Heights, TakesIn("balances", h), 0 < counted["balances"][h]
               PROVE  FALSE
    BY DEF Conflicts
  <1>1. "balances" \in Names
    BY Order
  <1>2. BlockTime[h] \in Nat /\ watermark["balances"] \in Nat
    BY <1>1, AggregatesAssumption DEF Heights, AggInv, TypeOK
  <1>3. ~(BlockTime[h] < watermark["balances"])
    BY <1>2 DEF TakesIn
  <1> QED
    BY <1>1, <1>3 DEF AggInv, AggregatesAreExact, Aggregated

\* The refresh that begins ends after its target.
LEMMA TargetBeforeEnd ==
    ASSUME TypeOK
    PROVE  /\ Target.timestamp <= RefreshEnd
           /\ TimeOf(Target.height) < RefreshEnd
           /\ ~Behind => Target.height = visible
  <1>1. TimeOf(visible) \in Nat /\ visible \in 0..MaxHeight
    BY TimeGrows DEF TypeOK
  <1>2. From \in Nat /\ MaxStep \in Nat \ {0}
    BY AggregatesAssumption DEF From, FirstTime, TypeOK, BlockIds
  <1>3. CASE Behind
    BY <1>1, <1>2, <1>3 DEF Target, RefreshEnd, TimeOf
  <1>4. CASE ~Behind
    BY <1>1, <1>2, <1>4 DEF Target, RefreshEnd
  <1> QED
    BY <1>3, <1>4

\* A call that succeeds brings its procedure to the end of the refresh.
LEMMA CallIsFresh ==
    ASSUME AggInv, FreshInv, CallProcedure
    PROVE  FreshInv'
  <1> DEFINE p == Procedure
  <1>1. /\ p \in Names /\ refresh.next \in DOMAIN Procedures /\ p = Procedures[refresh.next]
        /\ pc = "calls" /\ ~ctxDone
        /\ refresh \in Refreshes /\ refresh.end \in Nat /\ refresh.next \in Nat
        /\ watermark \in [Names -> Nat]
    BY Order DEF AggInv, TypeOK, Refreshes, CallProcedure, Calling, Procedure
  <1>2. UNCHANGED <<top, writerVars, lastAggregated, pc, requests, pings, ctxDone, bounds>>
    BY DEF CallProcedure
  <1>3. refresh' = [refresh EXCEPT !.next = refresh.next + 1]
    BY DEF CallProcedure
  <1>4. /\ refresh'.end = refresh.end /\ refresh'.target = refresh.target
        /\ refresh'.bulk = refresh.bulk /\ refresh'.caughtUp = refresh.caughtUp
        /\ refresh'.next = refresh.next + 1
    BY <1>1, <1>3 DEF Refreshes
  <1>5. /\ watermark' \in [Names -> Nat]
        /\ \A q \in Names : watermark[q] <= watermark'[q]
        /\ \A q \in Names : q # p => watermark'[q] = watermark[q]
        /\ refresh.end <= watermark'[p]
        /\ watermark'[p] = watermark[p] \/ watermark'[p] = refresh.end
    <2>1. CASE watermark[p] < refresh.end
      <3>1. watermark' = [watermark EXCEPT ![p] = refresh.end]
        BY <2>1 DEF CallProcedure
      <3> QED
        BY <1>1, <2>1, <3>1
    <2>2. CASE ~(watermark[p] < refresh.end)
      <3>1. watermark' = watermark
        BY <2>2 DEF CallProcedure
      <3> QED
        BY <1>1, <2>2, <3>1
    <2> QED
      BY <2>1, <2>2
  <1>6. failures = 0 => watermark'["actions"] <= watermark'["balances"]
    <2>1. SUFFICES ASSUME failures = 0
                   PROVE  watermark'["actions"] <= watermark'["balances"]
      OBVIOUS
    <2>2. /\ "balances" \in Names /\ "actions" \in Names
          /\ watermark["actions"] <= watermark["balances"]
      BY <2>1, Order DEF FreshInv
    <2>3. CASE p = "actions" /\ watermark'[p] = refresh.end
      <3>1. PICK j \in DOMAIN Procedures : j < refresh.next /\ Procedures[j] = "balances"
        BY <1>1, <2>3, Order
      <3>2. refresh.end <= watermark["balances"]
        BY <1>1, <2>1, <3>1 DEF FreshInv, Undisturbed
      <3> QED
        BY <1>1, <1>5, <2>2, <2>3, <3>2
    <2>4. CASE ~(p = "actions" /\ watermark'[p] = refresh.end)
      <3>1. watermark'["actions"] = watermark["actions"]
        BY <1>5, <2>2, <2>4
      <3> QED
        BY <1>1, <1>5, <2>2, <3>1
    <2> QED
      BY <2>3, <2>4
  <1>7. Undisturbed =>
          \A i \in DOMAIN Procedures : i < refresh'.next => refresh'.end <= watermark'[Procedures[i]]
    <2>1. SUFFICES ASSUME Undisturbed, NEW i \in DOMAIN Procedures, i < refresh.next + 1
                   PROVE  refresh.end <= watermark'[Procedures[i]]
      BY <1>4
    <2>2. i \in Nat /\ Procedures[i] \in Names
      BY Order
    <2>3. CASE i = refresh.next
      BY <1>1, <1>5, <2>3
    <2>4. CASE i < refresh.next
      <3>1. refresh.end <= watermark[Procedures[i]]
        BY <1>1, <2>1, <2>4 DEF FreshInv
      <3> QED
        BY <1>1, <1>5, <2>2, <3>1
    <2> QED
      BY <1>1, <2>1, <2>2, <2>3, <2>4
  <1>8. \A h \in Heights : Aggregated("balances", h) => Aggregated("balances", h)'
    <2>1. \A h \in Heights : BlockTime[h] \in Nat
      BY AggregatesAssumption DEF Heights
    <2>2. "balances" \in Names
      BY Order
    <2> QED
      BY <1>1, <1>5, <2>1, <2>2 DEF Aggregated
  <1> QED
    BY <1>1, <1>2, <1>4, <1>6, <1>7, <1>8
       DEF FreshInv, Undisturbed, writerVars, bounds, TimeOf

\* A round that ends has brought every procedure to its end, unless something failed.
LEMMA RoundIsFresh ==
    ASSUME AggInv, FreshInv, EndRefresh, Undisturbed
    PROVE  /\ \A p \in Names : refresh.end <= watermark[p]
           /\ \A h \in Heights :
                 h <= refresh.target.height \/ BlockTime[h] < refresh.target.timestamp =>
                    BlockTime[h] < refresh.end
  <1>1. /\ pc = "calls" /\ refresh.next \notin DOMAIN Procedures
        /\ refresh \in Refreshes /\ refresh.end \in Nat /\ refresh.next \in Nat \ {0}
        /\ refresh.target \in BlockIds /\ refresh.target.height \in 0..MaxHeight
        /\ refresh.target.timestamp \in Nat
    BY DEF EndRefresh, AggInv, TypeOK, Refreshes, BlockIds
  <1>2. \A i \in DOMAIN Procedures : i < refresh.next
    <2>1. DOMAIN Procedures = 1..Len(Procedures) /\ Len(Procedures) \in Nat
      BY AggregatesAssumption
    <2> QED
      BY <1>1, <2>1
  <1>3. \A p \in Names : refresh.end <= watermark[p]
    BY <1>1, <1>2, Order DEF FreshInv
  <1>4. ASSUME NEW h \in Heights,
               h <= refresh.target.height \/ BlockTime[h] < refresh.target.timestamp
        PROVE  BlockTime[h] < refresh.end
    <2>1. h \in 0..MaxHeight /\ BlockTime[h] \in Nat /\ TimeOf(h) = BlockTime[h]
      BY AggregatesAssumption DEF Heights, TimeOf
    <2>2. /\ refresh.target.timestamp <= refresh.end
          /\ TimeOf(refresh.target.height) < refresh.end
      BY <1>1 DEF FreshInv
    <2>3. CASE h <= refresh.target.height
      <3>1. TimeOf(h) <= TimeOf(refresh.target.height) /\ TimeOf(refresh.target.height) \in Nat
        BY <1>1, <2>1, <2>3, TimeGrows
      <3> QED
        BY <1>1, <2>1, <2>2, <3>1
    <2>4. CASE BlockTime[h] < refresh.target.timestamp
      BY <1>1, <2>1, <2>2, <2>4
    <2> QED
      BY <1>4, <2>3, <2>4
  <1> QED
    BY <1>3, <1>4

\* Each step keeps the aggregates fresh.
LEMMA FreshStep ==
    ASSUME AggInv, FreshInv, [Next]_vars
    PROVE  FreshInv'
  <1>0. /\ "balances" \in Names /\ "actions" \in Names
        /\ watermark \in [Names -> Nat]
        /\ \A h \in Heights : h \in Nat /\ BlockTime[h] \in Nat
        /\ failures \in Nat
    BY Order, AggregatesAssumption DEF AggInv, TypeOK, Heights
  <1>1. CASE Start
    <2>1. /\ lastAggregated' = [height |-> 0, timestamp |-> watermark["actions"]]
          /\ visible' = top
          /\ UNCHANGED <<dbVars, requests, pings, pc, refresh, ctxDone, bounds>>
      BY <1>1 DEF Start
    <2>2. visible \in Nat /\ top \in Nat /\ visible <= top
      BY AggregatesAssumption DEF AggInv, TypeOK
    <2>3. lastAggregated'.height = 0 /\ lastAggregated'.timestamp = watermark["actions"]
      BY <2>1
    <2>4. \A h \in Heights : ~(h <= 0)
      BY AggregatesAssumption DEF Heights
    <2> QED
      BY <1>0, <2>1, <2>2, <2>3, <2>4
         DEF FreshInv, Undisturbed, Aggregated, dbVars, bounds, TimeOf
  <1>2. CASE Store \/ Publish \/ Request \/ TakePing
    <2>1. UNCHANGED <<watermark, counted, jobVars, ctxDone, bounds>>
      BY <1>2 DEF Store, Publish, Request, TakePing, dbVars
    <2>2. requests' = 1 => 1 <= visible'
      BY <1>2, AggregatesAssumption
         DEF FreshInv, Store, Publish, Request, TakePing, writerVars, AggInv, TypeOK
    <2> QED
      BY <2>1, <2>2 DEF FreshInv, Undisturbed, Aggregated, jobVars, bounds, TimeOf
  <1>3. CASE TakeRequest \/ Timer
    <2>1. PICK bulk \in BOOLEAN : BeginRefresh(bulk) /\ (~bulk => requests = 1)
      BY <1>3 DEF TakeRequest, Timer
    <2>2. UNCHANGED <<dbVars, writerVars, pings, ctxDone, bounds>> /\ requests' \in {0, requests}
      BY <1>3 DEF TakeRequest, Timer
    <2>3. /\ refresh'.target = Target /\ refresh'.end = RefreshEnd /\ refresh'.next = 1
          /\ refresh'.bulk = bulk /\ refresh'.caughtUp = ~Behind /\ pc' = "refresh"
      BY <2>1 DEF BeginRefresh
    <2>4. /\ Target.timestamp <= RefreshEnd
          /\ TimeOf(Target.height) < RefreshEnd
          /\ ~Behind => Target.height = visible
      BY TargetBeforeEnd DEF AggInv
    <2>5. ~bulk => visible \in Heights
      BY <2>1 DEF FreshInv, AggInv, TypeOK, Heights
    <2>6. \A h \in Heights :
             h <= lastAggregated'.height \/ BlockTime[h] < lastAggregated'.timestamp =>
                h <= lastAggregated.height \/ BlockTime[h] < lastAggregated.timestamp
      <3>1. CASE lastAggregated.timestamp < FirstTime
        <4>1. lastAggregated'.height = lastAggregated.height /\ lastAggregated'.timestamp = FirstTime
          BY <2>1, <3>1 DEF BeginRefresh, AggInv, TypeOK, BlockIds
        <4>2. \A h \in Heights : ~(BlockTime[h] < FirstTime)
          BY AggregatesAssumption DEF FirstTime, Heights
        <4> QED
          BY <4>1, <4>2
      <3>2. CASE ~(lastAggregated.timestamp < FirstTime)
        BY <2>1, <3>2 DEF BeginRefresh
      <3> QED
        BY <3>1, <3>2
    <2>7. UNCHANGED <<watermark, visible, failures, ctxDone>>
      BY <2>2 DEF dbVars, writerVars, bounds
    <2>8. ~refresh'.bulk /\ refresh'.caughtUp => refresh'.target.height \in Heights
      BY <2>3, <2>4, <2>5
    <2>9. TimeOf(refresh'.target.height) < refresh'.end /\ refresh'.target.timestamp <= refresh'.end
      BY <2>3, <2>4
    <2>10. requests' = 1 => 1 <= visible'
      BY <2>2, <2>7 DEF FreshInv
    <2>11. Undisturbed' =>
             \A h \in Heights :
                h <= lastAggregated'.height \/ BlockTime[h] < lastAggregated'.timestamp =>
                   BlockTime[h] < watermark'["balances"]
      BY <2>6, <2>7 DEF FreshInv, Undisturbed, Aggregated
    <2> QED
      BY <2>3, <2>7, <2>8, <2>9, <2>10, <2>11 DEF FreshInv, Undisturbed, Aggregated, TimeOf
  <1>4. CASE ContinuousAggregates
    <2>1. /\ UNCHANGED <<dbVars, writerVars, lastAggregated, requests, pings, ctxDone, bounds>>
          /\ pc = "refresh"
          /\ pc' = "idle" \/ (pc' = "calls" /\ refresh' = refresh)
      BY <1>4 DEF ContinuousAggregates
    <2>2. pc' = "calls" => \A i \in DOMAIN Procedures : ~(i < refresh'.next)
      BY <2>1, AggregatesAssumption DEF FreshInv
    <2> QED
      BY <2>1, <2>2 DEF FreshInv, Undisturbed, Aggregated, dbVars, writerVars, bounds, TimeOf
  <1>5. CASE CallProcedure
    BY <1>5, CallIsFresh
  <1>6. CASE CallFails
    <2>1. /\ pc = "calls" /\ Procedure \in Names
          /\ refresh \in Refreshes
          /\ UNCHANGED <<dbVars, writerVars, lastAggregated, pc, requests, pings, ctxDone>>
          /\ refresh' = [refresh EXCEPT !.next = @ + 1]
      BY <1>6, Order DEF CallFails, Calling, Procedure, AggInv, TypeOK
    <2>2. failures' = 0 => failures = 0 /\ ctxDone
      BY <1>0, <1>6, <2>1, NoConflict DEF CallFails
    <2>3. /\ refresh'.end = refresh.end /\ refresh'.target = refresh.target
          /\ refresh'.bulk = refresh.bulk /\ refresh'.caughtUp = refresh.caughtUp
      BY <2>1 DEF Refreshes
    <2> QED
      BY <2>1, <2>2, <2>3 DEF FreshInv, Undisturbed, Aggregated, dbVars, writerVars, TimeOf
  <1>7. CASE EndRefresh
    <2>1. /\ lastAggregated' = refresh.target /\ pc' = "idle"
          /\ UNCHANGED <<dbVars, writerVars, requests, ctxDone, bounds>>
      BY <1>7 DEF EndRefresh
    <2>2. ASSUME Undisturbed, NEW h \in Heights,
                 h <= refresh.target.height \/ BlockTime[h] < refresh.target.timestamp
          PROVE  BlockTime[h] < watermark["balances"]
      <3>1. BlockTime[h] < refresh.end /\ refresh.end <= watermark["balances"]
        BY <1>0, <1>7, <2>2, RoundIsFresh
      <3>2. refresh.end \in Nat
        BY DEF AggInv, TypeOK, Refreshes
      <3> QED
        BY <1>0, <3>1, <3>2
    <2> QED
      BY <2>1, <2>2 DEF FreshInv, Undisturbed, Aggregated, dbVars, writerVars, bounds
  <1>8. CASE Cancel
    <2>1. ctxDone' /\ UNCHANGED <<dbVars, writerVars, jobVars, requests, failures>>
      BY <1>8 DEF Cancel, Stop
    <2> QED
      BY <2>1 DEF FreshInv, Undisturbed, dbVars, writerVars, jobVars, TimeOf
  <1>9. CASE Exit \/ Crash
    <2>1. Die /\ UNCHANGED <<dbVars, failures>>
      BY <1>9 DEF Exit, Crash, Stop, bounds
    <2>2. lastAggregated'.height = 0 /\ lastAggregated'.timestamp = 0 /\ pc' = "idle" /\ requests' = 0
      BY <2>1 DEF Die, NoBlock
    <2>3. \A h \in Heights : ~(h <= 0) /\ ~(BlockTime[h] < 0)
      BY AggregatesAssumption DEF Heights
    <2> QED
      BY <2>1, <2>2, <2>3 DEF FreshInv, Undisturbed, Aggregated, dbVars
  <1>10. CASE UNCHANGED vars
    BY <1>10
       DEF FreshInv, Undisturbed, Aggregated, vars, dbVars, writerVars, jobVars, bounds, TimeOf
  <1> QED
    BY <1>1, <1>2, <1>3, <1>4, <1>5, <1>6, <1>7, <1>8, <1>9, <1>10 DEF Next, Writer, Job

\* No procedure was called yet.
LEMMA InitFresh == Init => FreshInv
  <1> SUFFICES ASSUME Init PROVE FreshInv
    OBVIOUS
  <1>1. "balances" \in Names /\ "actions" \in Names
    BY Order
  <1>2. \A h \in Heights : ~(h <= 0) /\ ~(BlockTime[h] < 0)
    BY AggregatesAssumption DEF Heights
  <1> QED
    BY <1>1, <1>2 DEF Init, FreshInv, Undisturbed, NoBlock

\* While no call failed, whatever stopped the process, the procedures that were called
\* have the rows up to the end of the refresh, for every chain, step and list of procedures
\* that begins with the balances (aggregates.go:503-605).
THEOREM FreshInvHolds == Spec => []FreshInv
  BY AggInvHolds, InitFresh, FreshStep, PTL DEF Spec

\* The balances up to LastAggregatedBlock are there while no call failed: a process that
\* resumes from the watermark of the actions finds the balances at least as far, because
\* they are updated first (aggregates.go:592-594, 630-640).
THEOREM BalancesServed == Spec => []BalancesAreServed
  <1>1. FreshInv => BalancesAreServed
    BY DEF FreshInv, Undisturbed, BalancesAreServed
  <1> QED
    BY <1>1, FreshInvHolds, PTL

\* While no call failed a ping names a block that every aggregate has, at a height the
\* websockets can answer for (aggregates.go:596-605).
THEOREM PingsFresh == Spec => PingsAreFresh
  <1>1. ASSUME AggInv, FreshInv, [Next]_vars, failures = 0 /\ ~ctxDone /\ pings < pings'
        PROVE  /\ lastAggregated'.height \in Heights
               /\ \A p \in Names : Aggregated(p, lastAggregated'.height)
    <2>1. pings \in 0..2
      BY <1>1 DEF AggInv, TypeOK
    <2>2. CASE EndRefresh
      <3>1. Announces /\ lastAggregated' = refresh.target /\ pc = "calls"
        BY <1>1, <2>1, <2>2 DEF EndRefresh
      <3>2. lastAggregated'.height \in Heights
        BY <1>1, <3>1 DEF FreshInv, Announces
      <3>3. ASSUME NEW p \in Names
            PROVE  Aggregated(p, lastAggregated'.height)
        <4> DEFINE h == refresh.target.height
        <4>1. h \in Heights /\ h <= h
          BY <3>1, <3>2, AggregatesAssumption DEF Heights
        <4>2. BlockTime[h] < refresh.end /\ refresh.end <= watermark[p]
          BY <1>1, <2>2, <4>1, RoundIsFresh DEF Undisturbed
        <4>3. BlockTime[h] \in Nat /\ refresh.end \in Nat /\ watermark[p] \in Nat
          BY <1>1, <4>1, AggregatesAssumption DEF AggInv, TypeOK, Refreshes, Heights
        <4> QED
          BY <3>1, <4>2, <4>3 DEF Aggregated
      <3> QED
        BY <3>2, <3>3
    <2>3. CASE ~EndRefresh
      <3>1. pings' = pings \/ pings' = 0 \/ pings' = pings - 1
        BY <1>1, <2>3
           DEF Next, Writer, Job, Start, Store, Publish, Request, TakeRequest, Timer,
               ContinuousAggregates, CallProcedure, CallFails, TakePing, Cancel, Exit, Crash, Die,
               vars
      <3> QED
        BY <1>1, <2>1, <3>1
    <2> QED
      BY <2>2, <2>3
  <1>2. ASSUME AggInv, FreshInv, [Next]_vars
        PROVE  [failures = 0 /\ ~ctxDone /\ pings < pings' =>
                  /\ lastAggregated'.height \in Heights
                  /\ \A p \in Names : Aggregated(p, lastAggregated'.height)]_vars
    BY <1>1, <1>2
  <1> QED
    BY <1>2, AggInvHolds, FreshInvHolds, PTL DEF Spec, PingsAreFresh

-----------------------------------------------------------------------------
(* The three kinds of ranges.                                              *)

\* Buckets are refused, or are whole intervals, not more than so many, and have all of a range
\* that there are blocks of.
Covers(b, i, count, low, high, from, now) ==
    \/ b.outcome = "refused"
    \/ \E t, first, last :
          /\ b = Buckets("ok", t, i) /\ Whole(t, i, first, last) /\ Len(t) - 1 <= count
          /\ \A x \in Int : low <= x /\ x < high /\ from <= x /\ x <= now => first <= x /\ x < last

\* Without a count: from the interval a range begins in to the one it ends in, or to as many as
\* may be.
LEMMA WithoutCount ==
    ASSUME NEW i \in DOMAIN intervals, NEW from \in Int, NEW to \in Int, from < to,
           NEW start \in Int, NEW now \in Int,
           NEW before \in Starts(i), before + 3 * Long(i) <= from,
           NEW after \in Starts(i), to < after, from + maxIntervalCount * Long(i) <= after
    PROVE  Covers(Restricted(start, now, FirstBuckets(maxIntervalCount, generateTimestamps(i, from, to))),
                  i, maxIntervalCount, Trunc(i, from),
                  AtMost(NextStart(i, to), After(maxIntervalCount, i, Trunc(i, from))), start, now)
  <1> DEFINE max == maxIntervalCount
             g == generateTimestamps(i, from, to)
             low == Trunc(i, from)
             next == NextStart(i, to)
             far == After(max, i, low)
  <1>1. /\ max \in Nat \ {0} /\ Long(i) \in Nat \ {0} /\ before \in Int /\ after \in Int
        /\ before <= from /\ to <= after
    BY StartsAre, SeriesAssumption
  <1>2. low \in Starts(i) /\ low \in Int /\ low <= from
    BY <1>1, TruncIs
  <1>3. next \in Int
    BY <1>1, NextIs
  <1>4. far \in Int
    <2>1. max * Long(i) \in Nat
      BY <1>1
    <2>2. low + max * Long(i) <= after
      BY <1>1, <1>2, <2>1
    <2> HIDE DEF low, max
    <2> QED
      BY <1>1, <1>2, <2>2, AfterIs
  <1>5. g = BadRequest \/ \E t : g = Buckets("ok", t, i) /\ Whole(t, i, low, next)
    BY GeneratedIs
  <1> HIDE DEF g, low, next, max
  <1>6. ASSUME NEW t, g = Buckets("ok", t, i), Whole(t, i, low, next)
        PROVE  Covers(Restricted(start, now, FirstBuckets(max, g)), i, max, low, AtMost(next, far), start, now)
    <2> DEFINE m == AtMost(max + 1, Len(t))
               u == SubSeq(t, 1, m)
    <2>1. Stretch(t, Starts(i)) /\ 2 <= Len(t) /\ t[1] = low /\ t[Len(t)] = next
      BY <1>6 DEF Whole
    <2>2. Len(t) \in Nat /\ \A k \in 1..Len(t) : t[k] \in Int
      BY <2>1, StretchIs
    <2>3. /\ 1 \in 1..Len(t) /\ m \in 1..Len(t) /\ 1 < m /\ m <= max + 1
          /\ m = max + 1 \/ m = Len(t)
      BY <1>1, <2>1, <2>2 DEF AtMost
    <2> HIDE DEF m
    <2>4. Whole(u, i, low, t[m]) /\ Len(u) = m
      BY <1>6, <2>1, <2>2, <2>3, PartIsWhole
    <2>5. FirstBuckets(max, g) = Buckets("ok", u, i)
      BY <1>6, SomeBuckets DEF m
    <2> HIDE DEF u
    <2>6. PICK a \in 1..Len(u), b \in 1..Len(u) :
              /\ a < b /\ Restricted(start, now, Buckets("ok", u, i)) = Buckets("ok", SubSeq(u, a, b), i)
              /\ \A x \in Int : start <= x /\ x <= now /\ low <= x /\ x < t[m] => u[a] <= x /\ x < u[b]
      <3>1. Restricts(u, i, low, t[m], start, now)
        BY <2>4, RestrictedIs
      <3> QED
        BY <3>1 DEF Restricts
    <2> DEFINE v == SubSeq(u, a, b)
    <2>7. Whole(v, i, u[a], u[b]) /\ Len(v) - 1 <= max
      <3>1. Whole(v, i, u[a], u[b]) /\ Len(v) = b - a + 1
        BY <2>4, <2>6, PartIsWhole
      <3> HIDE DEF v
      <3> QED
        BY <1>1, <2>2, <2>3, <2>4, <2>6, <3>1
    <2>8. ASSUME NEW x \in Int, x < AtMost(next, far) PROVE x < t[m]
      <3>1. CASE m = Len(t)
        BY <1>3, <1>4, <2>1, <2>8, <3>1 DEF AtMost
      <3>2. CASE m = max + 1
        <4>1. max < Len(t) /\ max \in Nat /\ 1 + max = m
          BY <1>1, <2>2, <2>3, <3>2
        <4>2. far = t[m]
          BY <1>6, <4>1, PlacesAre
        <4> HIDE DEF far
        <4> QED
          BY <1>3, <1>4, <2>8, <4>2 DEF AtMost
      <3> QED
        BY <2>3, <3>1, <3>2
    <2>9. \A x \in Int : low <= x /\ x < AtMost(next, far) /\ start <= x /\ x <= now => u[a] <= x /\ x < u[b]
      BY <2>6, <2>8
    <2>10. Restricted(start, now, FirstBuckets(max, g)) = Buckets("ok", v, i)
      BY <2>5, <2>6
    <2> HIDE DEF v, far
    <2> QED
      BY <2>7, <2>9, <2>10 DEF Covers
  <1> HIDE DEF far
  <1>7. Covers(Restricted(start, now, FirstBuckets(max, g)), i, max, low, AtMost(next, far), start, now)
    BY <1>5, <1>6, RefusedIs DEF Covers
  <1> QED
    BY <1>7 DEF g, low, next, far, max

\* A count up to a time: so many intervals before the end of the one it is in.
LEMMA CountedBack ==
    ASSUME NEW i \in DOMAIN intervals, NEW n \in Nat \ {0}, NEW to \in Int,
           NEW start \in Int, NEW now \in Int,
           NEW before \in Starts(i), before + 3 * Long(i) <= to - n * Long(i),
           NEW after \in Starts(i), to < after
    PROVE  Covers(LastBuckets(n, Restricted(start, now, generateTimestamps(i, to - n * Long(i), to))),
                  i, n, Before(n, i, NextStart(i, to)), NextStart(i, to), start, now)
  <1> DEFINE from == to - n * Long(i)
             g == generateTimestamps(i, from, to)
             low == Trunc(i, from)
             next == NextStart(i, to)
  <1>1. /\ Long(i) \in Nat \ {0} /\ n * Long(i) \in Nat \ {0} /\ before \in Int /\ after \in Int
        /\ from \in Int /\ from < to /\ before <= from /\ to <= after
    <2>1. Long(i) \in Nat \ {0} /\ before \in Int /\ after \in Int
      BY StartsAre
    <2>2. n * Long(i) \in Nat \ {0}
      BY <2>1
    <2> QED
      BY <2>1, <2>2
  <1>2. low \in Int /\ low <= from
    BY <1>1, TruncIs
  <1>3. next \in Int /\ to <= next
    BY <1>1, NextIs
  <1>4. low + n * Long(i) <= next
    BY <1>1, <1>2, <1>3
  <1>5. g = BadRequest \/ \E t : g = Buckets("ok", t, i) /\ Whole(t, i, low, next)
    BY <1>1, GeneratedIs
  <1> HIDE DEF g, low, next
  <1>6. ASSUME NEW t, g = Buckets("ok", t, i), Whole(t, i, low, next)
        PROVE  Covers(LastBuckets(n, Restricted(start, now, g)), i, n, Before(n, i, next), next, start, now)
    <2>1. Stretch(t, Starts(i)) /\ 2 <= Len(t) /\ t[1] = low /\ t[Len(t)] = next
      BY <1>6 DEF Whole
    <2>2. /\ Len(t) \in Nat /\ \A k \in 1..Len(t) : t[k] \in Int
          /\ \A k, l \in 1..Len(t) : k <= l <=> t[k] <= t[l]
      BY <2>1, StretchIs
    <2>3. PICK a \in 1..Len(t), b \in 1..Len(t) :
              /\ a < b /\ Restricted(start, now, Buckets("ok", t, i)) = Buckets("ok", SubSeq(t, a, b), i)
              /\ \A x \in Int : start <= x /\ x <= now /\ low <= x /\ x < next => t[a] <= x /\ x < t[b]
      <3>1. Restricts(t, i, low, next, start, now)
        BY <1>6, RestrictedIs
      <3> QED
        BY <3>1 DEF Restricts
    <2> DEFINE u == SubSeq(t, a, b)
               k == AtLeast(Len(u) - n, 1)
               v == SubSeq(u, k, Len(u))
    <2>4. /\ Whole(u, i, t[a], t[b]) /\ Len(u) = b - a + 1
          /\ \A l \in 1..(b - a + 1) : u[l] = t[a + l - 1]
      BY <1>6, <2>3, PartIsWhole
    <2> HIDE DEF u
    <2>5. /\ Len(u) \in Nat /\ k \in 1..Len(u) /\ Len(u) \in 1..Len(u) /\ k < Len(u)
          /\ Len(u) - k <= n /\ (k = 1 \/ k = Len(u) - n)
      BY <2>2, <2>3, <2>4 DEF AtLeast
    <2>6. LastBuckets(n, Restricted(start, now, g)) = Buckets("ok", v, i)
      BY <1>6, <2>3, SomeBuckets DEF u
    <2> HIDE DEF k
    <2>7. Whole(v, i, u[k], u[Len(u)]) /\ Len(v) - 1 <= n
      <3>1. Whole(v, i, u[k], u[Len(u)]) /\ Len(v) = Len(u) - k + 1
        <4>1. Whole(u, i, t[a], t[b]) /\ k \in 1..Len(u) /\ Len(u) \in 1..Len(u) /\ k < Len(u)
          BY <2>4, <2>5
        <4> QED
          BY <4>1, PartIsWhole
      <3> HIDE DEF v
      <3> QED
        BY <2>5, <3>1
    <2>8. n < Len(t)
      BY <1>4, <1>6, LongEnough
    <2>9. Before(n, i, next) = t[Len(t) - n]
      BY <1>6, <2>8, PlacesAre
    <2>10. u[k] = t[a + k - 1] /\ u[Len(u)] = t[b] /\ a + k - 1 \in 1..Len(t)
      <3>1. a + Len(u) - 1 = b
        BY <2>2, <2>3, <2>4
      <3>2. a + k - 1 \in 1..Len(t)
        BY <2>2, <2>3, <2>4, <2>5
      <3> QED
        BY <2>4, <2>5, <3>1, <3>2
    <2>11. ASSUME NEW x \in Int, Before(n, i, next) <= x, x < next, start <= x, x <= now
           PROVE  u[k] <= x /\ x < u[Len(u)]
      <3>1. Len(t) - n \in 1..Len(t) /\ 1 \in 1..Len(t) /\ 1 <= Len(t) - n
        BY <2>2, <2>8
      <3>2. t[1] <= t[Len(t) - n] /\ t[1] \in Int /\ t[Len(t) - n] \in Int
        BY <2>2, <3>1
      <3>3. low <= x
        BY <2>1, <2>9, <2>11, <3>2
      <3>4. t[a] <= x /\ x < t[b]
        BY <2>3, <2>11, <3>3
      <3>5. u[k] <= x
        <4>1. CASE k = 1
          <5>1. a + k - 1 = a
            BY <4>1
          <5> QED
            BY <2>10, <3>4, <5>1
        <4>2. CASE k = Len(u) - n
          <5>1. a + k - 1 <= Len(t) - n
            BY <2>2, <2>3, <2>4, <4>2
          <5>2. t[a + k - 1] <= t[Len(t) - n] /\ t[a + k - 1] \in Int
            BY <2>2, <2>10, <3>1, <5>1
          <5> QED
            BY <2>9, <2>10, <2>11, <3>2, <5>2
        <4> QED
          BY <2>5, <4>1, <4>2
      <3> QED
        BY <2>10, <3>4, <3>5
    <2> HIDE DEF v
    <2> QED
      BY <2>6, <2>7, <2>11 DEF Covers
  <1>7. Covers(LastBuckets(n, Restricted(start, now, g)), i, n, Before(n, i, next), next, start, now)
    BY <1>5, <1>6, RefusedIs DEF Covers
  <1> QED
    BY <1>7 DEF g, next, from

\* A count from a time: so many intervals from the one it is in.
LEMMA CountedOn ==
    ASSUME NEW i \in DOMAIN intervals, NEW n \in Nat \ {0}, NEW from \in Int,
           NEW start \in Int, NEW now \in Int,
           NEW before \in Starts(i), before + 3 * Long(i) <= from,
           NEW after \in Starts(i), from + n * Long(i) < after
    PROVE  Covers(FirstBuckets(n, Restricted(start, now, generateTimestamps(i, from, from + n * Long(i)))),
                  i, n, Trunc(i, from), After(n, i, Trunc(i, from)), start, now)
  <1> DEFINE to == from + n * Long(i)
             g == generateTimestamps(i, from, to)
             low == Trunc(i, from)
             next == NextStart(i, to)
  <1>1. /\ Long(i) \in Nat \ {0} /\ n * Long(i) \in Nat \ {0} /\ before \in Int /\ after \in Int
        /\ to \in Int /\ from < to /\ before <= from /\ to <= after
    <2>1. Long(i) \in Nat \ {0} /\ before \in Int /\ after \in Int
      BY StartsAre
    <2>2. n * Long(i) \in Nat \ {0}
      BY <2>1
    <2> QED
      BY <2>1, <2>2
  <1>2. low \in Int /\ low <= from
    BY <1>1, TruncIs
  <1>3. next \in Int /\ to <= next
    BY <1>1, NextIs
  <1>4. low + n * Long(i) <= next
    BY <1>1, <1>2, <1>3
  <1>5. g = BadRequest \/ \E t : g = Buckets("ok", t, i) /\ Whole(t, i, low, next)
    BY <1>1, GeneratedIs
  <1> HIDE DEF g, low, next
  <1>6. ASSUME NEW t, g = Buckets("ok", t, i), Whole(t, i, low, next)
        PROVE  Covers(FirstBuckets(n, Restricted(start, now, g)), i, n, low, After(n, i, low), start, now)
    <2>1. Stretch(t, Starts(i)) /\ 2 <= Len(t) /\ t[1] = low /\ t[Len(t)] = next
      BY <1>6 DEF Whole
    <2>2. /\ Len(t) \in Nat /\ \A k \in 1..Len(t) : t[k] \in Int
          /\ \A k, l \in 1..Len(t) : k <= l <=> t[k] <= t[l]
      BY <2>1, StretchIs
    <2>3. PICK a \in 1..Len(t), b \in 1..Len(t) :
              /\ a < b /\ Restricted(start, now, Buckets("ok", t, i)) = Buckets("ok", SubSeq(t, a, b), i)
              /\ \A x \in Int : start <= x /\ x <= now /\ low <= x /\ x < next => t[a] <= x /\ x < t[b]
      <3>1. Restricts(t, i, low, next, start, now)
        BY <1>6, RestrictedIs
      <3> QED
        BY <3>1 DEF Restricts
    <2> DEFINE u == SubSeq(t, a, b)
               m == AtMost(n + 1, Len(u))
               v == SubSeq(u, 1, m)
    <2>4. /\ Whole(u, i, t[a], t[b]) /\ Len(u) = b - a + 1
          /\ \A l \in 1..(b - a + 1) : u[l] = t[a + l - 1]
      BY <1>6, <2>3, PartIsWhole
    <2> HIDE DEF u
    <2>5. /\ Len(u) \in Nat /\ m \in 1..Len(u) /\ 1 \in 1..Len(u) /\ 1 < m
          /\ m <= n + 1 /\ (m = n + 1 \/ m = Len(u))
      BY <2>2, <2>3, <2>4 DEF AtMost
    <2>6. FirstBuckets(n, Restricted(start, now, g)) = Buckets("ok", v, i)
      BY <1>6, <2>3, SomeBuckets DEF u
    <2> HIDE DEF m
    <2>7. Whole(v, i, u[1], u[m]) /\ Len(v) - 1 <= n
      <3>1. Whole(v, i, u[1], u[m]) /\ Len(v) = m - 1 + 1
        BY <2>4, <2>5, PartIsWhole, SMTT(60)
      <3> HIDE DEF v
      <3> QED
        BY <2>5, <3>1
    <2>8. n < Len(t)
      BY <1>4, <1>6, LongEnough
    <2>9. After(n, i, low) = t[1 + n]
      BY <1>6, <2>8, PlacesAre
    <2>10. u[1] = t[a] /\ u[m] = t[a + m - 1] /\ a + m - 1 \in 1..Len(t)
      <3>1. a + 1 - 1 = a
        BY <2>2
      <3>2. a + m - 1 \in 1..Len(t)
        BY <2>2, <2>3, <2>4, <2>5
      <3> QED
        BY <2>4, <2>5, <3>1, <3>2
    <2>11. ASSUME NEW x \in Int, low <= x, x < After(n, i, low), start <= x, x <= now
           PROVE  u[1] <= x /\ x < u[m]
      <3>1. 1 + n \in 1..Len(t) /\ Len(t) \in 1..Len(t) /\ 1 + n <= Len(t)
        BY <2>2, <2>8
      <3>2. t[1 + n] <= t[Len(t)] /\ t[Len(t)] \in Int /\ t[1 + n] \in Int
        BY <2>2, <3>1
      <3>3. x < next
        BY <2>1, <2>9, <2>11, <3>2
      <3>4. t[a] <= x /\ x < t[b]
        BY <2>3, <2>11, <3>3
      <3>5. x < u[m]
        <4>1. CASE m = Len(u)
          <5>1. a + m - 1 = b
            BY <2>2, <2>3, <2>4, <4>1
          <5> QED
            BY <2>10, <3>4, <5>1
        <4>2. CASE m = n + 1
          <5>1. 1 + n <= a + m - 1
            BY <2>2, <2>3, <4>2
          <5>2. t[1 + n] <= t[a + m - 1] /\ t[a + m - 1] \in Int
            BY <2>2, <2>10, <3>1, <5>1
          <5> QED
            BY <2>9, <2>10, <2>11, <3>2, <5>2
        <4> QED
          BY <2>5, <4>1, <4>2
      <3> QED
        BY <2>10, <3>4, <3>5
    <2> HIDE DEF v
    <2> QED
      BY <2>6, <2>7, <2>11 DEF Covers
  <1>7. Covers(FirstBuckets(n, Restricted(start, now, g)), i, n, low, After(n, i, low), start, now)
    BY <1>5, <1>6, RefusedIs DEF Covers
  <1> QED
    BY <1>7 DEF g, low, to

-----------------------------------------------------------------------------
(* The theorem on answers.                                                 *)

\* The first block has the first time.
LEMMA FirstIsFirst ==
    FirstSecond \in Int /\ \A h \in 1..MaxHeight : BlockTime[h] \in Int /\ FirstSecond <= BlockTime[h]
  <1>1. /\ MaxHeight \in Nat \ {0} /\ BlockTime \in [1..MaxHeight -> Nat \ {0}]
        /\ \A h, k \in 1..MaxHeight : h < k => BlockTime[h] < BlockTime[k]
    BY AggregatesAssumption
  <1>2. 1 \in 1..MaxHeight /\ \A h \in 1..MaxHeight : BlockTime[h] \in Int
    BY <1>1
  <1>3. ASSUME NEW h \in 1..MaxHeight PROVE BlockTime[1] <= BlockTime[h]
    <2>1. BlockTime[1] \in Int /\ BlockTime[h] \in Int /\ (h = 1 \/ 1 < h)
      BY <1>2
    <2>2. 1 < h => BlockTime[1] < BlockTime[h]
      BY <1>1, <1>2
    <2> QED
      BY <2>1, <2>2
  <1> QED
    BY <1>2, <1>3 DEF FirstSecond

\* A query for a series.
AsksSeries(q) == q.interval # "" /\ Upright(q)

\* The interval of a query is refused, or covers what is asked for.
LEMMA AnswerCovers ==
    ASSUME NEW q \in Asked, AsksSeries(q)
    PROVE  Covers(Answer(q), q.interval, Given(q.count, maxIntervalCount),
                  AskedRange(q)[1], AskedRange(q)[2], FirstSecond, q.now)
  <1> DEFINE i == q.interval
             max == maxIntervalCount
             from == Given(q.from, FirstSecond)
             to == Given(q.to, q.now)
  <1>1. FirstSecond \in Int /\ q.now \in Int
    BY FirstIsFirst, RangeQueriesAssumption
  <1>2. /\ from \in Int /\ to \in Int /\ from < to
        /\ q.from # <<>> => from = q.from[1]
        /\ q.count # <<>> => q.count[1] \in Int /\ Given(q.count, max) = q.count[1]
        /\ q.count = <<>> => Given(q.count, max) = max
    <2>1. Parameter(q.count) /\ Parameter(q.from) /\ Parameter(q.to)
      BY RangeQueriesAssumption
    <2>2. max \in Int
      <3>1. max \in Nat \ {0}
        BY SeriesAssumption
      <3> QED
        BY <3>1
    <2>3. from < to
      BY DEF Upright, AsksSeries
    <2>4. q.count = <<>> => Given(q.count, max) = max
      BY DEF Given
    <2> QED
      BY <1>1, <2>1, <2>2, <2>3, <2>4, ParameterIs
  <1>3. CASE i \notin DOMAIN intervals
    <2>1. Answer(q) = BadRequest
      BY <1>3 DEF Answer, BucketsFromQuery, AsksSeries
    <2> QED
      BY <2>1, RefusedIs DEF Covers
  <1>4. CASE i \in DOMAIN intervals
    <2>1. Answer(q) = generateBucketsWithInterval(q, FirstSecond, q.now)
      BY <1>4 DEF Answer, BucketsFromQuery, AsksSeries
    <2>2. PICK before \in Starts(i), after \in Starts(i) :
              /\ before + Beyond(i) <= from /\ before + Beyond(i) <= to
              /\ from + Beyond(i) <= after /\ to + Beyond(i) <= after
      BY <1>4, RangeQueriesAssumption DEF Starts
    <2>3. /\ max \in Nat \ {0} /\ Long(i) \in Nat \ {0} /\ before \in Int /\ after \in Int
          /\ Beyond(i) = max * Long(i) + 3 * Long(i) /\ max * Long(i) \in Nat
      <3>1. max \in Nat \ {0} /\ Long(i) \in Nat \ {0} /\ before \in Int /\ after \in Int
        BY <1>4, SeriesAssumption, StartsAre
      <3>2. Beyond(i) = (max + 3) * Long(i)
        BY DEF Beyond, Long
      <3> HIDE DEF max, i
      <3>3. (max + 3) * Long(i) = max * Long(i) + 3 * Long(i) /\ max * Long(i) \in Nat
        <4>1. max \in Nat /\ Long(i) \in Nat
          BY <3>1
        <4> QED
          BY <4>1, Products
      <3> QED
        BY <3>1, <3>2, <3>3
    <2> HIDE DEF from, to, max, i
    <2>4. /\ before + 3 * Long(i) <= from /\ to < after /\ from + max * Long(i) <= after
      <3> DEFINE B == Beyond(i)
                 L == Long(i)
                 x == max * L
      <3>1. /\ from \in Int /\ to \in Int /\ before \in Int /\ after \in Int
            /\ L \in Nat \ {0} /\ x \in Nat /\ B = x + 3 * L
            /\ before + B <= from /\ from + B <= after /\ to + B <= after
        BY <1>2, <2>2, <2>3
      <3> HIDE DEF B, L, x
      <3>2. before + 3 * L <= from /\ to < after /\ from + x <= after
        BY <3>1
      <3> QED
        BY <3>2 DEF L, x
    <2>5. ASSUME NEW n \in 1..max
          PROVE  /\ n \in Nat \ {0} /\ n * Long(i) \in Int
                 /\ before + 3 * Long(i) <= to - n * Long(i) /\ from + n * Long(i) < after
      <3>1. n \in Nat \ {0} /\ n \in Int /\ max \in Int /\ n <= max
        <4>1. max \in Nat \ {0}
          BY <2>3
        <4> QED
          BY <4>1
      <3>2. n * Long(i) \in Int /\ n * Long(i) <= max * Long(i)
        BY <2>3, <3>1, Times
      <3> DEFINE B == Beyond(i)
                 L == Long(i)
                 x == max * L
                 y == n * L
      <3>3. /\ from \in Int /\ to \in Int /\ before \in Int /\ after \in Int
            /\ L \in Nat \ {0} /\ x \in Nat /\ B = x + 3 * L /\ y \in Int /\ y <= x
            /\ before + B <= to /\ from + B <= after
        BY <1>2, <2>2, <2>3, <3>2
      <3> HIDE DEF B, L, x, y
      <3>4. before + 3 * L <= to - y /\ from + y < after
        BY <3>3
      <3> QED
        BY <3>1, <3>2, <3>4 DEF L, y
    <2>6. CASE OutOfRange(q)
      <3>1. Answer(q) = BadRequest
        BY <2>1, <2>6 DEF generateBucketsWithInterval
      <3> QED
        BY <3>1, RefusedIs DEF Covers
    <2>7. CASE ~OutOfRange(q) /\ q.count = <<>>
      <3>1. Answer(q) = Restricted(FirstSecond, q.now, FirstBuckets(max, generateTimestamps(i, from, to)))
        BY <2>1, <2>7 DEF generateBucketsWithInterval, from, to, max, i
      <3>2. /\ AskedRange(q)[1] = Trunc(i, from)
            /\ AskedRange(q)[2] = AtMost(NextStart(i, to), After(max, i, Trunc(i, from)))
        BY <2>7 DEF AskedRange, from, to, max, i
      <3>3. Covers(Restricted(FirstSecond, q.now, FirstBuckets(max, generateTimestamps(i, from, to))),
                   i, max, Trunc(i, from), AtMost(NextStart(i, to), After(max, i, Trunc(i, from))),
                   FirstSecond, q.now)
        BY <1>1, <1>2, <1>4, <2>4, WithoutCount DEF max
      <3>4. Given(q.count, maxIntervalCount) = max
        BY <1>2, <2>7 DEF max
      <3> QED
        BY <3>1, <3>2, <3>3, <3>4 DEF i
    <2>8. CASE ~OutOfRange(q) /\ q.count # <<>>
      <3> DEFINE n == q.count[1]
      <3>1. n \in 1..max /\ ~(q.from # <<>> /\ q.to # <<>>) /\ Given(q.count, maxIntervalCount) = n
        BY <1>2, <2>8 DEF OutOfRange, max
      <3>2. /\ n \in Nat \ {0} /\ n * Long(i) \in Int
            /\ before + 3 * Long(i) <= to - n * Long(i) /\ from + n * Long(i) < after
        BY <2>5, <3>1
      <3>3. n * Long(i) = q.count[1] * intervals[q.interval].maxDuration
        BY DEF Long, i
      <3> HIDE DEF n
      <3>4. CASE q.from = <<>>
        <4>1. Answer(q) = LastBuckets(n, Restricted(FirstSecond, q.now,
                              generateTimestamps(i, to - n * Long(i), to)))
          BY <2>1, <2>8, <3>3, <3>4 DEF generateBucketsWithInterval, to, n, i
        <4>2. AskedRange(q)[1] = Before(n, i, NextStart(i, to)) /\ AskedRange(q)[2] = NextStart(i, to)
          BY <2>8, <3>4 DEF AskedRange, to, n, i
        <4>3. Covers(LastBuckets(n, Restricted(FirstSecond, q.now,
                         generateTimestamps(i, to - n * Long(i), to))),
                     i, n, Before(n, i, NextStart(i, to)), NextStart(i, to), FirstSecond, q.now)
          BY <1>1, <1>2, <1>4, <2>4, <3>2, CountedBack
        <4> QED
          BY <3>1, <4>1, <4>2, <4>3 DEF i
      <3>5. CASE q.from # <<>>
        <4>1. Answer(q) = FirstBuckets(n, Restricted(FirstSecond, q.now,
                              generateTimestamps(i, from, from + n * Long(i))))
          BY <2>1, <2>8, <3>3, <3>5 DEF generateBucketsWithInterval, from, n, i
        <4>2. AskedRange(q)[1] = Trunc(i, from) /\ AskedRange(q)[2] = After(n, i, Trunc(i, from))
          BY <2>8, <3>5 DEF AskedRange, from, n, i
        <4>3. Covers(FirstBuckets(n, Restricted(FirstSecond, q.now,
                         generateTimestamps(i, from, from + n * Long(i)))),
                     i, n, Trunc(i, from), After(n, i, Trunc(i, from)), FirstSecond, q.now)
          BY <1>1, <1>2, <1>4, <2>4, <3>2, CountedOn
        <4> QED
          BY <3>1, <4>1, <4>2, <4>3 DEF i
      <3> QED
        BY <3>4, <3>5
    <2> QED
      BY <2>6, <2>7, <2>8 DEF i
  <1> QED
    BY <1>3, <1>4

\* And so the answer to it has the blocks that are asked for.
LEMMA AnswerIsComplete ==
    ASSUME NEW q \in Asked, AsksSeries(q), NEW n \in 0..MaxHeight
    PROVE  Answers[q].outcome # "panics" /\ Complete(q, n)
  <1> DEFINE i == q.interval
             b == Answers[q]
             asked == AskedRange(q)
  <1>1. Covers(b, i, Given(q.count, maxIntervalCount), asked[1], asked[2], FirstSecond, q.now)
    BY AnswerCovers DEF Answers
  <1>2. \A h \in 1..n : BlockTime[h] \in Int /\ FirstSecond <= BlockTime[h]
    <2>1. \A h \in 1..n : h \in 1..MaxHeight
      <3>1. MaxHeight \in Nat
        BY AggregatesAssumption
      <3> QED
        BY <3>1
    <2> QED
      BY <2>1, FirstIsFirst
  <1>3. i \in DOMAIN intervals \/ b.outcome = "refused"
    <2>1. i \notin DOMAIN intervals => b = BadRequest
      BY DEF Answers, Answer, BucketsFromQuery, AsksSeries
    <2> QED
      BY <2>1, RefusedIs
  <1> HIDE DEF asked
  <1>4. CASE b.outcome = "refused"
    BY <1>4 DEF Complete
  <1>5. ASSUME NEW t, NEW first, NEW last, i \in DOMAIN intervals,
               b = Buckets("ok", t, i), Whole(t, i, first, last), Len(t) - 1 <= Given(q.count, maxIntervalCount),
               \A x \in Int : asked[1] <= x /\ x < asked[2] /\ FirstSecond <= x /\ x <= q.now
                              => first <= x /\ x < last
        PROVE  b.outcome # "panics" /\ Complete(q, n)
    <2>1. b.outcome = "ok" /\ b.timestamps = t
      BY <1>5, OtherTimes
    <2>2. Stretch(t, Starts(i)) /\ 2 <= Len(t) /\ t[1] = first /\ t[Len(t)] = last
      BY <1>5 DEF Whole
    <2>3. DOMAIN t = 1..Len(t) /\ Len(t) \in Nat \ {0}
          /\ (\A k \in 1..Len(t) : t[k] \in Starts(i) /\ t[k] \in Int)
          /\ \A k, l \in 1..Len(t) : k <= l <=> t[k] <= t[l]
      BY <2>2, StretchIs
    <2>4. Count(b) = Len(t) - 1 /\ Last(b.timestamps) = t[Len(t)]
      BY <2>1 DEF Count, Last
    <2>5. {t[k] : k \in DOMAIN t} = {s \in Starts(i) : t[1] <= s /\ s <= t[Len(t)]}
      <3>1. ASSUME NEW k \in 1..Len(t) PROVE t[1] <= t[k] /\ t[k] <= t[Len(t)] /\ t[k] \in Starts(i)
        <4>1. 1 \in 1..Len(t) /\ Len(t) \in 1..Len(t) /\ 1 <= k /\ k <= Len(t)
          <5>1. Len(t) \in Nat \ {0}
            BY <2>3
          <5> QED
            BY <5>1
        <4> QED
          BY <2>3, <4>1
      <3>2. \A s \in Starts(i) : t[1] <= s /\ s <= t[Len(t)] => \E k \in 1..Len(t) : t[k] = s
        BY <2>2 DEF Stretch
      <3> QED
        BY <2>3, <3>1, <3>2
    <2>6. 1 <= Count(b) /\ Count(b) <= Given(q.count, maxIntervalCount)
      BY <1>5, <2>2, <2>3, <2>4
    <2>7. \A h \in 1..n : asked[1] <= BlockTime[h] /\ BlockTime[h] < asked[2] /\ BlockTime[h] <= q.now
                          => t[1] <= BlockTime[h] /\ BlockTime[h] < t[Len(t)]
      BY <1>2, <1>5, <2>2
    <2> HIDE DEF b
    <2>8. Complete(q, n)
      BY <2>1, <2>4, <2>5, <2>6, <2>7 DEF Complete, Starts, asked, b
    <2> QED
      BY <2>1, <2>8
  <1> HIDE DEF b, i
  <1>6. b.outcome # "panics" /\ Complete(q, n)
    BY <1>1, <1>3, <1>4, <1>5 DEF Covers
  <1> QED
    BY <1>6 DEF b

\* In every state in which the first block is known, whatever the intervals, the blocks and the
\* queries: the buckets of a series are whole intervals without a gap, not more than were asked
\* for, and no part of what was asked for is missing of the time there are blocks of
\* (generateTimestamps and restrictBuckets in buckets.go).
THEOREM AnswersComplete == Spec => []AnswersAreComplete
  <1>1. AggInv => AnswersAreComplete
    <2> SUFFICES ASSUME AggInv PROVE AllComplete[top]
      BY DEF AnswersAreComplete
    <2>1. top \in 0..MaxHeight
      BY DEF AggInv, TypeOK
    <2>2. \A q \in Asked : q.interval # "" /\ Upright(q) => Answers[q].outcome # "panics" /\ Complete(q, top)
      BY <2>1, AnswerIsComplete DEF AsksSeries
    <2> QED
      BY <2>1, <2>2 DEF AllComplete
  <1> QED
    BY <1>1, AggInvHolds, PTL

-----------------------------------------------------------------------------
(* The theorem on the rows of answers.                                     *)

\* What is answered: whole intervals without a gap, or a range.
IsSeries(b, i) ==
    b.interval = i /\ ~OneInterval(b) /\ Stretch(b.timestamps, Starts(i)) /\ 2 <= Len(b.timestamps)
IsRange(b, low, high) == OneInterval(b) /\ b.timestamps = <<low, high>>
Served(q) == Upright(q) /\ Answers[q].outcome = "ok"

\* A query for a series gets one, any other gets a range.
LEMMA SeriesOrRange ==
    ASSUME NEW q \in Asked, Served(q)
    PROVE  \/ q.interval \in DOMAIN intervals /\ IsSeries(Answers[q], q.interval)
           \/ IsRange(Answers[q], Given(q.from, FirstSecond), Given(q.to, q.now))
  <1> DEFINE b == Answers[q]
             i == q.interval
  <1>1. Upright(q) /\ b.outcome = "ok" /\ b.outcome # "refused" /\ b = Answer(q)
    BY DEF Served, Answers
  <1>2. CASE AsksSeries(q)
    <2>1. i \in DOMAIN intervals
      <3>1. i \notin DOMAIN intervals => b = BadRequest
        BY <1>1, <1>2 DEF Answer, BucketsFromQuery, AsksSeries
      <3> QED
        BY <1>1, <3>1, RefusedIs
    <2>2. PICK t, first, last : b = Buckets("ok", t, i) /\ Whole(t, i, first, last)
      <3>1. Covers(b, i, Given(q.count, maxIntervalCount), AskedRange(q)[1], AskedRange(q)[2],
                   FirstSecond, q.now)
        BY <1>1, <1>2, AnswerCovers
      <3> HIDE DEF b, i
      <3> QED
        BY <1>1, <3>1 DEF Covers
    <2>3. b.timestamps = t /\ b.interval = i
      BY <2>2, OtherTimes
    <2>4. ~OneInterval(b)
      BY <1>2, <2>3 DEF OneInterval, AsksSeries
    <2> QED
      BY <2>1, <2>2, <2>3, <2>4 DEF IsSeries, Whole
  <1>3. CASE ~AsksSeries(q)
    <2>1. i = ""
      BY <1>1, <1>3 DEF AsksSeries
    <2>2. b = generateBucketsOnlyMeta(q, FirstSecond, q.now)
      BY <1>1, <2>1 DEF Answer, BucketsFromQuery
    <2>3. q.count = <<>>
      <3>1. q.count # <<>> => b = BadRequest
        BY <2>2 DEF generateBucketsOnlyMeta
      <3> QED
        BY <1>1, <3>1, RefusedIs
    <2>4. b = Buckets("ok", <<Given(q.from, FirstSecond), Given(q.to, q.now)>>, "")
      BY <2>2, <2>3 DEF generateBucketsOnlyMeta
    <2> HIDE DEF b
    <2>5. b.interval = "" /\ b.timestamps = <<Given(q.from, FirstSecond), Given(q.to, q.now)>>
      BY <2>4 DEF Buckets
    <2> QED
      BY <2>5 DEF IsRange, OneInterval, b
  <1> QED
    BY <1>2, <1>3

\* The rows of the blocks up to n.
BlockRows(n) == {[time |-> BlockTime[h]] : h \in 1..n}

\* They are of times from the first block on.
LEMMA BlockRowsAre ==
    ASSUME NEW n \in 0..MaxHeight, NEW row \in BlockRows(n)
    PROVE  row.time \in Nat /\ FirstSecond <= row.time
  <1>1. PICK h \in 1..n : row.time = BlockTime[h]
    BY DEF BlockRows
  <1>2. MaxHeight \in Nat /\ \A k \in 1..MaxHeight : BlockTime[k] \in Nat
    BY AggregatesAssumption
  <1>3. h \in 1..MaxHeight
    BY <1>2
  <1> QED
    BY <1>1, <1>2, <1>3, FirstIsFirst

\* The calendar of a query has begun before the first block.
LEMMA BlockRowsDated ==
    ASSUME NEW q \in Asked, q.interval \in DOMAIN intervals, NEW n \in 0..MaxHeight
    PROVE  Dated(q.interval, BlockRows(n))
  <1> DEFINE i == q.interval
  <1>1. PICK s \in Starts(i) : s + Beyond(i) <= FirstSecond
    BY RangeQueriesAssumption DEF Starts
  <1>2. Beyond(i) \in Nat /\ s \in Int /\ FirstSecond \in Int
    <2>1. maxIntervalCount \in Nat /\ Long(i) \in Nat /\ Beyond(i) = (maxIntervalCount + 3) * Long(i)
      BY SeriesAssumption, StartsAre DEF Beyond, Long
    <2>2. maxIntervalCount * Long(i) \in Nat /\ 3 * Long(i) \in Nat
          /\ (maxIntervalCount + 3) * Long(i) = maxIntervalCount * Long(i) + 3 * Long(i)
      BY <2>1, Products
    <2> QED
      BY <2>1, <2>2, StartsAre, FirstIsFirst
  <1> HIDE DEF i
  <1>3. s <= FirstSecond
    BY <1>1, <1>2
  <1>4. ASSUME NEW row \in BlockRows(n) PROVE row.time \in Int /\ s <= row.time
    <2>1. row.time \in Nat /\ FirstSecond <= row.time
      BY BlockRowsAre
    <2> QED
      BY <1>2, <1>3, <2>1
  <1> QED
    BY <1>4 DEF Dated, i

\* A served answer sums each row of the blocks in the bucket of its time, unless it is a range
\* inside a day.
LEMMA AnswerCountsOnce ==
    ASSUME NEW q \in Asked, Served(q), NEW n \in 0..MaxHeight
    PROVE  InsideADay(Answers[q]) \/ CountedOnce(Answers[q], n)
  <1> DEFINE b == Answers[q]
             t == b.timestamps
             rows == BlockRows(n)
             Once(k, row) == TimesCounted(SwapHistory(b, rows)[k], row) =
                                IF t[k] <= row.time /\ row.time < t[k + 1] THEN 1 ELSE 0
  <1>1. (\A k \in 1..Count(b), row \in rows : Once(k, row)) => CountedOnce(b, n)
    BY DEF CountedOnce, BlockRows, BucketWindow
  <1>2. CASE q.interval \in DOMAIN intervals /\ IsSeries(b, q.interval)
    <2>1. Dated(q.interval, rows)
      BY <1>2, BlockRowsDated
    <2>2. b.interval = q.interval /\ ~OneInterval(b) /\ Stretch(t, Starts(q.interval)) /\ 2 <= Len(t)
      BY <1>2 DEF IsSeries
    <2> HIDE DEF b, rows
    <2>3. \A k \in 1..Count(b), row \in rows : Once(k, row)
      BY <1>2, <2>1, <2>2, SeriesCountsOnce
    <2> QED
      BY <1>1, <2>3 DEF b
  <1>3. CASE IsRange(b, Given(q.from, FirstSecond), Given(q.to, q.now)) /\ ~InsideADay(b)
    <2> DEFINE low == Given(q.from, FirstSecond)
               high == Given(q.to, q.now)
    <2>1. low \in Int /\ high \in Int /\ low < high
      <3>1. FirstSecond \in Int /\ q.now \in Int /\ Parameter(q.from) /\ Parameter(q.to)
        BY FirstIsFirst, RangeQueriesAssumption
      <3>2. low < high
        BY DEF Served, Upright
      <3> QED
        BY <3>1, <3>2, ParameterIs
    <2> HIDE DEF low, high
    <2>2. OneInterval(b) /\ t = <<low, high>>
      BY <1>3 DEF IsRange, low, high
    <2>3. \A row \in rows : row.time \in Nat
      BY BlockRowsAre
    <2> HIDE DEF b, rows
    <2>4. \A row \in rows : /\ Count(b) = 1
                            /\ TimesCounted(SwapHistory(b, rows)[1], row) =
                                  IF low <= row.time /\ row.time < high THEN 1 ELSE 0
      BY <1>3, <2>1, <2>2, <2>3, RangeCountsOnce
    <2>5. \A k \in 1..Count(b), row \in rows : Once(k, row)
      <3> TAKE k \in 1..Count(b), row \in rows
      <3>1. Count(b) = 1
        BY <2>4
      <3>2. k = 1
        BY <3>1
      <3>3. t[1] = low /\ t[1 + 1] = high
        BY <2>2
      <3> QED
        BY <2>4, <3>2, <3>3
    <2> QED
      BY <1>1, <2>5 DEF b
  <1> HIDE DEF b, Once
  <1> QED
    BY <1>2, <1>3, SeriesOrRange DEF b

\* In every state in which the first block is known, whatever the intervals, the blocks and the
\* queries: the rows of the blocks are summed once in the bucket of their time and in no other,
\* in every answer but the ranges inside a day (BucketedQuery and UnionQuery in db/aggregates.go,
\* mergeSwapsGapfill in stat/swap.go).
THEOREM RowsCounted == Spec => []RowsAreCountedOnce
  <1>1. AggInv => RowsAreCountedOnce
    <2> SUFFICES ASSUME AggInv PROVE AllCountedOnce[top]
      BY DEF RowsAreCountedOnce
    <2>1. top \in 0..MaxHeight
      BY DEF AggInv, TypeOK
    <2>2. \A q \in Asked : Upright(q) /\ Answers[q].outcome = "ok" =>
             InsideADay(Answers[q]) \/ CountedOnce(Answers[q], top)
      BY <2>1, AnswerCountsOnce DEF Served
    <2> DEFINE served == {Answers[q] : q \in {r \in Asked : Upright(r) /\ Answers[r].outcome = "ok"}}
    <2>3. \A b \in served : InsideADay(b) \/ CountedOnce(b, top)
      BY <2>2
    <2>4. AllCountedOnce[top] = \A b \in served : InsideADay(b) \/ CountedOnce(b, top)
      BY <2>1 DEF AllCountedOnce
    <2> QED
      BY <2>3, <2>4
  <1> QED
    BY <1>1, AggInvHolds, PTL

=============================================================================
