------------------------- MODULE AnchorSessionProofs -------------------------
(***************************************************************************)
(* Theorems about AnchorSession, for every set of comments and every bound *)
(* and every nesting of queries, cursors and errors.                       *)
(***************************************************************************)
EXTENDS AnchorSession, FiniteSetTheorems, TLAPS

Pilots  == [ptr : Ptr, home : Home, exec : Home, names : Seq(Structs), subquery : Seq(Queries)]
Anchors == [ptr : Ptr, home : Home, enable : BOOLEAN]

LEMMA QueriesInHome == Queries \subseteq Home /\ Queries \subseteq Int
  BY BoundsAssumption DEF Queries, Home

\* The number of entries parsed is a natural number.
LEMMA ParsedCount ==
  ASSUME NEW r \in Requests
  PROVE  Cardinality(Parsed(r)) \in Nat
<1>1. r.anchors \in Seq(Entry)
  BY RequestsAssumption DEF Request
<1>2. IsFiniteSet(1..Len(r.anchors))
  BY <1>1, FS_Interval
<1>3. Parsed(r) \subseteq 1..Len(r.anchors)
  BY <1>1 DEF Parsed
<1>4. QED
  BY <1>2, <1>3, FS_Subset, FS_CardinalityType

\* The size of a set of processed anchors, and the names it adds.
LEMMA NamesAdded ==
  ASSUME NEW s \in Seq(Structs), NEW on \in SUBSET {Card, Subq}
  PROVE  /\ Cardinality(on) \in Nat
         /\ WithNames(s, on) \in Seq(Structs)
         /\ Len(WithNames(s, on)) = Len(s) + Cardinality(on)
<1>0. Card # Subq /\ Exec # Card /\ Exec # Subq /\ {Card, Subq, Exec} \subseteq Structs
  BY DEF Card, Subq, Exec, Structs
<1>a. \A t \in Seq(Structs), x \in Structs :
        Append(t, x) \in Seq(Structs) /\ Len(Append(t, x)) = Len(t) + 1
  OBVIOUS
<1>b. \A x : IsFiniteSet({x}) /\ Cardinality({x}) = 1
  BY FS_Singleton
<1>1. CASE on = {}
  <2>1. WithNames(s, on) = s
    BY <1>0, <1>1 DEF WithNames, AppendIf
  <2>2. QED
    BY <1>1, <2>1, FS_EmptySet
<1>2. ASSUME NEW a \in {Card, Subq}, on = {a}
      PROVE  WithNames(s, on) = Append(s, a) /\ Cardinality(on) = 1
  <2>1. WithNames(s, on) = Append(s, a)
    BY <1>0, <1>2 DEF WithNames, AppendIf
  <2>2. Cardinality(on) = Cardinality({a})
    BY <1>2
  <2>3. Cardinality({a}) = 1
    BY <1>b
  <2>4. QED
    BY <2>1, <2>2, <2>3
<1>3. CASE on = {Card} \/ on = {Subq}
  BY <1>0, <1>a, <1>2, <1>3
<1>4. CASE on = {Card, Subq}
  <2>1. Cardinality(on) = Cardinality({Card} \cup {Subq})
    <3>1. on = {Card} \cup {Subq}
      BY <1>4
    <3>2. QED
      BY <3>1
  <2>2. Cardinality({Card} \cup {Subq}) = Cardinality({Card}) + 1
    BY <1>0, <1>b, FS_AddElement
  <2>3. Cardinality({Card}) = 1
    BY <1>b
  <2>4. WithNames(s, on) = Append(Append(s, Card), Subq)
    BY <1>0, <1>4 DEF WithNames, AppendIf
  <2>5. /\ Append(s, Card) \in Seq(Structs) /\ Len(Append(s, Card)) = Len(s) + 1
        /\ Append(Append(s, Card), Subq) \in Seq(Structs)
        /\ Len(Append(Append(s, Card), Subq)) = Len(s) + 2
    BY <1>0, <1>a
  <2>6. Cardinality(on) = 1 + 1
    BY <2>1, <2>2, <2>3, Zenon
  <2>7. WithNames(s, on) \in Seq(Structs) /\ Len(WithNames(s, on)) = Len(s) + 2
    BY <1>0, <1>a, <2>4
  <2>8. QED
    BY <2>6, <2>7
<1>5. QED
  BY <1>1, <1>3, <1>4

\* Freeing memory keeps the types.
LEMMA ExpireTypes ==
  ASSUME TypeOK, NEW S, Expire(S)
  PROVE  anchor' \in [Structs -> Anchors] /\ pilot' \in Pilots
BY DEF TypeOK, Expire, Expired, Anchors, Pilots, Ptr

LEMMA BeginQueryTypes ==
  ASSUME TypeOK, NEW q \in Queries, NEW t \in Texts, BeginQuery(q, t)
  PROVE  nq' \in Home /\ stack' \in Seq(Queries) /\ text' \in [Queries -> Texts]
BY QueriesInHome DEF TypeOK, BeginQuery

\* Popping frames keeps the stack a sequence of queries.
LEMMA PoppedStack ==
  ASSUME stack \in Seq(Queries), NEW k \in Int, k <= Len(stack)
  PROVE  SubSeq(stack, 1, k) \in Seq(Queries)
OBVIOUS

\* Planner calls are numbered, those that reports answer too.
LEMMA ReportedTids ==
  ASSUME TypeOK
  PROVE  nq \in Int /\ pilot.home \in Int /\ \A i \in DOMAIN reports : reports[i].tid \in Int
<1>1. pilot \in Pilots /\ reports \in Seq(ReportType)
  BY DEF TypeOK, Pilots
<1>2. Home \subseteq Int /\ nq \in Home
  BY BoundsAssumption DEF Home, TypeOK
<1>3. \A i \in DOMAIN reports : reports[i] \in ReportType
  BY <1>1
<1>4. \A i \in DOMAIN reports : reports[i].tid \in Home
  BY <1>3 DEF ReportType
<1>5. QED
  BY <1>1, <1>2, <1>4 DEF Pilots

LEMMA TypeInit == Init => TypeOK
<1> SUFFICES ASSUME Init PROVE TypeOK
  OBVIOUS
<1>0. 0 \in Home
  BY BoundsAssumption DEF Home
<1>1. <<>> \in Seq(Structs) /\ <<>> \in Seq(Queries) /\ <<>> \in Seq(ReportType)
  OBVIOUS
<1>2. pilot \in Pilots
  BY <1>0, <1>1 DEF Init, Pilots, Ptr
<1>3. anchor \in [Structs -> Anchors]
  BY <1>0 DEF Init, Anchors, Ptr
<1>4. text \in [Queries -> Texts] /\ stage \in [Queries -> Stages]
  BY DEF Init, Texts, Stages
<1>5. timer \in [Queries -> BOOLEAN] /\ estimates \in [Queries -> Nat]
  BY DEF Init
<1>6. /\ prev_planner_hook \in BOOLEAN /\ enableSend \in BOOLEAN /\ enableTerminate \in BOOLEAN
      /\ tainted \in BOOLEAN /\ crashed \in BOOLEAN
  BY Zenon DEF Init
<1>9. /\ anchor_num \in Int /\ anchor_time_num \in Nat /\ subquery_count \in Nat
      /\ nq \in Home
  BY <1>0 DEF Init
<1>7. stack \in Seq(Queries) /\ reports \in Seq(ReportType)
  BY <1>1 DEF Init
<1>8. QED
  BY <1>2, <1>3, <1>4, <1>5, <1>6, <1>7, <1>9 DEF TypeOK, Pilots, Anchors

LEMMA TypePlan ==
  ASSUME TypeOK, NEW q \in Queries,
         PlanPlain(q) \/ PlanMalformed(q) \/ ExecuteCachedPlan(q)
                      \/ \E r \in Requests : PlanCommented(q, r)
  PROVE  TypeOK'
<1>1. CASE PlanPlain(q)
  <2>1. NoComment \in Texts
    BY DEF Texts
  <2>2. QED
    BY <1>1, <2>1, BeginQueryTypes DEF PlanPlain, TypeOK, globals, Stages
<1>2. CASE PlanMalformed(q)
  <2>1. Malformed \in Texts
    BY DEF Texts
  <2>2. QED
    BY <1>2, <2>1, BeginQueryTypes DEF PlanMalformed, TypeOK, globals
<1>3. CASE ExecuteCachedPlan(q)
  <2>1. NoComment \in Texts
    BY DEF Texts
  <2>2. QED
    BY <1>3, <2>1, BeginQueryTypes DEF ExecuteCachedPlan, TypeOK, globals, Stages
<1>4. ASSUME NEW r \in Requests, PlanCommented(q, r) PROVE TypeOK'
  <2>1. r \in Texts /\ r.send \in BOOLEAN /\ r.terminate \in BOOLEAN
    BY RequestsAssumption DEF Texts, Request
  <2>2. nq' \in Home /\ stack' \in Seq(Queries) /\ text' \in [Queries -> Texts]
    BY <1>4, <2>1, BeginQueryTypes DEF PlanCommented
  <2>3. \A a \in Structs : Wanted(r, a) \in BOOLEAN
    BY DEF Wanted
  <2>4. anchor' \in [Structs -> Anchors]
    BY <1>4, <2>3, QueriesInHome DEF PlanCommented, for_each_anchor, TypeOK, Anchors, Ptr
  <2>5. pilot' \in Pilots
    BY <1>4, QueriesInHome, BoundsAssumption
    DEF PlanCommented, init_some_vars, NewPilot, Pilots, Ptr, Home
  <2>6. anchor_num' \in Int /\ anchor_time_num' \in Nat /\ subquery_count' \in Nat
    BY <1>4, ParsedCount DEF PlanCommented, for_each_anchor, init_some_vars
  <2>7. stage' \in [Queries -> Stages]
    BY <1>4 DEF PlanCommented, TypeOK, Stages, AfterEnd
  <2>8. QED
    BY <1>4, <2>1, <2>2, <2>4, <2>5, <2>6, <2>7
    DEF PlanCommented, parse_relative_infomation, TypeOK, Anchors, Pilots
<1>5. QED
  BY <1>1, <1>2, <1>3, <1>4

LEMMA TypeEstimate ==
  ASSUME TypeOK, NEW q \in Queries, Estimate(q)
  PROVE  TypeOK'
<1>1. estimates' \in [Queries -> Nat]
  BY DEF Estimate, TypeOK
<1>2. pilot' \in Pilots /\ subquery_count' \in Nat
  <2>1. pilot \in Pilots /\ subquery_count \in Nat
    BY DEF TypeOK, Pilots
  <2>2. Append(pilot.subquery, q) \in Seq(Queries)
    BY <2>1 DEF Pilots
  <2>3. [pilot EXCEPT !.subquery = Append(@, q)] \in Pilots
    BY <2>1, <2>2 DEF Pilots
  <2>4. /\ pilot' \in {pilot, [pilot EXCEPT !.subquery = Append(@, q)]}
        /\ subquery_count' \in {subquery_count, subquery_count + 1}
    BY DEF Estimate
  <2>5. QED
    BY <2>1, <2>3, <2>4
<1>3. tainted' \in BOOLEAN
  BY Zenon DEF Estimate, TypeOK, Dangling
<1>4. crashed' \in BOOLEAN
  BY DEF Estimate, Dangling
<1>5. QED
  BY <1>1, <1>2, <1>3, <1>4 DEF Estimate, TypeOK, Pilots

LEMMA TypePilotPlannerReturns ==
  ASSUME TypeOK, NEW q \in Queries, PilotPlannerReturns(q)
  PROVE  TypeOK'
<1>1. PICK on \in SUBSET {Card, Subq}, record \in Reads(Record) :
        /\ Process(on)
        /\ pilot' = [pilot EXCEPT !.names = WithNames(@, on)]
        /\ stage' = [stage EXCEPT ![q] = IF Ends(anchor_num', record) THEN "ending_plan"
                                                                      ELSE "planned"]
        /\ Dangling(\/ IsStale(Card) \/ IsStale(Subq)
                    \/ on # {} /\ pilot.ptr = "stale"
                    \/ anchor_num' = 1 /\ IsStale(Record))
  BY DEF PilotPlannerReturns
<1>2. anchor' \in [Structs -> Anchors]
  BY <1>1 DEF Process, ClearFlags, TypeOK, Anchors
<1>3. Cardinality(on) \in Nat /\ pilot' \in Pilots
  BY <1>1, NamesAdded DEF TypeOK, Pilots
<1>4. anchor_num' \in Int /\ anchor_time_num' \in Nat
  BY <1>1, <1>3 DEF Process, TypeOK
<1>5. stage' \in [Queries -> Stages]
  BY <1>1 DEF TypeOK, Stages, AfterEnd
<1>6. tainted' \in BOOLEAN
  BY <1>1, Zenon DEF TypeOK, Dangling
<1>7. crashed' \in BOOLEAN
  BY <1>1 DEF Dangling
<1>8. QED
  BY <1>2, <1>3, <1>4, <1>5, <1>6, <1>7 DEF PilotPlannerReturns, TypeOK, Pilots, Anchors

LEMMA ReportTypes ==
  ASSUME TypeOK, NEW q \in Queries
  PROVE  Report(q) \in ReportType
<1>1. (~tainted /\ pilot.ptr = "live") \in BOOLEAN
  BY Zenon
<1>2. Apart(pilot.home) \in BOOLEAN
  BY Zenon DEF Apart
<1>3. QED
  BY <1>1, <1>2 DEF TypeOK, Report, ReportType

LEMMA TypeEndAnchor ==
  ASSUME TypeOK, NEW q \in Queries, EndAnchor(q)
  PROVE  TypeOK'
<1>1. anchor' \in [Structs -> Anchors]
  <2>1. anchor \in [Structs -> Anchors]
    BY DEF TypeOK, Anchors
  <2>2. anchor' = anchor \/ free_all_struct
    BY DEF EndAnchor
  <2>3. QED
    BY <2>1, <2>2 DEF free_all_struct, Anchors, Ptr
<1>2. pilot' \in Pilots
  <2>1. pilot \in Pilots
    BY DEF TypeOK, Pilots
  <2>2. pilot' = pilot \/ pilot' = [pilot EXCEPT !.ptr = "stale"]
    BY DEF EndAnchor, free_all_struct
  <2>3. QED
    BY <2>1, <2>2 DEF Pilots, Ptr
<1>3. reports' \in Seq(ReportType)
  <2>1. Report(q) \in ReportType
    BY ReportTypes
  <2>2. reports' = Append(reports, Report(q)) \/ reports' = reports
    BY DEF EndAnchor
  <2>3. reports \in Seq(ReportType)
    BY DEF TypeOK
  <2>4. QED
    BY <2>1, <2>2, <2>3
<1>4. StageAfterEnd(q) \in Stages
  BY DEF EndAnchor, StageAfterEnd, AfterEnd, Stages, TypeOK
<1>5. stage' \in [Queries -> Stages]
  BY <1>4 DEF EndAnchor, TypeOK
<1>6. tainted' \in BOOLEAN
  BY Zenon DEF EndAnchor, TypeOK, Dangling
<1>7. crashed' \in BOOLEAN
  BY DEF EndAnchor, Dangling
<1>8. QED
  BY <1>1, <1>2, <1>3, <1>5, <1>6, <1>7 DEF EndAnchor, TypeOK, Pilots, Anchors

LEMMA TypeMeasureTime ==
  ASSUME TypeOK, NEW q \in Queries, MeasureTime(q)
  PROVE  TypeOK'
<1>1. CASE timer[q]
  <2>1. PICK record \in Reads(Record) :
          /\ Process({Exec})
          /\ pilot' = [pilot EXCEPT !.exec = q, !.names = Append(@, Exec)]
          /\ stage' = [stage EXCEPT ![q] = IF Ends(anchor_num', record) THEN "ending_exec"
                                                                        ELSE "closing"]
          /\ Dangling(IsStale(Exec) \/ pilot.ptr = "stale"
                        \/ (anchor_num' = 1 /\ IsStale(Record)))
    BY <1>1 DEF MeasureTime
  <2>2. anchor' \in [Structs -> Anchors]
    BY <2>1 DEF Process, ClearFlags, TypeOK, Anchors
  <2>3. pilot' \in Pilots
    <3>1. pilot \in Pilots /\ q \in Home
      BY QueriesInHome DEF TypeOK, Pilots
    <3>2. Append(pilot.names, Exec) \in Seq(Structs)
      BY <3>1 DEF Pilots, Exec, Structs
    <3>3. QED
      BY <2>1, <3>1, <3>2 DEF Pilots
  <2>4. Cardinality({Exec}) = 1
    BY FS_Singleton
  <2>5. anchor_num' \in Int /\ anchor_time_num' \in Nat
    BY <2>1, <2>4 DEF Process, TypeOK
  <2>6. stage' \in [Queries -> Stages]
    BY <2>1 DEF TypeOK, Stages, AfterEnd
  <2>7. tainted' \in BOOLEAN
    BY <2>1, Zenon DEF TypeOK, Dangling
  <2>8. crashed' \in BOOLEAN
    BY <2>1 DEF Dangling
  <2>9. QED
    BY <2>2, <2>3, <2>5, <2>6, <2>7, <2>8 DEF MeasureTime, TypeOK, Pilots, Anchors
<1>2. CASE ~timer[q]
  <2>1. tainted' \in BOOLEAN /\ crashed' \in BOOLEAN
    BY <1>2, Zenon DEF MeasureTime, TypeOK
  <2>2. QED
    BY <1>2, <2>1 DEF MeasureTime, TypeOK
<1>3. QED
  BY <1>1, <1>2

LEMMA TypeExecutor ==
  ASSUME TypeOK, NEW q \in Queries,
         PlannerReturns(q) \/ ExecutorStart(q) \/ SkipMeasure(q) \/ Resume(q)
                           \/ StatementError(q)
  PROVE  TypeOK'
<1>1. CASE PlannerReturns(q)
  BY <1>1 DEF PlannerReturns, globals, TypeOK, Stages
<1>2. CASE ExecutorStart(q)
  <2>1. \A b \in Reads(Exec) : b \in BOOLEAN
    <3>1. anchor[Exec].ptr \in Ptr /\ anchor[Exec].enable \in BOOLEAN
      BY DEF TypeOK, Exec, Structs
    <3>2. QED
      BY <3>1, Zenon DEF Reads, Ptr
  <2>2. timer' \in [Queries -> BOOLEAN]
    BY <1>2, <2>1 DEF ExecutorStart, SetsTimer, TypeOK
  <2>3. tainted' \in BOOLEAN
    BY <1>2, Zenon DEF ExecutorStart, TypeOK
  <2>4. QED
    BY <1>2, <2>2, <2>3 DEF ExecutorStart, globals, TypeOK, Stages
<1>3. CASE SkipMeasure(q)
  <2>1. tainted' \in BOOLEAN
    BY <1>3, Zenon DEF SkipMeasure, TypeOK
  <2>2. QED
    BY <1>3, <2>1 DEF SkipMeasure, globals, TypeOK, Stages
<1>4. CASE Resume(q)
  BY <1>4 DEF Resume, globals, TypeOK, Stages
<1>5. CASE StatementError(q)
  BY <1>5 DEF StatementError, globals, TypeOK, Stages
<1>6. QED
  BY <1>1, <1>2, <1>3, <1>4, <1>5

LEMMA TypeLeave ==
  ASSUME TypeOK, NEW q \in Queries,
         Close(q) \/ DiscardPlan(q) \/ Suspend(q) \/ \E k \in 0..MaxDepth : Unwind(q, k)
  PROVE  TypeOK'
<1>1. ASSUME NEW s \in Stages, IsTop(q), Leave(q, s) PROVE TypeOK'
  <2>1. stack' \in Seq(Queries)
    BY <1>1, PoppedStack DEF Leave, Outer, IsTop, TypeOK
  <2>2. anchor' \in [Structs -> Anchors] /\ pilot' \in Pilots
    BY <1>1, ExpireTypes DEF Leave
  <2>3. stage' \in [Queries -> Stages]
    BY <1>1 DEF Leave, TypeOK
  <2>4. QED
    BY <1>1, <2>1, <2>2, <2>3 DEF Leave, TypeOK, Pilots, Anchors
<1>2. CASE Close(q)
  BY <1>1, <1>2 DEF Close, Stages
<1>3. CASE DiscardPlan(q)
  BY <1>1, <1>3 DEF DiscardPlan, Stages
<1>4. CASE Suspend(q)
  BY <1>1, <1>4 DEF Suspend, Stages
<1>5. ASSUME NEW k \in 0..MaxDepth, Unwind(q, k) PROVE TypeOK'
  <2>1. k \in Int
    BY <1>5, BoundsAssumption
  <2>2. stack' \in Seq(Queries)
    BY <1>5, <2>1, PoppedStack DEF Unwind, TypeOK
  <2>3. anchor' \in [Structs -> Anchors] /\ pilot' \in Pilots
    BY <1>5, ExpireTypes DEF Unwind
  <2>4. stage' \in [Queries -> Stages]
    BY <1>5 DEF Unwind, TypeOK, Stages
  <2>5. QED
    BY <1>5, <2>2, <2>3, <2>4 DEF Unwind, TypeOK, Pilots, Anchors
<1>6. QED
  BY <1>2, <1>3, <1>4, <1>5

LEMMA TypeNext == TypeOK /\ [Next]_vars => TypeOK'
<1> SUFFICES ASSUME TypeOK, [Next]_vars PROVE TypeOK'
  OBVIOUS
<1>1. CASE UNCHANGED vars
  BY <1>1 DEF vars, globals, queries, TypeOK
<1>2. ASSUME NEW q \in Queries, Handler(q) \/ Environment(q) PROVE TypeOK'
  BY <1>2, TypePlan, TypeEstimate, TypePilotPlannerReturns, TypeEndAnchor,
     TypeMeasureTime, TypeExecutor, TypeLeave
  DEF Handler, Environment
<1>3. QED
  BY <1>1, <1>2 DEF Next

\* Type correctness: the values the globals, the statements and the reports
\* take, whatever comes in which order.
THEOREM TypeCorrect == Spec => []TypeOK
<1>1. QED
  BY TypeInit, TypeNext, PTL DEF Spec

------------------------------------------------------------------------------
(* The counts of the message are the lengths of its arrays.                *)

FitInv == CountsFit /\ ReportArraysFit

\* A step that stores nothing.
StoresNothing ==
  /\ UNCHANGED <<anchor_time_num, subquery_count, reports>>
  /\ pilot'.ptr = "live" => /\ pilot.ptr = "live" /\ pilot'.names = pilot.names
                            /\ pilot'.subquery = pilot.subquery

LEMMA StoresNothingKeeps ==
  ASSUME FitInv, StoresNothing
  PROVE  FitInv'
BY DEF FitInv, StoresNothing, CountsFit, ReportArraysFit

LEMMA StoresNothingSteps ==
  ASSUME TypeOK, NEW q \in Queries,
         \/ PlannerReturns(q) \/ ExecutorStart(q) \/ SkipMeasure(q) \/ Close(q)
         \/ \E k \in 0..MaxDepth : Unwind(q, k)
         \/ PlanPlain(q) \/ PlanMalformed(q) \/ ExecuteCachedPlan(q)
         \/ DiscardPlan(q) \/ Suspend(q) \/ Resume(q) \/ StatementError(q)
  PROVE  StoresNothing
<1>0. pilot \in Pilots
  BY DEF TypeOK, Pilots
<1>1. CASE PlannerReturns(q) \/ ExecutorStart(q) \/ SkipMeasure(q) \/ Resume(q)
                            \/ StatementError(q)
  BY <1>1 DEF PlannerReturns, ExecutorStart, SkipMeasure, Resume, StatementError, globals,
              StoresNothing
<1>2. CASE PlanPlain(q) \/ PlanMalformed(q) \/ ExecuteCachedPlan(q)
  BY <1>2 DEF PlanPlain, PlanMalformed, ExecuteCachedPlan, globals, StoresNothing
<1>3. ASSUME NEW S, Expire(S)
      PROVE  pilot'.ptr = "live" => /\ pilot.ptr = "live" /\ pilot'.names = pilot.names
                                    /\ pilot'.subquery = pilot.subquery
  BY <1>0, <1>3 DEF Expire, Expired, Pilots
<1>4. CASE Close(q) \/ DiscardPlan(q) \/ Suspend(q)
  BY <1>3, <1>4 DEF Close, DiscardPlan, Suspend, Leave, StoresNothing
<1>5. CASE \E k \in 0..MaxDepth : Unwind(q, k)
  BY <1>3, <1>5 DEF Unwind, StoresNothing
<1>6. QED
  BY <1>1, <1>2, <1>4, <1>5

LEMMA ParseFits ==
  ASSUME FitInv, NEW q \in Queries, NEW r \in Requests, PlanCommented(q, r)
  PROVE  FitInv'
<1>1. /\ pilot' = NewPilot(q) /\ anchor_time_num' = 0 /\ subquery_count' = 0
      /\ reports' = reports
  BY DEF PlanCommented, init_some_vars
<1>2. Len(NewPilot(q).names) = 0 /\ Len(NewPilot(q).subquery) = 0
  BY DEF NewPilot
<1>3. QED
  BY <1>1, <1>2 DEF FitInv, CountsFit, ReportArraysFit

LEMMA EstimateFits ==
  ASSUME TypeOK, FitInv, NEW q \in Queries, Estimate(q)
  PROVE  FitInv'
<1>1. pilot \in Pilots
  BY DEF TypeOK, Pilots
<1>2. UNCHANGED <<anchor_time_num, reports>>
  BY DEF Estimate
<1>3. CASE UNCHANGED <<pilot, subquery_count>>
  BY <1>2, <1>3, StoresNothingKeeps DEF StoresNothing
<1>4. CASE /\ pilot' = [pilot EXCEPT !.subquery = Append(@, q)]
           /\ subquery_count' = subquery_count + 1
  <2>1. /\ pilot'.ptr = pilot.ptr /\ pilot'.names = pilot.names
        /\ Len(pilot'.subquery) = Len(pilot.subquery) + 1
    BY <1>1, <1>4 DEF Pilots
  <2>2. QED
    BY <1>2, <1>4, <2>1 DEF FitInv, CountsFit, ReportArraysFit
<1>5. QED
  BY <1>3, <1>4 DEF Estimate

LEMMA PlannerFits ==
  ASSUME TypeOK, FitInv, NEW q \in Queries, PilotPlannerReturns(q)
  PROVE  FitInv'
<1>1. PICK on \in SUBSET {Card, Subq} :
        /\ Process(on)
        /\ pilot' = [pilot EXCEPT !.names = WithNames(@, on)]
  BY DEF PilotPlannerReturns
<1>2. pilot \in Pilots
  BY DEF TypeOK, Pilots
<1>3. UNCHANGED <<subquery_count, reports>>
  BY DEF PilotPlannerReturns
<1>4. /\ pilot'.ptr = pilot.ptr /\ pilot'.subquery = pilot.subquery
      /\ Len(pilot'.names) = Len(pilot.names) + Cardinality(on)
  BY <1>1, <1>2, NamesAdded DEF Pilots
<1>5. anchor_time_num' = anchor_time_num + Cardinality(on)
  BY <1>1 DEF Process
<1>6. QED
  BY <1>3, <1>4, <1>5 DEF FitInv, CountsFit, ReportArraysFit

LEMMA MeasureFits ==
  ASSUME TypeOK, FitInv, NEW q \in Queries, MeasureTime(q)
  PROVE  FitInv'
<1>1. pilot \in Pilots
  BY DEF TypeOK, Pilots
<1>2. UNCHANGED <<subquery_count, reports>>
  BY DEF MeasureTime
<1>3. CASE ~timer[q]
  BY <1>2, <1>3, StoresNothingKeeps DEF MeasureTime, StoresNothing
<1>4. CASE timer[q]
  <2>1. /\ Process({Exec})
        /\ pilot' = [pilot EXCEPT !.exec = q, !.names = Append(@, Exec)]
    BY <1>4 DEF MeasureTime
  <2>2. /\ pilot'.ptr = pilot.ptr /\ pilot'.subquery = pilot.subquery
        /\ Len(pilot'.names) = Len(pilot.names) + 1
    BY <1>1, <2>1 DEF Pilots, Exec, Structs
  <2>3. Cardinality({Exec}) = 1
    BY FS_Singleton
  <2>4. anchor_time_num' = anchor_time_num + 1
    BY <2>1, <2>3 DEF Process
  <2>5. QED
    BY <1>2, <2>2, <2>4 DEF FitInv, CountsFit, ReportArraysFit
<1>5. QED
  BY <1>3, <1>4

LEMMA EndFits ==
  ASSUME TypeOK, FitInv, NEW q \in Queries, EndAnchor(q)
  PROVE  FitInv'
<1>1. UNCHANGED <<anchor_time_num, subquery_count>>
  BY DEF EndAnchor
<1>2. CASE ~enableSend
  BY <1>1, <1>2, StoresNothingKeeps DEF EndAnchor, StoresNothing
<1>3. CASE enableSend
  <2>1. pilot \in Pilots /\ reports \in Seq(ReportType)
    BY DEF TypeOK, Pilots
  <2>2. pilot'.ptr = "stale"
    BY <1>3, <2>1 DEF EndAnchor, free_all_struct, Pilots
  <2>3. Report(q).clean => /\ Report(q).names_num = Len(Report(q).names)
                           /\ Report(q).subquery_num = Len(Report(q).subquery)
    BY DEF Report, FitInv, CountsFit
  <2>4. Report(q) \in ReportType /\ reports' = Append(reports, Report(q))
    BY <1>3, ReportTypes DEF EndAnchor
  <2>5. /\ DOMAIN reports = 1..Len(reports) /\ DOMAIN reports' = 1..(Len(reports) + 1)
        /\ Len(reports) \in Nat
        /\ \A i \in 1..Len(reports) : reports'[i] = reports[i]
        /\ reports'[Len(reports) + 1] = Report(q)
    BY <2>1, <2>4
  <2>6. QED
    BY <2>2, <2>3, <2>5 DEF FitInv, CountsFit, ReportArraysFit
<1>4. QED
  BY <1>2, <1>3

LEMMA FitNext == TypeOK /\ FitInv /\ [Next]_vars => FitInv'
<1> SUFFICES ASSUME TypeOK, FitInv, [Next]_vars PROVE FitInv'
  OBVIOUS
<1>1. CASE UNCHANGED vars
  BY <1>1, StoresNothingKeeps DEF vars, globals, queries, StoresNothing
<1>2. ASSUME NEW q \in Queries, Handler(q) \/ Environment(q) PROVE FitInv'
  BY <1>2, StoresNothingSteps, StoresNothingKeeps, ParseFits, EstimateFits, PlannerFits,
     MeasureFits, EndFits
  DEF Handler, Environment
<1>3. QED
  BY <1>1, <1>2 DEF Next

\* cJSON_AddStringArrayToObject is never told of more strings than the hooks
\* have stored since the comment was parsed, nor of fewer.
THEOREM ArraysFit == Spec => []ReportArraysFit
<1>1. Init => FitInv
  BY DEF Init, FitInv, CountsFit, ReportArraysFit
<1>2. FitInv => ReportArraysFit
  BY DEF FitInv
<1>3. QED
  BY <1>1, <1>2, FitNext, TypeCorrect, PTL DEF Spec
-----------------------------------------------------------------------------
------------------------------------------------------------------------------
(* The execution time is that of the first query to end.                   *)

Over == {"ending_exec", "closing", "done"}

\* An execution-time anchor that can be used belongs to a comment of the
\* stack; while it is enabled no query has ended since that comment.
TimerInv ==
  /\ \A p \in Queries : p > nq => stage[p] = "unused"
  /\ Range(stack) \subseteq 1..nq
  /\ anchor[Exec].ptr = "live" =>
       /\ anchor[Exec].home \in Commented /\ anchor[Exec].home \in Range(stack)
       /\ anchor[Exec].enable =>
            /\ \A p \in Queries : p >= anchor[Exec].home => stage[p] \notin Over
            /\ pilot.home = anchor[Exec].home => pilot.exec = 0

LEMMA ExecShape ==
  ASSUME TypeOK
  PROVE  /\ Exec \in Structs /\ anchor \in [Structs -> Anchors] /\ anchor[Exec] \in Anchors
         /\ pilot \in Pilots /\ nq \in Int
         /\ stack \in Seq(Queries) /\ stage \in [Queries -> Stages] /\ text \in [Queries -> Texts]
BY ReportedTids DEF TypeOK, Anchors, Pilots, Exec, Structs

\* A flag read as set from memory in use is set, and one read as not set is not.
LEMMA ExecRead ==
  ASSUME TypeOK, NEW b \in Reads(Exec), anchor[Exec].ptr = "live"
  PROVE  b = anchor[Exec].enable
BY Zenon DEF Reads

LEMMA Appended ==
  ASSUME NEW s \in Seq(Queries), NEW q \in Queries
  PROVE  Range(Append(s, q)) = Range(s) \cup {q}
<1>1. /\ DOMAIN Append(s, q) = DOMAIN s \cup {Len(s) + 1}
      /\ \A i \in DOMAIN s : Append(s, q)[i] = s[i]
      /\ Append(s, q)[Len(s) + 1] = q
  OBVIOUS
<1>2. QED
  BY <1>1 DEF Range

\* A step that begins no query, and leaves the anchor alone or spends it.
Spends ==
  /\ UNCHANGED <<nq, text>>
  /\ \A p \in Queries : p > nq => stage'[p] = stage[p]
  /\ Range(stack') \subseteq Range(stack)
  /\ anchor'[Exec].ptr = "live" =>
       /\ anchor[Exec].ptr = "live" /\ anchor'[Exec].home = anchor[Exec].home
       /\ anchor[Exec].home \in Range(stack) => anchor[Exec].home \in Range(stack')
       /\ anchor'[Exec].enable =>
            /\ anchor[Exec].enable
            /\ \A p \in Queries : stage'[p] \in Over => stage[p] \in Over
            /\ pilot'.home = pilot.home /\ pilot'.exec = pilot.exec

LEMMA SpendsKeeps ==
  ASSUME TimerInv, Spends
  PROVE  TimerInv'
BY DEF TimerInv, Spends, Commented

\* The steps of the innermost query before it leaves.
LEMMA FrameSpends ==
  ASSUME TypeOK, TimerInv, NEW q \in Queries,
         \/ PlannerReturns(q) \/ PilotPlannerReturns(q) \/ EndAnchor(q) \/ ExecutorStart(q)
         \/ SkipMeasure(q) \/ MeasureTime(q) \/ Estimate(q) \/ StatementError(q)
  PROVE  Spends
<1>1. UNCHANGED <<nq, text, stack>> /\ ~(q > nq)
  BY DEF TimerInv, PlannerReturns, PilotPlannerReturns, EndAnchor, ExecutorStart, SkipMeasure,
         MeasureTime, Estimate, StatementError, AfterEnd
<1>2. ASSUME NEW s, stage' = [stage EXCEPT ![q] = s] \/ stage' = stage
      PROVE  /\ \A p \in Queries : p > nq => stage'[p] = stage[p]
             /\ s \notin Over \/ stage[q] \in Over =>
                  \A p \in Queries : stage'[p] \in Over => stage[p] \in Over
  BY <1>1, <1>2, ExecShape
<1> DEFINE Kept == \/ anchor'[Exec].ptr # "live"
                   \/ /\ anchor'[Exec] = anchor[Exec]
                      /\ pilot'.home = pilot.home /\ pilot'.exec = pilot.exec
<1>3. ASSUME Kept, NEW s, s \notin Over \/ stage[q] \in Over,
             stage' = [stage EXCEPT ![q] = s] \/ stage' = stage
      PROVE  Spends
  BY <1>1, <1>2, <1>3 DEF Spends
<1>4. CASE PlannerReturns(q) \/ ExecutorStart(q) \/ StatementError(q)
  <2>1. PICK s \in {"planned", "running", "raising"} :
          UNCHANGED <<anchor, pilot>> /\ stage' = [stage EXCEPT ![q] = s]
    BY <1>4 DEF PlannerReturns, ExecutorStart, StatementError, globals
  <2>2. QED
    BY <1>3, <2>1 DEF Over
<1>5. CASE PilotPlannerReturns(q)
  <2>1. PICK on \in SUBSET {Card, Subq} :
          /\ ClearFlags(on) /\ pilot' = [pilot EXCEPT !.names = WithNames(@, on)]
          /\ \E s \in {"ending_plan", "planned"} : stage' = [stage EXCEPT ![q] = s]
    BY <1>5 DEF PilotPlannerReturns, Process
  <2>2. Exec \notin on
    BY DEF Card, Subq, Exec
  <2>3. anchor'[Exec] = anchor[Exec]
    BY <2>1, <2>2, ExecShape DEF ClearFlags
  <2>4. pilot'.home = pilot.home /\ pilot'.exec = pilot.exec
    BY <2>1, ExecShape DEF Pilots
  <2>5. QED
    BY <1>3, <2>1, <2>3, <2>4 DEF Over
<1>6. CASE EndAnchor(q)
  <2>1. (pilot' = pilot /\ anchor' = anchor) \/ free_all_struct
    BY <1>6 DEF EndAnchor
  <2>2. Kept
    BY <2>1, ExecShape DEF free_all_struct, Anchors, Pilots
  <2>3. /\ stage[q] \in DOMAIN AfterEnd
        /\ StageAfterEnd(q) \notin Over \/ stage[q] \in Over
    BY <1>6 DEF EndAnchor, StageAfterEnd, AfterEnd, Over
  <2>4. stage' = [stage EXCEPT ![q] = StageAfterEnd(q)]
    BY <1>6 DEF EndAnchor
  <2> HIDE DEF Kept
  <2>5. QED
    BY <1>3, <2>2, <2>3, <2>4
<1>7. CASE Estimate(q)
  <2>1. anchor' = anchor /\ stage' = stage
    BY <1>7 DEF Estimate
  <2>2. pilot'.home = pilot.home /\ pilot'.exec = pilot.exec
    BY <1>7, ExecShape DEF Estimate, Pilots
  <2>3. QED
    BY <1>1, <2>1, <2>2 DEF Spends
<1>8. CASE SkipMeasure(q)
  <2>1. anchor' = anchor /\ stage' = [stage EXCEPT ![q] = "closing"] /\ FALSE \in Reads(Exec)
    BY <1>8 DEF SkipMeasure, globals
  <2>2. ~(anchor'[Exec].ptr = "live" /\ anchor'[Exec].enable)
    BY <2>1, ExecRead
  <2>3. QED
    BY <1>1, <1>2, <2>1, <2>2 DEF Spends
<1>9. CASE MeasureTime(q)
  <2>1. CASE timer[q]
    <3>1. ClearFlags({Exec}) /\ \E s : stage' = [stage EXCEPT ![q] = s]
      BY <1>9, <2>1 DEF MeasureTime, Process
    <3>2. /\ anchor'[Exec].ptr = anchor[Exec].ptr /\ anchor'[Exec].home = anchor[Exec].home
          /\ anchor'[Exec].ptr = "live" => ~anchor'[Exec].enable
      BY <3>1, ExecShape DEF ClearFlags, Anchors
    <3>3. QED
      BY <1>1, <1>2, <3>1, <3>2 DEF Spends
  <2>2. CASE ~timer[q]
    BY <1>1, <1>9, <2>2 DEF MeasureTime, Spends
  <2>3. QED
    BY <2>1, <2>2
<1>10. QED
  BY <1>4, <1>5, <1>6, <1>7, <1>8, <1>9

\* The queries that leave take their memory with them.
LEMMA LeavingSpends ==
  ASSUME TypeOK, TimerInv, NEW q \in Queries,
         Close(q) \/ DiscardPlan(q) \/ Suspend(q) \/ \E k \in 0..MaxDepth : Unwind(q, k)
  PROVE  Spends
<1>1. ASSUME NEW k \in Int, 0 <= k, k < Len(stack), stack' = SubSeq(stack, 1, k),
             Expire({stack[i] : i \in (k + 1)..Len(stack)}),
             UNCHANGED <<nq, text>>,
             \A p \in Queries : p > nq => stage'[p] = stage[p],
             \A p \in Queries : stage'[p] \in Over => stage[p] \in Over
      PROVE  Spends
  <2> DEFINE lost == {stack[i] : i \in (k + 1)..Len(stack)}
  <2>1. pilot'.home = pilot.home /\ pilot'.exec = pilot.exec
    BY <1>1, ExecShape DEF Expire, Expired, Pilots
  <2>2. anchor'[Exec].ptr = "live" => anchor'[Exec] = anchor[Exec] /\ anchor[Exec].home \notin lost
    <3> HIDE DEF lost
    <3>1. anchor'[Exec] = Expired(anchor[Exec], lost)
      BY <1>1, ExecShape DEF Expire, lost
    <3>2. QED
      BY <3>1, ExecShape DEF Expired, Anchors
  <2>5. Range(stack') \subseteq Range(stack)
    <3>1. \A i \in DOMAIN stack' : i \in DOMAIN stack /\ stack'[i] = stack[i]
      BY <1>1, ExecShape
    <3>2. QED
      BY <3>1 DEF Range
  <2>3. ASSUME NEW h \in Range(stack), h \notin lost PROVE h \in Range(stack')
    <3>1. PICK i \in 1..Len(stack) : stack[i] = h
      BY <2>3, ExecShape DEF Range
    <3>2. i <= k
      BY <1>1, <2>3, <3>1, ExecShape
    <3>3. i \in DOMAIN stack' /\ stack'[i] = h
      BY <1>1, <3>1, <3>2, ExecShape
    <3>4. QED
      BY <3>3 DEF Range
  <2> HIDE DEF lost
  <2>4. QED
    BY <1>1, <2>1, <2>2, <2>3, <2>5 DEF Spends
<1>2. ASSUME NEW s \in {"done", "discarded", "suspended"}, IsTop(q), Leave(q, s),
             s = "done" => stage[q] = "closing", stage[q] # "unused"
      PROVE  Spends
  <2>1. Len(stack) \in Nat /\ Len(stack) > 0 /\ stack[Len(stack)] = q
    BY <1>2, ExecShape DEF IsTop
  <2>2. {stack[i] : i \in ((Len(stack) - 1) + 1)..Len(stack)} = {q}
    BY <2>1
  <2>3. \A p \in Queries : stage'[p] = IF p = q THEN s ELSE stage[p]
    BY <1>2, ExecShape DEF Leave
  <2>4. \A p \in Queries : /\ p > nq => stage'[p] = stage[p]
                           /\ stage'[p] \in Over => stage[p] \in Over
    BY <1>2, <2>3 DEF Over, TimerInv
  <2>5. stack' = SubSeq(stack, 1, Len(stack) - 1) /\ Expire({q}) /\ UNCHANGED <<nq, text>>
    BY <1>2 DEF Leave, Outer
  <2>6. PICK k \in Int : k = Len(stack) - 1
    BY <2>1
  <2>7. 0 <= k /\ k < Len(stack) /\ stack' = SubSeq(stack, 1, k)
    BY <2>1, <2>5, <2>6
  <2>8. Expire({stack[i] : i \in (k + 1)..Len(stack)})
    BY <2>2, <2>5, <2>6, Zenon
  <2>9. QED
    BY <1>1, <2>4, <2>5, <2>7, <2>8
<1>3. CASE Close(q)
  BY <1>2, <1>3 DEF Close
<1>4. CASE DiscardPlan(q)
  BY <1>2, <1>4 DEF DiscardPlan
<1>5. CASE Suspend(q)
  BY <1>2, <1>5 DEF Suspend
<1>6. ASSUME NEW k \in 0..MaxDepth, Unwind(q, k) PROVE Spends
  <2>1. /\ k \in Int /\ 0 <= k /\ k < Len(stack) /\ stack' = SubSeq(stack, 1, k)
        /\ Expire({stack[i] : i \in (k + 1)..Len(stack)}) /\ UNCHANGED <<nq, text>>
    BY <1>6, BoundsAssumption DEF Unwind
  <2>2. \A p \in Queries : stage'[p] = stage[p] \/ stage'[p] = "aborted"
    BY <1>6 DEF Unwind
  <2>3. ASSUME NEW p \in Queries, p > nq PROVE stage'[p] = stage[p]
    <3>1. stage[p] = "unused" /\ p \notin Range(stack)
      BY <2>3, ExecShape DEF TimerInv
    <3>2. p \notin {stack[i] : i \in (k + 1)..Len(stack)}
      BY <2>1, <3>1, ExecShape DEF Range
    <3>3. QED
      BY <1>6, <3>1, <3>2 DEF Unwind
  <2>4. QED
    BY <1>1, <2>1, <2>2, <2>3 DEF Over
<1>7. QED
  BY <1>3, <1>4, <1>5, <1>6

\* A cursor is fetched from again.
LEMMA ResumeKeeps ==
  ASSUME TypeOK, TimerInv, NEW q \in Queries, Resume(q)
  PROVE  TimerInv'
<1>1. /\ UNCHANGED <<nq, text, anchor, pilot>> /\ stage[q] = "suspended"
      /\ stage' = [stage EXCEPT ![q] = "running"] /\ stack' = Append(stack, q)
  BY DEF Resume, globals
<1>2. q \in 1..nq
  BY <1>1, ExecShape DEF TimerInv, Queries
<1>3. Range(stack') = Range(stack) \cup {q}
  BY <1>1, ExecShape, Appended
<1>4. \A p \in Queries : p # q => stage'[p] = stage[p]
  BY <1>1, ExecShape
<1>5. stage'[q] = "running" /\ "running" \notin Over
  BY <1>1, ExecShape DEF Over
<1>6. \A p \in Queries : p > nq => p # q
  BY <1>2, ExecShape
<1>7. QED
  BY <1>1, <1>2, <1>3, <1>4, <1>5, <1>6 DEF TimerInv, Commented

\* A query begins: with a comment, the anchor is new or another's.
LEMMA BeginKeeps ==
  ASSUME TypeOK, TimerInv, NEW q \in Queries,
         \/ PlanPlain(q) \/ PlanMalformed(q) \/ ExecuteCachedPlan(q)
         \/ \E r \in Requests : PlanCommented(q, r)
  PROVE  TimerInv'
<1>1. PICK t \in Texts, s \in Stages \ Over :
        /\ BeginQuery(q, t)
        /\ stage' = [stage EXCEPT ![q] = s] \/ stage' = stage
        /\ \/ UNCHANGED <<anchor, pilot>>
           \/ /\ t # NoComment /\ pilot'.home = q /\ pilot'.exec = 0
              /\ \/ anchor'[Exec] = anchor[Exec]
                 \/ anchor'[Exec].home = q
  <2>1. {"planning", "planned", "raising", "ending_parse"} \subseteq Stages \ Over
    BY DEF Stages, Over, AfterEnd
  <2>2. CASE PlanPlain(q) \/ PlanMalformed(q) \/ ExecuteCachedPlan(q)
    BY <2>1, <2>2 DEF PlanPlain, PlanMalformed, ExecuteCachedPlan, globals, Texts
  <2>3. ASSUME NEW r \in Requests, PlanCommented(q, r)
        PROVE  /\ BeginQuery(q, r) /\ r \in Texts /\ r # NoComment
               /\ pilot'.home = q /\ pilot'.exec = 0
               /\ \/ anchor'[Exec] = anchor[Exec]
                  \/ anchor'[Exec].home = q
               /\ \E s \in Stages \ Over : stage' = [stage EXCEPT ![q] = s]
    <3>1. /\ BeginQuery(q, r) /\ pilot' = NewPilot(q)
          /\ anchor' = [a \in Structs |-> IF InJson(r, a)
                           THEN [ptr |-> "live", home |-> q, enable |-> Wanted(r, a)]
                           ELSE anchor[a]]
      BY <2>3 DEF PlanCommented, init_some_vars, for_each_anchor
    <3>2. \E s \in Stages \ Over : stage' = [stage EXCEPT ![q] = s]
      BY <2>1, <2>3 DEF PlanCommented
    <3>3. r \in Texts /\ r # NoComment
      BY TextsAssumption DEF Texts
    <3>4. QED
      BY <3>1, <3>2, <3>3, ExecShape DEF NewPilot
  <2>4. QED
    BY <2>2, <2>3
<1>2. /\ q = nq + 1 /\ nq' = q /\ stack' = Append(stack, q) /\ text' = [text EXCEPT ![q] = t]
  BY <1>1 DEF BeginQuery
<1>3. Range(stack') = Range(stack) \cup {q}
  BY <1>2, ExecShape, Appended
<1>4. /\ \A p \in Queries : p # q => stage'[p] = stage[p] /\ text'[p] = text[p]
      /\ stage'[q] \notin Over /\ text'[q] = t
  <2>1. stage[q] = "unused" /\ "unused" \notin Over
    BY <1>2, ExecShape DEF TimerInv, Over
  <2>2. QED
    BY <1>1, <1>2, <2>1, ExecShape
<1>5. 1..nq \subseteq Queries \ {q} /\ nq' = nq + 1 /\ 1..nq' = 1..nq \cup {q}
  BY <1>2, ExecShape, BoundsAssumption DEF Queries
<1>6. Commented \subseteq Commented' /\ (t # NoComment => q \in Commented')
  BY <1>4, <1>5 DEF Commented
<1>7. /\ \A p \in Queries : p > nq' => stage'[p] = "unused" /\ p # q
      /\ \A p \in Queries : p >= q => stage'[p] \notin Over
  <2>1. \A p \in Queries : p > nq' => p > nq /\ p # q
    BY <1>2, ExecShape DEF Queries
  <2>2. \A p \in Queries : p >= q => p = q \/ p > nq'
    BY <1>2, ExecShape DEF Queries
  <2>3. "unused" \notin Over
    BY DEF Over
  <2>4. QED
    BY <1>4, <2>1, <2>2, <2>3 DEF TimerInv
<1>8. Range(stack') \subseteq 1..nq'
  BY <1>3, <1>5 DEF TimerInv
<1>9. CASE anchor'[Exec] = anchor[Exec] /\ UNCHANGED pilot
  BY <1>3, <1>4, <1>6, <1>7, <1>8, <1>9 DEF TimerInv
<1>10. CASE anchor'[Exec].home = q /\ t # NoComment /\ pilot'.exec = 0
  BY <1>3, <1>6, <1>7, <1>8, <1>10 DEF TimerInv
<1>11. CASE anchor'[Exec] = anchor[Exec] /\ pilot'.exec = 0
  BY <1>3, <1>4, <1>6, <1>7, <1>8, <1>11 DEF TimerInv
<1>12. QED
  BY <1>1, <1>9, <1>10, <1>11, Zenon

LEMMA TimerInit == Init => TimerInv
BY BoundsAssumption DEF Init, TimerInv, Range, Exec, Structs

LEMMA TimerNext == TypeOK /\ TimerInv /\ [Next]_vars => TimerInv'
<1> SUFFICES ASSUME TypeOK, TimerInv, [Next]_vars PROVE TimerInv'
  OBVIOUS
<1>1. CASE UNCHANGED vars
  BY <1>1 DEF vars, globals, queries, TimerInv, Commented
<1>2. ASSUME NEW q \in Queries, Handler(q) \/ Environment(q) PROVE TimerInv'
  BY <1>2, FrameSpends, LeavingSpends, SpendsKeeps, ResumeKeeps, BeginKeeps
  DEF Handler, Environment
<1>3. QED
  BY <1>1, <1>2 DEF Next

FirstEnd ==
  \A q \in Queries :
    pilot.exec # q /\ pilot'.exec = q /\ ~tainted' /\ Apart(pilot.home) =>
      pilot.exec = 0 /\ \A p \in Queries : p >= pilot.home => stage[p] # "done"

\* Only ExecutorEnd stores a time.
LEMMA TimeKept ==
  ASSUME TypeOK, [Next]_vars, pilot'.exec # pilot.exec
  PROVE  \/ pilot'.exec \notin Queries
         \/ \E q \in Queries : MeasureTime(q) /\ timer[q] /\ pilot'.exec = q
<1>0. pilot \in Pilots
  BY ExecShape
<1>1. CASE UNCHANGED vars
  BY <1>1 DEF vars, globals
<1>2. ASSUME NEW S, Expire(S) PROVE pilot'.exec = pilot.exec
  BY <1>0, <1>2 DEF Expire, Expired, Pilots
<1>3. ASSUME NEW q \in Queries, Handler(q) \/ Environment(q)
      PROVE  \/ pilot'.exec \notin Queries
             \/ MeasureTime(q) /\ timer[q] /\ pilot'.exec = q
  <2>1. CASE PlannerReturns(q) \/ ExecutorStart(q) \/ SkipMeasure(q) \/ Resume(q)
               \/ StatementError(q) \/ PlanPlain(q) \/ PlanMalformed(q) \/ ExecuteCachedPlan(q)
    BY <2>1 DEF PlannerReturns, ExecutorStart, SkipMeasure, Resume, StatementError,
                PlanPlain, PlanMalformed, ExecuteCachedPlan, globals
  <2>2. CASE Close(q) \/ DiscardPlan(q) \/ Suspend(q) \/ \E k \in 0..MaxDepth : Unwind(q, k)
    BY <1>2, <2>2 DEF Close, DiscardPlan, Suspend, Leave, Unwind
  <2>3. CASE PilotPlannerReturns(q)
    BY <1>0, <2>3 DEF PilotPlannerReturns, Pilots
  <2>4. CASE EndAnchor(q)
    BY <1>0, <2>4 DEF EndAnchor, free_all_struct, Pilots
  <2>5. CASE Estimate(q)
    BY <1>0, <2>5 DEF Estimate, Pilots
  <2>6. CASE \E r \in Requests : PlanCommented(q, r)
    BY <2>6 DEF PlanCommented, init_some_vars, NewPilot, Queries
  <2>7. CASE MeasureTime(q)
    BY <1>0, <2>7 DEF MeasureTime, Pilots
  <2>8. QED
    BY <1>3, <2>1, <2>2, <2>3, <2>4, <2>5, <2>6, <2>7 DEF Handler, Environment
<1>4. QED
  BY <1>1, <1>3 DEF Next

LEMMA StoredAtFirstEnd ==
  ASSUME TypeOK, TimerInv, [Next]_vars
  PROVE  FirstEnd
<1> SUFFICES ASSUME NEW q \in Queries, pilot.exec # q, pilot'.exec = q, ~tainted',
                    Apart(pilot.home)
             PROVE  pilot.exec = 0 /\ \A p \in Queries : p >= pilot.home => stage[p] # "done"
  BY DEF FirstEnd
<1>1. MeasureTime(q) /\ timer[q]
  BY TimeKept
<1>2. TRUE \in Reads(Exec) /\ ~IsStale(Exec)
  BY <1>1, Zenon DEF MeasureTime, Dangling
<1>3. anchor[Exec].ptr = "live"
  <2>1. anchor[Exec].ptr \in {"null", "live"}
    BY <1>2, ExecShape DEF Anchors, Ptr, IsStale
  <2>2. anchor[Exec].ptr = "null" => Reads(Exec) = {FALSE}
    BY DEF Reads
  <2>3. QED
    BY <1>2, <2>1, <2>2
<1>4. anchor[Exec].enable
  BY <1>2, <1>3, ExecRead
<1>5. anchor[Exec].home = pilot.home
  BY <1>3 DEF TimerInv, Apart
<1>6. QED
  BY <1>3, <1>4, <1>5 DEF TimerInv, Over

\* However queries nest, cursors are left open and errors are caught, the time
\* stored for a comment is that of the first query to end since it was parsed,
\* and is stored once.
THEOREM TimeOfFirstEnd == Spec => TimeIsOfFirstEnd
<1>1. TypeOK /\ TimerInv /\ [Next]_vars => [FirstEnd]_vars
  BY StoredAtFirstEnd
<1>2. QED
  BY <1>1, TimerInit, TimerNext, TypeCorrect, PTL DEF Spec, TimeIsOfFirstEnd, FirstEnd

(***************************************************************************)
(* Statements that come one after the other: no function issues a query of *)
(* its own and no cursor stays open.  The comments, the number of          *)
(* statements and of sub-query estimates, the statements without a         *)
(* comment, the cached plans, the errors and the plans never run are as    *)
(* many and in any order; what a nested query or a cursor does to the      *)
(* globals is outside of the theorems from here on.                        *)
(***************************************************************************)

Flat == MaxDepth = 1 /\ ~Portals

Idle   == {"unused", "done", "discarded", "aborted"}
Hooked == {Card, Subq, Exec}
\* The comment of the statement at work, the anchors the hooks have stored
\* the names of, and those still waited for.
Cur     == text[nq]
Names   == {pilot.names[j] : j \in DOMAIN pilot.names}
Enabled == {a \in Structs : anchor[a].ptr = "live" /\ anchor[a].enable}
WantedBy(r) == {a \in Structs : Wanted(r, a)}

\* The statement at work is the last one begun.
OneFrame ==
  /\ stack = <<>> \/ (stack = <<nq>> /\ nq \in Queries)
  /\ \A q \in Queries : stage[q] \notin Idle => stack = <<nq>> /\ q = nq
  /\ \A q \in Queries : q > nq => estimates[q] = 0

\* The globals point to its memory or to none that can be used.
LiveIsCurrent ==
  /\ pilot.ptr = "live" => stack = <<nq>> /\ pilot.home = nq /\ Cur \in Requests
  /\ \A a \in Structs : anchor[a].ptr = "live" => stack = <<nq>> /\ anchor[a].home = nq

\* The flags, the counter and the arrays say how far the comment is served.
FlagsRight ==
  ~tainted /\ pilot.ptr = "live" =>
    /\ Names \subseteq Hooked /\ Names \subseteq WantedBy(Cur)
    /\ Enabled = WantedBy(Cur) \ Names
    /\ anchor_num = Cardinality(Enabled) + Stuck(Cur)
    /\ pilot.exec = IF Exec \in Names THEN nq ELSE 0
    /\ pilot.subquery = [j \in 1..(IF Wanted(Cur, Subq) THEN estimates[nq] ELSE 0) |-> nq]
    /\ stage[nq] = "planning" => pilot.names = <<>>
    /\ stage[nq] \in DOMAIN AfterEnd => Enabled \cap Hooked = {} /\ Stuck(Cur) = 0

\* parse_json ends the anchors of a comment that has none.
ParseEnds ==
  \A q \in Queries :
    stage[q] = "ending_parse" => text[q] \in Requests /\ Parsed(text[q]) = {}

Complete(m) ==
  /\ m.tid \in 1..nq /\ Stuck(text[m.tid]) = 0
  /\ {m.names[j] : j \in DOMAIN m.names} = {a \in Hooked : Wanted(text[m.tid], a)}
  /\ (m.exec # 0) = Wanted(text[m.tid], Exec)
  /\ m.subquery = [j \in 1..(IF Wanted(text[m.tid], Subq) THEN estimates[m.tid] ELSE 0)
                    |-> m.tid]
  /\ stage[m.tid] = "planning" => ~Wanted(text[m.tid], Subq)

ReportsComplete == \A i \in DOMAIN reports : reports[i].clean => Complete(reports[i])

\* Its error is raised before the executor is reached.
MustTerminate(r) == r.terminate /\ ~Wanted(r, Exec) /\ Stuck(r) = 0
Terminates ==
  stack = <<nq>> /\ Cur \in Requests =>
    /\ enableTerminate = Cur.terminate
    /\ ~tainted /\ ~prev_planner_hook /\ MustTerminate(Cur) =>
         /\ stage[nq] \in {"planning", "ending_parse", "ending_plan", "raising"}
         /\ stage[nq] = "planning" => pilot.ptr = "live" /\ Parsed(Cur) # {}

FlatInv == /\ OneFrame /\ LiveIsCurrent /\ FlagsRight /\ ParseEnds
           /\ ReportsComplete /\ Terminates
------------------------------------------------------------------------------
(* What a comment asks for, counted.                                       *)

LEMMA ParsedFinite ==
  ASSUME NEW r \in Requests
  PROVE  IsFiniteSet(Parsed(r)) /\ Cardinality(Parsed(r)) \in Nat
<1>1. r.anchors \in Seq(Entry)
  BY RequestsAssumption DEF Request
<1>2. IsFiniteSet(1..Len(r.anchors))
  BY <1>1, FS_Interval
<1>3. Parsed(r) \subseteq 1..Len(r.anchors)
  BY <1>1 DEF Parsed
<1>4. QED
  BY <1>2, <1>3, FS_Subset, FS_CardinalityType

\* An anchor is wanted for an entry of its own, so there are no fewer entries
\* parsed than anchors wanted.
LEMMA WantedCounted ==
  ASSUME NEW r \in Requests
  PROVE  /\ IsFiniteSet(WantedBy(r)) /\ Cardinality(WantedBy(r)) \in Nat
         /\ Stuck(r) \in Nat
         /\ Cardinality(Parsed(r)) = Cardinality(WantedBy(r)) + Stuck(r)
<1> DEFINE entry == [a \in WantedBy(r) |-> CHOOSE i \in Parsed(r) : r.anchors[i].kind = a]
<1>1. \A a \in WantedBy(r) : \E i \in Parsed(r) : r.anchors[i].kind = a
  BY DEF WantedBy, Wanted
<1>2. \A a \in WantedBy(r) : entry[a] \in Parsed(r) /\ r.anchors[entry[a]].kind = a
  BY <1>1
<1>3. entry \in [WantedBy(r) -> Parsed(r)]
  BY <1>2
<1>4. \A a, b \in WantedBy(r) : entry[a] = entry[b] => a = b
  BY <1>2
<1>5. entry \in Injection(WantedBy(r), Parsed(r))
  BY <1>3, <1>4 DEF Injection, IsInjective
<1> HIDE DEF entry
<1>6. /\ IsFiniteSet(WantedBy(r))
      /\ Cardinality(WantedBy(r)) <= Cardinality(Parsed(r))
  BY <1>5, ParsedFinite, FS_Injection
<1>7. Cardinality(WantedBy(r)) \in Nat /\ Cardinality(Parsed(r)) \in Nat
  BY <1>6, ParsedFinite, FS_CardinalityType
<1>8. Stuck(r) = Cardinality(Parsed(r)) - Cardinality(WantedBy(r))
  BY DEF Stuck, WantedBy
<1>9. QED
  BY <1>6, <1>7, <1>8

\* A comment of which nothing is parsed wants nothing.
LEMMA NothingWanted ==
  ASSUME NEW r, Parsed(r) = {}
  PROVE  WantedBy(r) = {} /\ (\A a \in Structs : ~Wanted(r, a)) /\ Stuck(r) = 0
<1>1. WantedBy(r) = {} /\ \A a \in Structs : ~Wanted(r, a)
  BY DEF WantedBy, Wanted
<1>2. QED
  BY <1>1, FS_EmptySet DEF Stuck, WantedBy

LEMMA Kinds4 == /\ Structs = {Card, Subq, Exec, Record} /\ Hooked = Structs \ {Record}
                /\ Card # Subq /\ Card # Exec /\ Card # Record
                /\ Subq # Exec /\ Subq # Record /\ Exec # Record
  BY DEF Structs, Card, Subq, Exec, Record, Hooked

\* The names a sequence holds after the hooks have added to it.
LEMMA AppendedNames ==
  ASSUME NEW s \in Seq(Structs), NEW a \in Structs
  PROVE  {Append(s, a)[j] : j \in DOMAIN Append(s, a)} = {s[j] : j \in DOMAIN s} \cup {a}
<1>1. /\ DOMAIN s = 1..Len(s) /\ DOMAIN Append(s, a) = 1..(Len(s) + 1) /\ Len(s) \in Nat
      /\ \A j \in 1..Len(s) : Append(s, a)[j] = s[j]
      /\ Append(s, a)[Len(s) + 1] = a
  OBVIOUS
<1>2. 1..(Len(s) + 1) = 1..Len(s) \cup {Len(s) + 1}
  BY <1>1
<1>3. QED
  BY <1>1, <1>2

LEMMA NamesProcessed ==
  ASSUME NEW on \in SUBSET {Card, Subq}
  PROVE  {WithNames(<<>>, on)[j] : j \in DOMAIN WithNames(<<>>, on)} = on
<1>0. /\ Card # Subq /\ Exec # Card /\ Exec # Subq /\ {Card, Subq} \subseteq Structs
      /\ <<>> \in Seq(Structs) /\ {<<>>[j] : j \in DOMAIN <<>>} = {}
  BY DEF Card, Subq, Exec, Structs
<1>1. CASE on = {}
  BY <1>0, <1>1 DEF WithNames, AppendIf
<1>2. ASSUME NEW a \in {Card, Subq}, on = {a}
      PROVE  {WithNames(<<>>, on)[j] : j \in DOMAIN WithNames(<<>>, on)} = on
  <2>1. WithNames(<<>>, on) = Append(<<>>, a)
    BY <1>0, <1>2 DEF WithNames, AppendIf
  <2>2. QED
    BY <1>0, <1>2, <2>1, AppendedNames
<1>3. CASE on = {Card, Subq}
  <2>1. WithNames(<<>>, on) = Append(Append(<<>>, Card), Subq)
    BY <1>0, <1>3 DEF WithNames, AppendIf
  <2>2. Append(<<>>, Card) \in Seq(Structs)
    BY <1>0
  <2> DEFINE one == Append(<<>>, Card)
             two == Append(one, Subq)
  <2>3. {one[j] : j \in DOMAIN one} = {Card}
    BY <1>0, AppendedNames
  <2>4. {two[j] : j \in DOMAIN two} = {one[j] : j \in DOMAIN one} \cup {Subq}
    BY <1>0, <2>2, AppendedNames
  <2>5. WithNames(<<>>, on) = two
    BY <2>1
  <2> HIDE DEF one, two
  <2>6. QED
    BY <1>3, <2>3, <2>4, <2>5
<1>4. QED
  BY <1>1, <1>2, <1>3

------------------------------------------------------------------------------
(* A statement begins.                                                     *)

LEMMA AtTop ==
  ASSUME TypeOK, OneFrame, NEW q \in Queries, IsTop(q)
  PROVE  /\ q = nq /\ stack = <<nq>> /\ nq \in Queries /\ nq # 0 /\ Len(stack) = 1
         /\ Outer = <<>> /\ SubSeq(stack, 1, 0) = <<>>
BY DEF TypeOK, OneFrame, IsTop, Outer, Queries

\* Answers stay complete while the statements they answer change no more.
LEMMA ReportsKeep ==
  ASSUME TypeOK, ReportsComplete, reports' = reports, nq' \in {nq, nq + 1},
         \A q \in 1..nq : /\ text'[q] = text[q] /\ estimates'[q] = estimates[q]
                          /\ stage'[q] = "planning" => stage[q] = "planning"
  PROVE  ReportsComplete'
<1>1. nq \in Int
  BY ReportedTids
<1>2. SUFFICES ASSUME NEW i \in DOMAIN reports, reports[i].clean
               PROVE  Complete(reports[i])'
  BY DEF ReportsComplete
<1>3. Complete(reports[i])
  BY <1>2 DEF ReportsComplete
<1>4. QED
  BY <1>1, <1>3 DEF Complete

\* What every beginning has in common; it finds no memory it could use.
LEMMA Begins ==
  ASSUME TypeOK, FlatInv, Flat, NEW q \in Queries, NEW t \in Texts, BeginQuery(q, t),
         reports' = reports, UNCHANGED estimates,
         NEW s, stage' = [stage EXCEPT ![q] = s] \/ stage' = stage
  PROVE  /\ stack = <<>> /\ q = nq + 1 /\ nq' = q /\ stack' = <<q>> /\ text'[q] = t
         /\ pilot.ptr # "live" /\ \A a \in Structs : anchor[a].ptr # "live"
         /\ \A p \in Queries : stage[p] \in Idle
         /\ OneFrame' /\ ReportsComplete'
         /\ estimates[q] = 0
<1>1. stack = <<>>
  BY DEF BeginQuery, Flat, FlatInv, OneFrame
<1>2. /\ q = nq + 1 /\ nq' = q /\ stack' = <<q>> /\ text' = [text EXCEPT ![q] = t]
  BY <1>1 DEF BeginQuery
<1>3. nq \in Int /\ text \in [Queries -> Texts] /\ stage \in [Queries -> Stages]
  BY ReportedTids DEF TypeOK
<1>4. pilot.ptr # "live" /\ \A a \in Structs : anchor[a].ptr # "live"
  BY <1>1 DEF FlatInv, LiveIsCurrent
<1>5. \A p \in Queries : stage[p] \in Idle
  BY <1>1 DEF FlatInv, OneFrame
<1>6. \A p \in Queries : p > q => estimates[p] = 0
  BY <1>2, <1>3 DEF FlatInv, OneFrame, Queries
<1>7. \A p \in Queries : p # q => stage'[p] = stage[p] /\ text'[p] = text[p]
  BY <1>2, <1>3
<1>8. OneFrame'
  <2>1. \A p \in Queries : stage'[p] \notin Idle => p = q
    BY <1>5, <1>7
  <2>2. \A p \in Queries : p > q => estimates'[p] = 0
    BY <1>6, <1>7, <1>3 DEF Queries
  <2>3. QED
    BY <1>2, <2>1, <2>2 DEF OneFrame
<1>9. \A p \in 1..nq : p \in Queries /\ p # q
  BY <1>2, <1>3, BoundsAssumption DEF Queries
<1>10. ReportsComplete'
  BY <1>2, <1>7, <1>9, ReportsKeep DEF FlatInv
<1>11. estimates[q] = 0 /\ text'[q] = t
  BY <1>2, <1>3 DEF FlatInv, OneFrame
<1>12. QED
  BY <1>1, <1>2, <1>4, <1>5, <1>8, <1>10, <1>11

LEMMA BeginPlainFlat ==
  ASSUME TypeOK, FlatInv, Flat, NEW q \in Queries,
         PlanPlain(q) \/ PlanMalformed(q) \/ ExecuteCachedPlan(q)
  PROVE  FlatInv'
<1>1. PICK t \in {NoComment, Malformed}, s \in {"planning", "planned"} :
        /\ BeginQuery(q, t) /\ UNCHANGED <<reports, estimates, anchor, pilot>>
        /\ stage' = [stage EXCEPT ![q] = s] \/ stage' = stage
  BY DEF PlanPlain, PlanMalformed, ExecuteCachedPlan, globals
<1>2. t \in Texts /\ t \notin Requests
  BY TextsAssumption DEF Texts
<1>3. /\ nq' = q /\ text'[q] = t
      /\ pilot.ptr # "live" /\ \A a \in Structs : anchor[a].ptr # "live"
      /\ \A p \in Queries : stage[p] \in Idle
      /\ OneFrame' /\ ReportsComplete'
  BY <1>1, <1>2, Begins
<1>4. LiveIsCurrent' /\ FlagsRight'
  BY <1>1, <1>3 DEF LiveIsCurrent, FlagsRight
<1>5. ParseEnds'
  BY <1>1, <1>3 DEF ParseEnds, Idle, TypeOK
<1>6. Terminates'
  BY <1>2, <1>3 DEF Terminates, Cur
<1>7. QED
  BY <1>3, <1>4, <1>5, <1>6 DEF FlatInv

LEMMA BeginCommentedFlat ==
  ASSUME TypeOK, FlatInv, Flat, NEW q \in Queries, NEW r \in Requests, PlanCommented(q, r)
  PROVE  FlatInv'
<1> DEFINE s == IF HasUnknown(r) THEN "raising"
                ELSE IF Parsed(r) = {} THEN "ending_parse" ELSE "planning"
<1>1. /\ BeginQuery(q, r) /\ reports' = reports /\ UNCHANGED estimates
      /\ stage' = [stage EXCEPT ![q] = s] /\ pilot' = NewPilot(q)
      /\ enableTerminate' = r.terminate /\ UNCHANGED prev_planner_hook
      /\ anchor' = [a \in Structs |-> IF InJson(r, a)
                                      THEN [ptr |-> "live", home |-> q, enable |-> Wanted(r, a)]
                                      ELSE anchor[a]]
      /\ anchor_num' = Cardinality(Parsed(r))
  BY DEF PlanCommented, init_some_vars, parse_relative_infomation, for_each_anchor
<1>2. r \in Texts
  BY DEF Texts
<1>3. /\ nq' = q /\ stack' = <<q>> /\ text'[q] = r /\ text' = [text EXCEPT ![q] = r]
      /\ pilot.ptr # "live" /\ \A a \in Structs : anchor[a].ptr # "live"
      /\ \A p \in Queries : stage[p] \in Idle
      /\ OneFrame' /\ ReportsComplete' /\ estimates[q] = 0
  BY <1>1, <1>2, Begins DEF BeginQuery
<1>4. stage'[q] = s /\ \A p \in Queries : p # q => stage'[p] = stage[p]
  BY <1>1 DEF TypeOK
<1>5. /\ pilot'.ptr = "live" /\ pilot'.home = q /\ pilot'.exec = 0
      /\ pilot'.names = <<>> /\ pilot'.subquery = <<>>
  BY <1>1 DEF NewPilot
<1>6. Cur' = r
  BY <1>3 DEF Cur
<1>7. LiveIsCurrent'
  <2>1. \A a \in Structs : anchor'[a].ptr = "live" => anchor'[a].home = q
    BY <1>1, <1>3
  <2>2. QED
    BY <1>3, <1>5, <1>6, <2>1 DEF LiveIsCurrent
<1>8. Enabled' = WantedBy(r)
  <2>1. \A a \in Structs : Wanted(r, a) => InJson(r, a)
    BY DEF Wanted, InJson
  <2>2. \A a \in Structs : anchor'[a].ptr = "live" /\ anchor'[a].enable <=> Wanted(r, a)
    BY <1>1, <1>3, <2>1
  <2>3. QED
    BY <2>2 DEF Enabled, WantedBy
<1>9. Names' = {}
  BY <1>5 DEF Names
<1>10. FlagsRight'
  <2>1. anchor_num' = Cardinality(Enabled') + Stuck(r)
    BY <1>1, <1>8, WantedCounted
  <2>2. pilot'.subquery = [j \in 1..(IF Wanted(r, Subq) THEN estimates'[nq'] ELSE 0) |-> nq']
    BY <1>1, <1>3, <1>5
  <2>3. stage'[nq'] \in DOMAIN AfterEnd => Enabled' \cap Hooked = {} /\ Stuck(r) = 0
    <3>1. stage'[nq'] \in DOMAIN AfterEnd => Parsed(r) = {}
      BY <1>3, <1>4 DEF AfterEnd
    <3>2. QED
      BY <1>8, <3>1, NothingWanted
  <2>4. pilot'.exec = IF Exec \in Names' THEN nq' ELSE 0
    BY <1>5, <1>9
  <2>5. QED
    BY <1>5, <1>6, <1>8, <1>9, <2>1, <2>2, <2>3, <2>4 DEF FlagsRight
<1>11. ParseEnds'
  <2>1. s = "ending_parse" => Parsed(r) = {}
    OBVIOUS
  <2>2. QED
    BY <1>3, <1>4, <2>1 DEF ParseEnds, Idle
<1>12. Terminates'
  <2>1. s \in {"planning", "ending_parse", "raising"} /\ (s = "planning" => Parsed(r) # {})
    OBVIOUS
  <2>2. QED
    BY <1>1, <1>3, <1>4, <1>5, <1>6, <2>1 DEF Terminates
<1>13. QED
  BY <1>3, <1>7, <1>10, <1>11, <1>12 DEF FlatInv

------------------------------------------------------------------------------
(* Steps that only take the statement to another stage.                    *)

Same == /\ UNCHANGED <<prev_planner_hook, anchor, pilot, anchor_num, enableTerminate, nq,
                       text, estimates, stack, reports>>
        /\ tainted => tainted'

\* A statement that is to be terminated is not taken past its planner.
Proceeds(s) ==
  ~tainted' /\ ~prev_planner_hook /\ Cur \in Requests /\ MustTerminate(Cur) => s = "raising"

LEMMA SameKeeps ==
  ASSUME TypeOK, FlatInv, Same, stage' = stage
  PROVE  FlatInv'
<1>1. nq \in Int
  BY ReportedTids
<1>2. OneFrame' /\ LiveIsCurrent' /\ ParseEnds'
  BY DEF Same, FlatInv, OneFrame, LiveIsCurrent, ParseEnds, Cur
<1>3. FlagsRight'
  BY DEF Same, FlatInv, FlagsRight, Cur, Names, Enabled
<1>4. ReportsComplete'
  BY <1>1, ReportsKeep DEF Same, FlatInv
<1>5. Terminates'
  BY DEF Same, FlatInv, Terminates, Cur
<1>6. QED
  BY <1>2, <1>3, <1>4, <1>5 DEF FlatInv

LEMMA StageKeeps ==
  ASSUME TypeOK, FlatInv, Same, NEW q \in Queries, IsTop(q),
         NEW s \in {"planned", "running", "closing", "raising"},
         stage' = [stage EXCEPT ![q] = s], Proceeds(s)
  PROVE  FlatInv'
<1>1. nq \in Int /\ q = nq /\ stack = <<nq>> /\ nq \in Queries
  BY ReportedTids, AtTop DEF FlatInv
<1>2. stage'[nq] = s /\ \A p \in Queries : p # nq => stage'[p] = stage[p]
  BY <1>1 DEF TypeOK
<1>3. OneFrame'
  <2>1. \A p \in Queries : p # nq => stage[p] \in Idle
    BY DEF FlatInv, OneFrame
  <2>2. QED
    BY <1>1, <1>2, <2>1 DEF Same, FlatInv, OneFrame
<1>4. LiveIsCurrent'
  BY DEF Same, FlatInv, LiveIsCurrent, Cur
<1>5. FlagsRight'
  <2>1. s # "planning" /\ s \notin DOMAIN AfterEnd
    BY DEF AfterEnd
  <2>2. QED
    BY <1>2, <2>1 DEF Same, FlatInv, FlagsRight, Cur, Names, Enabled
<1>6. ParseEnds'
  BY <1>2 DEF Same, FlatInv, ParseEnds
<1>7. ReportsComplete'
  <2>1. \A p \in 1..nq : p \in Queries
    BY <1>1, BoundsAssumption DEF Queries
  <2>2. \A p \in 1..nq : stage'[p] = "planning" => stage[p] = "planning"
    BY <1>2, <2>1
  <2>3. QED
    BY <2>2, ReportsKeep DEF Same, FlatInv
<1>8. Terminates'
  BY <1>1, <1>2 DEF Same, FlatInv, Terminates, Cur, Proceeds
<1>9. QED
  BY <1>3, <1>4, <1>5, <1>6, <1>7, <1>8 DEF FlatInv

\* The planner of PostgreSQL does not plan a statement whose comment counts
\* an anchor: its planner call ends in PilotPlannerReturns.
LEMMA PlannerReturnsFlat ==
  ASSUME TypeOK, FlatInv, NEW q \in Queries, PlannerReturns(q)
  PROVE  FlatInv'
<1>1. Same /\ IsTop(q) /\ stage' = [stage EXCEPT ![q] = "planned"] /\ stage[q] = "planning"
  BY Zenon DEF PlannerReturns, globals, Same
<1>2. q = nq /\ stack = <<nq>>
  BY <1>1, AtTop DEF FlatInv
<1>3. Proceeds("planned")
  <2> SUFFICES ASSUME ~tainted', ~prev_planner_hook, Cur \in Requests, MustTerminate(Cur)
               PROVE  FALSE
    BY DEF Proceeds
  <2>0. ~tainted
    BY <1>1 DEF Same
  <2>1. pilot.ptr = "live" /\ Parsed(Cur) # {}
    BY <1>1, <1>2, <2>0 DEF FlatInv, Terminates
  <2>2. pilot.names = <<>> /\ anchor_num = Cardinality(WantedBy(Cur) \ Names) + Stuck(Cur)
    BY <1>1, <1>2, <2>0, <2>1 DEF FlatInv, FlagsRight
  <2>3. Names = {}
    BY <2>2 DEF Names
  <2>4. anchor_num = Cardinality(Parsed(Cur))
    BY <2>2, <2>3, WantedCounted
  <2>5. anchor_num # 0
    BY <2>1, <2>4, ParsedFinite, FS_EmptySet
  <2>6. UsesPilotPlanner(q)
    BY <1>2 DEF UsesPilotPlanner, Cur
  <2>7. QED
    BY <2>5, <2>6 DEF PlannerReturns
<1>4. QED
  BY <1>1, <1>3, StageKeeps

LEMMA ExecutorFlat ==
  ASSUME TypeOK, FlatInv, NEW q \in Queries, ExecutorStart(q) \/ SkipMeasure(q)
  PROVE  FlatInv'
<1>1. PICK s \in {"running", "closing"} :
        /\ Same /\ IsTop(q) /\ stage' = [stage EXCEPT ![q] = s]
        /\ stage[q] \in {"planned", "running"}
  BY Zenon DEF ExecutorStart, SkipMeasure, globals, Same
<1>2. q = nq /\ stack = <<nq>>
  BY <1>1, AtTop DEF FlatInv
<1>3. Proceeds(s)
  BY <1>1, <1>2 DEF Proceeds, Same, FlatInv, Terminates
<1>4. QED
  BY <1>1, <1>3, StageKeeps

LEMMA ErrorFlat ==
  ASSUME TypeOK, FlatInv, NEW q \in Queries, StatementError(q)
  PROVE  FlatInv'
<1>1. Same /\ IsTop(q) /\ stage' = [stage EXCEPT ![q] = "raising"]
  BY Zenon DEF StatementError, globals, Same
<1>2. QED
  BY <1>1, StageKeeps DEF Proceeds

------------------------------------------------------------------------------
(* A statement ends, and its memory goes.                                  *)

LEMMA GoneKeeps ==
  ASSUME TypeOK, FlatInv, NEW q \in Queries, IsTop(q), Expire({q}), stack' = <<>>,
         UNCHANGED <<nq, text, estimates, reports>>,
         \A p \in Queries : stage'[p] = stage[p] \/ stage'[p] \in {"done", "discarded", "aborted"},
         stage'[q] \in {"done", "discarded", "aborted"}
  PROVE  FlatInv'
<1>1. nq \in Int /\ q = nq /\ nq \in Queries
  BY ReportedTids, AtTop DEF FlatInv
<1>2. \A a \in Structs : anchor'[a].ptr # "live"
  <2>1. anchor \in [Structs -> Anchors]
    BY DEF TypeOK, Anchors
  <2>2. \A a \in Structs : anchor[a].ptr = "live" => anchor[a].home = q
    BY <1>1 DEF FlatInv, LiveIsCurrent
  <2>3. QED
    BY <2>1, <2>2 DEF Expire, Expired, Anchors
<1>3. pilot'.ptr # "live"
  <2>1. pilot \in Pilots
    BY DEF TypeOK, Pilots
  <2>2. pilot.ptr = "live" => pilot.home = q
    BY <1>1 DEF FlatInv, LiveIsCurrent
  <2>3. QED
    BY <2>1, <2>2 DEF Expire, Expired, Pilots
<1>4. OneFrame'
  <2>1. \A p \in Queries : p # nq => stage[p] \in Idle
    BY DEF FlatInv, OneFrame
  <2>2. \A p \in Queries : stage'[p] \in Idle
    BY <1>1, <2>1 DEF Idle
  <2>3. QED
    BY <2>2 DEF FlatInv, OneFrame
<1>5. LiveIsCurrent' /\ FlagsRight' /\ Terminates'
  BY <1>2, <1>3 DEF LiveIsCurrent, FlagsRight, Terminates
<1>6. ParseEnds'
  BY DEF FlatInv, ParseEnds
<1>7. ReportsComplete'
  <2>1. \A p \in 1..nq : p \in Queries
    BY <1>1, BoundsAssumption DEF Queries
  <2>2. \A p \in 1..nq : stage'[p] = "planning" => stage[p] = "planning"
    BY <2>1
  <2>3. QED
    BY <2>2, ReportsKeep DEF FlatInv
<1>8. QED
  BY <1>4, <1>5, <1>6, <1>7 DEF FlatInv

LEMMA LeaveFlat ==
  ASSUME TypeOK, FlatInv, NEW q \in Queries, Close(q) \/ DiscardPlan(q)
  PROVE  FlatInv'
<1>1. PICK s \in {"done", "discarded"} : IsTop(q) /\ Leave(q, s)
  BY DEF Close, DiscardPlan
<1>2. /\ Expire({q}) /\ stack' = Outer /\ UNCHANGED <<nq, text, estimates, reports>>
      /\ stage' = [stage EXCEPT ![q] = s]
  BY <1>1 DEF Leave
<1>3. Outer = <<>>
  BY <1>1, AtTop DEF FlatInv
<1>4. stage'[q] = s /\ \A p \in Queries : stage'[p] = stage[p] \/ stage'[p] = s
  BY <1>2 DEF TypeOK
<1>5. QED
  BY <1>1, <1>2, <1>3, <1>4, GoneKeeps

LEMMA UnwindFlat ==
  ASSUME TypeOK, FlatInv, NEW q \in Queries, NEW k \in 0..MaxDepth, Unwind(q, k)
  PROVE  FlatInv'
<1>1. /\ IsTop(q) /\ k < Len(stack) /\ stack' = SubSeq(stack, 1, k)
      /\ UNCHANGED <<nq, text, estimates, reports>>
  BY DEF Unwind
<1>2. /\ q = nq /\ stack = <<q>> /\ Len(stack) = 1 /\ SubSeq(stack, 1, 0) = <<>>
  BY <1>1, AtTop DEF FlatInv
<1>3. k = 0
  BY <1>1, <1>2, BoundsAssumption
<1>4. {stack[i] : i \in (k + 1)..Len(stack)} = {q}
  BY <1>2, <1>3
<1>5. /\ Expire({q})
      /\ stage' = [p \in Queries |-> IF p \in {q} \/ (k = 0 /\ stage[p] = "suspended")
                                     THEN "aborted" ELSE stage[p]]
  BY <1>4 DEF Unwind
<1>6. QED
  BY <1>1, <1>2, <1>3, <1>5, GoneKeeps

------------------------------------------------------------------------------
(* Anchors are processed and counted down.                                 *)

LEMMA FlagsCleared ==
  ASSUME TypeOK, NEW on, ClearFlags(on)
  PROVE  /\ Enabled' = Enabled \ on
         /\ \A a \in Structs : anchor'[a].ptr = anchor[a].ptr /\ anchor'[a].home = anchor[a].home
<1>1. anchor \in [Structs -> Anchors]
  BY DEF TypeOK, Anchors
<1>2. \A a \in Structs :
        /\ anchor'[a].ptr = anchor[a].ptr /\ anchor'[a].home = anchor[a].home
        /\ anchor'[a].ptr = "live" =>
             anchor'[a].enable = IF a \in on THEN FALSE ELSE anchor[a].enable
  BY <1>1 DEF ClearFlags, Anchors
<1>3. \A a \in Structs : a \in Enabled' <=> a \in Enabled /\ a \notin on
  BY <1>2 DEF Enabled
<1>4. QED
  BY <1>2, <1>3 DEF Enabled

LEMMA EnabledFinite == IsFiniteSet(Enabled) /\ Cardinality(Enabled) \in Nat
<1>1. IsFiniteSet({}) /\ \A S, x : IsFiniteSet(S) => IsFiniteSet(S \cup {x})
  BY FS_EmptySet, FS_AddElement
<1>2. IsFiniteSet((({Card} \cup {Subq}) \cup {Exec}) \cup {Record})
  BY <1>1, FS_Singleton
<1>3. Structs = (({Card} \cup {Subq}) \cup {Exec}) \cup {Record}
  BY Kinds4
<1>4. Enabled \subseteq Structs
  BY DEF Enabled
<1>5. QED
  BY <1>2, <1>3, <1>4, FS_Subset, FS_CardinalityType

\* The counter keeps exceeding the flags by what no hook counts down.
LEMMA CountedDown ==
  ASSUME TypeOK, NEW on \in SUBSET Enabled, Process(on), NEW n \in Int,
         anchor_num = Cardinality(Enabled) + n
  PROVE  anchor_num' = Cardinality(Enabled \ on) + n
<1>1. Enabled \cap on = on
  OBVIOUS
<1>2. Cardinality(Enabled \ on) = Cardinality(Enabled) - Cardinality(on)
  BY <1>1, EnabledFinite, FS_Difference
<1>3. Cardinality(on) \in Nat
  BY EnabledFinite, FS_Subset, FS_CardinalityType
<1>4. QED
  BY <1>2, <1>3, EnabledFinite DEF Process

\* The test of end_anchor's callers is right: when it holds, no anchor is
\* left that a hook would process, and none is counted that no hook does.
LEMMA EndsRightly ==
  ASSUME NEW E \in SUBSET Structs, IsFiniteSet(E), NEW n \in Nat,
         NEW record \in BOOLEAN, record => Record \in E,
         Ends(Cardinality(E) + n, record)
  PROVE  E \cap Hooked = {} /\ n = 0
<1>1. Cardinality(E) \in Nat
  BY FS_CardinalityType
<1>2. CASE Cardinality(E) = 0
  <2>1. E = {}
    BY <1>2, FS_EmptySet
  <2>2. ~record
    BY <2>1
  <2>3. QED
    BY <1>2, <2>1, <2>2 DEF Ends
<1>3. CASE Cardinality(E) # 0
  <2>1. record /\ Cardinality(E) = 1 /\ n = 0
    BY <1>1, <1>3 DEF Ends
  <2>2. PICK x : E = {x}
    BY <2>1, FS_Singleton
  <2>3. E = {Record}
    BY <2>1, <2>2
  <2>4. QED
    BY <2>1, <2>3, Kinds4
<1>4. QED
  BY <1>2, <1>3

\* And when only the record anchor may be left, it holds.
LEMMA EndsInTime ==
  ASSUME NEW E \in SUBSET {Record}, NEW record, Record \in E => record
  PROVE  Ends(Cardinality(E), record)
<1>1. CASE E = {}
  BY <1>1, FS_EmptySet DEF Ends
<1>2. CASE E = {Record}
  BY <1>2, FS_Singleton DEF Ends
<1>3. QED
  BY <1>1, <1>2

\* What PilotPlannerReturns and MeasureTime have in common.
LEMMA ProcessKeeps ==
  ASSUME TypeOK, FlatInv, NEW q \in Queries, IsTop(q),
         NEW on, NEW record \in Reads(Record), Process(on), Record \notin on,
         UNCHANGED <<prev_planner_hook, enableTerminate, nq, text, estimates, stack, reports>>,
         pilot'.ptr = pilot.ptr, pilot'.home = pilot.home, pilot'.subquery = pilot.subquery,
         tainted => tainted', ~tainted' => ~(anchor_num' = 1 /\ IsStale(Record)),
         ~tainted' /\ pilot.ptr = "live" =>
           /\ on \subseteq Enabled \cap Hooked /\ Names' = Names \cup on
           /\ pilot'.exec = IF Exec \in on THEN q ELSE pilot.exec,
         NEW s \in {"planned", "closing", "ending_plan", "ending_exec"},
         stage' = [stage EXCEPT ![q] = s],
         s \in DOMAIN AfterEnd => Ends(anchor_num', record),
         ~tainted' /\ ~prev_planner_hook /\ Cur \in Requests /\ MustTerminate(Cur) =>
           s = "ending_plan"
  PROVE  FlatInv'
<1>1. nq \in Int /\ q = nq /\ stack = <<nq>> /\ nq \in Queries
  BY ReportedTids, AtTop DEF FlatInv
<1>2. stage'[nq] = s /\ \A p \in Queries : p # nq => stage'[p] = stage[p]
  BY <1>1 DEF TypeOK
<1>3. OneFrame'
  <2>1. \A p \in Queries : p # nq => stage[p] \in Idle
    BY DEF FlatInv, OneFrame
  <2>2. QED
    BY <1>1, <1>2, <2>1 DEF FlatInv, OneFrame
<1>4. ClearFlags(on) /\ Cur' = Cur
  BY DEF Process, Cur
<1>5. LiveIsCurrent'
  BY <1>4, FlagsCleared DEF FlatInv, LiveIsCurrent
<1>6. FlagsRight'
  <2> SUFFICES ASSUME ~tainted', pilot.ptr = "live" PROVE FlagsRight'
    BY DEF FlagsRight
  <2>1. /\ Cur \in Requests /\ Names \subseteq Hooked /\ Names \subseteq WantedBy(Cur)
        /\ Enabled = WantedBy(Cur) \ Names
        /\ anchor_num = Cardinality(Enabled) + Stuck(Cur)
        /\ pilot.exec = IF Exec \in Names THEN nq ELSE 0
        /\ pilot.subquery = [j \in 1..(IF Wanted(Cur, Subq) THEN estimates[nq] ELSE 0) |-> nq]
    BY DEF FlatInv, FlagsRight, LiveIsCurrent
  <2>2. /\ on \subseteq Enabled /\ on \subseteq Hooked /\ Names' = Names \cup on
        /\ pilot'.exec = IF Exec \in on THEN q ELSE pilot.exec
    OBVIOUS
  <2>3. Enabled' = Enabled \ on
    BY <1>4, FlagsCleared
  <2>4. Stuck(Cur) \in Nat
    BY <2>1, WantedCounted
  <2>5. anchor_num' = Cardinality(Enabled \ on) + Stuck(Cur)
    BY <2>1, <2>2, <2>4, CountedDown
  <2>6. Enabled' = WantedBy(Cur) \ Names' /\ Names' \subseteq Hooked
        /\ Names' \subseteq WantedBy(Cur)
    BY <2>1, <2>2, <2>3
  <2>7. pilot'.exec = IF Exec \in Names' THEN nq ELSE 0
    BY <1>1, <2>1, <2>2
  <2>8. s \in DOMAIN AfterEnd => Enabled' \cap Hooked = {} /\ Stuck(Cur) = 0
    <3> SUFFICES ASSUME s \in DOMAIN AfterEnd
                 PROVE  (Enabled \ on) \cap Hooked = {} /\ Stuck(Cur) = 0
      BY <2>3
    <3>1. IsFiniteSet(Enabled \ on) /\ Enabled \ on \subseteq Structs
      BY EnabledFinite, FS_Subset DEF Enabled
    <3>2. Record \in Structs /\ anchor[Record] \in Anchors
      BY Kinds4 DEF TypeOK, Anchors
    <3>3. record \in BOOLEAN
      BY <3>2, Zenon DEF Reads, Anchors, Ptr
    <3>4. CASE Cardinality(Enabled \ on) + Stuck(Cur) = 1
      <4>1. anchor[Record].ptr # "stale"
        BY <2>5, <3>4 DEF IsStale
      <4>2. record => anchor[Record].ptr = "live" /\ anchor[Record].enable
        BY <3>2, <4>1 DEF Reads, Anchors, Ptr
      <4>3. record => Record \in Enabled \ on
        BY <3>2, <4>2 DEF Enabled
      <4>4. Ends(Cardinality(Enabled \ on) + Stuck(Cur), record)
        BY <2>5
      <4>5. QED
        BY <2>4, <3>1, <3>3, <4>3, <4>4, EndsRightly
    <3>5. CASE Cardinality(Enabled \ on) + Stuck(Cur) # 1
      <4>1. Ends(Cardinality(Enabled \ on) + Stuck(Cur), FALSE)
        BY <2>5, <3>5 DEF Ends
      <4>2. QED
        BY <2>4, <3>1, <4>1, EndsRightly
    <3>6. QED
      BY <3>4, <3>5
  <2>9. pilot'.subquery = [j \in 1..(IF Wanted(Cur', Subq) THEN estimates'[nq'] ELSE 0) |-> nq']
    BY <1>4, <2>1
  <2>10. anchor_num' = Cardinality(Enabled') + Stuck(Cur')
    BY <1>4, <2>3, <2>5
  <2>11. s # "planning"
    OBVIOUS
  <2>12. QED
    BY <1>2, <1>4, <2>6, <2>7, <2>8, <2>9, <2>10, <2>11 DEF FlagsRight
<1>7. ParseEnds'
  BY <1>2 DEF FlatInv, ParseEnds
<1>8. ReportsComplete'
  <2>1. \A p \in 1..nq : p \in Queries
    BY <1>1, BoundsAssumption DEF Queries
  <2>2. \A p \in 1..nq : stage'[p] = "planning" => stage[p] = "planning"
    BY <1>2, <2>1
  <2>3. QED
    BY <2>2, ReportsKeep DEF FlatInv
<1>9. Terminates'
  BY <1>1, <1>2, <1>4 DEF FlatInv, Terminates
<1>10. QED
  BY <1>3, <1>5, <1>6, <1>7, <1>8, <1>9 DEF FlatInv

\* A flag read from memory in use is the flag.
LEMMA ReadsRight ==
  ASSUME TypeOK, NEW a \in Structs, NEW b \in Reads(a), ~IsStale(a)
  PROVE  b \in BOOLEAN /\ (b <=> a \in Enabled)
<1>1. anchor[a] \in Anchors
  BY DEF TypeOK, Anchors
<1>2. anchor[a].ptr \in {"null", "live"} /\ anchor[a].enable \in BOOLEAN
  BY <1>1 DEF Anchors, Ptr, IsStale
<1>3. CASE anchor[a].ptr = "null"
  <2>1. Reads(a) = {FALSE}
    BY <1>3 DEF Reads
  <2>2. QED
    BY <1>3, <2>1 DEF Enabled
<1>4. CASE anchor[a].ptr = "live"
  <2>1. Reads(a) = {anchor[a].enable}
    BY <1>4 DEF Reads
  <2>2. b = anchor[a].enable
    BY <2>1, Zenon
  <2>3. QED
    BY <1>2, <1>4, <2>2 DEF Enabled
<1>5. QED
  BY <1>2, <1>3, <1>4

LEMMA PilotPlannerReturnsFlat ==
  ASSUME TypeOK, FlatInv, NEW q \in Queries, PilotPlannerReturns(q)
  PROVE  FlatInv'
<1>1. PICK on \in SUBSET {Card, Subq}, record \in Reads(Record) :
        /\ \A a \in {Card, Subq} : (a \in on) \in Reads(a)
        /\ Process(on)
        /\ pilot' = [pilot EXCEPT !.names = WithNames(@, on)]
        /\ stage' = [stage EXCEPT ![q] = IF Ends(anchor_num', record) THEN "ending_plan"
                                                                      ELSE "planned"]
        /\ Dangling(\/ IsStale(Card) \/ IsStale(Subq)
                    \/ on # {} /\ pilot.ptr = "stale"
                    \/ anchor_num' = 1 /\ IsStale(Record))
  BY DEF PilotPlannerReturns
<1> DEFINE s == IF Ends(anchor_num', record) THEN "ending_plan" ELSE "planned"
<1>2. /\ IsTop(q) /\ stage[q] = "planning"
      /\ UNCHANGED <<prev_planner_hook, enableTerminate, nq, text, estimates, stack, reports>>
  BY DEF PilotPlannerReturns
<1>3. q = nq /\ stack = <<nq>>
  BY <1>2, AtTop DEF FlatInv
<1>4. /\ tainted => tainted'
      /\ ~tainted' => /\ ~IsStale(Card) /\ ~IsStale(Subq)
                      /\ ~(anchor_num' = 1 /\ IsStale(Record))
  BY <1>1, Zenon DEF Dangling
<1>5. /\ pilot'.ptr = pilot.ptr /\ pilot'.home = pilot.home /\ pilot'.subquery = pilot.subquery
      /\ pilot'.exec = pilot.exec /\ pilot'.names = WithNames(pilot.names, on)
  <2>1. pilot \in Pilots
    BY DEF TypeOK, Pilots
  <2>2. QED
    BY <1>1, <2>1 DEF Pilots
<1>6. ~tainted' => on = Enabled \cap {Card, Subq}
  <2> SUFFICES ASSUME ~tainted' PROVE on = Enabled \cap {Card, Subq}
    OBVIOUS
  <2>1. \A a \in {Card, Subq} : a \in on <=> a \in Enabled
    BY <1>1, <1>4, ReadsRight, Kinds4
  <2>2. QED
    BY <2>1
<1>7. ~tainted' /\ pilot.ptr = "live" =>
        /\ on \subseteq Enabled \cap Hooked /\ Names = {} /\ Names' = on
        /\ anchor_num = Cardinality(Enabled) + Stuck(Cur) /\ Enabled = WantedBy(Cur)
        /\ Cur \in Requests
  <2> SUFFICES ASSUME ~tainted', pilot.ptr = "live"
               PROVE  /\ on \subseteq Enabled \cap Hooked /\ Names = {} /\ Names' = on
                      /\ anchor_num = Cardinality(Enabled) + Stuck(Cur)
                      /\ Enabled = WantedBy(Cur) /\ Cur \in Requests
    OBVIOUS
  <2>1. /\ pilot.names = <<>> /\ anchor_num = Cardinality(Enabled) + Stuck(Cur)
        /\ Enabled = WantedBy(Cur) \ Names /\ Cur \in Requests
    BY <1>2, <1>3, <1>4 DEF FlatInv, FlagsRight, LiveIsCurrent
  <2>2. Names = {}
    BY <2>1 DEF Names
  <2>3. Names' = on
    BY <1>5, <2>1, NamesProcessed DEF Names
  <2>4. QED
    BY <1>6, <2>1, <2>2, <2>3, Kinds4
<1>8. ~tainted' /\ ~prev_planner_hook /\ Cur \in Requests /\ MustTerminate(Cur) =>
        s = "ending_plan"
  <2> SUFFICES ASSUME ~tainted', ~prev_planner_hook, Cur \in Requests, MustTerminate(Cur)
               PROVE  Ends(anchor_num', record)
    OBVIOUS
  <2>1. pilot.ptr = "live"
    BY <1>2, <1>3, <1>4 DEF FlatInv, Terminates
  <2>2. Stuck(Cur) = 0 /\ Exec \notin WantedBy(Cur)
    BY DEF MustTerminate, WantedBy
  <2>3. Enabled \ on \subseteq {Record}
    BY <1>6, <1>7, <2>1, <2>2, Kinds4 DEF Enabled
  <2>4. anchor_num' = Cardinality(Enabled \ on)
    <3>1. Cardinality(Enabled \ on) \in Nat
      BY EnabledFinite, FS_Subset, FS_CardinalityType
    <3>2. anchor_num' = Cardinality(Enabled \ on) + 0
      BY <1>1, <1>7, <2>1, <2>2, CountedDown
    <3>3. QED
      BY <3>1, <3>2
  <2>5. CASE Record \in Enabled
    <3>1. ~IsStale(Record) /\ Record \in Structs
      BY <2>5 DEF Enabled, IsStale
    <3>2. record
      BY <2>5, <3>1, ReadsRight
    <3>3. QED
      BY <2>3, <2>4, <3>2, EndsInTime
  <2>6. CASE Record \notin Enabled
    BY <2>3, <2>4, <2>6, EndsInTime
  <2>7. QED
    BY <2>5, <2>6
<1>9. Record \notin on /\ Exec \notin on
  BY Kinds4
<1>10. /\ s \in {"planned", "closing", "ending_plan", "ending_exec"}
       /\ s \in DOMAIN AfterEnd => Ends(anchor_num', record)
       /\ stage' = [stage EXCEPT ![q] = s]
  BY <1>1 DEF AfterEnd
<1> HIDE DEF s
<1>11. QED
  BY <1>1, <1>2, <1>4, <1>5, <1>7, <1>8, <1>9, <1>10, ProcessKeeps

LEMMA MeasureTimeFlat ==
  ASSUME TypeOK, FlatInv, NEW q \in Queries, MeasureTime(q)
  PROVE  FlatInv'
<1>1. /\ IsTop(q) /\ stage[q] = "running" /\ TRUE \in Reads(Exec)
      /\ UNCHANGED <<prev_planner_hook, enableTerminate, nq, text, estimates, stack, reports>>
  BY DEF MeasureTime
<1>2. q = nq /\ stack = <<nq>>
  BY <1>1, AtTop DEF FlatInv
<1>3. CASE ~timer[q]
  BY <1>1, <1>3, SameKeeps, Zenon DEF MeasureTime, Same
<1>4. CASE timer[q]
  <2>1. PICK record \in Reads(Record) :
          /\ Process({Exec})
          /\ pilot' = [pilot EXCEPT !.exec = q, !.names = Append(@, Exec)]
          /\ stage' = [stage EXCEPT ![q] = IF Ends(anchor_num', record) THEN "ending_exec"
                                                                        ELSE "closing"]
          /\ Dangling(IsStale(Exec) \/ pilot.ptr = "stale"
                        \/ (anchor_num' = 1 /\ IsStale(Record)))
    BY <1>4 DEF MeasureTime
  <2> DEFINE s == IF Ends(anchor_num', record) THEN "ending_exec" ELSE "closing"
  <2>2. /\ tainted => tainted'
        /\ ~tainted' => ~IsStale(Exec) /\ ~(anchor_num' = 1 /\ IsStale(Record))
    BY <2>1, Zenon DEF Dangling
  <2>3. pilot \in Pilots
    BY DEF TypeOK, Pilots
  <2>4. /\ pilot'.ptr = pilot.ptr /\ pilot'.home = pilot.home
        /\ pilot'.subquery = pilot.subquery /\ pilot'.exec = q
        /\ pilot'.names = Append(pilot.names, Exec)
    BY <2>1, <2>3 DEF Pilots
  <2>5. ~tainted' => Exec \in Enabled
    BY <1>1, <2>2, ReadsRight, Kinds4
  <2>6. Names' = Names \cup {Exec}
    <3>1. pilot.names \in Seq(Structs)
      BY <2>3 DEF Pilots
    <3>2. QED
      BY <2>4, <3>1, AppendedNames, Kinds4 DEF Names
  <2>7. ~tainted' /\ pilot.ptr = "live" =>
          /\ {Exec} \subseteq Enabled \cap Hooked /\ Names' = Names \cup {Exec}
          /\ pilot'.exec = IF Exec \in {Exec} THEN q ELSE pilot.exec
    BY <2>4, <2>5, <2>6, Kinds4
  <2>8. ~(~tainted' /\ ~prev_planner_hook /\ Cur \in Requests /\ MustTerminate(Cur))
    BY <1>1, <1>2, <2>2 DEF FlatInv, Terminates
  <2>9. Record \notin {Exec}
    BY Kinds4
  <2>10. /\ s \in {"planned", "closing", "ending_plan", "ending_exec"}
         /\ s \in DOMAIN AfterEnd => Ends(anchor_num', record)
         /\ stage' = [stage EXCEPT ![q] = s]
    BY <2>1 DEF AfterEnd
  <2>11. ASSUME NEW on, on = {Exec} PROVE FlatInv'
    <3>1. Process(on) /\ Record \notin on
      BY <2>1, <2>9, <2>11
    <3>2. ~tainted' /\ pilot.ptr = "live" =>
            /\ on \subseteq Enabled \cap Hooked /\ Names' = Names \cup on
            /\ pilot'.exec = IF Exec \in on THEN q ELSE pilot.exec
      BY <2>7, <2>11
    <3> HIDE DEF s
    <3>3. QED
      BY <1>1, <2>2, <2>4, <3>1, <3>2, <2>8, <2>10, ProcessKeeps
  <2>12. QED
    BY <2>11
<1>5. QED
  BY <1>3, <1>4

------------------------------------------------------------------------------
(* Estimates are stored, and answers are sent.                             *)

LEMMA EstimateFlat ==
  ASSUME TypeOK, FlatInv, NEW q \in Queries, Estimate(q)
  PROVE  FlatInv'
<1>1. PICK on \in Reads(Subq) :
        /\ Dangling(IsStale(Subq) \/ (on /\ pilot.ptr = "stale"))
        /\ IF on THEN pilot' = [pilot EXCEPT !.subquery = Append(@, q)] ELSE UNCHANGED pilot
  BY DEF Estimate
<1>2. /\ IsTop(q) /\ stage[q] = "planning" /\ estimates' = [estimates EXCEPT ![q] = @ + 1]
      /\ UNCHANGED <<prev_planner_hook, anchor, anchor_num, enableTerminate, nq, text, stage,
                     stack, reports>>
  BY DEF Estimate
<1>3. nq \in Int /\ q = nq /\ stack = <<nq>> /\ nq \in Queries
  BY <1>2, ReportedTids, AtTop DEF FlatInv
<1>4. /\ estimates'[nq] = estimates[nq] + 1 /\ estimates[nq] \in Nat
      /\ \A p \in Queries : p # nq => estimates'[p] = estimates[p]
  BY <1>2, <1>3 DEF TypeOK
<1>5. /\ pilot'.ptr = pilot.ptr /\ pilot'.home = pilot.home /\ pilot'.names = pilot.names
      /\ pilot'.exec = pilot.exec
      /\ pilot'.subquery = IF on THEN Append(pilot.subquery, q) ELSE pilot.subquery
  BY <1>1 DEF TypeOK
<1>6. (tainted => tainted') /\ (~tainted' => ~IsStale(Subq))
  BY <1>1, Zenon DEF Dangling
<1>7. OneFrame'
  BY <1>2, <1>3, <1>4 DEF FlatInv, OneFrame
<1>8. LiveIsCurrent' /\ ParseEnds' /\ Terminates'
  BY <1>2, <1>5, <1>6 DEF FlatInv, LiveIsCurrent, ParseEnds, Terminates, Cur
<1>9. FlagsRight'
  <2> SUFFICES ASSUME ~tainted', pilot.ptr = "live" PROVE FlagsRight'
    BY <1>5 DEF FlagsRight
  <2>1. /\ pilot.names = <<>> /\ Enabled = WantedBy(Cur) \ Names
        /\ pilot.subquery = [j \in 1..(IF Wanted(Cur, Subq) THEN estimates[nq] ELSE 0) |-> nq]
    BY <1>2, <1>3, <1>6 DEF FlatInv, FlagsRight
  <2>2. on <=> Wanted(Cur, Subq)
    <3>1. Names = {}
      BY <2>1 DEF Names
    <3>2. on <=> Subq \in Enabled
      BY <1>6, ReadsRight, Kinds4
    <3>3. QED
      BY <2>1, <3>1, <3>2, Kinds4 DEF WantedBy
  <2>3. pilot'.subquery =
          [j \in 1..(IF Wanted(Cur, Subq) THEN estimates'[nq] ELSE 0) |-> nq]
    <3>1. CASE Wanted(Cur, Subq)
      <4>1. pilot'.subquery = Append([j \in 1..estimates[nq] |-> nq], nq)
        BY <1>3, <1>5, <2>1, <2>2, <3>1
      <4>2. \A n \in Nat : Append([j \in 1..n |-> nq], nq) = [j \in 1..(n + 1) |-> nq]
        OBVIOUS
      <4>3. pilot'.subquery = [j \in 1..(estimates[nq] + 1) |-> nq]
        BY <1>4, <4>1, <4>2
      <4>4. QED
        BY <1>4, <3>1, <4>3
    <3>2. CASE ~Wanted(Cur, Subq)
      BY <1>5, <2>1, <2>2, <3>2
    <3>3. QED
      BY <3>1, <3>2
  <2>4. Enabled' = Enabled /\ Names' = Names /\ Cur' = Cur
    BY <1>2, <1>5 DEF Enabled, Names, Cur
  <2>5. QED
    BY <1>2, <1>5, <1>6, <2>3, <2>4 DEF FlatInv, FlagsRight
<1>10. ReportsComplete'
  <2> SUFFICES ASSUME NEW i \in DOMAIN reports, reports[i].clean
               PROVE  Complete(reports[i])'
    BY <1>2 DEF ReportsComplete
  <2>1. Complete(reports[i])
    BY DEF FlatInv, ReportsComplete
  <2>2. reports[i].tid \in Queries
    BY <1>3, <2>1, BoundsAssumption DEF Complete, Queries
  <2>3. CASE reports[i].tid = nq
    BY <1>2, <1>3, <2>1, <2>3 DEF Complete
  <2>4. CASE reports[i].tid # nq
    BY <1>2, <1>4, <2>1, <2>2, <2>4 DEF Complete
  <2>5. QED
    BY <2>3, <2>4
<1>11. QED
  BY <1>7, <1>8, <1>9, <1>10 DEF FlatInv

\* What end_anchor sends, it sends complete.
LEMMA ReportIsComplete ==
  ASSUME TypeOK, FlatInv, NEW q \in Queries, IsTop(q), stage[q] \in DOMAIN AfterEnd,
         NEW m, m = Report(q), m.clean, UNCHANGED <<nq, text, estimates>>,
         stage'[q] = "planning" => stage[q] = "ending_parse"
  PROVE  Complete(m)'
<1>1. nq \in Int /\ q = nq /\ stack = <<nq>> /\ nq \in Queries
  BY ReportedTids, AtTop DEF FlatInv
<1>2. ~tainted /\ pilot.ptr = "live"
  BY DEF Report
<1>3. /\ m.tid = pilot.home /\ m.exec = pilot.exec /\ m.names = pilot.names
      /\ m.subquery = pilot.subquery
  BY DEF Report
<1>4. /\ Names \subseteq Hooked /\ Names \subseteq WantedBy(Cur)
      /\ Enabled = WantedBy(Cur) \ Names /\ Enabled \cap Hooked = {}
      /\ pilot.exec = IF Exec \in Names THEN nq ELSE 0
      /\ pilot.subquery = [j \in 1..(IF Wanted(Cur, Subq) THEN estimates[nq] ELSE 0) |-> nq]
      /\ pilot.home = nq /\ Cur \in Requests /\ Stuck(Cur) = 0
  BY <1>1, <1>2 DEF FlatInv, FlagsRight, LiveIsCurrent
<1>5. Names = {a \in Hooked : Wanted(Cur, a)}
  BY <1>4, Kinds4 DEF WantedBy
<1>6. Exec \in Hooked /\ (Exec \in Names <=> Wanted(Cur, Exec)) /\ nq # 0
  BY <1>1, <1>5 DEF Hooked, Queries
<1>7. nq \in 1..nq /\ text'[nq] = Cur /\ estimates'[nq] = estimates[nq] /\ nq' = nq
  BY <1>1 DEF Queries, Cur
<1>8. stage'[nq] = "planning" => ~Wanted(Cur, Subq)
  BY <1>1, NothingWanted, Kinds4 DEF FlatInv, ParseEnds, Cur
<1>9. {m.names[j] : j \in DOMAIN m.names} = {a \in Hooked : Wanted(Cur, a)}
  BY <1>3, <1>5 DEF Names
<1>10. m.tid = nq /\ Stuck(text'[m.tid]) = 0 /\ (m.exec # 0 <=> Wanted(Cur, Exec))
  BY <1>1, <1>3, <1>4, <1>6, <1>7
<1>11. m.subquery = [j \in 1..(IF Wanted(Cur, Subq) THEN estimates[nq] ELSE 0) |-> m.tid]
  BY <1>3, <1>4
<1>12. (m.exec # 0) = Wanted(Cur, Exec)
  <2>1. Wanted(Cur, Exec) \in BOOLEAN
    BY Zenon DEF Wanted
  <2>2. m.exec # 0 <=> Wanted(Cur, Exec)
    BY <1>10
  <2>3. QED
    BY <2>1, <2>2
<1>13. QED
  BY <1>7, <1>8, <1>9, <1>10, <1>11, <1>12 DEF Complete

LEMMA EndAnchorFlat ==
  ASSUME TypeOK, FlatInv, NEW q \in Queries, EndAnchor(q)
  PROVE  FlatInv'
<1>1. /\ IsTop(q) /\ stage[q] \in DOMAIN AfterEnd
      /\ stage' = [stage EXCEPT ![q] = StageAfterEnd(q)]
      /\ Dangling(pilot.ptr = "stale" \/ (enableSend /\ \E a \in Structs : IsStale(a)))
      /\ UNCHANGED <<prev_planner_hook, anchor_num, enableTerminate, nq, text, estimates, stack>>
  BY DEF EndAnchor
<1>2. nq \in Int /\ q = nq /\ stack = <<nq>> /\ nq \in Queries
  BY <1>1, ReportedTids, AtTop DEF FlatInv
<1>3. /\ stage'[nq] = StageAfterEnd(q)
      /\ \A p \in Queries : p # nq => stage'[p] = stage[p]
  BY <1>1, <1>2 DEF TypeOK
<1>4. /\ StageAfterEnd(q) \in {"planning", "planned", "closing", "raising"}
      /\ StageAfterEnd(q) = "planning" => stage[q] = "ending_parse"
      /\ enableTerminate => StageAfterEnd(q) = "raising"
  BY <1>1 DEF StageAfterEnd, AfterEnd
<1>5. tainted => tainted'
  BY <1>1, Zenon DEF Dangling
<1>6. OneFrame'
  <2>1. \A p \in Queries : p # nq => stage[p] \in Idle
    BY DEF FlatInv, OneFrame
  <2>2. QED
    BY <1>1, <1>2, <1>3, <2>1 DEF FlatInv, OneFrame
<1>7. ParseEnds'
  BY <1>1, <1>3, <1>4 DEF FlatInv, ParseEnds
<1>8. (pilot' = pilot /\ anchor' = anchor) \/ free_all_struct
  BY DEF EndAnchor
<1>9. /\ pilot'.ptr = "live" => pilot' = pilot /\ anchor' = anchor
      /\ \A a \in Structs : anchor'[a].ptr = "live" => anchor' = anchor
  <2>1. anchor \in [Structs -> Anchors] /\ pilot \in Pilots
    BY DEF TypeOK, Anchors, Pilots
  <2>2. QED
    BY <1>8, <2>1 DEF free_all_struct, Anchors, Pilots
<1>10. LiveIsCurrent'
  BY <1>1, <1>9 DEF FlatInv, LiveIsCurrent, Cur
<1>11. FlagsRight'
  <2> SUFFICES ASSUME ~tainted', pilot'.ptr = "live" PROVE FlagsRight'
    BY DEF FlagsRight
  <2>1. /\ pilot' = pilot /\ anchor' = anchor /\ pilot.ptr = "live"
        /\ Enabled' = Enabled /\ Names' = Names /\ Cur' = Cur
    BY <1>1, <1>9 DEF Enabled, Names, Cur
  <2>2. stage'[nq] = "planning" => pilot.names = <<>>
    <3> SUFFICES ASSUME stage'[nq] = "planning" PROVE pilot.names = <<>>
      OBVIOUS
    <3>1. Parsed(Cur) = {}
      BY <1>2, <1>3, <1>4 DEF FlatInv, ParseEnds, Cur
    <3>2. Names = {}
      BY <1>5, <2>1, <3>1, NothingWanted DEF FlatInv, FlagsRight
    <3>3. pilot.names \in Seq(Structs)
      BY DEF TypeOK
    <3>4. DOMAIN pilot.names = {}
      BY <3>2 DEF Names
    <3>5. Len(pilot.names) \in Nat /\ DOMAIN pilot.names = 1..Len(pilot.names)
      BY <3>3
    <3>6. Len(pilot.names) = 0
      <4>1. Len(pilot.names) # 0 => 1 \in 1..Len(pilot.names)
        BY <3>5
      <4>2. QED
        BY <3>4, <3>5, <4>1
    <3>7. QED
      BY <3>3, <3>6
  <2>3. stage'[nq] \notin DOMAIN AfterEnd
    BY <1>3, <1>4 DEF AfterEnd
  <2>4. QED
    BY <1>1, <1>5, <2>1, <2>2, <2>3 DEF FlatInv, FlagsRight
<1>12. ReportsComplete'
  <2>1. \A p \in 1..nq : p \in Queries
    BY <1>2, BoundsAssumption DEF Queries
  <2>2. ASSUME NEW m, Complete(m) PROVE Complete(m)'
    <3>1. m.tid \in 1..nq
      BY <2>2 DEF Complete
    <3>2. stage'[m.tid] = "planning" => ~Wanted(text[m.tid], Subq)
      <4>1. CASE m.tid = nq
        <5>1. stage'[nq] = "planning" => Parsed(text[nq]) = {}
          BY <1>2, <1>3, <1>4 DEF FlatInv, ParseEnds
        <5>2. QED
          BY <4>1, <5>1, NothingWanted, Kinds4
      <4>2. CASE m.tid # nq
        BY <1>3, <2>1, <2>2, <3>1, <4>2 DEF Complete
      <4>3. QED
        BY <4>1, <4>2
    <3>3. nq' = nq /\ text' = text /\ estimates' = estimates
      BY <1>1
    <3>4. QED
      BY <2>2, <3>2, <3>3, Zenon DEF Complete
  <2>3. CASE reports' = reports
    BY <2>2, <2>3 DEF FlatInv, ReportsComplete
  <2>4. CASE reports' = Append(reports, Report(q))
    <3>1. reports \in Seq(ReportType) /\ Report(q) \in ReportType
      BY ReportTypes DEF TypeOK
    <3>2. PICK m : m = Report(q)
      OBVIOUS
    <3>3. m.clean => Complete(m)'
      BY <1>1, <1>2, <1>3, <1>4, <3>2, ReportIsComplete
    <3>4. \A i \in DOMAIN reports' : reports'[i] = m \/ \E j \in DOMAIN reports : reports'[i] = reports[j]
      BY <2>4, <3>1, <3>2
    <3>5. SUFFICES ASSUME NEW i \in DOMAIN reports', reports'[i].clean
                   PROVE  Complete(reports[i])'
      BY DEF ReportsComplete
    <3>6. CASE reports'[i] = m
      BY <3>3, <3>5, <3>6 DEF Complete
    <3>7. ASSUME NEW j \in DOMAIN reports, reports'[i] = reports[j]
          PROVE  Complete(reports[i])'
      <4>1. PICK x : x = reports[j]
        OBVIOUS
      <4>2. Complete(x)
        BY <3>5, <3>7, <4>1 DEF FlatInv, ReportsComplete
      <4>3. Complete(x)' /\ x = reports'[i]
        BY <2>2, <3>7, <4>1, <4>2
      <4>4. QED
        BY <4>3 DEF Complete
    <3>8. QED
      BY <3>4, <3>6, <3>7
  <2>5. QED
    BY <2>3, <2>4 DEF EndAnchor
<1>13. Terminates'
  <2>1. Cur' = Cur
    BY <1>1 DEF Cur
  <2>2. Cur \in Requests => enableTerminate = Cur.terminate
    BY <1>2 DEF FlatInv, Terminates
  <2>3. Cur \in Requests /\ MustTerminate(Cur) => stage'[nq] = "raising"
    BY <1>3, <1>4, <2>2 DEF MustTerminate
  <2>4. QED
    BY <1>1, <2>1, <2>2, <2>3 DEF Terminates
<1>14. QED
  BY <1>6, <1>7, <1>10, <1>11, <1>12, <1>13 DEF FlatInv

\* No cursor is left open, so none is fetched from.
LEMMA NoCursor ==
  ASSUME FlatInv, Flat, NEW q \in Queries
  PROVE  ~Suspend(q) /\ ~Resume(q)
<1>1. ~Suspend(q)
  BY DEF Flat, Suspend
<1>2. ~Resume(q)
  <2> SUFFICES ASSUME stage[q] = "suspended", Len(stack) < MaxDepth PROVE FALSE
    BY DEF Resume
  <2>1. stack = <<nq>>
    BY DEF FlatInv, OneFrame, Idle
  <2>2. QED
    BY <2>1 DEF Flat
<1>3. QED
  BY <1>1, <1>2

LEMMA FlatInit == ASSUME Init PROVE FlatInv
<1>1. \A a \in Structs : anchor[a].ptr # "live"
  BY DEF Init
<1>2. pilot.ptr # "live" /\ stack = <<>> /\ stack # <<nq>> /\ DOMAIN reports = {}
  BY DEF Init
<1>3. OneFrame
  BY DEF Init, OneFrame, Idle
<1>4. ParseEnds
  BY DEF Init, ParseEnds
<1>5. QED
  BY <1>1, <1>2, <1>3, <1>4
  DEF FlatInv, LiveIsCurrent, FlagsRight, ReportsComplete, Terminates

LEMMA FlatNext ==
  ASSUME Flat
  PROVE  TypeOK /\ FlatInv /\ [Next]_vars => FlatInv'
<1> SUFFICES ASSUME TypeOK, FlatInv, [Next]_vars PROVE FlatInv'
  OBVIOUS
<1>1. CASE UNCHANGED vars
  BY <1>1, SameKeeps, Zenon DEF vars, globals, queries, Same
<1>2. ASSUME NEW q \in Queries, Handler(q) \/ Environment(q) PROVE FlatInv'
  BY <1>2, BeginPlainFlat, BeginCommentedFlat, PlannerReturnsFlat, ExecutorFlat, ErrorFlat,
     LeaveFlat, UnwindFlat, PilotPlannerReturnsFlat, MeasureTimeFlat, EstimateFlat,
     EndAnchorFlat, NoCursor
  DEF Handler, Environment
<1>3. QED
  BY <1>1, <1>2 DEF Next

------------------------------------------------------------------------------
(* The theorems.                                                           *)

\* An answer names exactly the anchors the comment enabled and a hook
\* processes, has a time if and only if one was asked for, and carries the
\* estimates of its planner call, all of them and no other's.
THEOREM CompleteAnswers == ASSUME Flat PROVE Spec => []ReportComplete
<1>1. FlatInv => ReportComplete
  BY DEF FlatInv, ReportsComplete, Complete, ReportComplete, Hooked
<1>2. QED
  BY <1>1, FlatInit, FlatNext, TypeCorrect, PTL DEF Spec

\* A comment with an entry that no hook counts down gets no answer.
THEOREM StuckGetsNone == ASSUME Flat PROVE Spec => []StuckUnanswered
<1>1. FlatInv => StuckUnanswered
  BY DEF FlatInv, ReportsComplete, Complete, StuckUnanswered
<1>2. QED
  BY <1>1, FlatInit, FlatNext, TypeCorrect, PTL DEF Spec

\* A statement to be terminated that asks for nothing of its execution never
\* reaches the executor: the counter is down to where the test of the planner
\* hook holds when the planner returns.
THEOREM TerminatedInTime == ASSUME Flat PROVE Spec => []TerminatedBeforeExecution
<1>1. TypeOK /\ FlatInv => TerminatedBeforeExecution
  <2> SUFFICES ASSUME TypeOK, FlatInv, NEW q \in Queries, stage[q] = "running",
                      text[q] \in Requests, ~prev_planner_hook, ~tainted
               PROVE  ~MustTerminate(text[q])
    BY DEF TerminatedBeforeExecution, MustTerminate
  <2>1. q = nq /\ stack = <<nq>>
    BY DEF FlatInv, OneFrame, Idle
  <2>2. QED
    BY <2>1 DEF FlatInv, Terminates, Cur
<1>2. QED
  BY <1>1, FlatInit, FlatNext, TypeCorrect, PTL DEF Spec

=============================================================================
