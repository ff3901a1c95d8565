---------------------------- MODULE AnchorSession ----------------------------
(***************************************************************************)
(* One PostgreSQL backend with the PilotScope extension loaded: the        *)
(* planner, ExecutorStart and ExecutorEnd hooks of pilotscope.c, the       *)
(* comment parser of parse_json.c, the anchor globals of anchor2struct.c   *)
(* and the recording of sub-query estimates of optimizer/path/costsize.c.  *)
(*                                                                         *)
(* A backend is one thread, but its hooks are re-entrant: a function in a  *)
(* query plans and runs queries of its own while the outer one is being    *)
(* planned or executed, a cursor leaves a query started and not ended, and *)
(* an error unwinds any number of frames.  All of them share the C globals *)
(* below, which point into memory that goes away with the statement that   *)
(* parsed the comment.  A "query" is one call of the planner hook and the  *)
(* execution of its plan.                                                  *)
(***************************************************************************)
EXTENDS Integers, Sequences, FiniteSets, Functions

CONSTANTS
  Requests,       \* the well-formed /*pilotscope ... pilotscope*/ comments
  NestedRequests, \* those a query issued from inside another may carry
  NoComment,      \* the text of a statement without the comment
  Malformed,      \* a comment without "enableTerminate" or "anchor"
  MaxQueries,     \* bound on the planner calls of a session
  MaxLoad,        \* bound on those calls and the comments they parse, together
  MaxDepth,       \* bound on the nesting of queries
  MaxSubqueries,  \* bound on the estimates one planner call makes
  Portals,        \* may a started query be left open (a cursor)?
  PlanCache       \* may a query run a plan made earlier?

Structs == {"SUBQUERY_CARD_FETCH_ANCHOR", "CARD_REPLACE_ANCHOR",
            "EXECUTION_TIME_FETCH_ANCHOR", "RECORD_FETCH_ANCHOR"}
Ignored == {"PHYSICAL_PLAN_FETCH_ANCHOR", "CostAnchorHandler", "HintAnchorHandler"}
Kinds   == Structs \cup Ignored \cup {"UNKNOWN_ANCHOR"}

Card   == "CARD_REPLACE_ANCHOR"
Subq   == "SUBQUERY_CARD_FETCH_ANCHOR"
Exec   == "EXECUTION_TIME_FETCH_ANCHOR"
Record == "RECORD_FETCH_ANCHOR"

Entry   == [kind : Kinds, enable : BOOLEAN]
Request == [anchors : Seq(Entry), send : BOOLEAN, terminate : BOOLEAN]

ASSUME RequestsAssumption ==
  /\ Requests \subseteq Request
  /\ NestedRequests \subseteq Requests
ASSUME TextsAssumption ==
  /\ NoComment \notin Requests \cup {Malformed}
  /\ Malformed \notin Requests
ASSUME BoundsAssumption ==
  /\ MaxQueries \in Nat /\ MaxLoad \in Nat /\ MaxDepth \in Nat /\ MaxSubqueries \in Nat
  /\ Portals \in BOOLEAN /\ PlanCache \in BOOLEAN

Queries == 1..MaxQueries
Texts   == Requests \cup {NoComment, Malformed}

VARIABLES
  prev_planner_hook, \* was another planner hook installed before this one?
  anchor,            \* the four anchor pointers and the structs behind them
  pilot,             \* pilot_transdata and the struct behind it
  anchor_num, anchor_time_num, subquery_count, enableSend, enableTerminate,
  nq,                \* planner calls and cached executions so far
  text,              \* the statement text of each query
  stage,             \* how far each query is
  timer,             \* has its QueryDesc a totaltime?
  estimates,         \* how many sub-query estimates its planner call has made
  stack,             \* the queries being planned or executed, innermost last
  reports,           \* what was sent to the Python side
  tainted,           \* ghost: freed memory has been read or written
  crashed            \* the backend process is gone

globals == <<anchor, pilot, anchor_num, anchor_time_num, subquery_count,
             enableSend, enableTerminate>>
queries == <<nq, text, stage, timer, estimates, stack>>
vars == <<prev_planner_hook, globals, queries, reports, tainted, crashed>>

Ptr == {"null", "live", "stale"}

\* The stage a call of end_anchor goes on to when nothing is terminated:
\* parse_json, the planner hook and the ExecutorEnd hook all call it.
AfterEnd == [ending_parse |-> "planning", ending_plan |-> "planned",
             ending_exec  |-> "closing"]
Stages == {"unused", "planning", "planned", "running", "suspended", "closing",
           "raising", "done", "discarded", "aborted"} \cup DOMAIN AfterEnd

------------------------------------------------------------------------------
(* What a comment asks for.                                                *)

\* The entries for_each_anchor gets to: an unknown name raises an error.
Parsed(r) == {i \in DOMAIN r.anchors :
                \A j \in 1..i : r.anchors[j].kind # "UNKNOWN_ANCHOR"}
HasUnknown(r) == Parsed(r) # DOMAIN r.anchors
InJson(r, a)  == \E i \in Parsed(r) : r.anchors[i].kind = a
\* Of several entries with one name the last wins: the struct is replaced.
Wanted(r, a)  == \E i \in Parsed(r) :
                   /\ r.anchors[i].kind = a /\ r.anchors[i].enable
                   /\ \A j \in Parsed(r) : r.anchors[j].kind = a => j <= i
\* The entries anchor_num counts and no hook ever counts down.
Stuck(r) == Cardinality(Parsed(r)) - Cardinality({a \in Structs : Wanted(r, a)})

------------------------------------------------------------------------------
(* Reading and freeing the memory behind the globals.                      *)

\* The outcomes of the test "a != NULL && a->enable == 1".
Reads(a) == CASE anchor[a].ptr = "null"  -> {FALSE}
              [] anchor[a].ptr = "live"  -> {anchor[a].enable}
              [] anchor[a].ptr = "stale" -> BOOLEAN
IsStale(a) == anchor[a].ptr = "stale"

\* A write or a free through a dangling pointer ends the process or goes
\* unnoticed; what is done to the bytes of others is not modelled.
Dangling(b) == /\ tainted' = (tainted \/ b)
               /\ crashed' \in (IF b THEN BOOLEAN ELSE {FALSE})

\* The memory a statement parsed its comment into ends with the statement.
Expired(x, S) == IF x.ptr = "live" /\ x.home \in S THEN [x EXCEPT !.ptr = "stale"] ELSE x
Expire(S) == /\ anchor' = [a \in Structs |-> Expired(anchor[a], S)]
             /\ pilot' = Expired(pilot, S)

IsTop(q) == stack # <<>> /\ stack[Len(stack)] = q
Outer == SubSeq(stack, 1, Len(stack) - 1)
\* May a function called by the innermost query run a query of its own?
CanNest(stages) == \A q \in Queries : IsTop(q) => stage[q] \in stages

------------------------------------------------------------------------------
(* The planner hook: parse_json, then one of the three planners.           *)

Commented == {p \in 1..nq : text[p] # NoComment}

\* Ghost: the comment of query q is the last that was parsed, and no other
\* commented query is being planned or executed.
Apart(q) == \A p \in Commented : p = q \/ (p < q /\ p \notin Range(stack))

BeginQuery(q, t) ==
  /\ q = nq + 1 /\ q <= MaxQueries
  /\ q + Cardinality(Commented) + (IF t = NoComment THEN 0 ELSE 1) <= MaxLoad
  /\ Len(stack) < MaxDepth /\ CanNest({"planning", "running"})
  /\ nq' = q
  /\ stack' = Append(stack, q)
  /\ text' = [text EXCEPT ![q] = t]

MayComment(r) == stack # <<>> => r \in NestedRequests

\* No comment: enablePilotscope = 0 and the globals keep what they hold.
PlanPlain(q) ==
  /\ BeginQuery(q, NoComment)
  /\ stage' = [stage EXCEPT ![q] = "planning"]
  /\ UNCHANGED <<prev_planner_hook, globals, timer, estimates, reports, tainted, crashed>>

NewPilot(q) == [ptr |-> "live", home |-> q, exec |-> 0, names |-> <<>>, subquery |-> <<>>]

\* Variant: the sub-query counter is not reset.
init_some_vars_KeepsCount(q) ==
  pilot' = NewPilot(q) /\ anchor_time_num' = 0 /\ UNCHANGED subquery_count

\* A new pilot_transdata; the four anchor pointers are not reset.
init_some_vars(q) ==
  pilot' = NewPilot(q) /\ anchor_time_num' = 0 /\ subquery_count' = 0

\* "send": the comment has a port and a url.
parse_relative_infomation(r) ==
  enableSend' = r.send /\ enableTerminate' = r.terminate

\* Variant: an entry that is disabled or no hook's is not counted.
for_each_anchor_CountsWanted(q, r) ==
  /\ anchor' = [a \in Structs |-> IF InJson(r, a)
                                  THEN [ptr |-> "live", home |-> q, enable |-> Wanted(r, a)]
                                  ELSE anchor[a]]
  /\ anchor_num' = Cardinality({a \in Structs : Wanted(r, a)})

for_each_anchor(q, r) ==
  /\ anchor' = [a \in Structs |-> IF InJson(r, a)
                                  THEN [ptr |-> "live", home |-> q, enable |-> Wanted(r, a)]
                                  ELSE anchor[a]]
  /\ anchor_num' = Cardinality(Parsed(r))

\* parse_json finds a comment; without anchors it ends them at once.
PlanCommented(q, r) ==
  /\ MayComment(r)
  /\ BeginQuery(q, r)
  /\ init_some_vars(q)
  /\ parse_relative_infomation(r)
  /\ for_each_anchor(q, r)
  /\ stage' = [stage EXCEPT ![q] = IF HasUnknown(r) THEN "raising"
                                   ELSE IF Parsed(r) = {} THEN "ending_parse"
                                   ELSE "planning"]
  /\ UNCHANGED <<prev_planner_hook, timer, estimates, reports, tainted, crashed>>

\* enableTerminate_item or anchor_item is NULL and dereferenced.
PlanMalformed(q) ==
  /\ stack = <<>>
  /\ BeginQuery(q, Malformed)
  /\ crashed' = TRUE
  /\ UNCHANGED <<prev_planner_hook, globals, stage, timer, estimates, reports, tainted>>

UsesPilotPlanner(q) == ~prev_planner_hook /\ text[q] \in Requests

\* set_baserel_size_estimates or calc_joinrel_size_estimate: while the
\* sub-query anchor is enabled the estimate is stored in pilot_transdata.
Estimate(q) ==
  /\ IsTop(q) /\ stage[q] = "planning" /\ UsesPilotPlanner(q)
  /\ estimates[q] < MaxSubqueries
  /\ estimates' = [estimates EXCEPT ![q] = @ + 1]
  /\ \E on \in Reads(Subq) :
       /\ Dangling(IsStale(Subq) \/ (on /\ pilot.ptr = "stale"))
       /\ IF on THEN /\ pilot' = [pilot EXCEPT !.subquery = Append(@, q)]
                     /\ subquery_count' = subquery_count + 1
                ELSE UNCHANGED <<pilot, subquery_count>>
  /\ UNCHANGED <<prev_planner_hook, anchor, anchor_num, anchor_time_num, enableSend,
                 enableTerminate, nq, text, stage, timer, stack, reports>>

------------------------------------------------------------------------------
(* Counting anchors down and ending them.                                  *)

AppendIf(s, b, x) == IF b THEN Append(s, x) ELSE s
WithNames(s, on) == AppendIf(AppendIf(AppendIf(s, Card \in on, Card),
                                      Subq \in on, Subq), Exec \in on, Exec)

ClearFlags(on) ==
  anchor' = [a \in Structs |-> IF a \in on /\ anchor[a].ptr = "live"
                               THEN [anchor[a] EXCEPT !.enable = FALSE]
                               ELSE anchor[a]]

\* Variant: the flag of a processed anchor is not cleared.
Process_KeepsFlags(on) ==
  /\ UNCHANGED anchor
  /\ anchor_num' = anchor_num - Cardinality(on)
  /\ anchor_time_num' = anchor_time_num + Cardinality(on)

\* Variant: the counter of recorded times is moved the wrong way.
Process_TimesDown(on) ==
  /\ ClearFlags(on)
  /\ anchor_num' = anchor_num - Cardinality(on)
  /\ anchor_time_num' = anchor_time_num - Cardinality(on)

\* change_flag_for_anchor and add_anchor_time for the anchors "on", in order.
Process(on) ==
  /\ ClearFlags(on)
  /\ anchor_num' = anchor_num - Cardinality(on)
  /\ anchor_time_num' = anchor_time_num + Cardinality(on)

\* Variant: whatever the one anchor left is, it is taken for the record anchor.
Ends_OneLeft(n, record) == n \in {0, 1}

\* Variant: the record anchor is waited for.
Ends_NoneLeft(n, record) == n = 0

\* All done, or only the record anchor left, which no hook processes.
Ends(n, record) == n = 0 \/ (n = 1 /\ record)

\* pilotscope_standard_planner or standard_planner returns a plan.
PlannerReturns(q) ==
  /\ IsTop(q) /\ stage[q] = "planning"
  /\ ~UsesPilotPlanner(q) \/ anchor_num = 0
  /\ stage' = [stage EXCEPT ![q] = "planned"]
  /\ UNCHANGED <<prev_planner_hook, globals, nq, text, timer, estimates, stack,
                 reports, tainted, crashed>>

PilotPlannerReturns(q) ==
  /\ IsTop(q) /\ stage[q] = "planning" /\ UsesPilotPlanner(q) /\ anchor_num # 0
  /\ \E on \in SUBSET {Card, Subq}, record \in Reads(Record) :
       /\ \A a \in {Card, Subq} : (a \in on) \in Reads(a)
       /\ Process(on)
       /\ pilot' = [pilot EXCEPT !.names = WithNames(@, on)]
       /\ stage' = [stage EXCEPT ![q] = IF Ends(anchor_num', record) THEN "ending_plan"
                                                                     ELSE "planned"]
       /\ Dangling(\/ IsStale(Card) \/ IsStale(Subq)
                   \/ on # {} /\ pilot.ptr = "stale"
                   \/ anchor_num' = 1 /\ IsStale(Record))
  /\ UNCHANGED <<prev_planner_hook, subquery_count, enableSend, enableTerminate,
                 nq, text, timer, estimates, stack, reports>>

\* free_all_struct: the pointers keep their values.
free_all_struct ==
  /\ anchor' = [a \in Structs |-> IF anchor[a].ptr = "live"
                                  THEN [anchor[a] EXCEPT !.ptr = "stale"] ELSE anchor[a]]
  /\ pilot' = [pilot EXCEPT !.ptr = "stale"]

Report(q) == [tid |-> pilot.home, by |-> q, exec |-> pilot.exec,
              names |-> pilot.names, names_num |-> anchor_time_num,
              subquery |-> pilot.subquery, subquery_num |-> subquery_count,
              clean |-> ~tainted /\ pilot.ptr = "live", apart |-> Apart(pilot.home)]

\* Variant: only a statement that is answered is terminated.
StageAfterEnd_IfSent(q) == IF enableTerminate /\ enableSend THEN "raising"
                                                           ELSE AfterEnd[stage[q]]
StageAfterEnd(q) == IF enableTerminate THEN "raising" ELSE AfterEnd[stage[q]]

\* end_anchor: send and free if there is an address to send to, then raise
\* an error if the statement is to be terminated.
EndAnchor(q) ==
  /\ IsTop(q) /\ stage[q] \in DOMAIN AfterEnd
  /\ Dangling(pilot.ptr = "stale" \/ (enableSend /\ \E a \in Structs : IsStale(a)))
  /\ IF enableSend
     THEN /\ reports' = Append(reports, Report(q))
          /\ free_all_struct
     ELSE UNCHANGED <<reports, anchor, pilot>>
  /\ stage' = [stage EXCEPT ![q] = StageAfterEnd(q)]
  /\ UNCHANGED <<prev_planner_hook, anchor_num, anchor_time_num, subquery_count, enableSend,
                 enableTerminate, nq, text, timer, estimates, stack>>

------------------------------------------------------------------------------
(* The executor hooks.                                                     *)

SetsTimer(q, on) == on

ExecutorStart(q) ==
  /\ IsTop(q) /\ stage[q] = "planned"
  /\ stage' = [stage EXCEPT ![q] = "running"]
  /\ \E on \in Reads(Exec) : timer' = [timer EXCEPT ![q] = SetsTimer(q, on)]
  /\ tainted' = (tainted \/ IsStale(Exec))
  /\ UNCHANGED <<prev_planner_hook, globals, nq, text, estimates, stack, reports, crashed>>

\* ExecutorEnd finds the anchor enabled: InstrEndLoop on a NULL totaltime
\* ends the process; otherwise the time is stored and the anchors are judged.
MeasureTime(q) ==
  /\ IsTop(q) /\ stage[q] = "running"
  /\ TRUE \in Reads(Exec)
  /\ IF timer[q]
     THEN \E record \in Reads(Record) :
            /\ Process({Exec})
            /\ pilot' = [pilot EXCEPT !.exec = q, !.names = Append(@, Exec)]
            /\ stage' = [stage EXCEPT ![q] = IF Ends(anchor_num', record) THEN "ending_exec"
                                                                          ELSE "closing"]
            /\ Dangling(IsStale(Exec) \/ pilot.ptr = "stale"
                          \/ (anchor_num' = 1 /\ IsStale(Record)))
     ELSE /\ crashed' = TRUE /\ tainted' = (tainted \/ IsStale(Exec))
          /\ UNCHANGED <<anchor, pilot, anchor_num, anchor_time_num, stage>>
  /\ UNCHANGED <<prev_planner_hook, subquery_count, enableSend, enableTerminate,
                 nq, text, timer, estimates, stack, reports>>

\* ExecutorEnd finds it not enabled.
SkipMeasure(q) ==
  /\ IsTop(q) /\ stage[q] = "running"
  /\ FALSE \in Reads(Exec)
  /\ stage' = [stage EXCEPT ![q] = "closing"]
  /\ tainted' = (tainted \/ IsStale(Exec))
  /\ UNCHANGED <<prev_planner_hook, globals, nq, text, timer, estimates, stack,
                 reports, crashed>>

\* The query leaves the stack in stage s, and its memory goes.
Leave(q, s) ==
  /\ stage' = [stage EXCEPT ![q] = s]
  /\ stack' = Outer
  /\ Expire({q})
  /\ UNCHANGED <<prev_planner_hook, anchor_num, anchor_time_num, subquery_count, enableSend,
                 enableTerminate, nq, text, timer, estimates, reports, tainted, crashed>>

\* standard_ExecutorEnd.
Close(q) == IsTop(q) /\ stage[q] = "closing" /\ Leave(q, "done")

\* A plan that is not run now: EXPLAIN, or a plan kept for later.
DiscardPlan(q) == IsTop(q) /\ stage[q] = "planned" /\ Leave(q, "discarded")

\* A cursor stays open when its statement is over, and is fetched from or
\* closed later.
Suspend(q) == Portals /\ IsTop(q) /\ stage[q] = "running" /\ Leave(q, "suspended")

Resume(q) ==
  /\ stage[q] = "suspended" /\ Len(stack) < MaxDepth /\ CanNest({"running"})
  /\ stage' = [stage EXCEPT ![q] = "running"]
  /\ stack' = Append(stack, q)
  /\ UNCHANGED <<prev_planner_hook, globals, nq, text, timer, estimates, reports,
                 tainted, crashed>>

\* A plan made earlier is run: no planner hook, the executor hooks only.
ExecuteCachedPlan(q) ==
  /\ PlanCache
  /\ BeginQuery(q, NoComment)
  /\ stage' = [stage EXCEPT ![q] = "planned"]
  /\ UNCHANGED <<prev_planner_hook, globals, timer, estimates, reports, tainted, crashed>>

------------------------------------------------------------------------------
(* Errors.                                                                 *)

StatementError(q) ==
  /\ IsTop(q) /\ stage[q] \in {"planning", "running"}
  /\ stage' = [stage EXCEPT ![q] = "raising"]
  /\ UNCHANGED <<prev_planner_hook, globals, nq, text, timer, estimates, stack,
                 reports, tainted, crashed>>

\* The error of the innermost query is caught by a function that frame k of
\* the stack is running, or, for k = 0, ends the statement and with it the
\* transaction and its cursors.  No ExecutorEnd runs for the frames lost.
Unwind(q, k) ==
  /\ IsTop(q) /\ stage[q] = "raising"
  /\ k < Len(stack)
  /\ LET lost == {stack[i] : i \in (k + 1)..Len(stack)}
     IN /\ stage' = [p \in Queries |->
                       IF p \in lost \/ (k = 0 /\ stage[p] = "suspended")
                       THEN "aborted" ELSE stage[p]]
        /\ Expire(lost)
  /\ stack' = SubSeq(stack, 1, k)
  /\ UNCHANGED <<prev_planner_hook, anchor_num, anchor_time_num, subquery_count, enableSend,
                 enableTerminate, nq, text, timer, estimates, reports, tainted, crashed>>

------------------------------------------------------------------------------
Init ==
  /\ prev_planner_hook \in BOOLEAN
  /\ anchor = [a \in Structs |-> [ptr |-> "null", home |-> 0, enable |-> FALSE]]
  /\ pilot = [ptr |-> "null", home |-> 0, exec |-> 0, names |-> <<>>, subquery |-> <<>>]
  /\ anchor_num = 0 /\ anchor_time_num = 0 /\ subquery_count = 0
  /\ enableSend = FALSE /\ enableTerminate = FALSE
  /\ nq = 0
  /\ text = [q \in Queries |-> NoComment]
  /\ stage = [q \in Queries |-> "unused"]
  /\ timer = [q \in Queries |-> FALSE]
  /\ estimates = [q \in Queries |-> 0]
  /\ stack = <<>>
  /\ reports = <<>>
  /\ tainted = FALSE /\ crashed = FALSE

\* The steps of the hooks and of the server around them that always come.
Handler(q) ==
  \/ PlannerReturns(q) \/ PilotPlannerReturns(q) \/ EndAnchor(q)
  \/ ExecutorStart(q) \/ MeasureTime(q) \/ SkipMeasure(q) \/ Close(q)
  \/ \E k \in 0..MaxDepth : Unwind(q, k)

\* What clients, functions and the planner may do next.
Environment(q) ==
  \/ PlanPlain(q) \/ \E r \in Requests : PlanCommented(q, r)
  \/ PlanMalformed(q) \/ ExecuteCachedPlan(q)
  \/ Estimate(q) \/ DiscardPlan(q) \/ Suspend(q) \/ Resume(q) \/ StatementError(q)

Next == ~crashed /\ \E q \in Queries : Handler(q) \/ Environment(q)

Spec == Init /\ [][Next]_vars
\* A backend keeps working on the statement it has, and a function in it does
\* not open and leave cursors for ever.
FairSpec == Spec /\ WF_vars(~crashed /\ \E q \in Queries : Handler(q))

------------------------------------------------------------------------------
(* Properties.                                                             *)

Home == 0..MaxQueries
ReportType == [tid : Home, by : Queries, exec : Home, names : Seq(Structs), names_num : Nat,
               subquery : Seq(Queries), subquery_num : Nat, clean : BOOLEAN,
               apart : BOOLEAN]

\* The type invariant: what the globals, the statements and the reports hold.
TypeOK ==
  /\ prev_planner_hook \in BOOLEAN
  /\ anchor \in [Structs -> [ptr : Ptr, home : Home, enable : BOOLEAN]]
  /\ pilot \in [ptr : Ptr, home : Home, exec : Home,
                names : Seq(Structs), subquery : Seq(Queries)]
  /\ anchor_num \in Int /\ anchor_time_num \in Nat /\ subquery_count \in Nat
  /\ enableSend \in BOOLEAN /\ enableTerminate \in BOOLEAN
  /\ nq \in Home
  /\ text \in [Queries -> Texts]
  /\ stage \in [Queries -> Stages]
  /\ timer \in [Queries -> BOOLEAN]
  /\ estimates \in [Queries -> Nat]
  /\ stack \in Seq(Queries)
  /\ reports \in Seq(ReportType)
  /\ tainted \in BOOLEAN /\ crashed \in BOOLEAN

\* The counts of the message are the numbers of strings stored in its
\* arrays: cJSON_AddStringArrayToObject reads no slot nobody has written.
CountsFit == pilot.ptr = "live" => /\ anchor_time_num = Len(pilot.names)
                                   /\ subquery_count = Len(pilot.subquery)
ReportArraysFit ==
  \A i \in DOMAIN reports :
    reports[i].clean => /\ reports[i].names_num = Len(reports[i].names)
                        /\ reports[i].subquery_num = Len(reports[i].subquery)

\* An answer is complete, whatever other queries ran inside the statement
\* that asked: it names every anchor the comment enabled and a hook processes,
\* carries an execution time if and only if one was asked for, and every
\* estimate of the planner call, no other's.  Of two comments, one inside the
\* statement of the other, neither need be answered so: they share the flags
\* and the counter.
ReportComplete ==
  \A i \in DOMAIN reports :
    LET m == reports[i]
        r == text[m.tid]
    IN m.clean /\ m.apart =>
         /\ {m.names[j] : j \in DOMAIN m.names} = {a \in {Card, Subq, Exec} : Wanted(r, a)}
         /\ (m.exec # 0) = Wanted(r, Exec)
         /\ m.subquery = [j \in 1..(IF Wanted(r, Subq) THEN estimates[m.tid] ELSE 0) |-> m.tid]

\* A comment with an entry that is disabled, repeated or of a kind no hook
\* processes gets no answer, and what its other anchors fetched is lost:
\* anchor_num counts the entry and nothing counts it down.
StuckUnanswered ==
  \A i \in DOMAIN reports :
    reports[i].clean /\ reports[i].apart => Stuck(text[reports[i].tid]) = 0

\* The execution time stored for a comment is that of the first query to end
\* since it was parsed: the commented statement's own, or that of a query a
\* function ran inside it, or of a cursor, which then hides the statement's.
TimeIsOfFirstEnd ==
  [][\A q \in Queries :
       pilot.exec # q /\ pilot'.exec = q /\ ~tainted' /\ Apart(pilot.home) =>
         pilot.exec = 0 /\ \A p \in Queries : p >= pilot.home => stage[p] # "done"]_vars

\* A statement that asks to be terminated, and for nothing that needs an
\* execution, is not executed, whatever queries run while it is planned.
TerminatedBeforeExecution ==
  \A q \in Queries :
    stage[q] = "running" /\ text[q] \in Requests /\ Apart(q) /\ ~prev_planner_hook /\ ~tainted =>
      ~text[q].terminate \/ Wanted(text[q], Exec) \/ Stuck(text[q]) # 0

\* A comment with an address to answer to, whose anchors are all of a kind
\* the hooks process, is answered, whatever queries run inside the statement,
\* unless the statement fails, is not run to its end or shares the globals
\* with another comment, or the session is beyond saying.
Answerable(q) == /\ text[q] \in Requests /\ text[q].send /\ ~HasUnknown(text[q])
                 /\ Stuck(text[q]) = 0 /\ ~prev_planner_hook
Answered(q) == \E i \in DOMAIN reports : reports[i].tid = q
Excused(q)  == \/ stage[q] \in {"raising", "aborted", "discarded", "suspended"}
               \/ q \in Range(stack) /\ ~Apart(q)
               \/ crashed \/ tainted
RequestAnswered ==
  \A q \in Queries : (stage[q] = "planning" /\ Answerable(q)) ~> (Answered(q) \/ Excused(q))

=============================================================================
