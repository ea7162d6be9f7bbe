----------------------------- MODULE MCBatches ------------------------------
(***************************************************************************)
(* Two small instances that share no state, so that a behaviour follows    *)
(* one of them ("part") while the other rests: one job over books of up to *)
(* three orders with two matcher processes, and the server's records of    *)
(* one market beside the chain.                                            *)
(***************************************************************************)
EXTENDS MCPipeline, MatcherJobs

CONSTANTS j1, p1, p2

MCBatchOf == [j \in {j1} |-> "batch"]

\* Limits, sizes and margins around the places where rounding, priority and
\* the margin limits decide; the last book reuses a note.
SideOrders(n, sides, sizes, margins) ==
  {Order(s, l, z, m, n) : s \in sides, l \in {4, 6}, z \in sizes, m \in margins}

MCBooks ==
  {<<a, b, c>> : a \in SideOrders(1, {"long", "short"}, {1, 3}, {3, 10}),
                 b \in SideOrders(2, {"short"}, {3}, {10}),
                 c \in {Order("long", 6, 2, 7, 3), Order("short", 4, 2, 7, 3)}}
    \cup {<<Order("long", 6, 1, 5, 1), Order("short", 4, 1, 5, 1)>>}

VARIABLE part

partVars == <<part, vars, jobVars>>

PartsInit ==
  /\ part \in {"pipeline", "jobs"}
  /\ PipelineInit
  /\ IF part = "jobs" THEN JobsInit
     ELSE JobsStart([j \in Jobs |-> CHOOSE b \in Books : TRUE], Processes)

PartsNext ==
  \/ part = "pipeline" /\ PipelineNext /\ UNCHANGED <<part, jobVars>>
  \/ part = "jobs" /\ JobsNext /\ UNCHANGED <<part, vars>>

\* Of the system that rests no fair action is enabled, so each fairness is that
\* of the part that has it.
PartsSpec == PartsInit /\ [][PartsNext]_partVars /\ PipelineFairness /\ JobsFairness

-----------------------------------------------------------------------------
\* The transcript a client gets trades as much as any one price could,
\* in priority, within every limit, and loses no margin.
MatchIsFair ==
  \A j \in Jobs :
    client[j] = "answered" =>
      LET orders == book[j].orders
          match  == book[j].match
      IN  /\ Volume(match) = BestVolume(orders)
          /\ InPriority(orders, match)
          /\ WithinLimits(orders, match)
          /\ MarginIsConserved(orders, match)

\* A posted job is answered, one way or the other: no crash, restart or lost
\* claim leaves the executor polling for ever, which would stop all markets.
PollsEnd == \A j \in Jobs : client[j] = "polling" ~> client[j] # "polling"
=============================================================================
