---- MODULE WikiServer ----
(***************************************************************************)
(* The runtime process as a whole: the tool gate (ToolGate) serves         *)
(* wiki_search by a search in the wiki (WikiIndex).                        *)
(*                                                                         *)
(* The search runs commands and waits for them (spawnSync): until it ends  *)
(* no handler of the process goes on, but the process may be killed, the   *)
(* clock ticks, and other processes write the index. What the search comes *)
(* to decides which event the gate records for the call.                   *)
(***************************************************************************)
EXTENDS WikiIndex, SequencesExt

CONSTANTS Calls, Tools, Known, Seats, Policies, LeaseEnd, Chunk, MaxNow,
          MaxStarts, GateFaults, SearchTool

VARIABLES policy, up, seat, now, count, saved, handler, queue, recorded,
          uncounted, starts

Gate == INSTANCE ToolGate WITH Faults <- GateFaults

\* What the gate assumes of its parameters; wiki_search is a tool.
ASSUME WikiServerAssumption == Gate!GateAssumption /\ SearchTool \in Known

gateVars == <<policy, up, seat, now, count, saved, handler, queue, recorded,
              uncounted, starts>>
vars == <<gateVars, wikiVars>>

\* The process is inside a search.
Blocked == search # "idle"

----

Start == \E s \in Seats : Gate!Start(s) /\ Launch

Arrive ==
  /\ ~Blocked
  /\ \E c \in Calls, t \in Tools : Gate!Arrive(c, t)
  /\ UNCHANGED wikiVars

RecordEvent == ~Blocked /\ Gate!RecordEvent /\ UNCHANGED wikiVars

\* A metered call of the search tool: it is counted, and the search begins.
BeginSearch(c) ==
  /\ handler[c].tool = SearchTool
  /\ Gate!RunTool(c) /\ handler'[c].event = "tool_success"
  /\ Ask

Search == SearchStep /\ UNCHANGED gateVars

\* The event that was queued last is that of the call that searched; a search
\* that failed makes it a tool_error.
EndSearch ==
  /\ Return
  /\ handler' = [handler EXCEPT ![Last(queue)].event =
                   IF search = "error" THEN "tool_error" ELSE @]
  /\ UNCHANGED <<policy, up, seat, now, count, saved, queue, recorded,
                 uncounted, starts>>

RunOther(c) ==
  /\ ~Blocked
  /\ handler[c].tool # SearchTool
  /\ Gate!RunTool(c)
  /\ UNCHANGED wikiVars

Answer(c) == ~Blocked /\ Gate!Answer(c) /\ UNCHANGED wikiVars

\* The process exits, or is killed: also inside a search, whose command may go
\* on without it.
Exit ==
  /\ ~Blocked \/ "kill" \in GateFaults
  /\ Gate!Exit /\ Abandon

Environment ==
  \/ Gate!Tick /\ UNCHANGED wikiVars
  \/ Elsewhere /\ UNCHANGED gateVars

Init == Gate!Init /\ WikiInit

Next ==
  \/ Start \/ Arrive \/ RecordEvent \/ Search \/ EndSearch \/ Exit
  \/ Environment
  \/ \E c \in Calls : BeginSearch(c) \/ RunOther(c) \/ Answer(c)

Spec == Init /\ [][Next]_vars

\* Microtasks run until none is left, and the commands of a search end.
FairSpec ==
  /\ Spec
  /\ WF_vars(RecordEvent) /\ WF_vars(Search) /\ WF_vars(EndSearch)
  /\ \A c \in Calls : WF_vars(BeginSearch(c) \/ RunOther(c) \/ Answer(c))

----
(***************************************************************************)
(* Properties.                                                             *)
(***************************************************************************)

\* Every call that arrives is answered, unless the process dies: also when its
\* events cannot be recorded, the lease has ended, or the index cannot be made.
Answered ==
  \A c \in Calls :
    handler[c].stage = "waiting" ~> handler[c].stage \in {"answered", "lost"}

====
