----------------------------- MODULE MCWorkflow -----------------------------
(***************************************************************************)
(* Instances of Workflow for TLC: the definitions a run may be started     *)
(* from, each small and each aimed at one way nodes meet.                  *)
(***************************************************************************)
EXTENDS Workflow, TLC

Plain(order, kind, deps) ==
  [order |-> order, kind |-> kind, deps |-> deps,
   retries |-> [n \in DOMAIN kind |-> 0],
   onTrue |-> [n \in DOMAIN kind |-> {}],
   onFalse |-> [n \in DOMAIN kind |-> {}],
   stopOnDenial |-> {}, compensated |-> {}, partial |-> {}]

\* An agent works while a person is asked; a tool waits for the approval, a second
\* agent for both.
Gate ==
  Plain(<<"a", "h", "x", "y">>,
        [a |-> "agentic", h |-> "human_approval", x |-> "tool_action", y |-> "agentic"],
        [a |-> {}, h |-> {}, x |-> {"h"}, y |-> {"a", "h"}])

\* Two agents in a row, so that the end of one tick starts the next.
Chain ==
  Plain(<<"a", "b", "c">>,
        [a |-> "agentic", b |-> "agentic", c |-> "completion"],
        [a |-> {}, b |-> {"a"}, c |-> {"b"}])

\* A branch with a merge; the timer sits on one side.
Fork ==
  [Plain(<<"t", "q", "x", "w", "j">>,
         [t |-> "instant", q |-> "branch", x |-> "tool_action", w |-> "wait_timer",
          j |-> "completion"],
         [t |-> {}, q |-> {"t"}, x |-> {"q"}, w |-> {"q"}, j |-> {"x", "w"}])
   EXCEPT !.onTrue["q"] = {"x"}, !.onFalse["q"] = {"w"}]

\* A merge behind a branch with the approval on one side: taken the other way, the
\* node that waits for both starts without anybody's approval.
Detour ==
  [Plain(<<"q", "x", "h", "y">>,
         [q |-> "branch", x |-> "tool_action", h |-> "human_approval", y |-> "agentic"],
         [q |-> {}, x |-> {"q"}, h |-> {"q"}, y |-> {"x", "h"}])
   EXCEPT !.onTrue["q"] = {"x"}, !.onFalse["q"] = {"h"}]

\* A completion that does not wait for the review beside it, and is retried.
Early ==
  [Plain(<<"r", "c">>, [r |-> "human_review", c |-> "completion"],
         [r |-> {}, c |-> {}])
   EXCEPT !.retries["c"] = 1]

\* Two timers in one tick, the second retried, behind an approval that stops the
\* workflow when denied; and two that are not retried.
Timers ==
  [Plain(<<"h", "u", "w">>,
         [h |-> "human_approval", u |-> "wait_timer", w |-> "wait_timer"],
         [h |-> {}, u |-> {"h"}, w |-> {"h"}])
   EXCEPT !.stopOnDenial = {"h"}, !.retries["w"] = 1]
Collision ==
  Plain(<<"u", "w">>, [u |-> "wait_timer", w |-> "wait_timer"], [u |-> {}, w |-> {}])

\* A timer beside an approval that moves the run first.
Beside ==
  Plain(<<"h", "w">>, [h |-> "human_approval", w |-> "wait_timer"], [h |-> {}, w |-> {}])

\* A completion that ends the run before the approval beside it is retried; an agent
\* works while that approval is open, and a tool waits for it.
Overtaken ==
  [Plain(<<"c", "r", "a", "x">>,
         [c |-> "completion", r |-> "human_approval", a |-> "agentic",
          x |-> "tool_action"],
         [c |-> {}, r |-> {}, a |-> {"c"}, x |-> {"r"}])
   EXCEPT !.retries["r"] = 1]

\* A completion that ends the run in part while an agent works, and a tool comes after
\* the agent.
Partial ==
  [Plain(<<"c", "a", "x">>,
         [c |-> "completion", a |-> "agentic", x |-> "tool_action"],
         [c |-> {}, a |-> {}, x |-> {"a"}])
   EXCEPT !.partial = {"c"}]

\* An agent whose failure asks for a compensation, beside a compensation node.
Undo ==
  [Plain(<<"a", "k">>, [a |-> "agentic", k |-> "compensation"], [a |-> {}, k |-> {}])
   EXCEPT !.compensated = {"a"}, !.retries["k"] = 1]

\* A wait for an event.
Event == Plain(<<"e", "a">>, [e |-> "wait_event", a |-> "agentic"],
               [e |-> {}, a |-> {"e"}])

AllDefinitions == {Gate, Chain, Fork, Detour, Early, Timers, Collision, Beside,
                   Overtaken, Partial, Undo, Event}
EventOnly == {Event}
ChainOnly == {Chain}
=============================================================================
