------------------------------- MODULE Ladder -------------------------------
(***************************************************************************)
(* How one capability asked for by a run comes to run: the resolution      *)
(* ladder and the dispatch (orchestrator/ladder.py), the skills an agentic *)
(* loop is shown (orchestrator/middleware.py), and the worker that is      *)
(* compiled, or found in the compile cache (factory/worker.py).  Operators *)
(* edit the skill and the agents between any two steps, and during pauses. *)
(*                                                                         *)
(* One skill, a native sub agent that covers it, a custom one whose        *)
(* workflow uses it.  A version stands for a definition with its hash.     *)
(***************************************************************************)
EXTENDS Naturals

CONSTANTS
  MaxEdit,    \* bound: edits
  MaxPause,   \* bound: pauses of the run
  MaxDispatch \* bound: capabilities the run asks for

VARIABLES
  mode,      \* of the run: "graph" or "agentic"
  skill,     \* status, exposure, version
  agent,     \* "native", "custom" -> status, version
  fallback,  \* setting dynamic_worker_fallback_enabled
  full,      \* the run's full_catalog flag
  d,         \* the capability under way
  compiled,  \* _WORKER_CACHE: keys with the definitions the graph was built of
  asked, pauses, edits

lvars == <<mode, skill, agent, fallback, full, d, compiled, asked, pauses, edits>>

Agents == {"native", "custom"}
Nothing == [agent |-> 0, skill |-> 0, runs |-> TRUE]    \* no definition
Idle == [at |-> "idle", cap |-> "none", rung |-> "none", card |-> 0, snap |-> Nothing, pin |-> 0,
         ran |-> Nothing, replay |-> FALSE]

Init ==
  /\ mode \in {"graph", "agentic"}
  /\ skill = [active |-> TRUE, exposed |-> TRUE, ver |-> 1]
  /\ agent = [a \in Agents |-> [active |-> TRUE, ver |-> 1]]
  /\ fallback \in BOOLEAN /\ full = FALSE
  /\ d = Idle /\ compiled = {} /\ asked = 0 /\ pauses = 0 /\ edits = 0

\* An operator toggles, exposes, or edits a definition.
Edit ==
  /\ edits < MaxEdit /\ edits' = edits + 1
  /\ \/ /\ \/ skill' = [skill EXCEPT !.active = ~@]
           \/ skill' = [skill EXCEPT !.exposed = ~@]
           \/ skill' = [skill EXCEPT !.ver = @ + 1]
        /\ UNCHANGED agent
     \/ \E a \in Agents :
          /\ \/ agent' = [agent EXCEPT ![a].active = ~@]
             \/ agent' = [agent EXCEPT ![a].ver = @ + 1]
          /\ UNCHANGED skill
  /\ UNCHANGED <<mode, fallback, full, d, compiled, asked, pauses>>

\* What a skill's snapshot says of the node that runs it.
OfSkill == [agent |-> 0, skill |-> skill.ver, runs |-> skill.active]

Goes(at, rung, card, snap) == d' = [d EXCEPT !.at = at, !.rung = rung, !.card = card, !.snap = snap]
Refused == Goes("refused", "none", 0, Nothing)

\* Rung 4, for exposed skills only (_dynamic_resolution).
Dynamic ==
  IF fallback /\ skill.active /\ skill.exposed
    THEN Goes("start", "dynamic", 0, OfSkill) ELSE Refused

ToNative == Goes("start", "native", agent["native"].ver, Nothing)
ToCustom == Goes("snapshot", "custom", agent["custom"].ver, Nothing)

\* Rungs 1 to 4 of a skill.
ForSkill ==
  IF skill.exposed THEN Goes("start", "inline", 0, OfSkill)
  ELSE IF agent["native"].active THEN ToNative
  ELSE IF agent["custom"].active THEN ToCustom
  ELSE Dynamic

\* SkillsRegistryMiddleware: the skills a loop is shown, looked up again at the call.
Shown == skill.active /\ (skill.exposed \/ full)

\* resolve_capability: the registry is read, and for a custom agent read again.
Resolve ==
  /\ d.at = "resolve"
  /\ CASE d.cap = "skill"  -> IF skill.active THEN ForSkill ELSE Refused
       [] d.cap \in Agents ->
            IF ~agent[d.cap].active THEN Refused ELSE IF d.cap = "native" THEN ToNative ELSE ToCustom
       [] d.cap = "spin" -> Dynamic
       [] d.cap = "use"  -> IF Shown THEN Goes("start", "inline", 0, OfSkill) ELSE Refused
  /\ UNCHANGED <<mode, skill, agent, fallback, full, compiled, asked, pauses, edits>>

Snapshot ==
  /\ d.at = "snapshot"
  /\ d' = [d EXCEPT !.at = "start", !.snap = [OfSkill EXCEPT !.agent = agent["custom"].ver]]
  /\ UNCHANGED <<mode, skill, agent, fallback, full, compiled, asked, pauses, edits>>

\* A plan entry (graph), or a tool call of the loop (agentic).
Ask ==
  /\ d.at \in {"idle", "done", "refused"} /\ asked < MaxDispatch /\ asked' = asked + 1
  /\ \E cap \in (IF mode = "graph" THEN {"skill"} \cup Agents ELSE {"use", "spin"} \cup Agents) :
       d' = [Idle EXCEPT !.at = "resolve", !.cap = cap]
  /\ UNCHANGED <<mode, skill, agent, fallback, full, compiled, pauses, edits>>

\* use_full_catalog
Unlock ==
  /\ mode = "agentic" /\ ~full /\ d.at = "idle" /\ full' = TRUE
  /\ UNCHANGED <<mode, skill, agent, fallback, d, compiled, asked, pauses, edits>>

\* The dispatch step pins the definition that is to run; a replay adopts the step.
Pin == CASE d.rung = "custom" -> d.snap.agent
         [] d.rung = "native" -> d.card
         [] d.rung = "inline" -> d.snap.skill
         [] OTHER             -> 0

Start ==
  /\ d.at = "start"
  /\ d' = [d EXCEPT !.at = "compile", !.pin = IF d.replay THEN @ ELSE Pin]
  /\ UNCHANGED <<mode, skill, agent, fallback, full, compiled, asked, pauses, edits>>

\* Mutant of Key: the skills are left out.
KeyOfAgent(snap) == snap.agent

\* get_compiled_worker's key: the agent's version, and those of its skills with their status.
Key(snap) == snap

\* The graph is compiled once per key; native and ephemeral ones are built anew, a
\* native one from the code, whose version is the card's.
Run ==
  /\ d.at = "compile"
  /\ IF d.rung = "custom"
       THEN LET hits == {c \in compiled : c.key = Key(d.snap)}
                built == IF hits = {} THEN {[key |-> Key(d.snap), of |-> d.snap]} ELSE hits
            IN /\ compiled' = compiled \cup built
               /\ d' = [d EXCEPT !.at = "runs", !.ran = (CHOOSE c \in built : TRUE).of]
       ELSE /\ d' = [d EXCEPT !.at = "runs", !.ran = IF d.rung = "native" THEN [Nothing EXCEPT !.agent = d.card] ELSE d.snap]
            /\ UNCHANGED compiled
  /\ UNCHANGED <<mode, skill, agent, fallback, full, asked, pauses, edits>>

Finish ==
  /\ d.at = "runs" /\ d' = [d EXCEPT !.at = "done"]
  /\ UNCHANGED <<mode, skill, agent, fallback, full, compiled, asked, pauses, edits>>

\* A gate pauses the run; the resume replays a graph's dispatch from the resolution in
\* the run's state, a loop's from its tool call, in a fresh context.
PauseAndResume ==
  /\ d.at = "runs" /\ d.rung # "inline" /\ pauses < MaxPause /\ pauses' = pauses + 1
  /\ d' = [d EXCEPT !.at = IF mode = "graph" THEN "start" ELSE "resolve", !.replay = TRUE]
  /\ full' = FALSE
  /\ UNCHANGED <<mode, skill, agent, fallback, compiled, asked, edits>>

Next ==
  Edit \/ Ask \/ Unlock \/ Resolve \/ Snapshot \/ Start \/ Run \/ Finish \/ PauseAndResume

Spec == Init /\ [][Next]_lvars

-----------------------------------------------------------------------------
Ran == IF d.rung = "inline" THEN d.ran.skill ELSE d.ran.agent

\* What a dispatch runs is what its snapshot says and what its step pins, whatever was
\* edited since it was resolved, compiled or paused; only the replay of an agentic loop
\* runs the agent as it is now, on the step of what it was.
RunsItsPin ==
  d.at = "runs" =>
    /\ d.rung # "native" => d.ran = d.snap
    /\ (d.replay /\ mode = "agentic") \/ d.rung = "dynamic" \/ Ran = d.pin
=============================================================================
