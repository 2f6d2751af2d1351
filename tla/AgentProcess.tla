---------------------------- MODULE AgentProcess ----------------------------
(***************************************************************************)
(* One invocation of an agent: the provider process, a helper it may leave *)
(* behind, the pipes to them, and the monitor that feeds the prompt, logs  *)
(* the output, enforces the two limits and reports how the invocation      *)
(* ended.  Time is counted in ticks since the last event that matters; a   *)
(* monitor that could go on does so within Lag ticks.                      *)
(***************************************************************************)
EXTENDS Naturals, FiniteSets

CONSTANTS
    Inactivity,    \* limits on silence a configuration may set
    Maximum,       \* limits on the duration it may set
    Interval,      \* longest wait of the monitor
    Grace,         \* ticks between the request to end and the kill
    Drain,         \* ticks spent on output that is left after the end
    Lag,           \* bound: ticks by which the monitor may be late
    Programs,      \* kinds of provider, each with the length of its prompt
    MaxInterrupts, \* bound: interrupts of DevLab during the invocation
    None           \* no limit, no outcome, nothing in a pipe

VARIABLES
    limits,        \* configured limits, each a number of ticks or None
    provider,      \* what kind of program the provider is, and what it is doing
    helper,        \* a descendant: in the provider's process group, outside, or none
    writers,       \* those of the two that hold the output pipe
    pipe,          \* whose output is unread in the output pipe
    prompt,        \* the input: still to be written, in the pipe, and its two ends
    pc,            \* what the monitor does next
    open,          \* the monitor still reads the output pipe
    reaped,        \* the exit of the provider has been collected
    polled,        \* what the last poll returned
    timer,         \* ticks until the present wait is over
    stall,         \* ticks for which the monitor could have gone on
    silence,       \* ticks since output was last read
    elapsed,       \* ticks since the start
    cause,         \* why the monitor ends the provider
    handling,      \* it does so in its exception handler
    outcome,       \* the failure kind reported, None before the end
    interrupts,    \* interrupts so far
    quiet,         \* history: ticks since output was last written
    gone,          \* history: ticks since the provider exited
    ending         \* history: ticks since the monitor turned to the end

group == <<provider, helper, writers>>
channels == <<pipe, prompt, open>>
counters == <<silence, elapsed, quiet, gone>>
clocks == <<timer, stall, counters, ending>>
monitor == <<pc, reaped, polled, cause, handling, outcome, interrupts>>
vars == <<limits, group, channels, clocks, monitor>>

\* The limits an agent may be configured with.
Limits == [inactivity : Inactivity, maximum : Maximum]

Prompts == [left : Nat, inside : 0..1, open : BOOLEAN, read : BOOLEAN]

Running == {"reading", "owing"}
Exited == {"succeeded", "failed"}
TimeoutKinds == {"inactivity", "max_duration"}
Outcomes == {"none", "nonzero_exit", "timeout", "missing_executable", "provider_error",
             "interrupted"}

ASSUME AgentProcessAssumption ==
    /\ (Inactivity \cup Maximum) \ {None} \subseteq Nat \ {0}
    /\ {Interval, Grace, Drain, Lag} \subseteq Nat \ {0}
    /\ MaxInterrupts \in Nat
    /\ Programs \subseteq [kind : {"filter", "free"}, prompt : Nat]
    /\ None \notin Nat \cup {"leader", "helper", "killed", "log", "interrupt"}
    /\ None \notin Exited \cup TimeoutKinds \cup Outcomes

TypeOK ==
    /\ limits \in Limits
    /\ provider \in [kind : {"filter", "free"}, state : Running \cup Exited \cup {"killed"}]
    /\ helper \in {"none", "member", "outside"}
    /\ writers \subseteq {"leader", "helper"}
    /\ pipe \in {None, "leader", "helper"}
    /\ prompt \in Prompts
    /\ pc \in {"starting", "polling", "deciding", "waiting", "grace", "draining", "over"}
    /\ open \in BOOLEAN /\ reaped \in BOOLEAN /\ handling \in BOOLEAN
    /\ polled \in Exited \cup {"killed", None}
    /\ {timer, stall, silence, elapsed, quiet, gone, ending} \subseteq Nat
    /\ cause \in TimeoutKinds \cup {"log", "interrupt", None}
    /\ outcome \in Outcomes \cup {None}
    /\ interrupts \in 0..MaxInterrupts
    /\ (pc = "over") <=> (outcome # None)

Init ==
    /\ limits \in Limits
    /\ \E program \in Programs :
         /\ provider = [kind |-> program.kind, state |-> "reading"]
         /\ prompt \in [left : {program.prompt}, inside : {0}, open : BOOLEAN, read : {TRUE}]
         /\ prompt.left > 0 => prompt.open
    /\ helper = "none" /\ writers = {"leader"} /\ pipe = None
    /\ pc = "starting" /\ open = TRUE /\ reaped = FALSE /\ polled = None
    /\ timer = 0 /\ stall = 0 /\ silence = 0 /\ elapsed = 0 /\ quiet = 0 /\ gone = 0
    /\ ending = 0
    /\ cause = None /\ handling = FALSE /\ outcome = None /\ interrupts = 0

Alive == provider.state \in Running

-----------------------------------------------------------------------------
(* The provider and its helper *)

Started == pc # "starting" /\ outcome \notin {"missing_executable"}

Becomes(state) == provider' = [provider EXCEPT !.state = state]

\* A filter answers each part of the prompt with one piece of output.
ReadPrompt ==
    /\ Started /\ provider.state = "reading" /\ prompt.read /\ prompt.inside > 0
    /\ prompt' = [prompt EXCEPT !.inside = 0]
    /\ Becomes(IF provider.kind = "filter" THEN "owing" ELSE "reading")
    /\ UNCHANGED <<limits, helper, writers, pipe, open, clocks, monitor>>

\* A write waits while the pipe is full; after the monitor closed it, a write ends the writer.
WriteOutput(w) ==
    /\ Started /\ w \in writers
    /\ w = "leader" => Alive /\ (provider.kind = "filter" => provider.state = "owing")
    /\ pipe = None /\ open
    /\ pipe' = w /\ quiet' = 0
    /\ IF w = "leader" THEN Becomes("reading") ELSE UNCHANGED provider
    /\ UNCHANGED <<limits, helper, writers, prompt, open, timer, stall, silence, elapsed, gone,
                   ending, monitor>>

PromptEnded == prompt.inside = 0 /\ ~prompt.open

Exits(state) ==
    /\ Started /\ Alive
    /\ provider.kind = "filter" => state = "succeeded" /\ PromptEnded /\ provider.state = "reading"
    /\ Becomes(state)
    /\ writers' = writers \ {"leader"}
    /\ prompt' = [prompt EXCEPT !.read = FALSE]
    /\ UNCHANGED <<limits, helper, pipe, open, clocks, monitor>>

\* A provider that closes its standard streams and goes on.
CloseStreams ==
    /\ Started /\ Alive /\ provider.kind = "free"
    /\ \/ writers' = writers \ {"leader"} /\ UNCHANGED prompt
       \/ prompt' = [prompt EXCEPT !.read = FALSE] /\ UNCHANGED writers
    /\ UNCHANGED <<limits, provider, helper, pipe, open, clocks, monitor>>

\* A helper inherits the output pipe or not.
SpawnHelper ==
    /\ Started /\ Alive /\ helper = "none" /\ provider.kind = "free"
    /\ helper' = "member"
    /\ \/ "leader" \in writers /\ writers' = writers \cup {"helper"}
       \/ UNCHANGED writers
    /\ UNCHANGED <<limits, provider, channels, clocks, monitor>>

HelperLeavesGroup ==
    /\ helper = "member" /\ helper' = "outside"
    /\ UNCHANGED <<limits, provider, writers, channels, clocks, monitor>>

HelperExits ==
    /\ helper # "none" /\ helper' = "none" /\ writers' = writers \ {"helper"}
    /\ UNCHANGED <<limits, provider, channels, clocks, monitor>>

Provider ==
    \/ ReadPrompt
    \/ \E w \in {"leader", "helper"} : WriteOutput(w)
    \/ \E state \in Exited : Exits(state)
    \/ CloseStreams \/ SpawnHelper \/ HelperLeavesGroup \/ HelperExits

-----------------------------------------------------------------------------
(* The monitor *)

Ends(kind) == pc' = "over" /\ outcome' = kind

Launch ==
    /\ pc = "starting"
    /\ \/ pc' = "polling" /\ UNCHANGED <<outcome, provider, writers>>
       \/ /\ \E kind \in {"missing_executable", "provider_error"} : Ends(kind)
          /\ Becomes("failed") /\ writers' = {}
    /\ UNCHANGED <<limits, helper, channels, clocks, reaped, polled, cause, handling, interrupts>>

ExitStatus == IF Alive THEN None ELSE provider.state

\* Collecting the exit frees the process group's number for others.
Collects == reaped' = (reaped \/ ~Alive)

\* Nothing depends on these clocks any more.
Forgets == silence' = 0 /\ elapsed' = 0 /\ quiet' = 0 /\ gone' = 0

\* Mutant of ExitWins: the exit counts only when no limit was reached.
ExitWinsInTime ==
    ExitStatus # None /\ (limits.maximum # None => elapsed < limits.maximum)

\* An exit is reported whatever the clocks say.
ExitWins == ExitStatus # None

Poll ==
    /\ pc = "polling"
    /\ polled' = ExitStatus /\ Collects
    /\ IF ExitWins
       THEN /\ pc' = "draining" /\ timer' = Drain /\ Forgets
            /\ prompt' = [prompt EXCEPT !.open = FALSE]
       ELSE pc' = "deciding" /\ UNCHANGED <<timer, prompt, counters>>
    /\ stall' = 0
    /\ UNCHANGED <<limits, group, pipe, open, ending, cause, handling, outcome, interrupts>>

\* How long ago a limit was reached; None if it was not, or is not set.
Overdue(age, limit) == IF limit = None \/ age < limit THEN None ELSE age - limit

\* The limit that was reached first; of two reached together the duration.
ExpiredTimeoutKind ==
    LET idle == Overdue(silence, limits.inactivity)
        long == Overdue(elapsed, limits.maximum)
    IN  IF idle = None /\ long = None THEN None
        ELSE IF long = None \/ (idle # None /\ idle > long) THEN "inactivity"
        ELSE "max_duration"

NextWait ==
    LET left == {Interval} \cup (IF limits.inactivity = None THEN {} ELSE {limits.inactivity - silence})
                           \cup (IF limits.maximum = None THEN {} ELSE {limits.maximum - elapsed})
    IN  CHOOSE wait \in left : \A other \in left : wait <= other

\* The monitor's input is closed, and the group is asked to end.
Terminate(why) ==
    /\ pc' = "grace" /\ timer' = Grace /\ cause' = why /\ Forgets
    /\ prompt' = [prompt EXCEPT !.open = FALSE]

Decide ==
    /\ pc = "deciding"
    /\ IF ExpiredTimeoutKind # None
       THEN Terminate(ExpiredTimeoutKind)
       ELSE pc' = "waiting" /\ timer' = NextWait /\ UNCHANGED <<cause, prompt, counters>>
    /\ stall' = 0
    /\ UNCHANGED <<limits, group, pipe, open, ending, reaped, polled, handling, outcome,
                   interrupts>>

EndOfOutput == pipe = None /\ writers = {}

\* Mutant of Readable: the prompt is written before output is read.
ReadableAfterPrompt == open /\ ~prompt.open /\ (pipe # None \/ EndOfOutput)

Readable == open /\ (pipe # None \/ EndOfOutput)
Writable == prompt.open /\ (prompt.inside = 0 \/ ~prompt.read)

\* All that is in the pipe is read and logged.
Reads ==
    /\ IF pipe # None THEN pipe' = None /\ UNCHANGED open ELSE open' = FALSE /\ UNCHANGED pipe

\* Mutant of Handle: the error is reported under a name of its own.
HandleUnmapped(why) ==
    /\ Collects
    /\ IF Alive
       THEN Terminate(why) /\ handling' = TRUE /\ UNCHANGED outcome
       ELSE Ends(why) /\ UNCHANGED <<timer, cause, handling, prompt, counters>>
    /\ stall' = 0

\* Mutant of Handle: the exit is collected, and the group is signalled nevertheless.
HandleAlways(why) ==
    /\ Collects /\ Terminate(why) /\ handling' = TRUE /\ stall' = 0
    /\ UNCHANGED outcome

\* The exception handler terminates a provider that has not exited.
Handle(why) ==
    /\ Collects
    /\ IF Alive
       THEN Terminate(why) /\ handling' = TRUE /\ UNCHANGED outcome
       ELSE /\ Ends(IF why = "log" THEN "provider_error" ELSE "interrupted")
            /\ UNCHANGED <<timer, cause, handling, prompt, counters>>
    /\ stall' = 0

\* As much as fits; the pipe is closed after the last part, or when nobody reads.
WritePrompt ==
    IF Writable
    THEN IF prompt.read /\ prompt.left > 0
         THEN prompt' = [prompt EXCEPT !.left = @ - 1, !.inside = 1, !.open = prompt.left > 1]
         ELSE prompt' = [prompt EXCEPT !.left = 0, !.open = FALSE]
    ELSE UNCHANGED prompt

\* Mutant of Heard: output is read and the clock of the silence goes on.
HeardNothing == silence' = silence

Heard == silence' = IF Readable /\ pipe # None THEN 0 ELSE silence

Wake ==
    /\ pc = "waiting"
    /\ Readable \/ Writable \/ timer = 0
    /\ WritePrompt
    /\ IF Readable THEN Reads ELSE UNCHANGED <<pipe, open>>
    /\ Heard
    /\ pc' = "polling" /\ timer' = 0 /\ stall' = 0
    /\ UNCHANGED <<limits, group, elapsed, quiet, gone, ending, reaped, polled, cause, handling,
                   outcome, interrupts>>

\* Output that cannot be written to the log is an error of the invocation.
LogFails ==
    /\ pc = "waiting" /\ Readable /\ pipe # None
    /\ pipe' = None
    /\ Handle("log")
    /\ UNCHANGED <<limits, group, open, ending, polled, interrupts>>

\* While it waits for the end, the monitor goes on logging.
DrainOutput ==
    /\ pc \in {"grace", "draining"} /\ Readable /\ timer > 0
    /\ Reads /\ stall' = 0
    /\ UNCHANGED <<limits, group, prompt, timer, counters, ending, monitor>>

DrainFails ==
    /\ pc \in {"grace", "draining"} /\ Readable /\ timer > 0 /\ pipe # None
    /\ pipe' = None /\ open' = FALSE /\ stall' = 0
    /\ IF pc = "draining" /\ cause = None THEN Ends("provider_error") ELSE UNCHANGED <<pc, outcome>>
    /\ UNCHANGED <<limits, group, prompt, timer, counters, ending, reaped, polled, cause,
                   handling, interrupts>>

\* Mutant of KillGroup: only the provider itself is killed.
KillLeader ==
    /\ IF Alive THEN Becomes("killed") ELSE UNCHANGED provider
    /\ writers' = writers \ {"leader"}
    /\ UNCHANGED helper

\* Every process of the group dies at once.
KillGroup ==
    /\ IF Alive THEN Becomes("killed") ELSE UNCHANGED provider
    /\ helper' = IF helper = "member" THEN "none" ELSE helper
    /\ writers' = IF helper = "member" THEN {} ELSE writers \ {"leader"}

Kill ==
    /\ pc = "grace" /\ timer = 0
    /\ KillGroup
    /\ prompt' = [prompt EXCEPT !.read = FALSE]
    /\ reaped' = TRUE
    /\ pc' = "draining" /\ timer' = Drain /\ stall' = 0
    /\ UNCHANGED <<limits, pipe, open, counters, ending, polled, cause, handling, outcome,
                   interrupts>>

Reported ==
    IF cause \in TimeoutKinds THEN "timeout"
    ELSE IF cause = "log" THEN "provider_error"
    ELSE IF cause = "interrupt" THEN "interrupted"
    ELSE IF polled = "succeeded" THEN "none" ELSE "nonzero_exit"

\* Mutant of DrainOver: what is left in the pipe is given up.
DrainOverAtOnce == TRUE

\* Mutant of DrainOver: the end of the output is waited for.
DrainOverAtEnd == ~open

DrainOver == ~open \/ timer = 0

Finish ==
    /\ pc = "draining" /\ DrainOver
    /\ open' = FALSE
    /\ Ends(Reported)
    /\ stall' = 0
    /\ UNCHANGED <<limits, group, pipe, prompt, timer, counters, ending, reaped, polled, cause,
                   handling, interrupts>>

\* An interrupt of DevLab is handled once; the second one leaves the handler.
Interrupt ==
    /\ pc \notin {"starting", "over"} /\ interrupts < MaxInterrupts
    /\ interrupts' = interrupts + 1
    /\ IF handling
       THEN /\ Ends("interrupted") /\ stall' = 0
            /\ UNCHANGED <<reaped, timer, cause, handling, prompt, counters>>
       ELSE Handle("interrupt")
    /\ UNCHANGED <<limits, group, pipe, open, ending, polled>>

Monitor ==
    \/ Launch \/ Poll \/ Decide \/ Wake \/ LogFails \/ DrainOutput \/ DrainFails \/ Kill \/ Finish

-----------------------------------------------------------------------------
(* Time *)

Ready ==
    \/ pc \in {"polling", "deciding"}
    \/ pc = "waiting" /\ (Readable \/ Writable \/ timer = 0)
    \/ pc = "grace" /\ (Readable \/ timer = 0)
    \/ pc = "draining" /\ ((Readable /\ timer > 0) \/ DrainOver)

Ending == pc \in {"grace", "draining"}

\* A clock that nothing depends on stands still.
Tick ==
    /\ pc \notin {"starting", "over"}
    /\ Ready => stall < Lag
    /\ stall' = IF Ready THEN stall + 1 ELSE 0
    /\ timer' = IF timer > 0 THEN timer - 1 ELSE 0
    /\ IF Ending
       THEN ending' = ending + 1 /\ UNCHANGED counters
       ELSE /\ silence' = IF limits.inactivity = None THEN 0 ELSE silence + 1
            /\ quiet' = IF limits.inactivity = None THEN 0 ELSE quiet + 1
            /\ elapsed' = IF limits.maximum = None THEN 0 ELSE elapsed + 1
            /\ gone' = IF Alive THEN 0 ELSE gone + 1
            /\ UNCHANGED ending
    /\ UNCHANGED <<limits, group, channels, monitor>>

Next == Provider \/ Monitor \/ Interrupt \/ Tick

Spec == Init /\ [][Next]_vars

-----------------------------------------------------------------------------
(* Properties *)

\* What an invocation promises its caller: the code's result mapping (agents.py:156-236)
\* and the signals to the whole group (agents.py:451-494) implement module Invocation.
Promise == INSTANCE Invocation WITH
    ended <- outcome, leader <- Alive, member <- helper = "member"

KeepsPromise == Promise!Spec

\* A timeout is a verdict on what the provider did, not on the monitor's own delays: it
\* had not exited before the monitor last asked, and it had written nothing for the
\* whole limit, or only while the monitor was deciding (agents.py:342-375, 400-447).
VerdictIsFair ==
    [][cause = None /\ cause' \in TimeoutKinds =>
          /\ gone <= Lag
          /\ cause' = "inactivity" =>
                \/ quiet >= limits.inactivity
                \/ pipe # None /\ quiet <= 2 * Lag]_vars

\* Whatever provider and helper do, an invocation is over a fixed time after a limit: the
\* graces and drains are bounded, also when output never ends (agents.py:451-534).
NeverOverstays ==
    /\ limits.maximum # None => elapsed <= limits.maximum + 3 * Lag
    /\ limits.inactivity # None => quiet <= limits.inactivity + 6 * Lag
    /\ ending <= Grace + Drain + 2 * Lag + (IF interrupts > 0 THEN Grace + Lag ELSE 0)

\* What a provider wrote before it exited by itself is in the log when the exit is
\* reported, also when a helper keeps the pipe open or goes on writing (agents.py:436-448).
OutputIsComplete == outcome \in {"none", "nonzero_exit"} => pipe # "leader"

\* The group is signalled only while its number cannot belong to another one: before the
\* exit of the provider is collected (agents.py:451-494).
SignalsOwnGroup == pc = "grace" => ~reaped

FairSpec ==
    Spec /\ WF_vars(Monitor) /\ WF_vars(Tick)
         /\ WF_vars(ReadPrompt) /\ WF_vars(WriteOutput("leader") /\ provider.kind = "filter")
         /\ WF_vars(Exits("succeeded") /\ provider.kind = "filter")

\* Neither limit is needed for a provider that works: prompt and output move through full
\* pipes in both directions without the two waiting for each other (agents.py:385-420).
FilterFinishes ==
    (provider.kind = "filter" /\ limits.inactivity = None /\ limits.maximum = None)
        ~> outcome # None
=============================================================================
