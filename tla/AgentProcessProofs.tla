------------------------- MODULE AgentProcessProofs -------------------------
(***************************************************************************)
(* Theorems about module AgentProcess, for every limit, every provider and *)
(* every bound on the lateness of the monitor.  The inductive invariant    *)
(* says, for each phase of the monitor, what it knows of the provider and  *)
(* how late the clocks can be.                                             *)
(***************************************************************************)
EXTENDS AgentProcess, TLAPS

Loop == {"polling", "deciding", "waiting"}

\* Until the end the exit is not collected, and no reason to end was found.
LoopIsOpen ==
    pc \in {"starting"} \cup Loop => ~reaped /\ cause = None /\ ~handling /\ interrupts = 0

\* While the group may be signalled the exit is not collected; afterwards no provider runs,
\* and after a signal no process of the group does.
GroupIsKnown ==
    /\ pc = "grace" => ~reaped /\ cause # None
    /\ pc = "draining" => ~Alive /\ (cause # None => helper # "member")
    /\ pc = "starting" => Alive /\ helper = "none"

\* A handler was entered for each interrupt but the last.
HandledOnce == Ending /\ ~handling => interrupts = 0

\* Nothing is left in an output pipe that the monitor has closed before its end.
ClosedIsEmpty == ~open /\ pc # "over" => pipe = None

\* After an exit the provider's last output is read before the time for it is up.
LeftoverIsRead ==
    pc = "draining" /\ cause = None /\ pipe = "leader" => timer + stall >= Drain

\* A report of the exit is of a provider that has exited.
ReportedIsGone == outcome \in {"none", "nonzero_exit"} => ~Alive

\* How late a clock may run past a limit in each phase of the loop.
Late(clock, limit) ==
    limit # None =>
        /\ pc \in {"starting", "grace", "draining"} => clock = 0
        /\ pc = "waiting" => IF timer > 0 THEN clock + timer <= limit ELSE clock <= limit + stall
        /\ pc = "polling" => clock <= limit + Lag + stall
        /\ pc = "deciding" => clock <= limit + 2 * Lag + stall
        /\ pc = "over" => clock <= limit + 3 * Lag

LimitsAreSeen == Late(silence, limits.inactivity) /\ Late(elapsed, limits.maximum)

\* Unread output is recent; when there is none, the silence is known up to the delay of
\* the last reading.
QuietIsHeard ==
    limits.inactivity # None =>
        /\ pc \in Loop /\ pipe = None => silence <= quiet /\ quiet <= silence + 3 * Lag
        /\ pc = "polling" /\ pipe # None => quiet <= stall
        /\ pc = "deciding" /\ pipe # None => quiet <= Lag + stall
        /\ pc = "waiting" /\ pipe # None => quiet <= 2 * Lag + stall
        /\ pc \in {"starting", "grace", "draining"} => quiet = 0
        /\ pc = "over" => quiet <= limits.inactivity + 6 * Lag

NothingBeforeStart == pc = "starting" => pipe = None

\* An exit that the monitor decides about happened after it asked.
GoneIsRecent ==
    /\ pc \in Loop /\ Alive => gone = 0
    /\ pc = "starting" => gone = 0
    /\ pc = "deciding" => gone <= stall

Extra == IF interrupts > 0 THEN Grace + Lag ELSE 0

\* The end in its two parts, each of which the monitor leaves at most Lag late.
EndIsBounded ==
    /\ pc \in {"starting"} \cup Loop => ending = 0
    /\ pc = "grace" =>
         IF timer > 0 THEN ending + timer <= Grace + Extra ELSE ending <= Grace + Extra + stall
    /\ pc = "draining" =>
         IF timer > 0 THEN ending + timer <= Grace + Drain + Lag + Extra
                      ELSE ending <= Grace + Drain + Lag + Extra + stall
    /\ ending <= Grace + Drain + 2 * Lag + Extra

Punctual == stall <= Lag

Control == LoopIsOpen /\ GroupIsKnown /\ HandledOnce /\ ClosedIsEmpty /\ NothingBeforeStart
               /\ ReportedIsGone
Timing == Punctual /\ LimitsAreSeen /\ QuietIsHeard /\ GoneIsRecent /\ EndIsBounded

Leftover == Lag < Drain => LeftoverIsRead /\ OutputIsComplete

IInv == TypeOK /\ Control /\ Timing /\ Leftover
-----------------------------------------------------------------------------
(* Lemmas *)

\* The wait is a number of ticks and ends before a limit is overrun: nothing expired before
\* (_next_wait in _monitor_process).
LEMMA WaitFits ==
    ASSUME TypeOK, ExpiredTimeoutKind = None
    PROVE  /\ NextWait \in Nat
           /\ limits.inactivity # None => silence + NextWait <= limits.inactivity
           /\ limits.maximum # None => elapsed + NextWait <= limits.maximum
<1> DEFINE idle == IF limits.inactivity = None THEN {} ELSE {limits.inactivity - silence}
           long == IF limits.maximum = None THEN {} ELSE {limits.maximum - elapsed}
           left == {Interval} \cup idle \cup long
<1>1. /\ limits.inactivity # None => limits.inactivity \in Nat /\ silence < limits.inactivity
      /\ limits.maximum # None => limits.maximum \in Nat /\ elapsed < limits.maximum
  BY AgentProcessAssumption DEF TypeOK, Limits, ExpiredTimeoutKind, Overdue, TimeoutKinds
<1>2. silence \in Nat /\ elapsed \in Nat /\ Interval \in Nat
  BY AgentProcessAssumption DEF TypeOK
<1>3. \A wait \in left : wait \in Nat
  BY <1>1, <1>2
<1>4. \E wait \in left : \A other \in left : wait <= other
  BY <1>1, <1>2
<1>5. NextWait \in left /\ \A other \in left : NextWait <= other
  BY <1>4 DEF NextWait
<1> QED BY <1>1, <1>2, <1>3, <1>5

\* The monitor's input is closed, or written in part.
LEMMA PromptIsTyped ==
    ASSUME TypeOK
    PROVE  /\ [prompt EXCEPT !.open = FALSE] \in Prompts
           /\ [prompt EXCEPT !.read = FALSE] \in Prompts
           /\ [prompt EXCEPT !.left = 0, !.open = FALSE] \in Prompts
           /\ prompt.left > 0 =>
                [prompt EXCEPT !.left = @ - 1, !.inside = 1, !.open = prompt.left > 1] \in Prompts
<1>1. prompt \in Prompts
  BY DEF TypeOK
<1>2. ASSUME NEW n \in Nat, NEW i \in 0..1, NEW o \in BOOLEAN
      PROVE  [prompt EXCEPT !.left = n, !.inside = i, !.open = o] \in Prompts
  BY <1>1 DEF Prompts
<1>3. ASSUME prompt.left > 0
      PROVE  [prompt EXCEPT !.left = @ - 1, !.inside = 1, !.open = prompt.left > 1] \in Prompts
  <2>1. prompt.left - 1 \in Nat
    BY <1>1, <1>3 DEF Prompts
  <2>2. 1 \in 0..1
    OBVIOUS
  <2>3. (prompt.left > 1) \in BOOLEAN
    OBVIOUS
  <2> QED BY <1>2, <2>1, <2>2, <2>3, Zenon
<1> QED BY <1>1, <1>3 DEF Prompts

\* What provider and helper do by themselves keeps the invariant: nothing is written, no process
\* begins without the provider, and no clock moves.
LEMMA OutsideStep ==
    ASSUME IInv, TypeOK', UNCHANGED <<limits, pipe, open, clocks, monitor>>,
           Alive' => Alive, pc = "starting" => UNCHANGED <<provider, helper>>,
           helper' = "member" => helper = "member" \/ Alive
    PROVE  IInv'
<1> USE DEF clocks, counters, monitor, IInv
<1>1. Control'
  BY DEF Control, LoopIsOpen, GroupIsKnown, HandledOnce, Ending, ClosedIsEmpty,
         NothingBeforeStart, ReportedIsGone, Alive
<1>2. Timing'
  BY DEF Timing, Punctual, LimitsAreSeen, Late, QuietIsHeard, GoneIsRecent, EndIsBounded, Extra
<1>3. Leftover'
  BY DEF Leftover, LeftoverIsRead, OutputIsComplete
<1> QED BY <1>1, <1>2, <1>3

-----------------------------------------------------------------------------
(* The provider and its helper *)

\* No program starts before the launch.
LEMMA NotStarting == Started => pc # "starting"
  BY DEF Started

\* Reading the prompt keeps the provider running.
LEMMA ReadPromptStep == IInv /\ ReadPrompt => IInv'
<1> SUFFICES ASSUME IInv, ReadPrompt PROVE IInv'
  OBVIOUS
<1> USE DEF ReadPrompt, Becomes
<1>1. provider' \in [kind : {"filter", "free"}, state : Running]
  BY DEF IInv, TypeOK, Running
<1>2. prompt' \in Prompts
  BY DEF IInv, TypeOK, Prompts
<1>3. TypeOK'
  BY <1>1, <1>2 DEF IInv, TypeOK, clocks, counters, monitor
<1>4. Alive' /\ Alive
  BY <1>1 DEF Alive, Running
<1> QED BY <1>3, <1>4, NotStarting, OutsideStep

\* Writing finds the pipe empty and open, so the clock of the silence counts from now on.
LEMMA WriteOutputStep ==
    ASSUME NEW w \in {"leader", "helper"}, IInv, WriteOutput(w)
    PROVE  IInv'
<1> USE DEF WriteOutput, Becomes, monitor
<1>1. provider' \in [kind : {"filter", "free"}, state : Running \cup Exited \cup {"killed"}]
      /\ (Alive' <=> Alive)
  BY DEF IInv, TypeOK, Alive, Running
<1>2. TypeOK'
  BY <1>1 DEF IInv, TypeOK
<1>3. Control'
  BY <1>1, NotStarting
     DEF IInv, Control, LoopIsOpen, GroupIsKnown, HandledOnce, Ending, ClosedIsEmpty,
         NothingBeforeStart, ReportedIsGone
<1>4. Timing'
  BY <1>1, <1>2, NotStarting, AgentProcessAssumption
     DEF IInv, Timing, Punctual, LimitsAreSeen, Late, QuietIsHeard, GoneIsRecent, EndIsBounded,
         Extra, TypeOK, Limits
<1>5. Leftover'
  BY <1>1
     DEF IInv, Control, GroupIsKnown, ReportedIsGone, Leftover, LeftoverIsRead, OutputIsComplete
<1> QED BY <1>2, <1>3, <1>4, <1>5 DEF IInv

\* An exit ends the provider, and its end of both pipes.
LEMMA ExitsStep ==
    ASSUME NEW state \in Exited, IInv, Exits(state)
    PROVE  IInv'
<1> USE DEF Exits, Becomes
<1>1. provider' \in [kind : {"filter", "free"}, state : Exited]
  BY DEF IInv, TypeOK
<1>2. prompt' \in Prompts
  BY DEF IInv, TypeOK, Prompts
<1>3. TypeOK'
  BY <1>1, <1>2 DEF IInv, TypeOK, clocks, counters, monitor
<1> QED BY <1>3, NotStarting, OutsideStep

\* Closing its streams, spawning and the helper's own steps leave the provider as it is.
LEMMA StreamsStep == IInv /\ CloseStreams => IInv'
<1> SUFFICES ASSUME IInv, CloseStreams PROVE IInv'
  OBVIOUS
<1>1. prompt' \in Prompts
  BY DEF CloseStreams, IInv, TypeOK, Prompts
<1>2. TypeOK'
  BY <1>1 DEF CloseStreams, IInv, TypeOK, clocks, counters, monitor
<1> QED BY <1>2, OutsideStep DEF CloseStreams, Alive

\* A helper may only be left before the leader ends, and only a member holds the group.
LEMMA HelperStep == IInv /\ (SpawnHelper \/ HelperLeavesGroup \/ HelperExits) => IInv'
<1> SUFFICES ASSUME IInv, SpawnHelper \/ HelperLeavesGroup \/ HelperExits PROVE IInv'
  OBVIOUS
<1> USE DEF SpawnHelper, HelperLeavesGroup, HelperExits
<1>1. UNCHANGED <<limits, provider, channels, clocks, monitor>>
  OBVIOUS
<1>2. helper' \in {"none", "member", "outside"} /\ writers' \subseteq {"leader", "helper"}
  BY DEF IInv, TypeOK, Prompts
<1>3. TypeOK'
  BY <1>1, <1>2 DEF IInv, TypeOK, channels, clocks, counters, monitor
<1>4. pc = "starting" => helper = "none"
  BY DEF IInv, Control, GroupIsKnown
<1> QED BY <1>1, <1>3, <1>4, NotStarting, OutsideStep DEF channels, Alive

-----------------------------------------------------------------------------
(* The monitor *)

\* A launch that fails ends the invocation; nothing has been written or timed.
LEMMA LaunchStep == IInv /\ Launch => IInv'
<1> SUFFICES ASSUME IInv, Launch PROVE IInv'
  OBVIOUS
<1> USE AgentProcessAssumption DEF IInv, Launch, Ends, Becomes, group, channels, clocks, counters
<1>1. TypeOK'
  <2>1. provider' \in [kind : {"filter", "free"}, state : Running \cup Exited \cup {"killed"}]
    BY DEF TypeOK, Alive, Exited
  <2>2. prompt' \in Prompts
    BY PromptIsTyped DEF TypeOK
  <2>3. {timer', stall', silence', elapsed', quiet', gone', ending'} \subseteq Nat
    BY DEF TypeOK
  <2>4. cause' \in TimeoutKinds \cup {"log", "interrupt", None} /\ interrupts' \in 0..MaxInterrupts
    BY DEF TypeOK, TimeoutKinds, ExpiredTimeoutKind
  <2> QED BY <2>1, <2>2, <2>3, <2>4 DEF TypeOK, Outcomes
<1>2. LoopIsOpen' /\ GroupIsKnown' /\ HandledOnce'
  BY DEF Control, LoopIsOpen, GroupIsKnown, HandledOnce
<1>3. ClosedIsEmpty' /\ NothingBeforeStart' /\ ReportedIsGone'
  BY DEF Control, ClosedIsEmpty, NothingBeforeStart, ReportedIsGone, Alive
<1>4. Punctual' /\ LimitsAreSeen'
  BY DEF TypeOK, Limits, Timing, Punctual, LimitsAreSeen, Late
<1>5. QuietIsHeard'
  BY DEF TypeOK, Limits, Timing, LimitsAreSeen, Late, QuietIsHeard
<1>6. GoneIsRecent'
  BY DEF Timing, GoneIsRecent
<1>7. EndIsBounded'
  BY DEF Timing, EndIsBounded, Extra
<1>8. Leftover'
  BY DEF Leftover, LeftoverIsRead, OutputIsComplete
<1> QED BY <1>1, <1>2, <1>3, <1>4, <1>5, <1>6, <1>7, <1>8 DEF Control, Timing

\* A poll that finds the exit begins the drain with a full timer.
LEMMA PollStep == IInv /\ Poll => IInv'
<1> SUFFICES ASSUME IInv, Poll PROVE IInv'
  OBVIOUS
<1> USE AgentProcessAssumption
    DEF IInv, Poll, ExitStatus, Collects, ExitWins, Forgets, group, counters
<1>1. TypeOK'
  <2>1. provider' \in [kind : {"filter", "free"}, state : Running \cup Exited \cup {"killed"}]
    BY DEF TypeOK, Alive, Exited
  <2>2. prompt' \in Prompts
    BY PromptIsTyped DEF TypeOK
  <2>3. {timer', stall', silence', elapsed', quiet', gone', ending'} \subseteq Nat
    BY DEF TypeOK
  <2>4. cause' \in TimeoutKinds \cup {"log", "interrupt", None} /\ interrupts' \in 0..MaxInterrupts
    BY DEF TypeOK, TimeoutKinds, ExpiredTimeoutKind
  <2> QED BY <2>1, <2>2, <2>3, <2>4 DEF TypeOK, Alive
<1>2. LoopIsOpen' /\ GroupIsKnown' /\ HandledOnce'
  BY DEF TypeOK, Control, LoopIsOpen, GroupIsKnown, HandledOnce, Loop, Alive
<1>3. ClosedIsEmpty' /\ NothingBeforeStart' /\ ReportedIsGone'
  BY DEF Control, ClosedIsEmpty, NothingBeforeStart, ReportedIsGone, Alive
<1>4. Punctual' /\ LimitsAreSeen'
  BY DEF TypeOK, Limits, Timing, Punctual, LimitsAreSeen, Late
<1>5. QuietIsHeard'
  BY DEF TypeOK, Timing, Punctual, QuietIsHeard, Loop
<1>6. GoneIsRecent'
  BY DEF TypeOK, Timing, GoneIsRecent, Loop, Alive
<1>7. EndIsBounded'
  BY DEF Timing, EndIsBounded, Extra, Loop
<1>8. Leftover'
  BY DEF Leftover, LeftoverIsRead, OutputIsComplete
<1> QED BY <1>1, <1>2, <1>3, <1>4, <1>5, <1>6, <1>7, <1>8 DEF Control, Timing

\* Without a limit that was reached, the wait ends in time for both.
LEMMA DecideStep == IInv /\ Decide => IInv'
<1> SUFFICES ASSUME IInv, Decide PROVE IInv'
  OBVIOUS
<1> USE AgentProcessAssumption DEF IInv, Decide, Terminate, Forgets, group, counters
<1>1. TypeOK'
  <2>1. provider' \in [kind : {"filter", "free"}, state : Running \cup Exited \cup {"killed"}]
    BY DEF TypeOK, Alive, Exited
  <2>2. prompt' \in Prompts
    BY PromptIsTyped DEF TypeOK
  <2>3. {timer', stall', silence', elapsed', quiet', gone', ending'} \subseteq Nat
    BY WaitFits DEF TypeOK
  <2>4. cause' \in TimeoutKinds \cup {"log", "interrupt", None} /\ interrupts' \in 0..MaxInterrupts
    BY DEF TypeOK, TimeoutKinds, ExpiredTimeoutKind
  <2> QED BY <2>1, <2>2, <2>3, <2>4 DEF TypeOK
<1>2. LoopIsOpen' /\ GroupIsKnown' /\ HandledOnce'
  BY DEF Control, LoopIsOpen, GroupIsKnown, HandledOnce, Loop
<1>3. ClosedIsEmpty' /\ NothingBeforeStart' /\ ReportedIsGone'
  BY DEF Control, ClosedIsEmpty, NothingBeforeStart, ReportedIsGone, Alive
<1>4. Punctual' /\ LimitsAreSeen'
  BY WaitFits DEF TypeOK, Limits, Punctual, LimitsAreSeen, Late
<1>5. QuietIsHeard'
  BY DEF TypeOK, Timing, Punctual, QuietIsHeard, Loop
<1>6. GoneIsRecent'
  BY DEF Timing, GoneIsRecent, Loop, Alive
<1>7. EndIsBounded'
  BY DEF Timing, EndIsBounded, Extra, Loop
<1>8. Leftover'
  BY DEF Leftover, LeftoverIsRead, OutputIsComplete
<1> QED BY <1>1, <1>2, <1>3, <1>4, <1>5, <1>6, <1>7, <1>8 DEF Control, Timing

\* The monitor reads what there is and writes what fits.
LEMMA WakeStep == IInv /\ Wake => IInv'
<1> SUFFICES ASSUME IInv, Wake PROVE IInv'
  OBVIOUS
<1> USE AgentProcessAssumption
    DEF IInv, Wake, Readable, Writable, EndOfOutput, WritePrompt, Reads, Heard, group
<1>1. TypeOK'
  <2>1. provider' \in [kind : {"filter", "free"}, state : Running \cup Exited \cup {"killed"}]
    BY DEF TypeOK, Alive, Exited
  <2>2. prompt' \in Prompts
    BY PromptIsTyped DEF TypeOK
  <2>3. {timer', stall', silence', elapsed', quiet', gone', ending'} \subseteq Nat
    BY DEF TypeOK
  <2>4. cause' \in TimeoutKinds \cup {"log", "interrupt", None} /\ interrupts' \in 0..MaxInterrupts
    BY DEF TypeOK, TimeoutKinds, ExpiredTimeoutKind
  <2> QED BY <2>1, <2>2, <2>3, <2>4 DEF TypeOK
<1>2. LoopIsOpen' /\ GroupIsKnown' /\ HandledOnce'
  BY DEF Control, LoopIsOpen, GroupIsKnown, HandledOnce, Loop
<1>3. ClosedIsEmpty' /\ NothingBeforeStart' /\ ReportedIsGone'
  BY DEF Control, ClosedIsEmpty, NothingBeforeStart, ReportedIsGone, Alive
<1>4. Punctual' /\ LimitsAreSeen'
  BY DEF TypeOK, Limits, Timing, Punctual, LimitsAreSeen, Late
<1>5. QuietIsHeard'
  BY DEF TypeOK, Timing, Control, ClosedIsEmpty, Punctual, QuietIsHeard, Loop
<1>6. GoneIsRecent'
  BY DEF Timing, GoneIsRecent, Loop, Alive
<1>7. EndIsBounded'
  BY DEF Timing, EndIsBounded, Extra, Loop
<1>8. Leftover'
  BY DEF Leftover, LeftoverIsRead, OutputIsComplete
<1> QED BY <1>1, <1>2, <1>3, <1>4, <1>5, <1>6, <1>7, <1>8 DEF Control, Timing

\* The handler of an error ends the group of a provider that runs.
LEMMA LogFailsStep == IInv /\ LogFails => IInv'
<1> SUFFICES ASSUME IInv, LogFails PROVE IInv'
  OBVIOUS
<1> USE AgentProcessAssumption
    DEF IInv, LogFails, Readable, Handle, Collects, Terminate, Forgets, Ends, group, counters
<1>1. TypeOK'
  <2>1. provider' \in [kind : {"filter", "free"}, state : Running \cup Exited \cup {"killed"}]
    BY DEF TypeOK, Alive, Exited
  <2>2. prompt' \in Prompts
    BY PromptIsTyped DEF TypeOK
  <2>3. {timer', stall', silence', elapsed', quiet', gone', ending'} \subseteq Nat
    BY DEF TypeOK
  <2>4. cause' \in TimeoutKinds \cup {"log", "interrupt", None} /\ interrupts' \in 0..MaxInterrupts
    BY DEF TypeOK, TimeoutKinds, ExpiredTimeoutKind
  <2> QED BY <2>1, <2>2, <2>3, <2>4 DEF TypeOK, Outcomes
<1>2. LoopIsOpen' /\ GroupIsKnown' /\ HandledOnce'
  BY DEF Control, LoopIsOpen, GroupIsKnown, HandledOnce, Loop
<1>3. ClosedIsEmpty' /\ NothingBeforeStart' /\ ReportedIsGone'
  BY DEF Control, ClosedIsEmpty, NothingBeforeStart, ReportedIsGone
<1>4. Punctual' /\ LimitsAreSeen'
  BY DEF TypeOK, Limits, Timing, Punctual, LimitsAreSeen, Late
<1>5. QuietIsHeard'
  BY DEF TypeOK, Limits, Timing, Punctual, QuietIsHeard, Loop
<1>6. GoneIsRecent'
  BY DEF GoneIsRecent, Alive
<1>7. EndIsBounded'
  BY DEF Timing, EndIsBounded, Extra, Loop
<1>8. Leftover'
  BY DEF Leftover, LeftoverIsRead, OutputIsComplete
<1> QED BY <1>1, <1>2, <1>3, <1>4, <1>5, <1>6, <1>7, <1>8 DEF Control, Timing

\* While the end is waited for, output is read.
LEMMA DrainOutputStep == IInv /\ DrainOutput => IInv'
<1> SUFFICES ASSUME IInv, DrainOutput PROVE IInv'
  OBVIOUS
<1> USE AgentProcessAssumption DEF IInv, DrainOutput, Readable, Reads, group, counters, monitor
<1>1. TypeOK'
  <2>1. provider' \in [kind : {"filter", "free"}, state : Running \cup Exited \cup {"killed"}]
    BY DEF TypeOK, Alive, Exited
  <2>2. prompt' \in Prompts
    BY PromptIsTyped DEF TypeOK
  <2>3. {timer', stall', silence', elapsed', quiet', gone', ending'} \subseteq Nat
    BY DEF TypeOK
  <2>4. cause' \in TimeoutKinds \cup {"log", "interrupt", None} /\ interrupts' \in 0..MaxInterrupts
    BY DEF TypeOK, TimeoutKinds, ExpiredTimeoutKind
  <2> QED BY <2>1, <2>2, <2>3, <2>4 DEF TypeOK
<1>2. LoopIsOpen' /\ GroupIsKnown' /\ HandledOnce'
  BY DEF Control, LoopIsOpen, GroupIsKnown, HandledOnce, Ending, Alive
<1>3. ClosedIsEmpty' /\ NothingBeforeStart' /\ ReportedIsGone'
  BY DEF Control, ClosedIsEmpty, NothingBeforeStart, ReportedIsGone, Alive
<1>4. Punctual' /\ LimitsAreSeen'
  BY DEF Timing, Punctual, LimitsAreSeen, Late
<1>5. QuietIsHeard'
  BY DEF Timing, QuietIsHeard, Loop
<1>6. GoneIsRecent'
  BY DEF GoneIsRecent, Loop
<1>7. EndIsBounded'
  BY DEF Timing, EndIsBounded, Extra
<1>8. Leftover'
  BY DEF Leftover, LeftoverIsRead, OutputIsComplete
<1> QED BY <1>1, <1>2, <1>3, <1>4, <1>5, <1>6, <1>7, <1>8 DEF Control, Timing

\* A log that fails during the drain is no longer written.
LEMMA DrainFailsStep == IInv /\ DrainFails => IInv'
<1> SUFFICES ASSUME IInv, DrainFails PROVE IInv'
  OBVIOUS
<1> USE AgentProcessAssumption DEF IInv, DrainFails, Readable, Ends, group, counters
<1>1. TypeOK'
  <2>1. provider' \in [kind : {"filter", "free"}, state : Running \cup Exited \cup {"killed"}]
    BY DEF TypeOK, Alive, Exited
  <2>2. prompt' \in Prompts
    BY PromptIsTyped DEF TypeOK
  <2>3. {timer', stall', silence', elapsed', quiet', gone', ending'} \subseteq Nat
    BY DEF TypeOK
  <2>4. cause' \in TimeoutKinds \cup {"log", "interrupt", None} /\ interrupts' \in 0..MaxInterrupts
    BY DEF TypeOK, TimeoutKinds, ExpiredTimeoutKind
  <2> QED BY <2>1, <2>2, <2>3, <2>4 DEF TypeOK, Outcomes
<1>2. LoopIsOpen' /\ GroupIsKnown' /\ HandledOnce'
  BY DEF Control, LoopIsOpen, GroupIsKnown, HandledOnce, Ending, Loop, Alive
<1>3. ClosedIsEmpty' /\ NothingBeforeStart' /\ ReportedIsGone'
  BY DEF Control, ClosedIsEmpty, NothingBeforeStart, ReportedIsGone, Alive
<1>4. Punctual' /\ LimitsAreSeen'
  BY DEF TypeOK, Limits, Timing, Punctual, LimitsAreSeen, Late
<1>5. QuietIsHeard'
  BY DEF TypeOK, Limits, Timing, QuietIsHeard, Loop
<1>6. GoneIsRecent'
  BY DEF GoneIsRecent, Loop
<1>7. EndIsBounded'
  BY DEF Timing, EndIsBounded, Extra, Loop
<1>8. Leftover'
  BY DEF Leftover, LeftoverIsRead, OutputIsComplete
<1> QED BY <1>1, <1>2, <1>3, <1>4, <1>5, <1>6, <1>7, <1>8 DEF Control, Timing

\* The kill leaves no process of the group.
LEMMA KillStep == IInv /\ Kill => IInv'
<1> SUFFICES ASSUME IInv, Kill PROVE IInv'
  OBVIOUS
<1> USE AgentProcessAssumption DEF IInv, Kill, KillGroup, Becomes, counters
<1>1. TypeOK'
  <2>1. provider' \in [kind : {"filter", "free"}, state : Running \cup Exited \cup {"killed"}]
    BY DEF TypeOK, Alive, Exited
  <2>2. prompt' \in Prompts
    BY PromptIsTyped DEF TypeOK
  <2>3. {timer', stall', silence', elapsed', quiet', gone', ending'} \subseteq Nat
    BY DEF TypeOK
  <2>4. cause' \in TimeoutKinds \cup {"log", "interrupt", None} /\ interrupts' \in 0..MaxInterrupts
    BY DEF TypeOK, TimeoutKinds, ExpiredTimeoutKind
  <2> QED BY <2>1, <2>2, <2>3, <2>4 DEF TypeOK
<1>2. LoopIsOpen' /\ GroupIsKnown' /\ HandledOnce'
  BY DEF TypeOK, Control, LoopIsOpen, GroupIsKnown, HandledOnce, Ending, Loop, Alive, Running
<1>3. ClosedIsEmpty' /\ NothingBeforeStart' /\ ReportedIsGone'
  BY DEF Control, ClosedIsEmpty, NothingBeforeStart, ReportedIsGone, Alive
<1>4. Punctual' /\ LimitsAreSeen'
  BY DEF Timing, Punctual, LimitsAreSeen, Late
<1>5. QuietIsHeard'
  BY DEF Timing, QuietIsHeard, Loop
<1>6. GoneIsRecent'
  BY DEF GoneIsRecent, Loop
<1>7. EndIsBounded'
  BY DEF TypeOK, Timing, Punctual, EndIsBounded, Extra, Loop
<1>8. Leftover'
  BY DEF Leftover, LeftoverIsRead, OutputIsComplete
<1> QED BY <1>1, <1>2, <1>3, <1>4, <1>5, <1>6, <1>7, <1>8 DEF Control, Timing

\* What is reported of an exit was read before.
LEMMA FinishStep == IInv /\ Finish => IInv'
<1> SUFFICES ASSUME IInv, Finish PROVE IInv'
  OBVIOUS
<1> USE AgentProcessAssumption DEF IInv, Finish, DrainOver, Ends, Reported, group, counters
<1>1. TypeOK'
  <2>1. provider' \in [kind : {"filter", "free"}, state : Running \cup Exited \cup {"killed"}]
    BY DEF TypeOK, Alive, Exited
  <2>2. prompt' \in Prompts
    BY PromptIsTyped DEF TypeOK
  <2>3. {timer', stall', silence', elapsed', quiet', gone', ending'} \subseteq Nat
    BY DEF TypeOK
  <2>4. cause' \in TimeoutKinds \cup {"log", "interrupt", None} /\ interrupts' \in 0..MaxInterrupts
    BY DEF TypeOK, TimeoutKinds, ExpiredTimeoutKind
  <2> QED BY <2>1, <2>2, <2>3, <2>4 DEF TypeOK, Outcomes
<1>2. LoopIsOpen' /\ GroupIsKnown' /\ HandledOnce'
  BY DEF LoopIsOpen, GroupIsKnown, HandledOnce, Ending, Loop
<1>3. ClosedIsEmpty' /\ NothingBeforeStart' /\ ReportedIsGone'
  BY DEF Control, GroupIsKnown, ClosedIsEmpty, NothingBeforeStart, ReportedIsGone, Alive
<1>4. Punctual' /\ LimitsAreSeen'
  BY DEF TypeOK, Limits, Timing, Punctual, LimitsAreSeen, Late
<1>5. QuietIsHeard'
  BY DEF TypeOK, Limits, Timing, QuietIsHeard, Loop
<1>6. GoneIsRecent'
  BY DEF GoneIsRecent, Loop
<1>7. EndIsBounded'
  BY DEF Timing, EndIsBounded, Extra, Loop
<1>8. Leftover'
  BY DEF TypeOK, Timing, Control, Punctual, ClosedIsEmpty, Leftover, LeftoverIsRead,
         OutputIsComplete
<1> QED BY <1>1, <1>2, <1>3, <1>4, <1>5, <1>6, <1>7, <1>8 DEF Control, Timing

\* The first interrupt is handled like an error, the second leaves the handler.
LEMMA InterruptStep == IInv /\ Interrupt => IInv'
<1> SUFFICES ASSUME IInv, Interrupt PROVE IInv'
  OBVIOUS
<1> USE AgentProcessAssumption
    DEF IInv, Interrupt, Handle, Collects, Terminate, Forgets, Ends, group, counters
<1>1. TypeOK'
  <2>1. provider' \in [kind : {"filter", "free"}, state : Running \cup Exited \cup {"killed"}]
    BY DEF TypeOK, Alive, Exited
  <2>2. prompt' \in Prompts
    BY PromptIsTyped DEF TypeOK
  <2>3. {timer', stall', silence', elapsed', quiet', gone', ending'} \subseteq Nat
    BY DEF TypeOK
  <2>4. cause' \in TimeoutKinds \cup {"log", "interrupt", None} /\ interrupts' \in 0..MaxInterrupts
    BY DEF TypeOK, TimeoutKinds, ExpiredTimeoutKind
  <2> QED BY <2>1, <2>2, <2>3, <2>4 DEF TypeOK, Exited, Outcomes, Alive, Running
<1>2. LoopIsOpen' /\ GroupIsKnown' /\ HandledOnce'
  BY DEF TypeOK, Control, LoopIsOpen, GroupIsKnown, HandledOnce, Ending, Loop
<1>3. ClosedIsEmpty' /\ NothingBeforeStart' /\ ReportedIsGone'
  BY DEF Control, ClosedIsEmpty, NothingBeforeStart, ReportedIsGone
<1>4. Punctual' /\ LimitsAreSeen'
  BY DEF TypeOK, Limits, Timing, Punctual, LimitsAreSeen, Late
<1>5. QuietIsHeard'
  BY DEF TypeOK, Limits, Timing, Punctual, LimitsAreSeen, Late, QuietIsHeard, Loop
<1>6. GoneIsRecent'
  BY DEF GoneIsRecent, Loop
<1>7. EndIsBounded'
  BY DEF TypeOK, Timing, Control, GroupIsKnown, HandledOnce, Punctual, EndIsBounded, Extra, Loop,
         Ending
<1>8. Leftover'
  BY DEF Leftover, LeftoverIsRead, OutputIsComplete
<1> QED BY <1>1, <1>2, <1>3, <1>4, <1>5, <1>6, <1>7, <1>8 DEF Control, Timing

\* A tick makes the monitor later only while it could go on, and then not by more than Lag.
LEMMA TickStep == IInv /\ Tick => IInv'
<1> SUFFICES ASSUME IInv, Tick PROVE IInv'
  OBVIOUS
<1> USE AgentProcessAssumption
    DEF IInv, Tick, Ready, Readable, EndOfOutput, Writable, DrainOver,
        group, channels, counters, monitor
<1>1. TypeOK'
  <2>1. provider' \in [kind : {"filter", "free"}, state : Running \cup Exited \cup {"killed"}]
    BY DEF TypeOK, Alive, Exited
  <2>2. prompt' \in Prompts
    BY PromptIsTyped DEF TypeOK
  <2>3. {timer', stall', silence', elapsed', quiet', gone', ending'} \subseteq Nat
    BY DEF TypeOK
  <2>4. cause' \in TimeoutKinds \cup {"log", "interrupt", None} /\ interrupts' \in 0..MaxInterrupts
    BY DEF TypeOK, TimeoutKinds, ExpiredTimeoutKind
  <2> QED BY <2>1, <2>2, <2>3, <2>4 DEF TypeOK
<1>2. LoopIsOpen' /\ GroupIsKnown' /\ HandledOnce'
  BY DEF Control, LoopIsOpen, GroupIsKnown, HandledOnce, Ending, Alive
<1>3. ClosedIsEmpty' /\ NothingBeforeStart' /\ ReportedIsGone'
  BY DEF Control, ClosedIsEmpty, NothingBeforeStart, ReportedIsGone, Alive
<1>4. Punctual' /\ LimitsAreSeen'
  BY DEF TypeOK, Limits, Timing, Punctual, LimitsAreSeen, Late, Ending
<1>5. QuietIsHeard'
  BY DEF TypeOK, Timing, Control, ClosedIsEmpty, QuietIsHeard, Ending
<1>6. GoneIsRecent'
  BY DEF TypeOK, Timing, GoneIsRecent, Alive
<1>7. EndIsBounded'
  BY DEF TypeOK, Timing, EndIsBounded, Extra, Loop, Ending
<1>8. Leftover'
  BY DEF TypeOK, Leftover, LeftoverIsRead, OutputIsComplete
<1> QED BY <1>1, <1>2, <1>3, <1>4, <1>5, <1>6, <1>7, <1>8 DEF Control, Timing

-----------------------------------------------------------------------------
(* The inductive invariant *)

\* Before the launch nothing has been written, timed or signalled.
LEMMA InitIInv == Init => IInv
<1> SUFFICES ASSUME Init PROVE IInv
  OBVIOUS
<1>1. provider \in [kind : {"filter", "free"}, state : {"reading"}] /\ prompt \in Prompts
  <2>1. PICK program \in Programs :
          /\ provider = [kind |-> program.kind, state |-> "reading"]
          /\ prompt \in [left : {program.prompt}, inside : {0}, open : BOOLEAN, read : {TRUE}]
    BY DEF Init
  <2>2. program.kind \in {"filter", "free"} /\ program.prompt \in Nat
    BY AgentProcessAssumption
  <2>3. provider \in [kind : {"filter", "free"}, state : {"reading"}]
    BY <2>1, <2>2
  <2>4. prompt \in Prompts
    <3>1. prompt \in [left : {program.prompt}, inside : {0}, open : BOOLEAN, read : {TRUE}]
      BY <2>1
    <3>2. {program.prompt} \subseteq Nat /\ {0} \subseteq 0..1 /\ {TRUE} \subseteq BOOLEAN
      BY <2>2
    <3> QED BY <3>1, <3>2, Zenon DEF Prompts
  <2> QED BY <2>3, <2>4
<1> USE AgentProcessAssumption DEF Init, Running, Exited, Outcomes, TimeoutKinds
<1>2. TypeOK
  <2>1. {timer, stall, silence, elapsed, quiet, gone, ending} \subseteq Nat
    OBVIOUS
  <2>2. provider \in [kind : {"filter", "free"}, state : Running \cup Exited \cup {"killed"}]
    BY <1>1
  <2>3. interrupts \in 0..MaxInterrupts /\ writers \subseteq {"leader", "helper"}
    OBVIOUS
  <2> QED BY <1>1, <2>1, <2>2, <2>3 DEF TypeOK
<1>3. Control
  BY <1>1
     DEF Control, LoopIsOpen, GroupIsKnown, HandledOnce, ClosedIsEmpty, NothingBeforeStart,
         ReportedIsGone, Alive
<1>4. Timing
  BY DEF Timing, Punctual, LimitsAreSeen, Late, QuietIsHeard, GoneIsRecent, EndIsBounded, Extra
<1>5. Leftover
  BY DEF Leftover, LeftoverIsRead, OutputIsComplete
<1> QED BY <1>2, <1>3, <1>4, <1>5 DEF IInv

\* Each step of the monitor, of the processes and of the clock keeps the invariant.
LEMMA NextIInv == IInv /\ [Next]_vars => IInv'
<1> SUFFICES ASSUME IInv, [Next]_vars PROVE IInv'
  OBVIOUS
<1>1. CASE Provider
  BY <1>1, ReadPromptStep, WriteOutputStep, ExitsStep, StreamsStep, HelperStep DEF Provider
<1>2. CASE Monitor
  BY <1>2, LaunchStep, PollStep, DecideStep, WakeStep, LogFailsStep, DrainOutputStep,
     DrainFailsStep, KillStep, FinishStep DEF Monitor
<1>3. CASE Interrupt
  BY <1>3, InterruptStep
<1>4. CASE Tick
  BY <1>4, TickStep
<1>5. CASE UNCHANGED vars
  <2>1. TypeOK'
    BY <1>5 DEF IInv, TypeOK, vars, group, channels, clocks, counters, monitor
  <2> QED BY <1>5, <2>1, OutsideStep DEF vars, group, channels, Alive
<1> QED BY <1>1, <1>2, <1>3, <1>4, <1>5 DEF Next

\* The invariant holds of every invocation, for all limits, delays and numbers of interrupts.
THEOREM Invariance == Spec => []IInv
  BY InitIInv, NextIInv, PTL DEF Spec

-----------------------------------------------------------------------------
(* What follows *)

\* The types of the variables: an outcome is set exactly when the monitor has ended.
THEOREM TypeCorrect == Spec => []TypeOK
<1>1. IInv => TypeOK
  BY DEF IInv
<1> QED BY <1>1, Invariance, PTL

\* The group is signalled only before the exit of its leader was collected, so that its number
\* cannot belong to others (_terminate_process_group).
THEOREM SignalIsForOwnGroup == Spec => []SignalsOwnGroup
<1>1. IInv => SignalsOwnGroup
  BY DEF IInv, Control, GroupIsKnown, SignalsOwnGroup
<1> QED BY <1>1, Invariance, PTL

\* If the monitor is less late than the time it grants the rest of the output, the whole output
\* of a provider that exited is logged, whatever a helper holds open (_drain_output).
THEOREM LeftoverIsLogged ==
    ASSUME Lag < Drain
    PROVE  Spec => []OutputIsComplete
<1>1. IInv => OutputIsComplete
  BY DEF IInv, Leftover
<1> QED BY <1>1, Invariance, PTL

\* An invocation ends a fixed time after a limit, whatever provider and helper do
\* (_monitor_process, _terminate_process_group, _drain_output).
THEOREM LimitsAreKept == Spec => []NeverOverstays
<1>1. IInv => NeverOverstays
  <2> SUFFICES ASSUME IInv PROVE NeverOverstays
    OBVIOUS
  <2> USE AgentProcessAssumption DEF IInv, TypeOK, Limits, Timing, Punctual, LimitsAreSeen, Late
  <2>1. /\ limits.maximum # None => elapsed <= limits.maximum + 3 * Lag
        /\ limits.inactivity # None =>
              (pc \in Loop => silence <= limits.inactivity + 3 * Lag)
    BY DEF Loop
  <2>2. limits.inactivity # None => quiet <= limits.inactivity + 6 * Lag
    BY <2>1 DEF QuietIsHeard, Loop
  <2> QED BY <2>1, <2>2 DEF EndIsBounded, Extra, NeverOverstays
<1> QED BY <1>1, Invariance, PTL

\* Only a decision ends a provider for a limit, and its clocks were read when the provider had
\* not exited at the last poll (_monitor_process).
THEOREM VerdictsAreFair == Spec => VerdictIsFair
<1> DEFINE Verdict == cause = None /\ cause' \in TimeoutKinds
           Fair == /\ gone <= Lag
                   /\ cause' = "inactivity" =>
                         \/ quiet >= limits.inactivity
                         \/ pipe # None /\ quiet <= 2 * Lag
<1>1. ASSUME IInv, Next, Verdict
      PROVE  Decide
  <2>1. ~Provider /\ ~Tick
    BY <1>1, AgentProcessAssumption
       DEF Provider, ReadPrompt, WriteOutput, Exits, CloseStreams, SpawnHelper, HelperLeavesGroup,
           HelperExits, Tick, monitor
  <2>2. ~Interrupt /\ ~LogFails
    BY <1>1, AgentProcessAssumption DEF Interrupt, LogFails, Handle, Terminate, TimeoutKinds
  <2>3. ~(Launch \/ Poll \/ Wake \/ DrainOutput \/ DrainFails \/ Kill \/ Finish)
    BY <1>1, AgentProcessAssumption
       DEF Launch, Poll, Wake, DrainOutput, DrainFails, Kill, Finish, monitor
  <2> QED BY <1>1, <2>1, <2>2, <2>3 DEF Next, Monitor
<1>2. ASSUME IInv, Decide, Verdict
      PROVE  Fair
  <2>1. cause' = ExpiredTimeoutKind /\ pc = "deciding"
    BY <1>2, AgentProcessAssumption DEF Decide, Terminate
  <2>2. cause' = "inactivity" =>
          /\ limits.inactivity \in Nat /\ limits.inactivity # None
          /\ silence >= limits.inactivity
    BY <1>2, <2>1, AgentProcessAssumption DEF ExpiredTimeoutKind, Overdue, IInv, TypeOK, Limits
  <2> QED
    BY <1>2, <2>1, <2>2, AgentProcessAssumption
       DEF IInv, TypeOK, Timing, GoneIsRecent, QuietIsHeard, Punctual, Loop
<1>3. IInv /\ [Next]_vars => [Verdict => Fair]_vars
  BY <1>1, <1>2
<1> QED BY <1>3, Invariance, PTL DEF Spec, VerdictIsFair

-----------------------------------------------------------------------------
(* What the caller may rely on *)

\* An invocation implements what its caller is promised: each step of the model is a step of
\* module Invocation or none of its.
THEOREM InvocationIsImplemented == Spec => KeepsPromise
<1>1. Init => Promise!Init
  BY DEF Init, Promise!Init, Alive, Running
<1>2. IInv /\ [Next]_vars => [Promise!Next]_Promise!vars
  <2> SUFFICES ASSUME IInv, [Next]_vars PROVE [Promise!Next]_Promise!vars
    OBVIOUS
  <2> USE DEF Promise!vars, Promise!Next
  <2>1. CASE Provider
    <3>1. outcome' = outcome /\ (Alive' => Alive)
      BY <2>1
         DEF Provider, ReadPrompt, WriteOutput, Exits, CloseStreams, SpawnHelper,
             HelperLeavesGroup, HelperExits, monitor, Alive, Running
    <3>2. helper' = "member" => helper = "member" \/ Alive
      BY <2>1
         DEF Provider, ReadPrompt, WriteOutput, Exits, CloseStreams, SpawnHelper,
             HelperLeavesGroup, HelperExits
    <3> QED BY <3>1, <3>2 DEF Promise!Works
  <2>2. CASE Launch
    <3>1. outcome = None /\ helper = "none"
      BY <2>2 DEF Launch, IInv, TypeOK, Control, GroupIsKnown
    <3>2. CASE pc' = "polling"
      BY <2>2, <3>2 DEF Launch, Ends, Alive
    <3>3. CASE pc' # "polling"
      BY <2>2, <3>1, <3>3, AgentProcessAssumption
         DEF Launch, Ends, Becomes, Promise!Ends, Alive, Running, Outcomes, IInv, TypeOK
    <3> QED BY <3>2, <3>3
  <2>3. CASE Poll \/ Decide \/ Wake \/ DrainOutput \/ Tick
    BY <2>3 DEF Poll, Decide, Wake, DrainOutput, Tick, group, monitor, Alive
  <2>4. CASE LogFails \/ Interrupt
    BY <2>4, AgentProcessAssumption
       DEF LogFails, Interrupt, Handle, Ends, group, IInv, TypeOK, Promise!Ends, Alive
  <2>5. CASE DrainFails
    BY <2>5, AgentProcessAssumption
       DEF DrainFails, Ends, group, IInv, TypeOK, Control, GroupIsKnown, Promise!Ends, Alive
  <2>6. CASE Kill
    <3>1. /\ outcome' = outcome
          /\ Alive' => Alive
          /\ helper' = "member" => helper = "member"
      BY <2>6 DEF Kill, KillGroup, Alive
    <3> QED BY <3>1 DEF Promise!Works
  <2>7. CASE Finish
    BY <2>7, AgentProcessAssumption
       DEF Finish, Ends, Reported, group, IInv, TypeOK, Control, GroupIsKnown, Promise!Ends, Alive
  <2>8. CASE UNCHANGED vars
    BY <2>8 DEF vars, group, monitor, Alive
  <2> QED BY <2>1, <2>2, <2>3, <2>4, <2>5, <2>6, <2>7, <2>8 DEF Next, Monitor
<1> QED BY <1>1, <1>2, Invariance, PTL DEF Spec, KeepsPromise, Promise!Spec
=============================================================================
