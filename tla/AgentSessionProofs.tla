-------------------------- MODULE AgentSessionProofs --------------------------
(***************************************************************************)
(* Proofs about AgentSession, for any set of adapters, any output of the   *)
(* CLI and any size of the pipe.                                           *)
(***************************************************************************)
EXTENDS AgentSession, TLAPS

\* The events a provider's session may report.
EventKinds ==
  {"session_started", "assistant_message", "plan", "tool_requested", "file_written",
   "tool_started", "tool_output", "tool_completed", "warning", "cost_update",
   "session_completed", "session_failed"}

Elements(s) == {s[i] : i \in DOMAIN s}

Closing(s) == Elements(s) \cap {"session_completed", "session_failed"}

\* The closing events a session has announced: received, or on offer to the
\* executor.
Announced == sent \cup Closing(sess.out)

Completed == "session_completed" \in Announced
Failed == "session_failed" \in Announced

-----------------------------------------------------------------------------
(* The invariant.                                                          *)

Contexts == {"live", "cancelled", "deadline"}

SessionShape ==
  [pc : {"none", "run", "wait", "end", "closed"}, out : Seq(EventKinds),
   at : 1..(Len(FakeScript) + 1), result : BOOLEAN, failed : BOOLEAN,
   scanErr : BOOLEAN, err : {"none", "agent", "cancelled", "deadline"}]

ExecutorShape ==
  [pc : {"start", "loop", "append", "wait", "stop", "ended"}, ev : EventKinds \cup {"none"},
   status : {"planning", "executing"}, drain : BOOLEAN,
   outcome : {"none", "agent_start_failed", "agent_failed", "interrupted", "validating"}]

CliShape ==
  [main : {"none", "running", "ok", "error", "killed"},
   tool : {"none", "grouped", "escaped"}, left : 0..MaxLines]

ShapesOK ==
  /\ adapter \in {"claude", "fake"}
  /\ ctx \in Contexts /\ runctx \in Contexts
  /\ cli \in CliShape
  /\ pipe \in Seq(Lines) /\ shut \in BOOLEAN
  /\ sess \in SessionShape /\ exec \in ExecutorShape
  /\ sent \subseteq {"session_completed", "session_failed"}

\* Only a session of the CLI that is still scanning or waiting for it has a
\* running process, and the executor outlives its session.
ProcessOK ==
  /\ cli.main = "running" => adapter = "claude" /\ sess.pc \in {"run", "wait"}
  /\ exec.pc = "start" => sess.pc = "none"
  /\ exec.pc = "wait" => sess.pc = "closed"
  /\ exec.pc = "ended" => sess.pc \in {"none", "closed"}

\* What each adapter has announced, by how far its goroutine has come.
ClaudeOK ==
  /\ sess.failed <=> Failed
  /\ sess.err = IF sess.failed THEN "agent" ELSE "none"
  /\ sess.result /\ ~sess.failed => Completed

FakeOK ==
  /\ sess.err = "none" /\ ~Failed
  /\ sess.at = Len(FakeScript) + 1 => Completed

EventsOK ==
  /\ sess.pc = "none" => sess.at = 1 /\ Announced = {} /\ sess.err = "none"
                         /\ ~sess.failed /\ ~sess.result
  /\ sess.pc \in {"run", "wait"} /\ adapter = "claude" => ClaudeOK
  /\ sess.pc = "run" /\ adapter = "fake" => FakeOK
  /\ sess.pc = "wait" => adapter = "claude"
  /\ sess.pc \in {"end", "closed"} =>
       /\ sess.err = "none" => Completed
       /\ sess.err = "none" <=> ~Failed
  /\ sess.pc = "closed" => sess.out = << >>

SessionInv == ShapesOK /\ ProcessOK /\ EventsOK

-----------------------------------------------------------------------------
(* Sequences of events.                                                    *)

\* The first event of a sequence and the others are all of its events: what
\* Receive takes off the channel is added to what was received.
LEMMA ClosingOfTail ==
  ASSUME NEW s \in Seq(EventKinds), s # << >>
  PROVE  /\ Head(s) \in EventKinds /\ Tail(s) \in Seq(EventKinds)
         /\ Closing(s) =
              ({Head(s)} \cap {"session_completed", "session_failed"}) \cup Closing(Tail(s))
<1>1. Len(s) \in Nat \ {0} /\ Head(s) = s[1] /\ Head(s) \in EventKinds
      /\ Tail(s) \in Seq(EventKinds) /\ Len(Tail(s)) = Len(s) - 1
  OBVIOUS
<1>2. \A i \in 1..Len(Tail(s)) : Tail(s)[i] = s[i + 1]
  BY <1>1
<1>3. Elements(s) \subseteq {Head(s)} \cup Elements(Tail(s))
  <2>1. ASSUME NEW i \in 1..Len(s) PROVE s[i] \in {Head(s)} \cup Elements(Tail(s))
    <3>1. CASE i = 1
      BY <3>1, <1>1
    <3>2. CASE i # 1
      <4>1. i - 1 \in 1..Len(Tail(s)) /\ Tail(s)[i - 1] = s[i]
        BY <3>2, <1>1, <1>2
      <4>2. DOMAIN Tail(s) = 1..Len(Tail(s))
        BY <1>1
      <4> QED BY <4>1, <4>2 DEF Elements
    <3> QED BY <3>1, <3>2
  <2> QED BY <2>1 DEF Elements
<1>4. {Head(s)} \cup Elements(Tail(s)) \subseteq Elements(s)
  <2>1. Head(s) \in Elements(s)
    BY <1>1 DEF Elements
  <2>2. ASSUME NEW i \in 1..Len(Tail(s)) PROVE Tail(s)[i] \in Elements(s)
    <3>1. i + 1 \in 1..Len(s) /\ Tail(s)[i] = s[i + 1]
      BY <1>1, <1>2
    <3> QED BY <3>1 DEF Elements
  <2> QED BY <2>1, <2>2 DEF Elements
<1> QED BY <1>1, <1>3, <1>4 DEF Closing

\* What is on offer after one event, after none, and after two.
LEMMA ClosingOfOne ==
  ASSUME NEW e \in EventKinds
  PROVE  /\ <<e>> \in Seq(EventKinds)
         /\ Closing(<<e>>) = {e} \cap {"session_completed", "session_failed"}
<1>1. Elements(<<e>>) = {e}
  BY DEF Elements
<1>2. <<e>> \in Seq(EventKinds)
  OBVIOUS
<1> QED BY <1>1, <1>2 DEF Closing

LEMMA ClosingOfNone == << >> \in Seq(EventKinds) /\ Closing(<< >>) = {}
<1>1. << >> \in Seq(EventKinds) /\ DOMAIN << >> = {}
  OBVIOUS
<1> QED BY <1>1 DEF Closing, Elements

LEMMA ClosingOfTwo ==
  ASSUME NEW e \in EventKinds, NEW f \in EventKinds
  PROVE  /\ <<e, f>> \in Seq(EventKinds)
         /\ Closing(<<e, f>>) = {e, f} \cap {"session_completed", "session_failed"}
<1>1. Elements(<<e, f>>) = {e, f}
  <2>1. DOMAIN <<e, f>> = {1, 2} /\ <<e, f>>[1] = e /\ <<e, f>>[2] = f
    OBVIOUS
  <2> QED BY <2>1 DEF Elements
<1>2. <<e, f>> \in Seq(EventKinds)
  OBVIOUS
<1> QED BY <1>1, <1>2 DEF Closing

\* normalize: a completion is announced by the line of a result, a failure by
\* the line of an error, and nothing by any other line.
LEMMA LineAnnounces ==
  ASSUME NEW line \in Lines, line # "oversized"
  PROVE  /\ Normalized[line] \in Seq(EventKinds)
         /\ Closing(Normalized[line]) =
              IF line = "result" THEN {"session_completed"}
              ELSE IF line = "error" THEN {"session_failed"} ELSE {}
<1>1. line \in {"system", "housekeeping", "message", "plan", "edit", "tool_result",
               "unparsable", "result", "error"}
  BY DEF Lines, Normalized
<1>2. CASE line = "housekeeping"
  BY <1>2, ClosingOfNone DEF Normalized
<1>3. CASE line \in {"system", "message", "plan", "unparsable"}
  <2>1. PICK e \in {"session_started", "assistant_message", "plan", "warning"} :
          Normalized[line] = <<e>>
    BY <1>3 DEF Normalized
  <2> QED BY <2>1, <1>3, ClosingOfOne DEF EventKinds
<1>4. CASE line \in {"edit", "tool_result"}
  <2>1. PICK e \in {"tool_requested", "tool_output"},
             f \in {"file_written", "tool_completed"} : Normalized[line] = <<e, f>>
    BY <1>4 DEF Normalized
  <2>2. Normalized[line] \in Seq(EventKinds)
        /\ Closing(Normalized[line]) = {e, f} \cap {"session_completed", "session_failed"}
    <3>1. e \in EventKinds /\ f \in EventKinds
      BY DEF EventKinds
    <3> QED BY <2>1, <3>1, ClosingOfTwo
  <2>3. {e, f} \cap {"session_completed", "session_failed"} = {}
    OBVIOUS
  <2> QED BY <2>2, <2>3, <1>4
<1>5. CASE line \in {"result", "error"}
  <2>1. PICK e \in {"cost_update"}, f \in {"session_completed", "session_failed"} :
          /\ Normalized[line] = <<e, f>>
          /\ f = IF line = "result" THEN "session_completed" ELSE "session_failed"
    BY <1>5 DEF Normalized
  <2>2. Normalized[line] \in Seq(EventKinds)
        /\ Closing(Normalized[line]) = {e, f} \cap {"session_completed", "session_failed"}
    <3>1. e \in EventKinds /\ f \in EventKinds
      BY DEF EventKinds
    <3> QED BY <2>1, <3>1, ClosingOfTwo
  <2>3. {e, f} \cap {"session_completed", "session_failed"} = {f}
    OBVIOUS
  <2> QED BY <2>1, <2>2, <2>3, <1>5
<1> QED BY <1>1, <1>2, <1>3, <1>4, <1>5

\* The script of the fake adapter announces its completion with its last item.
LEMMA ScriptItems ==
  /\ Len(FakeScript) = 14
  /\ \A i \in 1..14 :
       /\ FakeScript[i] \in (EventKinds \ {"session_failed"}) \cup {"stop?"}
       /\ FakeScript[i] = "session_completed" <=> i = 14
BY DEF FakeScript, EventKinds

-----------------------------------------------------------------------------
(* The initial states and the steps.                                       *)

\* Nothing has been announced before the session starts.
LEMMA InitSession == Init => SessionInv
<1> SUFFICES ASSUME Init PROVE SessionInv
  OBVIOUS
<1>1. sess = [pc |-> "none", out |-> << >>, at |-> 1, result |-> FALSE,
              failed |-> FALSE, scanErr |-> FALSE, err |-> "none"]
      /\ sent = {}
  BY DEF Init
<1>2. sess \in SessionShape
  BY <1>1, ClosingOfNone, ScriptItems DEF SessionShape
<1>3. cli \in CliShape
  BY SessionAssumption DEF Init, CliShape
<1>4. exec \in ExecutorShape
  BY DEF Init, ExecutorShape
<1>5. pipe \in Seq(Lines)
  BY DEF Init
<1>6. ShapesOK
  BY <1>1, <1>2, <1>3, <1>4, <1>5, SessionAssumption DEF Init, ShapesOK, Contexts
<1>7. ProcessOK
  BY <1>1 DEF Init, ProcessOK
<1>8. Announced = {}
  BY <1>1, ClosingOfNone DEF Announced
<1>9. EventsOK
  BY <1>1, <1>8 DEF EventsOK
<1> QED BY <1>6, <1>7, <1>9 DEF SessionInv

\* What was announced depends on the session and on what the executor received.
LEMMA EventsStay ==
  ASSUME SessionInv, UNCHANGED <<adapter, sess, sent>>
  PROVE  EventsOK'
BY DEF SessionInv, EventsOK, ClaudeOK, FakeOK, Completed, Failed, Announced

\* The CLI, its tools and os/exec's watcher.
LEMMA CliStep ==
  ASSUME SessionInv, Cli \/ Watcher
  PROVE  SessionInv'
<1>1. UNCHANGED <<adapter, ctx, runctx, sess, exec, sent>>
  BY DEF Cli, Watcher, CliWrites, CliStartsTool, ToolEnds, CliExits, KillGroup,
         WaitDelayPasses
<1>2. EventsOK'
  BY <1>1, EventsStay
<1>3. cli' \in CliShape /\ (cli'.main = "running" => cli.main = "running")
  <2>1. ASSUME NEW line \in Lines, CliWrites(line)
        PROVE  cli' \in CliShape /\ cli'.main = cli.main
    BY <2>1, SessionAssumption DEF CliWrites, SessionInv, ShapesOK, CliShape
  <2>2. ASSUME NEW kind \in {"grouped", "escaped"}, CliStartsTool(kind)
        PROVE  cli' \in CliShape /\ cli'.main = cli.main
    BY <2>2 DEF CliStartsTool, SessionInv, ShapesOK, CliShape
  <2>3. CASE ToolEnds
    BY <2>3 DEF ToolEnds, SessionInv, ShapesOK, CliShape
  <2>4. ASSUME NEW how \in {"ok", "error"}, CliExits(how)
        PROVE  cli' \in CliShape /\ cli'.main = how
    BY <2>4 DEF CliExits, SessionInv, ShapesOK, CliShape
  <2>5. CASE KillGroup
    BY <2>5 DEF KillGroup, SessionInv, ShapesOK, CliShape
  <2>6. CASE WaitDelayPasses
    BY <2>6 DEF WaitDelayPasses, SessionInv, ShapesOK, CliShape
  <2> QED BY <2>1, <2>2, <2>3, <2>4, <2>5, <2>6 DEF Cli, Watcher
<1>4. pipe' \in Seq(Lines) /\ shut' \in BOOLEAN
  <2>1. ASSUME NEW line \in Lines, CliWrites(line) PROVE pipe' \in Seq(Lines) /\ shut' = shut
    BY <2>1 DEF CliWrites, SessionInv, ShapesOK
  <2>2. CASE WaitDelayPasses
    BY <2>2 DEF WaitDelayPasses, SessionInv, ShapesOK
  <2>3. CASE UNCHANGED <<pipe, shut>>
    BY <2>3 DEF SessionInv, ShapesOK
  <2>4. (\E line \in Lines : CliWrites(line)) \/ WaitDelayPasses \/ UNCHANGED <<pipe, shut>>
    BY DEF Cli, Watcher, CliStartsTool, ToolEnds, CliExits, KillGroup
  <2> QED
    <3>1. CASE \E line \in Lines : CliWrites(line)
      BY <3>1, <2>1 DEF SessionInv, ShapesOK
    <3> QED BY <3>1, <2>2, <2>3, <2>4
<1>5. ShapesOK'
  BY <1>1, <1>3, <1>4 DEF SessionInv, ShapesOK
<1>6. ProcessOK'
  BY <1>1, <1>3 DEF SessionInv, ProcessOK
<1> QED BY <1>2, <1>5, <1>6 DEF SessionInv

\* run: the events of a line announce what normalize recorded of it.
LEMMA ScanLineStep ==
  ASSUME SessionInv, ScanLine
  PROVE  SessionInv'
<1> DEFINE line == Head(pipe)
<1>1. line \in Lines /\ Tail(pipe) \in Seq(Lines)
  BY DEF SessionInv, ShapesOK, ScanLine
<1> HIDE DEF line
<1>2. /\ adapter = "claude" /\ sess.pc = "run" /\ sess.out = << >>
      /\ pipe' = Tail(pipe)
      /\ UNCHANGED <<adapter, ctx, runctx, cli, shut, exec, sent>>
  BY DEF ScanLine, SessionAt
<1>3. sess \in SessionShape /\ ClaudeOK /\ Announced = sent
  BY <1>2, ClosingOfNone DEF SessionInv, ShapesOK, EventsOK, Announced
<1>4. CASE line = "oversized"
  <2>1. sess' = [sess EXCEPT !.pc = "wait", !.scanErr = TRUE]
    BY <1>4 DEF ScanLine, line
  <2>2. /\ sess' \in SessionShape /\ sess'.pc = "wait" /\ sess'.out = sess.out
        /\ sess'.result = sess.result /\ sess'.failed = sess.failed /\ sess'.err = sess.err
    BY <2>1, <1>3 DEF SessionShape
  <2>3. Announced' = Announced
    BY <2>2, <1>2 DEF Announced
  <2>4. ClaudeOK'
    BY <2>2, <2>3, <1>3 DEF ClaudeOK, Completed, Failed
  <2>5. EventsOK'
    BY <2>2, <2>4, <1>2 DEF EventsOK
  <2>6. ProcessOK'
    BY <2>2, <1>2 DEF SessionInv, ProcessOK
  <2>7. ShapesOK'
    BY <2>2, <1>1, <1>2 DEF SessionInv, ShapesOK, line
  <2> QED BY <2>5, <2>6, <2>7 DEF SessionInv
<1>5. CASE line # "oversized"
  <2>1. sess' = [sess EXCEPT !.out = Normalized[line],
                             !.result = @ \/ line \in {"result", "error"},
                             !.failed = @ \/ line = "error",
                             !.err = IF line = "error" THEN "agent" ELSE @]
    BY <1>5 DEF ScanLine, line
  <2>2. /\ Normalized[line] \in Seq(EventKinds)
        /\ Closing(Normalized[line]) =
             IF line = "result" THEN {"session_completed"}
             ELSE IF line = "error" THEN {"session_failed"} ELSE {}
    BY <1>1, <1>5, LineAnnounces
  <2>3. /\ sess' \in SessionShape /\ sess'.pc = "run" /\ sess'.out = Normalized[line]
        /\ sess'.result = (sess.result \/ line \in {"result", "error"})
        /\ sess'.failed = (sess.failed \/ line = "error")
        /\ sess'.err = IF line = "error" THEN "agent" ELSE sess.err
    BY <2>1, <2>2, <1>2, <1>3 DEF SessionShape
  <2>4. Announced' = Announced \cup Closing(Normalized[line])
    BY <2>3, <1>2, <1>3 DEF Announced
  <2>5. ClaudeOK'
    BY <2>2, <2>3, <2>4, <1>3 DEF ClaudeOK, Completed, Failed, SessionShape
  <2>6. EventsOK'
    BY <2>3, <2>5, <1>2 DEF EventsOK
  <2>7. ProcessOK'
    BY <2>3, <1>2 DEF SessionInv, ProcessOK
  <2>8. ShapesOK'
    BY <2>3, <1>1, <1>2 DEF SessionInv, ShapesOK, line
  <2> QED BY <2>6, <2>7, <2>8 DEF SessionInv
<1> QED BY <1>4, <1>5

\* run, when the scan ends: whether it was cut short is all that is added.
LEMMA ScanEndsStep ==
  ASSUME SessionInv, ScanEnds
  PROVE  SessionInv'
<1>1. /\ adapter = "claude" /\ sess.pc = "run" /\ sess.out = << >>
      /\ UNCHANGED <<adapter, ctx, runctx, cli, pipe, shut, exec, sent>>
      /\ sess' = [sess EXCEPT !.pc = "wait", !.scanErr = shut]
  BY DEF ScanEnds, SessionAt
<1>2. /\ sess' \in SessionShape /\ sess'.pc = "wait" /\ sess'.out = sess.out
      /\ sess'.result = sess.result /\ sess'.failed = sess.failed /\ sess'.err = sess.err
  BY <1>1 DEF SessionInv, ShapesOK, SessionShape
<1>3. ClaudeOK /\ Announced' = Announced
  BY <1>1, <1>2 DEF SessionInv, EventsOK, Announced
<1>4. ClaudeOK'
  BY <1>2, <1>3 DEF ClaudeOK, Completed, Failed
<1>5. EventsOK'
  BY <1>1, <1>2, <1>4 DEF EventsOK
<1>6. ProcessOK'
  BY <1>1, <1>2 DEF SessionInv, ProcessOK
<1>7. ShapesOK'
  BY <1>1, <1>2 DEF SessionInv, ShapesOK
<1> QED BY <1>5, <1>6, <1>7 DEF SessionInv

\* finish: whatever ended the session, what it announces last agrees with the
\* error it leaves for Wait.
LEMMA WaitReturnsStep ==
  ASSUME SessionInv, WaitReturns
  PROVE  SessionInv'
<1>1. /\ adapter = "claude" /\ sess.pc = "wait" /\ sess.out = << >>
      /\ cli.main # "running"
      /\ runctx' \in {runctx, "cancelled"}
      /\ UNCHANGED <<adapter, ctx, cli, pipe, shut, exec, sent>>
      /\ sess' = Finished(sess, runctx, cli.main # "ok" \/ cli.tool # "none")
  BY DEF WaitReturns, SessionAt
<1>2. sess \in SessionShape /\ ClaudeOK /\ Announced = sent /\ runctx \in Contexts
  BY <1>1, ClosingOfNone DEF SessionInv, ShapesOK, EventsOK, Announced
<1>3. /\ <<"session_failed">> \in Seq(EventKinds)
      /\ Closing(<<"session_failed">>) = {"session_failed"}
  <2>1. "session_failed" \in EventKinds
    BY DEF EventKinds
  <2> QED BY <2>1, ClosingOfOne
<1>4. CASE ~sess.failed /\ sess' # [sess EXCEPT !.pc = "end"]
  <2>1. \E e \in {"agent", "cancelled", "deadline"} :
          sess' = [sess EXCEPT !.pc = "end", !.out = <<"session_failed">>, !.err = e]
    BY <1>1, <1>2, <1>4 DEF Finished, Contexts
  <2>2. /\ sess' \in SessionShape /\ sess'.pc = "end" /\ sess'.out = <<"session_failed">>
        /\ sess'.err # "none"
    BY <2>1, <1>2, <1>3 DEF SessionShape
  <2>3. Failed'
    BY <2>2, <1>3 DEF Failed, Announced
  <2>4. EventsOK'
    BY <2>2, <2>3, <1>1 DEF EventsOK
  <2>5. ProcessOK'
    BY <2>2, <1>1 DEF SessionInv, ProcessOK
  <2>6. ShapesOK'
    BY <2>2, <1>1 DEF SessionInv, ShapesOK, Contexts
  <2> QED BY <2>4, <2>5, <2>6 DEF SessionInv
<1>5. CASE sess' = [sess EXCEPT !.pc = "end"]
  <2>1. /\ sess' \in SessionShape /\ sess'.pc = "end" /\ sess'.out = sess.out
        /\ sess'.result = sess.result /\ sess'.failed = sess.failed /\ sess'.err = sess.err
    BY <1>5, <1>2 DEF SessionShape
  <2>2. sess.failed \/ sess.result
    <3>1. [sess EXCEPT !.pc = "end", !.out = <<"session_failed">>, !.err = runctx].out
            = <<"session_failed">>
          /\ [sess EXCEPT !.pc = "end", !.out = <<"session_failed">>, !.err = "agent"].out
            = <<"session_failed">>
      BY <1>2 DEF SessionShape
    <3>2. <<"session_failed">> # << >>
      OBVIOUS
    <3> QED BY <3>1, <3>2, <2>1, <1>1 DEF Finished
  <2>3. Announced' = Announced
    BY <2>1, <1>1 DEF Announced
  <2>4. EventsOK'
    BY <2>1, <2>2, <2>3, <1>2 DEF EventsOK, ClaudeOK, Completed, Failed
  <2>5. ProcessOK'
    BY <2>1, <1>1 DEF SessionInv, ProcessOK
  <2>6. ShapesOK'
    BY <2>1, <1>1 DEF SessionInv, ShapesOK, Contexts
  <2> QED BY <2>4, <2>5, <2>6 DEF SessionInv
<1> QED BY <1>1, <1>4, <1>5 DEF Finished

\* The scripted adapter offers its next item, or ends with its context.
LEMMA FakeStepStep ==
  ASSUME SessionInv, FakeStep
  PROVE  SessionInv'
<1>1. /\ adapter = "fake" /\ sess.pc = "run" /\ sess.out = << >>
      /\ UNCHANGED <<adapter, ctx, runctx, cli, pipe, shut, exec, sent>>
  BY DEF FakeStep, SessionAt
<1>2. sess \in SessionShape /\ FakeOK /\ Announced = sent /\ sess.at \in 1..15
  BY <1>1, ClosingOfNone, ScriptItems
  DEF SessionInv, ShapesOK, EventsOK, Announced, SessionShape
<1> DEFINE Fails == [sess EXCEPT !.pc = "end", !.out = <<"session_failed">>, !.err = "agent"]
           Goes == [sess EXCEPT !.at = @ + 1]
           Says == [Goes EXCEPT !.out = <<FakeScript[sess.at]>>]
<1>3. \/ sess.at = 15 /\ sess' = [sess EXCEPT !.pc = "end"]
      \/ sess' = Fails
      \/ sess.at \in 1..14 /\ FakeScript[sess.at] = "stop?" /\ sess' = Goes
      \/ sess.at \in 1..14 /\ FakeScript[sess.at] # "stop?" /\ sess' = Says
  BY <1>2, ScriptItems DEF FakeStep
<1>4. sess' \in SessionShape /\ EventsOK' /\ sess'.pc \in {"run", "end"}
  <2>1. CASE sess.at = 15 /\ sess' = [sess EXCEPT !.pc = "end"]
    <3>1. /\ sess' \in SessionShape /\ sess'.pc = "end" /\ sess'.out = sess.out
          /\ sess'.err = sess.err
      BY <2>1, <1>2 DEF SessionShape
    <3>2. Announced' = Announced
      BY <3>1, <1>1 DEF Announced
    <3> QED BY <3>1, <3>2, <2>1, <1>2, ScriptItems DEF EventsOK, FakeOK, Completed, Failed
  <2>2. CASE sess' = Fails
    <3>1. /\ <<"session_failed">> \in Seq(EventKinds)
          /\ Closing(<<"session_failed">>) = {"session_failed"}
      <4>1. "session_failed" \in EventKinds
        BY DEF EventKinds
      <4> QED BY <4>1, ClosingOfOne
    <3>2. /\ sess' \in SessionShape /\ sess'.pc = "end"
          /\ sess'.out = <<"session_failed">> /\ sess'.err = "agent"
      BY <2>2, <3>1, <1>2 DEF SessionShape
    <3>3. Failed'
      BY <3>1, <3>2 DEF Failed, Announced
    <3> QED BY <3>2, <3>3 DEF EventsOK
  <2>3. CASE sess.at \in 1..14 /\ FakeScript[sess.at] = "stop?" /\ sess' = Goes
    <3>1. sess.at + 1 \in 1..14
      BY <2>3, ScriptItems
    <3>2. /\ sess' \in SessionShape /\ sess'.pc = "run" /\ sess'.out = sess.out
          /\ sess'.err = sess.err /\ sess'.at = sess.at + 1
      BY <2>3, <3>1, <1>1, <1>2, ScriptItems DEF SessionShape
    <3>3. Announced' = Announced
      BY <3>2, <1>1 DEF Announced
    <3>4. FakeOK'
      BY <3>1, <3>2, <3>3, <1>2, ScriptItems DEF FakeOK, Completed, Failed
    <3> QED BY <3>2, <3>4, <1>1 DEF EventsOK
  <2>4. CASE sess.at \in 1..14 /\ FakeScript[sess.at] # "stop?" /\ sess' = Says
    <3> DEFINE item == FakeScript[sess.at]
    <3>1. /\ item \in EventKinds /\ item # "session_failed"
          /\ sess.at + 1 = 15 => item = "session_completed"
      BY <2>4, ScriptItems
    <3>2. sess' = [sess EXCEPT !.at = sess.at + 1, !.out = <<item>>]
      BY <2>4, <1>2 DEF SessionShape
    <3> HIDE DEF item
    <3>3. /\ <<item>> \in Seq(EventKinds)
          /\ Closing(<<item>>) = {item} \cap {"session_completed", "session_failed"}
      BY <3>1, ClosingOfOne
    <3>4. /\ sess' \in SessionShape /\ sess'.pc = "run" /\ sess'.out = <<item>>
          /\ sess'.err = sess.err /\ sess'.at = sess.at + 1
      <4>1. sess.at + 1 \in 1..(Len(FakeScript) + 1)
        BY <2>4, ScriptItems
      <4> QED BY <4>1, <3>2, <3>3, <1>1, <1>2 DEF SessionShape
    <3>5. Announced' = Announced \cup Closing(<<item>>)
      BY <3>4, <1>1, <1>2 DEF Announced
    <3>6. FakeOK'
      <4>1. sess'.at = Len(FakeScript) + 1 => "session_completed" \in Closing(<<item>>)
        <5>1. sess'.at = Len(FakeScript) + 1 => item = "session_completed"
          BY <3>1, <3>4, ScriptItems
        <5>2. item = "session_completed" => "session_completed" \in Closing(<<item>>)
          BY <3>3
        <5> QED BY <5>1, <5>2
      <4>2. "session_failed" \notin Closing(<<item>>)
        BY <3>1, <3>3
      <4> QED BY <4>1, <4>2, <3>4, <3>5, <1>2 DEF FakeOK, Completed, Failed
    <3> QED BY <3>4, <3>6, <1>1 DEF EventsOK
  <2> QED BY <1>3, <2>1, <2>2, <2>3, <2>4
<1>5. ProcessOK'
  BY <1>1, <1>4 DEF SessionInv, ProcessOK
<1>6. ShapesOK'
  BY <1>1, <1>4 DEF SessionInv, ShapesOK
<1> QED BY <1>4, <1>5, <1>6 DEF SessionInv

\* The channel is closed with nothing on offer.
LEMMA SessionClosesStep ==
  ASSUME SessionInv, SessionCloses
  PROVE  SessionInv'
<1>1. /\ sess.pc = "end" /\ sess.out = << >>
      /\ UNCHANGED <<adapter, ctx, runctx, cli, pipe, shut, exec, sent>>
      /\ sess' = [sess EXCEPT !.pc = "closed"]
  BY DEF SessionCloses, SessionAt
<1>2. /\ sess' \in SessionShape /\ sess'.pc = "closed" /\ sess'.out = << >>
      /\ sess'.err = sess.err
  BY <1>1 DEF SessionInv, ShapesOK, SessionShape
<1>3. Announced' = Announced
  BY <1>1, <1>2 DEF Announced
<1>4. EventsOK'
  BY <1>1, <1>2, <1>3 DEF SessionInv, EventsOK, Completed, Failed
<1>5. ProcessOK'
  BY <1>1, <1>2 DEF SessionInv, ProcessOK
<1>6. ShapesOK'
  BY <1>1, <1>2 DEF SessionInv, ShapesOK
<1> QED BY <1>4, <1>5, <1>6 DEF SessionInv

\* The rendezvous on the events channel: what is taken off it was announced.
LEMMA ReceiveStep ==
  ASSUME SessionInv, Receive
  PROVE  SessionInv'
<1>1. /\ sess.out # << >>
      /\ UNCHANGED <<adapter, ctx, runctx, cli, pipe, shut>>
      /\ sess' = [sess EXCEPT !.out = Tail(sess.out)]
      /\ sent' = sent \cup ({Head(sess.out)} \cap {"session_completed", "session_failed"})
      /\ \/ exec.pc = "loop"
            /\ exec' = [exec EXCEPT !.pc = "append", !.ev = Head(sess.out)]
         \/ exec' = exec
  BY DEF Receive
<1>2. sess \in SessionShape /\ sess.out \in Seq(EventKinds)
  BY DEF SessionInv, ShapesOK, SessionShape
<1>3. /\ Head(sess.out) \in EventKinds /\ Tail(sess.out) \in Seq(EventKinds)
      /\ Closing(sess.out) =
           ({Head(sess.out)} \cap {"session_completed", "session_failed"})
             \cup Closing(Tail(sess.out))
  BY <1>1, <1>2, ClosingOfTail
<1>4. /\ sess' \in SessionShape /\ sess'.out = Tail(sess.out)
      /\ sess'.pc = sess.pc /\ sess'.err = sess.err /\ sess'.at = sess.at
      /\ sess'.failed = sess.failed /\ sess'.result = sess.result
  BY <1>1, <1>2, <1>3 DEF SessionShape
<1>5. Announced' = Announced
  BY <1>1, <1>3, <1>4 DEF Announced
<1>6. sess.pc # "closed"
  BY <1>1 DEF SessionInv, EventsOK
<1>7. EventsOK'
  BY <1>1, <1>4, <1>5, <1>6 DEF SessionInv, EventsOK, ClaudeOK, FakeOK, Completed, Failed
<1>8. exec' \in ExecutorShape /\ (exec' = exec \/ exec'.pc = "append")
  BY <1>1, <1>3 DEF SessionInv, ShapesOK, ExecutorShape
<1>9. ProcessOK'
  BY <1>1, <1>4, <1>8 DEF SessionInv, ProcessOK
<1>10. sent' \subseteq {"session_completed", "session_failed"}
  BY <1>1 DEF SessionInv, ShapesOK
<1>11. ShapesOK'
  BY <1>1, <1>4, <1>8, <1>10 DEF SessionInv, ShapesOK
<1> QED BY <1>7, <1>9, <1>11 DEF SessionInv

\* runAgentStages starts a session, or learns that it cannot be started.
LEMMA StartStep ==
  ASSUME SessionInv, Start
  PROVE  SessionInv'
<1>1. /\ exec.pc = "start" /\ sess.pc = "none"
      /\ UNCHANGED <<adapter, ctx, runctx, pipe, shut, sent>>
  BY DEF Start, SessionInv, ProcessOK
<1>2. /\ sess \in SessionShape /\ exec \in ExecutorShape /\ cli \in CliShape
      /\ adapter \in {"claude", "fake"} /\ cli.main # "running"
  BY <1>1 DEF SessionInv, ShapesOK, ProcessOK
<1>3. CASE End("agent_start_failed") /\ UNCHANGED <<sess, cli>>
  <2>1. exec' \in ExecutorShape /\ exec'.pc = "ended"
    BY <1>2, <1>3 DEF End, ExecutorShape
  <2>2. EventsOK'
    BY <1>1, <1>3, EventsStay
  <2>3. ProcessOK'
    BY <2>1, <1>1, <1>2, <1>3 DEF ProcessOK
  <2>4. ShapesOK'
    BY <2>1, <1>1, <1>3 DEF SessionInv, ShapesOK
  <2> QED BY <2>2, <2>3, <2>4 DEF SessionInv
<1>4. CASE /\ exec' = [exec EXCEPT !.pc = "loop"]
           /\ sess' = [sess EXCEPT !.pc = "run"]
           /\ cli' = IF adapter = "claude" THEN [cli EXCEPT !.main = "running"] ELSE cli
  <2>1. exec' \in ExecutorShape /\ exec'.pc = "loop"
    BY <1>2, <1>4 DEF ExecutorShape
  <2>2. /\ sess' \in SessionShape /\ sess'.pc = "run" /\ sess'.out = sess.out
        /\ sess'.err = sess.err /\ sess'.at = sess.at
        /\ sess'.failed = sess.failed /\ sess'.result = sess.result
    BY <1>2, <1>4 DEF SessionShape
  <2>3. cli' \in CliShape /\ (cli'.main = "running" => adapter = "claude")
    BY <1>2, <1>4 DEF CliShape
  <2>4. Announced' = Announced
    BY <2>2, <1>1 DEF Announced
  <2>5. /\ sess.at = 1 /\ Announced = {} /\ sess.err = "none"
        /\ ~sess.failed /\ ~sess.result
    BY <1>1 DEF SessionInv, EventsOK
  <2>6. ClaudeOK' /\ FakeOK'
    BY <2>2, <2>4, <2>5, ScriptItems DEF ClaudeOK, FakeOK, Completed, Failed
  <2>7. EventsOK'
    BY <2>2, <2>6 DEF EventsOK
  <2>8. ProcessOK'
    BY <2>1, <2>2, <2>3, <1>1 DEF ProcessOK
  <2>9. ShapesOK'
    BY <2>1, <2>2, <2>3, <1>1 DEF SessionInv, ShapesOK
  <2> QED BY <2>7, <2>8, <2>9 DEF SessionInv
<1> QED BY <1>3, <1>4 DEF Start

\* The executor's loop, stopSession and the attempt's context: the executor is
\* past its session only once that session has closed its channel.
LEMMA ExecutorStep ==
  ASSUME SessionInv,
         \/ AppendEvent \/ CtxInterrupts \/ EventsClosed \/ Stopped \/ WaitResult
         \/ \E how \in {"cancelled", "deadline"} : CtxDone(how)
  PROVE  SessionInv'
<1>1. UNCHANGED <<adapter, cli, pipe, shut, sess, sent>>
  BY DEF AppendEvent, CtxInterrupts, EventsClosed, Stopped, WaitResult, CtxDone
<1>2. EventsOK'
  BY <1>1, EventsStay
<1>3. ctx' \in Contexts /\ runctx' \in Contexts
  BY DEF SessionInv, ShapesOK, Contexts, AppendEvent, CtxInterrupts, EventsClosed, Stopped,
         WaitResult, CtxDone, StopSession
<1>4. exec \in ExecutorShape
  BY DEF SessionInv, ShapesOK
<1>5. /\ exec' \in ExecutorShape
      /\ \/ exec' = exec
         \/ exec.pc \notin {"start", "ended"} /\ exec'.pc \in {"loop", "stop"}
         \/ exec'.pc \in {"wait", "ended"} /\ sess.pc = "closed"
  <2>1. CASE AppendEvent
    BY <2>1, <1>4 DEF AppendEvent, StopSession, ExecutorShape
  <2>2. CASE CtxInterrupts
    BY <2>2, <1>4 DEF CtxInterrupts, StopSession, ExecutorShape
  <2>3. CASE EventsClosed
    BY <2>3, <1>4 DEF EventsClosed, ExecutorShape
  <2>4. CASE Stopped
    BY <2>4, <1>4 DEF Stopped, End, ExecutorShape
  <2>5. CASE WaitResult
    <3>1. sess.pc = "closed"
      BY <2>5 DEF WaitResult, SessionInv, ProcessOK
    <3> QED BY <3>1, <2>5, <1>4 DEF WaitResult, End, ExecutorShape
  <2>6. CASE \E how \in {"cancelled", "deadline"} : CtxDone(how)
    BY <2>6, <1>4 DEF CtxDone
  <2> QED BY <2>1, <2>2, <2>3, <2>4, <2>5, <2>6
<1>6. ProcessOK'
  BY <1>1, <1>5 DEF SessionInv, ProcessOK
<1>7. ShapesOK'
  BY <1>1, <1>3, <1>5 DEF SessionInv, ShapesOK
<1> QED BY <1>2, <1>6, <1>7 DEF SessionInv

-----------------------------------------------------------------------------
(* The theorems.                                                           *)

\* agent/claude.go, agent/fake.go, runner/executor.go: in every reachable state
\* a running CLI belongs to a session that still waits for it, the executor is
\* past the session only when that has closed its channel, and what the session
\* announced agrees with how far it has come.
THEOREM SessionInvariant == Spec => []SessionInv
<1>1. SessionInv /\ [Next]_vars => SessionInv'
  <2> SUFFICES ASSUME SessionInv, [Next]_vars PROVE SessionInv'
    OBVIOUS
  <2>1. CASE UNCHANGED vars
    BY <2>1 DEF vars, SessionInv, ShapesOK, ProcessOK, EventsOK, ClaudeOK, FakeOK, Completed,
       Failed, Announced
  <2>2. CASE Session
    BY <2>2, ScanLineStep, ScanEndsStep, WaitReturnsStep, FakeStepStep, SessionClosesStep
    DEF Session
  <2>3. CASE Executor
    BY <2>3, StartStep, ExecutorStep DEF Executor
  <2>4. CASE Next /\ ~Session /\ ~Executor
    BY <2>4, CliStep, ReceiveStep, ExecutorStep DEF Next
  <2> QED BY <2>1, <2>2, <2>3, <2>4
<1> QED BY <1>1, InitSession, PTL DEF Spec

\* agent/agent.go and runner/executor.go ("releases only after provider
\* shutdown"): the executor leaves the agent stages with no CLI running and no
\* session open.
THEOREM NoProviderIsLeft == Spec => []NoProviderLeft
<1>1. SessionInv => NoProviderLeft
  BY DEF SessionInv, ProcessOK, NoProviderLeft
<1> QED BY <1>1, SessionInvariant, PTL

\* agent/claude.go and agent/fake.go: what a session announced on its channel is
\* what Wait returns, through every path to its end.
THEOREM OutcomesMatch == Spec => []OutcomeMatchesEvents
<1>1. SessionInv => OutcomeMatchesEvents
  <2> SUFFICES ASSUME SessionInv, sess.pc = "closed"
               PROVE  /\ sess.err = "none" => "session_completed" \in sent
                      /\ sess.err = "none" <=> "session_failed" \notin sent
    BY DEF OutcomeMatchesEvents
  <2>1. Announced = sent
    BY ClosingOfNone DEF SessionInv, EventsOK, Announced
  <2> QED BY <2>1 DEF SessionInv, EventsOK, Completed, Failed
<1> QED BY <1>1, SessionInvariant, PTL

===============================================================================
