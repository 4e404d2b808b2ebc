---------------------------- MODULE AgentSession ----------------------------
(***************************************************************************)
(* One provider session and the executor that consumes it:                 *)
(* apps/api/internal/agent/claude.go (Start, run, normalize, finish),      *)
(* agent/fake.go (the scripted adapter) and runner/executor.go (the        *)
(* session part of runAgentStages, stopSession).                           *)
(*                                                                         *)
(* Five actors: the CLI process, the tool subprocess it started, the       *)
(* session goroutine that scans stdout, the executor's event loop, and     *)
(* os/exec's watcher that kills the process group once the context is      *)
(* done.  The events channel is unbuffered: a sent event is one step of    *)
(* the sender and of its receiver.                                         *)
(***************************************************************************)
EXTENDS Naturals, Sequences

CONSTANTS
  Adapters,   \* the providers a deployment may run: "claude", "fake"
  MaxLines,   \* bound on the lines the CLI prints
  PipeLines   \* lines the stdout pipe holds before a write blocks

ASSUME SessionAssumption ==
  /\ Adapters \subseteq {"claude", "fake"}
  /\ MaxLines \in Nat /\ PipeLines \in Nat \ {0}

VARIABLES
  adapter,  \* the provider of this attempt
  ctx,      \* the attempt's context: lease loss, shutdown, cancel or deadline end it
  runctx,   \* the session's context, a child of ctx that Cancel ends too
  cli,      \* the CLI process, its tool subprocess, the lines it has left
  pipe,     \* lines in the stdout pipe
  shut,     \* the read end was closed under the scanner (WaitDelay)
  sess,     \* the session goroutine
  exec,     \* the executor
  sent      \* history: the closing events that passed through the channel

vars == <<adapter, ctx, runctx, cli, pipe, shut, sess, exec, sent>>

-----------------------------------------------------------------------------
(* What a line of the provider becomes.                                    *)

Normalized ==
  [ system      |-> <<"session_started">>,
    housekeeping |-> << >>,
    message     |-> <<"assistant_message">>,
    plan        |-> <<"plan">>,
    edit        |-> <<"tool_requested", "file_written">>,
    tool_result |-> <<"tool_output", "tool_completed">>,
    unparsable  |-> <<"warning">>,
    result      |-> <<"cost_update", "session_completed">>,
    error       |-> <<"cost_update", "session_failed">> ]

\* "oversized" is a line beyond maxStreamLine: the scanner gives up on it.
Lines == DOMAIN Normalized \cup {"oversized"}

\* The events of the scripted adapter; at "stop?" it looks for a cancellation.
FakeScript ==
  << "session_started", "plan", "stop?", "file_written", "stop?", "file_written",
     "stop?", "tool_requested", "tool_started", "tool_output", "tool_completed",
     "stop?", "assistant_message", "session_completed" >>

Init ==
  /\ adapter \in Adapters
  /\ ctx = "live" /\ runctx = "live"
  /\ cli = [main |-> "none", tool |-> "none", left |-> MaxLines]
  /\ pipe = << >> /\ shut = FALSE
  /\ sess = [pc |-> "none", out |-> << >>, at |-> 1, result |-> FALSE,
             failed |-> FALSE, scanErr |-> FALSE, err |-> "none"]
  /\ \E status \in {"planning", "executing"} :
       exec = [pc |-> "start", ev |-> "none", status |-> status, drain |-> FALSE,
               outcome |-> "none"]
  /\ sent = {}

-----------------------------------------------------------------------------
(* The CLI and its tools.                                                  *)

CliWrites(line) ==
  /\ cli.main = "running" /\ cli.left > 0
  /\ Len(pipe) < PipeLines
  /\ pipe' = Append(pipe, line)
  /\ cli' = [cli EXCEPT !.left = @ - 1]
  /\ UNCHANGED <<adapter, ctx, runctx, shut, sess, exec, sent>>

\* A tool inherits stdout; it is in the CLI's process group ("grouped") unless
\* it made a session of its own ("escaped").
CliStartsTool(kind) ==
  /\ cli.main = "running" /\ cli.tool = "none"
  /\ cli' = [cli EXCEPT !.tool = kind]
  /\ UNCHANGED <<adapter, ctx, runctx, pipe, shut, sess, exec, sent>>

ToolEnds ==
  /\ cli.tool # "none"
  /\ cli' = [cli EXCEPT !.tool = "none"]
  /\ UNCHANGED <<adapter, ctx, runctx, pipe, shut, sess, exec, sent>>

CliExits(how) ==
  /\ cli.main = "running"
  /\ cli' = [cli EXCEPT !.main = how]
  /\ UNCHANGED <<adapter, ctx, runctx, pipe, shut, sess, exec, sent>>

\* cmd.Cancel, called by os/exec once the session's context is done and until
\* cmd.Wait returns: SIGKILL to the process group.
Watched == adapter = "claude" /\ runctx # "live" /\ sess.pc \in {"run", "wait"}

KillGroup ==
  /\ Watched
  /\ cli.main = "running" \/ cli.tool = "grouped"
  /\ cli' = [cli EXCEPT !.main = IF @ = "running" THEN "killed" ELSE @,
                        !.tool = IF @ = "grouped" THEN "none" ELSE @]
  /\ UNCHANGED <<adapter, ctx, runctx, pipe, shut, sess, exec, sent>>

\* WaitDelay after that, os/exec closes the pipes that are still open.
WaitDelayPasses ==
  /\ Watched
  /\ cli.main # "running" /\ cli.tool = "escaped"
  /\ ~shut /\ shut' = TRUE
  /\ UNCHANGED <<adapter, ctx, runctx, cli, pipe, sess, exec, sent>>

-----------------------------------------------------------------------------
(* The session goroutine.                                                  *)

\* It runs on only when no event waits to be received.
SessionAt(pc) == sess.pc = pc /\ sess.out = << >>

\* run, one turn of the scan loop: the line's events, and the state that
\* normalize and fail leave behind.
ScanLine ==
  /\ adapter = "claude" /\ SessionAt("run") /\ ~shut
  /\ pipe # << >>
  /\ pipe' = Tail(pipe)
  /\ LET line == Head(pipe) IN
       sess' = IF line = "oversized"
               THEN [sess EXCEPT !.pc = "wait", !.scanErr = TRUE]
               ELSE [sess EXCEPT !.out = Normalized[line],
                                 !.result = @ \/ line \in {"result", "error"},
                                 !.failed = @ \/ line = "error",
                                 !.err = IF line = "error" THEN "agent" ELSE @]
  /\ UNCHANGED <<adapter, ctx, runctx, cli, shut, exec, sent>>

\* The scan ends when nobody holds the write end of the pipe any more, or when
\* the read end was closed, which is a read error.
ScanEnds ==
  /\ adapter = "claude" /\ SessionAt("run")
  /\ shut \/ (pipe = << >> /\ cli.main # "running" /\ cli.tool = "none")
  /\ sess' = [sess EXCEPT !.pc = "wait", !.scanErr = shut]
  /\ UNCHANGED <<adapter, ctx, runctx, cli, pipe, shut, exec, sent>>

\* Mutant of Finished: a CLI that fails after its result line fails the session
\* without announcing it.
FinishedSilently(s, ctxErr, waitErr) ==
  IF ctxErr # "live" /\ ~s.failed
  THEN [s EXCEPT !.pc = "end", !.out = <<"session_failed">>, !.err = ctxErr]
  ELSE IF ~s.failed /\ (~s.result \/ s.scanErr)
       THEN [s EXCEPT !.pc = "end", !.out = <<"session_failed">>, !.err = "agent"]
       ELSE [s EXCEPT !.pc = "end", !.err = IF waitErr THEN "agent" ELSE @]

\* finish: the event it still emits and the error Wait will return.
Finished(s, ctxErr, waitErr) ==
  IF ctxErr # "live" /\ ~s.failed
  THEN [s EXCEPT !.pc = "end", !.out = <<"session_failed">>, !.err = ctxErr]
  ELSE IF ~s.failed /\ (~s.result \/ s.scanErr \/ waitErr)
       THEN [s EXCEPT !.pc = "end", !.out = <<"session_failed">>, !.err = "agent"]
       ELSE [s EXCEPT !.pc = "end"]

\* cmd.Wait returns once the process is reaped and its stderr is read; a tool
\* that keeps stderr open makes it return ErrWaitDelay.  The context's error is
\* read before the session cancels itself.
WaitReturns ==
  /\ adapter = "claude" /\ SessionAt("wait")
  /\ cli.main # "running"
  /\ sess' = Finished(sess, runctx, cli.main # "ok" \/ cli.tool # "none")
  /\ runctx' = IF runctx = "live" THEN "cancelled" ELSE runctx
  /\ UNCHANGED <<adapter, ctx, cli, pipe, shut, exec, sent>>

\* The scripted adapter's goroutine; editing the workspace can fail.
FakeStep ==
  /\ adapter = "fake" /\ SessionAt("run")
  /\ LET failed == [sess EXCEPT !.pc = "end", !.out = <<"session_failed">>,
                                !.err = "agent"]
         next == [sess EXCEPT !.at = @ + 1]
     IN IF sess.at > Len(FakeScript) THEN sess' = [sess EXCEPT !.pc = "end"]
        ELSE LET item == FakeScript[sess.at] IN
             IF item = "stop?" THEN sess' = IF runctx # "live" THEN failed ELSE next
             ELSE \/ sess' = [next EXCEPT !.out = <<item>>]
                  \/ item = "file_written" /\ sess' = failed
  /\ UNCHANGED <<adapter, ctx, runctx, cli, pipe, shut, exec, sent>>

\* run returns: events is closed, then done.
SessionCloses ==
  /\ SessionAt("end")
  /\ sess' = [sess EXCEPT !.pc = "closed"]
  /\ UNCHANGED <<adapter, ctx, runctx, cli, pipe, shut, exec, sent>>

-----------------------------------------------------------------------------
(* The executor.                                                           *)

End(outcome) == exec' = [exec EXCEPT !.pc = "ended", !.outcome = outcome]

Start ==
  /\ exec.pc = "start"
  /\ \/ /\ exec' = [exec EXCEPT !.pc = "loop"]
        /\ sess' = [sess EXCEPT !.pc = "run"]
        /\ cli' = IF adapter = "claude" THEN [cli EXCEPT !.main = "running"] ELSE cli
     \/ End("agent_start_failed") /\ UNCHANGED <<sess, cli>>
  /\ UNCHANGED <<adapter, ctx, runctx, pipe, shut, sent>>

\* The rendezvous on the events channel: with the loop, or with the goroutine
\* stopSession started to drain it.
Receive ==
  /\ sess.out # << >>
  /\ \/ exec.pc = "loop" /\ exec' = [exec EXCEPT !.pc = "append", !.ev = Head(sess.out)]
     \/ exec.drain /\ exec' = exec
  /\ sess' = [sess EXCEPT !.out = Tail(@)]
  /\ sent' = sent \cup ({Head(sess.out)} \cap {"session_completed", "session_failed"})
  /\ UNCHANGED <<adapter, ctx, runctx, cli, pipe, shut>>

\* Mutant of StopSession: the session is cancelled but its events are not
\* drained.
StopWithoutDrain ==
  /\ exec' = [exec EXCEPT !.pc = "stop"]
  /\ runctx' = IF runctx = "live" THEN "cancelled" ELSE runctx

\* stopSession up to its select: the drain goroutine, and Cancel.
StopSession ==
  /\ exec' = [exec EXCEPT !.pc = "stop", !.drain = TRUE]
  /\ runctx' = IF runctx = "live" THEN "cancelled" ELSE runctx

\* The event is appended to the attempt; the first plan ends planning.
AppendEvent ==
  /\ exec.pc = "append"
  /\ \/ /\ exec' = [exec EXCEPT !.pc = "loop", !.ev = "none",
                                !.status = IF exec.ev = "plan" THEN "executing" ELSE @]
        /\ UNCHANGED runctx
     \/ StopSession
  /\ UNCHANGED <<adapter, ctx, cli, pipe, shut, sess, sent>>

CtxInterrupts ==
  /\ exec.pc = "loop" /\ ctx # "live"
  /\ StopSession
  /\ UNCHANGED <<adapter, ctx, cli, pipe, shut, sess, sent>>

EventsClosed ==
  /\ exec.pc = "loop" /\ sess.pc = "closed"
  /\ exec' = [exec EXCEPT !.pc = "wait"]
  /\ UNCHANGED <<adapter, ctx, runctx, cli, pipe, shut, sess, sent>>

\* Mutant of Stopped: stopSession returns when its timer fires.
StoppedOnTimer ==
  /\ exec.pc = "stop"
  /\ End("interrupted")
  /\ UNCHANGED <<adapter, ctx, runctx, cli, pipe, shut, sess, sent>>

\* stopSession returns when the drained session has ended; its timer only adds
\* an error to what it returns.
Stopped ==
  /\ exec.pc = "stop" /\ sess.pc = "closed"
  /\ End("interrupted")
  /\ UNCHANGED <<adapter, ctx, runctx, cli, pipe, shut, sess, sent>>

\* session.Wait and what follows it, up to the transition to validating.
WaitResult ==
  /\ exec.pc = "wait"
  /\ \/ ctx # "live" /\ End("interrupted")
     \/ sess.err # "none" /\ ctx = "live" /\ End("agent_failed")
     \/ sess.err = "none" /\ (End("validating") \/ End("interrupted"))
  /\ UNCHANGED <<adapter, ctx, runctx, cli, pipe, shut, sess, sent>>

CtxDone(how) ==
  /\ ctx = "live" /\ exec.pc # "ended"
  /\ ctx' = how
  /\ runctx' = IF runctx = "live" THEN how ELSE runctx
  /\ UNCHANGED <<adapter, cli, pipe, shut, sess, exec, sent>>

-----------------------------------------------------------------------------

Cli ==
  \/ \E line \in Lines : CliWrites(line)
  \/ \E kind \in {"grouped", "escaped"} : CliStartsTool(kind)
  \/ ToolEnds
  \/ \E how \in {"ok", "error"} : CliExits(how)

Session == ScanLine \/ ScanEnds \/ WaitReturns \/ FakeStep \/ SessionCloses

Executor ==
  \/ Start \/ AppendEvent \/ CtxInterrupts \/ EventsClosed \/ Stopped \/ WaitResult

Watcher == KillGroup \/ WaitDelayPasses

Next ==
  \/ Cli \/ Session \/ Receive \/ Executor \/ Watcher
  \/ \E how \in {"cancelled", "deadline"} : CtxDone(how)

\* Goroutines and os/exec's watcher run; nothing makes the CLI or a tool go on.
Fairness ==
  /\ WF_vars(Session) /\ WF_vars(Receive) /\ WF_vars(Executor)
  /\ WF_vars(KillGroup) /\ WF_vars(WaitDelayPasses)

Spec == Init /\ [][Next]_vars /\ Fairness

-----------------------------------------------------------------------------
(* Properties.                                                             *)

TypeOK ==
  /\ adapter \in Adapters
  /\ ctx \in {"live", "cancelled", "deadline"} /\ runctx \in {"live", "cancelled", "deadline"}
  /\ cli \in [main : {"none", "running", "ok", "error", "killed"},
              tool : {"none", "grouped", "escaped"}, left : 0..MaxLines]
  /\ pipe \in Seq(Lines) /\ Len(pipe) <= PipeLines
  /\ shut \in BOOLEAN
  /\ sess.pc \in {"none", "run", "wait", "end", "closed"}
  /\ sess.err \in {"none", "agent", "cancelled", "deadline"}
  /\ exec.pc \in {"start", "loop", "append", "wait", "stop", "ended"}
  /\ exec.status \in {"planning", "executing"}

\* agent/agent.go and runner/executor.go ("releases only after provider
\* shutdown"): the executor leaves the agent stages, after which it cleans the
\* workspace up and gives the lease away, only when the session is over and the
\* CLI it started is no longer running, however the session came to its end.
NoProviderLeft ==
  exec.pc = "ended" =>
    sess.pc \in {"none", "closed"} /\ cli.main # "running"

\* agent/claude.go and agent/fake.go: what a session reported on its channel is
\* what Wait returns.  A session that ends without an error announced its
\* completion and no failure, and one that ends with an error announced a
\* failure, through every path: an error result, a crash after a result, a
\* truncated stream, a kill.
OutcomeMatchesEvents ==
  sess.pc = "closed" =>
    /\ sess.err = "none" => "session_completed" \in sent
    /\ sess.err = "none" <=> "session_failed" \notin sent

\* runner/executor.go, stopSession, and agent/claude.go: once the attempt's
\* context is done, or an event could not be recorded, the executor gets out of
\* the session, although the provider may block on a full pipe, never exit by
\* itself, or leave a tool behind that holds its stdout.
SessionEnds ==
  (exec.pc # "start" /\ (ctx # "live" \/ exec.pc = "stop")) ~> exec.pc = "ended"
=============================================================================
