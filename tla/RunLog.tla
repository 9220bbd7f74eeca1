------------------------------- MODULE RunLog -------------------------------
(***************************************************************************)
(* The log of one agent run (worker/src/run-logs, packages/agent-runs): an *)
(* input bundle and a started row before the work, a transcript and a      *)
(* finished row after it, each written under a deadline that gives a write *)
(* up without undoing it, and the retention that forgets the run's day.    *)
(*                                                                         *)
(* A response is the sequence of its blocks.  A tool is known by its       *)
(* response and its place there.  Every line of a transcript has size 1.   *)
(***************************************************************************)
EXTENDS Integers, SequencesExt

CONSTANTS
  MaxTurns,   \* bound: responses of the model in one run
  MaxBlocks,  \* bound: blocks of one response
  Cap         \* TRANSCRIPT_MAX_BYTES

\* MIN_TRANSCRIPT_BYTES: the cap is larger than the reserve and the longest stop line.
ASSUME RunLogAssumption ==
  /\ MaxTurns \in Nat \ {0} /\ MaxBlocks \in Nat \ {0}
  /\ Cap \in Nat /\ Cap > 3

VARIABLES
  logging,    \* where withRunLog is
  gateway,    \* which of the gateways the run talks through
  said,       \* the model's responses so far
  answered,   \* the tools that have given their result
  pending,    \* SdkStreamTranscriber: the response being assembled
  held,       \* SdkStreamTranscriber: what is kept back until it is emitted
  logger,     \* RunLogger
  wrote,      \* the objects whose write was confirmed
  sealed,     \* the transcript as it was serialized
  kept,       \* what storage and database hold
  late,       \* writes given up at their deadline that may still land
  expired     \* the run's day is past the project's retention

talkVars == <<said, answered, pending, held>>
runLogVars == <<logging, gateway, talkVars, logger, wrote, sealed, kept, late, expired>>

Stages == {"setup", "bundle", "started", "work", "transcript", "finished", "unlogged",
           "returned", "crashed"}

Blocks == {"text", "tool"}
Contents == UNION {[1 .. n -> Blocks] : n \in 1 .. MaxBlocks}
NoResponse == [id |-> 0, blocks |-> <<>>]

ToolsOf(i, blocks) == {<<i, k>> : k \in {k \in DOMAIN blocks : blocks[k] = "tool"}}
Asked == UNION {ToolsOf(i, said[i]) : i \in DOMAIN said}

Line(kind, of, blocks) == [kind |-> kind, of |-> of, blocks |-> blocks]
Response(i, blocks) == Line("response", <<i, 0>>, blocks)
Call(t) == Line("tool_call", t, <<>>)
Result(t) == Line("tool_result", t, <<>>)
Rejection(t) == Line("validator_rejection", t, <<>>)
ReAsk(i) == Line("request", <<i, 0>>, <<>>)
Message == Line("sdk_message", <<0, 0>>, <<>>)
Error == Line("error", <<0, 0>>, <<>>)

NewLogger == [lines |-> <<>>, dropped |-> 0, responses |-> 0, requests |-> 0, capped |-> FALSE]
Unsealed == [lines |-> <<>>, dropped |-> 0]

RunLogInit ==
  /\ logging = "setup" /\ gateway \in {"sdk", "direct"}
  /\ said = <<>> /\ answered = {} /\ pending = NoResponse /\ held = <<>>
  /\ logger = NewLogger
  /\ wrote = {} /\ sealed = Unsealed
  /\ kept = [objects |-> {}, started |-> "none", finished |-> "none"]
  /\ late = {} /\ expired = FALSE
-----------------------------------------------------------------------------
(* RunLogger.  Room is left for the stop line; once a line did not fit, none *)
(* is taken any more.                                                        *)
Reserve == 1

Added(l, e) ==
  LET m == IF e.kind = "response" THEN [l EXCEPT !.responses = @ + 1] ELSE l IN
  IF l.capped \/ Len(l.lines) + 1 > Cap - Reserve
  THEN [m EXCEPT !.capped = TRUE, !.dropped = @ + 1]
  ELSE [m EXCEPT !.lines = Append(@, e)]

AddedAll(l, events) == FoldLeft(Added, l, events)

\* A line that does not parse, for one because an image is in it, is dropped alone.
Unparsed(l) == [l EXCEPT !.dropped = @ + 1]

\* A scrubber may make the stop line longer than its reserve: lines give way from the end.
Serialized(l, size) ==
  LET over == Len(l.lines) + size - Cap IN
  IF over <= 0 THEN [lines |-> l.lines, dropped |-> l.dropped]
  ELSE [lines |-> SubSeq(l.lines, 1, Len(l.lines) - over), dropped |-> l.dropped + over]
-----------------------------------------------------------------------------
(* SdkStreamTranscriber.  The frames of one response become one line, which  *)
(* what came between them follows.                                           *)
Calls(i, blocks) ==
  SelectSeq([k \in DOMAIN blocks |-> Call(<<i, k>>)], LAMBDA c : blocks[c.of[2]] = "tool")

Emission ==
  IF pending = NoResponse THEN held
  ELSE <<Response(pending.id, pending.blocks)>> \o Calls(pending.id, pending.blocks) \o held

Flushed == pending' = NoResponse /\ held' = <<>>

\* Mutant: an event is logged as it comes.
HeardAtOnce(e) == logger' = Added(logger, e) /\ UNCHANGED held

\* While a response is assembled an event waits behind it.
Heard(e) ==
  IF pending = NoResponse THEN logger' = Added(logger, e) /\ UNCHANGED held
  ELSE held' = Append(held, e) /\ UNCHANGED logger

Turn == Len(said)
Unanswered == Asked \ answered
Talking(g) == logging = "work" /\ gateway = g
StillTalking == UNCHANGED <<logging, gateway, wrote, sealed, kept, late, expired>>

\* A follow-up is sent only once every tool of the last response has answered.
MayRespond == /\ Turn < MaxTurns /\ Unanswered = {}
              /\ Turn > 0 => ToolsOf(Turn, said[Turn]) # {}

FrameOfNext(b) ==
  /\ Talking("sdk") /\ MayRespond
  /\ said' = Append(said, <<b>>)
  /\ logger' = AddedAll(logger, Emission)
  /\ pending' = [id |-> Turn + 1, blocks |-> <<b>>] /\ held' = <<>>
  /\ UNCHANGED answered /\ StillTalking

\* Tools of the first frames run, and answer, before the last frame has come.
FrameOfSame(b) ==
  /\ Talking("sdk") /\ pending # NoResponse
  /\ Len(said[Turn]) < MaxBlocks
  /\ said' = [said EXCEPT ![Turn] = Append(@, b)]
  /\ pending' = [pending EXCEPT !.blocks = Append(@, b)]
  /\ UNCHANGED <<answered, held, logger>> /\ StillTalking

ToolAnswers(t) ==
  /\ Talking("sdk") /\ t \in Unanswered
  /\ answered' = answered \cup {t}
  /\ Heard(Result(t))
  /\ UNCHANGED <<said, pending>> /\ StillTalking

\* The terminal tool logs at once that it handed a submission back; the stream brings the
\* result.
Rejects(t) ==
  /\ Talking("sdk") /\ t \in Unanswered /\ pending # NoResponse
  /\ answered' = answered \cup {t}
  /\ logger' = Added(logger, Rejection(t)) /\ held' = Append(held, Result(t))
  /\ UNCHANGED <<said, pending>> /\ StillTalking

\* A system message; one is enough to come between two frames.
SystemMessage ==
  /\ Talking("sdk") /\ Message \notin ToSet(logger.lines) \cup ToSet(held)
  /\ Heard(Message)
  /\ UNCHANGED <<said, answered, pending>> /\ StillTalking

Ended == /\ logging' = "transcript"
         /\ UNCHANGED <<gateway, said, answered, wrote, sealed, kept, late, expired>>

\* The result message of the stream, its end without one, or a loop that is left before.
StreamResult ==
  /\ Talking("sdk")
  /\ logger' = Added(AddedAll(logger, Emission), Message)
  /\ Flushed /\ Ended

StreamLeft ==
  /\ Talking("sdk")
  /\ logger' = AddedAll(logger, Emission)
  /\ Flushed /\ Ended

\* The response that preceded the failure is logged first.  What the runner does not make
\* a stop of it throws, and withRunLog logs that too.
StreamBreaks ==
  /\ Talking("sdk")
  /\ LET broken == Added(AddedAll(logger, Emission), Error) IN
       logger' \in {broken, Added(broken, Error)}
  /\ Flushed /\ Ended
-----------------------------------------------------------------------------
(* loggedMessagesCreate and loggedModelPort: one call, one response.  Only   *)
(* the first request is in the bundle; a re-ask is logged, a follow-up of    *)
(* the tool loop is counted.                                                 *)
Requested(reAsk) ==
  LET l == [logger EXCEPT !.requests = @ + 1] IN
  IF reAsk /\ l.requests > 1 THEN Added(l, ReAsk(l.requests)) ELSE l

Asks(reAsk, blocks) ==
  /\ Talking("direct") /\ Turn < MaxTurns
  /\ IF reAsk THEN Asked \cup ToolsOf(1, blocks) = {} ELSE MayRespond
  /\ said' = Append(said, blocks)
  /\ logger' = Added(Requested(reAsk), Response(Turn + 1, blocks))
  /\ UNCHANGED <<answered, pending, held>> /\ StillTalking

ToolRuns(t) ==
  /\ Talking("direct") /\ t \in Unanswered
  /\ answered' = answered \cup {t}
  /\ LET called == Added(logger, Call(t)) IN
       logger' \in {Added(called, Result(t)), Unparsed(called)}
  /\ UNCHANGED <<said, pending, held>> /\ StillTalking

\* The work returns, or its last call fails and it throws.
WorkReturns ==
  /\ Talking("direct")
  /\ Ended /\ UNCHANGED <<pending, held, logger>>

WorkThrows ==
  /\ Talking("direct")
  /\ logger' = Added(Requested(FALSE), Error)
  /\ Ended /\ UNCHANGED <<pending, held>>
-----------------------------------------------------------------------------
(* withRunLog: a write is confirmed, refused, or given up at its deadline;   *)
(* what was given up may still land.                                         *)
Goes(from, to) == logging = from /\ logging' = to /\ UNCHANGED <<gateway, talkVars, expired>>

WithObject(object) == [kept EXCEPT !.objects = @ \cup {object}]

Puts(object) ==
  \/ kept' = WithObject(object) /\ wrote' = wrote \cup {object} /\ UNCHANGED late
  \/ UNCHANGED <<kept, wrote, late>>
  \/ late' = late \cup {object} /\ UNCHANGED <<kept, wrote>>

\* Whether the row says that its object was written.
Says(object) == IF object \in wrote THEN "written" ELSE "not written"

WithStarted == [kept EXCEPT !.started = Says("bundle")]

\* The finished row refers to the started one.
WithFinished ==
  IF kept.started = "none" THEN kept ELSE [kept EXCEPT !.finished = Says("transcript")]

Inserts(row, k) ==
  /\ \/ kept' = k /\ UNCHANGED late
     \/ UNCHANGED <<kept, late>>
     \/ late' = late \cup {row} /\ UNCHANGED kept
  /\ UNCHANGED wrote

\* Without a context, a sink or a bundle the work is done all the same.
Prepares ==
  /\ \E to \in {"bundle", "unlogged"} : Goes("setup", to)
  /\ UNCHANGED <<logger, wrote, sealed, kept, late>>

Unlogged == Goes("unlogged", "returned") /\ UNCHANGED <<logger, wrote, sealed, kept, late>>

WritesBundle ==
  /\ Goes("bundle", "started") /\ Puts("bundle")
  /\ UNCHANGED <<logger, sealed>>

InsertsStarted ==
  /\ Goes("started", "work") /\ Inserts("started", WithStarted)
  /\ logger' = IF gateway = "sdk" THEN [logger EXCEPT !.requests = 1] ELSE logger
  /\ UNCHANGED sealed

\* A transcript that cannot be serialized is not written.
WritesTranscript ==
  /\ Goes("transcript", "finished")
  /\ \E size \in {1, 2} : sealed' = Serialized(logger, size)
  /\ Puts("transcript")
  /\ UNCHANGED logger

\* The worker is done with the run, or dies: its memory of it is gone.
Forgets ==
  /\ said' = <<>> /\ answered' = {} /\ pending' = NoResponse /\ held' = <<>>
  /\ logger' = NewLogger /\ sealed' = Unsealed

InsertsFinished ==
  /\ logging = "finished" /\ logging' = "returned"
  /\ Inserts("finished", WithFinished) /\ Forgets
  /\ UNCHANGED <<gateway, expired>>

Crashes ==
  /\ logging \notin {"returned", "crashed"}
  /\ logging' = "crashed" /\ Forgets
  /\ UNCHANGED <<gateway, wrote, kept, late, expired>>

\* What storage or database was still at work on is done, or is not.
Lands(write) ==
  /\ write \in late /\ late' = late \ {write}
  /\ kept' \in {kept, CASE write = "started" -> WithStarted
                       [] write = "finished" -> WithFinished
                       [] OTHER -> WithObject(write)}
  /\ UNCHANGED <<logging, gateway, talkVars, logger, wrote, sealed, expired>>
-----------------------------------------------------------------------------
(* retention.go: the objects of an expired day go first, then its rows.      *)
Rests == UNCHANGED <<logging, gateway, talkVars, logger, wrote, sealed, late>>

\* Bound: a run ends, and what it wrote lands, within its retention.
Expires ==
  /\ logging \in {"returned", "crashed"} /\ late = {} /\ ~expired
  /\ expired' = TRUE
  /\ UNCHANGED kept /\ Rests

Forgotten == [kept EXCEPT !.started = "deleted", !.finished = "deleted"]

\* RemovePrefix of a listed day may fail midway; the deletion of the rows may fail after it.
RemovesDay ==
  /\ expired /\ kept.objects # {}
  /\ \/ kept' = [(IF kept.started = "none" THEN kept ELSE Forgotten) EXCEPT !.objects = {}]
     \/ \E left \in SUBSET kept.objects : kept' = [kept EXCEPT !.objects = left]
  /\ UNCHANGED expired /\ Rests

\* DeleteAgentRunsRecordedBefore: rows whose day is not listed, or no longer.
DeletesLeftovers ==
  /\ expired /\ kept.objects = {} /\ kept.started \notin {"none", "deleted"}
  /\ kept' = Forgotten
  /\ UNCHANGED expired /\ Rests
-----------------------------------------------------------------------------
RunLogNext ==
  \/ Prepares \/ Unlogged \/ WritesBundle \/ InsertsStarted
  \/ \E b \in Blocks : FrameOfNext(b) \/ FrameOfSame(b)
  \/ \E t \in Asked : ToolAnswers(t) \/ Rejects(t) \/ ToolRuns(t)
  \/ SystemMessage \/ StreamResult \/ StreamLeft \/ StreamBreaks
  \/ \E reAsk \in BOOLEAN, blocks \in Contents : Asks(reAsk, blocks)
  \/ WorkReturns \/ WorkThrows
  \/ WritesTranscript \/ InsertsFinished \/ Crashes
  \/ \E write \in {"bundle", "started", "transcript", "finished"} : Lands(write)
  \/ Expires \/ RemovesDay \/ DeletesLeftovers

RunLogSpec == RunLogInit /\ [][RunLogNext]_runLogVars
-----------------------------------------------------------------------------
\* One type invariant: every piece of the log holds a value the code gives it.
RunLogTypeOK ==
  /\ logging \in Stages /\ gateway \in {"sdk", "direct"}
  /\ said \in Seq(Contents) /\ Len(said) <= MaxTurns /\ answered \subseteq Asked
  /\ pending.id \in 0 .. Turn /\ (pending = NoResponse \/ pending.blocks \in Contents)
  /\ logger.dropped \in Nat /\ logger.responses \in 0 .. MaxTurns
  /\ logger.requests \in 0 .. MaxTurns + 1 /\ logger.capped \in BOOLEAN
  /\ wrote \subseteq {"bundle", "transcript"}
  /\ kept.objects \subseteq {"bundle", "transcript"}
  /\ {kept.started, kept.finished} \subseteq {"none", "written", "not written", "deleted"}
  /\ late \subseteq {"bundle", "started", "transcript", "finished"} /\ expired \in BOOLEAN

\* The index is true: a row that says an object was written is never without it, other than
\* while retention forgets the run, and no object is left behind by it.
IndexIsTrue ==
  /\ kept.started = "written" => "bundle" \in kept.objects \/ expired
  /\ kept.finished = "written" => "transcript" \in kept.objects \/ expired
  /\ kept.finished # "none" => kept.started # "none"
  /\ "deleted" \in {kept.started, kept.finished} => kept.objects = {}

Before(lines, j, line) == \E i \in 1 .. j - 1 : lines[i] = line

\* A transcript reads in order, although tools answer while their response still streams:
\* a call comes after its response, a result after its call, and no response twice.
InOrder(lines) ==
  \A j \in DOMAIN lines :
    /\ lines[j].kind = "tool_call" =>
         \E i \in 1 .. j - 1 : lines[i].kind = "response" /\ lines[i].of[1] = lines[j].of[1]
    /\ lines[j].kind = "tool_result" => Before(lines, j, Call(lines[j].of))
    /\ lines[j].kind = "response" => ~Before(lines, j, lines[j])

\* A transcript that does not say it was cut leaves nothing out, and the row counts the
\* turns that were cut from it too.
NothingMissing ==
  logging \in {"transcript", "finished"} =>
    /\ logger.responses = Turn
    /\ gateway = "direct" => logger.requests >= Turn
    /\ logger.dropped = 0 =>
         /\ \A i \in 1 .. Turn : Response(i, said[i]) \in ToSet(logger.lines)
         /\ \A t \in answered : Result(t) \in ToSet(logger.lines)
    /\ logging # "transcript" /\ sealed.dropped = 0 => sealed.lines = logger.lines
    /\ \A e \in ToSet(logger.lines) : e.kind = "response" => e = Response(e.of[1], said[e.of[1]])

\* Whatever storage, database, stream and worker do, what is kept of a run is what happened
\* in it.
RunLogAgrees ==
  /\ RunLogTypeOK /\ IndexIsTrue /\ NothingMissing
  /\ InOrder(logger.lines) /\ InOrder(sealed.lines)
  /\ Len(sealed.lines) < Cap
=============================================================================
