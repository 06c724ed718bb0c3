------------------------------ MODULE LogFollow ------------------------------
(* `freepod log --follow`: the client that reads, prints and reconnects     *)
(* (cli/src/freepod/logs.py), the platform's stream with its polling cursor *)
(* (api/app/services/log_stream.py, api/users.py) and the log store.        *)
(*                                                                          *)
(* A line is its position in the store; stamp[l] is its nanosecond, which   *)
(* several lines may share. The present is later than every stored line. A  *)
(* junk line is one the access log's render skips. The cursor tells lines of *)
(* one nanosecond apart by their text, so lines that share one are taken to *)
(* differ in it: of equal ones the code would keep the first.               *)
EXTENDS Integers, FiniteSets, FiniteSetsExt, Sequences, SequencesExt

CONSTANTS TailLines,     \* --tail of the first connect
          DefaultTail,   \* log_tail_lines
          Batch,         \* log_max_tail_lines
          BatchFactor,   \* how often the batch may be raised, 8 in the code
          MaxStreams,    \* log_max_streams_per_user
          Attempts,      \* LOG_RECONNECT_ATTEMPTS
          MaxLines,      \* bound: lines the application writes
          MaxDrops       \* bound: lost connections and ended streams

ASSUME FollowAssumption ==
  {TailLines, DefaultTail, Batch, BatchFactor, MaxStreams, Attempts, MaxLines, MaxDrops} \subseteq Nat \ {0}

VARIABLES
  stamp,    \* the store: the nanosecond of every line, in order
  junk,     \* lines the log's render skips
  stream,   \* the platform's end of the connection
  streams,  \* streams the registry counts for this user
  wire,     \* events sent and not yet received
  client,   \* the follow loop
  printed,  \* history: lines printed
  sent,     \* history: lines this stream has emitted
  twice,    \* history: a stream emitted a line twice
  drops

followVars == <<stamp, junk, stream, streams, wire, client, printed, sent, twice, drops>>

None == -1
LifetimeEvent == 0    \* on the wire, a line is its number
ErrorEvent == -1
Lines == DOMAIN stamp
Present == IF stamp = <<>> THEN 1 ELSE Last(stamp) + 1

Closed == [open |-> FALSE, cursor |-> None, at |-> {}, batch |-> Batch, polling |-> None]

FollowInit ==
  /\ \E n \in 0..MaxLines : stamp = [l \in 1..n |-> 1]
  /\ junk \in SUBSET Lines
  /\ stream = Closed /\ streams = 0 /\ wire = <<>>
  /\ client = [state |-> "connect", cursor |-> None, failures |-> 0, first |-> TRUE, progress |-> FALSE]
  /\ printed = {} /\ sent = {} /\ twice = FALSE /\ drops = 0

-----------------------------------------------------------------------------
(* The store.                                                               *)

\* The application writes; the line shares the last one's nanosecond or not.
AppLogs(t, skip) ==
  /\ Len(stamp) < MaxLines
  /\ t \in {Present} \union Range(stamp) /\ \A l \in Lines : stamp[l] <= t
  /\ stamp' = Append(stamp, t)
  /\ junk' = IF skip THEN junk \union {Len(stamp) + 1} ELSE junk
  /\ UNCHANGED <<stream, streams, wire, client, printed, sent, twice, drops>>

\* Mutant of Forward: reading resumes after the nanosecond it is given.
Forward_After(start, limit) ==
  {l \in Lines : stamp[l] > start /\ Cardinality({m \in Lines : stamp[m] > start /\ m <= l}) <= limit}

\* query_range, forward from a nanosecond or backward from the present.
Forward(start, limit) == {l \in Lines : stamp[l] >= start /\ Cardinality({m \in Lines : stamp[m] >= start /\ m <= l}) <= limit}
Backward(limit) == {l \in Lines : l > Len(stamp) - limit}

\* _Cursor.should_emit of a batch, and where advance leaves the cursor.
Emitted(s, batch) == {l \in batch : s.cursor = None \/ stamp[l] > s.cursor \/ (stamp[l] = s.cursor /\ l \notin s.at)}
Advance(s, batch) ==
  LET new == Emitted(s, batch)
      top == Max({stamp[l] : l \in new})
      here == {l \in new : stamp[l] = top} IN
  IF new = {} THEN s
  ELSE [s EXCEPT !.cursor = top, !.at = IF top = s.cursor THEN s.at \union here ELSE here]

\* The events of a batch: its lines in order, without those render skips.
InOrder(lines) ==
  CHOOSE e \in [1..Cardinality(lines) -> lines] : \A i, j \in DOMAIN e : i < j => e[i] < e[j]
Events(lines) == InOrder(lines \ junk)

-----------------------------------------------------------------------------
(* The platform: get_deployment_log, then stream.                           *)

\* fetch_initial before the response starts: the newest lines, or everything
\* from the client's resume point on; then the stream is counted and opened.
Connect ==
  LET limit == IF client.first THEN TailLines ELSE DefaultTail
      initial == IF client.cursor = None THEN Backward(limit) ELSE Forward(client.cursor, limit)
      opened == [Closed EXCEPT !.open = TRUE] IN
  /\ client.state = "connect" /\ streams < MaxStreams
  /\ stream' = Advance(opened, initial)
  /\ wire' = Events(initial) /\ sent' = initial
  /\ streams' = streams + 1
  /\ client' = [client EXCEPT !.state = "reading", !.progress = FALSE]
  /\ UNCHANGED <<stamp, junk, printed, twice, drops>>

\* 503 when the store is down, 400 when too many streams are counted: an
\* answer that ends the command, not an interruption.
Refuse ==
  /\ client.state = "connect"
  /\ \/ streams >= MaxStreams /\ UNCHANGED drops
     \/ drops < MaxDrops /\ drops' = drops + 1
  /\ client' = [client EXCEPT !.state = "failed"]
  /\ UNCHANGED <<stamp, junk, stream, streams, wire, printed, sent, twice>>

\* A poll: from the cursor, or from the present while nothing was delivered.
PollBegins ==
  /\ stream.open /\ stream.polling = None
  /\ stream' = [stream EXCEPT !.polling = IF stream.cursor = None THEN Present ELSE stream.cursor]
  /\ UNCHANGED <<stamp, junk, streams, wire, client, printed, sent, twice, drops>>

\* Mutant of PollEnds: a full batch that moved nothing is asked for again.
PollEnds_SameBatch ==
  LET batch == Forward(stream.polling, stream.batch)
      new == Emitted(stream, batch) IN
  /\ stream.open /\ stream.polling # None
  /\ stream' = [Advance(stream, batch) EXCEPT !.polling = None]
  /\ wire' = wire \o Events(new)
  /\ sent' = sent \union new /\ twice' = (twice \/ new \intersect sent # {})
  /\ UNCHANGED <<stamp, junk, streams, client, printed, drops>>

\* Its answer. A full batch that moved nothing raises the limit.
PollEnds ==
  LET batch == Forward(stream.polling, stream.batch)
      new == Emitted(stream, batch)
      stuck == new = {} /\ Cardinality(batch) >= stream.batch IN
  /\ stream.open /\ stream.polling # None
  /\ stuck => stream.batch < Batch * BatchFactor
  /\ stream' = [Advance(stream, batch) EXCEPT
                  !.polling = None,
                  !.batch = IF new # {} THEN Batch ELSE IF stuck THEN stream.batch * 2 ELSE stream.batch]
  /\ wire' = wire \o Events(new)
  /\ sent' = sent \union new /\ twice' = (twice \/ new \intersect sent # {})
  /\ UNCHANGED <<stamp, junk, streams, client, printed, drops>>

\* The store fails mid-stream, or the cursor cannot advance: said in band, and
\* the stream closed.
StreamFails ==
  /\ stream.open /\ stream.polling # None
  /\ \/ drops < MaxDrops /\ drops' = drops + 1
     \/ /\ LET batch == Forward(stream.polling, stream.batch) IN
           Emitted(stream, batch) = {} /\ Cardinality(batch) >= stream.batch
        /\ stream.batch >= Batch * BatchFactor /\ UNCHANGED drops
  /\ stream' = Closed /\ streams' = streams - 1
  /\ wire' = Append(wire, ErrorEvent)
  /\ UNCHANGED <<stamp, junk, client, printed, sent, twice>>

\* log_stream_max_lifetime_seconds after it opened, the stream ends cleanly.
LifetimeEnds ==
  /\ stream.open /\ stream.polling = None /\ drops < MaxDrops /\ drops' = drops + 1
  /\ stream' = Closed /\ streams' = streams - 1
  /\ wire' = Append(wire, LifetimeEvent)
  /\ UNCHANGED <<stamp, junk, client, printed, sent, twice>>

\* The generator of a lost connection is closed at its next write.
NoticeGone ==
  /\ streams > (IF stream.open THEN 1 ELSE 0)
  /\ streams' = streams - 1
  /\ UNCHANGED <<stamp, junk, stream, wire, client, printed, sent, twice, drops>>

-----------------------------------------------------------------------------
(* The client: stream_once and follow_stream.                               *)

PrintLine ==
  /\ client.state = "reading" /\ wire # <<>> /\ wire[1] \in Lines
  /\ wire' = SubSeq(wire, 2, Len(wire))
  /\ printed' = printed \union {wire[1]}
  /\ client' = [client EXCEPT !.cursor = stamp[wire[1]], !.progress = TRUE]
  /\ UNCHANGED <<stamp, junk, stream, streams, sent, twice, drops>>

\* Progress resets the budget of failures, and a lifetime is followed by a
\* reconnect that says nothing.
Reconnects ==
  /\ client.state = "reading" /\ wire # <<>> /\ wire[1] = LifetimeEvent
  /\ wire' = <<>>
  /\ client' = [client EXCEPT !.state = "connect", !.first = FALSE,
                              !.failures = IF client.progress THEN 0 ELSE @]
  /\ UNCHANGED <<stamp, junk, stream, streams, printed, sent, twice, drops>>

\* An error event ends the command.
Interrupted ==
  /\ client.state = "reading" /\ wire # <<>> /\ wire[1] = ErrorEvent
  /\ wire' = <<>> /\ client' = [client EXCEPT !.state = "failed"]
  /\ UNCHANGED <<stamp, junk, stream, streams, printed, sent, twice, drops>>

\* One more failure: another try after a pause, or giving up.
Retry(failures) ==
  client' = [client EXCEPT !.failures = failures, !.first = FALSE,
                           !.state = IF failures > Attempts THEN "gaveup" ELSE "connect"]

\* The connection is lost, with everything on the wire, or cannot be made: it
\* raises, or -- with what was received already counted -- just ends.
Drop ==
  /\ client.state \in {"connect", "reading"} /\ drops < MaxDrops /\ drops' = drops + 1
  /\ wire' = <<>> /\ stream' = Closed
  /\ \/ Retry(client.failures + 1)
     \/ client.state = "reading" /\ Retry((IF client.progress THEN 0 ELSE client.failures) + 1)
  /\ UNCHANGED <<stamp, junk, streams, printed, sent, twice>>

FollowNext ==
  \/ \E t \in 1..MaxLines, skip \in BOOLEAN : AppLogs(t, skip)
  \/ Connect \/ Refuse \/ PollBegins \/ PollEnds \/ StreamFails \/ LifetimeEnds \/ NoticeGone
  \/ PrintLine \/ Reconnects \/ Interrupted \/ Drop

\* The event loop polls, the client reads and reconnects, dead streams are
\* noticed; nothing makes the application write or a connection fail.
FollowFairness ==
  /\ WF_followVars(PollBegins) /\ WF_followVars(PollEnds) /\ WF_followVars(NoticeGone)
  /\ WF_followVars(Connect) /\ WF_followVars(PrintLine) /\ WF_followVars(Reconnects)
  /\ WF_followVars(Interrupted)

FollowSpec == FollowInit /\ [][FollowNext]_followVars /\ FollowFairness

Following == client.state \in {"connect", "reading"}

-----------------------------------------------------------------------------
FollowTypeOK ==
  /\ junk \subseteq Lines /\ printed \subseteq Lines /\ streams \in 0..MaxStreams
  /\ client.state \in {"connect", "reading", "failed", "gaveup"}
  /\ stream.cursor \in {None} \union Range(stamp)

\* Resuming is without gaps: between the lines the client has printed and the
\* newest of them, through drops, resumes, full batches and lines that share a
\* nanosecond, no line of an earlier nanosecond is missing.
NoGap ==
  \A l \in Lines \ (printed \union junk) :
    ~ \E a \in printed, b \in printed : stamp[a] < stamp[l] /\ stamp[l] < stamp[b]

\* Within one stream no line is delivered twice, whatever shares its
\* nanosecond; only a reconnect may repeat one.
OncePerStream == ~twice

\* Every line written at or after the first one printed is printed in the end,
\* unless the command said that it stopped.
LinesArrive ==
  \A n \in 1..MaxLines :
    (n \in Lines \ junk /\ client.cursor # None /\ (\E p \in printed : stamp[p] < stamp[n]))
      ~> (n \in printed \/ ~Following)

\* What a follower is shown is what was logged, without a gap before the
\* cursor and without a repetition in a stream.
StreamsAreExact == FollowTypeOK /\ NoGap /\ OncePerStream
=============================================================================
